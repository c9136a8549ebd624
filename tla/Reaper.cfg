SPECIFICATION FairSpec
INVARIANTS SignalsGuarded KillsReachGroup
PROPERTIES KillIsReaped
