SPECIFICATION Spec
CONSTANTS
  Offers <- AnyOffer
  Inits <- AnyInit
  Rounds = 2
  MaxTrouble = 2
INVARIANTS Agreement KeysFresh
PROPERTIES CompatibleServed
