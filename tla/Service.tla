------------------------------- MODULE Service -------------------------------
(***************************************************************************)
(* What crates/quantumssh-core/src/server.rs promises of a whole service,  *)
(* without its loop, its tasks or its signals (ADR-0028): sessions open    *)
(* only while the service is up; each ends once and leaves one audit       *)
(* record; a clean end leaves none behind.  Server implements it.          *)
(***************************************************************************)
CONSTANT Conns   \* incoming connections

VARIABLES
  phase,     \* up, draining, down, or failed: the listener is gone
  session    \* per connection: none, open, cut (ended, no record), closed

vars == <<phase, session>>

Init == phase = "up" /\ session = [c \in Conns |-> "none"]

over(s) == \A c \in Conns : s[c] \in {"none", "closed"}

\* A drain may end with its last session.
settles ==
  \/ phase' = phase
  \/ phase = "draining" /\ phase' = "down" /\ over(session')

Open(c) ==
  /\ phase = "up" /\ session[c] = "none"
  /\ session' = [session EXCEPT ![c] = "open"]
  /\ UNCHANGED phase

\* The session ends and says so.
Close(c) ==
  /\ phase \in {"up", "draining"} /\ session[c] = "open"
  /\ session' = [session EXCEPT ![c] = "closed"]
  /\ UNCHANGED phase

\* The session is torn down; only a failed service leaves it without record.
Cut(c) ==
  /\ phase # "down" /\ session[c] = "open"
  /\ session' = [session EXCEPT ![c] = "cut"]
  /\ UNCHANGED phase

Record(c) ==
  /\ phase \in {"up", "draining"} /\ session[c] = "cut"
  /\ session' = [session EXCEPT ![c] = "closed"]
  /\ settles

Drain == phase = "up" /\ phase' = "draining" /\ UNCHANGED session

Stop == phase \in {"up", "draining"} /\ phase' = "down" /\ over(session) /\ UNCHANGED session

Fail == phase = "up" /\ phase' = "failed" /\ UNCHANGED session

Next == Drain \/ Stop \/ Fail \/ \E c \in Conns : Open(c) \/ Close(c) \/ Cut(c) \/ Record(c)

Spec == Init /\ [][Next]_vars
=============================================================================
