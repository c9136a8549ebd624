---------------------------- MODULE MCTransport ----------------------------
(* Constants for the runs of Transport.                                    *)
EXTENDS Transport

Auth(method, key, signature) ==
  [kind |-> "auth", method |-> method, key |-> key, signature |-> signature]

\* Keeps the protocol; guesses, and opens a channel before it may re-key.
Keeper ==
  [guesses |-> {"none", "wrong", "right"}, logins |-> {Auth("publickey", "known", "valid")},
   session |-> {Msg("open"), Msg("data")}, rogue |-> {}, traffic |-> 13]

\* Tries every login and sends packets the stage does not expect.
Breaker ==
  [guesses |-> {"none"},
   logins |-> {Auth("password", "unknown", "none")} \cup
     {Auth("publickey", k, g) : k \in {"known", "unknown"}, g \in {"valid", "invalid", "none"}},
   session |-> {Msg("global")},
   rogue |-> {Msg("ignore"), Msg("newkeys"), HybridInit, KexInit(1, "none", FALSE),
              [HybridInit EXCEPT !.half = "malformed"],
              [KexInit(1, "none", FALSE) EXCEPT !.offer = "no-common-kex"],
              [kind |-> "service", name |-> "ssh-connection"]},
   traffic |-> 4]

AnyProfile == {Keeper, Breaker}
=============================================================================
