----------------------------- MODULE MCAdmission -----------------------------
(* Instances of Admission for TLC: two hosts, one of them with two spellings. *)
EXTENDS Admission, TLC

\* One IPv6 /64 reached from two addresses, and one IPv4 host.
MCAddrs == {[family |-> "v6", net |-> 1, host |-> 1],
            [family |-> "v6", net |-> 1, host |-> 2],
            [family |-> "v4", net |-> 2, host |-> 1]}

MCSymmetry == Permutations(Guards)
=============================================================================
