------------------------------ MODULE Admission ------------------------------
(***************************************************************************)
(* Connection admission control (crates/quantumssh-core/src/admission.rs). *)
(*                                                                         *)
(* One mutex protects the counters and the per-source map, so everything   *)
(* done under one lock acquisition is one step.  What is NOT atomic in the *)
(* code is not atomic here: the accept loop reads the clock before it      *)
(* waits for the lock (Arrive, then try_admit), and mark_authenticated     *)
(* swaps the guard's flag before it takes the lock (mark_swap, then        *)
(* mark_release).  Guards are dropped by connection tasks in between.      *)
(***************************************************************************)
EXTENDS Integers, FiniteSets

CONSTANTS
  Guards,          \* identities of ConnectionGuard values, reused after drop
  Addrs,           \* peer addresses: [family, net, host] records
  max_connections, max_half_open, max_per_source,   \* Limits
  accept_rate,     \* Limits: tokens per second
  accept_burst,    \* Limits: bucket capacity
  SWEEP_INTERVAL,  \* cap-passing try_admit calls between two sweeps
  Second,          \* milliseconds in a second
  TickSteps,       \* how far the clock may move in one step, in milliseconds
  MaxLockWait,     \* longest wait between reading the clock and the lock
  MaxTime          \* bound: the clock stops here

ASSUME LimitsAssumption ==
  /\ IsFiniteSet(Guards)
  /\ Cardinality(Guards) >= max_connections
  /\ max_connections \in Nat \ {0}
  /\ max_half_open \in Nat \ {0}
  /\ max_per_source \in Nat \ {0}
  /\ accept_rate \in Nat \ {0}
  /\ accept_burst \in Nat \ {0}
  /\ SWEEP_INTERVAL \in Nat \ {0}

\* Stands for the address of a guard that does not exist.
NoAddr == [family |-> "none", net |-> 0, host |-> 0]

ASSUME AddrsAssumption == NoAddr \notin Addrs

ASSUME TimeAssumption ==
  /\ Second \in Nat \ {0}
  /\ TickSteps \subseteq Nat \ {0}
  /\ MaxLockWait \in Nat
  /\ MaxTime \in Nat

VARIABLES
  connections,             \* State::connections
  half_open,               \* State::half_open
  tracked,                 \* the keys present in State::sources
  sources,                 \* State::sources, meaningful on tracked
  admissions_since_sweep,  \* State::admissions_since_sweep
  guard,                   \* life cycle of every guard
  peer,                    \* the address each guard was admitted for
  call,                    \* the try_admit call in flight: argument and clock
  now,                     \* the monotonic clock, milliseconds
  credit,                  \* history: what an exact bucket would hold
  waited                   \* history: what the lock waits of admitted calls were worth

vars == <<connections, half_open, tracked, sources, admissions_since_sweep,
          guard, peer, call, now, credit, waited>>
-----------------------------------------------------------------------------
(* Addresses and buckets.                                                  *)

\* Mutant: no /64 aggregation and no canonical form.
source_key_exact(a) == <<a.family, a.net, a.host>>

\* V4-mapped addresses canonicalise to V4; IPv6 is aggregated by /64.
source_key(a) ==
  IF a.family = "v6" THEN <<"v6", a.net, 0>> ELSE <<"v4", a.net, a.host>>

Sources == {source_key(a) : a \in Addrs}

LeastOf(a, b) == IF a <= b THEN a ELSE b

saturating_sub(a, b) == IF a >= b THEN a - b ELSE 0

Buckets == [level : 0..accept_burst, refilled_at : Nat]

full(t) == [level |-> accept_burst, refilled_at |-> t]

\* Whole tokens earned since refilled_at.  Instant::duration_since saturates,
\* so a clock older than refilled_at earns nothing.
tokens_added(b, t) ==
  (saturating_sub(t, b.refilled_at) * accept_rate) \div Second

\* Mutant: refilled_at never moves, so the same time is paid again.
refill_keeps_clock(b, t) ==
  [b EXCEPT !.level = LeastOf(@ + tokens_added(b, t), accept_burst)]

\* Mutant: refilled_at jumps to t, so the remainder is lost.
refill_drops_remainder(b, t) ==
  IF tokens_added(b, t) = 0 THEN b
  ELSE [level |-> LeastOf(b.level + tokens_added(b, t), accept_burst), refilled_at |-> t]

\* Mutant: a reading older than refilled_at moves it back.
refill_moves_back(b, t) ==
  LET added == tokens_added(b, t)
      level == LeastOf(b.level + LeastOf(added, accept_burst), accept_burst)
  IN  IF added = 0 THEN [b EXCEPT !.refilled_at = LeastOf(@, t)]
      ELSE [level       |-> level,
            refilled_at |-> IF level = accept_burst THEN t
                            ELSE b.refilled_at + (added * Second) \div accept_rate]

refill(b, t) ==
  LET added == tokens_added(b, t)
      level == LeastOf(b.level + LeastOf(added, accept_burst), accept_burst)
  IN  IF added = 0 THEN b
      ELSE [level       |-> level,
            refilled_at |-> IF level = accept_burst THEN t
                            ELSE b.refilled_at + (added * Second) \div accept_rate]

is_full(b, t) == refill(b, t).level = accept_burst

SourceStates == [half_open : Nat, bucket : Buckets]

\* The value sources keeps for a key that is not in the map.
Absent == [half_open |-> 0, bucket |-> full(0)]
-----------------------------------------------------------------------------
(* Guards.  "marking": the flag is swapped, the lock not yet taken.         *)

GuardStates == {"none", "half_open", "marking", "authenticated"}

Live == {g \in Guards : guard[g] # "none"}

\* Guards whose half-open slot is still counted.
Holding == {g \in Guards : guard[g] \in {"half_open", "marking"}}

HoldingFrom(s) == {g \in Holding : source_key(peer[g]) = s}

\* The try_admit call in flight, if any.
NoCall == [addr |-> NoAddr, at |-> 0]

pending == call # NoCall

Init ==
  /\ connections = 0
  /\ half_open = 0
  /\ tracked = {}
  /\ sources = [s \in Sources |-> Absent]
  /\ admissions_since_sweep = 0
  /\ guard = [g \in Guards |-> "none"]
  /\ peer = [g \in Guards |-> NoAddr]
  /\ call = NoCall
  /\ now = 0
  /\ credit = [s \in Sources |-> accept_burst * Second]
  /\ waited = [s \in Sources |-> 0]
-----------------------------------------------------------------------------
(* The accept loop.                                                        *)

\* accept() returned: the arguments of try_admit are evaluated, clock included.
Arrive(a) ==
  /\ ~pending
  /\ call' = [addr |-> a, at |-> now]
  /\ UNCHANGED <<connections, half_open, tracked, sources,
                 admissions_since_sweep, guard, peer, now, credit, waited>>

\* The three non-mutating cap reads, in order; the first that fails decides.
cap_refuses(s) ==
  \/ connections >= max_connections
  \/ half_open >= max_half_open
  \/ s \in tracked /\ sources[s].half_open >= max_per_source

\* The amortised sweep: retain(half_open > 0 || !is_full).  is_full refills
\* the bucket of every entry it looks at, and it looks only at idle ones.
sweep_due == admissions_since_sweep + 1 >= SWEEP_INTERVAL

swept(s) ==
  /\ sweep_due
  /\ s \in tracked
  /\ sources[s].half_open = 0

\* Mutant: the sweep forgets every idle source, its spent bucket too.
retained_busy(t) == {s \in tracked : ~swept(s)}

retained(t) ==
  {s \in tracked : swept(s) => ~is_full(sources[s].bucket, t)}

sources_after_sweep(t) ==
  [s \in Sources |->
     IF s \in retained(t)
     THEN IF swept(s)
          THEN [sources[s] EXCEPT !.bucket = refill(@, t)]
          ELSE sources[s]
     ELSE Absent]

\* The entry the rate check works on: the one in the map or a new full one.
entry_for(s, t) ==
  IF s \in retained(t) THEN sources_after_sweep(t)[s]
  ELSE [half_open |-> 0, bucket |-> full(t)]

\* Mutant: a refused call advances the sweep.
try_admit_cap_refused_counted ==
  /\ pending
  /\ cap_refuses(source_key(call.addr))
  /\ call' = NoCall
  /\ admissions_since_sweep' = (admissions_since_sweep + 1) % SWEEP_INTERVAL
  /\ UNCHANGED <<connections, half_open, tracked, sources, guard, peer, now, credit, waited>>

\* The call returns without a guard and without touching anything.
try_admit_cap_refused ==
  /\ pending
  /\ cap_refuses(source_key(call.addr))
  /\ call' = NoCall
  /\ UNCHANGED <<connections, half_open, tracked, sources,
                 admissions_since_sweep, guard, peer, now, credit, waited>>

\* The caps passed: sweep, then entry().or_insert and the token.
past_caps(s, t) ==
  /\ pending
  /\ ~cap_refuses(s)
  /\ tracked' = retained(t) \cup {s}
  /\ admissions_since_sweep' = IF sweep_due THEN 0
                               ELSE admissions_since_sweep + 1
  /\ call' = NoCall
  /\ UNCHANGED now

try_admit_rate_refused ==
  LET s == source_key(call.addr)
      t == call.at
      e == entry_for(s, t)
      b == refill(e.bucket, t)
  IN  /\ pending
      /\ b.level = 0
      /\ past_caps(s, t)
      /\ sources' = [sources_after_sweep(t) EXCEPT ![s] = [e EXCEPT !.bucket = b]]
      /\ UNCHANGED <<connections, half_open, guard, peer, credit, waited>>

try_admit_ok(g) ==
  LET s == source_key(call.addr)
      t == call.at
      e == entry_for(s, t)
      b == refill(e.bucket, t)
  IN  /\ pending
      /\ guard[g] = "none"
      /\ b.level > 0
      /\ past_caps(s, t)
      /\ sources' = [sources_after_sweep(t) EXCEPT
                       ![s] = [half_open |-> e.half_open + 1,
                               bucket    |-> [b EXCEPT !.level = @ - 1]]]
      /\ connections' = connections + 1
      /\ half_open' = half_open + 1
      /\ guard' = [guard EXCEPT ![g] = "half_open"]
      /\ peer' = [peer EXCEPT ![g] = call.addr]
      /\ credit' = [credit EXCEPT ![s] = @ - Second]
      /\ waited' = [waited EXCEPT ![s] = @ + accept_rate * (now - t)]
-----------------------------------------------------------------------------
(* Connection tasks.                                                       *)

\* Mutant: a second mark_authenticated is not stopped by the swapped flag.
mark_swap_repeats(g) ==
  /\ guard[g] \in {"half_open", "authenticated"}
  /\ guard' = [guard EXCEPT ![g] = "marking"]
  /\ UNCHANGED <<connections, half_open, tracked, sources,
                 admissions_since_sweep, peer, call, now, credit, waited>>

\* mark_authenticated: the swap; a second call returns here (idempotent).
mark_swap(g) ==
  /\ guard[g] = "half_open"
  /\ guard' = [guard EXCEPT ![g] = "marking"]
  /\ UNCHANGED <<connections, half_open, tracked, sources,
                 admissions_since_sweep, peer, call, now, credit, waited>>

\* mark_authenticated: the slots are given back under the lock.
mark_release(g) ==
  LET s == source_key(peer[g]) IN
  /\ guard[g] = "marking"
  /\ guard' = [guard EXCEPT ![g] = "authenticated"]
  /\ half_open' = saturating_sub(half_open, 1)
  /\ sources' = IF s \in tracked
                THEN [sources EXCEPT ![s].half_open = saturating_sub(@, 1)]
                ELSE sources
  /\ UNCHANGED <<connections, tracked, admissions_since_sweep, peer, call,
                 now, credit, waited>>

\* The drop-time prune keeps the entry unless it is idle with a full bucket;
\* is_full is asked, and so refills, only when the entry is idle.
drop_source(s, ended_half_open) ==
  LET left == IF ended_half_open
              THEN saturating_sub(sources[s].half_open, 1)
              ELSE sources[s].half_open
      b    == refill(sources[s].bucket, now)
  IN  /\ s \in tracked
      /\ IF left = 0 /\ b.level = accept_burst
         THEN /\ tracked' = tracked \ {s}
              /\ sources' = [sources EXCEPT ![s] = Absent]
         ELSE /\ tracked' = tracked
              /\ sources' = [sources EXCEPT
                   ![s] = [half_open |-> left,
                           bucket    |-> IF left = 0 THEN b ELSE @.bucket]]

\* ConnectionGuard::drop, when the connection task ends (panic included).
\* mark_authenticated does not suspend, so a guard is never dropped marking.
drop_guard(g) ==
  LET s == source_key(peer[g])
      ended_half_open == guard[g] = "half_open"
  IN  /\ guard[g] \in {"half_open", "authenticated"}
      /\ guard' = [guard EXCEPT ![g] = "none"]
      /\ peer' = [peer EXCEPT ![g] = NoAddr]
      /\ connections' = saturating_sub(connections, 1)
      /\ half_open' = IF ended_half_open THEN saturating_sub(half_open, 1)
                      ELSE half_open
      /\ \/ drop_source(s, ended_half_open)
         \/ s \notin tracked /\ UNCHANGED <<tracked, sources>>
      /\ UNCHANGED <<admissions_since_sweep, call, now, credit, waited>>

\* Time passes; the lock is never waited for longer than MaxLockWait.
Tick(d) ==
  /\ now + d <= MaxTime
  /\ pending => now + d - call.at <= MaxLockWait
  /\ now' = now + d
  /\ credit' = [s \in Sources |->
                  LeastOf(credit[s] + accept_rate * d, accept_burst * Second)]
  /\ UNCHANGED <<connections, half_open, tracked, sources,
                 admissions_since_sweep, guard, peer, call, waited>>

Next ==
  \/ \E a \in Addrs : Arrive(a)
  \/ try_admit_cap_refused
  \/ try_admit_rate_refused
  \/ \E g \in Guards : \/ try_admit_ok(g)
                       \/ mark_swap(g)
                       \/ mark_release(g)
                       \/ drop_guard(g)
  \/ \E d \in TickSteps : Tick(d)

Spec == Init /\ [][Next]_vars
-----------------------------------------------------------------------------
(* Properties.                                                             *)

\* The type of State, of the guards and of the call in flight.
TypeOK ==
  /\ connections \in Nat
  /\ half_open \in Nat
  /\ tracked \subseteq Sources
  /\ sources \in [Sources -> SourceStates]
  /\ admissions_since_sweep \in 0..(SWEEP_INTERVAL - 1)
  /\ guard \in [Guards -> GuardStates]
  /\ peer \in [Guards -> Addrs \cup {NoAddr}]
  /\ \A g \in Live : peer[g] \in Addrs
  /\ call \in [addr : Addrs, at : Nat] \cup {NoCall}
  /\ now \in Nat
  /\ credit \in [Sources -> Int]
  /\ waited \in [Sources -> Int]

\* The three counters of State are exactly the guards that exist, through every
\* interleaving of try_admit, mark_authenticated and Drop: no slot leaks, none
\* is given back twice, no saturating_sub hides an underflow, and no source
\* that still owes a half-open slot is ever pruned or swept from the map.
CountersExact ==
  /\ connections = Cardinality(Live)
  /\ half_open = Cardinality(Holding)
  /\ \A s \in Sources :
       IF s \in tracked THEN sources[s].half_open = Cardinality(HoldingFrom(s))
       ELSE HoldingFrom(s) = {}

\* Two addresses one host can use at will: the same IPv4 address (plain or
\* V4-mapped) or two addresses of one IPv6 /64.
SameHost(a, b) ==
  IF a.family = "v6" \/ b.family = "v6"
  THEN a.family = b.family /\ a.net = b.net
  ELSE a.net = b.net /\ a.host = b.host

\* Limits promises caps on real connections: all of them, the half-open ones,
\* and the half-open ones of one host however it spells its address.
CapsHold ==
  /\ Cardinality(Live) <= max_connections
  /\ Cardinality(Holding) <= max_half_open
  /\ \A a \in Addrs :
       Cardinality({g \in Holding : SameHost(peer[g], a)}) <= max_per_source

\* The caps as they stand on the real guards, whatever the counters say.
AtSomeCap(a) ==
  \/ Cardinality(Live) >= max_connections
  \/ Cardinality(Holding) >= max_half_open
  \/ Cardinality({g \in Holding : SameHost(peer[g], a)}) >= max_per_source

Answered == pending /\ ~pending'
Admitted == Answered /\ Live # Live'

\* Load shedding (module doc of admission.rs): a connection at a cap is always
\* refused and its refusal neither touches nor grows the per-source map, nor
\* does it advance the sweep.
CapRefusalReadOnly ==
  [][Answered /\ AtSomeCap(call.addr) =>
       /\ ~Admitted
       /\ UNCHANGED <<tracked, sources, admissions_since_sweep>>]_vars

\* The accept rate is bounded over every window: against a bucket that earns
\* accept_rate / Second tokens continuously and forgets nothing, the integer
\* bucket never overdraws by a whole token, however long the run, through
\* prunes, sweeps and re-created entries.  A clock read before a wait for the
\* lock gains a source no more than the waits of its own admissions were worth.
RateBound == \A s \in Sources : credit[s] + waited[s] > -Second

\* A source is forgotten only when nothing is owed: an absent entry means the
\* exact bucket is within one token of full (but for the waits), so re-creating
\* it full is free.
ForgottenOweNothing ==
  \A s \in Sources \ tracked : credit[s] + waited[s] > (accept_burst - 1) * Second

\* No token is lost either ("sub-second remainders keep accruing"): a source
\* below every cap that had earned a whole token when the accept loop read the
\* clock is never refused by the rate, however stale that reading is by now.
NoSpuriousRefusal ==
  [][Answered /\ ~AtSomeCap(call.addr)
       /\ credit[source_key(call.addr)] - accept_rate * (now - call.at) >= Second
     => Admitted]_vars
\* The integer token bucket is the exact one to within a token, both ways: over
\* any run it neither gives more than was earned, nor forgets a debt with its
\* entry, nor refuses what was earned (Bucket::refill, the sweep, the prune).
BucketExact == [](RateBound /\ ForgottenOweNothing) /\ NoSpuriousRefusal
=============================================================================
