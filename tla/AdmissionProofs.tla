--------------------------- MODULE AdmissionProofs ---------------------------
(* Theorems about Admission, for every limit, rate, address set and clock.   *)
EXTENDS Admission, FiniteSetTheorems, TLAPS

-----------------------------------------------------------------------------
(* Helpers.                                                                *)

\* Integer division in refill stays in Nat.
LEMMA DivisionIsNat ==
  ASSUME NEW a \in Nat, NEW b \in Nat \ {0}
  PROVE  a \div b \in Nat
OBVIOUS

\* The product in refill stays in Nat; stated alone so that later leaves are linear.
LEMMA ProductIsInt == ASSUME NEW a \in Int, NEW b \in Int PROVE a * b \in Int
  OBVIOUS

LEMMA ProductIsNat ==
  ASSUME NEW a \in Nat, NEW b \in Nat
  PROVE  a * b \in Nat
OBVIOUS

\* Whole tokens earned are a natural number.
LEMMA TokensAddedType ==
  ASSUME NEW b \in Buckets, NEW t \in Nat
  PROVE  tokens_added(b, t) \in Nat
<1> DEFINE e == saturating_sub(t, b.refilled_at)
<1>1. e \in Nat
  BY DEF Buckets, saturating_sub
<1>2. e * accept_rate \in Nat
  BY <1>1, ProductIsNat, LimitsAssumption
<1> HIDE DEF e
<1>3. (e * accept_rate) \div Second \in Nat
  BY <1>2, DivisionIsNat, TimeAssumption
<1> QED
  BY <1>3 DEF tokens_added, e

\* refill keeps a bucket a bucket: the level stays within the burst.
LEMMA RefillType ==
  ASSUME NEW b \in Buckets, NEW t \in Nat
  PROVE  refill(b, t) \in Buckets
<1> DEFINE added == tokens_added(b, t)
           level == LeastOf(b.level + LeastOf(added, accept_burst), accept_burst)
           step  == (added * Second) \div accept_rate
<1>1. added \in Nat
  BY TokensAddedType
<1>2. added * Second \in Nat
  BY <1>1, ProductIsNat, TimeAssumption
<1>3. step \in Nat
  BY <1>2, DivisionIsNat, LimitsAssumption
<1>4. level \in 0..accept_burst
  BY <1>1, LimitsAssumption DEF Buckets, LeastOf
<1> HIDE DEF added, level, step
<1>5. refill(b, t) = IF added = 0 THEN b
                     ELSE [level |-> level,
                           refilled_at |-> IF level = accept_burst THEN t
                                           ELSE b.refilled_at + step]
  BY DEF refill, added, level, step
<1> QED
  BY <1>3, <1>4, <1>5 DEF Buckets

\* Bucket::full makes a bucket.
LEMMA FullType == ASSUME NEW t \in Nat PROVE full(t) \in Buckets
  BY LimitsAssumption DEF full, Buckets

\* The value kept for an absent source has the type of an entry.
LEMMA AbsentType == Absent \in SourceStates
  BY FullType DEF Absent, SourceStates

\* source_key maps every address to a key of the map.
LEMMA SourceKeyType == \A a \in Addrs : source_key(a) \in Sources
  BY DEF Sources

\* u32::saturating_sub stays in Nat.
LEMMA SaturatingSubType ==
  ASSUME NEW a \in Nat PROVE saturating_sub(a, 1) \in Nat
  BY DEF saturating_sub

\* The map after a sweep still maps every key to a source state.
LEMMA SweepType ==
  ASSUME TypeOK, NEW t \in Nat
  PROVE  /\ sources_after_sweep(t) \in [Sources -> SourceStates]
         /\ retained(t) \subseteq tracked
         /\ \A s \in Sources : entry_for(s, t) \in SourceStates
<1>1. ASSUME NEW s \in Sources
      PROVE  [sources[s] EXCEPT !.bucket = refill(@, t)] \in SourceStates
  <2>1. sources[s] \in SourceStates
    BY DEF TypeOK
  <2>2. refill(sources[s].bucket, t) \in Buckets
    BY <2>1, RefillType DEF SourceStates
  <2> QED
    BY <2>1, <2>2 DEF SourceStates
<1>2. sources_after_sweep(t) \in [Sources -> SourceStates]
  BY <1>1, AbsentType DEF sources_after_sweep, TypeOK
<1>3. retained(t) \subseteq tracked
  BY DEF retained
<1>4. ASSUME NEW s \in Sources PROVE entry_for(s, t) \in SourceStates
  BY <1>2, FullType DEF entry_for, SourceStates
<1> QED
  BY <1>2, <1>3, <1>4
-----------------------------------------------------------------------------
(* Type correctness.                                                       *)

\* Every operation of admission.rs keeps its state well typed.
THEOREM TypeCorrect == Spec => []TypeOK
<1>1. Init => TypeOK
  BY AbsentType, LimitsAssumption, TimeAssumption, ProductIsNat
  DEF Init, TypeOK, GuardStates, Live, NoCall
<1>2. TypeOK /\ [Next]_vars => TypeOK'
  <2> SUFFICES ASSUME TypeOK, [Next]_vars PROVE TypeOK'
    OBVIOUS
  <2> USE DEF GuardStates, Live
  <2>1. ASSUME NEW a \in Addrs, Arrive(a) PROVE TypeOK'
    BY <2>1 DEF TypeOK, Arrive
  <2>2. CASE try_admit_cap_refused
    BY <2>2 DEF TypeOK, try_admit_cap_refused
  <2>3. ASSUME NEW s \in Sources, NEW t \in Nat, past_caps(s, t)
        PROVE  /\ tracked' \subseteq Sources
               /\ admissions_since_sweep' \in 0..(SWEEP_INTERVAL - 1)
               /\ call' \in [addr : Addrs, at : Nat] \cup {NoCall}
               /\ now' \in Nat
    BY <2>3, SweepType, LimitsAssumption DEF past_caps, TypeOK, sweep_due
  <2>4. pending => call.addr \in Addrs /\ call.at \in Nat
    BY DEF TypeOK, NoCall, pending
  <2>5. CASE try_admit_rate_refused
    <3> DEFINE s == source_key(call.addr)
               t == call.at
               e == entry_for(s, t)
               b == refill(e.bucket, t)
    <3>1. s \in Sources /\ t \in Nat
      BY <2>4, <2>5, SourceKeyType DEF try_admit_rate_refused
    <3>2. e \in SourceStates
      BY <3>1, SweepType
    <3>3. b \in Buckets
      BY <3>1, <3>2, RefillType DEF SourceStates
    <3> HIDE DEF e, b, s, t
    <3>4. [e EXCEPT !.bucket = b] \in SourceStates
      BY <3>2, <3>3 DEF SourceStates
    <3>5. /\ past_caps(s, t)
          /\ sources' = [sources_after_sweep(t) EXCEPT ![s] = [e EXCEPT !.bucket = b]]
          /\ UNCHANGED <<connections, half_open, guard, peer, credit, waited>>
      BY <2>5 DEF try_admit_rate_refused, s, t, e, b
    <3>6. sources' \in [Sources -> SourceStates]
      BY <3>1, <3>4, <3>5, SweepType
    <3> QED
      BY <3>1, <3>5, <3>6, <2>3 DEF TypeOK
  <2>6. ASSUME NEW g \in Guards, try_admit_ok(g) PROVE TypeOK'
    <3> DEFINE s == source_key(call.addr)
               t == call.at
               e == entry_for(s, t)
               b == refill(e.bucket, t)
               n == [half_open |-> e.half_open + 1, bucket |-> [b EXCEPT !.level = @ - 1]]
    <3>1. s \in Sources /\ t \in Nat /\ call.addr \in Addrs
      BY <2>4, <2>6, SourceKeyType DEF try_admit_ok
    <3>2. e \in SourceStates
      BY <3>1, SweepType
    <3>3. b \in Buckets
      BY <3>1, <3>2, RefillType DEF SourceStates
    <3>4. b.level > 0
      BY <2>6 DEF try_admit_ok
    <3>5. n \in SourceStates
      <4> HIDE DEF e, b, s, t
      <4>1. [b EXCEPT !.level = @ - 1] \in Buckets
        BY <3>3, <3>4, LimitsAssumption DEF Buckets
      <4> QED
        BY <4>1, <3>2 DEF SourceStates
    <3> HIDE DEF n, e, b, s, t
    <3>6. /\ past_caps(s, t)
          /\ sources' = [sources_after_sweep(t) EXCEPT ![s] = n]
          /\ connections' = connections + 1
          /\ half_open' = half_open + 1
          /\ guard' = [guard EXCEPT ![g] = "half_open"]
          /\ peer' = [peer EXCEPT ![g] = call.addr]
          /\ credit' = [credit EXCEPT ![s] = @ - Second]
          /\ waited' = [waited EXCEPT ![s] = @ + accept_rate * (now - t)]
      BY <2>6 DEF try_admit_ok, n, e, b, s, t
    <3>7. sources' \in [Sources -> SourceStates]
      BY <3>1, <3>5, <3>6, SweepType
    <3>8. credit' \in [Sources -> Int] /\ waited' \in [Sources -> Int]
      <4>1. PICK w \in Int : w = accept_rate * (now - t)
        BY <3>1, LimitsAssumption, ProductIsInt DEF TypeOK
      <4>2. waited' = [waited EXCEPT ![s] = @ + w]
        BY <3>6, <4>1
      <4>3. waited' \in [Sources -> Int]
        BY <3>1, <4>1, <4>2 DEF TypeOK
      <4> QED
        BY <3>1, <3>6, <4>3, TimeAssumption DEF TypeOK
    <3>9. /\ guard' \in [Guards -> GuardStates]
          /\ peer' \in [Guards -> Addrs \cup {NoAddr}]
          /\ \A h \in Live' : peer'[h] \in Addrs
      BY <3>1, <3>6 DEF TypeOK
    <3> QED
      BY <3>1, <3>6, <3>7, <3>8, <3>9, <2>3 DEF TypeOK
  <2>7. ASSUME NEW g \in Guards, mark_swap(g) PROVE TypeOK'
    BY <2>7 DEF TypeOK, mark_swap
  <2>8. ASSUME NEW g \in Guards, mark_release(g) PROVE TypeOK'
    <3>1. \A s \in Sources : [sources[s] EXCEPT !.half_open = saturating_sub(@, 1)] \in SourceStates
      BY SaturatingSubType DEF TypeOK, SourceStates
    <3>2. sources' \in [Sources -> SourceStates]
      BY <3>1, <2>8 DEF TypeOK, mark_release
    <3> QED
      BY <3>2, <2>8, SaturatingSubType DEF TypeOK, mark_release
  <2>9. ASSUME NEW g \in Guards, drop_guard(g) PROVE TypeOK'
    <3>1. ASSUME NEW s, NEW f \in BOOLEAN, drop_source(s, f)
          PROVE  tracked' \subseteq Sources /\ sources' \in [Sources -> SourceStates]
      <4>1. s \in Sources
        BY <3>1 DEF drop_source, TypeOK
      <4>2. sources[s] \in SourceStates
        BY <4>1 DEF TypeOK
      <4>3. refill(sources[s].bucket, now) \in Buckets
        BY <4>2, RefillType DEF SourceStates, TypeOK
      <4>4. saturating_sub(sources[s].half_open, 1) \in Nat
        BY <4>2, SaturatingSubType DEF SourceStates
      <4> QED
        BY <3>1, <4>1, <4>2, <4>3, <4>4, AbsentType DEF drop_source, TypeOK, SourceStates
    <3>2. tracked' \subseteq Sources /\ sources' \in [Sources -> SourceStates]
      BY <3>1, <2>9 DEF drop_guard, TypeOK
    <3> QED
      BY <3>2, <2>9, SaturatingSubType DEF TypeOK, drop_guard
  <2>10. ASSUME NEW d \in TickSteps, Tick(d) PROVE TypeOK'
    <3>1. d \in Nat
      BY TimeAssumption
    <3>2. \A s \in Sources : LeastOf(credit[s] + accept_rate * d, accept_burst * Second) \in Int
      <4>1. accept_rate * d \in Int /\ accept_burst * Second \in Int
        BY <3>1, LimitsAssumption, TimeAssumption, ProductIsNat
      <4> QED
        BY <4>1 DEF LeastOf, TypeOK
    <3>3. credit' \in [Sources -> Int]
      BY <3>2, <2>10 DEF Tick
    <3> QED
      BY <3>1, <3>3, <2>10 DEF TypeOK, Tick
  <2>11. CASE UNCHANGED vars
    BY <2>11 DEF TypeOK, vars
  <2> QED
    BY <2>1, <2>2, <2>5, <2>6, <2>7, <2>8, <2>9, <2>10, <2>11 DEF Next
<1> QED
  BY <1>1, <1>2, PTL DEF Spec
-----------------------------------------------------------------------------
(* The counters count the guards.                                          *)

\* The sets of guards whose sizes the counters track are finite.
LEMMA GuardSetsFinite ==
  /\ IsFiniteSet(Live) /\ Cardinality(Live) \in Nat
  /\ IsFiniteSet(Holding) /\ Cardinality(Holding) \in Nat
  /\ \A s : IsFiniteSet(HoldingFrom(s)) /\ Cardinality(HoldingFrom(s)) \in Nat
<1>1. Live \subseteq Guards /\ Holding \subseteq Guards /\ \A s : HoldingFrom(s) \subseteq Guards
  BY DEF Live, Holding, HoldingFrom
<1> QED
  BY <1>1, LimitsAssumption, FS_Subset, FS_CardinalityType

\* ... and still are after a step.
LEMMA GuardSetsFinitePrime ==
  /\ IsFiniteSet(Live') /\ IsFiniteSet(Holding')
  /\ \A s : IsFiniteSet(HoldingFrom(s)')
<1>1. Live' \subseteq Guards /\ Holding' \subseteq Guards /\ \A s : HoldingFrom(s)' \subseteq Guards
  BY DEF Live, Holding, HoldingFrom
<1> QED
  BY <1>1, LimitsAssumption, FS_Subset

\* A set that gains or loses one element, as the counters do.
LEMMA OneMore ==
  ASSUME NEW S, NEW x, IsFiniteSet(S), x \notin S
  PROVE  Cardinality(S \cup {x}) = Cardinality(S) + 1
BY FS_AddElement

\* Dropping one guard from a set lowers its size by one.
LEMMA OneLess ==
  ASSUME NEW S, NEW x, IsFiniteSet(S), x \in S
  PROVE  /\ Cardinality(S \ {x}) = Cardinality(S) - 1
         /\ Cardinality(S) \in Nat
         /\ Cardinality(S) >= 1
<1>1. Cardinality(S \ {x}) = Cardinality(S) - 1
  BY FS_RemoveElement
<1>2. Cardinality(S) \in Nat /\ Cardinality(S \ {x}) \in Nat
  BY FS_RemoveElement, FS_CardinalityType
<1> QED
  BY <1>1, <1>2

\* The per-source part of CountersExact, for one key.
SourceExact(s) ==
  IF s \in tracked THEN sources[s].half_open = Cardinality(HoldingFrom(s))
  ELSE HoldingFrom(s) = {}

\* A sweep, and the entry the rate check starts from, keep the count: only an
\* entry that counts no guard is dropped or re-created.
LEMMA SweepExact ==
  ASSUME TypeOK, CountersExact, NEW t \in Nat
  PROVE  \A s \in Sources :
           /\ s \in retained(t) =>
                sources_after_sweep(t)[s].half_open = Cardinality(HoldingFrom(s))
           /\ s \notin retained(t) => HoldingFrom(s) = {}
           /\ entry_for(s, t).half_open = Cardinality(HoldingFrom(s))
<1> SUFFICES ASSUME NEW s \in Sources
             PROVE  /\ s \in retained(t) =>
                         sources_after_sweep(t)[s].half_open = Cardinality(HoldingFrom(s))
                    /\ s \notin retained(t) => HoldingFrom(s) = {}
                    /\ entry_for(s, t).half_open = Cardinality(HoldingFrom(s))
  OBVIOUS
<1>1. sources[s] \in SourceStates
  BY DEF TypeOK
<1>2. [sources[s] EXCEPT !.bucket = refill(@, t)].half_open = sources[s].half_open
  BY <1>1 DEF SourceStates
<1>3. s \in retained(t) => sources_after_sweep(t)[s].half_open = Cardinality(HoldingFrom(s))
  BY <1>2 DEF retained, sources_after_sweep, CountersExact
<1>4. s \notin retained(t) => HoldingFrom(s) = {}
  <2>1. CASE s \notin tracked
    BY <2>1 DEF CountersExact
  <2>2. CASE s \in tracked
    BY <2>2, GuardSetsFinite, FS_EmptySet DEF retained, swept, CountersExact
  <2> QED
    BY <2>1, <2>2
<1>5. entry_for(s, t).half_open = Cardinality(HoldingFrom(s))
  BY <1>3, <1>4, FS_EmptySet DEF entry_for
<1> QED
  BY <1>3, <1>4, <1>5

\* What try_admit_ok does to the counters and to the guards.
LEMMA AdmitExact ==
  ASSUME TypeOK, CountersExact, NEW g \in Guards, try_admit_ok(g)
  PROVE  CountersExact'
<1>0. source_key(call.addr) \in Sources /\ call.at \in Nat
  BY SourceKeyType DEF try_admit_ok, pending, TypeOK, NoCall
<1>1. PICK s \in Sources, t \in Nat : s = source_key(call.addr) /\ t = call.at
  BY <1>0
<1> DEFINE e == entry_for(s, t)
           b == refill(e.bucket, t)
           n == [half_open |-> e.half_open + 1, bucket |-> [b EXCEPT !.level = @ - 1]]
<1>2. n.half_open = e.half_open + 1
  OBVIOUS
<1> HIDE DEF n, e, b
<1>3. /\ tracked' = retained(t) \cup {s}
      /\ sources' = [sources_after_sweep(t) EXCEPT ![s] = n]
      /\ guard[g] = "none"
      /\ guard' = [guard EXCEPT ![g] = "half_open"]
      /\ peer' = [peer EXCEPT ![g] = call.addr]
      /\ connections' = connections + 1
      /\ half_open' = half_open + 1
  BY <1>1 DEF try_admit_ok, past_caps, n, e, b
<1>4. g \notin Live /\ Live' = Live \cup {g}
  BY <1>3 DEF Live, TypeOK
<1>5. g \notin Holding /\ Holding' = Holding \cup {g}
  BY <1>3 DEF Holding, TypeOK
<1>6. g \notin HoldingFrom(s) /\ HoldingFrom(s)' = HoldingFrom(s) \cup {g}
  BY <1>1, <1>3, <1>5 DEF HoldingFrom, Holding, TypeOK
<1>7. \A r \in Sources \ {s} : HoldingFrom(r)' = HoldingFrom(r)
  BY <1>1, <1>3, <1>5 DEF HoldingFrom, Holding, TypeOK
<1>8. connections' = Cardinality(Live')
  BY <1>3, <1>4, OneMore, GuardSetsFinite DEF CountersExact
<1>9. half_open' = Cardinality(Holding')
  BY <1>3, <1>5, OneMore, GuardSetsFinite DEF CountersExact
<1>10. SourceExact(s)'
  <2>1. sources'[s].half_open = e.half_open + 1
    BY <1>1, <1>2, <1>3, SweepType
  <2>2. e.half_open = Cardinality(HoldingFrom(s))
    BY <1>1, SweepExact DEF e
  <2> QED
    BY <2>1, <2>2, <1>3, <1>6, OneMore, GuardSetsFinite DEF SourceExact
<1>11. ASSUME NEW r \in Sources \ {s} PROVE SourceExact(r)'
  <2>1. sources'[r] = sources_after_sweep(t)[r]
    BY <1>1, <1>3, SweepType
  <2> QED
    BY <2>1, <1>1, <1>3, <1>7, SweepExact DEF SourceExact
<1> QED
  BY <1>8, <1>9, <1>10, <1>11 DEF CountersExact, SourceExact

\* A guard that stops holding its half-open slot: Drop before, or the second
\* half of mark_authenticated.
LEMMA ReleaseExact ==
  ASSUME TypeOK, CountersExact, NEW g \in Holding
  PROVE  /\ half_open >= 1
         /\ saturating_sub(half_open, 1) = Cardinality(Holding \ {g})
         /\ source_key(peer[g]) \in tracked
         /\ sources[source_key(peer[g])].half_open >= 1
         /\ saturating_sub(sources[source_key(peer[g])].half_open, 1)
              = Cardinality(HoldingFrom(source_key(peer[g])) \ {g})
<1> DEFINE s == source_key(peer[g])
<1>1. g \in Guards /\ s \in Sources /\ g \in HoldingFrom(s)
  BY SourceKeyType DEF Holding, HoldingFrom, TypeOK, Live
<1>2. s \in tracked /\ sources[s].half_open = Cardinality(HoldingFrom(s))
  BY <1>1 DEF CountersExact
<1> HIDE DEF s
<1>3. half_open >= 1 /\ saturating_sub(half_open, 1) = Cardinality(Holding \ {g})
  BY OneLess, GuardSetsFinite DEF CountersExact, saturating_sub
<1>4. /\ sources[s].half_open >= 1
      /\ saturating_sub(sources[s].half_open, 1) = Cardinality(HoldingFrom(s) \ {g})
  BY <1>1, <1>2, OneLess, GuardSetsFinite DEF saturating_sub
<1> QED
  BY <1>2, <1>3, <1>4 DEF s

\* ConnectionGuard::drop releases exactly what the guard held.
LEMMA DropExact ==
  ASSUME TypeOK, CountersExact, NEW g \in Guards, drop_guard(g)
  PROVE  CountersExact'
<1>1. g \in Live /\ peer[g] \in Addrs
  BY DEF drop_guard, Live, TypeOK
<1>2. PICK s \in Sources : s = source_key(peer[g])
  BY <1>1, SourceKeyType
<1>3. Live' = Live \ {g} /\ connections' = Cardinality(Live')
  <2>1. Live' = Live \ {g}
    BY DEF drop_guard, Live, TypeOK
  <2> QED
    BY <2>1, <1>1, OneLess, GuardSetsFinite
    DEF drop_guard, CountersExact, saturating_sub
<1>4. \A r \in Sources \ {s} : HoldingFrom(r)' = HoldingFrom(r)
  BY <1>2 DEF drop_guard, Holding, HoldingFrom, TypeOK
<1>5. \A r \in Sources \ {s} : (r \in tracked' <=> r \in tracked) /\ sources'[r] = sources[r]
  BY <1>2 DEF drop_guard, drop_source, TypeOK
<1>6. \A r \in Sources \ {s} : SourceExact(r)'
  BY <1>4, <1>5 DEF SourceExact, CountersExact
<1>7. CASE guard[g] = "half_open"
  <2>1. g \in Holding /\ Holding' = Holding \ {g}
    BY <1>7 DEF drop_guard, Holding, TypeOK
  <2>2. HoldingFrom(s)' = HoldingFrom(s) \ {g}
    BY <1>2, <1>7 DEF drop_guard, Holding, HoldingFrom, TypeOK
  <2>3. half_open' = Cardinality(Holding')
    BY <1>7, <2>1, ReleaseExact DEF drop_guard
  <2>4. /\ s \in tracked
        /\ saturating_sub(sources[s].half_open, 1) = Cardinality(HoldingFrom(s) \ {g})
    BY <1>2, <2>1, ReleaseExact
  <2>5. SourceExact(s)'
    <3>1. drop_source(s, TRUE)
      BY <1>2, <1>7, <2>4 DEF drop_guard
    <3>2. CASE s \in tracked'
      BY <3>1, <3>2, <2>2, <2>4 DEF drop_source, SourceExact, TypeOK
    <3>3. CASE s \notin tracked'
      <4>1. saturating_sub(sources[s].half_open, 1) = 0
        BY <3>1, <3>3, <2>4 DEF drop_source
      <4>2. HoldingFrom(s)' = {}
        BY <4>1, <2>2, <2>4, GuardSetsFinitePrime, FS_EmptySet
      <4> QED
        BY <4>2, <3>3 DEF SourceExact
    <3> QED
      BY <3>2, <3>3
  <2> QED
    BY <1>3, <1>6, <2>3, <2>5 DEF CountersExact, SourceExact
<1>8. CASE guard[g] = "authenticated"
  <2>1. g \notin Holding /\ Holding' = Holding
    BY <1>8 DEF drop_guard, Holding, TypeOK
  <2>2. HoldingFrom(s)' = HoldingFrom(s)
    BY <2>1 DEF drop_guard, Holding, HoldingFrom, TypeOK
  <2>3. half_open' = Cardinality(Holding')
    BY <1>8, <2>1 DEF drop_guard, CountersExact
  <2>4. SourceExact(s)'
    <3>1. CASE s \notin tracked
      BY <3>1, <1>2, <2>2 DEF drop_guard, drop_source, SourceExact, CountersExact
    <3>2. CASE s \in tracked
      <4>1. drop_source(s, FALSE)
        BY <1>2, <1>8, <3>2 DEF drop_guard
      <4>2. sources[s].half_open = Cardinality(HoldingFrom(s))
        BY <3>2 DEF CountersExact
      <4>3. CASE s \in tracked'
        BY <4>1, <4>2, <4>3, <2>2 DEF drop_source, SourceExact, TypeOK
      <4>4. CASE s \notin tracked'
        <5>1. sources[s].half_open = 0
          BY <4>1, <4>4, <3>2 DEF drop_source
        <5>2. HoldingFrom(s)' = {}
          BY <5>1, <4>2, <2>2, GuardSetsFinitePrime, FS_EmptySet
        <5> QED
          BY <5>2, <4>4 DEF SourceExact
      <4> QED
        BY <4>3, <4>4
    <3> QED
      BY <3>1, <3>2
  <2> QED
    BY <1>3, <1>6, <2>3, <2>4 DEF CountersExact, SourceExact
<1> QED
  BY <1>7, <1>8 DEF drop_guard

\* The second half of mark_authenticated gives back one half-open slot.
LEMMA MarkExact ==
  ASSUME TypeOK, CountersExact, NEW g \in Guards, mark_release(g)
  PROVE  CountersExact'
<1>1. g \in Holding /\ Holding' = Holding \ {g} /\ Live' = Live
  BY DEF mark_release, Holding, Live, TypeOK
<1>2. PICK s \in Sources : s = source_key(peer[g])
  BY SourceKeyType DEF mark_release, TypeOK, Live
<1>3. /\ HoldingFrom(s)' = HoldingFrom(s) \ {g}
      /\ \A r \in Sources \ {s} : HoldingFrom(r)' = HoldingFrom(r)
  BY <1>1, <1>2 DEF mark_release, HoldingFrom
<1>4. /\ s \in tracked
      /\ saturating_sub(half_open, 1) = Cardinality(Holding \ {g})
      /\ saturating_sub(sources[s].half_open, 1) = Cardinality(HoldingFrom(s) \ {g})
  BY <1>1, <1>2, ReleaseExact
<1>5. /\ sources'[s].half_open = saturating_sub(sources[s].half_open, 1)
      /\ \A r \in Sources \ {s} : sources'[r] = sources[r]
  BY <1>2, <1>4 DEF mark_release, TypeOK, SourceStates
<1>6. connections' = Cardinality(Live') /\ half_open' = Cardinality(Holding')
  BY <1>1, <1>4 DEF mark_release, CountersExact
<1>7. \A r \in Sources : SourceExact(r)'
  BY <1>3, <1>4, <1>5 DEF SourceExact, mark_release, CountersExact
<1> QED
  BY <1>6, <1>7 DEF CountersExact, SourceExact

\* For every set of limits: the counters are always exactly the live guards.
THEOREM CountersCorrect == Spec => []CountersExact
<1>1. Init => CountersExact
  BY FS_EmptySet DEF Init, CountersExact, Live, Holding, HoldingFrom
<1>2. TypeOK /\ CountersExact /\ [Next]_vars => CountersExact'
  <2> SUFFICES ASSUME TypeOK, CountersExact, [Next]_vars PROVE CountersExact'
    OBVIOUS
  <2>1. ASSUME UNCHANGED <<guard, peer>>
        PROVE  Live' = Live /\ Holding' = Holding /\ \A s : HoldingFrom(s)' = HoldingFrom(s)
    BY <2>1 DEF Live, Holding, HoldingFrom
  <2>2. ASSUME UNCHANGED <<connections, half_open, tracked, sources, guard, peer>>
        PROVE  CountersExact'
    BY <2>1, <2>2 DEF CountersExact
  <2>3. ASSUME NEW a \in Addrs, Arrive(a) PROVE CountersExact'
    BY <2>2, <2>3 DEF Arrive
  <2>4. CASE try_admit_cap_refused
    BY <2>2, <2>4 DEF try_admit_cap_refused
  <2>5. CASE try_admit_rate_refused
    <3>1. source_key(call.addr) \in Sources /\ call.at \in Nat
      BY <2>5, SourceKeyType DEF try_admit_rate_refused, pending, TypeOK, NoCall
    <3>2. PICK s \in Sources, t \in Nat : s = source_key(call.addr) /\ t = call.at
      BY <3>1
    <3> DEFINE e == entry_for(s, t)
               n == [e EXCEPT !.bucket = refill(e.bucket, t)]
    <3>3. n.half_open = e.half_open
      BY SweepType DEF SourceStates
    <3>4. e.half_open = Cardinality(HoldingFrom(s))
      BY SweepExact
    <3> HIDE DEF e, n
    <3>5. /\ tracked' = retained(t) \cup {s}
          /\ sources' = [sources_after_sweep(t) EXCEPT ![s] = n]
          /\ UNCHANGED <<connections, half_open, guard, peer>>
      BY <2>5, <3>2 DEF try_admit_rate_refused, past_caps, e, n
    <3>6. sources'[s].half_open = Cardinality(HoldingFrom(s))
      BY <3>3, <3>4, <3>5, SweepType
    <3>7. \A r \in Sources \ {s} : sources'[r] = sources_after_sweep(t)[r]
      BY <3>5, SweepType
    <3>8. \A r \in Sources : SourceExact(r)'
      BY <3>5, <3>6, <3>7, <2>1, SweepExact DEF SourceExact
    <3> QED
      BY <3>5, <3>8, <2>1 DEF CountersExact, SourceExact
  <2>6. ASSUME NEW g \in Guards, try_admit_ok(g) PROVE CountersExact'
    BY <2>6, AdmitExact
  <2>7. ASSUME NEW g \in Guards, mark_swap(g) PROVE CountersExact'
    <3>1. Live' = Live /\ Holding' = Holding /\ \A s : HoldingFrom(s)' = HoldingFrom(s)
      BY <2>7 DEF mark_swap, Live, Holding, HoldingFrom, TypeOK
    <3> QED
      BY <3>1, <2>7 DEF mark_swap, CountersExact
  <2>8. ASSUME NEW g \in Guards, mark_release(g) PROVE CountersExact'
    BY <2>8, MarkExact
  <2>9. ASSUME NEW g \in Guards, drop_guard(g) PROVE CountersExact'
    BY <2>9, DropExact
  <2>10. ASSUME NEW d \in TickSteps, Tick(d) PROVE CountersExact'
    BY <2>2, <2>10 DEF Tick
  <2>11. CASE UNCHANGED vars
    BY <2>2, <2>11 DEF vars
  <2> QED
    BY <2>3, <2>4, <2>5, <2>6, <2>7, <2>8, <2>9, <2>10, <2>11 DEF Next
<1> QED
  BY <1>1, <1>2, TypeCorrect, PTL DEF Spec
-----------------------------------------------------------------------------
(* The caps hold.                                                          *)

\* source_key separates exactly the hosts Limits means to tell apart.
LEMMA SourceKeyIsHost ==
  \A a, b : SameHost(a, b) <=> source_key(a) = source_key(b)
BY DEF SameHost, source_key

\* The strengthening: the caps in terms of the sets the counters count.
CapsCounted ==
  /\ Cardinality(Live) <= max_connections
  /\ Cardinality(Holding) <= max_half_open
  /\ \A s \in Sources : Cardinality(HoldingFrom(s)) <= max_per_source

\* The caps on the counters are the caps on the real guards.
LEMMA CapsCountedImpliesCapsHold ==
  CapsCounted => CapsHold
<1> SUFFICES ASSUME CapsCounted, NEW a \in Addrs
             PROVE  Cardinality({g \in Holding : SameHost(peer[g], a)}) <= max_per_source
  BY DEF CapsCounted, CapsHold
<1>1. {g \in Holding : SameHost(peer[g], a)} = HoldingFrom(source_key(a))
  BY SourceKeyIsHost DEF HoldingFrom
<1> QED
  BY <1>1, SourceKeyType DEF CapsCounted

\* Giving a slot back cannot reach a cap.
LEMMA FewerGuardsKeepCaps ==
  ASSUME CapsCounted, Live' \subseteq Live, Holding' \subseteq Holding,
         \A s \in Sources : HoldingFrom(s)' \subseteq HoldingFrom(s)
  PROVE  CapsCounted'
<1>1. /\ Cardinality(Live') <= Cardinality(Live)
      /\ Cardinality(Holding') <= Cardinality(Holding)
      /\ \A s \in Sources : Cardinality(HoldingFrom(s)') <= Cardinality(HoldingFrom(s))
  BY GuardSetsFinite, FS_Subset
<1>2. /\ Cardinality(Live') \in Nat
      /\ Cardinality(Holding') \in Nat
      /\ \A s \in Sources : Cardinality(HoldingFrom(s)') \in Nat
  BY GuardSetsFinitePrime, FS_CardinalityType
<1> QED
  BY <1>1, <1>2, GuardSetsFinite, LimitsAssumption DEF CapsCounted

\* For every set of limits, no interleaving exceeds a cap: not the global one,
\* not the half-open one, not the per-host one.
THEOREM CapsCorrect == Spec => []CapsHold
<1>1. Init => CapsCounted
  BY FS_EmptySet, LimitsAssumption
  DEF Init, CapsCounted, Live, Holding, HoldingFrom
<1>2. TypeOK /\ CountersExact /\ CapsCounted /\ [Next]_vars => CapsCounted'
  <2> SUFFICES ASSUME TypeOK, CountersExact, CapsCounted, [Next]_vars
               PROVE  CapsCounted'
    OBVIOUS
  <2>1. ASSUME UNCHANGED <<guard, peer>> PROVE CapsCounted'
    <3>1. Live' = Live /\ Holding' = Holding /\ \A s : HoldingFrom(s)' = HoldingFrom(s)
      BY <2>1 DEF Live, Holding, HoldingFrom
    <3> QED
      BY <3>1 DEF CapsCounted
  <2>2. ASSUME NEW a \in Addrs, Arrive(a) PROVE CapsCounted'
    BY <2>1, <2>2 DEF Arrive
  <2>3. CASE try_admit_cap_refused
    BY <2>1, <2>3 DEF try_admit_cap_refused
  <2>4. CASE try_admit_rate_refused
    BY <2>1, <2>4 DEF try_admit_rate_refused
  <2>5. ASSUME NEW g \in Guards, try_admit_ok(g) PROVE CapsCounted'
    <3>1. source_key(call.addr) \in Sources
      BY <2>5, SourceKeyType DEF try_admit_ok, pending, TypeOK, NoCall
    <3>2. PICK s \in Sources : s = source_key(call.addr)
      BY <3>1
    <3>3. /\ connections < max_connections
          /\ half_open < max_half_open
          /\ s \in tracked => sources[s].half_open < max_per_source
      BY <2>5, <3>2, LimitsAssumption DEF try_admit_ok, past_caps, cap_refuses, TypeOK, SourceStates
    <3>4. Cardinality(HoldingFrom(s)) < max_per_source
      BY <3>3, FS_EmptySet, LimitsAssumption DEF CountersExact
    <3>5. /\ g \notin Live /\ Live' = Live \cup {g}
          /\ g \notin Holding /\ Holding' = Holding \cup {g}
      BY <2>5 DEF try_admit_ok, Live, Holding, TypeOK
    <3>6. /\ g \notin HoldingFrom(s) /\ HoldingFrom(s)' = HoldingFrom(s) \cup {g}
          /\ \A r \in Sources \ {s} : HoldingFrom(r)' = HoldingFrom(r)
      BY <2>5, <3>2, <3>5 DEF try_admit_ok, HoldingFrom, Holding, TypeOK
    <3>7. /\ Cardinality(Live') = Cardinality(Live) + 1
          /\ Cardinality(Holding') = Cardinality(Holding) + 1
          /\ Cardinality(HoldingFrom(s)') = Cardinality(HoldingFrom(s)) + 1
      BY <3>5, <3>6, OneMore, GuardSetsFinite
    <3>8. \A r \in Sources : Cardinality(HoldingFrom(r)') <= max_per_source
      BY <3>4, <3>6, <3>7, GuardSetsFinite, LimitsAssumption DEF CapsCounted
    <3> QED
      BY <3>3, <3>7, <3>8, GuardSetsFinite, LimitsAssumption DEF CapsCounted, CountersExact
  <2>6. ASSUME NEW g \in Guards, mark_swap(g) \/ mark_release(g) \/ drop_guard(g)
        PROVE  CapsCounted'
    <3>1. Live' \subseteq Live /\ Holding' \subseteq Holding
      BY <2>6 DEF mark_swap, mark_release, drop_guard, Live, Holding, TypeOK
    <3>2. \A h \in Holding' : peer'[h] = peer[h]
      BY <2>6 DEF mark_swap, mark_release, drop_guard, Holding, TypeOK
    <3>3. \A s \in Sources : HoldingFrom(s)' \subseteq HoldingFrom(s)
      BY <3>1, <3>2 DEF HoldingFrom
    <3> QED
      BY <3>1, <3>3, FewerGuardsKeepCaps
  <2>7. ASSUME NEW d \in TickSteps, Tick(d) PROVE CapsCounted'
    BY <2>1, <2>7 DEF Tick
  <2>8. CASE UNCHANGED vars
    BY <2>1, <2>8 DEF vars
  <2> QED
    BY <2>2, <2>3, <2>4, <2>5, <2>6, <2>7, <2>8 DEF Next
<1> QED
  BY <1>1, <1>2, CapsCountedImpliesCapsHold, TypeCorrect, CountersCorrect, PTL DEF Spec
-----------------------------------------------------------------------------
(* Load shedding.                                                          *)

\* The counters being exact, a cap reached by real guards is one the cap reads
\* see.
LEMMA CapIsSeen ==
  ASSUME TypeOK, CountersExact, pending, AtSomeCap(call.addr)
  PROVE  cap_refuses(source_key(call.addr))
<1>1. call.addr \in Addrs
  BY DEF pending, TypeOK
<1>2. PICK s \in Sources : s = source_key(call.addr)
  BY <1>1, SourceKeyType
<1>3. {g \in Holding : SameHost(peer[g], call.addr)} = HoldingFrom(s)
  BY <1>2, SourceKeyIsHost DEF HoldingFrom
<1>4. CASE Cardinality(HoldingFrom(s)) >= max_per_source
  <2>1. HoldingFrom(s) # {}
    BY <1>4, FS_EmptySet, LimitsAssumption
  <2>2. s \in tracked /\ sources[s].half_open = Cardinality(HoldingFrom(s))
    BY <2>1 DEF CountersExact
  <2> QED
    BY <1>2, <1>4, <2>2 DEF cap_refuses
<1> QED
  BY <1>3, <1>4 DEF AtSomeCap, cap_refuses, CountersExact

\* For every set of limits: a connection at a cap is refused, and its refusal
\* leaves the per-source map and the sweep counter alone.
THEOREM LoadShedding == Spec => CapRefusalReadOnly
<1> DEFINE P == Answered /\ AtSomeCap(call.addr) =>
                  /\ ~Admitted
                  /\ UNCHANGED <<tracked, sources, admissions_since_sweep>>
<1>1. TypeOK /\ CountersExact /\ [Next]_vars => [P]_vars
  <2> SUFFICES ASSUME TypeOK, CountersExact, Next, Answered, AtSomeCap(call.addr)
               PROVE  ~Admitted /\ UNCHANGED <<tracked, sources, admissions_since_sweep>>
    BY DEF P
  <2>1. cap_refuses(source_key(call.addr))
    BY CapIsSeen DEF Answered
  <2>2. ASSUME call' = call PROVE FALSE
    BY <2>2 DEF Answered, pending, NoCall
  <2>3. CASE \E a \in Addrs : Arrive(a)
    BY <2>3 DEF Arrive, Answered
  <2>4. CASE try_admit_cap_refused
    BY <2>4 DEF try_admit_cap_refused, Admitted, Live
  <2>5. CASE try_admit_rate_refused \/ \E g \in Guards : try_admit_ok(g)
    BY <2>1, <2>5 DEF try_admit_rate_refused, try_admit_ok, past_caps
  <2>6. CASE \E g \in Guards : mark_swap(g) \/ mark_release(g) \/ drop_guard(g)
    BY <2>2, <2>6 DEF mark_swap, mark_release, drop_guard
  <2>7. CASE \E d \in TickSteps : Tick(d)
    BY <2>2, <2>7 DEF Tick
  <2> QED
    BY <2>3, <2>4, <2>5, <2>6, <2>7 DEF Next
<1>2. CapRefusalReadOnly <=> [][P]_vars
  BY DEF CapRefusalReadOnly, P
<1> HIDE DEF P
<1> QED
  BY <1>1, <1>2, TypeCorrect, CountersCorrect, PTL DEF Spec
=============================================================================
