---------------------------- MODULE ChannelProofs ----------------------------
(* Theorems about Channel, for all packets, windows, queues and batches.      *)
EXTENDS Channel, FiniteSetTheorems, SequenceTheorems, WellFoundedInduction, TLAPS

-----------------------------------------------------------------------------
(* Sums and counts over sequences.                                           *)

LEMMA LeastNumber ==
  ASSUME NEW T, T \subseteq Nat, T # {}
  PROVE  \E m \in T : \A k \in T : m <= k
<1> DEFINE R == {ss \in Nat \X Nat : ss[1] < ss[2]}
<1>1. IsWellFoundedOn(R, Nat)
  BY NatLessThanWellFounded DEF OpToRel
<1>2. PICK m \in T : \A k \in T : ~ (<<k, m>> \in R)
  <2> HIDE DEF R
  <2> QED
    BY <1>1, WFMin
<1>3. ASSUME NEW k \in T PROVE m <= k
  <2>1. <<k, m>> \in Nat \X Nat /\ <<k, m>>[1] = k /\ <<k, m>>[2] = m
    OBVIOUS
  <2> QED
    BY <1>2, <2>1
<1> QED
  BY <1>3

\* Partial(f, ns, n): f holds the sums of the first 0, 1, ... n elements.
Partial(f, ns, n) == f = [i \in 0..n |-> IF i = 0 THEN 0 ELSE f[i - 1] + ns[i]]

LEMMA PartialSums ==
  ASSUME NEW ns \in Seq(Nat)
  PROVE  \A n \in 0..Len(ns) : \E f \in [0..n -> Nat] : Partial(f, ns, n)
<1> DEFINE Bad == {n \in 0..Len(ns) : ~ \E f \in [0..n -> Nat] : Partial(f, ns, n)}
<1> SUFFICES ASSUME Bad # {} PROVE FALSE
  OBVIOUS
<1>1. PICK n \in Bad : \A k \in Bad : n <= k
  <2>1. Bad \subseteq Nat
    OBVIOUS
  <2> HIDE DEF Bad
  <2> QED
    BY <2>1, LeastNumber
<1>2. n # 0
  <2> SUFFICES ASSUME n = 0 PROVE FALSE
    OBVIOUS
  <2> DEFINE z == [i \in 0..0 |-> 0]
  <2>1. z \in [0..n -> Nat]
    OBVIOUS
  <2>2. z = [i \in 0..n |-> IF i = 0 THEN 0 ELSE z[i - 1] + ns[i]]
    OBVIOUS
  <2> HIDE DEF z
  <2> QED
    BY <1>1, <2>1, <2>2 DEF Partial
<1>3. n \in Nat /\ n - 1 \in 0..Len(ns) /\ n - 1 \notin Bad
  <2>1. Len(ns) \in Nat /\ n \in 1..Len(ns)
    BY <1>1, <1>2
  <2>2. n - 1 \in 0..Len(ns) /\ ~(n <= n - 1)
    BY <2>1
  <2> HIDE DEF Bad
  <2> QED
    BY <1>1, <2>1, <2>2
<1>4. PICK f \in [0..n - 1 -> Nat] : Partial(f, ns, n - 1)
  BY <1>3
<1> DEFINE g == [i \in 0..n |-> IF i = n THEN f[n - 1] + ns[n] ELSE f[i]]
<1>5. g \in [0..n -> Nat]
  BY <1>2, <1>3, <1>4
<1>6. Partial(g, ns, n)
  <2>1. ASSUME NEW i \in 0..n PROVE g[i] = IF i = 0 THEN 0 ELSE g[i - 1] + ns[i]
    <3>1. CASE i = n
      BY <1>2, <1>3, <3>1
    <3>2. CASE i # n
      BY <1>2, <1>3, <1>4, <3>2, SMTT(30) DEF Partial
    <3> QED
      BY <3>1, <3>2
  <2> QED
    BY <2>1 DEF Partial
<1> QED
  BY <1>5, <1>6, <1>1

\* The sum is the last of the partial sums, whichever function they are in.
LEMMA TotalIsPartial ==
  ASSUME NEW ns \in Seq(Nat)
  PROVE  \E f \in [0..Len(ns) -> Nat] : Partial(f, ns, Len(ns)) /\ Total(ns) = f[Len(ns)]
<1> DEFINE c == CHOOSE f : f = [i \in 0..Len(ns) |-> IF i = 0 THEN 0 ELSE f[i - 1] + ns[i]]
<1>1. PICK f \in [0..Len(ns) -> Nat] : Partial(f, ns, Len(ns))
  BY PartialSums
<1>2. Partial(c, ns, Len(ns))
  BY <1>1 DEF Partial
<1>3. Total(ns) = c[Len(ns)]
  BY DEF Total
<1>4. c = f
  <2> HIDE DEF c
  <2> DEFINE Bad == {n \in 0..Len(ns) : c[n] # f[n]}
  <2>1. Bad = {}
    <3> SUFFICES ASSUME Bad # {} PROVE FALSE
      OBVIOUS
    <3>1. PICK n \in Bad : \A k \in Bad : n <= k
      <4>1. Bad \subseteq Nat
        OBVIOUS
      <4> HIDE DEF Bad
      <4> QED
        BY <4>1, LeastNumber
    <3>2. n # 0
      BY <1>1, <1>2 DEF Partial
    <3>3. c[n - 1] = f[n - 1]
      BY <3>1, <3>2
    <3> QED
      BY <1>1, <1>2, <3>1, <3>2, <3>3, SMTT(30) DEF Partial
  <2>2. DOMAIN c = 0..Len(ns) /\ c = [i \in 0..Len(ns) |-> c[i]]
    BY <1>2 DEF Partial
  <2> QED
    BY <2>1, <2>2
<1> HIDE DEF c
<1> QED
  BY <1>1, <1>3, <1>4

LEMMA TotalNat == ASSUME NEW ns \in Seq(Nat) PROVE Total(ns) \in Nat
  BY TotalIsPartial

LEMMA TotalEmpty == Total(<<>>) = 0
<1>1. <<>> \in Seq(Nat) /\ Len(<<>>) = 0
  OBVIOUS
<1>2. PICK f \in [0..Len(<<>>) -> Nat] : Partial(f, <<>>, Len(<<>>)) /\ Total(<<>>) = f[Len(<<>>)]
  BY <1>1, TotalIsPartial
<1> QED
  BY <1>1, <1>2 DEF Partial

\* Functions that grow by the same steps differ by what they start from.
LEMMA SameSteps ==
  ASSUME NEW n \in Nat, NEW f \in [0..n -> Nat], NEW g \in [0..n -> Nat], NEW k \in Nat,
         f[0] = g[0] + k,
         \A i \in 1..n : \E x \in Nat : f[i] = f[i - 1] + x /\ g[i] = g[i - 1] + x
  PROVE  f[n] = g[n] + k
<1> DEFINE Bad == {i \in 0..n : f[i] # g[i] + k}
<1> SUFFICES ASSUME Bad # {} PROVE FALSE
  <2>1. n \in 0..n
    OBVIOUS
  <2> QED
    BY <2>1
<1>1. PICK i \in Bad : \A j \in Bad : i <= j
  <2>1. Bad \subseteq Nat
    OBVIOUS
  <2> HIDE DEF Bad
  <2> QED
    BY <2>1, LeastNumber
<1>2. i \in 1..n /\ i - 1 \in 0..n
  BY <1>1
<1>3. f[i - 1] = g[i - 1] + k /\ g[i - 1] \in Nat
  BY <1>1, <1>2
<1>4. PICK x \in Nat : f[i] = f[i - 1] + x /\ g[i] = g[i - 1] + x
  BY <1>2
<1>5. f[i] = g[i] + k
  <2> HIDE DEF Bad
  <2>1. ASSUME NEW a \in Nat PROVE (a + k) + x = (a + x) + k
    OBVIOUS
  <2>2. f[i] = (g[i - 1] + k) + x /\ g[i] = g[i - 1] + x
    BY <1>3, <1>4, Zenon
  <2>3. (g[i - 1] + k) + x = (g[i - 1] + x) + k
    BY <1>3, <2>1
  <2> QED
    BY <2>2, <2>3, Zenon
<1> QED
  BY <1>1, <1>5

LEMMA TotalAppend ==
  ASSUME NEW ns \in Seq(Nat), NEW x \in Nat
  PROVE  Total(Append(ns, x)) = Total(ns) + x
<1> DEFINE more == Append(ns, x)
           n == Len(ns)
<1>1. more \in Seq(Nat) /\ Len(more) = n + 1 /\ n \in Nat /\ more[n + 1] = x
      /\ \A i \in 1..n : more[i] = ns[i] /\ ns[i] \in Nat
  OBVIOUS
<1> HIDE DEF more, n
<1>2. PICK f \in [0..n -> Nat] : Partial(f, ns, n) /\ Total(ns) = f[n]
  BY TotalIsPartial DEF n
<1>3. PICK g \in [0..n + 1 -> Nat] : Partial(g, more, n + 1) /\ Total(more) = g[n + 1]
  BY <1>1, TotalIsPartial
<1> DEFINE h == [i \in 0..n |-> g[i]]
<1>4. h \in [0..n -> Nat] /\ h[0] = f[0] + 0 /\ h[n] = g[n]
  <2>1. f[0] = 0 /\ g[0] = 0
    BY <1>1, <1>2, <1>3 DEF Partial
  <2> QED
    BY <1>1, <1>3, <2>1
<1>5. \A i \in 1..n : \E y \in Nat : h[i] = h[i - 1] + y /\ f[i] = f[i - 1] + y
  <2> SUFFICES ASSUME NEW i \in 1..n PROVE h[i] = h[i - 1] + ns[i] /\ f[i] = f[i - 1] + ns[i]
    BY <1>1
  <2>1. i \in 0..n /\ i - 1 \in 0..n /\ i \in 0..n + 1 /\ i - 1 \in 0..n + 1 /\ i # 0
    BY <1>1
  <2>2. g[i] = g[i - 1] + more[i]
    BY <1>3, <2>1 DEF Partial
  <2>3. f[i] = f[i - 1] + ns[i]
    BY <1>2, <2>1 DEF Partial
  <2>4. h[i] = g[i] /\ h[i - 1] = g[i - 1]
    BY <2>1
  <2> QED
    BY <1>1, <2>2, <2>3, <2>4
<1> HIDE DEF h
<1>6. h[n] = f[n] + 0
  <2>1. h[0] = f[0] + 0 /\ 0 \in Nat
    BY <1>4
  <2> QED
    BY <1>1, <1>2, <1>4, <1>5, <2>1, SameSteps
<1>7. g[n + 1] = g[n] + x
  BY <1>1, <1>3 DEF Partial
<1>8. PICK a \in Nat : a = f[n]
  BY <1>1, <1>2
<1>9. Total(more) = a + x
  <2>1. h[n] = a
    BY <1>6, <1>8
  <2> QED
    BY <1>3, <1>4, <1>7, <2>1
<1> QED
  BY <1>2, <1>8, <1>9 DEF more

LEMMA TotalTail ==
  ASSUME NEW ns \in Seq(Nat), ns # <<>>
  PROVE  Total(ns) = Head(ns) + Total(Tail(ns))
<1> DEFINE less == Tail(ns)
           n == Len(less)
<1>1. less \in Seq(Nat) /\ n \in Nat /\ Len(ns) = n + 1 /\ ns[1] = Head(ns) /\ Head(ns) \in Nat
      /\ \A i \in 1..n : less[i] = ns[i + 1] /\ less[i] \in Nat
  OBVIOUS
<1> HIDE DEF less, n
<1>2. PICK f \in [0..n + 1 -> Nat] : Partial(f, ns, n + 1) /\ Total(ns) = f[n + 1]
  BY <1>1, TotalIsPartial
<1>3. PICK g \in [0..n -> Nat] : Partial(g, less, n) /\ Total(less) = g[n]
  BY <1>1, TotalIsPartial DEF n
<1> DEFINE h == [i \in 0..n |-> f[i + 1]]
<1>4. h \in [0..n -> Nat] /\ h[n] = f[n + 1] /\ h[0] = f[1]
  BY <1>1, <1>2
<1>5. f[0] = 0 /\ f[1] = f[0] + ns[1] /\ g[0] = 0
  BY <1>1, <1>2, <1>3 DEF Partial
<1>6. \A i \in 1..n : \E y \in Nat : h[i] = h[i - 1] + y /\ g[i] = g[i - 1] + y
  <2> SUFFICES ASSUME NEW i \in 1..n PROVE h[i] = h[i - 1] + less[i] /\ g[i] = g[i - 1] + less[i]
    BY <1>1
  <2>1. i \in 0..n /\ i - 1 \in 0..n /\ i \in 0..n + 1 /\ i + 1 \in 0..n + 1 /\ i # 0 /\ i + 1 # 0
        /\ (i + 1) - 1 = i /\ (i - 1) + 1 = i
    BY <1>1, SMTT(30)
  <2>2. f[i + 1] = f[i] + ns[i + 1]
    BY <1>2, <2>1 DEF Partial
  <2>3. g[i] = g[i - 1] + less[i]
    BY <1>3, <2>1 DEF Partial
  <2>4. h[i] = f[i + 1] /\ h[i - 1] = f[i]
    BY <2>1
  <2> QED
    BY <1>1, <2>2, <2>3, <2>4
<1> HIDE DEF h
<1>7. h[n] = g[n] + Head(ns)
  <2>1. h[0] = g[0] + Head(ns)
    BY <1>1, <1>4, <1>5
  <2> QED
    BY <2>1, <1>1, <1>3, <1>4, <1>5, <1>6, SameSteps
<1> QED
  BY <1>1, <1>2, <1>3, <1>4, <1>7 DEF less

-----------------------------------------------------------------------------
(* Replies owed.                                                             *)

LEMMA OwedEmpty == Owed(<<>>) = 0
<1>1. {i \in DOMAIN <<>> : wants_reply(<<>>[i])} = {}
  OBVIOUS
<1> QED
  BY <1>1, FS_EmptySet DEF Owed

LEMMA OwedFinite ==
  ASSUME NEW ms \in Seq(ClientMsgs)
  PROVE  IsFiniteSet({i \in DOMAIN ms : wants_reply(ms[i])}) /\ Owed(ms) \in Nat
<1>1. IsFiniteSet(1..Len(ms)) /\ {i \in DOMAIN ms : wants_reply(ms[i])} \subseteq 1..Len(ms)
  BY FS_Interval
<1>2. IsFiniteSet({i \in DOMAIN ms : wants_reply(ms[i])})
  BY <1>1, FS_Subset
<1> QED
  BY <1>2, FS_CardinalityType DEF Owed

LEMMA OwedAppend ==
  ASSUME NEW ms \in Seq(ClientMsgs), NEW m \in ClientMsgs
  PROVE  Owed(Append(ms, m)) = Owed(ms) + (IF wants_reply(m) THEN 1 ELSE 0)
<1> DEFINE A == {i \in DOMAIN ms : wants_reply(ms[i])}
           B == {i \in DOMAIN Append(ms, m) : wants_reply(Append(ms, m)[i])}
<1>1. B = IF wants_reply(m) THEN A \cup {Len(ms) + 1} ELSE A
  OBVIOUS
<1>2. IsFiniteSet(A) /\ Len(ms) + 1 \notin A /\ Owed(ms) = Cardinality(A) /\ Owed(ms) \in Nat
  BY OwedFinite DEF Owed
<1>3. Owed(Append(ms, m)) = Cardinality(B)
  BY DEF Owed
<1> HIDE DEF A, B
<1>4. Cardinality(A \cup {Len(ms) + 1}) = Cardinality(A) + 1
  BY <1>2, FS_AddElement
<1> QED
  BY <1>1, <1>2, <1>3, <1>4

LEMMA OwedTail ==
  ASSUME NEW ms \in Seq(ClientMsgs), ms # <<>>
  PROVE  Owed(ms) = Owed(Tail(ms)) + (IF wants_reply(Head(ms)) THEN 1 ELSE 0)
<1> DEFINE A == {i \in DOMAIN ms : wants_reply(ms[i])}
           B == {i \in DOMAIN Tail(ms) : wants_reply(Tail(ms)[i])}
           f == [i \in B |-> i + 1]
<1>1. Tail(ms) \in Seq(ClientMsgs) /\ Head(ms) = ms[1] /\ 1 \in DOMAIN ms
      /\ Len(ms) = Len(Tail(ms)) + 1 /\ \A i \in 1..Len(Tail(ms)) : Tail(ms)[i] = ms[i + 1]
  OBVIOUS
<1>2. f \in Bijection(B, A \ {1})
  <2>1. f \in [B -> A \ {1}]
    BY <1>1
  <2>2. ASSUME NEW i \in A \ {1} PROVE i - 1 \in B /\ f[i - 1] = i
    <3>1. i \in 2..Len(ms) /\ i - 1 \in 1..Len(Tail(ms))
      BY <1>1
    <3> QED
      BY <1>1, <3>1
  <2>3. \A i \in B, j \in B : f[i] = f[j] => i = j
    <3> SUFFICES ASSUME NEW i \in B, NEW j \in B, f[i] = f[j] PROVE i = j
      OBVIOUS
    <3>1. i \in Nat /\ j \in Nat /\ i + 1 = j + 1
      BY <1>1
    <3> QED
      BY <3>1
  <2>4. \A k \in A \ {1} : \E i \in B : f[i] = k
    BY <2>2
  <2>5. DOMAIN f = B
    OBVIOUS
  <2> HIDE DEF A, B, f
  <2> QED
    BY <2>1, <2>3, <2>4, <2>5 DEF Bijection, Injection, Surjection, IsInjective
<1>3. IsFiniteSet(B) /\ Owed(Tail(ms)) = Cardinality(B) /\ Owed(Tail(ms)) \in Nat
  BY <1>1, OwedFinite DEF Owed
<1>4. IsFiniteSet(A) /\ Owed(ms) = Cardinality(A) /\ Owed(ms) \in Nat
  BY OwedFinite DEF Owed
<1>5. 1 \in A <=> wants_reply(Head(ms))
  BY <1>1
<1> HIDE DEF A, B, f
<1>6. Cardinality(A \ {1}) = Cardinality(B)
  <2>1. ExistsBijection(B, A \ {1})
    BY <1>2 DEF ExistsBijection
  <2> QED
    BY <1>3, <2>1, FS_Bijection
<1>7. Cardinality(A \ {1}) = IF 1 \in A THEN Cardinality(A) - 1 ELSE Cardinality(A)
  BY <1>4, FS_RemoveElement
<1> QED
  BY <1>3, <1>4, <1>5, <1>6, <1>7

\* A step that writes no reply answers nothing.
LEMMA NoReplies ==
  ASSUME NEW w, \A i \in DOMAIN w : w[i] \notin ReplyKinds
  PROVE  replies(w) = 0
<1>1. {i \in DOMAIN w : w[i] \in ReplyKinds} = {}
  OBVIOUS
<1> QED
  BY <1>1, FS_EmptySet DEF replies

LEMMA ReplyCounts ==
  ASSUME NEW m \in ClientMsgs
  PROVE  /\ replies(reply(m)) = IF wants_reply(m) THEN 1 ELSE 0
         /\ Len(reply(m)) = IF wants_reply(m) THEN 1 ELSE 0
<1>1. CASE wants_reply(m)
  <2>1. PICK k \in ReplyKinds : reply(m) = <<k>>
    BY <1>1 DEF reply, wants_reply, ReplyKinds
  <2>2. {i \in DOMAIN <<k>> : <<k>>[i] \in ReplyKinds} = {1}
    OBVIOUS
  <2> QED
    BY <1>1, <2>1, <2>2, FS_Singleton DEF replies
<1>2. CASE ~wants_reply(m)
  BY <1>2, NoReplies DEF reply
<1> QED
  BY <1>1, <1>2

-----------------------------------------------------------------------------
(* What the driver's counts mean while it runs: the core of the invariant.   *)

Pending(dd) == IF dd.pending_out = None THEN 0 ELSE dd.pending_out[1]

DriverType ==
  /\ DOMAIN d = DOMAIN new
  /\ d.state \in States
  /\ d.out_window \in Nat /\ d.bytes_sent \in Nat /\ d.bytes_received \in Nat
  /\ d.pending_out = None \/ \E n \in Nat : d.pending_out = Some(n)
  /\ d.finished \in {0, 1} /\ d.command \in BOOLEAN

ChildType ==
  /\ DOMAIN io = DOMAIN NoChild
  /\ io.child \in {"none", "running", "exited", "reaped", "reported"}
  /\ io.out \in Seq(Nat) /\ io.credits \in Seq(Nat)
  /\ io.produced \in Nat /\ io.uncredited \in Nat /\ io.delivered \in Nat
  /\ DOMAIN io.pumps = Streams

Before == {"BeforeOpen", "Idle"}

\* A channel that has not started anything has no child and was not closed;
\* without a child there is nothing in the pipes.
NotStarted ==
  /\ d.state \in Before => io.child = "none" /\ ~d.early_close /\ ~d.child_out_closed
  /\ io.child = "none" => io = NoChild

\* One exec.finished for one exec.started, and every byte a write accepted is
\* counted, in a queued credit, or about to be reported.
Audited ==
  IF pc = "over" THEN d.finished = IF d.command THEN 1 ELSE 0
  ELSE d.finished = 0 /\ d.bytes_received + Total(io.credits) + io.uncredited = io.delivered

\* Output is sent, pending or queued, unless the client closed first.
Accounted ==
  pc # "over" /\ ~d.early_close => d.bytes_sent + Pending(d) + Total(io.out) = io.produced

\* The exit is on the queue or already known; output that is closed is empty.
ExitKnown ==
  pc # "over" =>
    /\ io.child = "reported" =>
         d.exit_status # None \/ \E i \in DOMAIN io.out : io.out[i] = Exited
    /\ d.child_out_closed /\ ~d.early_close =>
         /\ d.exit_status # None
         /\ io.child = "none" \/ (out_senders_gone /\ io.out = <<>>)

Core == DriverType /\ ChildType /\ NotStarted /\ Audited /\ Accounted /\ ExitKnown

\* dd differs from d in nothing the core speaks of, but for what is sent of the
\* output that was pending.
Quiet(dd) ==
  /\ DOMAIN dd = DOMAIN new
  /\ dd.state \in States /\ (dd.state \in Before => d.state \in Before)
  /\ dd.out_window \in Nat /\ dd.bytes_sent \in Nat
  /\ dd.pending_out = None \/ \E n \in Nat : dd.pending_out = Some(n)
  /\ dd.bytes_sent + Pending(dd) = d.bytes_sent + Pending(d)
  /\ dd.bytes_received = d.bytes_received
  /\ dd.finished = d.finished /\ dd.command = d.command /\ dd.early_close = d.early_close
  /\ dd.exit_status = d.exit_status /\ dd.child_out_closed = d.child_out_closed

LEMMA CoreInit == Init => Core
  BY ChannelAssumption, TotalEmpty
  DEF Init, Core, DriverType, ChildType, NotStarted, Audited, Accounted, ExitKnown, new,
      NoChild, States, None, Pending

\* c differs from the child's side in nothing the core speaks of.
SamePipes(c) ==
  /\ DOMAIN c = DOMAIN NoChild
  /\ c.child = io.child /\ c.out = io.out /\ c.credits = io.credits /\ c.pumps = io.pumps
  /\ c.produced = io.produced /\ c.uncredited = io.uncredited /\ c.delivered = io.delivered
  /\ io.child = "none" => c = io

LEMMA CoreQuiet ==
  ASSUME Core, pc # "over", pc' # "over", Quiet(d'), SamePipes(io')
  PROVE  Core'
<1>1. DriverType' /\ ChildType' /\ NotStarted'
  BY DEF Core, DriverType, ChildType, NotStarted, Quiet, SamePipes
<1>2. Audited' /\ ExitKnown'
  BY DEF Core, Audited, ExitKnown, Quiet, SamePipes, out_senders_gone
<1>3. Pending(d)' = Pending(d')
  BY DEF Pending
<1>4. Accounted'
  BY <1>3 DEF Core, Accounted, Quiet, SamePipes
<1> QED
  BY <1>1, <1>2, <1>4 DEF Core

LEMMA ChildDropped ==
  ASSUME ChildType, NotStarted
  PROVE  /\ DOMAIN drop_io(io) = DOMAIN NoChild /\ drop_io(io).child = io.child
         /\ drop_io(io).out \in Seq(Nat) /\ drop_io(io).credits \in Seq(Nat)
         /\ drop_io(io).produced = io.produced /\ drop_io(io).uncredited = io.uncredited
         /\ drop_io(io).delivered = io.delivered /\ DOMAIN drop_io(io).pumps = Streams
         /\ io.child = "none" => drop_io(io) = NoChild
<1>1. CASE io.child = "none"
  BY <1>1 DEF ChildType, NotStarted, drop_io
<1>2. CASE io.child # "none"
  <2>1. <<>> \in Seq(Nat)
    OBVIOUS
  <2> QED
    BY <1>2, <2>1
    DEF ChildType, drop_io, kill, close_stdin, stdin_gone, discard_output, NoChild
<1> QED
  BY <1>1, <1>2

\* Leaving drive, from a state that at most started a command that has no child.
LEMMA CoreLeave ==
  ASSUME Core, pc # "over", NEW dd, NEW w, leave(dd, w), dd.command \in BOOLEAN,
         Quiet([dd EXCEPT !.command = d.command]), DOMAIN dd = DOMAIN new
  PROVE  /\ Core'
         /\ d'.finished # d.finished => d'.bytes_received + io.uncredited = io.delivered
<1>1. ChildType' /\ io'.child = io.child /\ (io.child = "none" => io' = NoChild) /\ pc' = "over"
  BY ChildDropped DEF Core, ChildType, leave, continue
<1>2. /\ dd.finished = 0 /\ dd.bytes_received = d.bytes_received /\ dd.state \in States
      /\ dd.state \in Before => d.state \in Before
      /\ dd.out_window \in Nat /\ dd.bytes_sent \in Nat
      /\ dd.pending_out = None \/ \E n \in Nat : dd.pending_out = Some(n)
      /\ dd.early_close = d.early_close /\ dd.child_out_closed = d.child_out_closed
  BY DEF Quiet, Core, Audited, new
<1>3. Total(io.credits) \in Nat
  BY TotalNat DEF Core, ChildType
<1>4. d' = emit_finished(dd)
  BY DEF leave, continue
<1>5. d'.finished = (IF d'.command THEN 1 ELSE 0) /\ d'.command \in BOOLEAN
  BY <1>2, <1>4 DEF emit_finished, new
<1>6. DriverType'
  BY <1>2, <1>3, <1>4, <1>5 DEF emit_finished, new, DriverType, Core
<1>7. NotStarted'
  BY <1>1, <1>2, <1>4 DEF emit_finished, new, NotStarted, Core
<1>8. d'.finished # d.finished => d'.bytes_received + io.uncredited = io.delivered
  BY <1>2, <1>3, <1>4 DEF emit_finished, new, Core, Audited, DriverType, ChildType
<1>9. Audited' /\ Accounted' /\ ExitKnown'
  BY <1>1, <1>5 DEF Audited, Accounted, ExitKnown
<1> QED
  BY <1>1, <1>6, <1>7, <1>8, <1>9 DEF Core

-----------------------------------------------------------------------------
(* The core, handler by handler.                                             *)

\* The packets' fields.
LEMMA Message ==
  ASSUME NEW m \in ClientMsgs
  PROVE  /\ m.kind \in {"open", "request", "global", "data", "adjust", "eof", "close", "ignore",
                        "disconnect", "bad", "kexinit", "hybrid_init", "newkeys"}
         /\ m.kind = "open" => m.window \in Nat
         /\ m.kind = "data" => m.len \in Nat
         /\ m.kind = "adjust" => m.add \in Nat
  BY ChannelAssumption

LEMMA CoreDisconnect ==
  ASSUME Core, pc # "over", protocol_disconnect
  PROVE  /\ Core'
         /\ d'.finished # d.finished => d'.bytes_received + io.uncredited = io.delivered
<1>1. leave(d, <<"DISCONNECT">>)
  BY DEF protocol_disconnect
<1>2. Quiet([d EXCEPT !.command = d.command]) /\ d.command \in BOOLEAN /\ DOMAIN d = DOMAIN new
  BY DEF Core, DriverType, Quiet, Pending, new
<1> QED
  BY <1>1, <1>2, CoreLeave

\* What a handled packet, a step of a re-key or an arm of the select leaves.
Fine == Core' /\ (d'.finished # d.finished => d'.bytes_received + io.uncredited = io.delivered)

LEMMA FineQuiet ==
  ASSUME Core, pc # "over", NEW then, then # "over", NEW dd, NEW w, continue(then, dd, w), Quiet(dd), io' = io
  PROVE  Fine
<1>1. Quiet(d') /\ pc' # "over" /\ d'.finished = d.finished
  BY DEF continue, Quiet
<1>2. SamePipes(io')
  BY DEF SamePipes, Core, ChildType
<1> QED
  BY <1>1, <1>2, CoreQuiet DEF Fine

LEMMA FineDisconnect == ASSUME Core, pc # "over", protocol_disconnect PROVE Fine
  BY CoreDisconnect DEF Fine

\* The command starts: its child runs, or there is none and 127 stands for it.
LEMMA FineStart ==
  ASSUME Core, pc # "over", NEW m, NEW then, then # "over", d.state = "Idle", start(m, then)
  PROVE  Fine
<1> DEFINE accepted == [d EXCEPT !.command = TRUE, !.pty = FALSE]
<1>1. io = NoChild /\ ~d.early_close /\ ~d.child_out_closed
  BY DEF Core, NotStarted, Before
<1>2. d.bytes_received = 0 /\ d.bytes_sent = 0 /\ Pending(d) = 0
  <2>1. Pending(d) \in Nat /\ d.bytes_sent \in Nat /\ d.bytes_received \in Nat
    BY DEF Core, DriverType, Pending, None, Some
  <2>2. Total(io.credits) = 0 /\ Total(io.out) = 0 /\ io.uncredited = 0 /\ io.delivered = 0 /\ io.produced = 0
    BY <1>1, TotalEmpty DEF NoChild
  <2>3. d.bytes_received + 0 + 0 = 0
    BY <2>2 DEF Core, Audited
  <2>4. d.bytes_sent + Pending(d) + 0 = 0
    BY <1>1, <2>2 DEF Core, Accounted
  <2> QED
    BY <2>1, <2>3, <2>4
<1>3. CASE continue(then, [accepted EXCEPT !.state = "Running"], reply(m)) /\ io' = spawn(d.pty)
  <2>1. /\ DOMAIN d' = DOMAIN new /\ d'.state = "Running" /\ d'.command = TRUE /\ pc' # "over"
        /\ d'.finished = d.finished /\ d'.bytes_received = 0 /\ d'.bytes_sent = 0
        /\ d'.out_window = d.out_window /\ d'.pending_out = d.pending_out
        /\ d'.early_close = d.early_close /\ d'.child_out_closed = d.child_out_closed
    BY <1>2, <1>3 DEF continue, Core, DriverType, new
  <2>2. /\ DOMAIN io' = DOMAIN NoChild /\ io'.child = "running" /\ io'.out = <<>> /\ io'.credits = <<>>
        /\ io'.produced = 0 /\ io'.uncredited = 0 /\ io'.delivered = 0 /\ DOMAIN io'.pumps = Streams
    BY <1>3 DEF spawn, NoChild
  <2>3. DriverType'
    <3>1. d'.command \in BOOLEAN
      BY <2>1, Zenon
    <3>2. d'.state \in States /\ d'.bytes_sent \in Nat /\ d'.bytes_received \in Nat
      BY <2>1 DEF States
    <3>3. (d'.pending_out = None \/ \E n \in Nat : d'.pending_out = Some(n)) /\ d'.finished \in {0, 1}
          /\ d'.out_window \in Nat
      BY <2>1 DEF Core, DriverType
    <3> QED
      BY <2>1, <3>1, <3>2, <3>3 DEF DriverType
  <2>6. ChildType' /\ NotStarted'
    BY <2>1, <2>2 DEF ChildType, NotStarted, Before
  <2>4. Audited' /\ Accounted'
    BY <1>2, <2>1, <2>2, TotalEmpty DEF Core, Audited, Accounted, Pending
  <2>5. ExitKnown'
    BY <1>1, <2>1, <2>2 DEF Core, ExitKnown, NoChild, out_senders_gone
  <2> QED
    BY <2>1, <2>3, <2>4, <2>5, <2>6 DEF Core, Fine
<1>4. CASE continue(then, [accepted EXCEPT !.state = "Draining", !.exit_status = Some("127"),
                             !.child_out_closed = TRUE, !.consumed_closed = TRUE], reply(m)) /\ UNCHANGED io
  <2>1. /\ DOMAIN d' = DOMAIN new /\ d'.state = "Draining" /\ d'.command = TRUE /\ pc' # "over"
        /\ d'.finished = d.finished /\ d'.bytes_received = 0 /\ d'.bytes_sent = 0
        /\ d'.out_window = d.out_window /\ d'.pending_out = d.pending_out
        /\ d'.early_close = d.early_close /\ d'.exit_status # None /\ io' = io
    BY <1>2, <1>4 DEF continue, Core, DriverType, new, Some, None
  <2>2. DriverType'
    <3>1. d'.command \in BOOLEAN
      BY <2>1, Zenon
    <3>2. d'.state \in States /\ d'.bytes_sent \in Nat /\ d'.bytes_received \in Nat
      BY <2>1 DEF States
    <3>3. (d'.pending_out = None \/ \E n \in Nat : d'.pending_out = Some(n)) /\ d'.finished \in {0, 1}
          /\ d'.out_window \in Nat
      BY <2>1 DEF Core, DriverType
    <3> QED
      BY <2>1, <3>1, <3>2, <3>3 DEF DriverType
  <2>5. ChildType' /\ NotStarted'
    BY <2>1 DEF Core, ChildType, NotStarted, Before
  <2>3. Audited' /\ Accounted'
    BY <1>2, <2>1, TotalEmpty DEF Core, Audited, Accounted, Pending, DriverType
  <2>4. ExitKnown'
    BY <1>1, <2>1 DEF ExitKnown, NoChild
  <2> QED
    BY <2>1, <2>2, <2>3, <2>4, <2>5 DEF Core, Fine
<1>5. CASE leave(accepted, <<>>)
  <2>1. accepted.command \in BOOLEAN /\ DOMAIN accepted = DOMAIN new
        /\ Quiet([accepted EXCEPT !.command = d.command])
    BY DEF Core, DriverType, Quiet, Pending, new
  <2> HIDE DEF accepted
  <2> QED
    BY <1>5, <2>1, CoreLeave DEF Fine
<1> QED
  BY <1>3, <1>4, <1>5 DEF start

\* The client closes first: the output is given up, the child killed.
LEMMA FineClose ==
  ASSUME Core, pc # "over", NEW m, NEW then, then # "over", d.state # "BeforeOpen",
         on_channel_close(m, then)
  PROVE  Fine
<1> DEFINE closing == [d EXCEPT !.early_close = TRUE, !.pending_out = None, !.state = "Draining"]
<1>1. CASE d.state = "ServerClosed"
  <2>1. Quiet([d EXCEPT !.state = "Closed"]) /\ io' = io
        /\ continue(then, [d EXCEPT !.state = "Closed"], <<>>)
    BY <1>1 DEF on_channel_close, Core, DriverType, Quiet, Pending, new, States, Before
  <2> QED
    BY <2>1, FineQuiet
<1>2. CASE d.state # "ServerClosed"
  <2>1. /\ DOMAIN d' = DOMAIN new /\ d'.state = "Draining" /\ d'.early_close = TRUE /\ pc' # "over"
        /\ d'.command = d.command /\ d'.finished = d.finished /\ d'.bytes_received = d.bytes_received
        /\ d'.bytes_sent = d.bytes_sent /\ d'.out_window = d.out_window /\ d'.pending_out = None
        /\ d'.exit_status = d.exit_status
    BY <1>2 DEF on_channel_close, continue, Core, DriverType, new
  <2>2. /\ DOMAIN io' = DOMAIN NoChild /\ io'.child = io.child /\ io'.out = io.out
        /\ io'.credits = io.credits /\ io'.produced = io.produced /\ io'.uncredited = io.uncredited
        /\ io'.delivered = io.delivered /\ DOMAIN io'.pumps = Streams
        /\ io.child = "none" => io' = io
    <3>1. CASE has_child
      <4>1. io' = kill(discard_output(close_stdin(io)))
        BY <1>2, <3>1 DEF on_channel_close
      <4> QED
        BY <3>1, <4>1 DEF Core, ChildType, NoChild, has_child, kill, discard_output, stdin_gone, close_stdin
    <3>2. CASE ~has_child
      <4>1. io' = io
        BY <1>2, <3>2 DEF on_channel_close
      <4> QED
        BY <4>1 DEF Core, ChildType
    <3> QED
      BY <3>1, <3>2
  <2>3. DriverType' /\ ChildType' /\ NotStarted'
    BY <2>1, <2>2 DEF Core, DriverType, ChildType, NotStarted, States, Before
  <2>4. Audited' /\ Accounted' /\ ExitKnown'
    BY <2>1, <2>2 DEF Core, Audited, Accounted, ExitKnown
  <2> QED
    BY <2>1, <2>3, <2>4 DEF Core, Fine
<1> QED
  BY <1>1, <1>2

LEMMA FineInbound ==
  ASSUME Core, pc # "over", NEW m \in ClientMsgs, NEW then, then # "over", handle_inbound(m, then)
  PROVE  Fine
<1> USE Message
<1>1. Quiet(d)
  BY DEF Core, DriverType, Quiet
<1>2. CASE m.kind = "open" /\ on_channel_open(m, then)
  <2>1. CASE d.state # "BeforeOpen" \/ m.type # "session"
    BY <1>1, <1>2, <2>1, FineQuiet DEF on_channel_open
  <2>2. CASE d.state = "BeforeOpen" /\ m.type = "session" /\ m.max_pkt = 0
    BY <1>2, <2>2, FineDisconnect DEF on_channel_open
  <2>3. CASE d.state = "BeforeOpen" /\ m.type = "session" /\ m.max_pkt # 0
    <3> DEFINE dd == [d EXCEPT !.state = "Idle", !.out_window = m.window, !.in_window = INITIAL_WINDOW]
    <3>1. Quiet(dd)
      BY <1>2, <2>3 DEF Core, DriverType, Quiet, Pending, new, States, Before
    <3>2. continue(then, dd, reply(m)) /\ io' = io
      BY <1>2, <2>3 DEF on_channel_open
    <3> HIDE DEF dd
    <3> QED
      BY <3>1, <3>2, FineQuiet
  <2> QED
    BY <2>1, <2>2, <2>3
<1>3. CASE protocol_disconnect
  BY <1>3, FineDisconnect
<1>4. CASE d.state # "BeforeOpen" /\ m.kind = "request" /\ on_channel_request(m, then)
  <2>1. CASE starts_child(m) /\ start(m, then)
    BY <2>1, FineStart DEF starts_child
  <2>2. ASSUME NEW granted, continue(then, [d EXCEPT !.pty = @ \/ granted], reply(m)), io' = io
        PROVE  Fine
    <3>1. Quiet([d EXCEPT !.pty = @ \/ granted])
      BY DEF Core, DriverType, Quiet, Pending, new
    <3> QED
      BY <2>2, <3>1, FineQuiet
  <2> QED
    BY <1>4, <2>1, <2>2 DEF on_channel_request
<1>5. CASE d.state # "BeforeOpen" /\ m.kind = "data" /\ on_channel_data(m, then)
  <2>1. CASE d.state = "ServerClosed"
    BY <1>1, <1>5, <2>1, FineQuiet DEF on_channel_data
  <2>2. CASE d.state # "ServerClosed" /\ data_refused(m.len)
    BY <1>5, <2>2, FineDisconnect DEF on_channel_data
  <2>3. CASE d.state # "ServerClosed" /\ ~data_refused(m.len)
    <3>1. Quiet(stash(m.len))
      BY DEF Core, DriverType, Quiet, Pending, new, stash
    <3> QED
      BY <1>5, <2>3, <3>1, FineQuiet DEF on_channel_data
  <2> QED
    BY <2>1, <2>2, <2>3
<1>6. CASE d.state # "BeforeOpen" /\ m.kind = "adjust" /\ on_window_adjust(m, then)
  <2>1. CASE d.out_window + m.add > MaxWindow
    BY <1>6, <2>1, FineDisconnect DEF on_window_adjust
  <2>2. CASE ~(d.out_window + m.add > MaxWindow)
    <3>1. Quiet([d EXCEPT !.out_window = @ + m.add])
      BY <1>6 DEF Core, DriverType, Quiet, Pending, new
    <3> QED
      BY <1>6, <2>2, <3>1, FineQuiet DEF on_window_adjust
  <2> QED
    BY <2>1, <2>2
<1>7. CASE d.state # "BeforeOpen" /\ m.kind = "eof" /\ on_channel_eof(m, then)
  <2>1. Quiet([d EXCEPT !.client_eof = TRUE])
    BY DEF Core, DriverType, Quiet, Pending, new
  <2> QED
    BY <1>7, <2>1, FineQuiet DEF on_channel_eof
<1>8. CASE d.state # "BeforeOpen" /\ m.kind = "close" /\ on_channel_close(m, then)
  BY <1>8, FineClose
<1>9. CASE continue(then, d, reply(m)) /\ UNCHANGED io
  BY <1>1, <1>9, FineQuiet
<1>10. CASE leave(d, <<>>)
  <2>1. Quiet([d EXCEPT !.command = d.command]) /\ d.command \in BOOLEAN /\ DOMAIN d = DOMAIN new
    BY DEF Core, DriverType, Quiet, Pending, new
  <2> QED
    BY <1>10, <2>1, CoreLeave DEF Fine
<1> QED
  BY <1>2, <1>3, <1>4, <1>5, <1>6, <1>7, <1>8, <1>9, <1>10 DEF handle_inbound

-----------------------------------------------------------------------------
(* The head of the loop.                                                     *)

LEMMA Flushed == ASSUME DriverType PROVE Quiet(flush_output(d)) /\ flush_output(d).state = d.state
<1> DEFINE n == IF may_emit_output(d.state) /\ d.pending_out # None
                THEN LeastOf(d.pending_out[1], d.out_window) ELSE 0
           dd == flush_output(d)
<1>1. n \in Nat /\ n <= d.out_window /\ n <= Pending(d)
  BY DEF DriverType, LeastOf, Pending, None, Some
<1>2. /\ DOMAIN dd = DOMAIN new /\ dd.state = d.state /\ dd.out_window = d.out_window - n
      /\ dd.bytes_sent = d.bytes_sent + n
      /\ dd.pending_out = IF n = 0 THEN d.pending_out
                          ELSE IF d.pending_out[1] = n THEN None ELSE Some(d.pending_out[1] - n)
      /\ dd.bytes_received = d.bytes_received /\ dd.finished = d.finished /\ dd.command = d.command
      /\ dd.early_close = d.early_close /\ dd.exit_status = d.exit_status
      /\ dd.child_out_closed = d.child_out_closed
  BY DEF DriverType, flush_output, new
<1> HIDE DEF n, dd
<1>3. /\ dd.pending_out = None \/ \E k \in Nat : dd.pending_out = Some(k)
      /\ dd.bytes_sent + Pending(dd) = d.bytes_sent + Pending(d)
  BY <1>1, <1>2 DEF DriverType, Pending, None, Some
<1>4. Quiet(dd) /\ dd.state = d.state
  BY <1>1, <1>2, <1>3 DEF DriverType, Quiet
<1> QED
  BY <1>4 DEF dd

LEMMA Fed ==
  ASSUME NEW dd, Quiet(dd)
  PROVE  /\ Quiet(handoff_stdin(dd)) /\ handoff_stdin(dd).state = dd.state
         /\ Quiet(replenish_window(dd)) /\ replenish_window(dd).state = dd.state
         /\ dd.state = "Draining" => Quiet(send_terminal(dd))
<1>1. Quiet(handoff_stdin(dd)) /\ handoff_stdin(dd).state = dd.state
  BY DEF Quiet, Pending, new, handoff_stdin, handed_off, refilled
<1>2. Quiet(replenish_window(dd)) /\ replenish_window(dd).state = dd.state
  BY DEF Quiet, Pending, new, replenish_window
<1>3. dd.state = "Draining" => Quiet(send_terminal(dd))
  BY DEF Quiet, Pending, new, send_terminal, States, Before
<1> QED
  BY <1>1, <1>2, <1>3

LEMMA FedChild ==
  ASSUME ChildType, NEW before, NEW after
  PROVE  SamePipes(child_after_handoff(before, after))
  BY DEF ChildType, SamePipes, NoChild, child_after_handoff, close_stdin, offered, has_child

LEMMA FineFed ==
  ASSUME Core, pc # "over", NEW then, then # "over", NEW dd, NEW w, continue(then, dd, w), Quiet(dd),
         SamePipes(io')
  PROVE  Fine
<1>1. Quiet(d') /\ pc' # "over" /\ d'.finished = d.finished
  BY DEF continue, Quiet
<1> QED
  BY <1>1, CoreQuiet DEF Fine

LEMMA FineLeave ==
  ASSUME Core, pc # "over", NEW dd, NEW w, leave(dd, w), Quiet(dd)
  PROVE  Fine
<1>1. Quiet([dd EXCEPT !.command = d.command]) /\ dd.command \in BOOLEAN /\ DOMAIN dd = DOMAIN new
  BY DEF Core, DriverType, Quiet, Pending, new
<1> QED
  BY <1>1, CoreLeave DEF Fine

LEMMA FineHead == ASSUME Core, NEW due, head(due) PROVE Fine
<1> DEFINE flushed == flush_output(d)
           fed == handoff_stdin(flushed)
           dd == replenish_window(fed)
           child == child_after_handoff(flushed, fed)
           w == (IF flushed.bytes_sent > d.bytes_sent THEN <<"DATA">> ELSE <<>>)
                 \o (IF dd.in_window > fed.in_window THEN <<"WINDOW_ADJUST">> ELSE <<>>)
           begins == due /\ may_rekey(dd.state)
           ends == ready_to_close(dd)
           after == IF ends THEN send_terminal(dd) ELSE dd
           wrote == IF ends THEN w \o terminal_packets(dd) ELSE w
<1>1. pc # "over"
  BY DEF head
<1>2. Quiet(dd) /\ SamePipes(child)
  <2>1. Quiet(flushed)
    BY Flushed DEF Core
  <2> HIDE DEF flushed
  <2>2. Quiet(fed)
    BY <2>1, Fed
  <2>3. SamePipes(child)
    BY FedChild DEF Core
  <2> HIDE DEF fed, child
  <2> QED
    BY <2>2, <2>3, Fed
<1>3. \/ continue("select", dd, w \o <<"KEXINIT">>) /\ io' = child
      \/ leave(after, wrote)
      \/ continue("select", after, wrote) /\ io' = child
  BY DEF head
<1>4. Quiet(after)
  <2> HIDE DEF dd
  <2> QED
    BY <1>2, Fed DEF ready_to_close
<1> HIDE DEF dd, child, w, after, wrote
<1>5. CASE continue("select", dd, w \o <<"KEXINIT">>) /\ io' = child
  BY <1>1, <1>2, <1>5, FineFed
<1>6. CASE leave(after, wrote)
  BY <1>1, <1>4, <1>6, FineLeave
<1>7. CASE continue("select", after, wrote) /\ io' = child
  BY <1>1, <1>2, <1>4, <1>7, FineFed
<1> QED
  BY <1>3, <1>5, <1>6, <1>7

LEMMA FineHeadDuringRekey == ASSUME Core, head_during_rekey PROVE Fine
<1>1. Quiet(d)
  BY DEF Core, DriverType, Quiet, Pending
<1>2. Quiet(handoff_stdin(d)) /\ SamePipes(child_after_handoff(d, handoff_stdin(d)))
  BY <1>1, Fed, FedChild DEF Core
<1> QED
  BY <1>2, FineFed DEF head_during_rekey
-----------------------------------------------------------------------------
(* Re-key steps and the arms of the select.                                  *)

LEMMA FineRead ==
  ASSUME Core, NEW m \in ClientMsgs, read_packet(m)
  PROVE  Fine
<1>1. pc # "over" /\ Quiet(d)
  BY DEF Core, DriverType, Quiet, Pending, read_packet
<1>2. CASE handle_inbound(m, "head")
  BY <1>1, <1>2, FineInbound
<1>3. CASE protocol_disconnect
  BY <1>1, <1>3, FineDisconnect
<1>4. ASSUME NEW w, negotiate_rekey(m, w) PROVE Fine
  <2>1. \/ continue("head", d, w) /\ io' = io
        \/ leave(d, w \o <<"DISCONNECT">>)
    BY <1>4 DEF negotiate_rekey
  <2> QED
    BY <1>1, <2>1, FineQuiet, FineLeave
<1>5. ASSUME NEW then, then # "over", NEW dd, NEW w, continue(then, dd, w), io' = io,
             dd = d \/ \E q : dd = [d EXCEPT !.deferred = q]
      PROVE  Fine
  <2>1. Quiet(dd)
    BY <1>1, <1>5 DEF Core, DriverType, Quiet, Pending, new
  <2> QED
    BY <1>1, <1>5, <2>1, FineQuiet
<1>6. CASE rekey_active /\ step_rekey(m)
  <2>1. CASE pass_to_channel(m)
    BY <1>2, <1>3, <1>5, <2>1 DEF pass_to_channel
  <2>2. CASE negotiate_rekey(m, <<>>)
    BY <1>4, <2>2
  <2>3. CASE continue("head", d, <<>>) /\ io' = io
    BY <1>5, <2>3
  <2>4. CASE continue("head", d, <<"HYBRID_REPLY", "NEWKEYS">>) /\ io' = io
    BY <1>5, <2>4
  <2>5. CASE continue(IF d.deferred = <<>> THEN "head" ELSE "drain", [d EXCEPT !.deferred = <<>>], <<>>)
             /\ io' = io
    <3>1. (IF d.deferred = <<>> THEN "head" ELSE "drain") # "over"
      OBVIOUS
    <3> QED
      BY <1>5, <2>5, <3>1
  <2> QED
    BY <1>3, <1>6, <2>1, <2>2, <2>3, <2>4, <2>5 DEF step_rekey
<1> QED
  BY <1>2, <1>4, <1>6 DEF read_packet

\* An arm that queues or counts what the child's tasks reported.
LEMMA FineOutData == ASSUME Core, recv_out_data PROVE Fine
<1>1. pc # "over" /\ pc' # "over" /\ io.out # <<>> /\ io' = [io EXCEPT !.out = Tail(@)]
      /\ d.pending_out = None /\ may_emit_output(d.state) /\ Head(io.out) # Exited
  BY DEF recv_out_data, want_output, arm, continue
<1>2. /\ Head(io.out) \in Nat /\ Tail(io.out) \in Seq(Nat) /\ Total(Tail(io.out)) \in Nat
      /\ Total(io.out) = Head(io.out) + Total(Tail(io.out))
  <2>1. io.out \in Seq(Nat)
    BY DEF Core, ChildType
  <2>2. Head(io.out) \in Nat /\ Tail(io.out) \in Seq(Nat)
    BY <1>1, <2>1
  <2> QED
    BY <1>1, <2>1, <2>2, TotalTail, TotalNat
<1>3. /\ DOMAIN io' = DOMAIN NoChild /\ io'.child = io.child /\ io'.out = Tail(io.out)
      /\ io'.credits = io.credits /\ io'.pumps = io.pumps /\ io'.produced = io.produced
      /\ io'.uncredited = io.uncredited /\ io'.delivered = io.delivered /\ io.child # "none"
  BY <1>1 DEF Core, ChildType, NoChild, NotStarted
<1>4. d' = IF d.early_close THEN d ELSE [d EXCEPT !.pending_out = Some(Head(io.out))]
  BY DEF recv_out_data, arm, continue
<1>5. /\ DOMAIN d' = DOMAIN new /\ d'.state = d.state /\ d'.out_window = d.out_window
      /\ d'.bytes_sent = d.bytes_sent /\ d'.bytes_received = d.bytes_received
      /\ d'.finished = d.finished /\ d'.command = d.command /\ d'.early_close = d.early_close
      /\ d'.exit_status = d.exit_status /\ d'.child_out_closed = d.child_out_closed
  BY <1>4 DEF Core, DriverType, new
<1>6. /\ d.early_close => d'.pending_out = d.pending_out
      /\ ~d.early_close => d'.pending_out = Some(Head(io.out))
  BY <1>4 DEF Core, DriverType, new
<1>7. DriverType' /\ ChildType' /\ NotStarted'
  BY <1>2, <1>3, <1>5, <1>6 DEF Core, DriverType, ChildType, NotStarted
<1>8. Audited'
  BY <1>1, <1>3, <1>5 DEF Core, Audited
<1>9. Accounted'
  <2> SUFFICES ASSUME ~d.early_close
               PROVE  d'.bytes_sent + Pending(d') + Total(io'.out) = io'.produced
    BY <1>5 DEF Accounted, Pending
  <2>1. Pending(d) = 0 /\ Pending(d') = Head(io.out)
    BY <1>1, <1>6 DEF Pending, None, Some
  <2>2. d.bytes_sent + 0 + Total(io.out) = io.produced /\ d.bytes_sent \in Nat
    BY <1>1, <2>1 DEF Core, Accounted, DriverType
  <2> QED
    BY <1>2, <1>3, <1>5, <2>1, <2>2
<1>10. ExitKnown'
  <2>1. (\E i \in DOMAIN io.out : io.out[i] = Exited) => \E i \in DOMAIN io'.out : io'.out[i] = Exited
    <3> SUFFICES ASSUME NEW i \in DOMAIN io.out, io.out[i] = Exited
                 PROVE  i - 1 \in DOMAIN Tail(io.out) /\ Tail(io.out)[i - 1] = Exited
      BY <1>3
    <3>1. io.out \in Seq(Nat) /\ io.out[1] = Head(io.out)
      BY <1>1 DEF Core, ChildType
    <3>2. i \in 2..Len(io.out) /\ Len(Tail(io.out)) = Len(io.out) - 1
      BY <1>1, <3>1
    <3> QED
      BY <1>1, <3>1, <3>2
  <2>2. d.child_out_closed /\ ~d.early_close => FALSE
    BY <1>1, <1>3 DEF Core, ExitKnown
  <2> QED
    BY <1>1, <1>3, <1>5, <2>1, <2>2 DEF Core, ExitKnown
<1> QED
  BY <1>5, <1>7, <1>8, <1>9, <1>10 DEF Core, Fine

LEMMA FineOutExited == ASSUME Core, recv_out_exited PROVE Fine
<1>1. pc # "over" /\ pc' # "over" /\ io.out # <<>> /\ io' = [io EXCEPT !.out = Tail(@)]
      /\ may_emit_output(d.state) /\ Head(io.out) = 0
  BY DEF recv_out_exited, want_output, arm, continue, Exited
<1>2. Tail(io.out) \in Seq(Nat) /\ Total(io.out) = Total(Tail(io.out)) /\ Total(io.out) \in Nat
  <2>1. io.out \in Seq(Nat)
    BY DEF Core, ChildType
  <2>2. Tail(io.out) \in Seq(Nat)
    BY <1>1, <2>1
  <2>3. Total(io.out) = Head(io.out) + Total(Tail(io.out)) /\ Total(Tail(io.out)) \in Nat
    BY <1>1, <2>1, <2>2, TotalTail, TotalNat
  <2> QED
    BY <1>1, <2>2, <2>3
<1>3. /\ DOMAIN io' = DOMAIN NoChild /\ io'.child = io.child /\ io'.out = Tail(io.out)
      /\ io'.credits = io.credits /\ io'.pumps = io.pumps /\ io'.produced = io.produced
      /\ io'.uncredited = io.uncredited /\ io'.delivered = io.delivered /\ io.child # "none"
  BY <1>1 DEF Core, ChildType, NoChild, NotStarted
<1>4. d' = [d EXCEPT !.exit_status = IF @ = None THEN Some("exited") ELSE @, !.state = "Draining"]
  BY DEF recv_out_exited, arm, continue
<1>5. /\ DOMAIN d' = DOMAIN new /\ d'.state = "Draining" /\ d'.out_window = d.out_window
      /\ d'.bytes_sent = d.bytes_sent /\ d'.bytes_received = d.bytes_received
      /\ d'.pending_out = d.pending_out
      /\ d'.finished = d.finished /\ d'.command = d.command /\ d'.early_close = d.early_close
      /\ d'.exit_status # None /\ d'.child_out_closed = d.child_out_closed
  BY <1>4 DEF Core, DriverType, new, None, Some
<1>6. DriverType' /\ ChildType' /\ NotStarted'
  BY <1>2, <1>3, <1>5 DEF Core, DriverType, ChildType, NotStarted, States, Before
<1>7. Audited' /\ Accounted'
  BY <1>1, <1>2, <1>3, <1>5 DEF Core, Audited, Accounted, Pending
<1>8. ExitKnown'
  <2>1. d.child_out_closed /\ ~d.early_close => FALSE
    BY <1>1, <1>3 DEF Core, ExitKnown
  <2> QED
    BY <1>5, <2>1 DEF ExitKnown
<1> QED
  BY <1>5, <1>6, <1>7, <1>8 DEF Core, Fine

LEMMA FineOutClosed == ASSUME Core, recv_out_closed PROVE Fine
<1>1. /\ pc # "over" /\ pc' # "over" /\ io' = io /\ io.out = <<>> /\ out_senders_gone
      /\ d' = [d EXCEPT !.child_out_closed = TRUE] /\ may_emit_output(d.state)
  BY DEF recv_out_closed, want_output, arm, continue
<1>2. d.exit_status # None
  BY <1>1 DEF Core, ExitKnown, out_senders_gone
<1>3. /\ DOMAIN d' = DOMAIN new /\ d'.state = d.state /\ d'.out_window = d.out_window
      /\ d'.bytes_sent = d.bytes_sent /\ d'.bytes_received = d.bytes_received
      /\ d'.pending_out = d.pending_out
      /\ d'.finished = d.finished /\ d'.command = d.command /\ d'.early_close = d.early_close
      /\ d'.exit_status = d.exit_status
  BY <1>1 DEF Core, DriverType, new
<1>4. DriverType' /\ ChildType' /\ NotStarted'
  BY <1>1, <1>3 DEF Core, DriverType, ChildType, NotStarted, may_emit_output, Before
<1>5. Audited' /\ Accounted'
  BY <1>1, <1>3 DEF Core, Audited, Accounted, Pending
<1>6. ExitKnown'
  BY <1>1, <1>2, <1>3 DEF ExitKnown, out_senders_gone
<1> QED
  BY <1>3, <1>4, <1>5, <1>6 DEF Core, Fine

LEMMA FineConsumed == ASSUME Core, recv_consumed PROVE Fine
<1>1. pc # "over" /\ pc' # "over" /\ io.child # "none"
  BY DEF recv_consumed, has_child, arm, continue
<1>2. CASE arm([d EXCEPT !.consumed_closed = TRUE]) /\ UNCHANGED io
  <2>1. Quiet([d EXCEPT !.consumed_closed = TRUE]) /\ io' = io
        /\ continue("head", [d EXCEPT !.consumed_closed = TRUE], <<>>)
    BY <1>2 DEF Core, DriverType, Quiet, Pending, new, arm
  <2> QED
    BY <1>1, <2>1, FineQuiet
<1>3. CASE /\ io.credits # <<>> /\ io' = [io EXCEPT !.credits = Tail(@)]
           /\ arm([d EXCEPT !.credit_pending = @ + Head(io.credits),
                            !.bytes_received = @ + Head(io.credits)])
  <2>1. /\ Head(io.credits) \in Nat /\ Tail(io.credits) \in Seq(Nat) /\ Total(Tail(io.credits)) \in Nat
        /\ Total(io.credits) = Head(io.credits) + Total(Tail(io.credits))
    <3>1. io.credits \in Seq(Nat)
      BY DEF Core, ChildType
    <3>2. Head(io.credits) \in Nat /\ Tail(io.credits) \in Seq(Nat)
      BY <1>3, <3>1
    <3> QED
      BY <1>3, <3>1, <3>2, TotalTail, TotalNat
  <2>2. /\ DOMAIN io' = DOMAIN NoChild /\ io'.child = io.child /\ io'.out = io.out
        /\ io'.credits = Tail(io.credits) /\ io'.pumps = io.pumps /\ io'.produced = io.produced
        /\ io'.uncredited = io.uncredited /\ io'.delivered = io.delivered
    BY <1>3 DEF Core, ChildType, NoChild
  <2>3. /\ DOMAIN d' = DOMAIN new /\ d'.state = d.state /\ d'.out_window = d.out_window
        /\ d'.bytes_sent = d.bytes_sent /\ d'.bytes_received = d.bytes_received + Head(io.credits)
        /\ d'.pending_out = d.pending_out
        /\ d'.finished = d.finished /\ d'.command = d.command /\ d'.early_close = d.early_close
        /\ d'.exit_status = d.exit_status /\ d'.child_out_closed = d.child_out_closed
    BY <1>3 DEF Core, DriverType, new, arm, continue
  <2>4. DriverType' /\ ChildType' /\ NotStarted'
    <3>1. DriverType'
      BY <1>1, <2>1, <2>3 DEF Core, DriverType
    <3>2. ChildType'
      BY <1>1, <2>1, <2>2 DEF Core, ChildType
    <3>3. NotStarted'
      BY <1>1, <2>1, <2>2, <2>3 DEF Core, NotStarted
    <3> QED
      BY <3>1, <3>2, <3>3
  <2>5. Accounted' /\ ExitKnown'
    BY <1>1, <2>2, <2>3 DEF Core, Accounted, ExitKnown, Pending, out_senders_gone
  <2>6. Audited'
    <3>1. d.bytes_received + Total(io.credits) + io.uncredited = io.delivered
      BY <1>1 DEF Core, Audited
    <3>2. d.bytes_received \in Nat /\ io.uncredited \in Nat
      BY DEF Core, DriverType, ChildType
    <3>3. (d.bytes_received + Head(io.credits)) + Total(Tail(io.credits)) + io.uncredited = io.delivered
      BY <2>1, <3>1, <3>2
    <3> QED
      BY <1>1, <2>2, <2>3, <3>3 DEF Core, Audited
  <2> QED
    BY <2>3, <2>4, <2>5, <2>6 DEF Core, Fine
<1> QED
  BY <1>2, <1>3 DEF recv_consumed
-----------------------------------------------------------------------------
(* The child's tasks.                                                        *)

\* A task that loses nothing of what the core counts.
LEMMA FineTask ==
  ASSUME Core, NEW c, child_step(c), DOMAIN c = DOMAIN NoChild, DOMAIN c.pumps = Streams,
         c.child \in {"running", "exited", "reaped", "reported"},
         c.out \in Seq(Nat), c.produced \in Nat,
         c.credits \in Seq(Nat), c.uncredited \in Nat, c.delivered \in Nat, io.child # "none",
         c.produced - Total(c.out) = io.produced - Total(io.out),
         c.delivered + Total(io.credits) + io.uncredited = io.delivered + Total(c.credits) + c.uncredited,
         c.child = "reported" => io.child = "reported" \/ \E i \in DOMAIN c.out : c.out[i] = Exited,
         (\E i \in DOMAIN io.out : io.out[i] = Exited) => \E i \in DOMAIN c.out : c.out[i] = Exited,
         out_senders_gone /\ io.out = <<>> =>
           c.child = "reported" /\ c.out = <<>> /\ \A s \in Streams : c.pumps[s] = "done"
  PROVE  Fine
<1>1. io' = c /\ pc' = pc /\ d' = d
  BY DEF child_step
<1>2. DriverType' /\ ChildType' /\ NotStarted'
  BY <1>1 DEF Core, DriverType, ChildType, NotStarted
<1>3. ExitKnown'
  BY <1>1 DEF Core, ExitKnown, out_senders_gone
<1>4. PICK tc \in Nat, ti \in Nat : tc = Total(c.credits) /\ ti = Total(io.credits)
  BY TotalNat DEF Core, ChildType
<1>5. Audited'
  <2>1. PICK u \in Nat, b \in Nat, e \in Nat, v \in Nat, f \in Nat :
          /\ u = io.uncredited /\ b = d.bytes_received /\ e = io.delivered
          /\ v = c.uncredited /\ f = c.delivered
    BY DEF Core, ChildType, DriverType
  <2>2. f + ti + u = e + tc + v
    BY <1>4, <2>1
  <2>3. u \in Nat /\ b \in Nat /\ e \in Nat /\ v \in Nat /\ f \in Nat /\ tc \in Nat /\ ti \in Nat
    BY <1>4, <2>1
  <2>4. b + ti + u = e => b + tc + v = f
    BY <2>2, <2>3
  <2> QED
    BY <1>1, <1>4, <2>1, <2>4 DEF Core, Audited
<1>6. PICK oc \in Nat, oi \in Nat : oc = Total(c.out) /\ oi = Total(io.out)
  BY TotalNat DEF Core, ChildType
<1>7. Accounted'
  <2>1. io.produced \in Nat /\ d.bytes_sent \in Nat /\ Pending(d) \in Nat
    BY SMTT(30) DEF Core, ChildType, DriverType, Pending, None, Some
  <2>2. c.produced - oc = io.produced - oi
    BY <1>6
  <2>3. d.bytes_sent + Pending(d) + oi = io.produced => d.bytes_sent + Pending(d) + oc = c.produced
    BY <1>6, <2>1, <2>2
  <2> QED
    BY <1>1, <1>6, <2>3 DEF Core, Accounted, Pending
<1> QED
  BY <1>1, <1>2, <1>3, <1>5, <1>7 DEF Core, Fine

\* The tasks that touch neither queue's counts.
LEMMA FinePlainTask ==
  ASSUME Core, NEW c, child_step(c), DOMAIN c = DOMAIN NoChild, DOMAIN c.pumps = Streams, io.child # "none",
         c.child \in {"running", "exited", "reaped"} \/ c.child = io.child, io.child = "reported" => c.child = "reported",
         c.out = io.out, c.produced = io.produced,
         c.credits = io.credits, c.uncredited = io.uncredited, c.delivered = io.delivered,
         \A s \in Streams : io.pumps[s] = "done" => c.pumps[s] = "done"
  PROVE  Fine
<1>1. /\ c.child \in {"running", "exited", "reaped", "reported"}
      /\ c.out \in Seq(Nat) /\ c.produced \in Nat
      /\ c.credits \in Seq(Nat) /\ c.uncredited \in Nat /\ c.delivered \in Nat
  BY DEF Core, ChildType
<1>2. /\ c.produced - Total(c.out) = io.produced - Total(io.out)
      /\ c.delivered + Total(io.credits) + io.uncredited = io.delivered + Total(c.credits) + c.uncredited
  OBVIOUS
<1>3. /\ c.child = "reported" => io.child = "reported" \/ \E i \in DOMAIN c.out : c.out[i] = Exited
      /\ (\E i \in DOMAIN io.out : io.out[i] = Exited) => \E i \in DOMAIN c.out : c.out[i] = Exited
      /\ out_senders_gone /\ io.out = <<>> =>
           c.child = "reported" /\ c.out = <<>> /\ \A s \in Streams : c.pumps[s] = "done"
  BY DEF out_senders_gone
<1> QED
  BY <1>1, <1>2, <1>3, FineTask

LEMMA ChildSteps ==
  ASSUME Core, Child
  PROVE  Fine
<1>1. CASE io.child = "none"
  <2>1. io = NoChild
    BY <1>1 DEF Core, NotStarted
  <2>2. FALSE
    <3>1. /\ \A s \in Streams : io.pumps[s] = "done"
          /\ ~io.on_pty /\ io.child = "none" /\ io.stdin_pump = "done" /\ io.uncredited = 0 /\ io.rest = <<>>
      BY <2>1 DEF NoChild
    <3>2. ~ \E s \in Streams : pump_output_eof(s) \/ \E n \in 1..CHUNK : pump_output(s, n)
      BY <3>1 DEF pump_output_eof, pump_output
    <3>3. ~ \E failed \in BOOLEAN : pump_pty_ends(failed)
      BY <3>1 DEF pump_pty_ends
    <3>4. ~(leader_exits \/ try_reap \/ report_exit \/ pump_stdin_recv \/ pump_stdin_credit
            \/ pump_stdin_fails \/ pump_stdin_eof)
      BY <3>1 DEF leader_exits, try_reap, report_exit, pump_stdin_recv, pump_stdin_credit,
                  pump_stdin_fails, pump_stdin_eof
    <3>5. ~ \E n \in 1..INITIAL_WINDOW : pump_stdin_write(n)
      <4> SUFFICES ASSUME NEW n \in 1..INITIAL_WINDOW, n <= Len(<<>>) PROVE FALSE
        BY <3>1 DEF pump_stdin_write
      <4> QED
        BY ChannelAssumption
    <3> QED
      BY <3>2, <3>3, <3>4, <3>5 DEF Child
  <2> QED
    BY <2>2
<1>2. CASE io.child # "none"
  <2>1. /\ DOMAIN io = DOMAIN NoChild /\ DOMAIN io.pumps = Streams /\ io.out \in Seq(Nat)
        /\ io.credits \in Seq(Nat) /\ io.produced \in Nat /\ io.uncredited \in Nat /\ io.delivered \in Nat
        /\ io.child \in {"running", "exited", "reaped", "reported"}
        /\ Total(io.out) \in Nat /\ Total(io.credits) \in Nat
    BY <1>2, TotalNat DEF Core, ChildType
  <2>2. ASSUME NEW s \in Streams, pump_output_eof(s) PROVE Fine
    <3> DEFINE c == [io EXCEPT !.pumps[s] = "done"]
    <3>1. /\ DOMAIN c = DOMAIN NoChild /\ DOMAIN c.pumps = Streams /\ c.child = io.child
          /\ c.out = io.out /\ c.produced = io.produced
          /\ c.credits = io.credits /\ c.uncredited = io.uncredited /\ c.delivered = io.delivered
          /\ \A t \in Streams : io.pumps[t] = "done" => c.pumps[t] = "done"
      BY <2>1 DEF NoChild
    <3>2. child_step(c)
      BY <2>2 DEF pump_output_eof
    <3> HIDE DEF c
    <3> QED
      BY <1>2, <3>1, <3>2, FinePlainTask
  <2>3. ASSUME NEW failed \in BOOLEAN, pump_pty_ends(failed) PROVE Fine
    <3> DEFINE ended == stdin_gone([io EXCEPT !.pumps["stdout"] = "done"])
               c == IF failed THEN kill(ended) ELSE ended
    <3>1. /\ DOMAIN c = DOMAIN NoChild /\ DOMAIN c.pumps = Streams /\ c.child = io.child
          /\ c.out = io.out /\ c.produced = io.produced
          /\ c.credits = io.credits /\ c.uncredited = io.uncredited /\ c.delivered = io.delivered
          /\ \A t \in Streams : io.pumps[t] = "done" => c.pumps[t] = "done"
      BY <2>1, ChannelAssumption DEF NoChild, stdin_gone, kill
    <3>2. child_step(c)
      BY <2>3 DEF pump_pty_ends
    <3> HIDE DEF c
    <3> QED
      BY <1>2, <3>1, <3>2, FinePlainTask
  <2>4. CASE leader_exits \/ try_reap
    <3>1. PICK k \in {"exited", "reaped"} : child_step([io EXCEPT !.child = k]) /\ io.child # "reported"
      BY <2>4 DEF leader_exits, try_reap
    <3> DEFINE c == [io EXCEPT !.child = k]
    <3>2. /\ DOMAIN c = DOMAIN NoChild /\ c.pumps = io.pumps /\ c.child = k
          /\ c.out = io.out /\ c.produced = io.produced
          /\ c.credits = io.credits /\ c.uncredited = io.uncredited /\ c.delivered = io.delivered
      BY <2>1 DEF NoChild
    <3>3. child_step(c)
      BY <3>1
    <3> HIDE DEF c
    <3> QED
      BY <1>2, <2>1, <3>1, <3>2, <3>3, FinePlainTask
  <2>5. CASE pump_stdin_fails \/ pump_stdin_eof
    <3>1. PICK c : /\ child_step(c)
                   /\ c = stdin_gone(io) \/ c = [io EXCEPT !.stdin_pump = "done", !.saw_eof = TRUE]
      BY <2>5 DEF pump_stdin_fails, pump_stdin_eof
    <3>2. /\ DOMAIN c = DOMAIN NoChild /\ c.pumps = io.pumps /\ c.child = io.child
          /\ c.out = io.out /\ c.produced = io.produced
          /\ c.credits = io.credits /\ c.uncredited = io.uncredited /\ c.delivered = io.delivered
      BY <2>1, <3>1 DEF NoChild, stdin_gone
    <3> QED
      BY <1>2, <2>1, <3>1, <3>2, FinePlainTask
  <2>6. CASE report_exit \/ \E s \in Streams : \E n \in 1..CHUNK : pump_output(s, n)
    <3> DEFINE Grown(c, n) ==
                 \/ c = [io EXCEPT !.child = "reported", !.out = Append(@, n)] /\ n = 0
                 \/ c = [io EXCEPT !.out = Append(@, n), !.produced = @ + n]
    <3>1. PICK n \in Nat : \E c : child_step(c) /\ ~out_senders_gone /\ Grown(c, n)
      <4>1. CASE report_exit
        <5>1. child_step([io EXCEPT !.child = "reported", !.out = Append(@, 0)]) /\ ~out_senders_gone
          BY <4>1 DEF report_exit, out_senders_gone, Exited
        <5> QED
          BY <5>1
      <4>2. ASSUME NEW s \in Streams, NEW n \in 1..CHUNK, pump_output(s, n)
            PROVE  n \in Nat /\ \E c : child_step(c) /\ ~out_senders_gone /\ Grown(c, n)
        <5>1. /\ child_step([io EXCEPT !.out = Append(@, n), !.produced = @ + n]) /\ n \in Nat
              /\ ~out_senders_gone
          BY <4>2, ChannelAssumption DEF pump_output, out_senders_gone
        <5> QED
          BY <5>1
      <4> QED
        BY <2>6, <4>1, <4>2
    <3>2. PICK c : child_step(c) /\ ~out_senders_gone /\ Grown(c, n)
      BY <3>1
    <3>3. /\ DOMAIN c = DOMAIN NoChild /\ c.pumps = io.pumps
          /\ c.child = io.child \/ (c.child = "reported" /\ n = 0)
          /\ c.out = Append(io.out, n) /\ c.produced = io.produced + n
          /\ c.credits = io.credits /\ c.uncredited = io.uncredited /\ c.delivered = io.delivered
      <4>1. CASE c = [io EXCEPT !.child = "reported", !.out = Append(@, n)] /\ n = 0
        BY <2>1, <4>1 DEF NoChild
      <4>2. CASE c = [io EXCEPT !.out = Append(@, n), !.produced = @ + n]
        BY <2>1, <4>2 DEF NoChild
      <4> QED
        BY <3>1, <3>2, <4>1, <4>2
    <3>4. Total(c.out) = Total(io.out) + n /\ c.out \in Seq(Nat)
      BY <2>1, <3>1, <3>2, <3>3, TotalAppend
    <3>5. c.produced - Total(c.out) = io.produced - Total(io.out)
      BY <2>1, <3>1, <3>2, <3>3, <3>4
    <3>6. /\ c.child = "reported" => io.child = "reported" \/ \E i \in DOMAIN c.out : c.out[i] = Exited
          /\ (\E i \in DOMAIN io.out : io.out[i] = Exited) => \E i \in DOMAIN c.out : c.out[i] = Exited
      <4>1. c.out[Len(io.out) + 1] = n /\ Len(io.out) + 1 \in DOMAIN c.out
            /\ \A i \in DOMAIN io.out : i \in DOMAIN c.out /\ c.out[i] = io.out[i]
        BY <2>1, <3>1, <3>2, <3>3, SMTT(30)
      <4> QED
        BY <3>3, <4>1 DEF Exited
    <3>7. c.child \in {"running", "exited", "reaped", "reported"} /\ c.produced \in Nat
      BY <2>1, <3>1, <3>2, <3>3
    <3>8. c.delivered + Total(io.credits) + io.uncredited = io.delivered + Total(c.credits) + c.uncredited
      BY <3>3
    <3> QED
      BY <1>2, <2>1, <3>1, <3>2, <3>3, <3>4, <3>5, <3>6, <3>7, <3>8, FineTask
  <2>7. CASE pump_stdin_recv \/ pump_stdin_credit \/ \E n \in 1..INITIAL_WINDOW : pump_stdin_write(n)
    <3> DEFINE Counted(c) ==
                 /\ child_step(c) /\ DOMAIN c = DOMAIN NoChild /\ c.pumps = io.pumps /\ c.child = io.child
                 /\ c.out = io.out /\ c.produced = io.produced
                 /\ c.credits \in Seq(Nat) /\ c.uncredited \in Nat /\ c.delivered \in Nat
                 /\ c.delivered + Total(io.credits) + io.uncredited
                      = io.delivered + Total(c.credits) + c.uncredited
    <3>1. PICK c : Counted(c)
      <4>1. CASE pump_stdin_recv
        <5>1. PICK x : x = IF io.on_pty /\ Head(io.stdin_q) = <<>> THEN Append(io.credits, 0) ELSE io.credits
          OBVIOUS
        <5>2. Total(x) = Total(io.credits) /\ x \in Seq(Nat)
          BY <2>1, <5>1, TotalAppend
        <5> DEFINE c == [io EXCEPT !.rest = Head(io.stdin_q), !.stdin_q = Tail(@), !.credits = x]
        <5>3. child_step(c)
          BY <4>1, <5>1 DEF pump_stdin_recv
        <5>4. /\ DOMAIN c = DOMAIN NoChild /\ c.pumps = io.pumps /\ c.child = io.child
              /\ c.out = io.out /\ c.produced = io.produced
              /\ c.credits = x /\ c.uncredited = io.uncredited /\ c.delivered = io.delivered
          BY <2>1 DEF NoChild
        <5> HIDE DEF c
        <5>5. Counted(c)
          BY <2>1, <5>2, <5>3, <5>4
        <5> QED
          BY <5>5
      <4>2. CASE pump_stdin_credit
        <5> DEFINE c == [io EXCEPT !.credits = Append(@, io.uncredited), !.uncredited = 0]
        <5>1. child_step(c)
          BY <4>2 DEF pump_stdin_credit
        <5>2. /\ DOMAIN c = DOMAIN NoChild /\ c.pumps = io.pumps /\ c.child = io.child
              /\ c.out = io.out /\ c.produced = io.produced
              /\ c.credits = Append(io.credits, io.uncredited) /\ c.uncredited = 0 /\ c.delivered = io.delivered
          BY <2>1 DEF NoChild
        <5>3. Total(c.credits) = Total(io.credits) + io.uncredited /\ c.credits \in Seq(Nat)
          BY <2>1, <5>2, TotalAppend
        <5> HIDE DEF c
        <5>4. c.delivered + Total(io.credits) + io.uncredited = io.delivered + Total(c.credits) + c.uncredited
          BY <2>1, <5>2, <5>3
        <5>5. Counted(c)
          BY <2>1, <5>1, <5>2, <5>3, <5>4
        <5> QED
          BY <5>5
      <4>3. ASSUME NEW n \in 1..INITIAL_WINDOW, pump_stdin_write(n) PROVE \E c : Counted(c)
        <5> DEFINE c == [io EXCEPT !.rest = SubSeq(@, n + 1, Len(@)), !.delivered = @ + n, !.uncredited = n]
        <5>1. child_step(c) /\ io.uncredited = 0 /\ n \in Nat
          BY <4>3, ChannelAssumption DEF pump_stdin_write
        <5>2. /\ DOMAIN c = DOMAIN NoChild /\ c.pumps = io.pumps /\ c.child = io.child
              /\ c.out = io.out /\ c.produced = io.produced
              /\ c.credits = io.credits /\ c.uncredited = n /\ c.delivered = io.delivered + n
          BY <2>1 DEF NoChild
        <5> HIDE DEF c
        <5>3. c.delivered + Total(io.credits) + io.uncredited = io.delivered + Total(c.credits) + c.uncredited
          BY <2>1, <5>1, <5>2
        <5>4. Counted(c)
          BY <2>1, <5>1, <5>2, <5>3
        <5> QED
          BY <5>4
      <4> QED
        BY <2>7, <4>1, <4>2, <4>3
    <3> QED
      BY <1>2, <2>1, <3>1, FineTask DEF out_senders_gone
  <2> QED
    BY <2>2, <2>3, <2>4, <2>5, <2>6, <2>7 DEF Child
<1> QED
  BY <1>1, <1>2

-----------------------------------------------------------------------------
(* Control: where the driver is, what it holds back and what it writes.      *)

Control ==
  /\ pc \in {"head", "due", "select", "drain", "over"} /\ phase \in Phases
  /\ d.deferred \in Seq(ClientMsgs) /\ draining \in Seq(ClientMsgs)
  /\ pc # "over" => (pc = "drain" <=> draining # <<>>)
  /\ pc = "drain" => phase = "Idle"
  /\ asked \in Nat /\ answered \in Nat

RepliesOwed == pc # "over" => asked = answered + Owed(d.deferred) + Owed(draining)

\* Whatever a packet does, it answers itself or ends the connection.
LEMMA InboundControl ==
  ASSUME DriverType, NEW m \in ClientMsgs, NEW then, handle_inbound(m, then)
  PROVE  /\ d'.deferred = d.deferred
         /\ answered' = answered + replies(written')
         /\ \/ pc' = then /\ written' = reply(m)
            \/ pc' = "over" /\ written' \in {<<>>, <<"DISCONNECT">>}
<1> USE Message
<1>1. ASSUME NEW dd, NEW w, leave(dd, w), DOMAIN dd = DOMAIN new, dd.deferred = d.deferred,
             w \in {<<>>, <<"DISCONNECT">>}
      PROVE  /\ d'.deferred = d.deferred /\ answered' = answered + replies(written')
             /\ pc' = "over" /\ written' \in {<<>>, <<"DISCONNECT">>}
  BY <1>1 DEF leave, continue, emit_finished, new
<1>2. ASSUME NEW dd, NEW w, continue(then, dd, w), dd.deferred = d.deferred, w = reply(m)
      PROVE  /\ d'.deferred = d.deferred /\ answered' = answered + replies(written')
             /\ pc' = then /\ written' = reply(m)
  BY <1>2 DEF continue
<1>3. CASE protocol_disconnect
  BY <1>1, <1>3 DEF protocol_disconnect, DriverType
<1>4. CASE m.kind = "open" /\ on_channel_open(m, then)
  <2>1. CASE continue(then, d, reply(m))
    BY <1>2, <2>1
  <2>2. CASE continue(then, [d EXCEPT !.state = "Idle", !.out_window = m.window,
                                      !.in_window = INITIAL_WINDOW], reply(m))
    BY <2>2 DEF continue, DriverType, new
  <2> QED
    BY <1>3, <1>4, <2>1, <2>2 DEF on_channel_open
<1>5. CASE m.kind = "request" /\ on_channel_request(m, then)
  <2>1. CASE start(m, then)
    <3> DEFINE accepted == [d EXCEPT !.command = TRUE, !.pty = FALSE]
    <3>1. DOMAIN accepted = DOMAIN new /\ accepted.deferred = d.deferred
          /\ [accepted EXCEPT !.state = "Running"].deferred = d.deferred
          /\ [accepted EXCEPT !.state = "Draining", !.exit_status = Some("127"),
                !.child_out_closed = TRUE, !.consumed_closed = TRUE].deferred = d.deferred
      BY DEF DriverType, new
    <3>2. \/ continue(then, [accepted EXCEPT !.state = "Running"], reply(m))
          \/ continue(then, [accepted EXCEPT !.state = "Draining", !.exit_status = Some("127"),
                !.child_out_closed = TRUE, !.consumed_closed = TRUE], reply(m))
          \/ leave(accepted, <<>>)
      BY <2>1 DEF start
    <3> HIDE DEF accepted
    <3> QED
      BY <1>1, <1>2, <3>1, <3>2
  <2>2. ASSUME NEW granted, continue(then, [d EXCEPT !.pty = @ \/ granted], reply(m))
        PROVE  d'.deferred = d.deferred /\ answered' = answered + replies(written')
               /\ pc' = then /\ written' = reply(m)
    BY <2>2 DEF continue, DriverType, new
  <2> QED
    BY <1>5, <2>1, <2>2 DEF on_channel_request
<1>6. CASE m.kind \in {"data", "adjust", "eof", "close"}
           /\ (on_channel_data(m, then) \/ on_window_adjust(m, then) \/ on_channel_eof(m, then)
               \/ on_channel_close(m, then))
  <2>1. reply(m) = <<>>
    BY <1>6 DEF reply, wants_reply
  <2>2. protocol_disconnect \/ \E dd : continue(then, dd, <<>>) /\ dd.deferred = d.deferred
    <3>1. CASE on_channel_data(m, then)
      <4>1. d.deferred = stash(m.len).deferred
        BY DEF DriverType, new, stash
      <4> QED
        BY <3>1, <4>1 DEF on_channel_data
    <3>2. CASE on_window_adjust(m, then)
      <4>1. [d EXCEPT !.out_window = @ + m.add].deferred = d.deferred
        BY DEF DriverType, new
      <4> QED
        BY <3>2, <4>1 DEF on_window_adjust
    <3>3. CASE on_channel_eof(m, then)
      <4>1. [d EXCEPT !.client_eof = TRUE].deferred = d.deferred
        BY DEF DriverType, new
      <4> QED
        BY <3>3, <4>1 DEF on_channel_eof
    <3>4. CASE on_channel_close(m, then)
      <4> DEFINE closing == [d EXCEPT !.early_close = TRUE, !.pending_out = None, !.state = "Draining"]
      <4>1. /\ closing.deferred = d.deferred /\ [closing EXCEPT !.child_out_closed = TRUE].deferred = d.deferred
            /\ [d EXCEPT !.state = "Closed"].deferred = d.deferred
        BY DEF DriverType, new
      <4>2. \/ continue(then, [d EXCEPT !.state = "Closed"], <<>>) \/ continue(then, closing, <<>>)
            \/ continue(then, [closing EXCEPT !.child_out_closed = TRUE], <<>>)
        BY <3>4 DEF on_channel_close
      <4> HIDE DEF closing
      <4> QED
        BY <4>1, <4>2
    <3> QED
      BY <1>6, <3>1, <3>2, <3>3, <3>4
  <2> QED
    BY <1>2, <1>3, <2>1, <2>2
<1>7. CASE continue(then, d, reply(m))
  BY <1>2, <1>7
<1>8. CASE leave(d, <<>>)
  BY <1>1, <1>8 DEF DriverType
<1> QED
  BY <1>3, <1>4, <1>5, <1>6, <1>7, <1>8 DEF handle_inbound

-----------------------------------------------------------------------------
(* Control, step by step.                                                    *)

\* What each step keeps, besides the core.
Kept == Control' /\ RepliesOwed' /\ HalfDuplex' /\ OutputBeforeExit'

\* What may be written inside the window.
LEMMA NoEof ==
  ASSUME \A i \in DOMAIN written' : written'[i] # "EOF"
  PROVE  OutputBeforeExit'
  BY DEF OutputBeforeExit

LEMMA KexOnly ==
  ASSUME \A i \in DOMAIN written' : written'[i] \in {"KEXINIT", "DISCONNECT"}
  PROVE  HalfDuplex' /\ OutputBeforeExit' /\ replies(written') = 0
<1>1. HalfDuplex' /\ OutputBeforeExit'
  BY DEF HalfDuplex, OutputBeforeExit
<1>2. replies(written') = 0
  BY NoReplies DEF ReplyKinds
<1> QED
  BY <1>1, <1>2

\* A step that answers nothing and holds back nothing new.
LEMMA KeptQuiet ==
  ASSUME Control, RepliesOwed, d'.deferred = d.deferred, UNCHANGED <<draining, asked>>,
         answered' = answered + replies(written'), replies(written') = 0,
         phase' \in Phases, pc # "drain", pc # "over" \/ pc' = "over",
         pc' \in {"head", "due", "select", "over"}
  PROVE  Control' /\ RepliesOwed'
<1>1. answered' = answered
  BY DEF Control
<1>2. Control'
  BY <1>1 DEF Control
<1>3. RepliesOwed'
  BY <1>1 DEF RepliesOwed
<1> QED
  BY <1>2, <1>3

\* Once the driver is gone nothing is owed.
LEMMA KeptOver ==
  ASSUME Control, pc' = "over", d'.deferred = d.deferred, draining' \in Seq(ClientMsgs),
         phase' \in Phases, asked' \in Nat, answered' = answered + replies(written'), replies(written') = 0
  PROVE  Control' /\ RepliesOwed'
<1>1. answered' = answered
  BY DEF Control
<1> QED
  BY <1>1 DEF Control, RepliesOwed

LEMMA LeaveControl ==
  ASSUME NEW dd, NEW w, DOMAIN dd = DOMAIN new, leave(dd, w)
  PROVE  /\ pc' = "over" /\ d'.deferred = dd.deferred /\ written' = w
         /\ answered' = answered + replies(written')
  BY DEF leave, continue, emit_finished, new

LEMMA ReplyWritten ==
  ASSUME NEW m \in ClientMsgs
  PROVE  \A i \in DOMAIN reply(m) : reply(m)[i] # "EOF"
<1>1. reply(m) = <<>> \/ reply(m) = <<"OPEN_REPLY">> \/ reply(m) = <<"GLOBAL_REPLY">> \/ reply(m) = <<"CHANNEL_REPLY">>
  BY Message DEF reply, wants_reply
<1> QED
  BY <1>1

\* A packet handled outside the window.
LEMMA KeptInbound ==
  ASSUME Core, Control, NEW m \in ClientMsgs, NEW then \in {"head", "drain"}, handle_inbound(m, then),
         phase = "Idle", phase' = phase, draining' \in Seq(ClientMsgs), asked' \in Nat,
         then = "drain" <=> draining' # <<>>,
         asked' =
           answered + (IF wants_reply(m) THEN 1 ELSE 0) + Owed(d.deferred) + Owed(draining')
  PROVE  Kept
<1>1. /\ d'.deferred = d.deferred /\ answered' = answered + replies(written')
      /\ \/ pc' = then /\ written' = reply(m)
         \/ pc' = "over" /\ written' \in {<<>>, <<"DISCONNECT">>}
  BY InboundControl DEF Core
<1>2. HalfDuplex'
  BY DEF HalfDuplex
<1>3. CASE pc' = then /\ written' = reply(m)
  <2>1. answered' = answered + (IF wants_reply(m) THEN 1 ELSE 0)
    BY <1>1, <1>3, ReplyCounts
  <2>2. OutputBeforeExit'
    BY <1>3, ReplyWritten, NoEof
  <2>3. Control'
    BY <1>1, <1>3, <2>1 DEF Control
  <2>4. Owed(d'.deferred) = Owed(d.deferred) /\ Owed(d.deferred) \in Nat /\ Owed(draining') \in Nat
    BY <1>1, OwedFinite DEF Control
  <2>5. RepliesOwed'
    <3>1. asked' = answered' + Owed(d'.deferred) + Owed(draining')
      BY <2>1, <2>4 DEF Control
    <3> QED
      BY <3>1 DEF RepliesOwed, Owed, wants_reply
  <2> QED
    BY <1>2, <2>2, <2>3, <2>5 DEF Kept
<1>4. CASE pc' = "over" /\ written' \in {<<>>, <<"DISCONNECT">>}
  <2>1. \A i \in DOMAIN written' : written'[i] \in {"KEXINIT", "DISCONNECT"}
    BY <1>4
  <2>2. OutputBeforeExit' /\ replies(written') = 0
    BY <2>1, KexOnly
  <2>3. Control' /\ RepliesOwed'
    BY <1>1, <1>4, <2>2, KeptOver DEF Control
  <2> QED
    BY <1>2, <2>2, <2>3 DEF Kept
<1> QED
  BY <1>1, <1>3, <1>4

\* During a re-key the channel's packets go through silently or wait.
LEMMA KeptPass ==
  ASSUME Core, Control, RepliesOwed, NEW m \in ClientMsgs, pc = "select", pass_to_channel(m),
         UNCHANGED <<phase, draining>>, asked' = asked + Len(reply(m))
  PROVE  Kept
<1>1. Len(reply(m)) = (IF wants_reply(m) THEN 1 ELSE 0) /\ asked' \in Nat
  BY ReplyCounts DEF Control
<1>2. CASE passes(m)
  <2>1. reply(m) = <<>> /\ ~wants_reply(m)
    BY <1>2 DEF passes, reply, wants_reply
  <2>2. /\ d'.deferred = d.deferred /\ answered' = answered + replies(written')
        /\ \/ pc' = "head" /\ written' = reply(m)
           \/ pc' = "over" /\ written' \in {<<>>, <<"DISCONNECT">>}
    <3>1. handle_inbound(m, "head")
      BY <1>2 DEF pass_to_channel
    <3> QED
      BY <3>1, InboundControl DEF Core
  <2>3. \A i \in DOMAIN written' : written'[i] \in {"KEXINIT", "DISCONNECT"}
    BY <2>1, <2>2
  <2>4. asked' = asked
    BY <1>1, <2>1 DEF Control
  <2>5. HalfDuplex' /\ OutputBeforeExit' /\ replies(written') = 0
    BY <2>3, KexOnly
  <2>6. Control' /\ RepliesOwed'
    BY <2>2, <2>4, <2>5, KeptQuiet DEF Control
  <2> QED
    BY <2>5, <2>6 DEF Kept
<1>3. CASE ~passes(m) /\ Len(d.deferred) >= MAX_DEFERRED
  <2>1. leave(d, <<"DISCONNECT">>)
    BY <1>3 DEF pass_to_channel, protocol_disconnect
  <2>2. pc' = "over" /\ d'.deferred = d.deferred /\ written' = <<"DISCONNECT">>
        /\ answered' = answered + replies(written')
    BY <2>1, LeaveControl DEF Core, DriverType
  <2>3. \A i \in DOMAIN written' : written'[i] \in {"KEXINIT", "DISCONNECT"}
    BY <2>2
  <2>4. HalfDuplex' /\ OutputBeforeExit' /\ replies(written') = 0
    BY <2>3, KexOnly
  <2>5. Control' /\ RepliesOwed'
    BY <1>1, <2>2, <2>4, KeptOver DEF Control
  <2> QED
    BY <2>4, <2>5 DEF Kept
<1>4. CASE ~passes(m) /\ ~(Len(d.deferred) >= MAX_DEFERRED)
  <2>1. continue("head", [d EXCEPT !.deferred = Append(@, m)], <<>>)
    BY <1>4 DEF pass_to_channel
  <2>2. pc' = "head" /\ d'.deferred = Append(d.deferred, m) /\ written' = <<>>
        /\ answered' = answered + replies(written')
    BY <2>1 DEF continue, Core, DriverType, new
  <2>3. HalfDuplex' /\ OutputBeforeExit' /\ replies(written') = 0
    BY <2>2, KexOnly
  <2>4. answered' = answered
    BY <2>2, <2>3 DEF Control
  <2>5. d'.deferred \in Seq(ClientMsgs)
    BY <2>2 DEF Control
  <2>6. Control'
    BY <1>1, <2>2, <2>4, <2>5 DEF Control
  <2>7. /\ Owed(d'.deferred) = Owed(d.deferred) + (IF wants_reply(m) THEN 1 ELSE 0)
        /\ Owed(d.deferred) \in Nat /\ Owed(draining) \in Nat
    BY <2>2, OwedAppend, OwedFinite DEF Control
  <2>8. asked' = answered' + Owed(d'.deferred) + Owed(draining')
    BY <1>1, <2>4, <2>7 DEF Control, RepliesOwed
  <2>9. RepliesOwed'
    BY <2>8 DEF RepliesOwed, Owed, wants_reply
  <2> QED
    BY <2>3, <2>6, <2>9 DEF Kept
<1> QED
  BY <1>2, <1>3, <1>4

LEMMA KeptRead ==
  ASSUME Core, Control, RepliesOwed, NEW m \in ClientMsgs, read_packet(m)
  PROVE  Kept
<1>1. pc = "select" /\ draining = <<>> /\ DOMAIN d = DOMAIN new
  BY DEF read_packet, Control, Core, DriverType
<1>2. Len(reply(m)) = (IF wants_reply(m) THEN 1 ELSE 0) /\ asked' \in Nat
  BY ReplyCounts DEF Control, read_packet
<1>3. m.kind \in {"kexinit", "hybrid_init", "newkeys"} => asked' = asked
  <2>1. m.kind \in {"kexinit", "hybrid_init", "newkeys"} => ~wants_reply(m)
    BY DEF wants_reply
  <2> QED
    BY <1>2, <2>1 DEF read_packet, Control
\* A step that writes nothing but the exchange, and answers nothing.
<1>4. ASSUME asked' = asked \/ pc' = "over", d'.deferred = d.deferred, draining' = draining, phase' \in Phases,
             pc' \in {"head", "over"}, answered' = answered + replies(written'),
             \A i \in DOMAIN written' : written'[i] \in {"KEXINIT", "DISCONNECT"}
      PROVE  Kept
  <2>1. HalfDuplex' /\ OutputBeforeExit' /\ replies(written') = 0
    BY <1>4, KexOnly
  <2>2. Control' /\ RepliesOwed'
    <3>1. CASE pc' = "over"
      BY <1>2, <1>4, <2>1, <3>1, KeptOver DEF Control
    <3>2. CASE pc' = "head"
      BY <1>1, <1>4, <2>1, <3>2, KeptQuiet DEF Control
    <3> QED
      BY <1>4, <3>1, <3>2
  <2> QED
    BY <2>1, <2>2 DEF Kept
<1>5. ASSUME NEW w, w \in {<<>>, <<"KEXINIT">>}, negotiate_rekey(m, w), draining' = draining, m.kind = "kexinit"
      PROVE  Kept
  <2>1. /\ d'.deferred = d.deferred /\ phase' \in Phases /\ pc' \in {"head", "over"}
        /\ answered' = answered + replies(written') /\ written' \in {w, w \o <<"DISCONNECT">>}
    <3>1. CASE continue("head", d, w) /\ m.ok
      BY <1>5, <3>1 DEF continue, negotiate_rekey, Phases
    <3>2. CASE leave(d, w \o <<"DISCONNECT">>) /\ ~m.ok
      BY <1>1, <1>5, <3>2, LeaveControl DEF negotiate_rekey, Phases
    <3> QED
      BY <1>5, <3>1, <3>2 DEF negotiate_rekey
  <2>2. \A i \in DOMAIN written' : written'[i] \in {"KEXINIT", "DISCONNECT"}
    <3>1. CASE written' = w
      BY <1>5, <3>1
    <3>2. CASE written' = w \o <<"DISCONNECT">>
      BY <1>5, <3>2
    <3> QED
      BY <2>1, <3>1, <3>2
  <2> QED
    BY <1>3, <1>4, <1>5, <2>1, <2>2
<1>6. CASE ~rekey_active /\ m.kind # "kexinit"
  <2>1. /\ handle_inbound(m, "head") /\ phase = "Idle" /\ phase' = phase /\ draining' = draining
        /\ asked' = asked + Len(reply(m))
    BY <1>6 DEF read_packet, rekey_active
  <2>2. asked' = answered + (IF wants_reply(m) THEN 1 ELSE 0) + Owed(d.deferred) + Owed(draining')
    <3>1. Owed(d.deferred) \in Nat /\ Owed(draining) \in Nat /\ Owed(draining') = Owed(draining)
      BY <2>1, OwedFinite DEF Control
    <3>2. asked = answered + Owed(d.deferred) + Owed(draining) /\ answered \in Nat
      BY <1>1 DEF RepliesOwed, Control
    <3> QED
      BY <1>2, <2>1, <3>1, <3>2
  <2> QED
    BY <1>1, <1>2, <2>1, <2>2, KeptInbound DEF Control
<1>7. CASE ~rekey_active /\ m.kind = "kexinit"
  BY <1>5, <1>7 DEF read_packet
<1>8. CASE rekey_active
  <2>1. step_rekey(m) /\ phase # "Idle"
    BY <1>8 DEF read_packet, rekey_active
  <2>2. CASE phase = "SentKexInit" /\ m.kind # "kexinit"
    <3>1. pass_to_channel(m) /\ UNCHANGED <<phase, draining>> /\ asked' = asked + Len(reply(m))
      BY <2>1, <2>2 DEF step_rekey, read_packet
    <3> QED
      BY <1>1, <3>1, KeptPass
  <2>3. CASE phase = "SentKexInit" /\ m.kind = "kexinit"
    BY <1>5, <2>1, <2>3 DEF step_rekey
  <2>4. CASE phase = "SkipGuessed"
    <3>1. asked' = asked /\ phase' = "AwaitHybridInit" /\ continue("head", d, <<>>) /\ draining' = draining
      BY <2>1, <2>4 DEF step_rekey, read_packet
    <3> QED
      BY <1>4, <3>1 DEF continue, Phases
  <2>5. CASE phase = "AwaitHybridInit" /\ m.kind = "hybrid_init"
    <3>1. /\ phase' = "AwaitNewKeys" /\ draining' = draining /\ pc' = "head" /\ d' = d
          /\ written' = <<"HYBRID_REPLY", "NEWKEYS">> /\ answered' = answered + replies(written')
      BY <2>1, <2>5 DEF step_rekey, continue
    <3>2. HalfDuplex' /\ OutputBeforeExit'
      BY <3>1 DEF HalfDuplex, OutputBeforeExit
    <3>3. replies(written') = 0
      BY <3>1, NoReplies DEF ReplyKinds
    <3>4. Control' /\ RepliesOwed'
      BY <1>1, <1>3, <2>5, <3>1, <3>3, KeptQuiet DEF Phases
    <3> QED
      BY <3>2, <3>4 DEF Kept
  <2>6. CASE phase = "AwaitNewKeys" /\ m.kind = "newkeys"
    <3>1. /\ phase' = "Idle" /\ draining' = d.deferred /\ written' = <<>>
          /\ pc' = (IF d.deferred = <<>> THEN "head" ELSE "drain")
          /\ d' = [d EXCEPT !.deferred = <<>>] /\ answered' = answered + replies(written')
      BY <2>1, <2>6 DEF step_rekey, continue
    <3>2. HalfDuplex' /\ OutputBeforeExit' /\ replies(written') = 0
      BY <3>1, KexOnly
    <3>3. d'.deferred = <<>> /\ answered' = answered /\ asked' = asked
      BY <1>1, <1>3, <2>6, <3>1, <3>2 DEF new, Control
    <3>4. Control'
      <4>1. <<>> \in Seq(ClientMsgs)
        OBVIOUS
      <4> QED
        BY <3>1, <3>3, <4>1 DEF Control, Phases
    <3>5. Owed(d.deferred) \in Nat /\ Owed(<<>>) = 0
      BY OwedFinite, OwedEmpty DEF Control
    <3>6. asked = answered + Owed(d.deferred) + 0 /\ answered \in Nat
      BY <1>1, <3>5 DEF RepliesOwed, Control
    <3>7. asked' = answered' + Owed(d'.deferred) + Owed(draining')
      BY <3>1, <3>3, <3>5, <3>6
    <3>8. RepliesOwed'
      BY <3>7 DEF RepliesOwed, Owed, wants_reply
    <3> QED
      BY <3>2, <3>4, <3>8 DEF Kept
  <2>7. CASE \/ phase = "AwaitHybridInit" /\ m.kind # "hybrid_init"
             \/ phase = "AwaitNewKeys" /\ m.kind # "newkeys"
    <3>1. phase' = "Idle" /\ leave(d, <<"DISCONNECT">>) /\ draining' = draining
      BY <2>1, <2>7 DEF step_rekey, protocol_disconnect
    <3>2. pc' = "over" /\ d'.deferred = d.deferred /\ written' = <<"DISCONNECT">>
          /\ answered' = answered + replies(written')
      BY <1>1, <3>1, LeaveControl
    <3> QED
      BY <1>4, <3>1, <3>2 DEF Phases
  <2> QED
    BY <2>1, <2>2, <2>3, <2>4, <2>5, <2>6, <2>7 DEF Control, Phases
<1> QED
  BY <1>6, <1>7, <1>8

LEMMA KeptDrain ==
  ASSUME Core, Control, RepliesOwed, drain_deferred
  PROVE  Kept
<1> DEFINE m == Head(draining)
           then == IF Len(draining) = 1 THEN "head" ELSE "drain"
<1>1. pc = "drain" /\ draining # <<>> /\ phase = "Idle" /\ draining \in Seq(ClientMsgs) /\ asked \in Nat
  BY DEF drain_deferred, Control
<1>2. m \in ClientMsgs /\ Tail(draining) \in Seq(ClientMsgs) /\ (then = "drain" <=> Tail(draining) # <<>>)
      /\ then \in {"head", "drain"}
  <2>1. m \in ClientMsgs /\ Tail(draining) \in Seq(ClientMsgs) /\ Len(Tail(draining)) = Len(draining) - 1
        /\ Len(draining) \in Nat
    BY <1>1
  <2>2. Tail(draining) = <<>> <=> Len(Tail(draining)) = 0
    BY <2>1, EmptySeq
  <2> QED
    BY <2>1, <2>2
<1>3. handle_inbound(m, then) /\ draining' = Tail(draining) /\ phase' = phase /\ asked' = asked
  BY DEF drain_deferred
<1>4. asked' = answered + (IF wants_reply(m) THEN 1 ELSE 0) + Owed(d.deferred) + Owed(draining')
  <2>1. Owed(draining) = Owed(Tail(draining)) + (IF wants_reply(m) THEN 1 ELSE 0)
    BY <1>1, OwedTail
  <2>2. Owed(Tail(draining)) \in Nat /\ Owed(d.deferred) \in Nat /\ answered \in Nat
    BY <1>2, OwedFinite DEF Control
  <2>3. asked = answered + Owed(d.deferred) + Owed(draining)
    BY <1>1 DEF RepliesOwed
  <2> QED
    BY <1>3, <2>1, <2>2, <2>3
<1> HIDE DEF m, then
<1> QED
  BY <1>1, <1>2, <1>3, <1>4, KeptInbound

\* The head of the loop: what it writes, in which order.
LEMMA HeadPackets ==
  ASSUME NEW p, NEW q
  PROVE  LET w == (IF p THEN <<"DATA">> ELSE <<>>) \o (IF q THEN <<"WINDOW_ADJUST">> ELSE <<>>)
         IN  w \in Seq({"DATA", "WINDOW_ADJUST"})
<1>1. <<"DATA">> \in Seq({"DATA", "WINDOW_ADJUST"}) /\ <<>> \in Seq({"DATA", "WINDOW_ADJUST"})
      /\ <<"WINDOW_ADJUST">> \in Seq({"DATA", "WINDOW_ADJUST"})
  OBVIOUS
<1>2. ASSUME NEW a \in Seq({"DATA", "WINDOW_ADJUST"}), NEW b \in Seq({"DATA", "WINDOW_ADJUST"})
      PROVE  a \o b \in Seq({"DATA", "WINDOW_ADJUST"})
  BY ConcatProperties
<1> QED
  BY <1>1, <1>2

LEMMA ConcatIndex ==
  ASSUME NEW S, NEW v \in Seq(S), NEW w \in Seq(S), NEW i \in DOMAIN (v \o w)
  PROVE  /\ i \in 1..Len(v) + Len(w) /\ Len(v) \in Nat /\ Len(w) \in Nat
         /\ i <= Len(v) => i \in DOMAIN v /\ (v \o w)[i] = v[i]
         /\ i > Len(v) => i - Len(v) \in DOMAIN w /\ (v \o w)[i] = w[i - Len(v)]
  OBVIOUS

LEMMA KeptHead ==
  ASSUME Core, Control, RepliesOwed, NEW due, head(due)
  PROVE  Kept
<1> DEFINE flushed == flush_output(d)
           fed == handoff_stdin(flushed)
           dd == replenish_window(fed)
           child == child_after_handoff(flushed, fed)
           w == (IF flushed.bytes_sent > d.bytes_sent THEN <<"DATA">> ELSE <<>>)
                 \o (IF dd.in_window > fed.in_window THEN <<"WINDOW_ADJUST">> ELSE <<>>)
           begins == due /\ may_rekey(dd.state)
           ends == ready_to_close(dd)
           after == IF ends THEN send_terminal(dd) ELSE dd
           wrote == IF ends THEN w \o terminal_packets(dd) ELSE w
<1>1. pc \in {"head", "due"} /\ phase = "Idle" /\ UNCHANGED <<draining, asked>>
  BY DEF head, rekey_active, clientVars
<1>2. \/ begins /\ continue("select", dd, w \o <<"KEXINIT">>) /\ phase' = "SentKexInit"
      \/ ~begins /\ leave(after, wrote) /\ after.state = "Closed" /\ phase' = phase
      \/ ~begins /\ continue("select", after, wrote) /\ io' = child /\ phase' = phase
  BY DEF head
<1>3. w \in Seq({"DATA", "WINDOW_ADJUST"})
  BY HeadPackets
<1>4. /\ DOMAIN dd = DOMAIN new /\ dd.deferred = d.deferred
      /\ DOMAIN after = DOMAIN new /\ after.deferred = d.deferred
      /\ dd.early_close = d.early_close /\ dd.exit_status = d.exit_status
      /\ dd.child_out_closed = d.child_out_closed
  <2>1. DOMAIN flushed = DOMAIN new /\ flushed.deferred = d.deferred
        /\ flushed.early_close = d.early_close /\ flushed.exit_status = d.exit_status
        /\ flushed.child_out_closed = d.child_out_closed
    BY DEF Core, DriverType, flush_output, new
  <2> HIDE DEF flushed
  <2>2. DOMAIN fed = DOMAIN new /\ fed.deferred = d.deferred
        /\ fed.early_close = d.early_close /\ fed.exit_status = d.exit_status
        /\ fed.child_out_closed = d.child_out_closed
    BY <2>1 DEF handoff_stdin, handed_off, refilled, new
  <2> HIDE DEF fed
  <2>3. DOMAIN dd = DOMAIN new /\ dd.deferred = d.deferred
        /\ dd.early_close = d.early_close /\ dd.exit_status = d.exit_status
        /\ dd.child_out_closed = d.child_out_closed
    BY <2>2 DEF replenish_window, new
  <2> HIDE DEF dd
  <2> QED
    BY <2>3 DEF send_terminal, new
<1>5. Quiet(dd) /\ SamePipes(child)
  <2>1. Quiet(flushed)
    BY Flushed DEF Core
  <2> HIDE DEF flushed
  <2>2. Quiet(fed)
    BY <2>1, Fed
  <2>3. SamePipes(child)
    BY FedChild DEF Core
  <2> HIDE DEF fed, child
  <2> QED
    BY <2>2, <2>3, Fed
<1> HIDE DEF w, dd, child, begins
<1>6. CASE begins /\ continue("select", dd, w \o <<"KEXINIT">>) /\ phase' = "SentKexInit"
  <2>1. pc' = "select" /\ d' = dd /\ written' = w \o <<"KEXINIT">> /\ answered' = answered + replies(written')
    BY <1>6 DEF continue
  <2>2. w \in Seq({"DATA", "WINDOW_ADJUST", "KEXINIT"}) /\ <<"KEXINIT">> \in Seq({"DATA", "WINDOW_ADJUST", "KEXINIT"})
    BY <1>3
  <2>3. /\ Len(w) + 1 \in DOMAIN written' /\ written'[Len(w) + 1] = "KEXINIT"
        /\ \A i \in DOMAIN written' : i \in 1..Len(w) + 1
        /\ \A i \in DOMAIN written' : written'[i] \in {"DATA", "WINDOW_ADJUST", "KEXINIT"}
    BY <1>3, <2>1, <2>2
  <2>4. HalfDuplex'
    <3> SUFFICES ASSUME NEW i \in DOMAIN written'
                 PROVE  \/ written'[i] \in {"KEXINIT", "DISCONNECT"}
                        \/ \E j \in DOMAIN written' : j > i /\ written'[j] = "KEXINIT"
      BY DEF HalfDuplex
    <3>1. i \in 1..Len(w) + 1 /\ Len(w) \in Nat
      BY <1>3, <2>3
    <3> QED
      BY <2>3, <3>1
  <2>5. OutputBeforeExit'
    BY <2>3, NoEof
  <2>6. replies(written') = 0
    BY <2>3, NoReplies DEF ReplyKinds
  <2>7. Control' /\ RepliesOwed'
    BY <1>1, <1>4, <1>6, <2>1, <2>6, KeptQuiet DEF Phases
  <2> QED
    BY <2>4, <2>5, <2>7 DEF Kept
<1>7. /\ terminal_packets(dd) \in Seq({"EXIT_STATUS", "EOF", "CLOSE"})
      /\ ~dd.early_close /\ dd.exit_status # None => terminal_packets(dd) = <<"EXIT_STATUS", "EOF", "CLOSE">>
      /\ dd.early_close => terminal_packets(dd) = <<"CLOSE">>
  <2>1. /\ <<"EXIT_STATUS">> \o <<"EOF", "CLOSE">> = <<"EXIT_STATUS", "EOF", "CLOSE">>
        /\ <<>> \o <<"EOF", "CLOSE">> = <<"EOF", "CLOSE">>
    <3> DEFINE P == {"EXIT_STATUS", "EOF", "CLOSE"}
               s == <<"EXIT_STATUS">>
               t == <<"EOF", "CLOSE">>
               u == <<"EXIT_STATUS", "EOF", "CLOSE">>
    <3>1. s \in Seq(P) /\ t \in Seq(P) /\ u \in Seq(P)
      OBVIOUS
    <3>2. Len(s) = 1 /\ Len(t) = 2 /\ Len(u) = 3
      OBVIOUS
    <3>3. s[1] = u[1] /\ t[1] = u[2] /\ t[2] = u[3]
      OBVIOUS
    <3> HIDE DEF P, s, t, u
    <3>4. /\ s \o t \in Seq(P)
          /\ Len(s \o t) = 3
          /\ \A i \in 1..3 : (s \o t)[i] = IF i <= 1 THEN s[i] ELSE t[i - 1]
      <4>1. /\ s \o t \in Seq(P) /\ Len(s \o t) = Len(s) + Len(t)
            /\ \A i \in 1..Len(s) + Len(t) : (s \o t)[i] = IF i <= Len(s) THEN s[i] ELSE t[i - Len(s)]
        BY <3>1, ConcatProperties, Zenon
      <4>2. Len(s) + Len(t) = 3
        BY <3>2
      <4> QED
        BY <3>2, <4>1, <4>2
    <3>5. \A i \in 1..3 : (s \o t)[i] = u[i]
      <4>1. (s \o t)[1] = s[1] /\ (s \o t)[2] = t[1] /\ (s \o t)[3] = t[2]
        BY <3>4
      <4>2. \A i \in 1..3 : i = 1 \/ i = 2 \/ i = 3
        OBVIOUS
      <4> QED
        BY <3>3, <4>1, <4>2
    <3>6. s \o t = u
      BY <3>1, <3>2, <3>4, <3>5, SeqEqual
    <3>7. <<>> \o t = t
      BY <3>1, ConcatEmptySeq
    <3> QED
      BY <3>6, <3>7 DEF s, t, u
  <2>2. /\ <<"EXIT_STATUS", "EOF", "CLOSE">> \in Seq({"EXIT_STATUS", "EOF", "CLOSE"})
        /\ <<"EOF", "CLOSE">> \in Seq({"EXIT_STATUS", "EOF", "CLOSE"})
        /\ <<"CLOSE">> \in Seq({"EXIT_STATUS", "EOF", "CLOSE"})
    OBVIOUS
  <2>3. terminal_packets(dd) = IF dd.early_close THEN <<"CLOSE">>
                               ELSE IF dd.exit_status = None THEN <<"EOF", "CLOSE">>
                               ELSE <<"EXIT_STATUS", "EOF", "CLOSE">>
    BY <2>1, Zenon DEF terminal_packets
  <2> QED
    BY <2>2, <2>3, Zenon
<1>8. /\ wrote \in Seq({"DATA", "WINDOW_ADJUST", "EXIT_STATUS", "EOF", "CLOSE"})
      /\ replies(wrote) = 0
  <2> DEFINE P == {"DATA", "WINDOW_ADJUST", "EXIT_STATUS", "EOF", "CLOSE"}
  <2>1. w \in Seq(P) /\ terminal_packets(dd) \in Seq(P)
    BY <1>3, <1>7
  <2>2. wrote \in Seq(P)
    <3> HIDE DEF P
    <3> QED
      BY <2>1, ConcatProperties
  <2>3. \A i \in DOMAIN wrote : wrote[i] \in P
    <3> HIDE DEF P, wrote
    <3> QED
      BY <2>2
  <2> HIDE DEF wrote
  <2> QED
    BY <2>2, <2>3, NoReplies DEF ReplyKinds
<1>9. \A i \in DOMAIN wrote : wrote[i] = "EOF" =>
        /\ ends /\ ~d.early_close /\ d.child_out_closed /\ dd.pending_out = None
        /\ i > 1 /\ wrote[i - 1] = "EXIT_STATUS"
  <2> SUFFICES ASSUME NEW i \in DOMAIN wrote, wrote[i] = "EOF"
               PROVE  /\ ends /\ ~d.early_close /\ d.child_out_closed /\ dd.pending_out = None
                      /\ i > 1 /\ wrote[i - 1] = "EXIT_STATUS"
    OBVIOUS
  <2>1. ends
    BY <1>3
  <2>2. wrote = w \o terminal_packets(dd)
    BY <2>1
  <2>3. dd.child_out_closed /\ dd.pending_out = None
    BY <2>1 DEF ready_to_close
  <2> DEFINE P == {"DATA", "WINDOW_ADJUST", "EXIT_STATUS", "EOF", "CLOSE"}
             t == terminal_packets(dd)
  <2>4. w \in Seq(P) /\ t \in Seq(P) /\ Len(w) \in Nat
    BY <1>3, <1>7
  <2>5. /\ i <= Len(w) => i \in DOMAIN w /\ wrote[i] = w[i]
        /\ i > Len(w) => i - Len(w) \in DOMAIN t /\ wrote[i] = t[i - Len(w)]
        /\ i \in Nat
    <3> HIDE DEF P, t
    <3> QED
      BY <2>2, <2>4, ConcatIndex DEF t
  <2>6. i > Len(w)
    BY <1>3, <2>4, <2>5
  <2>7. ~dd.early_close
    BY <1>7, <2>5, <2>6
  <2>8. dd.exit_status # None
    BY <1>1, <1>4, <2>3, <2>7 DEF Core, ExitKnown
  <2>9. t = <<"EXIT_STATUS", "EOF", "CLOSE">>
    BY <1>7, <2>7, <2>8
  <2>10. i - Len(w) = 2
    <3>1. i - Len(w) \in 1..3 /\ t[i - Len(w)] = "EOF"
      BY <2>5, <2>6, <2>9
    <3> QED
      BY <2>9, <3>1
  <2>11. i = Len(w) + 2
    BY <2>4, <2>5, <2>10
  <2>12. wrote[Len(w) + 1] = "EXIT_STATUS"
    BY <2>2, <2>4, <2>9
  <2> QED
    BY <1>4, <2>1, <2>3, <2>4, <2>7, <2>11, <2>12
<1> HIDE DEF wrote, ends, after
<1>10. CASE leave(after, wrote) /\ after.state = "Closed" /\ phase' = phase
  <2>1. pc' = "over" /\ d'.deferred = d.deferred /\ written' = wrote /\ answered' = answered + replies(written')
    BY <1>4, <1>10, LeaveControl
  <2>2. HalfDuplex'
    BY <1>1, <1>10 DEF HalfDuplex
  <2>3. \A i \in DOMAIN written' : written'[i] # "EOF"
    <3>1. ends => d.early_close
      BY <1>4, <1>10 DEF ends, after, send_terminal, new
    <3> QED
      BY <1>9, <2>1, <3>1
  <2>4. Control' /\ RepliesOwed'
    BY <1>1, <1>8, <1>10, <2>1, KeptOver DEF Control
  <2> QED
    BY <2>2, <2>3, <2>4, NoEof DEF Kept
<1>11. CASE continue("select", after, wrote) /\ io' = child /\ phase' = phase
  <2>1. pc' = "select" /\ d' = after /\ written' = wrote /\ answered' = answered + replies(written')
    BY <1>11 DEF continue
  <2>2. HalfDuplex'
    BY <1>1, <1>11 DEF HalfDuplex
  <2>3. OutputBeforeExit'
    <3> SUFFICES ASSUME NEW i \in DOMAIN wrote, wrote[i] = "EOF"
                 PROVE  /\ i > 1 /\ wrote[i - 1] = "EXIT_STATUS"
                        /\ after.bytes_sent = child.produced /\ child.child \in {"none", "reported"}
      BY <1>11, <2>1 DEF OutputBeforeExit
    <3>1. /\ ends /\ ~d.early_close /\ d.child_out_closed /\ dd.pending_out = None
          /\ i > 1 /\ wrote[i - 1] = "EXIT_STATUS"
      BY <1>9
    <3>2. io.child \in {"none", "reported"} /\ Total(io.out) = 0
      BY <1>1, <3>1, TotalEmpty DEF Core, ExitKnown, NotStarted, NoChild, out_senders_gone
    <3>3. d.bytes_sent + Pending(d) + 0 = io.produced
      BY <1>1, <3>1, <3>2 DEF Core, Accounted
    <3>4. dd.bytes_sent + 0 = d.bytes_sent + Pending(d) /\ dd.bytes_sent \in Nat
      BY <1>5, <3>1 DEF Quiet, Pending
    <3>5. after.bytes_sent = dd.bytes_sent
      BY <1>4 DEF after, send_terminal, new
    <3>6. d.bytes_sent + Pending(d) \in Nat
      BY <3>4
    <3> QED
      BY <1>5, <3>1, <3>2, <3>3, <3>4, <3>5, <3>6 DEF SamePipes
  <2>4. Control' /\ RepliesOwed'
    BY <1>1, <1>4, <1>8, <1>11, <2>1, KeptQuiet DEF Control
  <2> QED
    BY <2>2, <2>3, <2>4 DEF Kept
<1> QED
  BY <1>2, <1>6, <1>10, <1>11

\* A step that writes nothing, or only takes leave, and touches no queue of requests.
LEMMA KeptSilent ==
  ASSUME Control, RepliesOwed, d'.deferred = d.deferred, UNCHANGED <<phase, draining, asked>>,
         answered' = answered + replies(written'), written' \in {<<>>, <<"DISCONNECT">>},
         \/ pc' = "over"
         \/ pc \in {"head", "select"} /\ pc' \in {"head", "due", "select"}
  PROVE  Kept
<1>1. \A i \in DOMAIN written' : written'[i] \in {"KEXINIT", "DISCONNECT"}
  OBVIOUS
<1>2. HalfDuplex' /\ OutputBeforeExit' /\ replies(written') = 0
  BY <1>1, KexOnly
<1>3. Control' /\ RepliesOwed'
  <2>1. CASE pc' = "over"
    BY <1>2, <2>1, KeptOver DEF Control
  <2>2. CASE pc \in {"head", "select"} /\ pc' \in {"head", "due", "select"}
    BY <1>2, <2>2, KeptQuiet DEF Control
  <2> QED
    BY <2>1, <2>2
<1> QED
  BY <1>2, <1>3 DEF Kept

LEMMA KeptOthers ==
  ASSUME Core, Control, RepliesOwed,
         \/ head_during_rekey
         \/ recv_out_data \/ recv_out_exited \/ recv_out_closed \/ recv_consumed
         \/ rekey_timeout \/ rekey_wake \/ drop_driver
  PROVE  Kept
<1>1. DOMAIN d = DOMAIN new
  BY DEF Core, DriverType
<1>2. ASSUME NEW dd, continue("select", dd, <<>>) \/ arm(dd), dd.deferred = d.deferred,
             UNCHANGED <<phase, draining, asked>>, pc \in {"head", "select"}
      PROVE  Kept
  BY <1>2, KeptSilent DEF arm, continue
<1>3. CASE head_during_rekey
  <2>1. handoff_stdin(d).deferred = d.deferred
    BY <1>1 DEF handoff_stdin, handed_off, refilled, new
  <2> QED
    BY <1>2, <1>3, <2>1 DEF head_during_rekey, clientVars
<1>4. CASE recv_out_data \/ recv_out_exited \/ recv_out_closed \/ recv_consumed
  <2>1. ASSUME NEW dd, arm(dd), dd.deferred = d.deferred, UNCHANGED clientVars PROVE Kept
    BY <1>2, <2>1 DEF arm, clientVars
  <2>2. CASE recv_out_data
    <3> DEFINE dd == IF d.early_close THEN d ELSE [d EXCEPT !.pending_out = Some(Head(io.out))]
    <3>1. arm(dd)
      BY <2>2 DEF recv_out_data
    <3>2. dd.deferred = d.deferred
      BY <1>1 DEF new
    <3> HIDE DEF dd
    <3> QED
      BY <2>1, <3>1, <3>2 DEF arm
  <2>3. CASE recv_out_exited
    <3> DEFINE dd == [d EXCEPT !.exit_status = IF @ = None THEN Some("exited") ELSE @, !.state = "Draining"]
    <3>1. arm(dd)
      BY <2>3 DEF recv_out_exited
    <3>2. dd.deferred = d.deferred
      BY <1>1 DEF new
    <3> HIDE DEF dd
    <3> QED
      BY <2>1, <3>1, <3>2 DEF arm
  <2>4. CASE recv_out_closed
    <3> DEFINE dd == [d EXCEPT !.child_out_closed = TRUE]
    <3>1. arm(dd)
      BY <2>4 DEF recv_out_closed
    <3>2. dd.deferred = d.deferred
      BY <1>1 DEF new
    <3> HIDE DEF dd
    <3> QED
      BY <2>1, <3>1, <3>2 DEF arm
  <2>5. CASE recv_consumed
    <3> DEFINE credited == [d EXCEPT !.credit_pending = @ + Head(io.credits),
                                     !.bytes_received = @ + Head(io.credits)]
               closed == [d EXCEPT !.consumed_closed = TRUE]
    <3>1. arm(credited) \/ arm(closed)
      BY <2>5 DEF recv_consumed
    <3>2. credited.deferred = d.deferred /\ closed.deferred = d.deferred
      BY <1>1 DEF new
    <3> HIDE DEF credited, closed
    <3> QED
      BY <2>1, <3>1, <3>2 DEF arm
  <2> QED
    BY <1>4, <2>2, <2>3, <2>4, <2>5
<1>5. CASE rekey_timeout \/ drop_driver
  <2>1. PICK w \in {<<>>, <<"DISCONNECT">>} : leave(d, w)
    BY <1>5 DEF rekey_timeout, drop_driver
  <2>2. pc' = "over" /\ d'.deferred = d.deferred /\ written' = w /\ answered' = answered + replies(written')
    BY <1>1, <2>1, LeaveControl
  <2> QED
    BY <1>5, <2>1, <2>2, KeptSilent DEF rekey_timeout, drop_driver, clientVars
<1>6. CASE rekey_wake
  BY <1>6, KeptSilent DEF rekey_wake, continue, clientVars
<1> QED
  BY <1>3, <1>4, <1>5, <1>6

LEMMA KeptChild ==
  ASSUME Control, RepliesOwed, NEW c, child_step(c)
  PROVE  Kept
<1>1. /\ pc' = pc /\ d' = d /\ written' = <<>> /\ answered' = answered
      /\ UNCHANGED <<phase, draining, asked>>
  BY DEF child_step, clientVars
<1>2. HalfDuplex' /\ OutputBeforeExit'
  BY <1>1, KexOnly
<1>3. Control' /\ RepliesOwed'
  BY <1>1 DEF Control, RepliesOwed
<1> QED
  BY <1>2, <1>3 DEF Kept
-----------------------------------------------------------------------------
(* The theorems.                                                             *)

IInv == Core /\ Control /\ RepliesOwed /\ HalfDuplex /\ OutputBeforeExit

LEMMA Initially == Init => IInv
<1> SUFFICES ASSUME Init PROVE IInv
  OBVIOUS
<1>1. Core
  BY CoreInit
<1>2. Control
  <2>1. <<>> \in Seq(ClientMsgs)
    OBVIOUS
  <2> QED
    BY <2>1 DEF Init, Control, new, Phases
<1>3. RepliesOwed
  BY OwedEmpty DEF Init, RepliesOwed, new
<1>4. HalfDuplex /\ OutputBeforeExit
  BY DEF Init, HalfDuplex, OutputBeforeExit
<1> QED
  BY <1>1, <1>2, <1>3, <1>4 DEF IInv

\* Every step keeps the invariant, and counts what it finishes.
LEMMA EachStep ==
  ASSUME IInv, Next
  PROVE  IInv' /\ (d'.finished # d.finished => d'.bytes_received + io.uncredited = io.delivered)
<1> USE DEF IInv
<1>1. CASE Driver
  <2>1. CASE head_during_rekey
    BY <2>1, FineHeadDuringRekey, KeptOthers DEF Fine, Kept
  <2>2. ASSUME NEW due, head(due) PROVE Fine /\ Kept
    BY <2>2, FineHead, KeptHead
  <2>3. CASE drain_deferred
    <3>1. Fine
      <4>1. Head(draining) \in ClientMsgs /\ pc # "over"
        BY <2>3 DEF drain_deferred, Control
      <4>2. (IF Len(draining) = 1 THEN "head" ELSE "drain") # "over"
        OBVIOUS
      <4> QED
        BY <2>3, <4>1, <4>2, FineInbound DEF drain_deferred
    <3> QED
      BY <2>3, <3>1, KeptDrain DEF Fine, Kept
  <2>4. CASE recv_out_data \/ recv_out_exited \/ recv_out_closed \/ recv_consumed
    BY <2>4, FineOutData, FineOutExited, FineOutClosed, FineConsumed, KeptOthers DEF Fine, Kept
  <2> QED
    BY <1>1, <2>1, <2>2, <2>3, <2>4 DEF Driver, Fine, Kept
<1>2. ASSUME NEW m \in ClientMsgs, read_packet(m) PROVE Fine /\ Kept
  BY <1>2, FineRead, KeptRead
<1>3. CASE rekey_timeout \/ rekey_wake \/ drop_driver
  <2>1. Quiet(d) /\ pc # "over"
    BY <1>3 DEF rekey_timeout, rekey_wake, drop_driver, Core, DriverType, Quiet, Pending
  <2>2. leave(d, <<"DISCONNECT">>) \/ leave(d, <<>>) \/ (continue("due", d, <<>>) /\ io' = io)
    BY <1>3 DEF rekey_timeout, rekey_wake, drop_driver
  <2>3. Fine
    BY <2>1, <2>2, FineLeave, FineQuiet
  <2> QED
    BY <1>3, <2>3, KeptOthers DEF Fine, Kept
<1>4. CASE Child
  <2>1. \E c : child_step(c)
    BY <1>4 DEF Child, pump_output, pump_output_eof, pump_pty_ends, leader_exits, try_reap, report_exit,
                pump_stdin_recv, pump_stdin_credit, pump_stdin_fails, pump_stdin_eof, pump_stdin_write
  <2> QED
    BY <1>4, <2>1, ChildSteps, KeptChild DEF Fine, Kept
<1>5. ASSUME UNCHANGED vars
      PROVE  IInv' /\ (d'.finished # d.finished => d'.bytes_received + io.uncredited = io.delivered)
  BY <1>5 DEF vars, Core, DriverType, ChildType, NotStarted, Audited, Accounted, ExitKnown, Pending,
              out_senders_gone, Control, RepliesOwed, HalfDuplex, OutputBeforeExit
<1> QED
  BY <1>1, <1>2, <1>3, <1>4, <1>5 DEF Next, Finished, Fine, Kept

\* What the properties need beyond themselves is an invariant: the driver's
\* counts of output, credits and replies agree with its queues (drive).
THEOREM Invariance == Spec => []IInv
<1>1. IInv /\ UNCHANGED vars => IInv'
  BY DEF vars, IInv, Core, DriverType, ChildType, NotStarted, Audited, Accounted, ExitKnown, Pending,
         out_senders_gone, Control, RepliesOwed, HalfDuplex, OutputBeforeExit
<1>2. IInv /\ [Next]_vars => IInv'
  BY <1>1, EachStep
<1> QED
  BY <1>2, Initially, PTL DEF Spec

\* Between our KEXINIT and our NEWKEYS nothing but the exchange leaves, whatever
\* the child, the client and the deferred requests do (drive, pass_to_channel).
THEOREM RekeyIsHalfDuplex == Spec => []HalfDuplex
<1>1. IInv => HalfDuplex
  BY DEF IInv
<1> QED
  BY <1>1, Invariance, PTL

\* EOF follows the exit status and all of the child's output, in whatever order
\* the pumps, the reaper and the driver run (drive, send_terminal).
THEOREM OutputComesFirst == Spec => []OutputBeforeExit
<1>1. IInv => OutputBeforeExit
  BY DEF IInv
<1> QED
  BY <1>1, Invariance, PTL

\* For any number of packets held back by any number of re-keys, each request
\* that wants a reply is answered once (pass_to_channel, drain_deferred).
THEOREM RepliesAreKept == Spec => []RepliesNotLost
<1>1. IInv => RepliesNotLost
  <2> SUFFICES ASSUME Control, RepliesOwed, pc # "over"
               PROVE  asked - answered = Owed(d.deferred) + Owed(draining)
    BY DEF IInv, RepliesNotLost
  <2>1. Owed(d.deferred) \in Nat /\ Owed(draining) \in Nat
    BY OwedFinite DEF Control
  <2> QED
    BY <2>1 DEF Control, RepliesOwed
<1> QED
  BY <1>1, Invariance, PTL

\* A command is audited exactly once, at the end, with the bytes the child took
\* (emit_finished, on every path that leaves drive).
THEOREM AuditIsExact == Spec => AuditExact
<1>1. IInv => (pc = "over" => d.finished = IF d.command THEN 1 ELSE 0)
  BY DEF IInv, Core, Audited
<1>2. IInv /\ [Next]_vars =>
        [d'.finished # d.finished => d'.bytes_received + io.uncredited = io.delivered]_vars
  BY EachStep
<1> QED
  BY <1>1, <1>2, Invariance, PTL DEF Spec, AuditExact
-----------------------------------------------------------------------------
(* Bytes in the buffers between the client and the child.                    *)

Chunks == Seq(Seq(Nat))

Lengths(ss) == [i \in DOMAIN ss |-> Len(ss[i])]

LEMMA LengthsType == ASSUME NEW ss \in Chunks PROVE Lengths(ss) \in Seq(Nat) /\ Len(Lengths(ss)) = Len(ss)
<1>1. ASSUME NEW i \in 1..Len(ss) PROVE Len(ss[i]) \in Nat
  <2>1. ss[i] \in Seq(Nat)
    BY DEF Chunks
  <2> QED
    BY <2>1
<1>2. Lengths(ss) = [i \in 1..Len(ss) |-> Len(ss[i])] /\ Len(ss) \in Nat
  BY DEF Lengths, Chunks
<1> QED
  BY <1>1, <1>2

LEMMA BytesNat == ASSUME NEW ss \in Chunks PROVE BytesIn(ss) \in Nat
  BY LengthsType, TotalNat DEF BytesIn, Lengths

LEMMA BytesEmpty == BytesIn(<<>>) = 0
<1>1. [i \in DOMAIN <<>> |-> Len(<<>>[i])] = <<>>
  OBVIOUS
<1> QED
  BY <1>1, TotalEmpty DEF BytesIn

LEMMA BytesAppend ==
  ASSUME NEW ss \in Chunks, NEW s \in Seq(Nat)
  PROVE  Append(ss, s) \in Chunks /\ BytesIn(Append(ss, s)) = BytesIn(ss) + Len(s)
<1> DEFINE more == Append(ss, s)
<1>1. more \in Chunks /\ Len(more) = Len(ss) + 1 /\ more[Len(ss) + 1] = s /\ Len(ss) \in Nat /\ Len(s) \in Nat
      /\ \A i \in 1..Len(ss) : more[i] = ss[i]
  BY DEF Chunks
<1> HIDE DEF more
<1>2. Lengths(ss) \in Seq(Nat) /\ Len(Lengths(ss)) = Len(ss) /\ Lengths(more) \in Seq(Nat)
      /\ Len(Lengths(more)) = Len(ss) + 1
  BY <1>1, LengthsType
<1>3. DOMAIN more = 1..Len(ss) + 1 /\ DOMAIN ss = 1..Len(ss)
  BY <1>1 DEF Chunks
<1>4. \A i \in 1..Len(ss) + 1 : Lengths(more)[i] = Append(Lengths(ss), Len(s))[i]
  <2> SUFFICES ASSUME NEW i \in 1..Len(ss) + 1 PROVE Lengths(more)[i] = Append(Lengths(ss), Len(s))[i]
    OBVIOUS
  <2>1. CASE i = Len(ss) + 1
    BY <1>1, <1>2, <1>3, <2>1 DEF Lengths
  <2>2. CASE i # Len(ss) + 1
    <3>1. i \in 1..Len(ss)
      BY <1>1, <2>2
    <3>2. Append(Lengths(ss), Len(s))[i] = Lengths(ss)[i]
      BY <1>1, <1>2, <3>1
    <3> QED
      BY <1>1, <1>3, <3>1, <3>2 DEF Lengths
  <2> QED
    BY <2>1, <2>2
<1>5. Append(Lengths(ss), Len(s)) \in Seq(Nat) /\ Len(Append(Lengths(ss), Len(s))) = Len(ss) + 1
  BY <1>1, <1>2, SMTT(30)
<1>6. Lengths(more) = Append(Lengths(ss), Len(s))
  BY <1>2, <1>4, <1>5, SeqEqual
<1>7. Total(Lengths(more)) = Total(Lengths(ss)) + Len(s)
  BY <1>1, <1>2, <1>6, TotalAppend
<1> QED
  BY <1>1, <1>7 DEF BytesIn, Lengths, more

LEMMA BytesTail ==
  ASSUME NEW ss \in Chunks, ss # <<>>
  PROVE  /\ Head(ss) \in Seq(Nat) /\ Tail(ss) \in Chunks /\ Len(Tail(ss)) = Len(ss) - 1
         /\ BytesIn(ss) = Len(Head(ss)) + BytesIn(Tail(ss))
<1> DEFINE less == Tail(ss)
<1>1. /\ less \in Chunks /\ Len(ss) \in Nat \ {0} /\ Len(less) = Len(ss) - 1
      /\ Head(ss) = ss[1] /\ Head(ss) \in Seq(Nat)
      /\ \A i \in 1..Len(ss) - 1 : less[i] = ss[i + 1]
  <2>1. Len(ss) \in Nat \ {0} /\ Head(ss) = ss[1]
    BY EmptySeq DEF Chunks
  <2> QED
    BY <2>1 DEF Chunks
<1> HIDE DEF less
<1>2. Lengths(ss) \in Seq(Nat) /\ Len(Lengths(ss)) = Len(ss) /\ Lengths(less) \in Seq(Nat)
      /\ Len(Lengths(less)) = Len(ss) - 1 /\ Lengths(ss) # <<>>
  BY <1>1, LengthsType
<1>3. DOMAIN less = 1..Len(ss) - 1 /\ DOMAIN ss = 1..Len(ss)
  BY <1>1 DEF Chunks
<1>4. /\ Tail(Lengths(ss)) \in Seq(Nat) /\ Len(Tail(Lengths(ss))) = Len(ss) - 1
      /\ Head(Lengths(ss)) = Lengths(ss)[1]
      /\ \A i \in 1..Len(ss) - 1 : Tail(Lengths(ss))[i] = Lengths(ss)[i + 1]
  BY <1>1, <1>2
<1>5. \A i \in 1..Len(ss) - 1 : Tail(Lengths(ss))[i] = Lengths(less)[i]
  <2> SUFFICES ASSUME NEW i \in 1..Len(ss) - 1 PROVE Tail(Lengths(ss))[i] = Lengths(less)[i]
    OBVIOUS
  <2>1. i + 1 \in 1..Len(ss)
    BY <1>1
  <2> QED
    BY <1>1, <1>3, <1>4, <2>1 DEF Lengths
<1>6. Tail(Lengths(ss)) = Lengths(less)
  BY <1>2, <1>4, <1>5, SeqEqual
<1>7. Head(Lengths(ss)) = Len(Head(ss))
  BY <1>1, <1>3, <1>4 DEF Lengths
<1>8. Total(Lengths(ss)) = Len(Head(ss)) + Total(Lengths(less))
  BY <1>2, <1>6, <1>7, TotalTail
<1> QED
  BY <1>1, <1>8 DEF BytesIn, Lengths, less

\* An Option that holds a chunk.
LEMMA BytesOption ==
  ASSUME NEW s \in Seq(Nat)
  PROVE  Some(s) \in Chunks /\ BytesIn(Some(s)) = Len(s) /\ FlattenSeq(Some(s)) = s
<1>1. Some(s) \in Chunks /\ Len(Some(s)) = 1 /\ Some(s)[1] = s /\ Some(s) # <<>>
  BY DEF Chunks, Some
<1>2. Head(Some(s)) = s /\ Tail(Some(s)) = <<>>
  BY DEF Some
<1>3. BytesIn(Some(s)) = Len(s)
  <2>1. BytesIn(Some(s)) = Len(Head(Some(s))) + BytesIn(Tail(Some(s)))
    BY <1>1, BytesTail
  <2>2. Len(s) \in Nat
    OBVIOUS
  <2>3. BytesIn(Some(s)) = Len(s) + 0
    BY <1>2, <2>1, BytesEmpty
  <2> QED
    BY <2>2, <2>3
<1>4. FlattenSeq(Some(s)) = s
  <2> DEFINE t == Some(s)
             c == CHOOSE f : f = [i \in 1..Len(t) |-> IF i = 1 THEN t[i] ELSE f[i - 1] \o t[i]]
             w == [i \in 1..1 |-> s]
  <2>1. FlattenSeq(t) = c[Len(t)]
    BY <1>1 DEF FlattenSeq
  <2> HIDE DEF t
  <2>2. Len(t) = 1 /\ t[1] = s
    BY <1>1 DEF t
  <2>3. w = [i \in 1..Len(t) |-> IF i = 1 THEN t[i] ELSE w[i - 1] \o t[i]]
    BY <2>2
  <2> HIDE DEF w
  <2>4. c = [i \in 1..Len(t) |-> IF i = 1 THEN t[i] ELSE c[i - 1] \o t[i]]
    BY <2>3
  <2> HIDE DEF c
  <2>5. c[1] = s
    BY <2>2, <2>4
  <2> QED
    BY <2>1, <2>2, <2>5 DEF t
<1> QED
  BY <1>1, <1>3, <1>4

-----------------------------------------------------------------------------
(* The inbound window: each byte of it is the client's to send, on its way   *)
(* through the buffers, or a credit on its way back.                         *)

Held(dd, c) ==
  Len(c.rest) + BytesIn(c.stdin_q) + BytesIn(dd.pending_stdin) + BytesIn(dd.pre_exec_stdin)

Window(dd, c) == dd.in_window + dd.credit_pending + Total(c.credits) + c.uncredited + Held(dd, c)

Slots(dd) ==
  /\ DOMAIN dd = DOMAIN new
  /\ dd.in_window \in Nat /\ dd.credit_pending \in Nat /\ dd.out_window \in 0..MaxWindow
  /\ dd.pending_stdin = None \/ \E s \in Seq(Nat) : dd.pending_stdin = Some(s)
  /\ dd.pre_exec_stdin \in Chunks
  /\ Len(dd.deferred) <= MAX_DEFERRED

Pipes(c) ==
  /\ DOMAIN c = DOMAIN NoChild
  /\ c.credits \in Seq(Nat) /\ c.uncredited \in Nat /\ c.delivered \in Nat
  /\ c.rest \in Seq(Nat) /\ c.stdin_q \in Chunks /\ Len(c.stdin_q) <= STDIN_QUEUE
  /\ Len(c.out) <= OUT_QUEUE

\* The sender is dropped at EOF, when there is nothing more to hand over.
EofSent ==
  pc # "over" /\ io.child # "none" /\ ~io.stdin_tx /\ ~d.early_close =>
    d.client_eof /\ d.pending_stdin = None /\ d.pre_exec_stdin = <<>>

Buffered ==
  /\ Slots(d) /\ Pipes(io) /\ EofSent
  /\ received \in Nat /\ io.delivered + Held(d, io) <= received
  /\ IF d.state = "BeforeOpen" THEN Window(d, io) = 0 ELSE Window(d, io) <= INITIAL_WINDOW
  /\ StdinLive => Window(d, io) = INITIAL_WINDOW

LEMMA Sizes ==
  ASSUME NEW dd, Slots(dd), NEW c, Pipes(c)
  PROVE  /\ Total(c.credits) \in Nat /\ Len(c.rest) \in Nat /\ BytesIn(c.stdin_q) \in Nat
         /\ BytesIn(dd.pending_stdin) \in Nat /\ BytesIn(dd.pre_exec_stdin) \in Nat
         /\ dd.pending_stdin \in Chunks
         /\ Held(dd, c) \in Nat /\ Window(dd, c) \in Nat
<1>1. dd.pending_stdin \in Chunks
  <2>1. None \in Chunks
    BY DEF None, Chunks
  <2> QED
    BY <2>1, BytesOption DEF Slots
<1>2. c.credits \in Seq(Nat) /\ c.rest \in Seq(Nat) /\ c.stdin_q \in Chunks /\ dd.pre_exec_stdin \in Chunks
      /\ dd.in_window \in Nat /\ dd.credit_pending \in Nat /\ c.uncredited \in Nat
  BY DEF Slots, Pipes
<1>3. Total(c.credits) \in Nat
  BY <1>2, TotalNat
<1>4. Len(c.rest) \in Nat
  BY <1>2
<1>5. BytesIn(c.stdin_q) \in Nat /\ BytesIn(dd.pending_stdin) \in Nat /\ BytesIn(dd.pre_exec_stdin) \in Nat
  BY <1>1, <1>2, BytesNat
<1>6. Held(dd, c) \in Nat
  BY <1>4, <1>5 DEF Held
<1>7. Window(dd, c) \in Nat
  <2> QED
    BY <1>2, <1>3, <1>6, SMTT(30) DEF Window
<1> QED
  BY <1>1, <1>3, <1>4, <1>5, <1>6, <1>7

\* A step that takes k more bytes from the client and keeps the sum.
LEMMA Conserves ==
  ASSUME Buffered, Slots(d'), Pipes(io'), EofSent', NEW k \in Nat, received' = received + k,
         io'.delivered + Held(d', io') <= io.delivered + Held(d, io) + k,
         Window(d', io') <= Window(d, io),
         d'.state = "BeforeOpen" => d.state = "BeforeOpen",
         StdinLive' => StdinLive /\ Window(d', io') = Window(d, io)
  PROVE  Buffered'
<1>1. /\ Held(d, io) \in Nat /\ Window(d, io) \in Nat /\ Held(d', io') \in Nat /\ Window(d', io') \in Nat
      /\ io.delivered \in Nat /\ io'.delivered \in Nat /\ received \in Nat /\ INITIAL_WINDOW \in Nat
  BY Sizes, ChannelAssumption DEF Buffered, Pipes
<1>2. /\ Held(d, io)' = Held(d', io') /\ Window(d, io)' = Window(d', io')
      /\ Slots(d)' = Slots(d') /\ Pipes(io)' = Pipes(io')
  BY DEF Held, Window, Slots, Pipes
<1>3. received' \in Nat /\ io'.delivered + Held(d', io') <= received'
  BY <1>1 DEF Buffered
<1>4. IF d'.state = "BeforeOpen" THEN Window(d', io') = 0 ELSE Window(d', io') <= INITIAL_WINDOW
  BY <1>1 DEF Buffered
<1>5. StdinLive' => Window(d', io') = INITIAL_WINDOW
  BY DEF Buffered
<1> QED
  BY <1>2, <1>3, <1>4, <1>5 DEF Buffered

\* dd and d agree on what the window is made of.
SameSlots(dd) ==
  /\ dd.in_window = d.in_window /\ dd.credit_pending = d.credit_pending
  /\ dd.pending_stdin = d.pending_stdin /\ dd.pre_exec_stdin = d.pre_exec_stdin
  /\ d.client_eof => dd.client_eof
  /\ d.early_close => dd.early_close

\* c and io agree on it.
SameStdin(c) ==
  /\ c.credits = io.credits /\ c.uncredited = io.uncredited /\ c.delivered = io.delivered
  /\ c.rest = io.rest /\ c.stdin_q = io.stdin_q

LEMMA ConservesSame ==
  ASSUME Buffered, Slots(d'), SameSlots(d'), Pipes(io'), SameStdin(io'), received' = received,
         pc' # "over" => pc # "over", io'.child = io.child, io'.stdin_tx = io.stdin_tx,
         d'.state = "BeforeOpen" => d.state = "BeforeOpen",
         StdinLive' => StdinLive
  PROVE  Buffered'
<1>1. Held(d', io') = Held(d, io) /\ Window(d', io') = Window(d, io)
  BY DEF SameSlots, SameStdin, Held, Window
<1>2. EofSent'
  BY DEF Buffered, EofSent, SameSlots
<1>3. /\ Held(d, io) \in Nat /\ Window(d, io) \in Nat /\ io.delivered \in Nat /\ received \in Nat
      /\ io'.delivered = io.delivered
  BY Sizes DEF Buffered, Pipes, SameStdin
<1>4. /\ received' = received + 0 /\ Window(d', io') <= Window(d, io)
      /\ io'.delivered + Held(d', io') <= io.delivered + Held(d, io) + 0
  BY <1>1, <1>3
<1> QED
  BY <1>1, <1>2, <1>4, Conserves

\* Leaving drive gives up what is in the pipes.
LEMMA ConservesLeave ==
  ASSUME Core, Buffered, NEW dd, NEW w, leave(dd, w), Slots(dd), received' = received,
         Window(dd, io) <= Window(d, io), Held(dd, io) <= Held(d, io),
         dd.state = "BeforeOpen" => d.state = "BeforeOpen"
  PROVE  Buffered'
<1>1. pc' = "over" /\ d' = emit_finished(dd) /\ io' = drop_io(io)
  BY DEF leave, continue
<1>2. /\ DOMAIN d' = DOMAIN new /\ d'.state = dd.state /\ d'.in_window = dd.in_window
      /\ d'.credit_pending = dd.credit_pending /\ d'.out_window = dd.out_window
      /\ d'.pending_stdin = dd.pending_stdin /\ d'.pre_exec_stdin = dd.pre_exec_stdin
      /\ d'.deferred = dd.deferred
  BY <1>1 DEF Slots, emit_finished, new
<1>3. Slots(d')
  BY <1>2 DEF Slots
<1>4. /\ DOMAIN io' = DOMAIN NoChild /\ io'.uncredited = io.uncredited /\ io'.delivered = io.delivered
      /\ io' = io \/ (io'.credits = <<>> /\ io'.rest = <<>> /\ io'.stdin_q = <<>> /\ io'.out = <<>>)
  BY <1>1 DEF Buffered, Pipes, drop_io, kill, close_stdin, stdin_gone, discard_output, NoChild
<1>5. Pipes(io')
  <2>1. <<>> \in Seq(Nat) /\ <<>> \in Chunks /\ Len(<<>>) <= STDIN_QUEUE /\ Len(<<>>) <= OUT_QUEUE
    BY ChannelAssumption DEF Chunks
  <2> QED
    BY <1>4, <2>1 DEF Buffered, Pipes
<1>6. Held(d', io') = Held(dd, io') /\ Window(d', io') = Window(dd, io')
  BY <1>2 DEF Held, Window
<1>7. Held(dd, io') <= Held(dd, io) /\ Window(dd, io') <= Window(dd, io)
  <2>1. /\ Total(io.credits) \in Nat /\ Len(io.rest) \in Nat /\ BytesIn(io.stdin_q) \in Nat
        /\ BytesIn(dd.pending_stdin) \in Nat /\ BytesIn(dd.pre_exec_stdin) \in Nat
        /\ Held(dd, io) \in Nat /\ Window(dd, io) \in Nat
        /\ dd.in_window \in Nat /\ dd.credit_pending \in Nat /\ io.uncredited \in Nat
    BY Sizes DEF Buffered, Slots, Pipes
  <2>2. CASE io' = io
    BY <2>1, <2>2
  <2>3. CASE io'.credits = <<>> /\ io'.rest = <<>> /\ io'.stdin_q = <<>>
    <3>1. Total(io'.credits) = 0 /\ Len(io'.rest) = 0 /\ BytesIn(io'.stdin_q) = 0 /\ io'.uncredited = io.uncredited
      BY <1>4, <2>3, TotalEmpty, BytesEmpty
    <3>2. Held(dd, io') <= Held(dd, io)
      BY <2>1, <3>1 DEF Held
    <3>3. Held(dd, io') \in Nat
      BY <1>5, Sizes
    <3>4. Window(dd, io') <= Window(dd, io)
      BY <2>1, <3>1, <3>2, <3>3 DEF Window
    <3> QED
      BY <3>2, <3>4
  <2> QED
    BY <1>4, <2>2, <2>3
<1>8. EofSent' /\ ~StdinLive'
  BY <1>1 DEF EofSent, StdinLive
<1>9. /\ Held(d, io) \in Nat /\ Window(d, io) \in Nat /\ Held(dd, io) \in Nat /\ Window(dd, io) \in Nat
      /\ Held(dd, io') \in Nat /\ Window(dd, io') \in Nat /\ io.delivered \in Nat /\ received \in Nat
  BY <1>5, Sizes DEF Buffered, Pipes
<1>10. /\ received' = received + 0 /\ Window(d', io') <= Window(d, io)
       /\ io'.delivered + Held(d', io') <= io.delivered + Held(d, io) + 0
  BY <1>4, <1>6, <1>7, <1>9
<1> QED
  BY <1>2, <1>3, <1>5, <1>8, <1>10, Conserves

\* The driver goes on with the same slots, and the pipes are left alone.
LEMMA ConservesOn ==
  ASSUME Buffered, pc # "over", NEW then, NEW dd, NEW w, continue(then, dd, w), io' = io,
         Slots(dd), SameSlots(dd), received' = received,
         dd.state = "BeforeOpen" => d.state = "BeforeOpen",
         StdinLive' => StdinLive
  PROVE  Buffered'
<1>1. d' = dd
  BY DEF continue
<1>2. Pipes(io') /\ SameStdin(io')
  BY DEF Buffered, SameStdin
<1> QED
  BY <1>1, <1>2, ConservesSame

\* ... and in the same state.
LEMMA ConservesIdly ==
  ASSUME Buffered, pc # "over", NEW then, NEW dd, NEW w, continue(then, dd, w), io' = io,
         Slots(dd), SameSlots(dd), dd.state = d.state, received' = received
  PROVE  Buffered'
<1>1. StdinLive' => StdinLive
  BY DEF StdinLive, SameSlots, continue, has_child
<1> QED
  BY <1>1, ConservesOn

LEMMA ConservesDisconnect ==
  ASSUME Core, Buffered, NEW w, leave(d, w), received' = received
  PROVE  Buffered'
<1>1. Held(d, io) <= Held(d, io) /\ Window(d, io) <= Window(d, io) /\ Slots(d)
  <2>1. Held(d, io) \in Nat /\ Window(d, io) \in Nat /\ Slots(d)
    BY Sizes DEF Buffered
  <2> QED
    BY <2>1
<1> QED
  BY <1>1, ConservesLeave

LEMMA ConservesOpen ==
  ASSUME Buffered, pc # "over", d.state = "BeforeOpen", io' = io, received' = received,
         DOMAIN d' = DOMAIN new, d'.state = "Idle", d'.out_window \in 0..MaxWindow,
         d'.in_window = INITIAL_WINDOW, d'.credit_pending = d.credit_pending,
         d'.pending_stdin = d.pending_stdin, d'.pre_exec_stdin = d.pre_exec_stdin,
         d'.deferred = d.deferred, d'.client_eof = d.client_eof, d'.early_close = d.early_close
  PROVE  Buffered'
<1>1. /\ DOMAIN d' = DOMAIN new /\ d'.state = "Idle" /\ d'.in_window = INITIAL_WINDOW
      /\ d'.credit_pending = d.credit_pending /\ d'.pending_stdin = d.pending_stdin
      /\ d'.pre_exec_stdin = d.pre_exec_stdin /\ d'.deferred = d.deferred
      /\ d'.client_eof = d.client_eof /\ d'.early_close = d.early_close
  OBVIOUS
<1>2. d'.out_window \in 0..MaxWindow /\ INITIAL_WINDOW \in Nat
  BY ChannelAssumption
<1>3. Slots(d') /\ Pipes(io') /\ EofSent'
  <2>1. Slots(d') /\ Pipes(io')
    BY <1>1, <1>2 DEF Buffered, Slots
  <2>2. EofSent'
    BY <1>1 DEF Buffered, EofSent
  <2> QED
    BY <2>1, <2>2
<1>4. /\ d.in_window \in Nat /\ d.credit_pending \in Nat /\ Total(io.credits) \in Nat /\ io.uncredited \in Nat
      /\ Held(d, io) \in Nat
  BY Sizes DEF Buffered, Slots, Pipes
<1>5. d.in_window + d.credit_pending + Total(io.credits) + io.uncredited + Held(d, io) = 0
  BY DEF Buffered, Window
<1>6. Held(d', io') = Held(d, io)
  BY <1>1 DEF Held
<1>7. Window(d', io') = INITIAL_WINDOW
  <2>1. d.credit_pending = 0 /\ Total(io.credits) = 0 /\ io.uncredited = 0 /\ Held(d, io) = 0
    <3> DEFINE a == d.in_window
               b == d.credit_pending
               t == Total(io.credits)
               u == io.uncredited
               h == Held(d, io)
    <3>1. a \in Nat /\ b \in Nat /\ t \in Nat /\ u \in Nat /\ h \in Nat /\ a + b + t + u + h = 0
      BY <1>4, <1>5
    <3> HIDE DEF a, b, t, u, h
    <3>2. b = 0 /\ t = 0 /\ u = 0 /\ h = 0
      BY <3>1
    <3> QED
      BY <3>2 DEF b, t, u, h
  <2> QED
    BY <1>1, <1>2, <1>6, <2>1 DEF Window
<1>8. Held(d, io)' = Held(d', io') /\ Window(d, io)' = Window(d', io') /\ Slots(d)' = Slots(d') /\ Pipes(io)' = Pipes(io')
  BY DEF Held, Window, Slots, Pipes
<1> QED
  BY <1>1, <1>2, <1>3, <1>6, <1>7, <1>8 DEF Buffered

LEMMA ConservesStart ==
  ASSUME Core, Buffered, pc # "over", NEW m, NEW then, then # "over", d.state = "Idle", start(m, then),
         received' = received
  PROVE  Buffered'
<1> DEFINE accepted == [d EXCEPT !.command = TRUE, !.pty = FALSE]
           running == [accepted EXCEPT !.state = "Running"]
           failed == [accepted EXCEPT !.state = "Draining", !.exit_status = Some("127"),
                                      !.child_out_closed = TRUE, !.consumed_closed = TRUE]
<1>1. io = NoChild /\ ~d.early_close
  BY DEF Core, NotStarted, Before
<1>2. /\ Slots(accepted) /\ SameSlots(accepted) /\ accepted.state = d.state
      /\ Slots(running) /\ SameSlots(running) /\ running.state = "Running"
      /\ Slots(failed) /\ SameSlots(failed) /\ failed.state = "Draining"
  <2>1. Slots(accepted) /\ SameSlots(accepted) /\ accepted.state = d.state
    BY DEF Buffered, Slots, SameSlots, new
  <2>2. Slots(running) /\ SameSlots(running) /\ running.state = "Running"
    BY DEF Buffered, Slots, SameSlots, new
  <2>3. Slots(failed) /\ SameSlots(failed) /\ failed.state = "Draining"
    BY DEF Buffered, Slots, SameSlots, new
  <2> QED
    BY <2>1, <2>2, <2>3
<1>3. \/ continue(then, running, reply(m)) /\ io' = spawn(d.pty)
      \/ continue(then, failed, reply(m)) /\ io' = io
      \/ leave(accepted, <<>>)
  BY DEF start
<1> HIDE DEF accepted, running, failed
<1>4. CASE continue(then, running, reply(m)) /\ io' = spawn(d.pty)
  <2>1. /\ DOMAIN io' = DOMAIN NoChild /\ io'.stdin_tx = TRUE /\ SameStdin(io') /\ io'.out = io.out
    BY <1>1, <1>4 DEF SameStdin, spawn, NoChild
  <2>2. Pipes(io')
    BY <2>1 DEF Buffered, Pipes, SameStdin
  <2>3. d' = running
    BY <1>4 DEF continue
  <2>4. EofSent' /\ StdinLive
    BY <1>1, <2>1 DEF EofSent, StdinLive
  <2>5. Held(d', io') = Held(d, io) /\ Window(d', io') = Window(d, io)
    BY <1>2, <2>1, <2>3 DEF SameSlots, SameStdin, Held, Window
  <2>6. Held(d, io) \in Nat /\ Window(d, io) \in Nat /\ io.delivered \in Nat /\ received \in Nat
        /\ io'.delivered = io.delivered
    BY <2>1, Sizes DEF Buffered, Pipes, SameStdin
  <2>7. /\ received' = received + 0 /\ Window(d', io') <= Window(d, io)
        /\ io'.delivered + Held(d', io') <= io.delivered + Held(d, io) + 0
    BY <2>5, <2>6
  <2> QED
    BY <1>2, <2>2, <2>3, <2>4, <2>5, <2>7, Conserves
<1>5. CASE continue(then, failed, reply(m)) /\ io' = io
  <2>1. ~StdinLive'
    BY <1>1, <1>2, <1>5 DEF StdinLive, continue, has_child, NoChild
  <2> QED
    BY <1>2, <1>5, <2>1, ConservesOn
<1>6. CASE leave(accepted, <<>>)
  <2>1. Held(accepted, io) = Held(d, io) /\ Window(accepted, io) = Window(d, io)
    BY <1>2 DEF SameSlots, Held, Window
  <2>2. Held(d, io) \in Nat /\ Window(d, io) \in Nat
    BY Sizes DEF Buffered
  <2> QED
    BY <1>2, <1>6, <2>1, <2>2, ConservesLeave
<1> QED
  BY <1>3, <1>4, <1>5, <1>6

\* Data is taken out of the window and put into one of the two buffers, or
\* dropped by a channel that never had a child.
LEMMA ConservesData ==
  ASSUME Core, Buffered, pc # "over", NEW n \in Nat, NEW then, then # "over", ~data_refused(n),
         d.state # "BeforeOpen",
         continue(then, stash(n), <<>>), received' = received + n, io' = io
  PROVE  Buffered'
<1> DEFINE chunk == chunk_of(n)
           taken == [d EXCEPT !.in_window = @ - n]
<1>1. ~d.client_eof /\ n <= d.in_window /\ d.in_window \in Nat /\ d.credit_pending \in Nat /\ received \in Nat
  BY DEF Buffered, Slots, data_refused
<1>2. chunk \in Seq(Nat) /\ Len(chunk) = n
  BY <1>1 DEF chunk_of
<1>3. /\ DOMAIN taken = DOMAIN new /\ taken.in_window = d.in_window - n /\ taken.state = d.state
      /\ taken.credit_pending = d.credit_pending /\ taken.out_window = d.out_window
      /\ taken.pending_stdin = d.pending_stdin /\ taken.pre_exec_stdin = d.pre_exec_stdin
      /\ taken.deferred = d.deferred /\ taken.client_eof = d.client_eof /\ taken.early_close = d.early_close
  BY DEF Buffered, Slots, new
<1>4. d' = (IF d.state = "Idle" THEN [taken EXCEPT !.pre_exec_stdin = Append(@, chunk)]
            ELSE IF has_child THEN [taken EXCEPT !.pending_stdin = Some(FlattenSeq(@) \o chunk)]
            ELSE taken) /\ pc' = then
  BY DEF continue, stash
<1> HIDE DEF taken, chunk
<1>5. /\ DOMAIN d' = DOMAIN new /\ d'.in_window = d.in_window - n /\ d'.state = d.state
      /\ d'.credit_pending = d.credit_pending /\ d'.out_window = d.out_window
      /\ d'.deferred = d.deferred /\ d'.client_eof = d.client_eof /\ d'.early_close = d.early_close
      /\ d'.pre_exec_stdin = IF d.state = "Idle" THEN Append(d.pre_exec_stdin, chunk) ELSE d.pre_exec_stdin
      /\ d'.pending_stdin = IF d.state # "Idle" /\ has_child THEN Some(FlattenSeq(d.pending_stdin) \o chunk)
                            ELSE d.pending_stdin
  BY <1>3, <1>4 DEF new
<1>6. PICK s \in Seq(Nat) : FlattenSeq(d.pending_stdin) = s /\ BytesIn(d.pending_stdin) = Len(s)
  <2>1. CASE d.pending_stdin = None
    <3>1. FlattenSeq(<<>>) = <<>> /\ Len(<<>>) = 0 /\ <<>> \in Seq(Nat)
      BY DEF FlattenSeq
    <3> QED
      BY <2>1, <3>1, BytesEmpty DEF None
  <2>2. CASE \E s \in Seq(Nat) : d.pending_stdin = Some(s)
    BY <2>2, BytesOption
  <2> QED
    BY <2>1, <2>2 DEF Buffered, Slots
<1>7. s \o chunk \in Seq(Nat) /\ Len(s \o chunk) = Len(s) + n /\ Len(s) \in Nat
  <2>1. s \in Seq(Nat) /\ chunk \in Seq(Nat)
    BY <1>2, <1>6
  <2>2. s \o chunk \in Seq(Nat) /\ Len(s \o chunk) = Len(s) + Len(chunk) /\ Len(s) \in Nat
    BY <2>1, ConcatProperties
  <2> QED
    BY <1>2, <2>2
<1>8. /\ BytesIn(Append(d.pre_exec_stdin, chunk)) = BytesIn(d.pre_exec_stdin) + n
      /\ Append(d.pre_exec_stdin, chunk) \in Chunks
      /\ BytesIn(Some(s \o chunk)) = BytesIn(d.pending_stdin) + n
  BY <1>2, <1>6, <1>7, BytesAppend, BytesOption DEF Buffered, Slots
<1>9. Slots(d') /\ Pipes(io')
  <2>1. d'.in_window \in Nat
    BY <1>1, <1>5
  <2>2. d'.pending_stdin = None \/ \E t \in Seq(Nat) : d'.pending_stdin = Some(t)
    BY <1>5, <1>6, <1>7 DEF Buffered, Slots
  <2>3. d'.pre_exec_stdin \in Chunks
    BY <1>5, <1>8 DEF Buffered, Slots
  <2> QED
    BY <1>5, <2>1, <2>2, <2>3 DEF Buffered, Slots
<1>10. EofSent'
  <2>1. io.child # "none" /\ ~io.stdin_tx => d.early_close
    BY <1>1 DEF Buffered, EofSent
  <2> QED
    BY <1>5, <2>1 DEF EofSent
<1>11. /\ BytesIn(d.pending_stdin) \in Nat /\ BytesIn(d.pre_exec_stdin) \in Nat /\ Len(io.rest) \in Nat
       /\ BytesIn(io.stdin_q) \in Nat /\ Total(io.credits) \in Nat /\ io.uncredited \in Nat
       /\ Held(d, io) \in Nat /\ io.delivered \in Nat
  BY Sizes DEF Buffered, Pipes
<1>12. \/ Held(d', io') = Held(d, io) + n
       \/ Held(d', io') = Held(d, io) /\ ~StdinLive'
  <2>1. CASE d.state = "Idle"
    BY <1>5, <1>8, <1>11, <2>1, SMTT(30) DEF Held
  <2>2. CASE d.state # "Idle" /\ has_child
    <3>1. BytesIn(d'.pending_stdin) = BytesIn(d.pending_stdin) + n /\ d'.pre_exec_stdin = d.pre_exec_stdin
      BY <1>5, <1>6, <1>8, <2>2
    <3> QED
      BY <1>11, <3>1, SMTT(30) DEF Held
  <2>3. CASE d.state # "Idle" /\ ~has_child
    BY <1>5, <2>3 DEF Held, StdinLive, has_child
  <2> QED
    BY <2>1, <2>2, <2>3
<1>13. /\ io'.delivered + Held(d', io') <= io.delivered + Held(d, io) + n
       /\ Window(d', io') <= Window(d, io)
       /\ StdinLive' => Window(d', io') = Window(d, io)
  <2> DEFINE owed == d.credit_pending
             t == Total(io.credits)
             u == io.uncredited
             win == d.in_window
             h == Held(d, io)
             hh == Held(d', io')
             sent == io.delivered
  <2>1. owed \in Nat /\ t \in Nat /\ u \in Nat /\ win \in Nat /\ h \in Nat /\ sent \in Nat /\ n <= win
    BY <1>1, <1>11
  <2>2. hh = h + n \/ (hh = h /\ ~StdinLive')
    BY <1>12
  <2>3. Window(d', io') = (win - n) + owed + t + u + hh /\ Window(d, io) = win + owed + t + u + h
    <3>1. d'.in_window = win - n /\ d'.credit_pending = owed
      BY <1>5
    <3> HIDE DEF hh, h
    <3> QED
      BY <3>1, Zenon DEF Window, hh, h
  <2>4. io'.delivered = sent
    OBVIOUS
  <2> HIDE DEF owed, t, u, win, h, hh, sent
  <2>5. /\ sent + hh <= sent + h + n
        /\ (win - n) + owed + t + u + hh <= win + owed + t + u + h
        /\ StdinLive' => (win - n) + owed + t + u + hh = win + owed + t + u + h
    BY <2>1, <2>2
  <2> QED
    BY <2>3, <2>4, <2>5 DEF hh, h, sent
<1>14. StdinLive' => StdinLive
  BY <1>5 DEF StdinLive, has_child
<1> QED
  BY <1>5, <1>9, <1>10, <1>13, <1>14, Conserves

\* The child's stdin is given up, with what is in its queue.
LEMMA ConservesShed ==
  ASSUME Buffered, Slots(d'), SameSlots(d'), received' = received, DOMAIN io' = DOMAIN NoChild,
         io'.credits = io.credits, io'.uncredited = io.uncredited, io'.delivered = io.delivered,
         io'.out = io.out,
         (io'.rest = io.rest /\ io'.stdin_q = io.stdin_q) \/ (io'.rest = <<>> /\ io'.stdin_q = <<>>),
         d'.state = "BeforeOpen" => d.state = "BeforeOpen", EofSent', ~StdinLive'
  PROVE  Buffered'
<1>1. Pipes(io')
  <2>1. <<>> \in Seq(Nat) /\ <<>> \in Chunks /\ Len(<<>>) <= STDIN_QUEUE
    BY ChannelAssumption DEF Chunks
  <2> QED
    BY <2>1 DEF Buffered, Pipes
<1>2. /\ Len(io.rest) \in Nat /\ BytesIn(io.stdin_q) \in Nat /\ BytesIn(d.pending_stdin) \in Nat
      /\ BytesIn(d.pre_exec_stdin) \in Nat /\ Held(d, io) \in Nat /\ Held(d', io') \in Nat
      /\ Total(io.credits) \in Nat /\ io.uncredited \in Nat /\ d.in_window \in Nat /\ d.credit_pending \in Nat
      /\ io.delivered \in Nat /\ received \in Nat
  BY <1>1, Sizes DEF Buffered, Slots, Pipes
<1>3. Held(d', io') <= Held(d, io)
  <2>1. CASE io'.rest = io.rest /\ io'.stdin_q = io.stdin_q
    <3>1. Held(d', io') = Held(d, io)
      BY <2>1 DEF Held, SameSlots
    <3> QED
      BY <1>2, <3>1
  <2>2. CASE io'.rest = <<>> /\ io'.stdin_q = <<>>
    <3> DEFINE a == Len(io.rest)
               b == BytesIn(io.stdin_q)
               e == BytesIn(d.pending_stdin)
               f == BytesIn(d.pre_exec_stdin)
    <3>1. a \in Nat /\ b \in Nat /\ e \in Nat /\ f \in Nat
      BY <1>2
    <3>2. Len(io'.rest) = 0 /\ BytesIn(io'.stdin_q) = 0
      BY <2>2, BytesEmpty
    <3>3. Held(d', io') = 0 + 0 + e + f /\ Held(d, io) = a + b + e + f
      BY <3>2 DEF Held, SameSlots
    <3> HIDE DEF a, b, e, f
    <3> QED
      BY <3>1, <3>3
  <2> QED
    BY <2>1, <2>2
<1>4. Window(d', io') <= Window(d, io)
  <2> DEFINE a == d.in_window
             b == d.credit_pending
             t == Total(io.credits)
             u == io.uncredited
             h == Held(d, io)
             hh == Held(d', io')
  <2>1. a \in Nat /\ b \in Nat /\ t \in Nat /\ u \in Nat /\ h \in Nat /\ hh \in Nat /\ hh <= h
    BY <1>2, <1>3
  <2>2. Window(d', io') = a + b + t + u + hh /\ Window(d, io) = a + b + t + u + h
    BY DEF Window, SameSlots
  <2> HIDE DEF a, b, t, u, h, hh
  <2> QED
    BY <2>1, <2>2
<1>5. /\ received' = received + 0
      /\ io'.delivered + Held(d', io') <= io.delivered + Held(d, io) + 0
  BY <1>2, <1>3
<1> QED
  BY <1>1, <1>4, <1>5, Conserves

LEMMA ConservesClose ==
  ASSUME Core, Buffered, pc # "over", NEW m, NEW then, d.state # "BeforeOpen", on_channel_close(m, then),
         received' = received
  PROVE  Buffered'
<1>1. CASE d.state = "ServerClosed"
  <2> DEFINE dd == [d EXCEPT !.state = "Closed"]
  <2>1. Slots(dd) /\ SameSlots(dd) /\ dd.state = "Closed"
    BY DEF Buffered, Slots, SameSlots, new
  <2>2. continue(then, dd, <<>>) /\ io' = io
    BY <1>1 DEF on_channel_close
  <2> HIDE DEF dd
  <2>3. ~StdinLive'
    BY <2>1, <2>2 DEF StdinLive, continue
  <2> QED
    BY <2>1, <2>2, <2>3, ConservesOn
<1>2. CASE d.state # "ServerClosed"
  <2>1. /\ DOMAIN d' = DOMAIN new /\ d'.early_close = TRUE /\ d'.state = "Draining"
        /\ d'.in_window = d.in_window /\ d'.credit_pending = d.credit_pending
        /\ d'.out_window = d.out_window /\ d'.deferred = d.deferred
        /\ d'.pending_stdin = d.pending_stdin /\ d'.pre_exec_stdin = d.pre_exec_stdin
        /\ d'.client_eof = d.client_eof
    BY <1>2 DEF on_channel_close, continue, Buffered, Slots, new
  <2>2. /\ DOMAIN io' = DOMAIN NoChild /\ io'.out = io.out /\ io'.credits = io.credits
        /\ io'.uncredited = io.uncredited /\ io'.delivered = io.delivered
        /\ (io'.rest = io.rest /\ io'.stdin_q = io.stdin_q) \/ (io'.rest = <<>> /\ io'.stdin_q = <<>>)
    <3>1. CASE has_child
      <4>1. io' = kill(discard_output(close_stdin(io)))
        BY <1>2, <3>1 DEF on_channel_close
      <4> QED
        BY <3>1, <4>1 DEF Buffered, Pipes, NoChild, kill, discard_output, stdin_gone, close_stdin
    <3>2. CASE ~has_child
      BY <1>2, <3>2 DEF on_channel_close, Buffered, Pipes
    <3> QED
      BY <3>1, <3>2
  <2>3. Slots(d') /\ SameSlots(d')
    BY <2>1 DEF Buffered, Slots, SameSlots
  <2>4. EofSent' /\ ~StdinLive'
    BY <2>1 DEF EofSent, StdinLive
  <2> QED
    BY <2>1, <2>2, <2>3, <2>4, ConservesShed
<1> QED
  BY <1>1, <1>2

LEMMA ConservesInbound ==
  ASSUME Core, Buffered, pc # "over", NEW m \in ClientMsgs, NEW then, then # "over", handle_inbound(m, then)
  PROVE  Buffered'
<1> USE Message
<1>1. Slots(d) /\ SameSlots(d)
  BY DEF Buffered, SameSlots
<1>2. CASE m.kind = "open" /\ on_channel_open(m, then) /\ received' = received
  <2>1. CASE d.state # "BeforeOpen" \/ m.type # "session"
    BY <1>1, <1>2, <2>1, ConservesIdly DEF on_channel_open
  <2>2. CASE d.state = "BeforeOpen" /\ m.type = "session" /\ m.max_pkt = 0
    BY <1>2, <2>2, ConservesDisconnect DEF on_channel_open, protocol_disconnect
  <2>3. CASE d.state = "BeforeOpen" /\ m.type = "session" /\ m.max_pkt # 0
    <3> DEFINE dd == [d EXCEPT !.state = "Idle", !.out_window = m.window, !.in_window = INITIAL_WINDOW]
    <3>1. d' = dd /\ io' = io
      BY <1>2, <2>3 DEF on_channel_open, continue
    <3>2. /\ DOMAIN dd = DOMAIN new /\ dd.state = "Idle" /\ dd.out_window = m.window
          /\ dd.in_window = INITIAL_WINDOW /\ dd.credit_pending = d.credit_pending
          /\ dd.pending_stdin = d.pending_stdin /\ dd.pre_exec_stdin = d.pre_exec_stdin
          /\ dd.deferred = d.deferred /\ dd.client_eof = d.client_eof /\ dd.early_close = d.early_close
      BY <1>1 DEF Slots, new
    <3>3. m.window \in 0..MaxWindow
      BY <1>2, ChannelAssumption
    <3> HIDE DEF dd
    <3> QED
      BY <1>2, <2>3, <3>1, <3>2, <3>3, ConservesOpen
  <2> QED
    BY <2>1, <2>2, <2>3
<1>3. CASE protocol_disconnect /\ received' = received
  BY <1>3, ConservesDisconnect DEF protocol_disconnect
<1>4. CASE d.state # "BeforeOpen" /\ m.kind = "request" /\ on_channel_request(m, then) /\ received' = received
  <2>1. CASE starts_child(m) /\ start(m, then)
    BY <1>4, <2>1, ConservesStart DEF starts_child
  <2>2. ASSUME NEW granted, continue(then, [d EXCEPT !.pty = @ \/ granted], reply(m)), io' = io
        PROVE  Buffered'
    <3> DEFINE dd == [d EXCEPT !.pty = @ \/ granted]
    <3>1. Slots(dd) /\ SameSlots(dd) /\ dd.state = d.state
      BY <1>1 DEF Slots, SameSlots, new
    <3> HIDE DEF dd
    <3>2. continue(then, dd, reply(m))
      BY <2>2 DEF dd
    <3> QED
      BY <1>4, <2>2, <3>1, <3>2, ConservesIdly
  <2> QED
    BY <1>4, <2>1, <2>2 DEF on_channel_request
<1>5. CASE d.state # "BeforeOpen" /\ m.kind = "data" /\ on_channel_data(m, then)
  <2>1. CASE d.state = "ServerClosed"
    BY <1>1, <1>5, <2>1, ConservesIdly DEF on_channel_data
  <2>2. CASE d.state # "ServerClosed" /\ data_refused(m.len)
    BY <1>5, <2>2, ConservesDisconnect DEF on_channel_data, protocol_disconnect
  <2>3. CASE d.state # "ServerClosed" /\ ~data_refused(m.len)
    BY <1>5, <2>3, ConservesData DEF on_channel_data
  <2> QED
    BY <2>1, <2>2, <2>3
<1>6. CASE d.state # "BeforeOpen" /\ m.kind = "adjust" /\ on_window_adjust(m, then) /\ received' = received
  <2>1. CASE d.out_window + m.add > MaxWindow
    BY <1>6, <2>1, ConservesDisconnect DEF on_window_adjust, protocol_disconnect
  <2>2. CASE ~(d.out_window + m.add > MaxWindow)
    <3> DEFINE dd == [d EXCEPT !.out_window = @ + m.add]
    <3>1. dd.out_window \in 0..MaxWindow
      BY <1>1, <1>6, <2>2, ChannelAssumption, SMTT(30) DEF Slots, new
    <3>2. Slots(dd) /\ SameSlots(dd) /\ dd.state = d.state
      BY <1>1, <3>1 DEF Slots, SameSlots, new
    <3>3. continue(then, dd, <<>>) /\ io' = io
      BY <1>6, <2>2 DEF on_window_adjust
    <3> HIDE DEF dd
    <3> QED
      BY <1>6, <3>2, <3>3, ConservesIdly
  <2> QED
    BY <2>1, <2>2
<1>7. CASE d.state # "BeforeOpen" /\ m.kind = "eof" /\ on_channel_eof(m, then) /\ received' = received
  <2> DEFINE dd == [d EXCEPT !.client_eof = TRUE]
  <2>1. Slots(dd) /\ SameSlots(dd) /\ dd.state = d.state
    BY <1>1 DEF Slots, SameSlots, new
  <2>2. continue(then, dd, <<>>) /\ io' = io
    BY <1>7 DEF on_channel_eof
  <2> HIDE DEF dd
  <2> QED
    BY <1>7, <2>1, <2>2, ConservesIdly
<1>8. CASE d.state # "BeforeOpen" /\ m.kind = "close" /\ on_channel_close(m, then) /\ received' = received
  BY <1>8, ConservesClose
<1>9. CASE continue(then, d, reply(m)) /\ UNCHANGED <<io, received>>
  BY <1>1, <1>9, ConservesIdly
<1>10. CASE leave(d, <<>>) /\ received' = received
  BY <1>10, ConservesDisconnect
<1> QED
  BY <1>2, <1>3, <1>4, <1>5, <1>6, <1>7, <1>8, <1>9, <1>10 DEF handle_inbound

-----------------------------------------------------------------------------
(* The window at the head of the loop.                                       *)

\* Refilling the slot moves one chunk of the pre-exec buffer into it.
LEMMA Refills ==
  ASSUME NEW dd, Slots(dd)
  PROVE  /\ Slots(refilled(dd))
         /\ BytesIn(refilled(dd).pending_stdin) + BytesIn(refilled(dd).pre_exec_stdin)
              = BytesIn(dd.pending_stdin) + BytesIn(dd.pre_exec_stdin)
         /\ dd.pending_stdin = None /\ dd.pre_exec_stdin = <<>> => refilled(dd) = dd
         /\ refilled(dd).in_window = dd.in_window /\ refilled(dd).credit_pending = dd.credit_pending
         /\ refilled(dd).client_eof = dd.client_eof /\ refilled(dd).early_close = dd.early_close
         /\ refilled(dd).state = dd.state
<1>1. CASE dd.pending_stdin = None /\ dd.pre_exec_stdin # <<>>
  <2> DEFINE r == [dd EXCEPT !.pending_stdin = Some(Head(dd.pre_exec_stdin)), !.pre_exec_stdin = Tail(@)]
             s == Head(dd.pre_exec_stdin)
             t == Tail(dd.pre_exec_stdin)
  <2>1. s \in Seq(Nat) /\ t \in Chunks /\ BytesIn(dd.pre_exec_stdin) = Len(s) + BytesIn(t)
    BY <1>1, BytesTail DEF Slots
  <2>2. refilled(dd) = r
    BY <1>1 DEF refilled
  <2>3. /\ DOMAIN r = DOMAIN new /\ r.pending_stdin = Some(s) /\ r.pre_exec_stdin = t
        /\ r.in_window = dd.in_window /\ r.credit_pending = dd.credit_pending /\ r.out_window = dd.out_window
        /\ r.deferred = dd.deferred /\ r.state = dd.state
        /\ r.client_eof = dd.client_eof /\ r.early_close = dd.early_close
    BY DEF Slots, new
  <2> HIDE DEF r, s, t
  <2>4. Slots(r)
    BY <2>1, <2>3 DEF Slots
  <2>5. BytesIn(r.pending_stdin) = Len(s) /\ Len(s) \in Nat /\ BytesIn(t) \in Nat /\ BytesIn(dd.pending_stdin) = 0
    BY <1>1, <2>1, <2>3, BytesOption, BytesNat, BytesEmpty DEF None
  <2>6. BytesIn(r.pending_stdin) + BytesIn(r.pre_exec_stdin)
          = BytesIn(dd.pending_stdin) + BytesIn(dd.pre_exec_stdin)
    <3>1. BytesIn(r.pre_exec_stdin) = BytesIn(t)
      BY <2>3
    <3> QED
      BY <2>1, <2>5, <3>1
  <2> QED
    BY <1>1, <2>2, <2>3, <2>4, <2>6
<1>2. CASE ~(dd.pending_stdin = None /\ dd.pre_exec_stdin # <<>>)
  <2>1. refilled(dd) = dd
    BY <1>2 DEF refilled
  <2> QED
    BY <2>1
<1> QED
  BY <1>1, <1>2

\* What the hand-off keeps: nothing is lost while the child can be fed.
FedWell(dd, c) ==
  /\ Slots(dd) /\ Pipes(c)
  /\ dd.in_window = d.in_window /\ dd.credit_pending = d.credit_pending /\ dd.state = d.state
  /\ dd.early_close = d.early_close
  /\ c.credits = io.credits /\ c.uncredited = io.uncredited /\ c.delivered = io.delivered
  /\ c.child = io.child /\ c.stdin_pump = io.stdin_pump
  /\ Held(dd, c) <= Held(d, io) /\ Held(dd, io) <= Held(d, io)
  /\ StdinLive => Held(dd, c) = Held(d, io)
  /\ c.child # "none" /\ ~c.stdin_tx /\ ~dd.early_close =>
       dd.client_eof /\ dd.pending_stdin = None /\ dd.pre_exec_stdin = <<>>

LEMMA HandsOff ==
  ASSUME Buffered, pc # "over", NEW dd, Slots(dd), SameSlots(dd), dd.state = d.state,
         dd.client_eof = d.client_eof, dd.early_close = d.early_close
  PROVE  FedWell(handoff_stdin(dd), child_after_handoff(dd, handoff_stdin(dd)))
<1> DEFINE fed == handoff_stdin(dd)
           child == child_after_handoff(dd, fed)
           r == refilled(dd)
           q == BytesIn(io.stdin_q)
           rest == Len(io.rest)
           p == BytesIn(r.pending_stdin)
           e == BytesIn(r.pre_exec_stdin)
<1>1. /\ Slots(r) /\ r.in_window = d.in_window /\ r.credit_pending = d.credit_pending /\ r.state = d.state
      /\ r.client_eof = d.client_eof /\ r.early_close = d.early_close
      /\ d.pending_stdin = None /\ d.pre_exec_stdin = <<>> =>
           r.pending_stdin = None /\ r.pre_exec_stdin = <<>>
  BY Refills DEF SameSlots
<1>2. q \in Nat /\ rest \in Nat /\ p \in Nat /\ e \in Nat /\ Pipes(io)
  BY <1>1, Sizes DEF Buffered
<1>3. Held(d, io) = rest + q + p + e
  <2>1. p + e = BytesIn(d.pending_stdin) + BytesIn(d.pre_exec_stdin)
    BY Refills DEF SameSlots
  <2>2. BytesIn(d.pending_stdin) \in Nat /\ BytesIn(d.pre_exec_stdin) \in Nat
    BY Sizes DEF Buffered
  <2>3. Held(d, io) = rest + q + BytesIn(d.pending_stdin) + BytesIn(d.pre_exec_stdin)
    BY DEF Held
  <2> DEFINE a == BytesIn(d.pending_stdin)
             b == BytesIn(d.pre_exec_stdin)
  <2> HIDE DEF a, b, p, e, q, rest
  <2>4. p + e = a + b /\ a \in Nat /\ b \in Nat /\ Held(d, io) = rest + q + a + b
    BY <2>1, <2>2, <2>3 DEF a, b
  <2> QED
    BY <1>2, <2>4
<1>4. CASE ~has_child
  <2>1. fed = dd /\ child = io
    BY <1>4 DEF handoff_stdin, child_after_handoff, offered
  <2>2. Held(dd, io) = Held(d, io) /\ Held(d, io) \in Nat
    BY Sizes DEF Held, SameSlots, Buffered
  <2>3. /\ Held(dd, io) <= Held(d, io)
        /\ io.child = "none"
    BY <1>4, <2>2 DEF has_child
  <2>4. FedWell(dd, io)
    BY <1>2, <2>2, <2>3 DEF FedWell, SameSlots
  <2> QED
    BY <2>1, <2>4
<1>5. CASE has_child /\ r.pending_stdin # None /\ ~refuses_stdin(io)
  <2>1. PICK s \in Seq(Nat) : r.pending_stdin = Some(s)
    BY <1>1, <1>5 DEF Slots
  <2>2. fed = [r EXCEPT !.pending_stdin = None]
    BY <1>5 DEF handoff_stdin, handed_off, offered
  <2>3. /\ DOMAIN fed = DOMAIN new /\ fed.pending_stdin = None /\ fed.pre_exec_stdin = r.pre_exec_stdin
        /\ fed.in_window = r.in_window /\ fed.credit_pending = r.credit_pending /\ fed.state = r.state
        /\ fed.out_window = r.out_window /\ fed.deferred = r.deferred
        /\ fed.client_eof = r.client_eof /\ fed.early_close = r.early_close
    BY <1>1, <2>2 DEF Slots, new
  <2>4. Slots(fed)
    BY <1>1, <2>3 DEF Slots
  <2>5. Held(fed, io) = rest + q + 0 + e
    <3>1. BytesIn(fed.pending_stdin) = 0
      BY <2>3, BytesEmpty DEF None
    <3> HIDE DEF fed, r
    <3> QED
      BY <2>3, <3>1 DEF Held
  <2>6. Len(s) = p /\ FlattenSeq(r.pending_stdin) = s
    BY <2>1, BytesOption
  <2> DEFINE fedio == IF io.stdin_tx THEN [io EXCEPT !.stdin_q = Append(@, s)] ELSE io
  <2>7. child = IF eof_reached(fed) THEN close_stdin(fedio) ELSE fedio
    BY <1>5, <2>6 DEF child_after_handoff, offered, has_child
  <2>8. /\ DOMAIN child = DOMAIN NoChild /\ child.credits = io.credits /\ child.uncredited = io.uncredited
        /\ child.delivered = io.delivered /\ child.child = io.child /\ child.stdin_pump = io.stdin_pump
        /\ child.rest = io.rest /\ child.out = io.out
        /\ child.stdin_q = IF io.stdin_tx THEN Append(io.stdin_q, s) ELSE io.stdin_q
        /\ ~child.stdin_tx => ~io.stdin_tx \/ eof_reached(fed)
    <3> HIDE DEF fed, child
    <3> QED
      BY <1>2, <2>7 DEF Pipes, NoChild, close_stdin
  <2>9. /\ child.stdin_q \in Chunks /\ Len(child.stdin_q) <= STDIN_QUEUE
        /\ BytesIn(child.stdin_q) = IF io.stdin_tx THEN q + p ELSE q
    <3>1. CASE io.stdin_tx
      <4>1. Len(io.stdin_q) < STDIN_QUEUE /\ Len(io.stdin_q) \in Nat /\ io.stdin_q \in Chunks
        <5>1. io.stdin_q \in Chunks /\ STDIN_QUEUE \in Nat
          BY <1>2, ChannelAssumption DEF Pipes
        <5>2. Len(io.stdin_q) \in Nat
          BY <5>1 DEF Chunks
        <5>3. ~(Len(io.stdin_q) >= STDIN_QUEUE)
          BY <1>5, <3>1 DEF refuses_stdin, stdin_full
        <5> HIDE DEF fed, child, r
        <5> QED
          BY <5>1, <5>2, <5>3
      <4>2. /\ Append(io.stdin_q, s) \in Chunks /\ BytesIn(Append(io.stdin_q, s)) = q + p
        BY <2>6, <4>1, BytesAppend
      <4>3. Len(Append(io.stdin_q, s)) = Len(io.stdin_q) + 1
        BY <4>1 DEF Chunks
      <4> HIDE DEF child, fed, r, p, q
      <4> QED
        BY <2>8, <3>1, <4>1, <4>2, <4>3, ChannelAssumption
    <3>2. CASE ~io.stdin_tx
      BY <1>2, <2>8, <3>2 DEF Pipes
    <3> QED
      BY <3>1, <3>2
  <2>10. Pipes(child)
    <3> HIDE DEF child, fed, r, p, q
    <3> QED
      BY <1>2, <2>8, <2>9 DEF Pipes
  <2>11. Held(fed, child) = rest + (IF io.stdin_tx THEN q + p ELSE q) + 0 + e
    <3>1. BytesIn(fed.pending_stdin) = 0
      BY <2>3, BytesEmpty DEF None
    <3> HIDE DEF fed, r, child
    <3> QED
      BY <2>3, <2>8, <2>9, <3>1 DEF Held
  <2>12. ~io.stdin_tx => d.early_close
    BY <1>1, <1>5 DEF Buffered, EofSent, has_child
  <2>13. StdinLive => io.stdin_tx
    BY <2>12 DEF StdinLive
  <2>14. /\ Held(fed, child) <= Held(d, io) /\ Held(fed, io) <= Held(d, io)
         /\ StdinLive => Held(fed, child) = Held(d, io)
    <3> HIDE DEF fed, child, r, p, q, e, rest
    <3> QED
      BY <1>2, <1>3, <2>5, <2>11, <2>13
  <2>15. child.child # "none" /\ ~child.stdin_tx /\ ~fed.early_close =>
           fed.client_eof /\ fed.pending_stdin = None /\ fed.pre_exec_stdin = <<>>
    <3> HIDE DEF fed, child, r
    <3> QED
      BY <1>1, <2>3, <2>8, <2>12 DEF eof_reached
  <2>16. FedWell(fed, child)
    <3> HIDE DEF fed, child, r
    <3> QED
      BY <1>1, <2>3, <2>4, <2>8, <2>10, <2>14, <2>15 DEF FedWell
  <2> QED
    BY <2>16
<1>6. CASE has_child /\ (r.pending_stdin = None \/ refuses_stdin(io))
  <2>1. fed = r
    BY <1>6 DEF handoff_stdin, handed_off, offered
  <2>2. child = IF eof_reached(fed) THEN close_stdin(io) ELSE io
    BY <1>6 DEF child_after_handoff, offered, has_child
  <2>3. /\ DOMAIN child = DOMAIN NoChild /\ child.credits = io.credits /\ child.uncredited = io.uncredited
        /\ child.delivered = io.delivered /\ child.child = io.child /\ child.stdin_pump = io.stdin_pump
        /\ child.rest = io.rest /\ child.out = io.out /\ child.stdin_q = io.stdin_q
        /\ ~child.stdin_tx => ~io.stdin_tx \/ eof_reached(fed)
    <3> HIDE DEF fed, child
    <3> QED
      BY <1>2, <2>2 DEF Pipes, NoChild, close_stdin
  <2>4. Pipes(child)
    BY <1>2, <2>3 DEF Pipes
  <2>5. Held(fed, io) = Held(d, io) /\ Held(fed, child) = Held(d, io) /\ Held(d, io) \in Nat
    <3>1. Held(r, io) = rest + q + p + e
      BY DEF Held
    <3>2. Held(fed, child) = Held(fed, io)
      BY <2>3 DEF Held
    <3>3. Held(d, io) \in Nat
      BY Sizes DEF Buffered
    <3> HIDE DEF fed, child, r, p, q, e, rest
    <3> QED
      BY <1>3, <2>1, <3>1, <3>2, <3>3
  <2>6. child.child # "none" /\ ~child.stdin_tx /\ ~fed.early_close =>
           fed.client_eof /\ fed.pending_stdin = None /\ fed.pre_exec_stdin = <<>>
    <3>1. ~io.stdin_tx /\ ~d.early_close => d.client_eof /\ d.pending_stdin = None /\ d.pre_exec_stdin = <<>>
      BY <1>6 DEF Buffered, EofSent, has_child
    <3> HIDE DEF fed, child, r
    <3> QED
      BY <1>1, <2>1, <2>3, <3>1 DEF eof_reached
  <2>7. Held(fed, io) <= Held(d, io) /\ Held(fed, child) <= Held(d, io)
    <3> HIDE DEF fed, child
    <3> QED
      BY <2>5
  <2>8. FedWell(fed, child)
    <3> HIDE DEF fed, child, r
    <3> QED
      BY <1>1, <2>1, <2>3, <2>4, <2>5, <2>6, <2>7 DEF FedWell
  <2> QED
    BY <2>8
<1> QED
  BY <1>4, <1>5, <1>6

LEMMA ConservesFed ==
  ASSUME Buffered, pc # "over", received' = received, NEW f, FedWell(f, io'), Slots(d'),
         d'.in_window + d'.credit_pending = f.in_window + f.credit_pending,
         d'.pending_stdin = f.pending_stdin, d'.pre_exec_stdin = f.pre_exec_stdin,
         d'.client_eof = f.client_eof, d'.early_close = f.early_close,
         d'.state = f.state \/ d'.state \in {"ServerClosed", "Closed"}
  PROVE  Buffered'
<1>1. /\ Pipes(io') /\ f.in_window = d.in_window /\ f.credit_pending = d.credit_pending /\ f.state = d.state
      /\ f.early_close = d.early_close /\ io'.credits = io.credits /\ io'.uncredited = io.uncredited
      /\ io'.delivered = io.delivered /\ io'.child = io.child /\ io'.stdin_pump = io.stdin_pump
  BY DEF FedWell
<1>2. Held(d', io') = Held(f, io')
  BY DEF Held
<1>3. Held(d', io') <= Held(d, io) /\ (StdinLive => Held(d', io') = Held(d, io))
  BY <1>2 DEF FedWell
<1>4. EofSent'
  BY DEF FedWell, EofSent
<1>5. StdinLive' => StdinLive
  BY <1>1 DEF StdinLive, has_child
<1>6. d'.state = "BeforeOpen" => d.state = "BeforeOpen"
  BY <1>1
<1>7. /\ Held(d, io) \in Nat /\ Held(d', io') \in Nat /\ io.delivered \in Nat /\ received \in Nat
      /\ Total(io.credits) \in Nat /\ io.uncredited \in Nat
      /\ d.in_window \in Nat /\ d.credit_pending \in Nat /\ d'.in_window \in Nat /\ d'.credit_pending \in Nat
  BY <1>1, Sizes DEF Buffered, Slots, Pipes
<1>8. Window(d', io') <= Window(d, io) /\ (StdinLive' => Window(d', io') = Window(d, io))
  <2> DEFINE a == d.in_window
             b == d.credit_pending
             aa == d'.in_window
             bb == d'.credit_pending
             t == Total(io.credits)
             u == io.uncredited
             h == Held(d, io)
             hh == Held(d', io')
  <2>1. a \in Nat /\ b \in Nat /\ aa \in Nat /\ bb \in Nat /\ t \in Nat /\ u \in Nat /\ h \in Nat /\ hh \in Nat
    BY <1>7
  <2>2. aa + bb = a + b /\ hh <= h /\ (StdinLive' => hh = h)
    BY <1>1, <1>3, <1>5
  <2>3. Window(d', io') = aa + bb + t + u + hh /\ Window(d, io) = a + b + t + u + h
    BY <1>1 DEF Window
  <2> HIDE DEF a, b, aa, bb, t, u, h, hh
  <2>4. aa + bb + t + u + hh <= a + b + t + u + h /\ (StdinLive' => aa + bb + t + u + hh = a + b + t + u + h)
    BY <2>1, <2>2
  <2> QED
    BY <2>3, <2>4
<1>9. received' = received + 0 /\ io'.delivered + Held(d', io') <= io.delivered + Held(d, io) + 0
  BY <1>1, <1>3, <1>7
<1> QED
  BY <1>1, <1>4, <1>5, <1>6, <1>8, <1>9, Conserves

\* The credit goes back whole.
LEMMA Replenishes ==
  ASSUME NEW f, Slots(f)
  PROVE  LET r == replenish_window(f) IN
         /\ Slots(r) /\ r.in_window + r.credit_pending = f.in_window + f.credit_pending
         /\ r.pending_stdin = f.pending_stdin /\ r.pre_exec_stdin = f.pre_exec_stdin
         /\ r.client_eof = f.client_eof /\ r.early_close = f.early_close /\ r.state = f.state
<1> DEFINE r == replenish_window(f)
<1>1. /\ DOMAIN r = DOMAIN new /\ r.pending_stdin = f.pending_stdin /\ r.pre_exec_stdin = f.pre_exec_stdin
      /\ r.client_eof = f.client_eof /\ r.early_close = f.early_close /\ r.state = f.state
      /\ r.out_window = f.out_window /\ r.deferred = f.deferred
      /\ \/ r.in_window = f.in_window /\ r.credit_pending = f.credit_pending
         \/ r.in_window = f.in_window + f.credit_pending /\ r.credit_pending = 0
  BY DEF Slots, new, replenish_window
<1>2. f.in_window \in Nat /\ f.credit_pending \in Nat
  BY DEF Slots
<1> HIDE DEF r
<1>3. r.in_window \in Nat /\ r.credit_pending \in Nat
  BY <1>1, <1>2
<1>4. r.in_window + r.credit_pending = f.in_window + f.credit_pending
  BY <1>1, <1>2
<1>5. Slots(r)
  BY <1>1, <1>3 DEF Slots
<1>6. /\ Slots(r) /\ r.in_window + r.credit_pending = f.in_window + f.credit_pending
      /\ r.pending_stdin = f.pending_stdin /\ r.pre_exec_stdin = f.pre_exec_stdin
      /\ r.client_eof = f.client_eof /\ r.early_close = f.early_close /\ r.state = f.state
  BY <1>1, <1>4, <1>5
<1> QED
  BY <1>6 DEF r

LEMMA FlushSlots ==
  ASSUME DriverType, Slots(d)
  PROVE  /\ Slots(flush_output(d)) /\ SameSlots(flush_output(d)) /\ flush_output(d).state = d.state
         /\ flush_output(d).client_eof = d.client_eof /\ flush_output(d).early_close = d.early_close
<1> DEFINE n == IF may_emit_output(d.state) /\ d.pending_out # None
                THEN LeastOf(d.pending_out[1], d.out_window) ELSE 0
           dd == flush_output(d)
<1>1. n \in Nat /\ n <= d.out_window
  BY DEF DriverType, LeastOf, None, Some
<1>2. /\ DOMAIN dd = DOMAIN new /\ dd.state = d.state /\ dd.out_window = d.out_window - n
      /\ dd.pending_stdin = d.pending_stdin /\ dd.pre_exec_stdin = d.pre_exec_stdin
      /\ dd.client_eof = d.client_eof /\ dd.early_close = d.early_close
      /\ dd.in_window = d.in_window /\ dd.credit_pending = d.credit_pending /\ dd.deferred = d.deferred
  BY DEF DriverType, flush_output, new
<1> HIDE DEF n, dd
<1>3. dd.out_window \in 0..MaxWindow
  <2>1. d.out_window \in 0..MaxWindow /\ MaxWindow \in Nat
    BY ChannelAssumption DEF Slots
  <2> QED
    BY <1>1, <1>2, <2>1
<1>4. Slots(dd) /\ SameSlots(dd)
  BY <1>2, <1>3 DEF Slots, SameSlots
<1> QED
  BY <1>2, <1>4 DEF dd

LEMMA ConservesHead == ASSUME Core, Buffered, NEW due, head(due) PROVE Buffered'
<1> DEFINE flushed == flush_output(d)
           fed == handoff_stdin(flushed)
           dd == replenish_window(fed)
           child == child_after_handoff(flushed, fed)
           w == (IF flushed.bytes_sent > d.bytes_sent THEN <<"DATA">> ELSE <<>>)
                 \o (IF dd.in_window > fed.in_window THEN <<"WINDOW_ADJUST">> ELSE <<>>)
           ends == ready_to_close(dd)
           after == IF ends THEN send_terminal(dd) ELSE dd
           wrote == IF ends THEN w \o terminal_packets(dd) ELSE w
<1>1. pc # "over" /\ received' = received
  BY DEF head, clientVars
<1>2. \/ continue("select", dd, w \o <<"KEXINIT">>) /\ io' = child
      \/ leave(after, wrote)
      \/ continue("select", after, wrote) /\ io' = child
  BY DEF head
<1>3. FedWell(fed, child)
  <2>1. /\ Slots(flushed) /\ SameSlots(flushed) /\ flushed.state = d.state
        /\ flushed.client_eof = d.client_eof /\ flushed.early_close = d.early_close
    BY FlushSlots DEF Core, Buffered
  <2> HIDE DEF flushed
  <2> QED
    BY <1>1, <2>1, HandsOff
<1> HIDE DEF fed, child
<1>4. Slots(fed)
  BY <1>3 DEF FedWell
<1>5. /\ Slots(dd) /\ dd.in_window + dd.credit_pending = fed.in_window + fed.credit_pending
      /\ dd.pending_stdin = fed.pending_stdin /\ dd.pre_exec_stdin = fed.pre_exec_stdin
      /\ dd.client_eof = fed.client_eof /\ dd.early_close = fed.early_close /\ dd.state = fed.state
  BY <1>4, Replenishes
<1> HIDE DEF dd
<1>6. /\ Slots(after) /\ after.in_window + after.credit_pending = fed.in_window + fed.credit_pending
      /\ after.pending_stdin = fed.pending_stdin /\ after.pre_exec_stdin = fed.pre_exec_stdin
      /\ after.client_eof = fed.client_eof /\ after.early_close = fed.early_close
      /\ after.state = fed.state \/ after.state \in {"ServerClosed", "Closed"}
  <2>1. CASE ~ends
    BY <1>5, <2>1
  <2>2. CASE ends
    <3> DEFINE last == send_terminal(dd)
    <3>1. /\ DOMAIN last = DOMAIN new /\ last.state \in {"ServerClosed", "Closed"}
          /\ last.in_window = dd.in_window /\ last.credit_pending = dd.credit_pending
          /\ last.pending_stdin = dd.pending_stdin /\ last.pre_exec_stdin = dd.pre_exec_stdin
          /\ last.client_eof = dd.client_eof /\ last.early_close = dd.early_close
          /\ last.out_window = dd.out_window /\ last.deferred = dd.deferred
      BY <1>5 DEF Slots, new, send_terminal
    <3>2. after = last
      BY <2>2
    <3> HIDE DEF last, after
    <3>3. Slots(last)
      BY <1>5, <3>1 DEF Slots
    <3>4. last.in_window + last.credit_pending = fed.in_window + fed.credit_pending
      BY <1>5, <3>1
    <3> QED
      BY <1>5, <3>1, <3>2, <3>3, <3>4
  <2> QED
    BY <2>1, <2>2
<1> HIDE DEF after, wrote, w
<1>7. ASSUME NEW f, NEW x, continue("select", f, x), io' = child, Slots(f),
             f.in_window + f.credit_pending = fed.in_window + fed.credit_pending,
             f.pending_stdin = fed.pending_stdin, f.pre_exec_stdin = fed.pre_exec_stdin,
             f.client_eof = fed.client_eof, f.early_close = fed.early_close,
             f.state = fed.state \/ f.state \in {"ServerClosed", "Closed"}
      PROVE  Buffered'
  <2>1. d' = f
    BY <1>7 DEF continue
  <2> QED
    BY <1>1, <1>3, <1>7, <2>1, ConservesFed
<1>8. CASE continue("select", dd, w \o <<"KEXINIT">>) /\ io' = child
  BY <1>5, <1>7, <1>8
<1>9. CASE leave(after, wrote)
  <2>1. Held(after, io) = Held(fed, io)
    BY <1>6 DEF Held
  <2>2. Held(after, io) <= Held(d, io) /\ fed.in_window = d.in_window /\ fed.credit_pending = d.credit_pending
        /\ fed.state = d.state
    BY <1>3, <2>1 DEF FedWell
  <2>3. Window(after, io) <= Window(d, io)
    <3> DEFINE a == d.in_window
               b == d.credit_pending
               aa == after.in_window
               bb == after.credit_pending
               t == Total(io.credits)
               u == io.uncredited
               h == Held(d, io)
               hh == Held(after, io)
    <3>1. a \in Nat /\ b \in Nat /\ aa \in Nat /\ bb \in Nat /\ t \in Nat /\ u \in Nat /\ h \in Nat /\ hh \in Nat
      BY <1>6, Sizes DEF Buffered, Slots, Pipes
    <3>2. aa + bb = a + b /\ hh <= h
      BY <1>6, <2>2
    <3>3. Window(after, io) = aa + bb + t + u + hh /\ Window(d, io) = a + b + t + u + h
      BY DEF Window
    <3> HIDE DEF a, b, aa, bb, t, u, h, hh
    <3> QED
      BY <3>1, <3>2, <3>3
  <2>4. after.state = "BeforeOpen" => d.state = "BeforeOpen"
    BY <1>6, <2>2
  <2> QED
    BY <1>1, <1>6, <1>9, <2>2, <2>3, <2>4, ConservesLeave
<1>10. CASE continue("select", after, wrote) /\ io' = child
  BY <1>6, <1>7, <1>10
<1> QED
  BY <1>2, <1>8, <1>9, <1>10

LEMMA ConservesHeadDuringRekey == ASSUME Core, Buffered, head_during_rekey PROVE Buffered'
<1>1. /\ pc # "over" /\ received' = received /\ d' = handoff_stdin(d)
      /\ io' = child_after_handoff(d, handoff_stdin(d))
  BY DEF head_during_rekey, continue, clientVars
<1>2. Slots(d) /\ SameSlots(d)
  BY DEF Buffered, SameSlots
<1>3. FedWell(handoff_stdin(d), child_after_handoff(d, handoff_stdin(d)))
  BY <1>1, <1>2, HandsOff
<1>4. FedWell(d', io')
  BY <1>1, <1>3
<1>5. Slots(d')
  BY <1>4 DEF FedWell
<1> QED
  BY <1>1, <1>4, <1>5, ConservesFed
-----------------------------------------------------------------------------
(* The window in the other steps.                                            *)

LEMMA ConservesRead ==
  ASSUME Core, Control, Buffered, NEW m \in ClientMsgs, read_packet(m)
  PROVE  Buffered'
<1>1. pc # "over" /\ Slots(d) /\ SameSlots(d)
  BY DEF Buffered, SameSlots, read_packet
<1>2. CASE handle_inbound(m, "head")
  BY <1>1, <1>2, ConservesInbound
<1>3. CASE protocol_disconnect /\ received' = received
  BY <1>3, ConservesDisconnect DEF protocol_disconnect
<1>4. ASSUME NEW w, negotiate_rekey(m, w), received' = received PROVE Buffered'
  <2>1. \/ continue("head", d, w) /\ io' = io
        \/ leave(d, w \o <<"DISCONNECT">>)
    BY <1>4 DEF negotiate_rekey
  <2> QED
    BY <1>1, <1>4, <2>1, ConservesIdly, ConservesDisconnect
<1>5. ASSUME NEW then, NEW w, continue(then, d, w), io' = io, received' = received PROVE Buffered'
  BY <1>1, <1>5, ConservesIdly
<1>6. ASSUME NEW then, NEW q, continue(then, [d EXCEPT !.deferred = q], <<>>), io' = io,
             Len(q) <= MAX_DEFERRED, received' = received
      PROVE  Buffered'
  <2> DEFINE dd == [d EXCEPT !.deferred = q]
  <2>1. Slots(dd) /\ SameSlots(dd) /\ dd.state = d.state
    BY <1>1, <1>6 DEF Slots, SameSlots, new
  <2>2. continue(then, dd, <<>>)
    BY <1>6
  <2> HIDE DEF dd
  <2> QED
    BY <1>1, <1>6, <2>1, <2>2, ConservesIdly
<1>7. CASE pass_to_channel(m)
  <2>1. CASE passes(m)
    BY <1>2, <1>7, <2>1 DEF pass_to_channel
  <2>2. CASE ~passes(m) /\ Len(d.deferred) >= MAX_DEFERRED
    BY <1>3, <1>7, <2>2 DEF pass_to_channel
  <2>3. CASE ~passes(m) /\ ~(Len(d.deferred) >= MAX_DEFERRED)
    <3> DEFINE q == Append(d.deferred, m)
    <3>1. Len(q) = Len(d.deferred) + 1 /\ Len(d.deferred) \in Nat /\ MAX_DEFERRED \in Nat
      BY ChannelAssumption DEF Control
    <3>2. Len(q) <= MAX_DEFERRED
      <4> HIDE DEF q
      <4> QED
        BY <2>3, <3>1
    <3>3. continue("head", [d EXCEPT !.deferred = q], <<>>) /\ io' = io /\ received' = received
      BY <1>7, <2>3 DEF pass_to_channel
    <3> HIDE DEF q
    <3> QED
      BY <1>6, <3>2, <3>3
  <2> QED
    BY <2>1, <2>2, <2>3
<1>8. CASE continue(IF d.deferred = <<>> THEN "head" ELSE "drain", [d EXCEPT !.deferred = <<>>], <<>>)
             /\ io' = io /\ received' = received
  <2>1. Len(<<>>) <= MAX_DEFERRED
    BY ChannelAssumption
  <2> QED
    BY <1>6, <1>8, <2>1
<1>9. CASE rekey_active /\ step_rekey(m)
  BY <1>3, <1>4, <1>5, <1>7, <1>8, <1>9 DEF step_rekey
<1> QED
  BY <1>2, <1>4, <1>9 DEF read_packet

LEMMA ConservesDrain == ASSUME Core, Control, Buffered, drain_deferred PROVE Buffered'
<1>1. Head(draining) \in ClientMsgs /\ pc # "over"
  BY DEF drain_deferred, Control
<1>2. (IF Len(draining) = 1 THEN "head" ELSE "drain") # "over"
  OBVIOUS
<1> QED
  BY <1>1, <1>2, ConservesInbound DEF drain_deferred

LEMMA ConservesOutput ==
  ASSUME Core, Buffered, recv_out_data \/ recv_out_exited \/ recv_out_closed
  PROVE  Buffered'
<1>1. /\ pc # "over" /\ received' = received /\ may_emit_output(d.state)
      /\ \/ io' = io
         \/ io' = [io EXCEPT !.out = Tail(@)] /\ io.out # <<>>
      /\ \/ d' = d
         \/ \E p : d' = [d EXCEPT !.pending_out = p]
         \/ \E e : d' = [d EXCEPT !.exit_status = e, !.state = "Draining"]
         \/ d' = [d EXCEPT !.child_out_closed = TRUE]
  BY DEF recv_out_data, recv_out_exited, recv_out_closed, want_output, arm, continue, clientVars
<1>2. /\ DOMAIN d' = DOMAIN new /\ d'.state \in {d.state, "Draining"} /\ d'.in_window = d.in_window
      /\ d'.credit_pending = d.credit_pending /\ d'.out_window = d.out_window
      /\ d'.pending_stdin = d.pending_stdin /\ d'.pre_exec_stdin = d.pre_exec_stdin
      /\ d'.client_eof = d.client_eof /\ d'.early_close = d.early_close /\ d'.deferred = d.deferred
  BY <1>1 DEF Buffered, Slots, new
<1>3. /\ DOMAIN io' = DOMAIN NoChild /\ io'.child = io.child /\ io'.stdin_tx = io.stdin_tx
      /\ io'.stdin_pump = io.stdin_pump /\ io'.out \in {io.out, Tail(io.out)} /\ SameStdin(io')
      /\ io'.out # io.out => io.out # <<>>
  BY <1>1 DEF Buffered, Pipes, NoChild, SameStdin
<1>4. Len(io'.out) <= OUT_QUEUE
  <2>1. CASE io'.out = io.out
    BY <2>1 DEF Buffered, Pipes
  <2>2. CASE io'.out = Tail(io.out) /\ io.out # <<>>
    <3>1. io.out \in Seq(Nat) /\ OUT_QUEUE \in Nat
      BY ChannelAssumption DEF Core, ChildType
    <3>2. Len(Tail(io.out)) = Len(io.out) - 1 /\ Len(io.out) \in Nat
      BY <2>2, <3>1, EmptySeq
    <3>3. Len(io.out) <= OUT_QUEUE
      BY DEF Buffered, Pipes
    <3>4. Len(io.out) - 1 <= OUT_QUEUE
      BY <3>1, <3>2, <3>3
    <3> QED
      BY <2>2, <3>2, <3>4
  <2> QED
    BY <1>3, <2>1, <2>2
<1>5. Pipes(io')
  BY <1>3, <1>4 DEF Buffered, Pipes, SameStdin
<1>6. Slots(d') /\ SameSlots(d')
  BY <1>2 DEF Buffered, Slots, SameSlots
<1>7. StdinLive' => StdinLive
  BY <1>1, <1>2, <1>3 DEF StdinLive, has_child, may_emit_output
<1>8. d'.state = "BeforeOpen" => d.state = "BeforeOpen"
  BY <1>2
<1> QED
  BY <1>1, <1>3, <1>5, <1>6, <1>7, <1>8, ConservesSame

\* A credit moves from the pump's queue to the driver.
LEMMA ConservesConsumed == ASSUME Core, Buffered, recv_consumed PROVE Buffered'
<1>1. pc # "over" /\ received' = received
  BY DEF recv_consumed, arm, clientVars
<1>2. CASE arm([d EXCEPT !.consumed_closed = TRUE]) /\ UNCHANGED io
  <2> DEFINE dd == [d EXCEPT !.consumed_closed = TRUE]
  <2>1. Slots(dd) /\ SameSlots(dd) /\ dd.state = d.state
    BY DEF Buffered, Slots, SameSlots, new
  <2>2. continue("head", dd, <<>>) /\ io' = io
    BY <1>2 DEF arm
  <2> HIDE DEF dd
  <2> QED
    BY <1>1, <2>1, <2>2, ConservesIdly
<1>3. CASE /\ io.credits # <<>> /\ io' = [io EXCEPT !.credits = Tail(@)]
           /\ arm([d EXCEPT !.credit_pending = @ + Head(io.credits),
                            !.bytes_received = @ + Head(io.credits)])
  <2> DEFINE x == Head(io.credits)
             b == d.credit_pending
             t == Total(Tail(io.credits))
             u == io.uncredited
             win == d.in_window
             h == Held(d, io)
  <2>1. /\ x \in Nat /\ Tail(io.credits) \in Seq(Nat) /\ t \in Nat /\ Total(io.credits) = x + t
    <3>1. io.credits \in Seq(Nat)
      BY DEF Core, ChildType
    <3>2. Head(io.credits) \in Nat /\ Tail(io.credits) \in Seq(Nat)
      BY <1>3, <3>1
    <3> QED
      BY <1>3, <3>1, <3>2, TotalTail, TotalNat
  <2>2. b \in Nat /\ u \in Nat /\ win \in Nat /\ h \in Nat /\ io.delivered \in Nat /\ received \in Nat
    BY Sizes DEF Buffered, Slots, Pipes
  <2>3. /\ DOMAIN io' = DOMAIN NoChild /\ io'.child = io.child /\ io'.out = io.out
        /\ io'.credits = Tail(io.credits) /\ io'.uncredited = u /\ io'.delivered = io.delivered
        /\ io'.rest = io.rest /\ io'.stdin_q = io.stdin_q /\ io'.stdin_tx = io.stdin_tx
        /\ io'.stdin_pump = io.stdin_pump
    BY <1>3 DEF Buffered, Pipes, NoChild
  <2>4. /\ DOMAIN d' = DOMAIN new /\ d'.state = d.state /\ d'.out_window = d.out_window
        /\ d'.in_window = win /\ d'.credit_pending = b + x /\ d'.early_close = d.early_close
        /\ d'.client_eof = d.client_eof /\ d'.deferred = d.deferred
        /\ d'.pending_stdin = d.pending_stdin /\ d'.pre_exec_stdin = d.pre_exec_stdin
    BY <1>3 DEF Buffered, Slots, new, arm, continue
  <2>5. Held(d', io') = h /\ Window(d', io') = win + (b + x) + t + u + h
        /\ Window(d, io) = win + b + (x + t) + u + h
    <3>1. Held(d', io') = h
      BY <2>3, <2>4 DEF Held
    <3> HIDE DEF h, t, x
    <3>2. Total(io'.credits) = t
      BY <2>3 DEF t
    <3>3. Window(d', io') = win + (b + x) + t + u + h
      BY <2>3, <2>4, <3>1, <3>2 DEF Window
    <3>4. Window(d, io) = win + b + (x + t) + u + h
      BY <2>1 DEF Window, h
    <3> QED
      BY <3>1, <3>3, <3>4
  <2>6. EofSent' /\ (StdinLive' => StdinLive)
    BY <1>1, <2>3, <2>4 DEF Buffered, EofSent, StdinLive, has_child
  <2>7. b + x \in Nat
    BY <2>1, <2>2
  <2>8. Slots(d') /\ Pipes(io')
    BY <2>1, <2>3, <2>4, <2>7 DEF Buffered, Slots, Pipes
  <2> HIDE DEF x, b, t, u, win, h
  <2>9. Window(d', io') = Window(d, io) /\ Window(d', io') <= Window(d, io)
    BY <2>1, <2>2, <2>5
  <2>10. received' = received + 0 /\ io'.delivered + Held(d', io') <= io.delivered + Held(d, io) + 0
    BY <1>1, <2>2, <2>3, <2>5 DEF h
  <2>11. d'.state = "BeforeOpen" => d.state = "BeforeOpen"
    BY <2>4
  <2> QED
    BY <2>6, <2>8, <2>9, <2>10, <2>11, Conserves
<1> QED
  BY <1>2, <1>3 DEF recv_consumed

\* A task of the child that moves bytes along and loses none.
LEMMA ConservesTask ==
  ASSUME Buffered, d' = d, pc' = pc, received' = received, Pipes(io'),
         io'.stdin_tx = io.stdin_tx, io'.stdin_pump = io.stdin_pump,
         io'.child # "none" => io.child # "none",
         io'.delivered + Held(d, io') <= io.delivered + Held(d, io),
         Window(d, io') = Window(d, io)
  PROVE  Buffered'
<1>1. EofSent' /\ (StdinLive' => StdinLive)
  BY DEF Buffered, EofSent, StdinLive, has_child
<1>2. Slots(d') /\ Held(d', io') = Held(d, io') /\ Window(d', io') = Window(d, io)
  BY DEF Buffered, Held, Window
<1>3. Held(d, io') \in Nat /\ Held(d, io) \in Nat /\ Window(d, io) \in Nat /\ io.delivered \in Nat /\ received \in Nat
      /\ io'.delivered \in Nat
  BY Sizes DEF Buffered, Pipes
<1>4. received' = received + 0 /\ Window(d', io') <= Window(d, io)
      /\ io'.delivered + Held(d', io') <= io.delivered + Held(d, io) + 0
  BY <1>2, <1>3
<1>5. d'.state = "BeforeOpen" => d.state = "BeforeOpen"
  OBVIOUS
<1> QED
  BY <1>1, <1>2, <1>4, <1>5, Conserves

\* ... that leaves the child's input alone.
LEMMA ConservesAside ==
  ASSUME Buffered, d' = d, pc' = pc, received' = received, DOMAIN io' = DOMAIN NoChild,
         SameStdin(io'), Len(io'.out) <= OUT_QUEUE,
         io'.stdin_tx = io.stdin_tx, io'.stdin_pump = io.stdin_pump,
         io'.child # "none" => io.child # "none"
  PROVE  Buffered'
<1>1. Pipes(io')
  BY DEF Buffered, Pipes, SameStdin
<1>2. Held(d, io') = Held(d, io) /\ Window(d, io') = Window(d, io)
  BY DEF Held, Window, SameStdin
<1>3. io'.delivered = io.delivered /\ Held(d, io) \in Nat /\ io.delivered \in Nat
  BY Sizes DEF Buffered, Pipes, SameStdin
<1>4. io'.delivered + Held(d, io') <= io.delivered + Held(d, io)
  BY <1>2, <1>3
<1> QED
  BY <1>1, <1>2, <1>4, ConservesTask

LEMMA ConservesOutside ==
  ASSUME Core, Buffered, Child,
         ~(pump_stdin_recv \/ pump_stdin_credit \/ pump_stdin_fails \/ pump_stdin_eof),
         ~ \E n \in 1..INITIAL_WINDOW : pump_stdin_write(n),
         ~ \E failed \in BOOLEAN : pump_pty_ends(failed)
  PROVE  Buffered'
<1>1. d' = d /\ pc' = pc /\ received' = received
  BY DEF Child, pump_output, pump_output_eof, leader_exits, try_reap, report_exit, child_step, clientVars
<1>2. /\ \/ \E c : io' = [io EXCEPT !.pumps = c]
         \/ \E c : io.child # "none" /\ io' = [io EXCEPT !.child = c]
         \/ \E x \in Nat : /\ Len(io.out) < OUT_QUEUE
                           /\ \/ \E k : io' = [io EXCEPT !.out = Append(io.out, x), !.produced = k]
                              \/ \E c : io.child # "none" /\ io' = [io EXCEPT !.child = c, !.out = Append(io.out, x)]
  <2>1. ASSUME NEW s \in Streams, pump_output_eof(s)
        PROVE  \E c : io' = [io EXCEPT !.pumps = c]
    <3>1. io' = [io EXCEPT !.pumps[s] = "done"]
      BY <2>1 DEF pump_output_eof, child_step
    <3>2. io' = [io EXCEPT !.pumps = [io.pumps EXCEPT ![s] = "done"]]
      BY <3>1
    <3> QED
      BY <3>2
  <2>2. ASSUME NEW s \in Streams, NEW n \in 1..CHUNK, pump_output(s, n)
        PROVE  \E x \in Nat : Len(io.out) < OUT_QUEUE
                              /\ \E k : io' = [io EXCEPT !.out = Append(io.out, x), !.produced = k]
    <3>1. Len(io.out) < OUT_QUEUE /\ io' = [io EXCEPT !.out = Append(io.out, n), !.produced = io.produced + n]
          /\ n \in Nat
      BY <2>2 DEF pump_output, child_step
    <3> QED
      BY <3>1
  <2>3. CASE leader_exits \/ try_reap
    <3>1. io.child # "none" /\ (io' = [io EXCEPT !.child = "exited"] \/ io' = [io EXCEPT !.child = "reaped"])
      BY <2>3 DEF leader_exits, try_reap, child_step
    <3> QED
      BY <3>1
  <2>4. CASE report_exit
    <3>1. io.child # "none" /\ Len(io.out) < OUT_QUEUE /\ 0 \in Nat
          /\ io' = [io EXCEPT !.child = "reported", !.out = Append(io.out, 0)]
      BY <2>4 DEF report_exit, child_step, Exited
    <3> QED
      BY <3>1
  <2> QED
    BY <2>1, <2>2, <2>3, <2>4 DEF Child
<1>3. /\ DOMAIN io' = DOMAIN NoChild /\ SameStdin(io')
      /\ io'.stdin_tx = io.stdin_tx /\ io'.stdin_pump = io.stdin_pump
      /\ io'.child # "none" => io.child # "none"
      /\ io'.out = io.out \/ \E x \in Nat : Len(io.out) < OUT_QUEUE /\ io'.out = Append(io.out, x)
  BY <1>2 DEF Buffered, Pipes, NoChild, SameStdin
<1>4. Len(io'.out) <= OUT_QUEUE
  <2>1. CASE io'.out = io.out
    BY <2>1 DEF Buffered, Pipes
  <2>2. ASSUME NEW x \in Nat, Len(io.out) < OUT_QUEUE, io'.out = Append(io.out, x)
        PROVE  Len(io'.out) <= OUT_QUEUE
    <3>1. io.out \in Seq(Nat) /\ OUT_QUEUE \in Nat
      BY ChannelAssumption DEF Core, ChildType
    <3>2. Len(Append(io.out, x)) = Len(io.out) + 1 /\ Len(io.out) \in Nat
      BY <3>1
    <3>3. Len(io.out) + 1 <= OUT_QUEUE
      BY <2>2, <3>1, <3>2
    <3> QED
      BY <2>2, <3>2, <3>3
  <2> QED
    BY <1>3, <2>1, <2>2
<1> QED
  BY <1>1, <1>3, <1>4, ConservesAside

\* The pump takes a chunk from its queue.
LEMMA ConservesRecv == ASSUME Core, Buffered, pump_stdin_recv PROVE Buffered'
<1>1. /\ d' = d /\ pc' = pc /\ received' = received /\ io.rest = <<>> /\ io.stdin_q # <<>>
      /\ io' = [io EXCEPT !.rest = Head(io.stdin_q), !.stdin_q = Tail(@),
                          !.credits = IF io.on_pty /\ Head(io.stdin_q) = <<>> THEN Append(@, 0) ELSE @]
  BY DEF pump_stdin_recv, child_step, clientVars
<1>2. /\ DOMAIN io' = DOMAIN NoChild /\ io'.rest = Head(io.stdin_q) /\ io'.stdin_q = Tail(io.stdin_q)
      /\ io'.credits \in {io.credits, Append(io.credits, 0)} /\ io'.uncredited = io.uncredited
      /\ io'.delivered = io.delivered /\ io'.out = io.out /\ io'.child = io.child
      /\ io'.stdin_tx = io.stdin_tx /\ io'.stdin_pump = io.stdin_pump
  BY <1>1 DEF Buffered, Pipes, NoChild
<1>3. /\ io.stdin_q \in Chunks /\ io.credits \in Seq(Nat) /\ Len(io.stdin_q) <= STDIN_QUEUE /\ STDIN_QUEUE \in Nat
  BY ChannelAssumption DEF Buffered, Pipes
<1>4. /\ Head(io.stdin_q) \in Seq(Nat) /\ Tail(io.stdin_q) \in Chunks /\ Len(Tail(io.stdin_q)) = Len(io.stdin_q) - 1
      /\ BytesIn(io.stdin_q) = Len(Head(io.stdin_q)) + BytesIn(Tail(io.stdin_q)) /\ Len(io.stdin_q) \in Nat
  BY <1>1, <1>3, BytesTail DEF Chunks
<1>5. Append(io.credits, 0) \in Seq(Nat) /\ Total(Append(io.credits, 0)) = Total(io.credits) + 0
      /\ Total(io.credits) \in Nat
  BY <1>3, TotalAppend, TotalNat
<1>6. io'.credits \in Seq(Nat) /\ Total(io'.credits) = Total(io.credits)
  <2>1. Total(Append(io.credits, 0)) = Total(io.credits)
    BY <1>5
  <2> QED
    BY <1>2, <1>3, <1>5, <2>1
<1>7. Len(Tail(io.stdin_q)) <= STDIN_QUEUE
  BY <1>3, <1>4
<1>8. Pipes(io')
  BY <1>2, <1>4, <1>6, <1>7 DEF Buffered, Pipes
<1>9. Held(d, io') = Held(d, io)
  <2> DEFINE x == Len(Head(io.stdin_q))
             y == BytesIn(Tail(io.stdin_q))
             a == BytesIn(d.pending_stdin)
             b == BytesIn(d.pre_exec_stdin)
  <2>1. x \in Nat /\ y \in Nat /\ a \in Nat /\ b \in Nat /\ Len(io.rest) = 0
    BY <1>1, <1>4, BytesNat, Sizes DEF Buffered
  <2>2. Held(d, io') = x + y + a + b
    BY <1>2 DEF Held
  <2>3. Held(d, io) = 0 + (x + y) + a + b
    BY <1>4, <2>1 DEF Held
  <2> HIDE DEF x, y, a, b
  <2>4. x + y + a + b = 0 + (x + y) + a + b
    BY <2>1
  <2> QED
    BY <2>2, <2>3, <2>4
<1>10. Window(d, io') = Window(d, io)
  BY <1>2, <1>6, <1>9 DEF Window
<1>11. io'.delivered + Held(d, io') <= io.delivered + Held(d, io)
  <2>1. io.delivered \in Nat /\ Held(d, io) \in Nat
    BY Sizes DEF Buffered, Pipes
  <2> QED
    BY <1>2, <1>9, <2>1
<1> QED
  BY <1>1, <1>2, <1>8, <1>10, <1>11, ConservesTask

\* A write moves n bytes to the child; its length is still to be reported.
LEMMA ConservesWrite == ASSUME Core, Buffered, NEW n \in 1..INITIAL_WINDOW, pump_stdin_write(n) PROVE Buffered'
<1>1. /\ d' = d /\ pc' = pc /\ received' = received /\ io.uncredited = 0 /\ n <= Len(io.rest)
      /\ io' = [io EXCEPT !.rest = SubSeq(@, n + 1, Len(@)), !.delivered = @ + n, !.uncredited = n]
  BY DEF pump_stdin_write, child_step, clientVars
<1>2. /\ DOMAIN io' = DOMAIN NoChild /\ io'.rest = SubSeq(io.rest, n + 1, Len(io.rest))
      /\ io'.stdin_q = io.stdin_q /\ io'.credits = io.credits /\ io'.uncredited = n
      /\ io'.delivered = io.delivered + n /\ io'.out = io.out /\ io'.child = io.child
      /\ io'.stdin_tx = io.stdin_tx /\ io'.stdin_pump = io.stdin_pump
  BY <1>1 DEF Buffered, Pipes, NoChild
<1>3. n \in Nat /\ io.rest \in Seq(Nat) /\ Len(io.rest) \in Nat /\ io.delivered \in Nat
  BY DEF Buffered, Pipes
<1>4. io'.rest \in Seq(Nat) /\ Len(io'.rest) = Len(io.rest) - n
  <2>1. SubSeq(io.rest, n + 1, Len(io.rest)) \in Seq(Nat)
        /\ Len(SubSeq(io.rest, n + 1, Len(io.rest))) = Len(io.rest) - n
    BY <1>1, <1>3, SMTT(30)
  <2> QED
    BY <1>2, <2>1
<1>5. Pipes(io')
  <2>1. io.delivered + n \in Nat
    BY <1>3
  <2> QED
    BY <1>2, <1>3, <1>4, <2>1 DEF Buffered, Pipes
<1> DEFINE x == Len(io.rest)
           q == BytesIn(io.stdin_q)
           a == BytesIn(d.pending_stdin)
           b == BytesIn(d.pre_exec_stdin)
           h == Held(d, io)
           hh == Held(d, io')
           win == d.in_window
           owed == d.credit_pending
           t == Total(io.credits)
           sent == io.delivered
<1>6. /\ x \in Nat /\ q \in Nat /\ a \in Nat /\ b \in Nat /\ h \in Nat /\ hh \in Nat
      /\ win \in Nat /\ owed \in Nat /\ t \in Nat /\ sent \in Nat
  BY <1>5, Sizes DEF Buffered, Slots, Pipes
<1>7. h = x + q + a + b /\ hh = (x - n) + q + a + b
  BY <1>2, <1>4 DEF Held
<1>8. /\ Window(d, io) = win + owed + t + 0 + h /\ Window(d, io') = win + owed + t + n + hh
      /\ io'.delivered = sent + n
  <2>1. Window(d, io) = win + owed + t + 0 + h
    BY <1>1 DEF Window
  <2>2. Window(d, io') = win + owed + t + n + hh
    BY <1>2 DEF Window
  <2> QED
    BY <1>2, <2>1, <2>2
<1> HIDE DEF x, q, a, b, h, hh, win, owed, t, sent
<1>9. win + owed + t + n + hh = win + owed + t + 0 + h /\ (sent + n) + hh <= sent + h
  BY <1>3, <1>6, <1>7
<1>10. Window(d, io') = Window(d, io)
  BY <1>8, <1>9
<1>11. io'.delivered + Held(d, io') <= io.delivered + Held(d, io)
  BY <1>8, <1>9 DEF sent, h, hh
<1> QED
  BY <1>1, <1>2, <1>5, <1>10, <1>11, ConservesTask

LEMMA ConservesCredit == ASSUME Core, Buffered, pump_stdin_credit PROVE Buffered'
<1>1. /\ d' = d /\ pc' = pc /\ received' = received
      /\ io' = [io EXCEPT !.credits = Append(@, io.uncredited), !.uncredited = 0]
  BY DEF pump_stdin_credit, child_step, clientVars
<1>2. /\ DOMAIN io' = DOMAIN NoChild /\ io'.rest = io.rest /\ io'.stdin_q = io.stdin_q
      /\ io'.credits = Append(io.credits, io.uncredited) /\ io'.uncredited = 0
      /\ io'.delivered = io.delivered /\ io'.out = io.out /\ io'.child = io.child
      /\ io'.stdin_tx = io.stdin_tx /\ io'.stdin_pump = io.stdin_pump
  BY <1>1 DEF Buffered, Pipes, NoChild
<1> DEFINE u == io.uncredited
           t == Total(io.credits)
           h == Held(d, io)
           win == d.in_window
           owed == d.credit_pending
<1>3. io.credits \in Seq(Nat) /\ u \in Nat /\ t \in Nat /\ h \in Nat /\ win \in Nat /\ owed \in Nat
      /\ io.delivered \in Nat
  BY Sizes DEF Buffered, Slots, Pipes
<1>4. Append(io.credits, u) \in Seq(Nat) /\ Total(Append(io.credits, u)) = t + u
  BY <1>3, TotalAppend
<1>5. Pipes(io')
  BY <1>2, <1>4 DEF Buffered, Pipes
<1>6. Held(d, io') = h
  BY <1>2 DEF Held
<1>7. Window(d, io') = win + owed + (t + u) + 0 + h /\ Window(d, io) = win + owed + t + u + h
  <2>1. Window(d, io') = win + owed + (t + u) + 0 + h
    BY <1>2, <1>4, <1>6 DEF Window
  <2> QED
    BY <2>1 DEF Window
<1> HIDE DEF u, t, h, win, owed
<1>8. Window(d, io') = Window(d, io)
  BY <1>3, <1>7
<1>9. io'.delivered + Held(d, io') <= io.delivered + Held(d, io)
  BY <1>2, <1>3, <1>6 DEF h
<1> QED
  BY <1>1, <1>2, <1>5, <1>8, <1>9, ConservesTask

\* The pump ends, with what was in its queue.
LEMMA ConservesEnd ==
  ASSUME Core, Buffered,
         pump_stdin_fails \/ pump_stdin_eof \/ \E failed \in BOOLEAN : pump_pty_ends(failed)
  PROVE  Buffered'
<1>1. /\ d' = d /\ pc' = pc /\ received' = received
      /\ io.on_pty \/ io.rest # <<>> \/ io.stdin_pump = "open"
      /\ \/ io' = stdin_gone(io)
         \/ io' = [io EXCEPT !.stdin_pump = "done", !.saw_eof = TRUE]
         \/ io' = stdin_gone([io EXCEPT !.pumps["stdout"] = "done"])
         \/ io' = kill(stdin_gone([io EXCEPT !.pumps["stdout"] = "done"]))
  <2>1. CASE pump_stdin_fails \/ pump_stdin_eof
    BY <2>1 DEF pump_stdin_fails, pump_stdin_eof, child_step, clientVars
  <2>2. ASSUME NEW failed \in BOOLEAN, pump_pty_ends(failed)
        PROVE  /\ d' = d /\ pc' = pc /\ received' = received /\ io.on_pty
               /\ \/ io' = stdin_gone([io EXCEPT !.pumps["stdout"] = "done"])
                  \/ io' = kill(stdin_gone([io EXCEPT !.pumps["stdout"] = "done"]))
    BY <2>2 DEF pump_pty_ends, child_step, clientVars
  <2> QED
    BY <2>1, <2>2
<1>2. /\ DOMAIN io' = DOMAIN NoChild /\ io'.credits = io.credits /\ io'.uncredited = io.uncredited
      /\ io'.delivered = io.delivered /\ io'.out = io.out /\ io'.child = io.child
      /\ io'.stdin_tx = io.stdin_tx /\ io'.stdin_pump = "done"
      /\ (io'.rest = io.rest /\ io'.stdin_q = io.stdin_q) \/ (io'.rest = <<>> /\ io'.stdin_q = <<>>)
  BY <1>1 DEF Buffered, Pipes, NoChild, stdin_gone, kill
<1>3. d.state # "Idle"
  BY <1>1 DEF Core, NotStarted, Before, NoChild
<1>4. Slots(d') /\ SameSlots(d') /\ EofSent' /\ ~StdinLive'
  BY <1>1, <1>2, <1>3 DEF Buffered, SameSlots, EofSent, StdinLive
<1> QED
  BY <1>1, <1>2, <1>4, ConservesShed

LEMMA ConservesInit == Init => Buffered
<1> SUFFICES ASSUME Init PROVE Buffered
  OBVIOUS
<1>1. d = new /\ io = NoChild /\ received = 0
  BY DEF Init
<1>2. /\ DOMAIN d = DOMAIN new /\ d.state = "BeforeOpen" /\ d.in_window = 0 /\ d.credit_pending = 0
      /\ d.out_window = 0 /\ d.pending_stdin = None /\ d.pre_exec_stdin = <<>> /\ d.deferred = <<>>
  BY <1>1 DEF new
<1>3. /\ DOMAIN io = DOMAIN NoChild /\ io.child = "none" /\ io.credits = <<>> /\ io.uncredited = 0
      /\ io.delivered = 0 /\ io.rest = <<>> /\ io.stdin_q = <<>> /\ io.out = <<>>
  BY <1>1 DEF NoChild
<1>4. /\ <<>> \in Seq(Nat) /\ <<>> \in Chunks /\ Len(<<>>) = 0
      /\ 0 <= STDIN_QUEUE /\ 0 <= OUT_QUEUE /\ 0 <= MAX_DEFERRED /\ 0 \in 0..MaxWindow
  BY ChannelAssumption DEF Chunks
<1>5. Slots(d) /\ Pipes(io) /\ EofSent
  BY <1>2, <1>3, <1>4 DEF Slots, Pipes, EofSent
<1>6. Held(d, io) = 0
  BY <1>2, <1>3, <1>4, BytesEmpty DEF Held, None
<1>7. Window(d, io) = 0
  BY <1>2, <1>3, <1>6, TotalEmpty DEF Window
<1>8. ~StdinLive
  BY <1>2 DEF StdinLive
<1> QED
  BY <1>1, <1>2, <1>3, <1>5, <1>6, <1>7, <1>8 DEF Buffered

LEMMA ConservesStep == ASSUME IInv, Buffered, [Next]_vars PROVE Buffered'
<1>1. Core /\ Control
  BY DEF IInv
<1>2. CASE Driver
  BY <1>1, <1>2, ConservesHead, ConservesHeadDuringRekey, ConservesDrain, ConservesOutput,
     ConservesConsumed DEF Driver
<1>3. ASSUME NEW m \in ClientMsgs, read_packet(m) PROVE Buffered'
  BY <1>1, <1>3, ConservesRead
<1>4. CASE rekey_timeout \/ drop_driver
  BY <1>1, <1>4, ConservesDisconnect DEF rekey_timeout, drop_driver, clientVars
<1>5. CASE rekey_wake
  <2>1. Slots(d) /\ SameSlots(d) /\ pc # "over" /\ received' = received
    BY <1>5 DEF Buffered, SameSlots, rekey_wake, clientVars
  <2> QED
    BY <1>5, <2>1, ConservesIdly DEF rekey_wake
<1>6. CASE Child
  BY <1>1, <1>6, ConservesOutside, ConservesRecv, ConservesWrite, ConservesCredit, ConservesEnd
<1>7. CASE UNCHANGED vars
  BY <1>7 DEF vars, Buffered, Slots, Pipes, EofSent, Held, Window, StdinLive, has_child
<1> QED
  BY <1>2, <1>3, <1>4, <1>5, <1>6, <1>7 DEF Next, Finished

\* ADR-0023 for every window, batch and queue size: no buffer outgrows its
\* capacity, and each byte of the window is the client's to send, buffered, or
\* a credit on its way back (on_channel_data, handoff_stdin, replenish_window).
THEOREM BuffersAreExact == Spec => []BuffersExact
<1>1. IInv /\ Buffered => BuffersExact
  <2> SUFFICES ASSUME IInv, Buffered PROVE TypeOK /\ WindowConserved
    BY DEF BuffersExact
  <2>1. Outstanding = Window(d, io)
    <3>1. /\ Len(io.rest) \in Nat /\ BytesIn(io.stdin_q) \in Nat /\ BytesIn(d.pending_stdin) \in Nat
          /\ BytesIn(d.pre_exec_stdin) \in Nat /\ Total(io.credits) \in Nat /\ io.uncredited \in Nat
          /\ d.in_window \in Nat /\ d.credit_pending \in Nat
      BY Sizes DEF Buffered, Slots, Pipes
    <3> QED
      BY <3>1, SMTT(30) DEF Outstanding, Window, Held
  <2>2. WindowConserved
    BY <2>1 DEF Buffered, WindowConserved
  <2>3. Window(d, io) <= INITIAL_WINDOW /\ INITIAL_WINDOW \in Nat
    <3>1. INITIAL_WINDOW \in Nat /\ 0 <= INITIAL_WINDOW
      BY ChannelAssumption
    <3> QED
      BY <3>1 DEF Buffered
  <2>4. d.in_window \in 0..INITIAL_WINDOW /\ d.credit_pending \in 0..INITIAL_WINDOW
    <3> DEFINE a == d.in_window
               b == d.credit_pending
               t == Total(io.credits)
               u == io.uncredited
               h == Held(d, io)
    <3>1. a \in Nat /\ b \in Nat /\ t \in Nat /\ u \in Nat /\ h \in Nat
      BY Sizes DEF Buffered, Slots, Pipes
    <3>2. a + b + t + u + h <= INITIAL_WINDOW
      BY <2>3 DEF Window
    <3> HIDE DEF a, b, t, u, h
    <3>3. a \in 0..INITIAL_WINDOW /\ b \in 0..INITIAL_WINDOW
      BY <2>3, <3>1, <3>2
    <3> QED
      BY <3>3 DEF a, b
  <2>5. io.delivered \in 0..received
    <3>1. io.delivered \in Nat /\ received \in Nat /\ Held(d, io) \in Nat
          /\ io.delivered + Held(d, io) <= received
      BY Sizes DEF Buffered, Pipes
    <3> QED
      BY <3>1
  <2>6. Len(None) <= 1 /\ \A x : Len(Some(x)) <= 1
    <3>1. Len(<<>>) = 0 /\ \A x : Len(<<x>>) = 1
      OBVIOUS
    <3>2. 0 <= 1 /\ 1 <= 1
      OBVIOUS
    <3> QED
      BY <3>1, <3>2 DEF None, Some
  <2>7. Len(d.pending_out) <= 1 /\ Len(d.pending_stdin) <= 1
    BY <2>6 DEF IInv, Core, DriverType, Buffered, Slots
  <2>8. /\ d.out_window \in 0..MaxWindow /\ Len(d.deferred) <= MAX_DEFERRED
        /\ Len(io.out) <= OUT_QUEUE /\ Len(io.stdin_q) <= STDIN_QUEUE
    BY DEF Buffered, Slots, Pipes
  <2>9. /\ pc \in {"head", "due", "select", "drain", "over"} /\ phase \in Phases /\ d.state \in States
        /\ io.child \in {"none", "running", "exited", "reaped", "reported"}
        /\ pc = "drain" <=> draining # <<>> /\ pc # "over"
    BY DEF IInv, Core, DriverType, ChildType, Control
  <2> QED
    BY <2>2, <2>4, <2>5, <2>6, <2>7, <2>8, <2>9 DEF TypeOK
<1> QED
  BY <1>1, ConservesInit, ConservesStep, Invariance, PTL DEF Spec
-----------------------------------------------------------------------------
(* No lost wake-up.  A write of no bytes is never reported (pump_stdin), so  *)
(* this holds of clients that send no empty packet.                          *)

NoEmptyData == \A m \in ClientMsgs : m.kind = "data" => m.len > 0

\* ss holds no empty chunk.
Filled(ss) == \A i \in 1..Len(ss) : ss[i] # <<>>

AllFilled == Filled(d.pending_stdin) /\ Filled(d.pre_exec_stdin) /\ Filled(io.stdin_q)

LEMMA FilledBytes ==
  ASSUME NEW ss \in Chunks, Filled(ss)
  PROVE  BytesIn(ss) > 0 <=> ss # <<>>
<1>1. ss = <<>> => BytesIn(ss) = 0
  BY BytesEmpty
<1>2. ASSUME ss # <<>> PROVE BytesIn(ss) > 0
  <2>1. Head(ss) \in Seq(Nat) /\ Tail(ss) \in Chunks /\ BytesIn(ss) = Len(Head(ss)) + BytesIn(Tail(ss))
    BY <1>2, BytesTail
  <2>2. Len(ss) \in Nat \ {0} /\ Head(ss) = ss[1]
    BY <1>2, EmptySeq DEF Chunks
  <2>3. Head(ss) # <<>>
    BY <2>2 DEF Filled
  <2>4. Len(Head(ss)) \in Nat \ {0} /\ BytesIn(Tail(ss)) \in Nat
    BY <2>1, <2>3, EmptySeq, BytesNat
  <2> QED
    BY <2>1, <2>4
<1> QED
  BY <1>1, <1>2

LEMMA FilledEmpty == Filled(<<>>) /\ Filled(None)
  BY DEF Filled, None

LEMMA FilledSome == ASSUME NEW s, s # <<>> PROVE Filled(Some(s))
  BY DEF Filled, Some

LEMMA FilledAppend ==
  ASSUME NEW ss \in Chunks, Filled(ss), NEW s \in Seq(Nat), s # <<>>
  PROVE  Filled(Append(ss, s)) /\ Append(ss, s) # <<>>
<1>1. /\ Len(Append(ss, s)) = Len(ss) + 1 /\ Len(ss) \in Nat /\ Append(ss, s)[Len(ss) + 1] = s
      /\ \A i \in 1..Len(ss) : Append(ss, s)[i] = ss[i]
  BY DEF Chunks
<1>2. Append(ss, s) # <<>>
  <2>1. Len(<<>>) = 0 /\ Len(ss) + 1 # 0
    BY <1>1
  <2> QED
    BY <1>1, <2>1
<1>3. ASSUME NEW i \in 1..Len(ss) + 1 PROVE Append(ss, s)[i] # <<>>
  <2>1. i \in 1..Len(ss) \/ i = Len(ss) + 1
    BY <1>1
  <2> QED
    BY <1>1, <2>1 DEF Filled
<1> QED
  BY <1>1, <1>2, <1>3 DEF Filled

LEMMA FilledTail ==
  ASSUME NEW ss \in Chunks, Filled(ss), ss # <<>>
  PROVE  Filled(Tail(ss)) /\ Head(ss) # <<>> /\ Head(ss) \in Seq(Nat)
<1>1. Len(ss) \in Nat \ {0} /\ Head(ss) = ss[1]
  BY EmptySeq DEF Chunks
<1>2. Len(Tail(ss)) = Len(ss) - 1 /\ \A i \in 1..Len(ss) - 1 : Tail(ss)[i] = ss[i + 1]
  BY <1>1 DEF Chunks
<1>3. ASSUME NEW i \in 1..Len(ss) - 1 PROVE Tail(ss)[i] # <<>>
  <2>1. i + 1 \in 1..Len(ss)
    BY <1>1
  <2> QED
    BY <1>2, <2>1 DEF Filled
<1> QED
  BY <1>1, <1>2, <1>3 DEF Filled, Chunks

\* After a hand-off, what is left waits behind a chunk in the pump's queue.
LEMMA FeedsWell ==
  ASSUME Buffered, AllFilled, pc # "over", NEW dd, Slots(dd), SameSlots(dd),
         dd.client_eof = d.client_eof, dd.early_close = d.early_close
  PROVE  LET fed == handoff_stdin(dd)
             child == child_after_handoff(dd, fed)
         IN  /\ Filled(fed.pending_stdin) /\ Filled(fed.pre_exec_stdin) /\ Filled(child.stdin_q)
             /\ has_child /\ io.stdin_pump = "open" /\ ~d.early_close
                  /\ (fed.pending_stdin # None \/ fed.pre_exec_stdin # <<>>)
                => child.stdin_q # <<>>
<1> DEFINE fed == handoff_stdin(dd)
           child == child_after_handoff(dd, fed)
           r == refilled(dd)
<1>1. Slots(r)
  BY Refills
<1>2. DOMAIN dd = DOMAIN new /\ DOMAIN io = DOMAIN NoChild /\ io.stdin_q \in Chunks /\ dd.pre_exec_stdin \in Chunks
      /\ dd.pending_stdin = d.pending_stdin /\ dd.pre_exec_stdin = d.pre_exec_stdin
  BY DEF Slots, Buffered, Pipes, SameSlots
<1>3. /\ Filled(r.pending_stdin) /\ Filled(r.pre_exec_stdin)
      /\ r.pending_stdin = None => r.pre_exec_stdin = <<>>
      /\ d.pending_stdin = None /\ d.pre_exec_stdin = <<>> => r.pending_stdin = None
  <2>1. CASE dd.pending_stdin = None /\ dd.pre_exec_stdin # <<>>
    <3>1. r.pending_stdin = Some(Head(dd.pre_exec_stdin)) /\ r.pre_exec_stdin = Tail(dd.pre_exec_stdin)
      BY <1>2, <2>1 DEF refilled, new
    <3>2. Filled(Tail(dd.pre_exec_stdin)) /\ Head(dd.pre_exec_stdin) # <<>>
      BY <1>2, <2>1, FilledTail DEF AllFilled
    <3>3. Filled(Some(Head(dd.pre_exec_stdin))) /\ Some(Head(dd.pre_exec_stdin)) # None
      BY <3>2, FilledSome DEF Some, None
    <3> QED
      BY <1>2, <2>1, <3>1, <3>2, <3>3
  <2>2. CASE ~(dd.pending_stdin = None /\ dd.pre_exec_stdin # <<>>)
    <3>1. r = dd
      BY <2>2 DEF refilled
    <3> QED
      BY <1>2, <2>2, <3>1 DEF AllFilled
  <2> QED
    BY <2>1, <2>2
<1>4. CASE ~has_child
  <2>1. fed = dd /\ child = io
    BY <1>4 DEF handoff_stdin, child_after_handoff, offered
  <2> QED
    BY <1>2, <1>4, <2>1 DEF AllFilled
<1>5. CASE has_child /\ r.pending_stdin # None /\ ~refuses_stdin(io)
  <2>1. PICK s \in Seq(Nat) : r.pending_stdin = Some(s)
    BY <1>1, <1>5 DEF Slots
  <2>2. s # <<>> /\ FlattenSeq(r.pending_stdin) = s
    <3>1. Len(Some(s)) = 1 /\ Some(s)[1] = s
      BY DEF Some
    <3> QED
      BY <1>3, <2>1, <3>1, BytesOption DEF Filled
  <2>3. fed.pending_stdin = None /\ fed.pre_exec_stdin = r.pre_exec_stdin
    <3>1. fed = [r EXCEPT !.pending_stdin = None]
      BY <1>5 DEF handoff_stdin, handed_off, offered
    <3> QED
      BY <1>1, <3>1 DEF Slots, new
  <2>4. child.stdin_q = IF io.stdin_tx THEN Append(io.stdin_q, s) ELSE io.stdin_q
    <3> DEFINE fedio == IF io.stdin_tx THEN [io EXCEPT !.stdin_q = Append(@, s)] ELSE io
    <3>1. child = IF eof_reached(fed) THEN close_stdin(fedio) ELSE fedio
      BY <1>5, <2>2 DEF child_after_handoff, offered, has_child
    <3> HIDE DEF fed, child
    <3> QED
      BY <1>2, <3>1 DEF NoChild, close_stdin
  <2>5. Filled(Append(io.stdin_q, s)) /\ Append(io.stdin_q, s) # <<>>
    BY <1>2, <2>2, FilledAppend DEF AllFilled
  <2>6. ~d.early_close => io.stdin_tx
    BY <1>3, <1>5 DEF Buffered, EofSent, has_child
  <2> HIDE DEF fed, child, r
  <2> QED
    BY <1>3, <2>3, <2>4, <2>5, <2>6, FilledEmpty DEF AllFilled, fed, child
<1>6. CASE has_child /\ (r.pending_stdin = None \/ refuses_stdin(io))
  <2>1. fed = r
    BY <1>6 DEF handoff_stdin, handed_off, offered
  <2>2. child = IF eof_reached(fed) THEN close_stdin(io) ELSE io
    BY <1>6 DEF child_after_handoff, offered, has_child
  <2>3. child.stdin_q = io.stdin_q
    <3> HIDE DEF fed, child
    <3> QED
      BY <1>2, <2>2 DEF NoChild, close_stdin
  <2>4. io.stdin_pump = "open" /\ refuses_stdin(io) => io.stdin_q # <<>>
    <3>1. Len(<<>>) = 0 /\ ~(0 >= STDIN_QUEUE)
      BY ChannelAssumption
    <3> QED
      BY <3>1 DEF refuses_stdin, stdin_full
  <2>5. r.pending_stdin # None \/ r.pre_exec_stdin # <<>> => refuses_stdin(io)
    BY <1>3, <1>6
  <2> HIDE DEF child, r
  <2> QED
    BY <1>3, <2>1, <2>3, <2>4, <2>5 DEF AllFilled, fed, child
<1> QED
  BY <1>4, <1>5, <1>6

LEMMA FilledSame ==
  ASSUME AllFilled, d'.pending_stdin = d.pending_stdin, d'.pre_exec_stdin = d.pre_exec_stdin,
         io'.stdin_q \in {io.stdin_q, <<>>}
  PROVE  AllFilled'
<1>1. Filled(d'.pending_stdin) /\ Filled(d'.pre_exec_stdin) /\ Filled(io'.stdin_q)
  BY FilledEmpty DEF AllFilled
<1> QED
  BY <1>1 DEF AllFilled, Filled

LEMMA FilledLeave ==
  ASSUME Buffered, AllFilled, NEW dd, DOMAIN dd = DOMAIN new, NEW w, leave(dd, w),
         Filled(dd.pending_stdin), Filled(dd.pre_exec_stdin)
  PROVE  AllFilled'
<1>1. d'.pending_stdin = dd.pending_stdin /\ d'.pre_exec_stdin = dd.pre_exec_stdin
  BY DEF leave, continue, emit_finished, new
<1>2. io'.stdin_q \in {io.stdin_q, <<>>}
  BY DEF Buffered, Pipes, leave, drop_io, kill, close_stdin, stdin_gone, discard_output, NoChild
<1>3. Filled(d'.pending_stdin) /\ Filled(d'.pre_exec_stdin) /\ Filled(io'.stdin_q)
  BY <1>1, <1>2, FilledEmpty DEF AllFilled
<1> QED
  BY <1>3 DEF AllFilled, Filled

LEMMA FilledDisconnect == ASSUME Buffered, AllFilled, NEW w, leave(d, w) PROVE AllFilled'
  BY FilledLeave DEF Buffered, Slots, AllFilled

LEMMA FilledStart ==
  ASSUME Core, Buffered, AllFilled, NEW m, NEW then, start(m, then), d.state = "Idle"
  PROVE  AllFilled'
<1> DEFINE accepted == [d EXCEPT !.command = TRUE, !.pty = FALSE]
           running == [accepted EXCEPT !.state = "Running"]
           failed == [accepted EXCEPT !.state = "Draining", !.exit_status = Some("127"),
                                      !.child_out_closed = TRUE, !.consumed_closed = TRUE]
<1>1. /\ accepted.pending_stdin = d.pending_stdin /\ accepted.pre_exec_stdin = d.pre_exec_stdin
      /\ running.pending_stdin = d.pending_stdin /\ running.pre_exec_stdin = d.pre_exec_stdin
      /\ failed.pending_stdin = d.pending_stdin /\ failed.pre_exec_stdin = d.pre_exec_stdin
      /\ DOMAIN accepted = DOMAIN new
  BY DEF Buffered, Slots, new
<1>2. \/ continue(then, running, reply(m)) /\ io' = spawn(d.pty)
      \/ continue(then, failed, reply(m)) /\ io' = io
      \/ leave(accepted, <<>>)
  BY DEF start
<1> HIDE DEF accepted, running, failed
<1>3. spawn(d.pty).stdin_q = <<>>
  BY DEF spawn, NoChild
<1>4. CASE leave(accepted, <<>>)
  BY <1>1, <1>4, FilledLeave DEF AllFilled
<1>5. CASE continue(then, running, reply(m)) /\ io' = spawn(d.pty)
  BY <1>1, <1>3, <1>5, FilledSame DEF continue
<1>6. CASE continue(then, failed, reply(m)) /\ io' = io
  BY <1>1, <1>6, FilledSame DEF continue
<1> QED
  BY <1>2, <1>4, <1>5, <1>6

LEMMA FilledData ==
  ASSUME Core, Buffered, AllFilled, NEW n \in Nat, n > 0, d' = stash(n), io' = io
  PROVE  AllFilled'
<1> DEFINE chunk == chunk_of(n)
<1>1. chunk \in Seq(Nat) /\ Len(chunk) = n /\ received \in Nat
  BY DEF chunk_of, Buffered
<1>2. chunk # <<>>
  <2>1. Len(<<>>) = 0
    OBVIOUS
  <2> HIDE DEF chunk
  <2> QED
    BY <1>1, <2>1
<1> HIDE DEF chunk
<1>3. /\ d'.pre_exec_stdin \in {d.pre_exec_stdin, Append(d.pre_exec_stdin, chunk)}
      /\ d'.pending_stdin \in {d.pending_stdin, Some(FlattenSeq(d.pending_stdin) \o chunk)}
  BY DEF Buffered, Slots, new, stash, chunk
<1>4. Filled(Append(d.pre_exec_stdin, chunk))
  BY <1>1, <1>2, FilledAppend DEF Buffered, Slots, AllFilled
<1>5. FlattenSeq(d.pending_stdin) \in Seq(Nat)
  <2>1. CASE d.pending_stdin = None
    <3>1. FlattenSeq(<<>>) = <<>> /\ <<>> \in Seq(Nat)
      BY DEF FlattenSeq
    <3> QED
      BY <2>1, <3>1 DEF None
  <2>2. CASE \E s \in Seq(Nat) : d.pending_stdin = Some(s)
    BY <2>2, BytesOption
  <2> QED
    BY <2>1, <2>2 DEF Buffered, Slots
<1>6. FlattenSeq(d.pending_stdin) \o chunk # <<>>
  <2> DEFINE s == FlattenSeq(d.pending_stdin)
  <2>0. s \in Seq(Nat) /\ chunk \in Seq(Nat)
    BY <1>1, <1>5
  <2> HIDE DEF s
  <2>1. Len(s \o chunk) = Len(s) + Len(chunk) /\ Len(s) \in Nat /\ Len(<<>>) = 0
    BY <2>0, ConcatProperties
  <2>2. Len(s) + n # 0
    BY <2>1
  <2>3. s \o chunk # <<>>
    BY <1>1, <2>1, <2>2
  <2> QED
    BY <2>3 DEF s
<1>7. Filled(Some(FlattenSeq(d.pending_stdin) \o chunk))
  BY <1>6, FilledSome
<1>8. Filled(d'.pending_stdin) /\ Filled(d'.pre_exec_stdin) /\ Filled(io'.stdin_q)
  BY <1>3, <1>4, <1>7 DEF AllFilled
<1> QED
  BY <1>8 DEF AllFilled, Filled

LEMMA FilledInbound ==
  ASSUME Core, Buffered, AllFilled, NoEmptyData, NEW m \in ClientMsgs, NEW then, handle_inbound(m, then)
  PROVE  AllFilled'
<1> USE Message
<1>1. DOMAIN d = DOMAIN new
  BY DEF Buffered, Slots
<1>2. ASSUME NEW w, continue(then, d, w), io' = io PROVE AllFilled'
  BY <1>2, FilledSame DEF continue
<1>3. CASE protocol_disconnect \/ leave(d, <<>>)
  BY <1>3, FilledDisconnect DEF protocol_disconnect
<1>4. CASE on_channel_open(m, then)
  <2>1. \/ continue(then, d, reply(m)) /\ io' = io
        \/ protocol_disconnect
        \/ d' = [d EXCEPT !.state = "Idle", !.out_window = m.window, !.in_window = INITIAL_WINDOW] /\ io' = io
    BY <1>4 DEF on_channel_open, continue
  <2>2. CASE d' = [d EXCEPT !.state = "Idle", !.out_window = m.window, !.in_window = INITIAL_WINDOW] /\ io' = io
    <3>1. d'.pending_stdin = d.pending_stdin /\ d'.pre_exec_stdin = d.pre_exec_stdin
      BY <1>1, <2>2 DEF new
    <3> QED
      BY <2>2, <3>1, FilledSame
  <2> QED
    BY <1>2, <1>3, <2>1, <2>2
<1>5. CASE on_channel_request(m, then)
  <2>1. CASE starts_child(m) /\ start(m, then)
    BY <2>1, FilledStart DEF starts_child
  <2>2. ASSUME NEW granted, continue(then, [d EXCEPT !.pty = @ \/ granted], reply(m)), io' = io
        PROVE  AllFilled'
    <3>1. d'.pending_stdin = d.pending_stdin /\ d'.pre_exec_stdin = d.pre_exec_stdin
      BY <1>1, <2>2 DEF new, continue
    <3> QED
      BY <2>2, <3>1, FilledSame
  <2> QED
    BY <1>5, <2>1, <2>2 DEF on_channel_request
<1>6. CASE m.kind = "data" /\ on_channel_data(m, then)
  <2>1. m.len \in Nat /\ m.len > 0
    BY <1>6, ChannelAssumption DEF NoEmptyData
  <2>2. CASE continue(then, d, <<>>) /\ io' = io
    BY <1>2, <2>2
  <2>3. CASE continue(then, stash(m.len), <<>>) /\ io' = io
    BY <2>1, <2>3, FilledData DEF continue
  <2> QED
    BY <1>3, <1>6, <2>2, <2>3 DEF on_channel_data
<1>7. CASE on_window_adjust(m, then)
  <2>1. CASE d' = [d EXCEPT !.out_window = @ + m.add] /\ io' = io
    <3>1. d'.pending_stdin = d.pending_stdin /\ d'.pre_exec_stdin = d.pre_exec_stdin
      BY <1>1, <2>1 DEF new
    <3> QED
      BY <2>1, <3>1, FilledSame
  <2> QED
    BY <1>3, <1>7, <2>1 DEF on_window_adjust, continue
<1>8. CASE on_channel_eof(m, then)
  <2>1. d' = [d EXCEPT !.client_eof = TRUE] /\ io' = io
    BY <1>8 DEF on_channel_eof, continue
  <2>2. d'.pending_stdin = d.pending_stdin /\ d'.pre_exec_stdin = d.pre_exec_stdin
    BY <1>1, <2>1 DEF new
  <2> QED
    BY <2>1, <2>2, FilledSame
<1>9. CASE on_channel_close(m, then)
  <2>1. d'.pending_stdin = d.pending_stdin /\ d'.pre_exec_stdin = d.pre_exec_stdin
    BY <1>1, <1>9 DEF new, on_channel_close, continue
  <2>2. io' = io \/ io' = kill(discard_output(close_stdin(io)))
    BY <1>9 DEF on_channel_close
  <2>3. io'.stdin_q \in {io.stdin_q, <<>>}
    BY <2>2 DEF Buffered, Pipes, NoChild, kill, discard_output, stdin_gone, close_stdin
  <2> QED
    BY <2>1, <2>3, FilledSame
<1> QED
  BY <1>2, <1>3, <1>4, <1>5, <1>6, <1>7, <1>8, <1>9 DEF handle_inbound

Moving == AllFilled /\ StdinKeepsMoving

\* Every step of the driver but the head of its loop leaves the select.
LEMMA MovingElsewhere == ASSUME AllFilled', pc' # "select" PROVE Moving'
  BY DEF Moving, StdinKeepsMoving

LEMMA InboundElsewhere ==
  ASSUME NEW m, NEW then, handle_inbound(m, then)
  PROVE  pc' \in {then, "over"}
<1>1. ASSUME NEW dd, NEW w, leave(dd, w) PROVE pc' = "over"
  BY <1>1 DEF leave, continue
<1>2. ASSUME NEW dd, NEW w, continue(then, dd, w) PROVE pc' = then
  BY <1>2 DEF continue
<1>3. CASE on_channel_open(m, then)
  BY <1>1, <1>2, <1>3 DEF on_channel_open, protocol_disconnect
<1>4. CASE on_channel_request(m, then)
  BY <1>1, <1>2, <1>4 DEF on_channel_request, start
<1>5. CASE on_channel_data(m, then)
  BY <1>1, <1>2, <1>5 DEF on_channel_data, protocol_disconnect
<1>6. CASE on_window_adjust(m, then)
  BY <1>1, <1>2, <1>6 DEF on_window_adjust, protocol_disconnect
<1>7. CASE on_channel_eof(m, then)
  BY <1>2, <1>7 DEF on_channel_eof
<1>8. CASE on_channel_close(m, then)
  BY <1>2, <1>8 DEF on_channel_close
<1> QED
  BY <1>1, <1>2, <1>3, <1>4, <1>5, <1>6, <1>7, <1>8 DEF handle_inbound, protocol_disconnect

\* At the head of the loop what cannot be handed over waits behind a chunk.
LEMMA MovingFed ==
  ASSUME Core, Buffered, AllFilled, pc # "over", NEW dd, Slots(dd), SameSlots(dd),
         dd.client_eof = d.client_eof, dd.early_close = d.early_close,
         io' = child_after_handoff(dd, handoff_stdin(dd)), FedWell(handoff_stdin(dd), io'),
         d'.pending_stdin = handoff_stdin(dd).pending_stdin,
         d'.pre_exec_stdin = handoff_stdin(dd).pre_exec_stdin,
         d'.early_close = d.early_close, d'.state = d.state \/ d'.state \in {"ServerClosed", "Closed"}
  PROVE  Moving'
<1> DEFINE fed == handoff_stdin(dd)
           child == child_after_handoff(dd, fed)
<1>1. /\ Filled(fed.pending_stdin) /\ Filled(fed.pre_exec_stdin) /\ Filled(child.stdin_q)
      /\ has_child /\ io.stdin_pump = "open" /\ ~d.early_close
           /\ (fed.pending_stdin # None \/ fed.pre_exec_stdin # <<>>)
         => child.stdin_q # <<>>
  BY FeedsWell
<1>2. io' = child
  OBVIOUS
<1>3. io'.child = io.child /\ io'.stdin_pump = io.stdin_pump /\ io'.stdin_q \in Chunks
  BY DEF FedWell, Pipes
<1> HIDE DEF fed, child
<1>4. Filled(d'.pending_stdin) /\ Filled(d'.pre_exec_stdin) /\ Filled(io'.stdin_q)
  BY <1>1, <1>2 DEF fed
<1>5. AllFilled'
  BY <1>4 DEF AllFilled, Filled
<1>6. ASSUME StdinLive', has_child', d'.pending_stdin # None \/ d'.pre_exec_stdin # <<>>
      PROVE  BytesIn(io'.stdin_q) > 0
  <2>1. has_child /\ io.stdin_pump = "open" /\ ~d.early_close
    <3>1. has_child
      BY <1>3, <1>6 DEF has_child
    <3>2. ~d.early_close
      BY <1>6 DEF StdinLive
    <3>3. d'.state # "Idle" => io.stdin_pump = "open"
      BY <1>3, <1>6 DEF StdinLive
    <3>4. d'.state # "Idle"
      BY <3>1 DEF Core, NotStarted, Before, has_child
    <3> QED
      BY <3>1, <3>2, <3>3, <3>4
  <2>2. io'.stdin_q # <<>>
    BY <1>1, <1>2, <1>6, <2>1 DEF fed
  <2> QED
    BY <1>3, <1>4, <2>2, FilledBytes
<1>7. BytesIn(io.stdin_q)' = BytesIn(io'.stdin_q)
  BY DEF BytesIn
<1>8. StdinKeepsMoving'
  BY <1>6, <1>7 DEF StdinKeepsMoving
<1> QED
  BY <1>5, <1>8 DEF Moving

LEMMA MovingHead == ASSUME Core, Buffered, AllFilled, NEW due, head(due) PROVE Moving'
<1> DEFINE flushed == flush_output(d)
           fed == handoff_stdin(flushed)
           dd == replenish_window(fed)
           child == child_after_handoff(flushed, fed)
           w == (IF flushed.bytes_sent > d.bytes_sent THEN <<"DATA">> ELSE <<>>)
                 \o (IF dd.in_window > fed.in_window THEN <<"WINDOW_ADJUST">> ELSE <<>>)
           ends == ready_to_close(dd)
           after == IF ends THEN send_terminal(dd) ELSE dd
           wrote == IF ends THEN w \o terminal_packets(dd) ELSE w
<1>1. pc # "over"
  BY DEF head
<1>2. \/ continue("select", dd, w \o <<"KEXINIT">>) /\ io' = child
      \/ leave(after, wrote)
      \/ continue("select", after, wrote) /\ io' = child
  BY DEF head
<1>3. /\ Slots(flushed) /\ SameSlots(flushed) /\ flushed.state = d.state
      /\ flushed.client_eof = d.client_eof /\ flushed.early_close = d.early_close
  BY FlushSlots DEF Core, Buffered
<1> HIDE DEF flushed
<1>4. FedWell(fed, child) /\ Filled(fed.pending_stdin) /\ Filled(fed.pre_exec_stdin)
  BY <1>1, <1>3, HandsOff, FeedsWell
<1>5. Slots(fed) /\ fed.state = d.state /\ fed.early_close = d.early_close
  BY <1>4 DEF FedWell
<1> HIDE DEF fed
<1>6. /\ Slots(dd) /\ dd.pending_stdin = fed.pending_stdin /\ dd.pre_exec_stdin = fed.pre_exec_stdin
      /\ dd.early_close = d.early_close /\ dd.state = d.state
  BY <1>5, Replenishes
<1> HIDE DEF dd
<1>7. /\ DOMAIN after = DOMAIN new
      /\ after.pending_stdin = fed.pending_stdin /\ after.pre_exec_stdin = fed.pre_exec_stdin
      /\ after.early_close = d.early_close
      /\ after.state = d.state \/ after.state \in {"ServerClosed", "Closed"}
  BY <1>6 DEF Slots, new, send_terminal
<1> HIDE DEF after, wrote, w, child
<1>8. ASSUME NEW f, NEW x, continue("select", f, x), io' = child,
             f.pending_stdin = fed.pending_stdin, f.pre_exec_stdin = fed.pre_exec_stdin,
             f.early_close = d.early_close, f.state = d.state \/ f.state \in {"ServerClosed", "Closed"}
      PROVE  Moving'
  <2>1. d' = f
    BY <1>8 DEF continue
  <2>2. io' = child_after_handoff(flushed, handoff_stdin(flushed)) /\ FedWell(handoff_stdin(flushed), io')
    BY <1>4, <1>8 DEF child, fed
  <2>3. d'.pending_stdin = handoff_stdin(flushed).pending_stdin
        /\ d'.pre_exec_stdin = handoff_stdin(flushed).pre_exec_stdin
    BY <1>8, <2>1 DEF fed
  <2> QED
    BY <1>1, <1>3, <1>8, <2>1, <2>2, <2>3, MovingFed
<1>9. CASE continue("select", dd, w \o <<"KEXINIT">>) /\ io' = child
  BY <1>6, <1>8, <1>9
<1>10. CASE leave(after, wrote)
  <2>1. AllFilled'
    BY <1>4, <1>7, <1>10, FilledLeave
  <2>2. pc' = "over"
    BY <1>10 DEF leave, continue
  <2> QED
    BY <2>1, <2>2, MovingElsewhere
<1>11. CASE continue("select", after, wrote) /\ io' = child
  BY <1>7, <1>8, <1>11
<1> QED
  BY <1>2, <1>9, <1>10, <1>11

LEMMA MovingHeadDuringRekey == ASSUME Core, Buffered, AllFilled, head_during_rekey PROVE Moving'
<1>1. /\ pc # "over" /\ d' = handoff_stdin(d) /\ io' = child_after_handoff(d, handoff_stdin(d))
  BY DEF head_during_rekey, continue
<1>2. Slots(d) /\ SameSlots(d)
  BY DEF Buffered, SameSlots
<1>3. FedWell(handoff_stdin(d), child_after_handoff(d, handoff_stdin(d)))
  BY <1>1, <1>2, HandsOff
<1>4. FedWell(handoff_stdin(d), io')
  BY <1>1, <1>3
<1>5. d'.early_close = d.early_close /\ d'.state = d.state
  BY <1>1, <1>4 DEF FedWell
<1> QED
  BY <1>1, <1>2, <1>4, <1>5, MovingFed

LEMMA MovingRead ==
  ASSUME Core, Buffered, AllFilled, NoEmptyData, NEW m \in ClientMsgs, read_packet(m)
  PROVE  Moving'
<1>1. DOMAIN d = DOMAIN new
  BY DEF Buffered, Slots
<1>2. CASE handle_inbound(m, "head")
  <2>1. pc' \in {"head", "over"}
    BY <1>2, InboundElsewhere
  <2> QED
    BY <1>2, <2>1, FilledInbound, MovingElsewhere
<1>3. ASSUME NEW w, leave(d, w) PROVE Moving'
  <2>1. pc' = "over"
    BY <1>3 DEF leave, continue
  <2> QED
    BY <1>3, <2>1, FilledDisconnect, MovingElsewhere
<1>4. ASSUME NEW then, then # "select", NEW dd, NEW w, continue(then, dd, w), io' = io,
             dd = d \/ \E q : dd = [d EXCEPT !.deferred = q]
      PROVE  Moving'
  <2>1. dd.pending_stdin = d.pending_stdin /\ dd.pre_exec_stdin = d.pre_exec_stdin
    BY <1>1, <1>4 DEF new
  <2>2. pc' # "select" /\ d' = dd
    BY <1>4 DEF continue
  <2> QED
    BY <1>4, <2>1, <2>2, FilledSame, MovingElsewhere
<1>5. ASSUME NEW w, negotiate_rekey(m, w) PROVE Moving'
  BY <1>3, <1>4, <1>5 DEF negotiate_rekey
<1>6. CASE rekey_active /\ step_rekey(m)
  <2>1. CASE pass_to_channel(m)
    BY <1>2, <1>3, <1>4, <2>1 DEF pass_to_channel, protocol_disconnect
  <2>2. CASE negotiate_rekey(m, <<>>)
    BY <1>5, <2>2
  <2>3. CASE (continue("head", d, <<>>) \/ continue("head", d, <<"HYBRID_REPLY", "NEWKEYS">>)) /\ io' = io
    BY <1>4, <2>3
  <2>4. CASE continue(IF d.deferred = <<>> THEN "head" ELSE "drain", [d EXCEPT !.deferred = <<>>], <<>>)
             /\ io' = io
    <3>1. (IF d.deferred = <<>> THEN "head" ELSE "drain") # "select"
      OBVIOUS
    <3> QED
      BY <1>4, <2>4, <3>1
  <2> QED
    BY <1>3, <1>6, <2>1, <2>2, <2>3, <2>4 DEF step_rekey, protocol_disconnect
<1> QED
  BY <1>2, <1>5, <1>6 DEF read_packet

LEMMA MovingDrain ==
  ASSUME Core, Control, Buffered, AllFilled, NoEmptyData, drain_deferred
  PROVE  Moving'
<1> DEFINE then == IF Len(draining) = 1 THEN "head" ELSE "drain"
<1>1. Head(draining) \in ClientMsgs /\ handle_inbound(Head(draining), then) /\ then # "select"
  BY DEF drain_deferred, Control
<1> HIDE DEF then
<1>2. AllFilled' /\ pc' \in {then, "over"}
  BY <1>1, FilledInbound, InboundElsewhere
<1> QED
  BY <1>1, <1>2, MovingElsewhere

LEMMA MovingArms ==
  ASSUME Buffered, AllFilled,
         \/ recv_out_data \/ recv_out_exited \/ recv_out_closed \/ recv_consumed
         \/ rekey_timeout \/ rekey_wake \/ drop_driver
  PROVE  Moving'
<1>1. DOMAIN d = DOMAIN new /\ DOMAIN io = DOMAIN NoChild
  BY DEF Buffered, Slots, Pipes
<1>2. CASE recv_out_data \/ recv_out_exited \/ recv_out_closed \/ recv_consumed \/ rekey_wake
  <2>1. /\ pc' # "select"
        /\ io' = io \/ io' = [io EXCEPT !.out = Tail(@)] \/ io' = [io EXCEPT !.credits = Tail(@)]
        /\ \/ d' = d
           \/ \E p : d' = [d EXCEPT !.pending_out = p]
           \/ \E e : d' = [d EXCEPT !.exit_status = e, !.state = "Draining"]
           \/ d' = [d EXCEPT !.child_out_closed = TRUE]
           \/ d' = [d EXCEPT !.consumed_closed = TRUE]
           \/ \E p, b : d' = [d EXCEPT !.credit_pending = p, !.bytes_received = b]
    BY <1>2 DEF recv_out_data, recv_out_exited, recv_out_closed, recv_consumed, rekey_wake, arm, continue
  <2>2. d'.pending_stdin = d.pending_stdin /\ d'.pre_exec_stdin = d.pre_exec_stdin
    BY <1>1, <2>1 DEF new
  <2>3. io'.stdin_q = io.stdin_q
    BY <1>1, <2>1 DEF NoChild
  <2> QED
    BY <2>1, <2>2, <2>3, FilledSame, MovingElsewhere
<1>3. CASE rekey_timeout \/ drop_driver
  <2>1. PICK w : leave(d, w)
    BY <1>3 DEF rekey_timeout, drop_driver
  <2>2. pc' = "over"
    BY <2>1 DEF leave, continue
  <2> QED
    BY <2>1, <2>2, FilledDisconnect, MovingElsewhere
<1> QED
  BY <1>2, <1>3

\* A chunk on its way to the child becomes a write, the write a credit.
LEMMA MovingChild == ASSUME Core, Buffered, Moving, Child PROVE Moving'
<1>1. d' = d /\ pc' = pc
  BY DEF Child, pump_output, pump_output_eof, pump_pty_ends, leader_exits, try_reap, report_exit, child_step,
         pump_stdin_recv, pump_stdin_credit, pump_stdin_fails, pump_stdin_eof, pump_stdin_write
<1>2. DOMAIN io = DOMAIN NoChild /\ io.stdin_q \in Chunks /\ io.credits \in Seq(Nat) /\ AllFilled
  BY DEF Buffered, Pipes, Moving
<1>3. CASE pump_stdin_fails \/ pump_stdin_eof \/ \E failed \in BOOLEAN : pump_pty_ends(failed)
  <2>1. \/ io' = stdin_gone(io)
        \/ io' = [io EXCEPT !.stdin_pump = "done", !.saw_eof = TRUE]
        \/ io' = stdin_gone([io EXCEPT !.pumps["stdout"] = "done"])
        \/ io' = kill(stdin_gone([io EXCEPT !.pumps["stdout"] = "done"]))
    BY <1>3 DEF pump_stdin_fails, pump_stdin_eof, pump_pty_ends, child_step
  <2>2. io'.child = io.child /\ io'.stdin_pump = "done" /\ io'.stdin_q \in {io.stdin_q, <<>>}
    BY <1>2, <2>1 DEF NoChild, stdin_gone, kill
  <2>3. AllFilled'
    BY <1>1, <1>2, <2>2, FilledSame
  <2>4. ~(StdinLive /\ has_child)'
    BY <1>1, <2>2 DEF StdinLive, has_child, Core, NotStarted, Before
  <2> QED
    BY <2>3, <2>4 DEF Moving, StdinKeepsMoving
<1>4. ASSUME io'.stdin_pump = io.stdin_pump, io'.child # "none" => io.child # "none", AllFilled',
             \/ io'.credits # <<>> \/ io'.uncredited > 0 \/ io'.rest # <<>>
             \/ /\ io'.credits = io.credits /\ io'.uncredited = io.uncredited /\ io'.rest = io.rest
                /\ io'.stdin_q = io.stdin_q
      PROVE  Moving'
  <2>1. (StdinLive /\ has_child)' => StdinLive /\ has_child
    BY <1>1, <1>4 DEF StdinLive, has_child
  <2>2. BytesIn(io.stdin_q)' = BytesIn(io'.stdin_q)
    BY DEF BytesIn
  <2>3. StdinKeepsMoving'
    BY <1>1, <1>4, <2>1, <2>2 DEF Moving, StdinKeepsMoving
  <2> QED
    BY <1>4, <2>3 DEF Moving
<1>5. CASE pump_stdin_recv
  <2>1. io' = [io EXCEPT !.rest = Head(io.stdin_q), !.stdin_q = Tail(@),
                         !.credits = IF io.on_pty /\ Head(io.stdin_q) = <<>> THEN Append(@, 0) ELSE @]
        /\ io.stdin_q # <<>>
    BY <1>5 DEF pump_stdin_recv, child_step
  <2>2. io'.rest = Head(io.stdin_q) /\ io'.stdin_q = Tail(io.stdin_q) /\ io'.child = io.child
        /\ io'.stdin_pump = io.stdin_pump
    BY <1>2, <2>1 DEF NoChild
  <2>3. Filled(Tail(io.stdin_q)) /\ Head(io.stdin_q) # <<>>
    BY <1>2, <2>1, FilledTail DEF AllFilled
  <2>4. Filled(d'.pending_stdin) /\ Filled(d'.pre_exec_stdin) /\ Filled(io'.stdin_q)
    BY <1>1, <1>2, <2>2, <2>3 DEF AllFilled
  <2>5. AllFilled'
    BY <2>4 DEF AllFilled, Filled
  <2> QED
    BY <1>4, <2>2, <2>3, <2>5
<1>6. ASSUME NEW n \in 1..INITIAL_WINDOW, pump_stdin_write(n) PROVE Moving'
  <2>1. io' = [io EXCEPT !.rest = SubSeq(@, n + 1, Len(@)), !.delivered = @ + n, !.uncredited = n]
    BY <1>6 DEF pump_stdin_write, child_step
  <2>2. io'.uncredited = n /\ io'.stdin_q = io.stdin_q /\ io'.child = io.child /\ io'.stdin_pump = io.stdin_pump
    BY <1>2, <2>1 DEF NoChild
  <2>3. n > 0
    BY ChannelAssumption
  <2>4. AllFilled'
    BY <1>1, <1>2, <2>2, FilledSame
  <2> QED
    BY <1>4, <2>2, <2>3, <2>4
<1>7. CASE pump_stdin_credit
  <2>1. io' = [io EXCEPT !.credits = Append(@, io.uncredited), !.uncredited = 0]
    BY <1>7 DEF pump_stdin_credit, child_step
  <2>2. io'.credits = Append(io.credits, io.uncredited) /\ io'.stdin_q = io.stdin_q
        /\ io'.child = io.child /\ io'.stdin_pump = io.stdin_pump
    BY <1>2, <2>1 DEF NoChild
  <2>3. Append(io.credits, io.uncredited) # <<>>
    <3>1. Len(Append(io.credits, io.uncredited)) = Len(io.credits) + 1 /\ Len(io.credits) \in Nat /\ Len(<<>>) = 0
      BY <1>2
    <3>2. Len(io.credits) + 1 # 0
      BY <3>1
    <3> QED
      BY <3>1, <3>2
  <2>4. AllFilled'
    BY <1>1, <1>2, <2>2, FilledSame
  <2> QED
    BY <1>4, <2>2, <2>3, <2>4
<1>8. CASE leader_exits \/ try_reap \/ report_exit
           \/ \E s \in Streams : pump_output_eof(s) \/ \E n \in 1..CHUNK : pump_output(s, n)
  <2>1. \/ \E s \in Streams : io' = [io EXCEPT !.pumps[s] = "done"]
        \/ \E c : io.child # "none" /\ io' = [io EXCEPT !.child = c]
        \/ \E o, k : io' = [io EXCEPT !.out = o, !.produced = k]
        \/ \E c, o : io.child # "none" /\ io' = [io EXCEPT !.child = c, !.out = o]
    BY <1>8 DEF leader_exits, try_reap, report_exit, pump_output_eof, pump_output, child_step
  <2>2. /\ io'.credits = io.credits /\ io'.uncredited = io.uncredited /\ io'.rest = io.rest
        /\ io'.stdin_q = io.stdin_q /\ io'.stdin_pump = io.stdin_pump
        /\ io'.child # "none" => io.child # "none"
    BY <1>2, <2>1 DEF NoChild
  <2>3. AllFilled'
    BY <1>1, <1>2, <2>2, FilledSame
  <2> QED
    BY <1>4, <2>2, <2>3
<1> QED
  BY <1>3, <1>5, <1>6, <1>7, <1>8 DEF Child

\* Whatever the sizes of window and queues, the driver never sleeps on input it
\* could hand over: a credit is queued or will be (handoff_stdin, pump_stdin).
THEOREM StdinIsNotStranded == ASSUME NoEmptyData PROVE Spec => []StdinKeepsMoving
<1>1. Init => Moving
  <2> SUFFICES ASSUME Init PROVE Moving
    OBVIOUS
  <2>1. pc = "head" /\ d.pending_stdin = None /\ d.pre_exec_stdin = <<>> /\ io.stdin_q = <<>>
    BY DEF Init, new, NoChild
  <2> QED
    BY <2>1, FilledEmpty DEF Moving, AllFilled, StdinKeepsMoving
<1>2. IInv /\ Buffered /\ Moving /\ [Next]_vars => Moving'
  <2> SUFFICES ASSUME IInv, Buffered, Moving, [Next]_vars PROVE Moving'
    OBVIOUS
  <2>1. Core /\ Control /\ AllFilled
    BY DEF IInv, Moving
  <2>2. CASE Driver
    BY <2>1, <2>2, MovingHead, MovingHeadDuringRekey, MovingDrain, MovingArms DEF Driver
  <2>3. ASSUME NEW m \in ClientMsgs, read_packet(m) PROVE Moving'
    BY <2>1, <2>3, MovingRead
  <2>4. CASE rekey_timeout \/ rekey_wake \/ drop_driver
    BY <2>1, <2>4, MovingArms
  <2>5. CASE Child
    BY <2>1, <2>5, MovingChild
  <2>6. CASE UNCHANGED vars
    BY <2>6 DEF vars, Moving, AllFilled, Filled, StdinKeepsMoving, StdinLive, has_child, BytesIn
  <2> QED
    BY <2>2, <2>3, <2>4, <2>5, <2>6 DEF Next, Finished
<1>3. Moving => StdinKeepsMoving
  BY DEF Moving
<1> QED
  BY <1>1, <1>2, <1>3, ConservesInit, ConservesStep, Invariance, PTL DEF Spec
-----------------------------------------------------------------------------
(* Stdin in order.  Chunks are cut, joined and moved from buffer to buffer;  *)
(* the bytes in them stay one line.                                          *)

\* Concatenation, by its laws.
Cat(s, t) == s \o t

LEMMA Associates ==
  ASSUME NEW s \in Seq(Nat), NEW t \in Seq(Nat), NEW u \in Seq(Nat)
  PROVE  (s \o t) \o u = s \o (t \o u)
  BY ConcatAssociative, SMTT(30)

LEMMA CatLaws ==
  /\ \A s, t \in Seq(Nat) : Cat(s, t) \in Seq(Nat)
  /\ \A s, t, u \in Seq(Nat) : Cat(Cat(s, t), u) = Cat(s, Cat(t, u))
  /\ \A s \in Seq(Nat) : Cat(s, <<>>) = s /\ Cat(<<>>, s) = s
<1>1. \A s, t \in Seq(Nat) : Cat(s, t) \in Seq(Nat)
  BY ConcatProperties DEF Cat
<1>2. ASSUME NEW s \in Seq(Nat), NEW t \in Seq(Nat), NEW u \in Seq(Nat)
      PROVE  Cat(Cat(s, t), u) = Cat(s, Cat(t, u))
  BY Associates DEF Cat
<1>3. \A s \in Seq(Nat) : Cat(s, <<>>) = s /\ Cat(<<>>, s) = s
  BY ConcatEmptySeq DEF Cat
<1> QED
  BY <1>1, <1>2, <1>3, Zenon

\* f holds the bytes of the first 0, 1, ... n chunks.
JoinsTo(f, ss, n) ==
  /\ f \in [0..n -> Seq(Nat)] /\ f[0] = <<>>
  /\ \A i \in 1..n : f[i] = f[i - 1] \o ss[i]

Joins(f, ss) == JoinsTo(f, ss, Len(ss))

LEMMA FlattenIsLast ==
  ASSUME NEW ss \in Chunks, NEW f, Joins(f, ss)
  PROVE  FlattenSeq(ss) = f[Len(ss)] /\ f[Len(ss)] \in Seq(Nat)
<1> DEFINE n == Len(ss)
<1>1. n \in Nat /\ \A i \in 1..n : ss[i] \in Seq(Nat)
  BY DEF Chunks
<1>2. f[n] \in Seq(Nat)
  BY <1>1 DEF Joins, JoinsTo
<1>3. CASE n = 0
  <2>1. ss = <<>>
    BY <1>3, EmptySeq DEF Chunks
  <2>2. FlattenSeq(ss) = ss
    BY <1>3 DEF FlattenSeq
  <2> QED
    BY <1>2, <1>3, <2>1, <2>2 DEF Joins, JoinsTo
<1>4. CASE n # 0
  <2> DEFINE c == CHOOSE g : g = [i \in 1..Len(ss) |-> IF i = 1 THEN ss[i] ELSE g[i - 1] \o ss[i]]
             w == [i \in 1..Len(ss) |-> f[i]]
  <2>1. FlattenSeq(ss) = c[Len(ss)]
    BY <1>4 DEF FlattenSeq
  <2>2. f[1] = ss[1]
    <3>1. 1 \in 1..n /\ 1 - 1 = 0
      BY <1>1, <1>4
    <3>2. f[1] = f[1 - 1] \o ss[1] /\ f[0] = <<>> /\ ss[1] \in Seq(Nat)
      BY <1>1, <3>1 DEF Joins, JoinsTo
    <3>3. f[1] = <<>> \o ss[1]
      BY <3>1, <3>2
    <3> QED
      BY <3>2, <3>3, ConcatEmptySeq
  <2>3. w = [i \in 1..Len(ss) |-> IF i = 1 THEN ss[i] ELSE w[i - 1] \o ss[i]]
    <3>1. ASSUME NEW i \in 1..n, i # 1 PROVE w[i] = w[i - 1] \o ss[i]
      <4>1. i - 1 \in 1..n
        BY <1>1, <3>1
      <4> QED
        BY <3>1, <4>1 DEF Joins, JoinsTo
    <3>2. \A i \in 1..n : w[i] = IF i = 1 THEN ss[i] ELSE w[i - 1] \o ss[i]
      BY <2>2, <3>1
    <3> QED
      BY <3>2
  <2> HIDE DEF w
  <2>4. c = [i \in 1..Len(ss) |-> IF i = 1 THEN ss[i] ELSE c[i - 1] \o ss[i]]
    BY <2>3
  <2> HIDE DEF c
  <2>5. \A i \in 1..n : c[i] = f[i]
    <3> DEFINE Bad == {i \in 1..n : c[i] # f[i]}
    <3> SUFFICES ASSUME Bad # {} PROVE FALSE
      OBVIOUS
    <3>1. PICK i \in Bad : \A k \in Bad : i <= k
      <4>1. Bad \subseteq Nat
        OBVIOUS
      <4> HIDE DEF Bad
      <4> QED
        BY <4>1, LeastNumber
    <3>2. i \in 1..n /\ c[i] # f[i]
      BY <3>1
    <3>3. i # 1
      <4>1. 1 \in 1..Len(ss) => c[1] = ss[1]
        BY <2>4
      <4> QED
        BY <2>2, <3>2, <4>1
    <3>4. i - 1 \in 1..n /\ ~(i <= i - 1)
      BY <1>1, <3>2, <3>3
    <3>5. c[i - 1] = f[i - 1]
      <4>1. i - 1 \notin Bad
        <5> HIDE DEF Bad
        <5> QED
          BY <3>1, <3>4
      <4> QED
        BY <3>4, <4>1
    <3>6. c[i] = c[i - 1] \o ss[i]
      BY <2>4, <3>2, <3>3
    <3>7. f[i] = f[i - 1] \o ss[i]
      BY <3>2 DEF Joins, JoinsTo
    <3> QED
      BY <3>2, <3>5, <3>6, <3>7
  <2>6. n \in 1..n
    BY <1>1, <1>4
  <2> QED
    BY <1>2, <2>1, <2>5, <2>6
<1> QED
  BY <1>3, <1>4

LEMMA PrefixesExist == ASSUME NEW ss \in Chunks PROVE \E f : Joins(f, ss)
<1> DEFINE len == Len(ss)
           Bad == {n \in 0..len : ~ \E f : JoinsTo(f, ss, n)}
<1>1. len \in Nat /\ \A i \in 1..len : ss[i] \in Seq(Nat)
  BY DEF Chunks
<1>2. Bad = {}
  <2> SUFFICES ASSUME Bad # {} PROVE FALSE
    OBVIOUS
  <2>1. PICK n \in Bad : \A k \in Bad : n <= k
    <3>1. Bad \subseteq Nat
      OBVIOUS
    <3> HIDE DEF Bad
    <3> QED
      BY <3>1, LeastNumber
  <2>2. n \in 0..len /\ ~ \E f : JoinsTo(f, ss, n)
    BY <2>1
  <2>3. n # 0
    <3> DEFINE z == [i \in 0..0 |-> <<>>]
    <3>1. z \in [0..0 -> Seq(Nat)] /\ z[0] = <<>> /\ \A i \in 1..0 : FALSE
      OBVIOUS
    <3>2. JoinsTo(z, ss, 0)
      BY <3>1 DEF JoinsTo
    <3> QED
      BY <2>2, <3>2
  <2>4. n - 1 \in 0..len /\ ~(n <= n - 1) /\ n \in 1..len
    BY <1>1, <2>2, <2>3
  <2>5. n - 1 \notin Bad
    <3> HIDE DEF Bad
    <3> QED
      BY <2>1, <2>4
  <2>6. PICK f : JoinsTo(f, ss, n - 1)
    BY <2>4, <2>5
  <2> DEFINE g == [i \in 0..n |-> IF i = n THEN f[n - 1] \o ss[n] ELSE f[i]]
  <2>7. f[n - 1] \in Seq(Nat) /\ f[n - 1] \o ss[n] \in Seq(Nat)
    <3>1. f[n - 1] \in Seq(Nat) /\ ss[n] \in Seq(Nat)
      BY <1>1, <2>4, <2>6 DEF JoinsTo
    <3> QED
      BY <3>1, ConcatProperties
  <2>8. g \in [0..n -> Seq(Nat)]
    <3>1. ASSUME NEW i \in 0..n PROVE g[i] \in Seq(Nat)
      <4>1. i # n => i \in 0..n - 1
        BY <2>4
      <4> QED
        BY <2>6, <2>7, <4>1 DEF JoinsTo
    <3> QED
      BY <3>1
  <2>9. g[0] = <<>>
    BY <2>4, <2>6 DEF JoinsTo
  <2>10. ASSUME NEW i \in 1..n PROVE g[i] = g[i - 1] \o ss[i]
    <3>1. i - 1 \in 0..n /\ i \in 0..n /\ i - 1 # n
      BY <2>4
    <3>2. g[i - 1] = f[i - 1]
      BY <3>1
    <3>3. CASE i = n
      BY <3>1, <3>2, <3>3
    <3>4. CASE i # n
      <4>1. i \in 1..n - 1
        BY <2>4, <3>4
      <4>2. f[i] = f[i - 1] \o ss[i]
        BY <2>6, <4>1 DEF JoinsTo
      <4> QED
        BY <3>1, <3>2, <3>4, <4>2
    <3> QED
      BY <3>3, <3>4
  <2> HIDE DEF g
  <2>11. JoinsTo(g, ss, n)
    BY <2>8, <2>9, <2>10 DEF JoinsTo
  <2> QED
    BY <2>2, <2>11
<1>3. \E f : JoinsTo(f, ss, len)
  BY <1>1, <1>2
<1> QED
  BY <1>3 DEF Joins

LEMMA FlattenType == ASSUME NEW ss \in Chunks PROVE FlattenSeq(ss) \in Seq(Nat)
  BY PrefixesExist, FlattenIsLast

LEMMA FlattenEmpty == FlattenSeq(<<>>) = <<>>
  BY DEF FlattenSeq

LEMMA FlattenAppend ==
  ASSUME NEW ss \in Chunks, NEW s \in Seq(Nat)
  PROVE  FlattenSeq(Append(ss, s)) = FlattenSeq(ss) \o s
<1> DEFINE more == Append(ss, s)
           n == Len(ss)
<1>1. more \in Chunks /\ Len(more) = n + 1 /\ n \in Nat /\ more[n + 1] = s
      /\ \A i \in 1..n : more[i] = ss[i]
  BY DEF Chunks
<1>2. PICK f : Joins(f, ss)
  BY PrefixesExist
<1>3. FlattenSeq(ss) = f[n] /\ f[n] \in Seq(Nat)
  BY <1>2, FlattenIsLast
<1> HIDE DEF more, n
<1> DEFINE g == [i \in 0..n + 1 |-> IF i = n + 1 THEN f[n] \o s ELSE f[i]]
<1>4. f[n] \o s \in Seq(Nat)
  BY <1>3, ConcatProperties
<1>5. f \in [0..n -> Seq(Nat)] /\ f[0] = <<>> /\ \A i \in 1..n : f[i] = f[i - 1] \o ss[i]
  BY <1>2 DEF Joins, JoinsTo, n
<1>6. g \in [0..n + 1 -> Seq(Nat)]
  <2>1. ASSUME NEW i \in 0..n + 1 PROVE g[i] \in Seq(Nat)
    <3>1. i # n + 1 => i \in 0..n
      BY <1>1
    <3> QED
      BY <1>4, <1>5, <3>1
  <2> QED
    BY <2>1
<1>7. g[0] = <<>> /\ g[n + 1] = f[n] \o s
  BY <1>1, <1>5
<1>8. ASSUME NEW i \in 1..n + 1 PROVE g[i] = g[i - 1] \o more[i]
  <2>1. i - 1 \in 0..n + 1 /\ i \in 0..n + 1 /\ i - 1 # n + 1
    BY <1>1
  <2>2. g[i - 1] = f[i - 1]
    BY <2>1
  <2>3. CASE i = n + 1
    <3>1. i - 1 = n
      BY <1>1, <2>3
    <3> QED
      BY <1>1, <1>7, <2>2, <2>3, <3>1
  <2>4. CASE i # n + 1
    <3>1. i \in 1..n
      BY <1>1, <2>4
    <3> QED
      BY <1>1, <1>5, <2>1, <2>2, <2>4, <3>1
  <2> QED
    BY <2>3, <2>4
<1> HIDE DEF g
<1>9. Joins(g, more)
  BY <1>1, <1>6, <1>7, <1>8 DEF Joins, JoinsTo
<1>10. FlattenSeq(more) = g[n + 1]
  BY <1>1, <1>9, FlattenIsLast
<1> QED
  BY <1>3, <1>7, <1>10 DEF more

LEMMA FlattenTail ==
  ASSUME NEW ss \in Chunks, ss # <<>>
  PROVE  FlattenSeq(ss) = Head(ss) \o FlattenSeq(Tail(ss))
<1> DEFINE less == Tail(ss)
           h == Head(ss)
           n == Len(less)
<1>1. less \in Chunks /\ n \in Nat /\ Len(ss) = n + 1 /\ ss[1] = h /\ h \in Seq(Nat)
      /\ \A i \in 1..n : less[i] = ss[i + 1] /\ less[i] \in Seq(Nat)
  BY DEF Chunks
<1>2. PICK g : Joins(g, less)
  BY <1>1, PrefixesExist
<1>3. FlattenSeq(less) = g[n] /\ g[n] \in Seq(Nat)
  BY <1>1, <1>2, FlattenIsLast
<1>4. g \in [0..n -> Seq(Nat)] /\ g[0] = <<>> /\ \A i \in 1..n : g[i] = g[i - 1] \o less[i]
  BY <1>2 DEF Joins, JoinsTo
<1> HIDE DEF less, n, h
<1> DEFINE f == [i \in 0..n + 1 |-> IF i = 0 THEN <<>> ELSE h \o g[i - 1]]
<1>5. \A i \in 0..n : h \o g[i] \in Seq(Nat)
  BY <1>1, <1>4, ConcatProperties
<1>6. f \in [0..n + 1 -> Seq(Nat)]
  <2>1. ASSUME NEW i \in 0..n + 1 PROVE f[i] \in Seq(Nat)
    <3>1. i # 0 => i - 1 \in 0..n
      BY <1>1
    <3>2. <<>> \in Seq(Nat)
      OBVIOUS
    <3> QED
      BY <1>5, <3>1, <3>2
  <2> QED
    BY <2>1
<1>7. f[0] = <<>> /\ \A i \in 1..n + 1 : f[i] = h \o g[i - 1]
  <2>1. 0 \in 0..n + 1 /\ \A i \in 1..n + 1 : i \in 0..n + 1 /\ i # 0
    BY <1>1
  <2> QED
    BY <2>1
<1> HIDE DEF f
<1>8. ASSUME NEW i \in 1..n + 1 PROVE f[i] = f[i - 1] \o ss[i]
  <2>1. CASE i = 1
    <3>1. h \o g[0] = h /\ <<>> \o ss[1] = h
      BY <1>1, <1>4, ConcatEmptySeq
    <3>2. 1 - 1 = 0
      OBVIOUS
    <3> QED
      BY <1>7, <2>1, <3>1, <3>2
  <2>2. CASE i # 1
    <3>1. i - 1 \in 1..n /\ i - 1 \in 1..n + 1 /\ (i - 1) + 1 = i /\ (i - 1) - 1 \in 0..n
      BY <1>1, <2>2
    <3>2. f[i - 1] = h \o g[(i - 1) - 1]
      BY <1>7, <3>1
    <3>3. g[i - 1] = g[(i - 1) - 1] \o ss[i]
      BY <1>1, <1>4, <3>1
    <3>4. ss[i] \in Seq(Nat) /\ g[(i - 1) - 1] \in Seq(Nat)
      <4>1. less[i - 1] = ss[(i - 1) + 1] /\ less[i - 1] \in Seq(Nat)
        BY <1>1, <3>1
      <4> QED
        BY <1>4, <3>1, <4>1
    <3> DEFINE a == g[(i - 1) - 1]
               b == ss[i]
    <3>5. h \o (a \o b) = (h \o a) \o b
      <4>1. h \in Seq(Nat) /\ a \in Seq(Nat) /\ b \in Seq(Nat)
        BY <1>1, <3>4
      <4> HIDE DEF a, b
      <4>2. Cat(Cat(h, a), b) = Cat(h, Cat(a, b))
        BY <4>1, CatLaws
      <4> QED
        BY <4>2 DEF Cat
    <3> QED
      BY <1>7, <3>2, <3>3, <3>5
  <2> QED
    BY <2>1, <2>2
<1>9. Joins(f, ss)
  BY <1>1, <1>6, <1>7, <1>8 DEF Joins, JoinsTo
<1>10. FlattenSeq(ss) = f[n + 1]
  BY <1>1, <1>9, FlattenIsLast
<1>11. n + 1 \in 1..n + 1 /\ (n + 1) - 1 = n
  BY <1>1
<1> QED
  BY <1>3, <1>7, <1>10, <1>11 DEF less, h

\* What the client sent and the child was not given, as dd and c hold it.
Line(dd, c) ==
  c.rest \o FlattenSeq(c.stdin_q) \o FlattenSeq(dd.pending_stdin) \o FlattenSeq(dd.pre_exec_stdin)

\* The bytes after the first a, up to the b-th.
Span(a, b) == [i \in 1..(b - a) |-> a + i]

\* Input still has a child to go to, or may get one.
Feeding ==
  /\ pc # "over" /\ ~d.early_close
  /\ d.state \in Before \/ (has_child /\ io.stdin_pump = "open")

InLine == Feeding => Line(d, io) = Span(io.delivered, received)

\* At most one chunk waits for the command, and never behind a filled slot.
Early(dd) ==
  /\ Len(dd.pre_exec_stdin) <= 1
  /\ dd.pending_stdin # None => dd.pre_exec_stdin = <<>>
  /\ dd.state \in Before => dd.pending_stdin = None

\* When the driver reads, that chunk is already in the slot or in the queue.
NoneBehind == pc = "select" /\ has_child => d.pre_exec_stdin = <<>>

EofLast ==
  io.saw_eof => io.stdin_pump = "done" /\ (~d.early_close => d.client_eof /\ io.delivered = received)

PumpGone ==
  /\ io.stdin_pump = "done" => io.rest = <<>>
  /\ pc = "over" => io.stdin_pump = "done"

Ordered == InLine /\ Early(d) /\ NoneBehind /\ EofLast /\ PumpGone

\* No data packet is held back: data passes during a re-key (pass_to_channel).
NoData(ms) == \A i \in 1..Len(ms) : ms[i].kind # "data"
HeldBack == NoData(d.deferred) /\ NoData(draining)

LEMMA LineParts ==
  ASSUME NEW dd, Slots(dd), NEW c, Pipes(c)
  PROVE  /\ c.rest \in Seq(Nat) /\ FlattenSeq(c.stdin_q) \in Seq(Nat)
         /\ FlattenSeq(dd.pending_stdin) \in Seq(Nat) /\ FlattenSeq(dd.pre_exec_stdin) \in Seq(Nat)
<1>1. c.stdin_q \in Chunks /\ dd.pending_stdin \in Chunks /\ dd.pre_exec_stdin \in Chunks /\ c.rest \in Seq(Nat)
  BY Sizes DEF Slots, Pipes
<1> QED
  BY <1>1, FlattenType

LEMMA SpanType ==
  ASSUME NEW a \in Nat, NEW b \in Nat, a <= b
  PROVE  Span(a, b) \in Seq(Nat) /\ Len(Span(a, b)) = b - a /\ \A i \in 1..b - a : Span(a, b)[i] = a + i
<1>1. b - a \in Nat
  OBVIOUS
<1>2. \A i \in 1..b - a : a + i \in Nat
  OBVIOUS
<1> QED
  BY <1>1, <1>2 DEF Span

\* Sequences of numbers that agree everywhere.
LEMMA SameBytes ==
  ASSUME NEW s \in Seq(Nat), NEW t \in Seq(Nat), NEW n \in Nat, Len(s) = n, Len(t) = n,
         \A i \in 1..n : s[i] = t[i]
  PROVE  s = t
  BY SeqEqual

LEMMA SpanExtends ==
  ASSUME NEW a \in Nat, NEW b \in Nat, NEW n \in Nat, a <= b
  PROVE  Span(a, b) \o Span(b, b + n) = Span(a, b + n)
<1> DEFINE s == Span(a, b)
           t == Span(b, b + n)
           u == Span(a, b + n)
           k == b - a
<1>0. k \in Nat /\ b + n \in Nat /\ b <= b + n /\ a <= b + n /\ (b + n) - b = n /\ (b + n) - a = k + n
  OBVIOUS
<1>1. s \in Seq(Nat) /\ Len(s) = k /\ \A i \in 1..k : s[i] = a + i
  BY SpanType
<1>2. t \in Seq(Nat) /\ Len(t) = n /\ \A i \in 1..n : t[i] = b + i
  BY <1>0, SpanType
<1>3. u \in Seq(Nat) /\ Len(u) = k + n /\ \A i \in 1..k + n : u[i] = a + i
  BY <1>0, SpanType
<1> HIDE DEF s, t, u
<1>4. s \o t \in Seq(Nat) /\ Len(s \o t) = k + n
      /\ \A i \in 1..k + n : (s \o t)[i] = IF i <= k THEN s[i] ELSE t[i - k]
  <2>1. s \o t \in Seq(Nat) /\ Len(s \o t) = Len(s) + Len(t)
        /\ \A i \in 1..Len(s) + Len(t) : (s \o t)[i] = IF i <= Len(s) THEN s[i] ELSE t[i - Len(s)]
    BY <1>1, <1>2, ConcatProperties
  <2> HIDE DEF k
  <2> QED
    BY <1>1, <1>2, <2>1
<1>5. ASSUME NEW i \in 1..k + n PROVE (s \o t)[i] = u[i]
  <2>1. CASE i <= k
    <3>1. i \in 1..k
      BY <1>0, <2>1
    <3> QED
      BY <1>1, <1>3, <1>4, <2>1, <3>1
  <2>2. CASE ~(i <= k)
    <3>1. i - k \in 1..n /\ b + (i - k) = a + i
      BY <1>0, <2>2
    <3> QED
      BY <1>2, <1>3, <1>4, <2>2, <3>1
  <2> QED
    BY <2>1, <2>2
<1>6. k + n \in Nat
  BY <1>0
<1> HIDE DEF k
<1>7. s \o t = u
  BY <1>3, <1>4, <1>5, <1>6, SameBytes
<1> QED
  BY <1>7 DEF s, t, u

\* s begins what lies between the a-th and the b-th byte, t is the rest of it.
Splits(s, t, a, b) == s \o t = Span(a, b)

\* A write takes the first n bytes of the line.
LEMMA SplitDrops ==
  ASSUME NEW a \in Nat, NEW b \in Nat, a <= b, NEW s \in Seq(Nat), NEW t \in Seq(Nat),
         Splits(s, t, a, b), NEW n \in Nat, n <= Len(s)
  PROVE  Splits(SubSeq(s, n + 1, Len(s)), t, a + n, b)
<1>0. s \o t = Span(a, b)
  BY DEF Splits
<1> DEFINE k == Len(s)
           l == Len(t)
           r == SubSeq(s, n + 1, k)
<1>1. k \in Nat /\ l \in Nat /\ n <= k
  OBVIOUS
<1>2. Len(s \o t) = k + l /\ \A i \in 1..k + l : (s \o t)[i] = IF i <= k THEN s[i] ELSE t[i - k]
  BY ConcatProperties
<1>3. Span(a, b) \in Seq(Nat) /\ Len(Span(a, b)) = b - a /\ \A i \in 1..b - a : Span(a, b)[i] = a + i
  BY SpanType
<1>4. k + l = b - a
  BY <1>0, <1>2, <1>3
<1>5. r \in Seq(Nat) /\ Len(r) = k - n /\ \A i \in 1..k - n : r[i] = s[n + i]
  OBVIOUS
<1> HIDE DEF k, l, r
<1>6. k - n \in Nat /\ a + n \in Nat /\ a + n <= b /\ b - (a + n) = (k - n) + l /\ (k - n) + l \in Nat
  BY <1>1, <1>4
<1> DEFINE u == Span(a + n, b)
<1>7. u \in Seq(Nat) /\ Len(u) = (k - n) + l /\ \A i \in 1..(k - n) + l : u[i] = (a + n) + i
  BY <1>6, SpanType
<1> HIDE DEF u
<1>8. r \o t \in Seq(Nat) /\ Len(r \o t) = (k - n) + l
      /\ \A i \in 1..(k - n) + l : (r \o t)[i] = IF i <= k - n THEN r[i] ELSE t[i - (k - n)]
  <2>1. r \o t \in Seq(Nat) /\ Len(r \o t) = Len(r) + Len(t)
        /\ \A i \in 1..Len(r) + Len(t) : (r \o t)[i] = IF i <= Len(r) THEN r[i] ELSE t[i - Len(r)]
    BY <1>5, ConcatProperties, Zenon
  <2>2. Len(r) = k - n /\ Len(t) = l
    BY <1>5 DEF l
  <2> QED
    BY <2>1, <2>2, Zenon
<1>9. \A i \in 1..k + l : (IF i <= k THEN s[i] ELSE t[i - k]) = a + i
  BY <1>0, <1>2, <1>3, <1>4
<1>10. ASSUME NEW i \in 1..(k - n) + l PROVE (r \o t)[i] = u[i]
  <2>1. n + i \in 1..k + l /\ a + (n + i) = (a + n) + i
    BY <1>1
  <2>2. (IF n + i <= k THEN s[n + i] ELSE t[(n + i) - k]) = (a + n) + i
    BY <1>9, <2>1
  <2>3. CASE i <= k - n
    <3>1. i \in 1..k - n /\ n + i <= k
      BY <1>1, <2>3
    <3> QED
      BY <1>5, <1>7, <1>8, <2>2, <2>3, <3>1
  <2>4. CASE ~(i <= k - n)
    <3>1. ~(n + i <= k) /\ (n + i) - k = i - (k - n)
      BY <1>1, <2>4
    <3> QED
      BY <1>7, <1>8, <2>2, <2>4, <3>1
  <2> QED
    BY <2>3, <2>4
<1>11. r \o t = u
  BY <1>6, <1>7, <1>8, <1>10, SameBytes
<1> QED
  BY <1>11 DEF Splits, r, u, k

LEMMA LineCat ==
  ASSUME NEW dd, NEW c
  PROVE  Line(dd, c) = Cat(Cat(Cat(c.rest, FlattenSeq(c.stdin_q)), FlattenSeq(dd.pending_stdin)),
                           FlattenSeq(dd.pre_exec_stdin))
  BY DEF Line, Cat

\* dd and c hold as much of the line as d and io do, and say no more of it.
LEMMA OrderedBy ==
  ASSUME Ordered, Early(d'), received' = received,
         Feeding' => Feeding /\ Line(d', io') = Line(d, io),
         io'.delivered = io.delivered, io'.saw_eof => io.saw_eof,
         io'.stdin_pump \in {io.stdin_pump, "done"},
         io'.rest = io.rest \/ io'.rest = <<>>,
         d.client_eof => d'.client_eof, d.early_close => d'.early_close,
         NoneBehind', pc' = "over" => io'.stdin_pump = "done",
         io'.stdin_pump = "done" => io'.rest = <<>>
  PROVE  Ordered'
<1>1. Line(d, io)' = Line(d', io') /\ Span(io.delivered, received)' = Span(io'.delivered, received')
      /\ Early(d)' = Early(d')
  BY DEF Line, Span, Early
<1>2. InLine'
  BY <1>1 DEF Ordered, InLine
<1>3. EofLast' /\ PumpGone'
  BY DEF Ordered, EofLast, PumpGone
<1> QED
  BY <1>1, <1>2, <1>3 DEF Ordered

LEMMA OrderedLeave ==
  ASSUME Core, Buffered, Ordered, NEW dd, DOMAIN dd = DOMAIN new, NEW w, leave(dd, w), Early(dd),
         d.client_eof => dd.client_eof, d.early_close => dd.early_close, received' = received
  PROVE  Ordered'
<1>1. pc' = "over" /\ d' = emit_finished(dd) /\ io' = drop_io(io)
  BY DEF leave, continue
<1>2. /\ d'.pending_stdin = dd.pending_stdin /\ d'.pre_exec_stdin = dd.pre_exec_stdin
      /\ d'.state = dd.state /\ d'.client_eof = dd.client_eof /\ d'.early_close = dd.early_close
  BY <1>1 DEF emit_finished, new
<1>3. Early(d')
  BY <1>2 DEF Early
<1>4. /\ io'.delivered = io.delivered /\ io'.saw_eof = io.saw_eof
      /\ io'.stdin_pump = "done" /\ io'.rest = <<>>
  <2>1. CASE io.child = "none"
    <3>1. io' = NoChild
      BY <1>1, <2>1 DEF drop_io, Core, NotStarted
    <3>2. io = NoChild
      BY <2>1 DEF Core, NotStarted
    <3> QED
      BY <3>1, <3>2 DEF NoChild
  <2>2. CASE io.child # "none"
    BY <1>1, <2>2 DEF Buffered, Pipes, NoChild, drop_io, kill, close_stdin, stdin_gone, discard_output
  <2> QED
    BY <2>1, <2>2
<1>5. ~Feeding' /\ NoneBehind'
  BY <1>1 DEF Feeding, NoneBehind
<1> QED
  BY <1>2, <1>3, <1>4, <1>5, OrderedBy

LEMMA OrderedDisconnect ==
  ASSUME Core, Buffered, Ordered, NEW w, leave(d, w), received' = received
  PROVE  Ordered'
  BY OrderedLeave DEF Buffered, Slots, Ordered

\* The driver goes on, its stdin slots and the child's as they were.
LEMMA OrderedOn ==
  ASSUME Ordered, pc # "over", received' = received, io' = io,
         d'.pending_stdin = d.pending_stdin, d'.pre_exec_stdin = d.pre_exec_stdin,
         d'.client_eof = d.client_eof \/ d'.client_eof = TRUE, d'.early_close = d.early_close,
         d'.state \in Before <=> d.state \in Before, pc' \notin {"select", "over"}
  PROVE  Ordered'
<1>1. Early(d')
  BY DEF Ordered, Early
<1>2. Feeding' => Feeding
  BY DEF Feeding, has_child
<1>3. Line(d', io') = Line(d, io)
  BY DEF Line
<1>4. NoneBehind'
  BY DEF NoneBehind
<1>5. io'.stdin_pump = "done" => io'.rest = <<>>
  BY DEF Ordered, PumpGone
<1>6. d.client_eof => d'.client_eof
  BY Zenon
<1> QED
  BY <1>1, <1>2, <1>3, <1>4, <1>5, <1>6, OrderedBy

LEMMA OrderedStart ==
  ASSUME Core, Buffered, Ordered, pc # "over", NEW m, NEW then, then \notin {"select", "over"},
         d.state = "Idle", start(m, then), received' = received
  PROVE  Ordered'
<1> DEFINE accepted == [d EXCEPT !.command = TRUE, !.pty = FALSE]
           running == [accepted EXCEPT !.state = "Running"]
           failed == [accepted EXCEPT !.state = "Draining", !.exit_status = Some("127"),
                                      !.child_out_closed = TRUE, !.consumed_closed = TRUE]
<1>0. DOMAIN d = DOMAIN new
  BY DEF Buffered, Slots
<1>1. /\ accepted.pending_stdin = d.pending_stdin /\ accepted.pre_exec_stdin = d.pre_exec_stdin
      /\ accepted.client_eof = d.client_eof /\ accepted.early_close = d.early_close
      /\ accepted.state = d.state /\ DOMAIN accepted = DOMAIN new
  BY <1>0 DEF new
<1>2. /\ running.pending_stdin = d.pending_stdin /\ running.pre_exec_stdin = d.pre_exec_stdin
      /\ running.client_eof = d.client_eof /\ running.early_close = d.early_close /\ running.state = "Running"
  BY <1>0 DEF new
<1>3. /\ failed.pending_stdin = d.pending_stdin /\ failed.pre_exec_stdin = d.pre_exec_stdin
      /\ failed.client_eof = d.client_eof /\ failed.early_close = d.early_close /\ failed.state = "Draining"
  BY <1>0 DEF new
<1>4. \/ continue(then, running, reply(m)) /\ io' = spawn(d.pty)
      \/ continue(then, failed, reply(m)) /\ io' = io
      \/ leave(accepted, <<>>)
  BY DEF start
<1> HIDE DEF accepted, running, failed
<1>5. io = NoChild /\ ~d.early_close /\ Feeding
  BY DEF Core, NotStarted, Before, Feeding
<1>6. CASE leave(accepted, <<>>)
  <2>1. Early(accepted)
    BY <1>1 DEF Ordered, Early
  <2> QED
    BY <1>1, <1>6, <2>1, OrderedLeave
<1>7. CASE continue(then, running, reply(m)) /\ io' = spawn(d.pty)
  <2>1. d' = running /\ pc' = then
    BY <1>7 DEF continue
  <2>2. /\ io'.rest = io.rest /\ io'.stdin_q = io.stdin_q /\ io'.delivered = io.delivered
        /\ io'.saw_eof = FALSE /\ io'.stdin_pump = "open"
    BY <1>5, <1>7 DEF spawn, NoChild
  <2>3. Early(d') /\ Line(d', io') = Line(d, io)
    BY <1>2, <2>1, <2>2 DEF Ordered, Early, Line, Before
  <2>4. /\ Line(d, io)' = Line(d', io') /\ Span(io.delivered, received)' = Span(io'.delivered, received')
        /\ Early(d)' = Early(d')
    BY DEF Line, Span, Early
  <2>5. InLine' /\ NoneBehind' /\ EofLast' /\ PumpGone'
    BY <1>5, <2>1, <2>2, <2>3, <2>4 DEF Ordered, InLine, NoneBehind, EofLast, PumpGone
  <2> QED
    BY <2>3, <2>4, <2>5 DEF Ordered
<1>8. CASE continue(then, failed, reply(m)) /\ io' = io
  <2>1. d' = failed /\ pc' = then
    BY <1>8 DEF continue
  <2>2. Early(d')
    BY <1>3, <2>1 DEF Ordered, Early, Before
  <2>3. ~Feeding' /\ NoneBehind'
    BY <1>3, <1>5, <1>8, <2>1 DEF Feeding, Before, has_child, NoChild, NoneBehind
  <2>4. io'.stdin_pump = "done" => io'.rest = <<>>
    BY <1>8 DEF Ordered, PumpGone
  <2> QED
    BY <1>3, <1>8, <2>1, <2>2, <2>3, <2>4, OrderedBy
<1> QED
  BY <1>4, <1>6, <1>7, <1>8

\* Data goes to the end of the line: nothing waits behind the slot it joins.
LEMMA OrderedData ==
  ASSUME Core, Buffered, Ordered, NEW n \in Nat, ~data_refused(n), d.state # "BeforeOpen",
         d' = stash(n), io' = io, received' = received + n, pc = "select", pc' \notin {"select", "over"},
         d.state = "Idle" => Len(d.pre_exec_stdin) < 1
  PROVE  Ordered'
<1> DEFINE chunk == chunk_of(n)
<1>1. DOMAIN d = DOMAIN new /\ received \in Nat /\ io.delivered \in Nat /\ io.delivered <= received
      /\ d.pre_exec_stdin \in Chunks /\ d.pending_stdin \in Chunks
  <2>1. io.delivered + Held(d, io) <= received /\ Held(d, io) \in Nat /\ io.delivered \in Nat /\ received \in Nat
    BY Sizes DEF Buffered, Pipes
  <2>2. d.pending_stdin \in Chunks
    BY Sizes DEF Buffered
  <2>3. DOMAIN d = DOMAIN new /\ d.pre_exec_stdin \in Chunks
    BY DEF Buffered, Slots
  <2>4. io.delivered <= received
    BY <2>1
  <2> QED
    BY <2>1, <2>2, <2>3, <2>4
<1>2. chunk = Span(received, received + n)
  <2>1. (received + n) - received = n
    BY <1>1
  <2> QED
    BY <2>1 DEF chunk_of, Span
<1>3. chunk \in Seq(Nat)
  <2>1. received + n \in Nat /\ received <= received + n
    BY <1>1
  <2> QED
    BY <1>1, <1>2, <2>1, SpanType
<1>4. /\ d'.state = d.state /\ d'.client_eof = d.client_eof /\ d'.early_close = d.early_close
      /\ d'.pre_exec_stdin = IF d.state = "Idle" THEN Append(d.pre_exec_stdin, chunk) ELSE d.pre_exec_stdin
      /\ d'.pending_stdin = IF d.state # "Idle" /\ has_child
                            THEN Some(FlattenSeq(d.pending_stdin) \o chunk) ELSE d.pending_stdin
  BY <1>1 DEF stash, new
<1>5. d.state = "Idle" => d.pre_exec_stdin = <<>> /\ d.pending_stdin = None /\ ~has_child /\ Feeding
  <2> SUFFICES ASSUME d.state = "Idle"
               PROVE  d.pre_exec_stdin = <<>> /\ d.pending_stdin = None /\ ~has_child /\ Feeding
    OBVIOUS
  <2>1. Len(d.pre_exec_stdin) = 0
    <3>1. Len(d.pre_exec_stdin) \in Nat /\ Len(d.pre_exec_stdin) < 1
      BY <1>1 DEF Chunks
    <3> QED
      BY <3>1
  <2>2. d.pre_exec_stdin = <<>>
    BY <1>1, <2>1, EmptySeq DEF Chunks
  <2> QED
    BY <2>2 DEF Ordered, Early, Before, Core, NotStarted, has_child, Feeding
<1>6. has_child => d.pre_exec_stdin = <<>> /\ d.state \notin Before
  BY DEF Ordered, NoneBehind, Core, NotStarted, has_child
<1>7. Early(d')
  <2>1. CASE d.state = "Idle"
    <3>1. Append(<<>>, chunk) = <<chunk>> /\ Len(<<chunk>>) = 1
      OBVIOUS
    <3> HIDE DEF chunk
    <3> QED
      BY <1>4, <1>5, <2>1, <3>1 DEF Early
  <2>2. CASE d.state # "Idle" /\ has_child
    <3>1. Len(<<>>) <= 1
      OBVIOUS
    <3> HIDE DEF chunk
    <3> QED
      BY <1>4, <1>6, <2>2, <3>1 DEF Early
  <2>3. CASE d.state # "Idle" /\ ~has_child
    BY <1>4, <2>3 DEF Early, Ordered
  <2> QED
    BY <2>1, <2>2, <2>3
<1>8. ASSUME Feeding' PROVE Line(d', io') = Line(d, io) \o chunk /\ Feeding
  <2> DEFINE a == io.rest
             b == FlattenSeq(io.stdin_q)
             p == FlattenSeq(d.pending_stdin)
             e == FlattenSeq(d.pre_exec_stdin)
             x == Cat(a, b)
  <2>1. a \in Seq(Nat) /\ b \in Seq(Nat) /\ p \in Seq(Nat) /\ e \in Seq(Nat)
    BY LineParts DEF Buffered
  <2>2. Line(d, io) = Cat(Cat(x, p), e) /\ Line(d, io) \o chunk = Cat(Line(d, io), chunk)
    BY LineCat DEF Cat
  <2>6. x \in Seq(Nat) /\ Cat(x, p) \in Seq(Nat) /\ Cat(p, chunk) \in Seq(Nat)
    <3> HIDE DEF a, b, p, e, chunk
    <3> QED
      BY <1>3, <2>1, CatLaws
  <2>3. CASE d.state = "Idle"
    <3>1. FlattenSeq(d'.pre_exec_stdin) = Cat(e, chunk)
      BY <1>1, <1>3, <1>4, <2>3, FlattenAppend DEF Cat
    <3>2. Line(d', io') = Cat(Cat(x, p), Cat(e, chunk))
      BY <1>4, <2>3, <3>1, LineCat
    <3> HIDE DEF a, b, p, e, chunk, x
    <3>3. Cat(Cat(x, p), Cat(e, chunk)) = Cat(Cat(Cat(x, p), e), chunk)
      BY <1>3, <2>1, <2>6, CatLaws
    <3> QED
      BY <1>5, <2>2, <2>3, <3>2, <3>3
  <2>4. CASE d.state # "Idle" /\ has_child
    <3>1. p \o chunk = Cat(p, chunk)
      BY DEF Cat
    <3>2. FlattenSeq(d'.pending_stdin) = Cat(p, chunk)
      BY <1>4, <2>4, <2>6, <3>1, BytesOption
    <3>3. e = <<>> /\ FlattenSeq(d'.pre_exec_stdin) = <<>>
      BY <1>4, <1>6, <2>4, FlattenEmpty
    <3>4. Line(d', io') = Cat(Cat(x, Cat(p, chunk)), <<>>)
      BY <3>2, <3>3, LineCat
    <3>5. Feeding
      BY <1>4, <1>8, <2>4 DEF Feeding, has_child
    <3> HIDE DEF a, b, p, e, chunk, x
    <3>6. Cat(Cat(x, Cat(p, chunk)), <<>>) = Cat(x, Cat(p, chunk))
      BY <2>6, CatLaws
    <3>7. Cat(x, Cat(p, chunk)) = Cat(Cat(x, p), chunk) /\ Cat(Cat(x, p), <<>>) = Cat(x, p)
      BY <1>3, <2>1, <2>6, CatLaws
    <3> QED
      BY <2>2, <3>3, <3>4, <3>5, <3>6, <3>7
  <2>5. CASE d.state # "Idle" /\ ~has_child
    BY <1>4, <1>8, <2>5 DEF Feeding, Before, has_child
  <2> QED
    BY <2>3, <2>4, <2>5
<1>9. InLine'
  <2> SUFFICES ASSUME Feeding' PROVE Line(d', io') = Span(io'.delivered, received')
    BY DEF InLine, Line, Span
  <2>1. Line(d, io) = Span(io.delivered, received)
    BY <1>8 DEF Ordered, InLine
  <2>2. Span(io.delivered, received) \o Span(received, received + n) = Span(io.delivered, received + n)
    BY <1>1, SpanExtends
  <2> HIDE DEF chunk
  <2> QED
    BY <1>2, <1>8, <2>1, <2>2
<1>10. NoneBehind' /\ PumpGone'
  BY DEF NoneBehind, Ordered, PumpGone
<1>11. EofLast'
  <2>1. ~d.client_eof
    BY DEF data_refused
  <2> QED
    BY <1>4, <2>1 DEF Ordered, EofLast
<1>12. Early(d)'
  BY <1>7 DEF Early
<1> QED
  BY <1>9, <1>10, <1>11, <1>12 DEF Ordered

LEMMA OrderedInbound ==
  ASSUME Core, Buffered, Ordered, pc # "over", NEW m \in ClientMsgs, NEW then \in {"head", "drain"},
         handle_inbound(m, then),
         m.kind = "data" => pc = "select" /\ (d.state = "Idle" => Len(d.pre_exec_stdin) < 1)
  PROVE  Ordered'
<1> USE Message
<1>1. DOMAIN d = DOMAIN new /\ DOMAIN io = DOMAIN NoChild
  BY DEF Buffered, Slots, Pipes
<1>2. ASSUME NEW dd, NEW w, continue(then, dd, w), io' = io, received' = received,
             dd.pending_stdin = d.pending_stdin, dd.pre_exec_stdin = d.pre_exec_stdin,
             dd.client_eof = d.client_eof \/ dd.client_eof = TRUE, dd.early_close = d.early_close,
             dd.state \in Before <=> d.state \in Before
      PROVE  Ordered'
  <2>1. d' = dd /\ pc' \notin {"select", "over"}
    BY <1>2 DEF continue
  <2> QED
    BY <1>2, <2>1, OrderedOn
<1>3. CASE (protocol_disconnect \/ leave(d, <<>>)) /\ received' = received
  BY <1>3, OrderedDisconnect DEF protocol_disconnect
<1>4. CASE on_channel_open(m, then) /\ received' = received
  <2> DEFINE dd == [d EXCEPT !.state = "Idle", !.out_window = m.window, !.in_window = INITIAL_WINDOW]
  <2>1. \/ continue(then, d, reply(m)) /\ io' = io
        \/ protocol_disconnect
        \/ d.state = "BeforeOpen" /\ continue(then, dd, reply(m)) /\ io' = io
    BY <1>4 DEF on_channel_open
  <2>2. /\ dd.pending_stdin = d.pending_stdin /\ dd.pre_exec_stdin = d.pre_exec_stdin
        /\ dd.client_eof = d.client_eof /\ dd.early_close = d.early_close /\ dd.state = "Idle"
    BY <1>1 DEF new
  <2> HIDE DEF dd
  <2>3. CASE d.state = "BeforeOpen" /\ continue(then, dd, reply(m)) /\ io' = io
    BY <1>2, <1>4, <2>2, <2>3 DEF Before
  <2>4. CASE continue(then, d, reply(m)) /\ io' = io
    BY <1>2, <1>4, <2>4
  <2> QED
    BY <1>3, <1>4, <2>1, <2>3, <2>4
<1>5. CASE on_channel_request(m, then) /\ received' = received
  <2>1. CASE starts_child(m) /\ start(m, then)
    BY <1>5, <2>1, OrderedStart DEF starts_child
  <2>2. ASSUME NEW granted, continue(then, [d EXCEPT !.pty = @ \/ granted], reply(m)), io' = io
        PROVE  Ordered'
    <3> DEFINE dd == [d EXCEPT !.pty = @ \/ granted]
    <3>1. /\ dd.pending_stdin = d.pending_stdin /\ dd.pre_exec_stdin = d.pre_exec_stdin
          /\ dd.client_eof = d.client_eof /\ dd.early_close = d.early_close /\ dd.state = d.state
      BY <1>1 DEF new
    <3>2. continue(then, dd, reply(m))
      BY <2>2
    <3> HIDE DEF dd
    <3> QED
      BY <1>2, <1>5, <2>2, <3>1, <3>2
  <2> QED
    BY <1>5, <2>1, <2>2 DEF on_channel_request
<1>6. CASE d.state # "BeforeOpen" /\ m.kind = "data" /\ on_channel_data(m, then)
  <2>1. CASE continue(then, d, <<>>) /\ io' = io /\ received' = received
    BY <1>2, <2>1
  <2>2. CASE ~data_refused(m.len) /\ continue(then, stash(m.len), <<>>) /\ io' = io
             /\ received' = received + m.len
    <3>1. d' = stash(m.len) /\ pc' \notin {"select", "over"} /\ m.len \in Nat
      BY <1>6, <2>2 DEF continue
    <3> QED
      BY <1>6, <2>2, <3>1, OrderedData
  <2> QED
    BY <1>3, <1>6, <2>1, <2>2 DEF on_channel_data
<1>7. CASE on_window_adjust(m, then) /\ received' = received
  <2> DEFINE dd == [d EXCEPT !.out_window = @ + m.add]
  <2>1. /\ dd.pending_stdin = d.pending_stdin /\ dd.pre_exec_stdin = d.pre_exec_stdin
        /\ dd.client_eof = d.client_eof /\ dd.early_close = d.early_close /\ dd.state = d.state
    BY <1>1 DEF new
  <2>2. protocol_disconnect \/ (continue(then, dd, <<>>) /\ io' = io)
    BY <1>7 DEF on_window_adjust
  <2> HIDE DEF dd
  <2>3. CASE continue(then, dd, <<>>) /\ io' = io
    BY <1>2, <1>7, <2>1, <2>3
  <2> QED
    BY <1>3, <1>7, <2>2, <2>3
<1>8. CASE on_channel_eof(m, then) /\ received' = received
  <2> DEFINE dd == [d EXCEPT !.client_eof = TRUE]
  <2>1. /\ dd.pending_stdin = d.pending_stdin /\ dd.pre_exec_stdin = d.pre_exec_stdin
        /\ dd.client_eof = TRUE /\ dd.early_close = d.early_close /\ dd.state = d.state
    BY <1>1 DEF new
  <2>2. continue(then, dd, <<>>) /\ io' = io
    BY <1>8 DEF on_channel_eof
  <2> HIDE DEF dd
  <2> QED
    BY <1>2, <1>8, <2>1, <2>2
<1>9. CASE d.state # "BeforeOpen" /\ on_channel_close(m, then) /\ received' = received
  <2>1. CASE d.state = "ServerClosed"
    <3> DEFINE dd == [d EXCEPT !.state = "Closed"]
    <3>1. /\ dd.pending_stdin = d.pending_stdin /\ dd.pre_exec_stdin = d.pre_exec_stdin
          /\ dd.client_eof = d.client_eof /\ dd.early_close = d.early_close /\ dd.state = "Closed"
      BY <1>1 DEF new
    <3>2. continue(then, dd, <<>>) /\ io' = io
      BY <1>9, <2>1 DEF on_channel_close
    <3> HIDE DEF dd
    <3> QED
      BY <1>2, <1>9, <2>1, <3>1, <3>2 DEF Before
  <2>2. CASE d.state # "ServerClosed"
    <3>1. /\ d'.pending_stdin = d.pending_stdin /\ d'.pre_exec_stdin = d.pre_exec_stdin
          /\ d'.client_eof = d.client_eof /\ d'.early_close = TRUE /\ d'.state = "Draining" /\ pc' = then
      BY <1>1, <1>9, <2>2 DEF new, on_channel_close, continue
    <3>2. io' = io \/ io' = kill(discard_output(close_stdin(io)))
      BY <1>9, <2>2 DEF on_channel_close
    <3>3. /\ io'.delivered = io.delivered /\ io'.saw_eof = io.saw_eof
          /\ \/ io'.stdin_pump = io.stdin_pump /\ io'.rest = io.rest
             \/ io'.stdin_pump = "done" /\ io'.rest = <<>>
      BY <1>1, <3>2 DEF NoChild, kill, discard_output, stdin_gone, close_stdin
    <3>4. Early(d') /\ ~Feeding' /\ NoneBehind'
      BY <3>1 DEF Ordered, Early, Before, Feeding, NoneBehind
    <3>5. io'.stdin_pump = "done" => io'.rest = <<>>
      BY <3>3 DEF Ordered, PumpGone
    <3> QED
      BY <1>9, <3>1, <3>3, <3>4, <3>5, OrderedBy
  <2> QED
    BY <2>1, <2>2
<1>10. CASE m.kind \in {"global", "ignore"} /\ continue(then, d, reply(m)) /\ io' = io /\ received' = received
  BY <1>2, <1>10
<1> QED
  BY <1>3, <1>4, <1>5, <1>6, <1>7, <1>8, <1>9, <1>10 DEF handle_inbound

LEMMA OneChunk ==
  ASSUME NEW q \in Chunks, Len(q) = 1
  PROVE  Head(q) \in Seq(Nat) /\ Tail(q) = <<>>
<1>1. q \in Seq(Seq(Nat)) /\ q # <<>>
  BY DEF Chunks
<1>2. Head(q) \in Seq(Nat) /\ Tail(q) \in Seq(Seq(Nat)) /\ Len(Tail(q)) = 0
  BY <1>1
<1> QED
  BY <1>2, EmptySeq

\* The hand-off moves the head of the line from one buffer to the next.
LEMMA FeedsInLine ==
  ASSUME Core, Buffered, Early(d), pc # "over", NEW dd, Slots(dd), SameSlots(dd), dd.state = d.state,
         dd.client_eof = d.client_eof, dd.early_close = d.early_close
  PROVE  LET fed == handoff_stdin(dd)
             child == child_after_handoff(dd, fed)
         IN  /\ Early(fed) /\ (has_child => fed.pre_exec_stdin = <<>>) /\ fed.client_eof = d.client_eof
             /\ ~d.early_close => Line(fed, child) = Line(d, io)
             /\ child.rest = io.rest /\ child.saw_eof = io.saw_eof
<1> DEFINE fed == handoff_stdin(dd)
           child == child_after_handoff(dd, fed)
           r == refilled(dd)
           a == io.rest
           b == FlattenSeq(io.stdin_q)
           p == FlattenSeq(dd.pending_stdin)
           e == FlattenSeq(dd.pre_exec_stdin)
<1>1. Slots(r) /\ r.state = d.state /\ r.client_eof = d.client_eof
  BY Refills
<1>2. DOMAIN dd = DOMAIN new /\ DOMAIN io = DOMAIN NoChild /\ io.stdin_q \in Chunks /\ dd.pre_exec_stdin \in Chunks
      /\ dd.pending_stdin = d.pending_stdin /\ dd.pre_exec_stdin = d.pre_exec_stdin
  BY DEF Slots, Buffered, Pipes, SameSlots
<1>3. a \in Seq(Nat) /\ b \in Seq(Nat) /\ p \in Seq(Nat) /\ e \in Seq(Nat)
      /\ FlattenSeq(r.pending_stdin) \in Seq(Nat) /\ FlattenSeq(r.pre_exec_stdin) \in Seq(Nat)
  BY <1>1, LineParts DEF Buffered
<1>4. Line(d, io) = Cat(Cat(Cat(a, b), p), e) /\ Early(dd)
  BY <1>2, LineCat DEF Early
<1>5. /\ r.pre_exec_stdin = <<>> /\ FlattenSeq(r.pending_stdin) = Cat(p, e)
      /\ d.pending_stdin = None /\ d.pre_exec_stdin = <<>> => r.pending_stdin = None
  <2>1. CASE dd.pending_stdin = None /\ dd.pre_exec_stdin # <<>>
    <3>1. r.pending_stdin = Some(Head(dd.pre_exec_stdin)) /\ r.pre_exec_stdin = Tail(dd.pre_exec_stdin)
      BY <1>2, <2>1 DEF refilled, new
    <3>2. Head(dd.pre_exec_stdin) \in Seq(Nat) /\ Tail(dd.pre_exec_stdin) = <<>>
      <4>1. Len(dd.pre_exec_stdin) = 1
        <5>1. Len(dd.pre_exec_stdin) <= 1
          BY <1>4 DEF Early
        <5>2. PICK n \in Nat : n = Len(dd.pre_exec_stdin)
          BY <1>2 DEF Chunks
        <5>3. n # 0
          BY <1>2, <2>1, <5>2, EmptySeq DEF Chunks
        <5>4. n <= 1
          BY <5>1, <5>2
        <5> HIDE DEF r, e, p
        <5>5. n = 1
          BY <5>3, <5>4
        <5> QED
          BY <5>2, <5>5
      <4> QED
        BY <1>2, <4>1, OneChunk
    <3>3. e = Head(dd.pre_exec_stdin) \o <<>> /\ p = <<>>
      BY <1>2, <2>1, <3>2, FlattenTail, FlattenEmpty DEF None
    <3>4. e = Head(dd.pre_exec_stdin) /\ Cat(p, e) = e
      BY <1>3, <3>2, <3>3, ConcatEmptySeq DEF Cat
    <3>5. FlattenSeq(r.pending_stdin) = e
      BY <3>1, <3>2, <3>4, BytesOption
    <3> QED
      BY <1>2, <2>1, <3>1, <3>2, <3>4, <3>5
  <2>2. CASE ~(dd.pending_stdin = None /\ dd.pre_exec_stdin # <<>>)
    <3>1. r = dd
      BY <2>2 DEF refilled
    <3>2. dd.pre_exec_stdin = <<>>
      BY <1>4, <2>2 DEF Early
    <3>3. e = <<>> /\ Cat(p, e) = p
      BY <1>3, <3>2, FlattenEmpty, CatLaws
    <3> QED
      BY <1>2, <3>1, <3>2, <3>3
  <2> QED
    BY <2>1, <2>2
<1>6. CASE ~has_child
  <2>1. fed = dd /\ child = io
    BY <1>6 DEF handoff_stdin, child_after_handoff, offered
  <2>2. Line(dd, io) = Line(d, io)
    BY <1>2 DEF Line
  <2> HIDE DEF fed, child
  <2> QED
    BY <1>4, <1>6, <2>1, <2>2 DEF fed, child
<1>7. CASE has_child /\ r.pending_stdin # None /\ ~refuses_stdin(io)
  <2> DEFINE chunk == FlattenSeq(r.pending_stdin)
             more == IF io.stdin_tx THEN [io EXCEPT !.stdin_q = Append(@, chunk)] ELSE io
  <2>1. fed = [r EXCEPT !.pending_stdin = None]
    BY <1>7 DEF handoff_stdin, handed_off, offered
  <2>2. fed.pending_stdin = None /\ fed.pre_exec_stdin = <<>> /\ fed.state = d.state /\ fed.client_eof = d.client_eof
    <3> HIDE DEF fed, r
    <3> QED
      BY <1>1, <1>5, <2>1 DEF Slots, new
  <2>3. child = IF eof_reached(fed) THEN close_stdin(more) ELSE more
    BY <1>7 DEF child_after_handoff, offered, has_child
  <2>4. /\ child.stdin_q = IF io.stdin_tx THEN Append(io.stdin_q, chunk) ELSE io.stdin_q
        /\ child.rest = io.rest /\ child.saw_eof = io.saw_eof
    <3> HIDE DEF fed, child, chunk
    <3> QED
      BY <1>2, <2>3 DEF NoChild, close_stdin
  <2>5. Early(fed)
    <3>1. Len(<<>>) <= 1
      OBVIOUS
    <3> HIDE DEF fed
    <3> QED
      BY <2>2, <3>1 DEF Early
  <2>6. ASSUME ~d.early_close PROVE Line(fed, child) = Line(d, io)
    <3>1. io.stdin_tx
      BY <1>5, <1>7, <2>6 DEF Buffered, EofSent, has_child
    <3>2. FlattenSeq(child.stdin_q) = Cat(b, chunk)
      BY <1>2, <1>3, <2>4, <3>1, FlattenAppend DEF Cat
    <3>3. chunk = Cat(p, e)
      BY <1>5
    <3>4. FlattenSeq(fed.pending_stdin) = <<>> /\ FlattenSeq(fed.pre_exec_stdin) = <<>>
      BY <2>2, FlattenEmpty DEF None
    <3>5. Line(fed, child) = Cat(Cat(Cat(a, Cat(b, Cat(p, e))), <<>>), <<>>)
      <4> HIDE DEF fed, child, chunk, b, p, e, r
      <4> QED
        BY <2>4, <3>2, <3>3, <3>4, LineCat
    <3> HIDE DEF fed, child, chunk, a, b, p, e, r
    <3>6. Cat(a, b) \in Seq(Nat) /\ Cat(p, e) \in Seq(Nat) /\ Cat(b, Cat(p, e)) \in Seq(Nat)
      BY <1>3, CatLaws
    <3>7. Cat(a, Cat(b, Cat(p, e))) \in Seq(Nat)
      BY <1>3, <3>6, CatLaws
    <3>8. Cat(Cat(Cat(a, Cat(b, Cat(p, e))), <<>>), <<>>) = Cat(a, Cat(b, Cat(p, e)))
      BY <3>7, CatLaws
    <3>9. Cat(Cat(Cat(a, b), p), e) = Cat(Cat(a, b), Cat(p, e))
      BY <1>3, <3>6, CatLaws
    <3>10. Cat(Cat(a, b), Cat(p, e)) = Cat(a, Cat(b, Cat(p, e)))
      BY <1>3, <3>6, CatLaws
    <3> QED
      BY <1>4, <3>5, <3>8, <3>9, <3>10
  <2> HIDE DEF fed, child, r
  <2> QED
    BY <2>2, <2>4, <2>5, <2>6 DEF fed, child
<1>8. CASE has_child /\ (r.pending_stdin = None \/ refuses_stdin(io))
  <2>1. fed = r
    BY <1>8 DEF handoff_stdin, handed_off, offered
  <2>2. child = IF eof_reached(fed) THEN close_stdin(io) ELSE io
    BY <1>8 DEF child_after_handoff, offered, has_child
  <2>3. child.stdin_q = io.stdin_q /\ child.rest = io.rest /\ child.saw_eof = io.saw_eof
    <3> HIDE DEF fed, child
    <3> QED
      BY <1>2, <2>2 DEF NoChild, close_stdin
  <2>4. Early(r)
    <3>1. Len(<<>>) <= 1
      OBVIOUS
    <3>2. d.state \notin Before
      BY <1>8 DEF Core, NotStarted, has_child
    <3> HIDE DEF r
    <3> QED
      BY <1>1, <1>5, <3>1, <3>2 DEF Early
  <2>5. Line(fed, child) = Cat(Cat(Cat(a, b), Cat(p, e)), <<>>)
    <3>1. FlattenSeq(r.pre_exec_stdin) = <<>> /\ FlattenSeq(r.pending_stdin) = Cat(p, e)
      BY <1>5, FlattenEmpty
    <3>2. Line(r, child) = Cat(Cat(Cat(a, b), Cat(p, e)), <<>>)
      <4> HIDE DEF fed, child, p, e, r
      <4> QED
        BY <2>3, <3>1, LineCat
    <3> QED
      BY <2>1, <3>2
  <2>6. Line(fed, child) = Line(d, io)
    <3> HIDE DEF fed, child, a, b, p, e, r
    <3>1. Cat(a, b) \in Seq(Nat) /\ Cat(p, e) \in Seq(Nat)
      BY <1>3, CatLaws
    <3>2. Cat(Cat(a, b), Cat(p, e)) \in Seq(Nat)
      BY <3>1, CatLaws
    <3>3. Cat(Cat(Cat(a, b), p), e) = Cat(Cat(a, b), Cat(p, e))
      BY <1>3, <3>1, CatLaws
    <3>4. Cat(Cat(Cat(a, b), Cat(p, e)), <<>>) = Cat(Cat(a, b), Cat(p, e))
      BY <3>2, CatLaws
    <3> QED
      BY <1>4, <2>5, <3>3, <3>4
  <2> HIDE DEF child, r
  <2> QED
    BY <1>1, <1>5, <2>1, <2>3, <2>4, <2>6 DEF fed, child
<1> QED
  BY <1>6, <1>7, <1>8

\* At the head of the loop: d' holds what the hand-off left.
LEMMA OrderedFed ==
  ASSUME Core, Buffered, Ordered, pc # "over", NEW dd, Slots(dd), SameSlots(dd), dd.state = d.state,
         dd.client_eof = d.client_eof, dd.early_close = d.early_close,
         io' = child_after_handoff(dd, handoff_stdin(dd)), received' = received, pc' # "over",
         d'.pending_stdin = handoff_stdin(dd).pending_stdin,
         d'.pre_exec_stdin = handoff_stdin(dd).pre_exec_stdin,
         d'.client_eof = handoff_stdin(dd).client_eof, d'.early_close = d.early_close,
         d'.state = d.state \/ d'.state \in {"ServerClosed", "Closed"}
  PROVE  Ordered'
<1> DEFINE fed == handoff_stdin(dd)
           child == child_after_handoff(dd, fed)
<1>1. /\ Early(fed) /\ (has_child => fed.pre_exec_stdin = <<>>) /\ fed.client_eof = d.client_eof
      /\ ~d.early_close => Line(fed, child) = Line(d, io)
      /\ child.rest = io.rest /\ child.saw_eof = io.saw_eof
  BY FeedsInLine DEF Ordered
<1>2. FedWell(fed, child)
  BY HandsOff
<1>3. child.delivered = io.delivered /\ child.child = io.child /\ child.stdin_pump = io.stdin_pump
      /\ fed.state = d.state
  BY <1>2 DEF FedWell
<1>4. io' = child /\ d'.pending_stdin = fed.pending_stdin /\ d'.pre_exec_stdin = fed.pre_exec_stdin
      /\ d'.client_eof = fed.client_eof
  OBVIOUS
<1> HIDE DEF fed, child
<1>5. Early(d')
  BY <1>1, <1>3, <1>4 DEF Early, Before
<1>6. Line(d', io') = Line(fed, child)
  BY <1>4 DEF Line
<1>7. Feeding' => Feeding /\ ~d.early_close
  BY <1>3, <1>4 DEF Feeding, has_child, Before
<1>8. NoneBehind'
  BY <1>1, <1>3, <1>4 DEF NoneBehind, has_child
<1>9. io'.stdin_pump = "done" => io'.rest = <<>>
  BY <1>1, <1>3, <1>4 DEF Ordered, PumpGone
<1> QED
  BY <1>1, <1>3, <1>4, <1>5, <1>6, <1>7, <1>8, <1>9, OrderedBy

LEMMA OrderedHead == ASSUME Core, Buffered, Ordered, NEW due, head(due) PROVE Ordered'
<1> DEFINE flushed == flush_output(d)
           fed == handoff_stdin(flushed)
           dd == replenish_window(fed)
           child == child_after_handoff(flushed, fed)
           w == (IF flushed.bytes_sent > d.bytes_sent THEN <<"DATA">> ELSE <<>>)
                 \o (IF dd.in_window > fed.in_window THEN <<"WINDOW_ADJUST">> ELSE <<>>)
           ends == ready_to_close(dd)
           after == IF ends THEN send_terminal(dd) ELSE dd
           wrote == IF ends THEN w \o terminal_packets(dd) ELSE w
<1>1. pc # "over" /\ received' = received
  BY DEF head, clientVars
<1>2. \/ continue("select", dd, w \o <<"KEXINIT">>) /\ io' = child
      \/ leave(after, wrote)
      \/ continue("select", after, wrote) /\ io' = child
  BY DEF head
<1>3. /\ Slots(flushed) /\ SameSlots(flushed) /\ flushed.state = d.state
      /\ flushed.client_eof = d.client_eof /\ flushed.early_close = d.early_close
  BY FlushSlots DEF Core, Buffered
<1> HIDE DEF flushed
<1>4. FedWell(fed, child) /\ Early(fed) /\ fed.client_eof = d.client_eof
  <2>1. FedWell(fed, child)
    BY <1>1, <1>3, HandsOff
  <2>2. Early(d)
    BY DEF Ordered
  <2>3. Early(fed) /\ fed.client_eof = d.client_eof
    BY <1>1, <1>3, <2>2, FeedsInLine
  <2> QED
    BY <2>1, <2>3
<1>5. Slots(fed) /\ fed.state = d.state /\ fed.early_close = d.early_close
  BY <1>4 DEF FedWell
<1> HIDE DEF fed
<1>6. /\ Slots(dd) /\ dd.pending_stdin = fed.pending_stdin /\ dd.pre_exec_stdin = fed.pre_exec_stdin
      /\ dd.early_close = d.early_close /\ dd.state = d.state /\ dd.client_eof = fed.client_eof
  BY <1>5, Replenishes
<1> HIDE DEF dd
<1>7. /\ DOMAIN after = DOMAIN new
      /\ after.pending_stdin = fed.pending_stdin /\ after.pre_exec_stdin = fed.pre_exec_stdin
      /\ after.early_close = d.early_close /\ after.client_eof = fed.client_eof
      /\ after.state = d.state \/ after.state \in {"ServerClosed", "Closed"}
  BY <1>6 DEF Slots, new, send_terminal
<1> HIDE DEF after, wrote, w, child
<1>8. ASSUME NEW f, NEW x, continue("select", f, x), io' = child,
             f.pending_stdin = fed.pending_stdin, f.pre_exec_stdin = fed.pre_exec_stdin,
             f.client_eof = fed.client_eof,
             f.early_close = d.early_close, f.state = d.state \/ f.state \in {"ServerClosed", "Closed"}
      PROVE  Ordered'
  <2>1. d' = f /\ pc' # "over"
    BY <1>8 DEF continue
  <2>2. io' = child_after_handoff(flushed, handoff_stdin(flushed))
    BY <1>8 DEF child, fed
  <2>3. /\ d'.pending_stdin = handoff_stdin(flushed).pending_stdin
        /\ d'.pre_exec_stdin = handoff_stdin(flushed).pre_exec_stdin
        /\ d'.client_eof = handoff_stdin(flushed).client_eof
    BY <1>8, <2>1 DEF fed
  <2>4. d'.early_close = d.early_close /\ (d'.state = d.state \/ d'.state \in {"ServerClosed", "Closed"})
    BY <1>8, <2>1
  <2> QED
    BY <1>1, <1>3, <2>1, <2>2, <2>3, <2>4, OrderedFed
<1>9. CASE continue("select", dd, w \o <<"KEXINIT">>) /\ io' = child
  BY <1>6, <1>8, <1>9
<1>10. CASE leave(after, wrote)
  <2>1. Early(after)
    BY <1>4, <1>5, <1>7 DEF Early, Before
  <2> QED
    BY <1>1, <1>4, <1>7, <1>10, <2>1, OrderedLeave
<1>11. CASE continue("select", after, wrote) /\ io' = child
  BY <1>7, <1>8, <1>11
<1> QED
  BY <1>2, <1>9, <1>10, <1>11

LEMMA OrderedHeadDuringRekey == ASSUME Core, Buffered, Ordered, head_during_rekey PROVE Ordered'
<1>1. /\ pc # "over" /\ d' = handoff_stdin(d) /\ io' = child_after_handoff(d, handoff_stdin(d))
      /\ pc' # "over" /\ received' = received
  BY DEF head_during_rekey, continue, clientVars
<1>2. Slots(d) /\ SameSlots(d)
  BY DEF Buffered, SameSlots
<1>3. FedWell(handoff_stdin(d), child_after_handoff(d, handoff_stdin(d)))
  BY <1>1, <1>2, HandsOff
<1>4. d'.early_close = d.early_close /\ d'.state = d.state
  BY <1>1, <1>3 DEF FedWell
<1> QED
  BY <1>1, <1>2, <1>4, OrderedFed

LEMMA OrderedRead ==
  ASSUME MaxEarly <= 1, Core, Buffered, Ordered, NEW m \in ClientMsgs, read_packet(m)
  PROVE  Ordered'
<1>1. DOMAIN d = DOMAIN new /\ pc = "select"
  BY DEF Buffered, Slots, read_packet
<1>2. CASE handle_inbound(m, "head")
  <2>1. m.kind = "data" /\ d.state = "Idle" => Len(d.pre_exec_stdin) < 1
    <3>1. m.kind = "data" /\ d.state = "Idle" => Len(d.pre_exec_stdin) < MaxEarly
      BY DEF read_packet
    <3>2. Len(d.pre_exec_stdin) \in Nat /\ MaxEarly \in Nat
      BY ChannelAssumption DEF Buffered, Slots, Chunks
    <3> QED
      BY <3>1, <3>2
  <2> QED
    BY <1>1, <1>2, <2>1, OrderedInbound
<1>3. ASSUME NEW w, leave(d, w), received' = received PROVE Ordered'
  BY <1>3, OrderedDisconnect
<1>4. ASSUME NEW then, then \notin {"select", "over"}, NEW dd, NEW w, continue(then, dd, w), io' = io,
             dd = d \/ \E q : dd = [d EXCEPT !.deferred = q], received' = received
      PROVE  Ordered'
  <2>1. /\ dd.pending_stdin = d.pending_stdin /\ dd.pre_exec_stdin = d.pre_exec_stdin
        /\ dd.client_eof = d.client_eof /\ dd.early_close = d.early_close /\ dd.state = d.state
    BY <1>1, <1>4 DEF new
  <2>2. pc' \notin {"select", "over"} /\ d' = dd
    BY <1>4 DEF continue
  <2> QED
    BY <1>1, <1>4, <2>1, <2>2, OrderedOn
<1>5. ASSUME NEW w, negotiate_rekey(m, w), received' = received PROVE Ordered'
  BY <1>3, <1>4, <1>5 DEF negotiate_rekey
<1>6. CASE rekey_active /\ step_rekey(m)
  <2>1. CASE pass_to_channel(m)
    BY <1>2, <1>3, <1>4, <2>1 DEF pass_to_channel, protocol_disconnect
  <2>2. CASE negotiate_rekey(m, <<>>) /\ received' = received
    BY <1>5, <2>2
  <2>3. CASE (continue("head", d, <<>>) \/ continue("head", d, <<"HYBRID_REPLY", "NEWKEYS">>)) /\ io' = io
             /\ received' = received
    BY <1>4, <2>3
  <2>4. CASE continue(IF d.deferred = <<>> THEN "head" ELSE "drain", [d EXCEPT !.deferred = <<>>], <<>>)
             /\ io' = io /\ received' = received
    <3>1. (IF d.deferred = <<>> THEN "head" ELSE "drain") \notin {"select", "over"}
      OBVIOUS
    <3> QED
      BY <1>4, <2>4, <3>1
  <2> QED
    BY <1>3, <1>6, <2>1, <2>2, <2>3, <2>4 DEF step_rekey, protocol_disconnect
<1> QED
  BY <1>2, <1>5, <1>6 DEF read_packet

LEMMA OrderedDrain ==
  ASSUME Core, Control, Buffered, HeldBack, Ordered, drain_deferred
  PROVE  Ordered'
<1> DEFINE then == IF Len(draining) = 1 THEN "head" ELSE "drain"
<1>1. pc = "drain" /\ draining # <<>> /\ handle_inbound(Head(draining), then) /\ then \in {"head", "drain"}
  BY DEF drain_deferred, Control
<1> HIDE DEF then
<1>2. Head(draining) \in ClientMsgs /\ Head(draining).kind # "data"
  <2>1. draining \in Seq(ClientMsgs) /\ Len(draining) \in Nat \ {0}
    BY <1>1, EmptySeq DEF Control
  <2>2. Head(draining) = draining[1] /\ 1 \in 1..Len(draining) /\ Head(draining) \in ClientMsgs
    BY <1>1, <2>1
  <2> QED
    BY <2>2 DEF HeldBack, NoData
<1> QED
  BY <1>1, <1>2, OrderedInbound

LEMMA OrderedArms ==
  ASSUME Core, Buffered, Ordered,
         \/ recv_out_data \/ recv_out_exited \/ recv_out_closed \/ recv_consumed
         \/ rekey_timeout \/ rekey_wake \/ drop_driver
  PROVE  Ordered'
<1>1. DOMAIN d = DOMAIN new /\ DOMAIN io = DOMAIN NoChild
  BY DEF Buffered, Slots, Pipes
<1>2. CASE recv_out_data \/ recv_out_exited \/ recv_out_closed \/ recv_consumed \/ rekey_wake
  <2>1. /\ pc' \notin {"select", "over"} /\ pc # "over" /\ received' = received
        /\ io' = io \/ io' = [io EXCEPT !.out = Tail(@)] \/ io' = [io EXCEPT !.credits = Tail(@)]
        /\ \/ d' = d
           \/ \E p : d' = [d EXCEPT !.pending_out = p]
           \/ \E e : io.out # <<>> /\ d' = [d EXCEPT !.exit_status = e, !.state = "Draining"]
           \/ d' = [d EXCEPT !.child_out_closed = TRUE]
           \/ d' = [d EXCEPT !.consumed_closed = TRUE]
           \/ \E p, b : d' = [d EXCEPT !.credit_pending = p, !.bytes_received = b]
    BY <1>2 DEF recv_out_data, recv_out_exited, recv_out_closed, recv_consumed, rekey_wake, arm, continue,
                clientVars
  <2>2. /\ d'.pending_stdin = d.pending_stdin /\ d'.pre_exec_stdin = d.pre_exec_stdin
        /\ d'.client_eof = d.client_eof /\ d'.early_close = d.early_close
        /\ d'.state = d.state \/ (io.out # <<>> /\ d'.state = "Draining")
    BY <1>1, <2>1 DEF new
  <2>3. /\ io'.stdin_q = io.stdin_q /\ io'.rest = io.rest /\ io'.delivered = io.delivered
        /\ io'.saw_eof = io.saw_eof /\ io'.stdin_pump = io.stdin_pump /\ io'.child = io.child
    BY <1>1, <2>1 DEF NoChild
  <2>4. io.out # <<>> => d.state \notin Before
    BY DEF Core, NotStarted, NoChild
  <2>5. Early(d') /\ Line(d', io') = Line(d, io)
    BY <2>2, <2>3, <2>4 DEF Ordered, Early, Before, Line
  <2>6. (Feeding' => Feeding) /\ NoneBehind'
    BY <2>1, <2>2, <2>3, <2>4 DEF Feeding, Before, has_child, NoneBehind
  <2>7. io'.stdin_pump = "done" => io'.rest = <<>>
    BY <2>3 DEF Ordered, PumpGone
  <2> QED
    BY <2>1, <2>2, <2>3, <2>5, <2>6, <2>7, OrderedBy
<1>3. CASE rekey_timeout \/ drop_driver
  <2>1. PICK w : leave(d, w)
    BY <1>3 DEF rekey_timeout, drop_driver
  <2>2. received' = received
    BY <1>3 DEF rekey_timeout, drop_driver, clientVars
  <2> QED
    BY <2>1, <2>2, OrderedDisconnect
<1> QED
  BY <1>2, <1>3

LEMMA OrderedChild == ASSUME Core, Buffered, Ordered, Child PROVE Ordered'
<1>1. d' = d /\ pc' = pc /\ received' = received
  BY DEF Child, pump_output, pump_output_eof, pump_pty_ends, leader_exits, try_reap, report_exit, child_step,
         pump_stdin_recv, pump_stdin_credit, pump_stdin_fails, pump_stdin_eof, pump_stdin_write, clientVars
<1>2. DOMAIN io = DOMAIN NoChild /\ io.stdin_q \in Chunks /\ io.rest \in Seq(Nat)
      /\ received \in Nat /\ io.delivered \in Nat /\ io.delivered <= received
  <2>1. io.delivered + Held(d, io) <= received /\ Held(d, io) \in Nat /\ io.delivered \in Nat /\ received \in Nat
    BY Sizes DEF Buffered, Pipes
  <2> QED
    BY <2>1 DEF Buffered, Pipes
<1>3. Early(d') /\ Early(d)'
  BY <1>1 DEF Ordered, Early
<1> DEFINE b == FlattenSeq(io.stdin_q)
           p == FlattenSeq(d.pending_stdin)
           e == FlattenSeq(d.pre_exec_stdin)
<1>4. b \in Seq(Nat) /\ p \in Seq(Nat) /\ e \in Seq(Nat)
  BY LineParts DEF Buffered
<1>5. CASE pump_stdin_fails \/ \E failed \in BOOLEAN : pump_pty_ends(failed)
  <2>1. \/ io' = stdin_gone(io)
        \/ io' = stdin_gone([io EXCEPT !.pumps["stdout"] = "done"])
        \/ io' = kill(stdin_gone([io EXCEPT !.pumps["stdout"] = "done"]))
    BY <1>5 DEF pump_stdin_fails, pump_pty_ends, child_step
  <2>2. /\ io'.child = io.child /\ io'.stdin_pump = "done" /\ io'.rest = <<>>
        /\ io'.delivered = io.delivered /\ io'.saw_eof = io.saw_eof
    BY <1>2, <2>1 DEF NoChild, stdin_gone, kill
  <2>3. io.child # "none"
    BY <1>5 DEF pump_stdin_fails, pump_pty_ends, Core, NotStarted, NoChild
  <2>4. ~Feeding' /\ NoneBehind'
    BY <1>1, <2>2, <2>3 DEF Feeding, Core, NotStarted, Ordered, NoneBehind, has_child
  <2> QED
    BY <1>1, <1>3, <2>2, <2>4, OrderedBy
<1>6. CASE pump_stdin_eof
  <2>1. /\ io' = [io EXCEPT !.stdin_pump = "done", !.saw_eof = TRUE]
        /\ io.stdin_pump = "open" /\ ~io.stdin_tx /\ io.stdin_q = <<>> /\ io.rest = <<>>
    BY <1>6 DEF pump_stdin_eof, child_step
  <2>2. /\ io'.child = io.child /\ io'.stdin_pump = "done" /\ io'.rest = <<>>
        /\ io'.delivered = io.delivered /\ io'.saw_eof = TRUE
    BY <1>2, <2>1 DEF NoChild
  <2>3. io.child # "none" /\ pc # "over"
    BY <2>1 DEF Core, NotStarted, NoChild, Ordered, PumpGone
  <2>4. ~Feeding' /\ NoneBehind' /\ PumpGone'
    BY <1>1, <2>2, <2>3 DEF Feeding, Core, NotStarted, Ordered, NoneBehind, has_child, PumpGone
  <2>5. ASSUME ~d.early_close PROVE d.client_eof /\ io.delivered = received
    <3>1. d.client_eof /\ d.pending_stdin = None /\ d.pre_exec_stdin = <<>>
      BY <2>1, <2>3, <2>5 DEF Buffered, EofSent
    <3>2. Feeding
      BY <2>1, <2>3, <2>5 DEF Feeding, has_child
    <3>3. Line(d, io) = Span(io.delivered, received)
      BY <3>2 DEF Ordered, InLine
    <3>4. b = <<>> /\ p = <<>> /\ e = <<>> /\ io.rest = <<>>
      BY <2>1, <3>1, FlattenEmpty DEF None
    <3>5. Line(d, io) = Cat(Cat(Cat(<<>>, <<>>), <<>>), <<>>)
      BY <3>4, LineCat
    <3>6. Line(d, io) = <<>>
      <4>1. <<>> \in Seq(Nat)
        OBVIOUS
      <4>2. Cat(<<>>, <<>>) = <<>>
        BY <4>1, CatLaws
      <4> QED
        BY <3>5, <4>2
    <3>7. Len(Span(io.delivered, received)) = received - io.delivered
      BY <1>2, SpanType
    <3>8. received - io.delivered = 0
      <4>1. Len(<<>>) = 0
        OBVIOUS
      <4> QED
        BY <3>3, <3>6, <3>7, <4>1
    <3>9. io.delivered = received
      BY <1>2, <3>8
    <3> QED
      BY <3>1, <3>9
  <2>6. EofLast'
    BY <1>1, <2>2, <2>5 DEF EofLast
  <2>7. InLine'
    BY <2>4 DEF InLine
  <2> QED
    BY <1>3, <2>4, <2>6, <2>7 DEF Ordered
<1>7. CASE pump_stdin_recv
  <2>1. /\ io' = [io EXCEPT !.rest = Head(io.stdin_q), !.stdin_q = Tail(@),
                         !.credits = IF io.on_pty /\ Head(io.stdin_q) = <<>> THEN Append(@, 0) ELSE @]
        /\ io.stdin_q # <<>> /\ io.rest = <<>> /\ io.stdin_pump = "open"
    BY <1>7 DEF pump_stdin_recv, child_step
  <2>2. /\ io'.rest = Head(io.stdin_q) /\ io'.stdin_q = Tail(io.stdin_q) /\ io'.child = io.child
        /\ io'.stdin_pump = "open" /\ io'.delivered = io.delivered /\ io'.saw_eof = io.saw_eof
    BY <1>2, <2>1 DEF NoChild
  <2>3. b = Cat(Head(io.stdin_q), FlattenSeq(Tail(io.stdin_q)))
    BY <1>2, <2>1, FlattenTail DEF Cat
  <2>4. Line(d', io') = Cat(Cat(b, p), e)
    <3> HIDE DEF b, p, e
    <3>1. FlattenSeq(d'.pending_stdin) = p /\ FlattenSeq(d'.pre_exec_stdin) = e
      BY <1>1 DEF p, e
    <3> QED
      BY <2>2, <2>3, <3>1, LineCat
  <2>5. Line(d, io) = Cat(Cat(Cat(<<>>, b), p), e)
    BY <2>1, LineCat
  <2>6. Line(d', io') = Line(d, io)
    <3> HIDE DEF b, p, e
    <3>1. Cat(<<>>, b) = b
      BY <1>4, CatLaws
    <3> QED
      BY <2>4, <2>5, <3>1
  <2>7. Feeding' => Feeding
    BY <1>1, <2>1, <2>2 DEF Feeding, has_child
  <2>8. Line(d, io)' = Line(d', io') /\ Span(io.delivered, received)' = Span(io'.delivered, received')
    BY DEF Line, Span
  <2>9. InLine'
    BY <1>1, <2>2, <2>6, <2>7, <2>8 DEF Ordered, InLine
  <2>10. NoneBehind' /\ EofLast' /\ PumpGone'
    BY <1>1, <2>1, <2>2 DEF Ordered, NoneBehind, EofLast, PumpGone, has_child
  <2> QED
    BY <1>3, <2>9, <2>10 DEF Ordered
<1>8. ASSUME NEW n \in 1..INITIAL_WINDOW, pump_stdin_write(n) PROVE Ordered'
  <2>1. /\ io' = [io EXCEPT !.rest = SubSeq(@, n + 1, Len(@)), !.delivered = @ + n, !.uncredited = n]
        /\ n <= Len(io.rest)
    BY <1>8 DEF pump_stdin_write, child_step
  <2>2. /\ io'.rest = SubSeq(io.rest, n + 1, Len(io.rest)) /\ io'.delivered = io.delivered + n
        /\ io'.stdin_q = io.stdin_q /\ io'.child = io.child /\ io'.stdin_pump = io.stdin_pump
        /\ io'.saw_eof = io.saw_eof
    BY <1>2, <2>1 DEF NoChild
  <2>3. n \in Nat /\ n > 0
    BY ChannelAssumption
  <2>4. io.stdin_pump # "done" /\ pc # "over" /\ ~io.saw_eof
    <3>1. Len(<<>>) = 0 /\ ~(n <= 0)
      BY <2>3
    <3>2. io.rest # <<>>
      BY <2>1, <3>1
    <3> QED
      BY <3>2 DEF Ordered, PumpGone, EofLast
  <2>5. Feeding' => Feeding
    BY <1>1, <2>2 DEF Feeding, has_child
  <2>6. ASSUME Feeding' PROVE Line(d', io') = Span(io'.delivered, received')
    <3> DEFINE t == Cat(b, Cat(p, e))
               less == SubSeq(io.rest, n + 1, Len(io.rest))
    <3>1. t \in Seq(Nat) /\ Cat(p, e) \in Seq(Nat)
      <4> HIDE DEF b, p, e
      <4>1. Cat(p, e) \in Seq(Nat)
        BY <1>4, CatLaws
      <4> QED
        BY <1>4, <4>1, CatLaws
    <3>2. less \in Seq(Nat)
      BY <1>2, <2>1, <2>3
    <3>3. Line(d', io') = Cat(Cat(Cat(less, b), p), e)
      BY <1>1, <2>2, LineCat
    <3>4. Line(d, io) = Cat(Cat(Cat(io.rest, b), p), e)
      BY LineCat
    <3>5. ASSUME NEW s \in Seq(Nat) PROVE Cat(Cat(Cat(s, b), p), e) = Cat(s, t)
      <4> HIDE DEF b, p, e
      <4>1. Cat(s, b) \in Seq(Nat)
        BY <1>4, CatLaws
      <4>2. Cat(Cat(Cat(s, b), p), e) = Cat(Cat(s, b), Cat(p, e))
        BY <1>4, <4>1, CatLaws
      <4>3. Cat(Cat(s, b), Cat(p, e)) = Cat(s, Cat(b, Cat(p, e)))
        BY <1>4, <3>1, CatLaws
      <4> QED
        BY <4>2, <4>3
    <3> HIDE DEF t, b, p, e
    <3>6. io.rest \o t = Span(io.delivered, received)
      <4>1. Line(d, io) = Span(io.delivered, received)
        BY <2>5, <2>6 DEF Ordered, InLine
      <4>2. Line(d, io) = Cat(io.rest, t)
        BY <1>2, <3>4, <3>5
      <4> QED
        BY <4>1, <4>2 DEF Cat
    <3>7. less \o t = Span(io.delivered + n, received)
      <4> HIDE DEF t
      <4>1. Splits(io.rest, t, io.delivered, received)
        BY <3>6 DEF Splits
      <4>2. Splits(less, t, io.delivered + n, received)
        BY <1>2, <2>1, <2>3, <3>1, <4>1, SplitDrops
      <4> QED
        BY <4>2 DEF Splits
    <3>8. Line(d', io') = less \o t
      <4> HIDE DEF less
      <4>1. Line(d', io') = Cat(less, t)
        BY <3>2, <3>3, <3>5
      <4> QED
        BY <4>1 DEF Cat
    <3> QED
      BY <1>1, <2>2, <3>7, <3>8
  <2>7. InLine'
    BY <2>6 DEF InLine, Line, Span
  <2>8. NoneBehind' /\ EofLast' /\ PumpGone'
    BY <1>1, <2>2, <2>4 DEF Ordered, NoneBehind, EofLast, PumpGone, has_child
  <2> QED
    BY <1>3, <2>7, <2>8 DEF Ordered
<1>9. CASE leader_exits \/ try_reap \/ report_exit \/ pump_stdin_credit
           \/ \E s \in Streams : pump_output_eof(s) \/ \E n \in 1..CHUNK : pump_output(s, n)
  <2>1. \/ \E s \in Streams : io' = [io EXCEPT !.pumps[s] = "done"]
        \/ \E c : io.child # "none" /\ io' = [io EXCEPT !.child = c]
        \/ \E o, k : io' = [io EXCEPT !.out = o, !.produced = k]
        \/ \E c, o : io.child # "none" /\ io' = [io EXCEPT !.child = c, !.out = o]
        \/ io' = [io EXCEPT !.credits = Append(@, io.uncredited), !.uncredited = 0]
    BY <1>9 DEF leader_exits, try_reap, report_exit, pump_output_eof, pump_output, pump_stdin_credit, child_step
  <2>2. /\ io'.rest = io.rest /\ io'.stdin_q = io.stdin_q /\ io'.stdin_pump = io.stdin_pump
        /\ io'.delivered = io.delivered /\ io'.saw_eof = io.saw_eof
        /\ io'.child # "none" => io.child # "none"
    BY <1>2, <2>1 DEF NoChild
  <2>3. Line(d', io') = Line(d, io)
    BY <1>1, <2>2 DEF Line
  <2>4. (Feeding' => Feeding) /\ NoneBehind'
    BY <1>1, <2>2 DEF Feeding, has_child, Ordered, NoneBehind
  <2>5. (io'.stdin_pump = "done" => io'.rest = <<>>) /\ (pc' = "over" => io'.stdin_pump = "done")
    BY <1>1, <2>2 DEF Ordered, PumpGone
  <2> QED
    BY <1>1, <1>3, <2>2, <2>3, <2>4, <2>5, OrderedBy
<1> QED
  BY <1>5, <1>6, <1>7, <1>8, <1>9 DEF Child

\* Nothing is deferred or taken to be handled by this step.
LEMMA HeldBackSame == ASSUME HeldBack, d'.deferred = d.deferred, draining' = draining PROVE HeldBack'
  BY DEF HeldBack, NoData

\* Only what needs an answer is deferred, and only NEWKEYS lets it be handled.
LEMMA HeldBackRead ==
  ASSUME Core, Control, HeldBack, NEW m \in ClientMsgs, read_packet(m)
  PROVE  HeldBack'
<1>1. DriverType /\ DOMAIN d = DOMAIN new /\ d.deferred \in Seq(ClientMsgs)
  BY DEF Core, DriverType, Control
<1>2. ASSUME NEW w, leave(d, w), draining' = draining PROVE HeldBack'
  BY <1>1, <1>2, LeaveControl, HeldBackSame
<1>3. ASSUME NEW p, NEW w, continue(p, d, w), draining' = draining PROVE HeldBack'
  BY <1>3, HeldBackSame DEF continue
<1>4. ASSUME handle_inbound(m, "head"), draining' = draining PROVE HeldBack'
  BY <1>1, <1>4, InboundControl, HeldBackSame
<1>5. ASSUME protocol_disconnect, draining' = draining PROVE HeldBack'
  BY <1>2, <1>5 DEF protocol_disconnect
<1>6. ASSUME NEW w, negotiate_rekey(m, w), draining' = draining PROVE HeldBack'
  BY <1>2, <1>3, <1>6 DEF negotiate_rekey
<1>7. ASSUME pass_to_channel(m), draining' = draining PROVE HeldBack'
  <2>1. CASE passes(m)
    BY <1>4, <1>7, <2>1 DEF pass_to_channel
  <2>2. CASE ~passes(m) /\ Len(d.deferred) >= MAX_DEFERRED
    BY <1>5, <1>7, <2>2 DEF pass_to_channel
  <2>3. CASE ~passes(m) /\ ~(Len(d.deferred) >= MAX_DEFERRED)
    <3>1. d' = [d EXCEPT !.deferred = Append(@, m)]
      BY <1>7, <2>3 DEF pass_to_channel, continue
    <3>2. d'.deferred = Append(d.deferred, m) /\ m.kind # "data"
      BY <1>1, <2>3, <3>1 DEF new, passes
    <3>3. \A i \in 1..Len(d.deferred) : d.deferred[i].kind # "data"
      BY DEF HeldBack, NoData
    <3> DEFINE q == Append(d.deferred, m)
    <3>4. Len(q) = Len(d.deferred) + 1 /\ Len(d.deferred) \in Nat
          /\ \A i \in 1..Len(d.deferred) + 1 : q[i] = IF i <= Len(d.deferred) THEN d.deferred[i] ELSE m
      BY <1>1
    <3> HIDE DEF q
    <3>5. ASSUME NEW i \in 1..Len(q) PROVE q[i].kind # "data"
      BY <3>2, <3>3, <3>4
    <3>6. NoData(q) /\ NoData(draining)
      BY <3>5 DEF NoData, HeldBack
    <3> QED
      BY <1>7, <3>2, <3>6 DEF HeldBack, NoData, q
  <2> QED
    BY <2>1, <2>2, <2>3
<1>8. ASSUME draining' = d.deferred, NEW p, continue(p, [d EXCEPT !.deferred = <<>>], <<>>) PROVE HeldBack'
  <2>1. d'.deferred = <<>>
    BY <1>1, <1>8 DEF continue, new
  <2>2. NoData(<<>>)
    BY DEF NoData
  <2> QED
    BY <1>8, <2>1, <2>2 DEF HeldBack, NoData
<1>9. CASE step_rekey(m)
  BY <1>3, <1>5, <1>6, <1>7, <1>8, <1>9 DEF step_rekey
<1> QED
  BY <1>4, <1>6, <1>9 DEF read_packet

LEMMA HeldBackDrain == ASSUME Core, Control, HeldBack, drain_deferred PROVE HeldBack'
<1>1. draining # <<>> /\ draining \in Seq(ClientMsgs) /\ draining' = Tail(draining)
  BY DEF drain_deferred, Control
<1>2. Head(draining) \in ClientMsgs
  BY <1>1
<1>3. d'.deferred = d.deferred
  BY <1>2, InboundControl DEF drain_deferred, Core
<1>4. NoData(Tail(draining))
  <2>1. Len(draining) \in Nat \ {0}
    BY <1>1, EmptySeq
  <2>2. Len(Tail(draining)) = Len(draining) - 1
        /\ \A i \in 1..Len(draining) - 1 : Tail(draining)[i] = draining[i + 1]
    BY <1>1, <2>1
  <2>3. \A i \in 1..Len(draining) : draining[i].kind # "data"
    BY DEF HeldBack, NoData
  <2> DEFINE t == Tail(draining)
  <2> HIDE DEF t
  <2>4. ASSUME NEW i \in 1..Len(t) PROVE t[i].kind # "data"
    <3>1. i + 1 \in 1..Len(draining) /\ t[i] = draining[i + 1]
      BY <2>1, <2>2 DEF t
    <3> QED
      BY <2>3, <3>1
  <2> QED
    BY <2>4 DEF NoData, t
<1> QED
  BY <1>1, <1>3, <1>4 DEF HeldBack, NoData

LEMMA HeldBackHead == ASSUME Core, HeldBack, NEW due, head(due) PROVE HeldBack'
<1> DEFINE flushed == flush_output(d)
           fed == handoff_stdin(flushed)
           dd == replenish_window(fed)
           after == IF ready_to_close(dd) THEN send_terminal(dd) ELSE dd
<1>1. draining' = draining /\ \/ \E w : continue("select", dd, w)
                              \/ \E w : leave(after, w) \/ continue("select", after, w)
  BY DEF head
<1>2. /\ dd.deferred = d.deferred /\ DOMAIN after = DOMAIN new /\ after.deferred = d.deferred
  <2>1. DOMAIN flushed = DOMAIN new /\ flushed.deferred = d.deferred
    BY DEF Core, DriverType, flush_output, new
  <2> HIDE DEF flushed
  <2>2. DOMAIN fed = DOMAIN new /\ fed.deferred = d.deferred
    BY <2>1 DEF handoff_stdin, handed_off, refilled, new
  <2> HIDE DEF fed
  <2>3. DOMAIN dd = DOMAIN new /\ dd.deferred = d.deferred
    BY <2>2 DEF replenish_window, new
  <2> HIDE DEF dd
  <2> QED
    BY <2>3 DEF send_terminal, new
<1> HIDE DEF dd, after
<1>3. d'.deferred = d.deferred
  <2>1. ASSUME NEW w, leave(after, w) PROVE d'.deferred = d.deferred
    BY <1>2, <2>1, LeaveControl
  <2>2. ASSUME NEW x, x.deferred = d.deferred, NEW w, continue("select", x, w) PROVE d'.deferred = d.deferred
    BY <2>2 DEF continue
  <2> QED
    BY <1>1, <1>2, <2>1, <2>2
<1> QED
  BY <1>1, <1>3, HeldBackSame

LEMMA HeldBackOthers ==
  ASSUME Core, HeldBack,
         \/ head_during_rekey
         \/ recv_out_data \/ recv_out_exited \/ recv_out_closed \/ recv_consumed
         \/ rekey_timeout \/ rekey_wake \/ drop_driver \/ Child
  PROVE  HeldBack'
<1>1. DOMAIN d = DOMAIN new
  BY DEF Core, DriverType
<1>2. CASE head_during_rekey
  <2>1. handoff_stdin(d).deferred = d.deferred
    BY <1>1 DEF handoff_stdin, handed_off, refilled, new
  <2>2. d' = handoff_stdin(d) /\ draining' = draining
    BY <1>2 DEF head_during_rekey, continue
  <2> QED
    BY <2>1, <2>2, HeldBackSame
<1>3. CASE recv_out_data \/ recv_out_exited \/ recv_out_closed \/ recv_consumed \/ rekey_wake
  <2>1. draining' = draining /\ \/ d' = d
                                \/ \E p : d' = [d EXCEPT !.pending_out = p]
                                \/ \E e : d' = [d EXCEPT !.exit_status = e, !.state = "Draining"]
                                \/ d' = [d EXCEPT !.child_out_closed = TRUE]
                                \/ d' = [d EXCEPT !.consumed_closed = TRUE]
                                \/ \E p, b : d' = [d EXCEPT !.credit_pending = p, !.bytes_received = b]
    BY <1>3 DEF recv_out_data, recv_out_exited, recv_out_closed, recv_consumed, rekey_wake, arm, continue
  <2>2. d'.deferred = d.deferred
    BY <1>1, <2>1 DEF new
  <2> QED
    BY <2>1, <2>2, HeldBackSame
<1>4. CASE rekey_timeout \/ drop_driver
  <2>1. draining' = draining /\ \E w : leave(d, w)
    BY <1>4 DEF rekey_timeout, drop_driver
  <2> QED
    BY <1>1, <2>1, LeaveControl, HeldBackSame
<1>5. CASE Child
  <2>1. d' = d /\ draining' = draining
    BY <1>5 DEF Child, pump_output, pump_output_eof, pump_pty_ends, leader_exits, try_reap, report_exit, child_step,
                pump_stdin_recv, pump_stdin_credit, pump_stdin_fails, pump_stdin_eof, pump_stdin_write
  <2> QED
    BY <2>1, HeldBackSame
<1> QED
  BY <1>2, <1>3, <1>4, <1>5

LEMMA OrderedInit == Init => Ordered /\ HeldBack
<1> SUFFICES ASSUME Init PROVE Ordered /\ HeldBack
  OBVIOUS
<1>1. /\ pc = "head" /\ d = new /\ io = NoChild /\ received = 0 /\ draining = <<>>
  BY DEF Init
<1>2. /\ d.pending_stdin = None /\ d.pre_exec_stdin = <<>> /\ d.deferred = <<>>
      /\ io.stdin_q = <<>> /\ io.rest = <<>> /\ io.delivered = 0 /\ ~io.saw_eof
  BY <1>1 DEF new, NoChild
<1>3. Line(d, io) = <<>>
  <2>1. Line(d, io) = Cat(Cat(Cat(<<>>, <<>>), <<>>), <<>>)
    BY <1>2, LineCat, FlattenEmpty DEF None
  <2>2. <<>> \in Seq(Nat)
    OBVIOUS
  <2>3. Cat(<<>>, <<>>) = <<>>
    BY <2>2, CatLaws
  <2> QED
    BY <2>1, <2>3
<1>4. Span(0, 0) = <<>>
  <2>1. Span(0, 0) \in Seq(Nat) /\ Len(Span(0, 0)) = 0
    BY SpanType
  <2> QED
    BY <2>1, EmptySeq
<1>5. InLine
  BY <1>1, <1>2, <1>3, <1>4 DEF InLine
<1>6. Early(d)
  BY <1>2 DEF Early
<1>7. NoneBehind /\ EofLast /\ PumpGone
  BY <1>1, <1>2 DEF NoneBehind, EofLast, PumpGone
<1>8. HeldBack
  BY <1>1, <1>2 DEF HeldBack, NoData
<1> QED
  BY <1>5, <1>6, <1>7, <1>8 DEF Ordered

\* Whatever the sizes of window, chunks and queues, a child is given what the
\* client sent, complete and in order, and its EOF after the last byte, as long
\* as the client sends no second packet before its exec (on_channel_data,
\* handoff_stdin, pump_stdin).  Two early packets can be reordered: a second one
\* is still in pre_exec_stdin when later data takes the slot ahead of it.
THEOREM StdinStaysInOrder == ASSUME MaxEarly <= 1 PROVE Spec => []StdinInOrder
<1>1. IInv /\ Buffered /\ Ordered /\ HeldBack /\ [Next]_vars => Ordered' /\ HeldBack'
  <2> SUFFICES ASSUME IInv, Buffered, Ordered, HeldBack, [Next]_vars PROVE Ordered' /\ HeldBack'
    OBVIOUS
  <2>1. Core /\ Control
    BY DEF IInv
  <2>2. CASE Driver
    <3>1. Ordered'
      BY <2>1, <2>2, OrderedHead, OrderedHeadDuringRekey, OrderedDrain, OrderedArms DEF Driver
    <3>2. HeldBack'
      BY <2>1, <2>2, HeldBackHead, HeldBackDrain, HeldBackOthers DEF Driver
    <3> QED
      BY <3>1, <3>2
  <2>3. ASSUME NEW m \in ClientMsgs, read_packet(m) PROVE Ordered' /\ HeldBack'
    BY <2>1, <2>3, OrderedRead, HeldBackRead
  <2>4. CASE rekey_timeout \/ rekey_wake \/ drop_driver
    BY <2>1, <2>4, OrderedArms, HeldBackOthers
  <2>5. CASE Child
    BY <2>1, <2>5, OrderedChild, HeldBackOthers
  <2>6. CASE UNCHANGED vars
    <3>1. UNCHANGED <<pc, d, io, draining, received>>
      BY <2>6 DEF vars
    <3> QED
      BY <3>1 DEF Ordered, InLine, Feeding, has_child, Line, Span, Early, NoneBehind, EofLast, PumpGone,
                  HeldBack, NoData
  <2> QED
    BY <2>2, <2>3, <2>4, <2>5, <2>6 DEF Next, Finished
<1>2. Ordered => StdinInOrder
  <2> SUFFICES ASSUME Ordered PROVE StdinInOrder
    OBVIOUS
  <2>1. StdinLive => Feeding
    BY DEF StdinLive, Feeding, Before
  <2>2. Undelivered = Line(d, io) /\ [i \in 1..(received - io.delivered) |-> io.delivered + i] = Span(io.delivered, received)
    BY DEF Undelivered, Line, Span
  <2>3. StdinLive => Undelivered = [i \in 1..(received - io.delivered) |-> io.delivered + i]
    BY <2>1, <2>2 DEF Ordered, InLine
  <2>4. io.saw_eof /\ ~d.early_close => d.client_eof /\ io.delivered = received
    BY DEF Ordered, EofLast
  <2> QED
    BY <2>3, <2>4 DEF StdinInOrder
<1> QED
  BY <1>1, <1>2, OrderedInit, ConservesInit, ConservesStep, Invariance, PTL DEF Spec
=============================================================================
