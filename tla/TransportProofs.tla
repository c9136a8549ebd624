--------------------------- MODULE TransportProofs ---------------------------
(* Theorems about Transport, for all bounds, budgets, ranges of sequence     *)
(* numbers and kinds of client.  The first part counts the authentication    *)
(* requests.  The second relates the two ends: each direction of the         *)
(* connection is a stream whose places say which keys, which number and      *)
(* which step of an exchange come next, and the invariant is that what is on *)
(* the wire leads from the reader's place to the writer's.                   *)
EXTENDS Transport, WellFoundedInduction, TLAPS

Fields ==
  {"stage", "reason", "seq_tx", "seq_rx", "tx", "rx", "session_id", "ext_info", "i_s", "i_c",
   "attempts", "failures", "phase", "new_rx", "bytes_rx", "bytes_tx", "pc", "open", "deferred", "begun",
   "sealed", "opened", "wire"}

Early == {"Version", "KexInit", "SkipGuessed", "HybridInit", "NewKeys", "ServiceRequest"}
Late == {"Session", "Closed"}

\* The packets that wait for the end of a re-key are a sequence.
Queued(e) == \E T : e.deferred \in Seq(T)

\* What the requests read so far have cost, by stage.
Budget ==
  /\ DOMAIN s = Fields /\ Queued(s) /\ s.stage \in Early \cup {"UserAuth"} \cup Late
  /\ requests \in Nat
  /\ s.stage \in Early => s.attempts = 0 /\ requests = 0
  /\ s.stage = "UserAuth" => s.attempts = requests /\ requests < MAX_AUTH_ATTEMPTS
  /\ s.stage \in Late => requests <= MAX_AUTH_ATTEMPTS

-----------------------------------------------------------------------------
(* What the operators leave alone.                                           *)

\* f is e with nothing of the stage or the budget changed.
Like(e, f) ==
  DOMAIN f = Fields /\ f.stage = e.stage /\ f.attempts = e.attempts /\ f.deferred = e.deferred

\* f is e, closed.
Gone(e, f) ==
  DOMAIN f = Fields /\ f.stage = "Closed" /\ f.attempts = e.attempts /\ f.deferred = e.deferred

LEMMA Puts ==
  ASSUME NEW e, DOMAIN e = Fields, NEW m
  PROVE  /\ Like(e, put(e, m)) /\ Like(e, write_plain(e, m)) /\ Like(e, write_sealed(e, m))
         /\ Like(e, write_packet(e, m))
<1>1. Like(e, put(e, m))
  BY DEF Like, put, Fields
<1>2. Like(e, write_sealed(e, m))
  <2> DEFINE f == put(e, m)
  <2> HIDE DEF f
  <2>1. ASSUME Like(e, f) PROVE Like(e, [f EXCEPT !.sealed = @ + 1])
    BY <2>1 DEF Like, Fields
  <2> QED
    BY <1>1, <2>1 DEF write_sealed, f
<1>3. Like(e, write_packet(e, m))
  <2> DEFINE f == write_sealed(e, m)
  <2> HIDE DEF f
  <2>1. ASSUME Like(e, f) PROVE Like(e, [f EXCEPT !.bytes_tx = @ + 1])
    BY <2>1 DEF Like, Fields
  <2> QED
    BY <1>2, <2>1 DEF write_packet, f
<1> QED
  BY <1>1, <1>2, <1>3 DEF write_plain

LEMMA Reads ==
  ASSUME NEW e, DOMAIN e = Fields
  PROVE  Like(e, read_plain(e)) /\ Like(e, read_sealed(e)) /\ Like(e, read_packet(e))
<1>1. Like(e, read_plain(e))
  BY DEF Like, read_plain, Fields
<1>2. Like(e, read_sealed(e))
  <2> DEFINE f == read_plain(e)
  <2> HIDE DEF f
  <2>1. ASSUME Like(e, f) PROVE Like(e, [f EXCEPT !.opened = @ + 1])
    BY <2>1 DEF Like, Fields
  <2> QED
    BY <1>1, <2>1 DEF read_sealed, f
<1>3. Like(e, read_packet(e))
  <2> DEFINE f == read_sealed(e)
  <2> HIDE DEF f
  <2>1. ASSUME Like(e, f) PROVE Like(e, [f EXCEPT !.bytes_rx = @ + 1])
    BY <2>1 DEF Like, Fields
  <2> QED
    BY <1>2, <2>1 DEF read_packet, f
<1> QED
  BY <1>1, <1>2, <1>3

LEMMA Closes ==
  ASSUME NEW e, DOMAIN e = Fields, NEW reason
  PROVE  Gone(e, close(e, reason))
BY DEF Gone, close, Fields

LEMMA Rejects ==
  ASSUME NEW e, DOMAIN e = Fields, NEW reason
  PROVE  /\ Gone(e, reject_plain(e, reason)) /\ Gone(e, reject_sealed(e, reason))
         /\ Gone(e, protocol_disconnect(e, reason))
<1>1. ASSUME NEW f, Like(e, f) PROVE Gone(e, close(f, reason))
  BY <1>1, Closes DEF Like, Gone
<1>2. Gone(e, reject_plain(e, reason)) /\ Gone(e, reject_sealed(e, reason))
  BY <1>1, Puts DEF reject_plain, reject_sealed
<1> QED
  BY <1>2 DEF protocol_disconnect

-----------------------------------------------------------------------------
(* The handshake.                                                            *)

\* f is e, closed or on to one of the stages.
OnTo(e, f, stages) ==
  /\ DOMAIN f = Fields /\ f.attempts = e.attempts /\ f.deferred = e.deferred
  /\ f.stage \in stages \cup {"Closed"}

LEMMA Handshake ==
  ASSUME NEW e, DOMAIN e = Fields, NEW m
  PROVE  /\ OnTo(e, exchange_kexinit(e, m), {"SkipGuessed", "HybridInit"})
         /\ OnTo(e, [e EXCEPT !.stage = "HybridInit"], {"HybridInit"})
         /\ OnTo(e, run_hybrid(e, m), {"NewKeys"})
         /\ OnTo(e, exchange_newkeys(e, m), {"ServiceRequest"})
         /\ OnTo(e, read_service_request(e, m), {"UserAuth"})
<1>1. ASSUME NEW f, Gone(e, f), NEW S PROVE OnTo(e, f, S)
  BY <1>1 DEF Gone, OnTo
<1>2. OnTo(e, exchange_kexinit(e, m), {"SkipGuessed", "HybridInit"})
  <2> DEFINE stage == IF m.guess = "wrong" THEN "SkipGuessed" ELSE "HybridInit"
             f == [e EXCEPT !.stage = stage, !.i_c = m.n, !.ext_info = m.ext]
  <2>1. stage \in {"SkipGuessed", "HybridInit"}
    OBVIOUS
  <2>2. OnTo(e, f, {"SkipGuessed", "HybridInit"})
    <3> HIDE DEF stage
    <3> QED
      BY <2>1 DEF OnTo, Fields
  <2>3. \/ exchange_kexinit(e, m) = f
        \/ \E reason : exchange_kexinit(e, m) = reject_plain(e, reason)
    BY DEF exchange_kexinit
  <2> HIDE DEF f
  <2> QED
    BY <1>1, <2>2, <2>3, Rejects
<1>3. OnTo(e, [e EXCEPT !.stage = "HybridInit"], {"HybridInit"})
  BY DEF OnTo, Fields
<1>4. OnTo(e, run_hybrid(e, m), {"NewKeys"})
  <2> DEFINE g == write_plain(write_plain(e, Msg("hybrid_reply")), Msg("newkeys"))
             f == [g EXCEPT !.stage = "NewKeys", !.seq_tx = 0]
  <2>1. Like(e, g)
    BY Puts DEF Like
  <2>2. OnTo(e, f, {"NewKeys"})
    <3> HIDE DEF g
    <3> QED
      BY <2>1 DEF Like, OnTo, Fields
  <2>3. run_hybrid(e, m) = f \/ \E reason : run_hybrid(e, m) = reject_plain(e, reason)
    BY DEF run_hybrid
  <2> HIDE DEF f
  <2> QED
    BY <1>1, <2>2, <2>3, Rejects
<1>5. OnTo(e, exchange_newkeys(e, m), {"ServiceRequest"})
  <2> DEFINE h == exchange_hash(e)
             f == [e EXCEPT !.stage = "ServiceRequest", !.seq_rx = 0, !.session_id = h,
                            !.rx = derive_cipher(h, h, "c2s"), !.tx = derive_cipher(h, h, "s2c")]
  <2>1. OnTo(e, f, {"ServiceRequest"})
    BY DEF OnTo, Fields
  <2>2. \/ exchange_newkeys(e, m) \in {f, write_sealed(f, Msg("ext_info"))}
        \/ \E reason : exchange_newkeys(e, m) = reject_plain(e, reason)
    BY DEF exchange_newkeys
  <2> HIDE DEF f
  <2>3. OnTo(e, write_sealed(f, Msg("ext_info")), {"ServiceRequest"})
    BY <2>1, Puts DEF OnTo, Like
  <2> QED
    BY <1>1, <2>1, <2>2, <2>3, Rejects
<1>6. OnTo(e, read_service_request(e, m), {"UserAuth"})
  <2> DEFINE g == write_sealed(e, Msg("accept"))
             f == [g EXCEPT !.stage = "UserAuth"]
  <2>1. Like(e, g)
    BY Puts
  <2>2. OnTo(e, f, {"UserAuth"})
    <3> HIDE DEF g
    <3> QED
      BY <2>1 DEF Like, OnTo, Fields
  <2>3. read_service_request(e, m) = f \/ \E reason : read_service_request(e, m) = reject_sealed(e, reason)
    BY DEF read_service_request
  <2> HIDE DEF f
  <2> QED
    BY <1>1, <2>2, <2>3, Rejects
<1> QED
  BY <1>2, <1>3, <1>4, <1>5, <1>6

\* Every request is paid for, and the last one ends the connection.
LEMMA Spends ==
  ASSUME NEW e, DOMAIN e = Fields, e.attempts \in Nat, e.attempts < MAX_AUTH_ATTEMPTS, e.stage = "UserAuth",
         NEW failed, NEW answer
  PROVE  LET f == spend(e, failed, answer) IN
         /\ DOMAIN f = Fields /\ f.deferred = e.deferred
         /\ \/ f.stage = "Closed"
            \/ f.stage = "UserAuth" /\ f.attempts = e.attempts + 1 /\ f.attempts < MAX_AUTH_ATTEMPTS
<1> DEFINE g == [e EXCEPT !.attempts = @ + 1, !.failures = IF failed THEN @ + 1 ELSE @]
<1>1. DOMAIN g = Fields /\ g.deferred = e.deferred /\ g.stage = "UserAuth" /\ g.attempts = e.attempts + 1
  BY DEF Fields
<1>2. spend(e, failed, answer) = IF g.attempts >= MAX_AUTH_ATTEMPTS
                                 THEN reject_sealed(g, "too-many-auth-attempts") ELSE write_sealed(g, Msg(answer))
  BY DEF spend
<1>3. MAX_AUTH_ATTEMPTS \in Nat
  BY TransportAssumption
<1> HIDE DEF g
<1>4. Gone(g, reject_sealed(g, "too-many-auth-attempts")) /\ Like(g, write_sealed(g, Msg(answer)))
  BY <1>1, Puts, Rejects
<1>5. CASE g.attempts >= MAX_AUTH_ATTEMPTS
  BY <1>1, <1>2, <1>4, <1>5 DEF Gone
<1>6. CASE ~(g.attempts >= MAX_AUTH_ATTEMPTS)
  <2>1. g.attempts < MAX_AUTH_ATTEMPTS
    BY <1>1, <1>3, <1>6
  <2> QED
    BY <1>1, <1>2, <1>4, <1>6, <2>1 DEF Like
<1> QED
  BY <1>5, <1>6

LEMMA Authenticates ==
  ASSUME NEW e, DOMAIN e = Fields, e.attempts \in Nat, e.attempts < MAX_AUTH_ATTEMPTS, e.stage = "UserAuth", NEW m
  PROVE  LET f == authenticate(e, m) IN
         /\ DOMAIN f = Fields /\ f.deferred = e.deferred
         /\ \/ f.stage \in Late
            \/ m.kind = "auth" /\ f.stage = "UserAuth" /\ f.attempts = e.attempts + 1 /\ f.attempts < MAX_AUTH_ATTEMPTS
<1> DEFINE f == authenticate(e, m)
           g == write_sealed(e, Msg("success"))
<1>1. \/ m.kind # "auth" /\ f = reject_sealed(e, "expected-userauth-request")
      \/ m.kind = "auth" /\ \E failed, answer : f = spend(e, failed, answer)
      \/ f = serve(g)
  BY DEF authenticate
<1>2. DOMAIN serve(g) = Fields /\ serve(g).deferred = e.deferred /\ serve(g).stage = "Session"
  <2>1. Like(e, g)
    BY Puts
  <2> HIDE DEF g
  <2> QED
    BY <2>1 DEF Like, serve, Fields
<1>3. CASE m.kind # "auth" /\ f = reject_sealed(e, "expected-userauth-request")
  BY <1>3, Rejects DEF Gone, Late
<1>4. CASE m.kind = "auth" /\ \E failed, answer : f = spend(e, failed, answer)
  BY <1>4, Spends DEF Late
<1>5. CASE f = serve(g)
  BY <1>2, <1>5 DEF Late
<1> QED
  BY <1>1, <1>3, <1>4, <1>5

-----------------------------------------------------------------------------
(* The session: authentication is behind it, and nothing leads back.         *)

InSession(e) == DOMAIN e = Fields /\ Queued(e) /\ e.stage \in Late

LEMMA Stays ==
  ASSUME NEW e, InSession(e), NEW f, Like(e, f) \/ Gone(e, f)
  PROVE  InSession(f)
<1>1. f.deferred = e.deferred
  BY DEF Like, Gone
<1>2. Queued(f)
  BY <1>1 DEF InSession, Queued
<1> QED
  BY <1>2 DEF InSession, Like, Gone, Late

LEMMA Answers ==
  ASSUME NEW e, InSession(e), NEW m, NEW reason
  PROVE  /\ InSession(write_packet(e, m))
         /\ InSession(reject_sealed(e, reason)) /\ InSession(protocol_disconnect(e, reason))
BY Puts, Rejects, Stays DEF InSession

\* An update of fields other than the stage and the queue.
LEMMA Updates ==
  ASSUME NEW e, InSession(e), NEW a, NEW b
  PROVE  /\ InSession([e EXCEPT !.pc = a]) /\ InSession([e EXCEPT !.open = a])
         /\ InSession([e EXCEPT !.i_s = a]) /\ InSession([e EXCEPT !.phase = a])
         /\ InSession([e EXCEPT !.phase = a, !.i_c = b])
         /\ InSession([e EXCEPT !.wire = a])
<1>1. DOMAIN e = Fields
  BY DEF InSession
<1>2. Like(e, [e EXCEPT !.pc = a]) /\ Like(e, [e EXCEPT !.open = a]) /\ Like(e, [e EXCEPT !.i_s = a])
  BY <1>1 DEF Like, Fields
<1>3. Like(e, [e EXCEPT !.phase = a]) /\ Like(e, [e EXCEPT !.phase = a, !.i_c = b])
  BY <1>1 DEF Like, Fields
<1>4. Like(e, [e EXCEPT !.wire = a])
  BY <1>1 DEF Like, Fields
<1> QED
  BY <1>2, <1>3, <1>4, Stays

LEMMA Inbound ==
  ASSUME NEW e, InSession(e), NEW m
  PROVE  InSession(handle_inbound(e, m))
<1>1. \/ handle_inbound(e, m) = e
      \/ handle_inbound(e, m) = write_packet([e EXCEPT !.open = TRUE], Msg("open_reply"))
      \/ handle_inbound(e, m) = write_packet(e, Msg("reply"))
      \/ handle_inbound(e, m) = protocol_disconnect(e, "unexpected-channel-message")
  BY DEF handle_inbound
<1>2. InSession(write_packet([e EXCEPT !.open = TRUE], Msg("open_reply")))
  BY Updates, Answers
<1> QED
  BY <1>1, <1>2, Answers

LEMMA BeginsRekey ==
  ASSUME NEW e, InSession(e)
  PROVE  InSession(begin_rekey(e))
<1> DEFINE f == write_packet(e, KexReply(e.i_s + 1))
<1>1. InSession(f)
  BY Answers
<1>2. begin_rekey(e) = [f EXCEPT !.phase = "SentKexInit", !.i_s = f.i_s + 1, !.begun = f.begun + 1]
  BY DEF begin_rekey
<1> HIDE DEF f
<1>3. Like(f, [f EXCEPT !.phase = "SentKexInit", !.i_s = f.i_s + 1, !.begun = f.begun + 1])
  BY <1>1 DEF Like, Fields, InSession
<1> QED
  BY <1>1, <1>2, <1>3, Stays

LEMMA Negotiates ==
  ASSUME NEW e, InSession(e), NEW m
  PROVE  InSession(negotiate_rekey(e, m))
<1>1. \/ \E reason : negotiate_rekey(e, m) = reject_sealed([e EXCEPT !.phase = "Idle"], reason)
      \/ \E phase, n : negotiate_rekey(e, m) = [e EXCEPT !.phase = phase, !.i_c = n]
  BY DEF negotiate_rekey
<1>2. InSession([e EXCEPT !.phase = "Idle"])
  BY Updates
<1>3. ASSUME NEW phase, NEW n PROVE InSession([e EXCEPT !.phase = phase, !.i_c = n])
  BY Updates
<1>4. CASE \E reason : negotiate_rekey(e, m) = reject_sealed([e EXCEPT !.phase = "Idle"], reason)
  BY <1>2, <1>4, Answers
<1>5. CASE \E phase, n : negotiate_rekey(e, m) = [e EXCEPT !.phase = phase, !.i_c = n]
  <2>1. PICK phase, n : negotiate_rekey(e, m) = [e EXCEPT !.phase = phase, !.i_c = n]
    BY <1>5
  <2>2. InSession([e EXCEPT !.phase = phase, !.i_c = n])
    BY <1>3
  <2> QED
    BY <2>1, <2>2, Zenon
<1> QED
  BY <1>1, <1>4, <1>5

LEMMA Replies ==
  ASSUME NEW e, InSession(e), NEW m
  PROVE  InSession(complete_rekey_reply(e, m))
<1> DEFINE h == exchange_hash(e)
           f == write_packet(write_packet(e, Msg("hybrid_reply")), Msg("newkeys"))
           g == [f EXCEPT !.tx = derive_cipher(h, e.session_id, "s2c"), !.seq_tx = 0, !.sealed = 0,
                          !.new_rx = derive_cipher(h, e.session_id, "c2s"), !.phase = "AwaitNewKeys"]
<1>1. \/ \E reason : complete_rekey_reply(e, m) = reject_sealed([e EXCEPT !.phase = "Idle"], reason)
      \/ complete_rekey_reply(e, m) = g
  BY DEF complete_rekey_reply
<1>2. InSession(f)
  BY Answers
<1>3. InSession(g)
  <2> HIDE DEF f, h
  <2>1. Like(f, g)
    BY <1>2 DEF Like, Fields, InSession
  <2> QED
    BY <1>2, <2>1, Stays
<1>4. InSession([e EXCEPT !.phase = "Idle"])
  BY Updates
<1> HIDE DEF g
<1> QED
  BY <1>1, <1>3, <1>4, Answers

LEMMA Defers ==
  ASSUME NEW e, InSession(e), NEW m
  PROVE  InSession(pass_to_channel(e, m))
<1> DEFINE f == [e EXCEPT !.deferred = Append(@, m)]
<1>1. \/ pass_to_channel(e, m) = handle_inbound(e, m)
      \/ pass_to_channel(e, m) = protocol_disconnect(e, "too-many-deferred-during-rekey")
      \/ pass_to_channel(e, m) = f
  BY DEF pass_to_channel
<1>2. DOMAIN f = Fields /\ f.stage = e.stage /\ f.deferred = Append(e.deferred, m)
  BY DEF InSession, Fields
<1>3. Queued(f)
  <2>1. PICK T : e.deferred \in Seq(T)
    BY DEF InSession, Queued
  <2>2. e.deferred \in Seq(T \cup {m})
    BY <2>1
  <2>3. Append(e.deferred, m) \in Seq(T \cup {m})
    BY <2>2
  <2> HIDE DEF f
  <2> QED
    BY <1>2, <2>3 DEF Queued
<1> HIDE DEF f
<1>4. InSession(f)
  BY <1>2, <1>3 DEF InSession
<1> QED
  BY <1>1, <1>4, Inbound, Answers

LEMMA Installs ==
  ASSUME NEW e, InSession(e)
  PROVE  InSession(install_rx(e))
<1> DEFINE f == install_rx(e)
<1>1. DOMAIN f = Fields /\ f.stage = e.stage /\ f.deferred = <<>>
  BY DEF InSession, Fields, install_rx
<1> HIDE DEF f
<1>2. Queued(f)
  <2>1. f.deferred \in Seq({})
    BY <1>1
  <2> QED
    BY <2>1 DEF Queued
<1>3. InSession(f)
  BY <1>1, <1>2 DEF InSession
<1> QED
  BY <1>3 DEF f

-----------------------------------------------------------------------------
(* The two loops: what waited is handled, and a burst of output is written.  *)

LEMMA LeastNumber ==
  ASSUME NEW T, T \subseteq Nat, T # {}
  PROVE  \E m \in T : \A k \in T : m <= k
<1> DEFINE R == {ss \in Nat \X Nat : ss[1] < ss[2]}
<1>1. IsWellFoundedOn(R, Nat)
  BY NatLessThanWellFounded DEF OpToRel
<1>2. PICK m \in T : \A k \in T : ~ (<<k, m>> \in R)
  <2> HIDE DEF R
  <2> QED
    BY <1>1, WFMin
<1>3. ASSUME NEW k \in T PROVE m <= k
  <2>1. <<k, m>> \in Nat \X Nat /\ <<k, m>>[1] = k /\ <<k, m>>[2] = m
    OBVIOUS
  <2> QED
    BY <1>2, <2>1
<1> QED
  BY <1>3

\* f[k] is the connection after the first k of the packets that waited.
Drained(f, e, n) ==
  f = [k \in 0..n |-> IF k = 0 THEN install_rx(e) ELSE handle_inbound(f[k - 1], e.deferred[k])]

\* f[k] is the connection after k packets of output.
Flushed(f, e, n) ==
  f = [k \in 0..n |-> IF k = 0 THEN e ELSE write_packet(f[k - 1], Msg("output"))]

LEMMA DrainExists ==
  ASSUME NEW e
  PROVE  \A n \in Nat : \E f : Drained(f, e, n)
<1> DEFINE Bad == {n \in Nat : ~ \E f : Drained(f, e, n)}
<1> SUFFICES ASSUME Bad # {} PROVE FALSE
  OBVIOUS
<1>1. PICK n \in Bad : \A k \in Bad : n <= k
  <2>1. Bad \subseteq Nat
    OBVIOUS
  <2> HIDE DEF Bad
  <2> QED
    BY <2>1, LeastNumber
<1>2. n # 0
  <2> SUFFICES ASSUME n = 0 PROVE FALSE
    OBVIOUS
  <2> DEFINE z == [k \in 0..0 |-> install_rx(e)]
  <2>1. z = [k \in 0..n |-> IF k = 0 THEN install_rx(e) ELSE handle_inbound(z[k - 1], e.deferred[k])]
    OBVIOUS
  <2> HIDE DEF z
  <2> QED
    BY <1>1, <2>1 DEF Drained
<1>3. n \in Nat /\ n - 1 \in Nat /\ n - 1 \notin Bad
  <2>1. n \in Nat /\ n - 1 \in Nat /\ ~(n <= n - 1)
    BY <1>1, <1>2
  <2> HIDE DEF Bad
  <2> QED
    BY <1>1, <2>1
<1>4. PICK f : Drained(f, e, n - 1)
  BY <1>3
<1> DEFINE g == [k \in 0..n |-> IF k = n THEN handle_inbound(f[n - 1], e.deferred[n]) ELSE f[k]]
<1>5. Drained(g, e, n)
  <2>1. ASSUME NEW k \in 0..n
        PROVE  g[k] = IF k = 0 THEN install_rx(e) ELSE handle_inbound(g[k - 1], e.deferred[k])
    <3>1. CASE k = n
      BY <1>2, <1>3, <3>1
    <3>2. CASE k # n
      BY <1>2, <1>3, <1>4, <3>2 DEF Drained
    <3> QED
      BY <3>1, <3>2
  <2> QED
    BY <2>1 DEF Drained
<1> HIDE DEF g
<1> QED
  BY <1>5, <1>1

LEMMA FlushExists ==
  ASSUME NEW e
  PROVE  \A n \in Nat : \E f : Flushed(f, e, n)
<1> DEFINE Bad == {n \in Nat : ~ \E f : Flushed(f, e, n)}
<1> SUFFICES ASSUME Bad # {} PROVE FALSE
  OBVIOUS
<1>1. PICK n \in Bad : \A k \in Bad : n <= k
  <2>1. Bad \subseteq Nat
    OBVIOUS
  <2> HIDE DEF Bad
  <2> QED
    BY <2>1, LeastNumber
<1>2. n # 0
  <2> SUFFICES ASSUME n = 0 PROVE FALSE
    OBVIOUS
  <2> DEFINE z == [k \in 0..0 |-> e]
  <2>1. z = [k \in 0..n |-> IF k = 0 THEN e ELSE write_packet(z[k - 1], Msg("output"))]
    OBVIOUS
  <2> HIDE DEF z
  <2> QED
    BY <1>1, <2>1 DEF Flushed
<1>3. n \in Nat /\ n - 1 \in Nat /\ n - 1 \notin Bad
  <2>1. n \in Nat /\ n - 1 \in Nat /\ ~(n <= n - 1)
    BY <1>1, <1>2
  <2> HIDE DEF Bad
  <2> QED
    BY <1>1, <2>1
<1>4. PICK f : Flushed(f, e, n - 1)
  BY <1>3
<1> DEFINE g == [k \in 0..n |-> IF k = n THEN write_packet(f[n - 1], Msg("output")) ELSE f[k]]
<1>5. Flushed(g, e, n)
  <2>1. ASSUME NEW k \in 0..n
        PROVE  g[k] = IF k = 0 THEN e ELSE write_packet(g[k - 1], Msg("output"))
    <3>1. CASE k = n
      BY <1>2, <1>3, <3>1
    <3>2. CASE k # n
      BY <1>2, <1>3, <1>4, <3>2 DEF Flushed
    <3> QED
      BY <3>1, <3>2
  <2> QED
    BY <2>1 DEF Flushed
<1> HIDE DEF g
<1> QED
  BY <1>5, <1>1

LEMMA Drains ==
  ASSUME NEW e, InSession(e)
  PROVE  InSession(drain_deferred(e))
<1> DEFINE n == Len(e.deferred)
           f == CHOOSE f : f = [k \in 0..n |-> IF k = 0 THEN install_rx(e)
                                               ELSE handle_inbound(f[k - 1], e.deferred[k])]
<1>1. n \in Nat
  BY DEF InSession, Queued
<1>2. drain_deferred(e) = f[n]
  BY DEF drain_deferred
<1> HIDE DEF n
<1>3. Drained(f, e, n)
  BY <1>1, DrainExists DEF Drained
<1> HIDE DEF f
<1> DEFINE Bad == {k \in 0..n : ~ InSession(f[k])}
<1>4. Bad = {}
  <2> SUFFICES ASSUME Bad # {} PROVE FALSE
    OBVIOUS
  <2>1. PICK k \in Bad : \A j \in Bad : k <= j
    <3>1. Bad \subseteq Nat
      BY <1>1
    <3> HIDE DEF Bad
    <3> QED
      BY <3>1, LeastNumber
  <2>2. k # 0
    BY <1>1, <1>3, Installs DEF Drained
  <2>3. k \in 0..n /\ k - 1 \in 0..n /\ ~(k <= k - 1)
    BY <1>1, <2>1, <2>2
  <2>4. InSession(f[k - 1])
    BY <2>1, <2>3
  <2>5. f[k] = handle_inbound(f[k - 1], e.deferred[k])
    BY <1>1, <1>3, <2>2, <2>3 DEF Drained
  <2> QED
    BY <2>1, <2>4, <2>5, Inbound
<1> QED
  BY <1>1, <1>2, <1>4

LEMMA Bursts ==
  ASSUME NEW e, InSession(e), NEW n \in Nat
  PROVE  InSession(output_burst(e, n))
<1> DEFINE f == CHOOSE f : f = [k \in 0..n |-> IF k = 0 THEN e ELSE write_packet(f[k - 1], Msg("output"))]
<1>1. output_burst(e, n) = f[n]
  BY DEF output_burst
<1>2. Flushed(f, e, n)
  BY FlushExists DEF Flushed
<1> HIDE DEF f
<1> DEFINE Bad == {k \in 0..n : ~ InSession(f[k])}
<1>3. Bad = {}
  <2> SUFFICES ASSUME Bad # {} PROVE FALSE
    OBVIOUS
  <2>1. PICK k \in Bad : \A j \in Bad : k <= j
    <3>1. Bad \subseteq Nat
      OBVIOUS
    <3> HIDE DEF Bad
    <3> QED
      BY <3>1, LeastNumber
  <2>2. k # 0
    BY <1>2 DEF Flushed
  <2>3. k \in 0..n /\ k - 1 \in 0..n /\ ~(k <= k - 1)
    BY <2>1, <2>2
  <2>4. InSession(f[k - 1])
    BY <2>1, <2>3
  <2>5. f[k] = write_packet(f[k - 1], Msg("output"))
    BY <1>2, <2>2, <2>3 DEF Flushed
  <2> QED
    BY <2>1, <2>4, <2>5, Answers
<1> QED
  BY <1>1, <1>3

LEMMA StepsRekey ==
  ASSUME NEW e, InSession(e), NEW m
  PROVE  InSession(step_rekey(e, m))
<1> DEFINE g == write_packet([e EXCEPT !.i_s = @ + 1], KexReply(e.i_s + 1))
           f == step_rekey(e, m)
<1>1. InSession(g)
  BY Updates, Answers
<1>2. InSession([e EXCEPT !.phase = "AwaitHybridInit"]) /\ InSession([e EXCEPT !.phase = "Idle"])
  BY Updates
<1>3. \/ f = negotiate_rekey(g, m) \/ f = negotiate_rekey(e, m)
      \/ f = pass_to_channel(e, m)
      \/ f = [e EXCEPT !.phase = "AwaitHybridInit"]
      \/ f = complete_rekey_reply(e, m)
      \/ f = drain_deferred(e)
      \/ f = protocol_disconnect([e EXCEPT !.phase = "Idle"], "unexpected-during-rekey")
  BY DEF step_rekey
<1> HIDE DEF g, f
<1>4. InSession(negotiate_rekey(g, m)) /\ InSession(negotiate_rekey(e, m))
  BY <1>1, Negotiates
<1>5. InSession(pass_to_channel(e, m)) /\ InSession(complete_rekey_reply(e, m)) /\ InSession(drain_deferred(e))
  BY Defers, Replies, Drains
<1>6. InSession(protocol_disconnect([e EXCEPT !.phase = "Idle"], "unexpected-during-rekey"))
  BY <1>2, Answers
<1>7. InSession(f)
  BY <1>2, <1>3, <1>4, <1>5, <1>6
<1> QED
  BY <1>7 DEF f

LEMMA Sessions ==
  ASSUME NEW e, InSession(e), NEW m
  PROVE  InSession(session(e, m))
<1> DEFINE g == [e EXCEPT !.pc = "head"]
<1>1. InSession(g)
  BY Updates
<1>2. session(e, m) = step_rekey(g, m) \/ session(e, m) = handle_inbound(g, m)
  BY DEF session
<1> HIDE DEF g
<1> QED
  BY <1>1, <1>2, StepsRekey, Inbound

-----------------------------------------------------------------------------
(* The steps.                                                                *)

LEMMA BudgetInit == Init => Budget
<1> SUFFICES ASSUME Init PROVE Budget
  OBVIOUS
<1>1. DOMAIN s = Fields /\ s.deferred = <<>> /\ s.stage = "Version" /\ s.attempts = 0 /\ requests = 0
  BY DEF Init, Fields
<1>2. s.deferred \in Seq({})
  BY <1>1
<1> QED
  BY <1>1, <1>2 DEF Budget, Queued, Early, Late

\* A later stage is never taken back to the handshake.
LEMMA SessionBudget ==
  ASSUME Budget, s.stage \in Late, InSession(s'), requests' = requests
  PROVE  Budget'
<1>1. requests \in Nat /\ requests <= MAX_AUTH_ATTEMPTS
  BY DEF Budget
<1>2. s'.stage \notin Early /\ s'.stage # "UserAuth"
  BY DEF InSession, Early, Late
<1>3. (DOMAIN s)' = Fields /\ Queued(s)' /\ s'.stage \in Late
  BY DEF InSession, Queued
<1> QED
  BY <1>1, <1>2, <1>3 DEF Budget

\* A close costs nothing, the request it answers apart.
LEMMA CloseBudget ==
  ASSUME Budget, Gone(s, s'), requests' \in {requests, requests + 1}, requests' # requests => s.stage = "UserAuth"
  PROVE  Budget'
<1>1. requests' \in Nat /\ requests' <= MAX_AUTH_ATTEMPTS
  <2>1. requests \in Nat /\ MAX_AUTH_ATTEMPTS \in Nat /\ MAX_AUTH_ATTEMPTS > 0
    BY TransportAssumption DEF Budget
  <2>2. CASE s.stage = "UserAuth"
    BY <2>1, <2>2 DEF Budget
  <2>3. CASE s.stage # "UserAuth"
    BY <2>1, <2>3 DEF Budget, Early, Late
  <2> QED
    BY <2>2, <2>3
<1>2. (DOMAIN s)' = Fields /\ Queued(s)' /\ s'.stage = "Closed"
  BY DEF Budget, Gone, Queued
<1> QED
  BY <1>1, <1>2 DEF Budget, Early, Late

\* A step of the handshake reads no request.
LEMMA HandshakeBudget ==
  ASSUME Budget, s.stage \in Early, NEW S, S \subseteq Early \cup {"UserAuth"}, OnTo(s, s', S), requests' = requests
  PROVE  Budget'
<1>1. requests = 0 /\ requests' = 0 /\ s.attempts = 0 /\ s'.attempts = 0
  BY DEF Budget, OnTo
<1>2. MAX_AUTH_ATTEMPTS \in Nat /\ MAX_AUTH_ATTEMPTS > 0
  BY TransportAssumption
<1>3. (DOMAIN s)' = Fields /\ Queued(s)' /\ s'.stage \in Early \cup {"UserAuth"} \cup Late
  BY DEF Budget, OnTo, Queued, Late
<1> QED
  BY <1>1, <1>2, <1>3 DEF Budget

LEMMA BudgetVersion == ASSUME Budget, version_exchange PROVE Budget'
<1> DEFINE e == [s EXCEPT !.stage = "KexInit", !.i_s = 1]
           f == write_plain(e, KexReply(1))
<1>1. s.stage = "Version" /\ s' \in {close(s, "bad-identification"), f} /\ requests' = requests
  BY DEF version_exchange
<1>2. DOMAIN s = Fields
  BY DEF Budget
<1>3. DOMAIN e = Fields /\ e.stage = "KexInit" /\ e.attempts = s.attempts /\ e.deferred = s.deferred
  BY <1>2 DEF Fields
<1>4. OnTo(s, f, {"KexInit"})
  <2> HIDE DEF e
  <2> QED
    BY <1>3, Puts DEF Like, OnTo
<1>5. CASE s' = f
  <2> HIDE DEF f
  <2>1. {"KexInit"} \subseteq Early \cup {"UserAuth"} /\ s.stage \in Early
    BY <1>1 DEF Early
  <2> QED
    BY <1>1, <1>4, <1>5, <2>1, HandshakeBudget
<1>6. CASE s' = close(s, "bad-identification")
  <2>1. Gone(s, s')
    BY <1>2, <1>6, Closes
  <2> QED
    BY <1>1, <2>1, CloseBudget
<1> HIDE DEF f
<1> QED
  BY <1>1, <1>5, <1>6

LEMMA BudgetReads == ASSUME Budget, server_reads PROVE Budget'
<1> DEFINE m == Head(c.wire).msg
<1>1. /\ s.stage \notin {"Version", "Closed"}
      /\ s' = handle(m) \/ s' = close(s, "packet-auth-failed")
      /\ requests' = requests + (IF s.stage = "UserAuth" /\ m.kind = "auth" THEN 1 ELSE 0)
  BY DEF server_reads, MayRead
<1> HIDE DEF m
<1>2. DOMAIN s = Fields /\ requests \in Nat /\ Queued(s)
  BY DEF Budget
<1>3. CASE s' = close(s, "packet-auth-failed")
  <2>1. Gone(s, s')
    BY <1>2, <1>3, Closes
  <2>2. requests' \in {requests, requests + 1} /\ (requests' # requests => s.stage = "UserAuth")
    BY <1>1, <1>2
  <2> QED
    BY <2>1, <2>2, CloseBudget
<1>4. CASE s' = handle(m)
  <2>1. CASE s.stage \in Early
    <3>1. requests' = requests
      BY <1>1, <1>2, <2>1 DEF Early
    <3> DEFINE e == read_plain(s)
               r == read_sealed(s)
    <3>2. Like(s, e) /\ Like(s, r)
      BY <1>2, Reads
    <3>3. \/ s' = exchange_kexinit(e, m) \/ s' = [e EXCEPT !.stage = "HybridInit"]
          \/ s' = run_hybrid(e, m) \/ s' = exchange_newkeys(e, m) \/ s' = read_service_request(r, m)
      BY <1>1, <1>4, <2>1 DEF handle, Early
    <3> HIDE DEF e, r
    <3>4. DOMAIN e = Fields /\ DOMAIN r = Fields
      BY <3>2 DEF Like
    <3>5. PICK S : S \subseteq Early \cup {"UserAuth"} /\ (OnTo(e, s', S) \/ OnTo(r, s', S))
      <4>1. /\ {"SkipGuessed", "HybridInit"} \subseteq Early \cup {"UserAuth"} /\ {"HybridInit"} \subseteq Early \cup {"UserAuth"}
            /\ {"NewKeys"} \subseteq Early \cup {"UserAuth"} /\ {"ServiceRequest"} \subseteq Early \cup {"UserAuth"}
            /\ {"UserAuth"} \subseteq Early \cup {"UserAuth"}
        BY DEF Early
      <4>2. \/ OnTo(e, s', {"SkipGuessed", "HybridInit"}) \/ OnTo(e, s', {"HybridInit"})
            \/ OnTo(e, s', {"NewKeys"}) \/ OnTo(e, s', {"ServiceRequest"}) \/ OnTo(r, s', {"UserAuth"})
        <5>1. /\ OnTo(e, exchange_kexinit(e, m), {"SkipGuessed", "HybridInit"})
              /\ OnTo(e, [e EXCEPT !.stage = "HybridInit"], {"HybridInit"})
              /\ OnTo(e, run_hybrid(e, m), {"NewKeys"})
              /\ OnTo(e, exchange_newkeys(e, m), {"ServiceRequest"})
          BY <3>4, Handshake
        <5>2. OnTo(r, read_service_request(r, m), {"UserAuth"})
          BY <3>4, Handshake
        <5> QED
          BY <3>3, <5>1, <5>2, Zenon
      <4> QED
        BY <4>1, <4>2, Zenon
    <3>6. OnTo(s, s', S)
      BY <3>2, <3>5 DEF OnTo, Like
    <3> QED
      BY <2>1, <3>1, <3>5, <3>6, HandshakeBudget
  <2>2. CASE s.stage = "UserAuth"
    <3> DEFINE e == read_sealed(s)
    <3>1. Like(s, e)
      BY <1>2, Reads
    <3>2. s' = authenticate(e, m)
      BY <1>4, <2>2 DEF handle
    <3> HIDE DEF e
    <3>3. requests \in Nat /\ s.attempts = requests /\ requests < MAX_AUTH_ATTEMPTS /\ MAX_AUTH_ATTEMPTS \in Nat
      BY <2>2, TransportAssumption DEF Budget
    <3>4. /\ DOMAIN e = Fields /\ e.attempts \in Nat /\ e.attempts < MAX_AUTH_ATTEMPTS
          /\ e.stage = "UserAuth" /\ e.attempts = requests /\ e.deferred = s.deferred
      BY <2>2, <3>1, <3>3 DEF Like
    <3>5. /\ DOMAIN s' = Fields /\ s'.deferred = e.deferred
          /\ \/ s'.stage \in Late
             \/ m.kind = "auth" /\ s'.stage = "UserAuth" /\ s'.attempts = e.attempts + 1 /\ s'.attempts < MAX_AUTH_ATTEMPTS
      BY <3>2, <3>4, Authenticates
    <3>6. (DOMAIN s)' = Fields /\ Queued(s)'
      BY <1>2, <3>4, <3>5 DEF Queued
    <3>7. CASE s'.stage \in Late
      <4>1. requests' \in Nat /\ requests' <= MAX_AUTH_ATTEMPTS
        BY <1>1, <3>3
      <4> QED
        BY <3>6, <3>7, <4>1 DEF Budget, Early, Late
    <3>8. CASE m.kind = "auth" /\ s'.stage = "UserAuth" /\ s'.attempts = e.attempts + 1 /\ s'.attempts < MAX_AUTH_ATTEMPTS
      <4>1. requests' = requests + 1 /\ s'.attempts = requests' /\ requests' < MAX_AUTH_ATTEMPTS
        BY <1>1, <2>2, <3>4, <3>8
      <4> QED
        BY <3>3, <3>6, <3>8, <4>1 DEF Budget, Early, Late
    <3> QED
      BY <3>5, <3>7, <3>8
  <2>3. CASE s.stage = "Session"
    <3> DEFINE e == read_packet(s)
    <3>1. InSession(s)
      BY <1>2, <2>3 DEF InSession, Late
    <3>2. InSession(e)
      BY <1>2, <3>1, Reads, Stays
    <3>3. s' = session(e, m)
      BY <1>4, <2>3 DEF handle
    <3> HIDE DEF e
    <3>4. InSession(s')
      BY <3>2, <3>3, Sessions
    <3>5. requests' = requests /\ s.stage \in Late
      BY <1>1, <1>2, <2>3 DEF Late
    <3> QED
      BY <3>4, <3>5, SessionBudget
  <2> QED
    BY <1>1, <2>1, <2>2, <2>3 DEF Budget, Late
<1> QED
  BY <1>1, <1>3, <1>4

LEMMA BudgetLoop == ASSUME Budget, NEW n \in 0..Burst, NEW time \in BOOLEAN, head_of_loop(n, time) PROVE Budget'
<1> DEFINE f == output_burst(s, n)
<1>1. s.stage = "Session" /\ requests' = requests
  BY DEF head_of_loop
<1>2. s' = [begin_rekey(f) EXCEPT !.pc = "select"] \/ s' = [f EXCEPT !.pc = "select"]
  BY DEF head_of_loop
<1>3. n \in Nat
  BY TransportAssumption
<1>4. InSession(s) /\ s.stage \in Late
  BY <1>1 DEF Budget, InSession, Late
<1>5. InSession(f)
  BY <1>3, <1>4, Bursts
<1> HIDE DEF f
<1>6. InSession(begin_rekey(f))
  BY <1>5, BeginsRekey
<1>7. InSession([begin_rekey(f) EXCEPT !.pc = "select"]) /\ InSession([f EXCEPT !.pc = "select"])
  BY <1>5, <1>6, Updates
<1>8. InSession(s')
  BY <1>2, <1>7
<1> QED
  BY <1>1, <1>4, <1>8, SessionBudget

LEMMA BudgetEnds == ASSUME Budget, rekey_timeout \/ peer_closed PROVE Budget'
<1>1. DOMAIN s = Fields
  BY DEF Budget
<1>2. requests' = requests /\ (s' = reject_sealed(s, "rekey-timeout") \/ s' = close(s, "io"))
  BY DEF rekey_timeout, peer_closed
<1>3. Gone(s, s')
  BY <1>1, <1>2, Closes, Rejects
<1> QED
  BY <1>2, <1>3, CloseBudget

\* The client reads the stream, and touches nothing else of the server.
LEMMA BudgetClient == ASSUME Budget, Client \/ client_leaves PROVE Budget'
<1>1. DOMAIN s = Fields
  BY DEF Budget
<1>2. requests' = requests /\ (s' = s \/ s' = [s EXCEPT !.wire = Tail(@)])
  BY DEF Client, client_kexinit, client_reads, client_traffic, client_leaves
<1>3. Like(s, s')
  BY <1>1, <1>2 DEF Like, Fields
<1>4. (DOMAIN s)' = Fields /\ s'.stage = s.stage /\ s'.attempts = s.attempts /\ Queued(s)'
  BY <1>3 DEF Like, Queued, Budget
<1> QED
  BY <1>2, <1>4 DEF Budget

LEMMA BudgetStep == Budget /\ [Next]_vars => Budget'
<1> SUFFICES ASSUME Budget, [Next]_vars PROVE Budget'
  OBVIOUS
<1>1. CASE version_exchange
  BY <1>1, BudgetVersion
<1>2. CASE server_reads
  BY <1>2, BudgetReads
<1>3. CASE \E n \in 0..Burst, time \in BOOLEAN : head_of_loop(n, time)
  BY <1>3, BudgetLoop
<1>4. CASE rekey_timeout \/ peer_closed
  BY <1>4, BudgetEnds
<1>5. CASE Client \/ client_leaves
  BY <1>5, BudgetClient
<1>6. CASE UNCHANGED vars
  BY <1>6 DEF vars, Budget, Queued
<1> QED
  BY <1>1, <1>2, <1>3, <1>4, <1>5, <1>6 DEF Next, Server, Over

\* Every authentication request spends budget, a probe for a known key too: the
\* connection has left UserAuth by the MAX_AUTH_ATTEMPTS-th (authenticate).
THEOREM EveryRequestIsPaid == Spec => []AuthBudget
<1>1. Budget => AuthBudget
  <2> SUFFICES ASSUME Budget PROVE AuthBudget
    OBVIOUS
  <2>1. requests \in Nat /\ MAX_AUTH_ATTEMPTS \in Nat /\ MAX_AUTH_ATTEMPTS > 0
    BY TransportAssumption DEF Budget
  <2>2. CASE s.stage = "UserAuth"
    BY <2>1, <2>2 DEF Budget, AuthBudget
  <2>3. CASE s.stage # "UserAuth"
    BY <2>1, <2>3 DEF Budget, AuthBudget, Early, Late
  <2> QED
    BY <2>2, <2>3
<1> QED
  BY <1>1, BudgetInit, BudgetStep, PTL DEF Spec

-----------------------------------------------------------------------------
(* Streams.  What may follow on one direction of the connection is a state   *)
(* machine; a stream leads from what its reader expects to what its writer   *)
(* sends next.                                                               *)

Queue(w) == \E T : w \in Seq(T)

Requests == {"service", "auth"}
Responses == {"accept", "failure", "pk_ok", "success"}
SessionKinds == {"open", "global", "ignore", "data"}

\* The packets outside a key exchange.
Traffic(d) ==
  IF d = "c2s" THEN Requests \cup SessionKinds ELSE {"ext_info", "reply", "output", "open_reply"} \cup Responses

\* The keys of round r, 0 before the first.
Key(r, d) == IF r = 0 THEN Plain ELSE derive_cipher(<<r, r>>, <<1, 1>>, d)

\* A place on a stream: the round whose keys are in use, how far the next
\* exchange has come, the next number, and the traffic before.
At(round, step, seq, n) == [round |-> round, step |-> step, seq |-> seq, n |-> n]

\* Packet p at place q leads to place r, in direction d; the client sends at most
\* N packets of traffic.
Follows(d, N, q, p, r) ==
  /\ p.key = Key(q.round, d) /\ p.seq = q.seq
  /\ \/ /\ q.step = "idle" /\ p.msg.kind = "kexinit" /\ p.msg.n = q.round + 1 /\ p.msg.offer = "ok"
        /\ d = "s2c" => p.msg.guess = "none"
        /\ r = At(q.round, IF p.msg.guess = "wrong" THEN "guess" ELSE "init", next_seq(q.seq), q.n)
     \/ /\ q.step = "guess" /\ p.msg.kind = "guess"
        /\ r = At(q.round, "init", next_seq(q.seq), q.n)
     \/ /\ q.step = "init" /\ p.msg.kind = (IF d = "c2s" THEN "hybrid_init" ELSE "hybrid_reply")
        /\ d = "c2s" => p.msg.half = "ok"
        /\ r = At(q.round, "half", next_seq(q.seq), q.n)
     \/ /\ q.step = "half" /\ p.msg.kind = "newkeys"
        /\ r = At(q.round + 1, "idle", 0, q.n)
     \/ /\ q.step = "idle" /\ q.round # 0 /\ p.msg.kind \in Traffic(d)
        /\ p.msg.kind = "service" => p.msg.name = "ssh-userauth"
        /\ d = "c2s" => q.n < N
        /\ r = At(q.round, "idle", next_seq(q.seq), IF d = "c2s" THEN q.n + 1 ELSE q.n)
     \/ /\ q.step # "over" /\ p.msg.kind = "disconnect" /\ d = "s2c"
        /\ r = At(q.round, "over", next_seq(q.seq), q.n)

\* w leads from a to b, by the places q.
Leads(d, N, w, q) ==
  DOMAIN q = 1..(Len(w) + 1) /\ \A j \in 1..Len(w) : Follows(d, N, q[j], w[j], q[j + 1])

Stream(d, N, w, a, b) == \E q : Leads(d, N, w, q) /\ q[1] = a /\ q[Len(w) + 1] = b

LEMMA Appending ==
  ASSUME NEW w, Queue(w), NEW p
  PROVE  /\ Queue(Append(w, p)) /\ Len(w) \in Nat /\ Len(Append(w, p)) = Len(w) + 1
         /\ DOMAIN w = 1..Len(w) /\ DOMAIN Append(w, p) = 1..(Len(w) + 1)
         /\ \A j \in 1..Len(w) : Append(w, p)[j] = w[j]
         /\ Append(w, p)[Len(w) + 1] = p
<1>1. PICK T : w \in Seq(T)
  BY DEF Queue
<1>2. w \in Seq(T \cup {p})
  BY <1>1
<1>3. Append(w, p) \in Seq(T \cup {p})
  BY <1>2
<1>4. Queue(Append(w, p))
  BY <1>3 DEF Queue
<1> QED
  BY <1>2, <1>3, <1>4

LEMMA Tailing ==
  ASSUME NEW w, Queue(w), w # <<>>
  PROVE  /\ Queue(Tail(w)) /\ Len(w) \in Nat /\ Len(w) >= 1 /\ Len(Tail(w)) = Len(w) - 1
         /\ DOMAIN w = 1..Len(w) /\ DOMAIN Tail(w) = 1..(Len(w) - 1)
         /\ Head(w) = w[1] /\ \A j \in 1..(Len(w) - 1) : Tail(w)[j] = w[j + 1]
<1>1. PICK T : w \in Seq(T)
  BY DEF Queue
<1>2. Tail(w) \in Seq(T)
  BY <1>1
<1>3. Queue(Tail(w))
  BY <1>2 DEF Queue
<1> QED
  BY <1>1, <1>2, <1>3

LEMMA Nothing ==
  ASSUME NEW d, NEW N, NEW a
  PROVE  Stream(d, N, <<>>, a, a) /\ Queue(<<>>)
<1> DEFINE q == [j \in 1..1 |-> a]
<1>1. Leads(d, N, <<>>, q) /\ q[1] = a /\ q[Len(<<>>) + 1] = a
  BY DEF Leads
<1>2. <<>> \in Seq({})
  OBVIOUS
<1> QED
  BY <1>1, <1>2 DEF Stream, Queue

\* What is written leads on.
LEMMA Sending ==
  ASSUME NEW d, NEW N, NEW w, Queue(w), NEW a, NEW b, Stream(d, N, w, a, b), NEW p, NEW r, Follows(d, N, b, p, r)
  PROVE  Stream(d, N, Append(w, p), a, r)
<1>1. PICK q : Leads(d, N, w, q) /\ q[1] = a /\ q[Len(w) + 1] = b
  BY DEF Stream
<1> DEFINE l == Len(w)
           v == Append(w, p)
           t == [j \in 1..(l + 2) |-> IF j = l + 2 THEN r ELSE q[j]]
<1>2. l \in Nat /\ Len(v) = l + 1 /\ (\A j \in 1..l : v[j] = w[j]) /\ v[l + 1] = p
  BY Appending
<1>3. \A j \in 1..l : Follows(d, N, q[j], w[j], q[j + 1])
  BY <1>1 DEF Leads
<1>4. Follows(d, N, q[l + 1], p, r) /\ q[1] = a
  BY <1>1
<1> HIDE DEF l, v
<1>5. DOMAIN t = 1..(l + 2) /\ t[1] = a /\ t[l + 2] = r
  BY <1>2, <1>4
<1>6. ASSUME NEW j \in 1..(l + 1) PROVE Follows(d, N, t[j], v[j], t[j + 1])
  <2>1. CASE j \in 1..l
    <3>1. t[j] = q[j] /\ t[j + 1] = q[j + 1] /\ v[j] = w[j]
      BY <1>2, <2>1
    <3> QED
      BY <1>3, <2>1, <3>1
  <2>2. CASE j = l + 1
    <3>1. t[j] = q[l + 1] /\ t[j + 1] = r /\ v[j] = p
      BY <1>2, <2>2
    <3> QED
      BY <1>4, <3>1
  <2> QED
    BY <1>2, <2>1, <2>2
<1> HIDE DEF t
<1>7. Leads(d, N, v, t) /\ t[1] = a /\ t[Len(v) + 1] = r
  <2>1. Len(v) + 1 = l + 2
    BY <1>2
  <2> QED
    BY <1>2, <1>5, <1>6, <2>1 DEF Leads
<1> QED
  BY <1>7 DEF Stream, v

\* What is read follows on what the reader expects.
LEMMA Receiving ==
  ASSUME NEW d, NEW N, NEW w, Queue(w), w # <<>>, NEW a, NEW b, Stream(d, N, w, a, b)
  PROVE  \E r : Follows(d, N, a, Head(w), r) /\ Stream(d, N, Tail(w), r, b)
<1>1. PICK q : Leads(d, N, w, q) /\ q[1] = a /\ q[Len(w) + 1] = b
  BY DEF Stream
<1> DEFINE l == Len(w)
           v == Tail(w)
           t == [j \in 1..l |-> q[j + 1]]
<1>2. l \in Nat /\ l >= 1 /\ Len(v) = l - 1 /\ Head(w) = w[1] /\ \A j \in 1..(l - 1) : v[j] = w[j + 1]
  BY Tailing
<1>3. \A j \in 1..l : Follows(d, N, q[j], w[j], q[j + 1])
  BY <1>1 DEF Leads
<1>4. q[1] = a /\ q[l + 1] = b
  BY <1>1
<1> HIDE DEF l, v
<1>5. Follows(d, N, a, Head(w), q[2])
  <2>1. 1 \in 1..l /\ 1 + 1 = 2
    BY <1>2
  <2> QED
    BY <1>2, <1>3, <1>4, <2>1
<1>6. ASSUME NEW j \in 1..(l - 1) PROVE Follows(d, N, t[j], v[j], t[j + 1])
  <2>1. j + 1 \in 1..l /\ t[j] = q[j + 1] /\ t[j + 1] = q[(j + 1) + 1] /\ v[j] = w[j + 1]
    BY <1>2
  <2> QED
    BY <1>3, <2>1
<1>7. DOMAIN t = 1..l /\ t[1] = q[2] /\ t[l] = b
  BY <1>2, <1>4
<1> HIDE DEF t
<1>8. Leads(d, N, v, t) /\ t[1] = q[2] /\ t[Len(v) + 1] = b
  <2>1. Len(v) + 1 = l
    BY <1>2
  <2> QED
    BY <1>2, <1>6, <1>7, <2>1 DEF Leads
<1>9. Stream(d, N, Tail(w), q[2], b)
  BY <1>8 DEF Stream, v
<1> QED
  BY <1>5, <1>9

-----------------------------------------------------------------------------
(* What is on a wire.                                                        *)

Has(w, kinds) == \E j \in DOMAIN w : w[j].msg.kind \in kinds

One(w, kinds) ==
  \A i, j \in DOMAIN w : w[i].msg.kind \in kinds /\ w[j].msg.kind \in kinds => i = j

\* A KEXINIT after the first.
Rekeys(w) == \E j \in DOMAIN w : w[j].msg.kind = "kexinit" /\ w[j].msg.n # 1

LEMMA HasAppended ==
  ASSUME NEW w, Queue(w), NEW p, NEW kinds
  PROVE  Has(Append(w, p), kinds) <=> Has(w, kinds) \/ p.msg.kind \in kinds
<1> DEFINE l == Len(w)
           v == Append(w, p)
<1>1. /\ l \in Nat /\ DOMAIN w = 1..l /\ DOMAIN v = 1..(l + 1) /\ (\A j \in 1..l : v[j] = w[j]) /\ v[l + 1] = p
  BY Appending
<1> HIDE DEF l, v
<1>2. ASSUME Has(v, kinds) PROVE Has(w, kinds) \/ p.msg.kind \in kinds
  <2>1. PICK j \in 1..(l + 1) : v[j].msg.kind \in kinds
    BY <1>1, <1>2 DEF Has
  <2>2. CASE j = l + 1
    BY <1>1, <2>1, <2>2
  <2>3. CASE j # l + 1
    <3>1. j \in 1..l
      BY <1>1, <2>3
    <3> QED
      BY <1>1, <2>1, <3>1 DEF Has
  <2> QED
    BY <2>2, <2>3
<1>3. ASSUME Has(w, kinds) PROVE Has(v, kinds)
  <2>1. PICK j \in 1..l : w[j].msg.kind \in kinds
    BY <1>1, <1>3 DEF Has
  <2>2. j \in 1..(l + 1) /\ v[j] = w[j]
    BY <1>1
  <2> QED
    BY <1>1, <2>1, <2>2 DEF Has
<1>4. ASSUME p.msg.kind \in kinds PROVE Has(v, kinds)
  <2>1. l + 1 \in 1..(l + 1)
    BY <1>1
  <2> QED
    BY <1>1, <1>4, <2>1 DEF Has
<1> QED
  BY <1>2, <1>3, <1>4 DEF v

LEMMA RekeysAppended ==
  ASSUME NEW w, Queue(w), NEW p, Rekeys(Append(w, p))
  PROVE  Rekeys(w) \/ (p.msg.kind = "kexinit" /\ p.msg.n # 1)
<1> DEFINE l == Len(w)
           v == Append(w, p)
<1>1. /\ l \in Nat /\ DOMAIN w = 1..l /\ DOMAIN v = 1..(l + 1) /\ (\A j \in 1..l : v[j] = w[j]) /\ v[l + 1] = p
  BY Appending
<1>2. PICK j \in DOMAIN v : v[j].msg.kind = "kexinit" /\ v[j].msg.n # 1
  BY DEF Rekeys
<1> HIDE DEF l, v
<1>3. CASE j = l + 1
  BY <1>1, <1>2, <1>3
<1>4. CASE j # l + 1
  <2>1. j \in 1..l
    BY <1>1, <1>2, <1>4
  <2> QED
    BY <1>1, <1>2, <2>1 DEF Rekeys
<1> QED
  BY <1>3, <1>4

LEMMA OneAppended ==
  ASSUME NEW w, Queue(w), NEW p, NEW kinds, One(w, kinds), ~Has(w, kinds) \/ p.msg.kind \notin kinds
  PROVE  One(Append(w, p), kinds)
<1> DEFINE l == Len(w)
           v == Append(w, p)
<1>1. /\ l \in Nat /\ DOMAIN w = 1..l /\ DOMAIN v = 1..(l + 1) /\ (\A j \in 1..l : v[j] = w[j]) /\ v[l + 1] = p
  BY Appending
<1> HIDE DEF l, v
<1>2. ASSUME NEW i \in 1..(l + 1), NEW j \in 1..(l + 1), v[i].msg.kind \in kinds, v[j].msg.kind \in kinds, i # j
      PROVE  FALSE
  <2>1. CASE i \in 1..l /\ j \in 1..l
    BY <1>1, <1>2, <2>1 DEF One
  <2>2. CASE i = l + 1 /\ j \in 1..l
    BY <1>1, <1>2, <2>2 DEF Has
  <2>3. CASE j = l + 1 /\ i \in 1..l
    BY <1>1, <1>2, <2>3 DEF Has
  <2> QED
    BY <1>1, <1>2, <2>1, <2>2, <2>3
<1> QED
  BY <1>1, <1>2 DEF One, v

\* What is left after a read was there before.
LEMMA AfterRead ==
  ASSUME NEW w, Queue(w), w # <<>>
  PROVE  /\ Rekeys(Tail(w)) => Rekeys(w)
         /\ Head(w).msg.kind = "kexinit" /\ Head(w).msg.n # 1 => Rekeys(w)
         /\ \A kinds : /\ Has(Tail(w), kinds) => Has(w, kinds)
                       /\ Head(w).msg.kind \in kinds => Has(w, kinds)
                       /\ One(w, kinds) => One(Tail(w), kinds)
                       /\ One(w, kinds) /\ Head(w).msg.kind \in kinds => ~Has(Tail(w), kinds)
<1> DEFINE l == Len(w)
           v == Tail(w)
<1>1. /\ l \in Nat /\ l >= 1 /\ DOMAIN w = 1..l /\ DOMAIN v = 1..(l - 1) /\ Head(w) = w[1]
      /\ \A j \in 1..(l - 1) : v[j] = w[j + 1]
  BY Tailing
<1>2. 1 \in 1..l /\ \A j \in 1..(l - 1) : j + 1 \in 1..l /\ j + 1 # 1
  BY <1>1
<1> HIDE DEF l, v
<1>3. Rekeys(v) => Rekeys(w)
  BY <1>1, <1>2 DEF Rekeys
<1>4. Head(w).msg.kind = "kexinit" /\ Head(w).msg.n # 1 => Rekeys(w)
  BY <1>1, <1>2 DEF Rekeys
<1>5. ASSUME NEW kinds
      PROVE  /\ Has(v, kinds) => Has(w, kinds)
             /\ Head(w).msg.kind \in kinds => Has(w, kinds)
             /\ One(w, kinds) => One(v, kinds)
             /\ One(w, kinds) /\ Head(w).msg.kind \in kinds => ~Has(v, kinds)
  <2>1. Has(v, kinds) => Has(w, kinds)
    BY <1>1, <1>2 DEF Has
  <2>2. Head(w).msg.kind \in kinds => Has(w, kinds)
    BY <1>1, <1>2 DEF Has
  <2>3. One(w, kinds) => One(v, kinds)
    <3> SUFFICES ASSUME One(w, kinds), NEW i \in 1..(l - 1), NEW j \in 1..(l - 1),
                        v[i].msg.kind \in kinds, v[j].msg.kind \in kinds
                 PROVE  i = j
      BY <1>1 DEF One
    <3>1. i + 1 = j + 1
      BY <1>1, <1>2 DEF One
    <3> QED
      BY <1>1, <3>1
  <2>4. ASSUME One(w, kinds), Head(w).msg.kind \in kinds, Has(v, kinds) PROVE FALSE
    <3>1. PICK j \in 1..(l - 1) : v[j].msg.kind \in kinds
      BY <1>1, <2>4 DEF Has
    <3> QED
      BY <1>1, <1>2, <2>4, <3>1 DEF One
  <2> QED
    BY <2>1, <2>2, <2>3, <2>4
<1> QED
  BY <1>3, <1>4, <1>5 DEF v

LEMMA NothingThere ==
  ASSUME NEW kinds
  PROVE  ~Has(<<>>, kinds) /\ One(<<>>, kinds) /\ ~Rekeys(<<>>)
BY DEF Has, One, Rekeys

-----------------------------------------------------------------------------
(* Where the two ends stand.                                                 *)

Opening == {"Version", "KexInit", "SkipGuessed", "HybridInit", "NewKeys"}
Phases == {"Idle", "SentKexInit", "SkipGuessed", "AwaitHybridInit", "AwaitNewKeys"}

\* The place the server reads at: the round of its receive keys, and the step of
\* the exchange it waits for.
RxRound(e) ==
  IF e.stage \in Opening THEN 0
  ELSE IF e.stage # "Session" THEN 1
  ELSE IF e.phase = "Idle" THEN e.i_s ELSE e.i_s - 1

RxStep(e) ==
  IF e.stage = "SkipGuessed" \/ (e.stage = "Session" /\ e.phase = "SkipGuessed") THEN "guess"
  ELSE IF e.stage = "HybridInit" \/ (e.stage = "Session" /\ e.phase = "AwaitHybridInit") THEN "init"
  ELSE IF e.stage = "NewKeys" \/ (e.stage = "Session" /\ e.phase = "AwaitNewKeys") THEN "half"
  ELSE "idle"

\* The place it writes at.
TxRound(e) ==
  IF e.stage = "Session" THEN IF e.phase \in {"Idle", "AwaitNewKeys"} THEN e.i_s ELSE e.i_s - 1
  ELSE IF e.stage \in Opening \ {"NewKeys"} THEN 0 ELSE 1

TxStep(e) ==
  IF e.stage = "Session" THEN IF e.phase \in {"Idle", "AwaitNewKeys"} THEN "idle" ELSE "init"
  ELSE IF e.stage \in {"KexInit", "SkipGuessed", "HybridInit"} THEN "init" ELSE "idle"

\* The server's fields agree with its stage.
Standing(e) ==
  /\ e.reason = "none" /\ e.i_s \in Nat
  /\ e.stage = "Version" => e.i_s = 0
  /\ e.stage \notin {"Version", "Session"} => e.i_s = 1
  /\ e.stage \notin {"Version", "KexInit", "Session"} => e.i_c = 1
  /\ e.stage \notin Opening => e.session_id = <<1, 1>>
  /\ e.rx = Key(RxRound(e), "c2s")
  /\ e.tx = IF e.stage = "NewKeys" THEN Plain ELSE Key(TxRound(e), "s2c")
  /\ e.stage = "Session" =>
       /\ e.phase \in Phases /\ e.i_s >= 1 /\ (e.phase # "Idle" => e.i_s >= 2)
       /\ e.phase # "SentKexInit" => e.i_c = e.i_s
       /\ e.phase = "AwaitNewKeys" => e.new_rx = Key(e.i_s, "c2s")
  /\ \A i \in DOMAIN e.deferred : e.deferred[i].kind \in {"open", "global", "ignore"}
  /\ e.stage # "Session" => e.deferred = <<>>

ServerInv(e) ==
  /\ DOMAIN e = Fields /\ Queue(e.wire) /\ Queue(e.deferred)
  /\ e.stage \in Opening \cup {"ServiceRequest", "UserAuth", "Session", "Closed"}
  /\ e.stage # "Closed" => Standing(e)

\* The place the client writes at, and the place it reads at.
SRound(d) == IF d.phase \in {"Idle", "AwaitNewKeys"} THEN d.i_c ELSE d.i_c - 1

SStep(d) ==
  IF d.phase \in {"Idle", "AwaitNewKeys"} THEN "idle"
  ELSE IF d.phase = "Sent" /\ d.guess # "right" THEN "init" ELSE "half"

RRound(d) == IF d.phase = "Idle" THEN d.i_c ELSE d.i_c - 1

RStep(d) ==
  IF d.phase = "AwaitReply" THEN "init" ELSE IF d.phase = "AwaitNewKeys" THEN "half" ELSE "idle"

ClientFields ==
  {"phase", "ext", "profile", "seq_tx", "seq_rx", "tx", "rx", "session_id", "i_s", "i_c", "guess",
   "new_rx", "state", "open", "sent", "lag", "fault", "wire"}

ClientInv(d) ==
  /\ DOMAIN d = ClientFields /\ Queue(d.wire) /\ d.fault = "none"
  /\ d.profile \in Profiles /\ d.sent \in Nat
  /\ d.phase \in {"Idle", "Sent", "AwaitReply", "AwaitNewKeys"}
  /\ d.state \in {"transport", "accepting", "auth", "authenticating", "session", "gone"}
  /\ d.i_c \in Nat /\ (d.phase # "Idle" => d.i_c >= 1)
  /\ d.tx = Key(SRound(d), "c2s") /\ d.rx = Key(RRound(d), "s2c")
  /\ d.session_id = IF SRound(d) = 0 THEN None ELSE <<1, 1>>
  /\ d.phase \in {"AwaitReply", "AwaitNewKeys"} => d.i_s = d.i_c
  /\ d.phase = "AwaitNewKeys" => d.new_rx = Key(d.i_c, "s2c")

\* From the server to the client: what is on the wire leads to z.
Out(w, d, z) ==
  d.state # "gone" => Stream("s2c", 0, w, At(RRound(d), RStep(d), d.seq_rx, 0), z)

TxPlace(e) == At(TxRound(e), TxStep(e), e.seq_tx, 0)

OutStream(e, d) == \E z : Out(e.wire, d, z) /\ (e.stage # "Closed" => z = TxPlace(e))

\* From the client to the server: from place a to where the client sends.
In(a, d) == Stream("c2s", d.profile.traffic, d.wire, a, At(SRound(d), SStep(d), d.seq_tx, d.sent))

RxPlace(e, k) == At(RxRound(e), RxStep(e), e.seq_rx, k)

\* Nothing waits that the client has not sent.
InStream(e, d) == e.stage # "Closed" => \E k \in Nat : k >= Len(e.deferred) /\ In(RxPlace(e, k), d)

\* One request is under way at a time, and its stage is the server's.
Login(stage, out, state, in) == stage # "Closed" =>
  /\ One(in, Requests) /\ One(out, Responses)
  /\ Has(in, {"service"}) => stage \in Opening \cup {"ServiceRequest"} /\ state \in {"accepting", "gone"}
  /\ Has(in, {"auth"}) => stage = "UserAuth" /\ state \in {"authenticating", "gone"}
  /\ Has(in, SessionKinds) => stage = "Session"
  /\ Rekeys(in) \/ Rekeys(out) => stage = "Session"
  /\ Has(in, Requests) => ~Has(out, Responses)
  /\ Has(out, {"success"}) => stage = "Session"
  /\ Has(out, Responses \ {"success"}) => stage = "UserAuth"
  /\ state \in {"transport", "auth", "session"} => ~Has(out, Responses) /\ ~Has(in, Requests)
  /\ state = "transport" => stage \in Opening \cup {"ServiceRequest"}
  /\ state = "accepting" => stage \in Opening \cup {"ServiceRequest", "UserAuth"}
  /\ state = "auth" => stage = "UserAuth"
  /\ state = "authenticating" => stage \in {"UserAuth", "Session"}
  /\ state = "session" => stage = "Session"

\* The channel the client writes to is open at the server.
Opened(open, out, d) == d.open \/ Has(out, {"open_reply"}) \/ Has(d.wire, {"data"}) => open

Fair == {"none", "bad-identification", "io", "rekey-timeout", "too-many-auth-attempts"}

\* Why the connection ended: never the client's fault, its flooding the window
\* of a re-key apart.
Reason(e, d) ==
  \/ e.reason \in Fair
  \/ e.reason = "too-many-deferred-during-rekey" /\ d.profile.traffic > MAX_DEFERRED

Joined(e, d) ==
  /\ ServerInv(e) /\ ClientInv(d) /\ OutStream(e, d) /\ InStream(e, d)
  /\ Login(e.stage, e.wire, d.state, d.wire) /\ Opened(e.open, e.wire, d) /\ Reason(e, d)

-----------------------------------------------------------------------------
(* What the server's operators do to the fields that matter here.            *)

\* f is e, its streams and their numbers apart.
Same(e, f) ==
  /\ DOMAIN f = Fields /\ f.stage = e.stage /\ f.reason = e.reason /\ f.tx = e.tx /\ f.rx = e.rx
  /\ f.session_id = e.session_id /\ f.ext_info = e.ext_info /\ f.i_s = e.i_s /\ f.i_c = e.i_c
  /\ f.phase = e.phase /\ f.new_rx = e.new_rx /\ f.open = e.open /\ f.deferred = e.deferred

\* f is e after m is written.
Wrote(e, m, f) ==
  /\ Same(e, f) /\ f.seq_rx = e.seq_rx
  /\ f.wire = Append(e.wire, packet(e, m)) /\ f.seq_tx = next_seq(e.seq_tx)

\* f is e after a packet is read.
Took(e, f) ==
  Same(e, f) /\ f.wire = e.wire /\ f.seq_tx = e.seq_tx /\ f.seq_rx = next_seq(e.seq_rx)

\* f is e but for counts and the place in drive's loop.
Twin(e, f) == Same(e, f) /\ f.wire = e.wire /\ f.seq_tx = e.seq_tx /\ f.seq_rx = e.seq_rx

LEMMA Writes ==
  ASSUME NEW e, DOMAIN e = Fields, NEW m
  PROVE  /\ Wrote(e, m, write_plain(e, m)) /\ Wrote(e, m, write_sealed(e, m))
         /\ Wrote(e, m, write_packet(e, m))
<1> DEFINE q == packet(e, m)
           n == next_seq(e.seq_tx)
           p == [e EXCEPT !.wire = Append(e.wire, q), !.seq_tx = n]
<1>1. put(e, m) = p
  BY DEF put
<1>2. Wrote(e, m, p)
  <2> HIDE DEF q, n
  <2>1. Same(e, p) /\ p.seq_rx = e.seq_rx /\ p.wire = Append(e.wire, q) /\ p.seq_tx = n
    BY DEF Same, Fields
  <2> QED
    BY <2>1 DEF Wrote, q, n
<1> HIDE DEF p
<1> DEFINE r == [p EXCEPT !.sealed = @ + 1]
<1>3. Twin(p, r)
  BY <1>2 DEF Wrote, Twin, Same, Fields
<1>4. write_sealed(e, m) = r
  BY <1>1 DEF write_sealed
<1> HIDE DEF r
<1> DEFINE t == [r EXCEPT !.bytes_tx = @ + 1]
<1>5. Twin(r, t)
  BY <1>3 DEF Twin, Same, Fields
<1>6. write_packet(e, m) = t
  BY <1>4 DEF write_packet
<1> HIDE DEF t
<1>7. Wrote(e, m, r)
  BY <1>2, <1>3 DEF Wrote, Twin, Same
<1>8. Wrote(e, m, t)
  BY <1>7, <1>5 DEF Wrote, Twin, Same
<1> QED
  BY <1>1, <1>2, <1>4, <1>6, <1>7, <1>8 DEF write_plain

LEMMA Takes ==
  ASSUME NEW e, DOMAIN e = Fields
  PROVE  Took(e, read_plain(e)) /\ Took(e, read_sealed(e)) /\ Took(e, read_packet(e))
<1> DEFINE n == next_seq(e.seq_rx)
           p == [e EXCEPT !.seq_rx = n]
<1>1. read_plain(e) = p
  BY DEF read_plain
<1>2. Took(e, p)
  <2> HIDE DEF n
  <2>1. Same(e, p) /\ p.wire = e.wire /\ p.seq_tx = e.seq_tx /\ p.seq_rx = n
    BY DEF Same, Fields
  <2> QED
    BY <2>1 DEF Took, n
<1> HIDE DEF p
<1> DEFINE r == [p EXCEPT !.opened = @ + 1]
<1>3. Twin(p, r)
  BY <1>2 DEF Took, Twin, Same, Fields
<1>4. read_sealed(e) = r
  BY <1>1 DEF read_sealed
<1> HIDE DEF r
<1> DEFINE t == [r EXCEPT !.bytes_rx = @ + 1]
<1>5. Twin(r, t)
  BY <1>3 DEF Twin, Same, Fields
<1>6. read_packet(e) = t
  BY <1>4 DEF read_packet
<1> HIDE DEF t
<1>7. Took(e, r)
  BY <1>2, <1>3 DEF Took, Twin, Same
<1>8. Took(e, t)
  BY <1>7, <1>5 DEF Took, Twin, Same
<1> QED
  BY <1>1, <1>2, <1>4, <1>6, <1>7, <1>8

\* f is e, closed for the reason given, after at most a disconnect.
Shut(e, f, reason) ==
  /\ DOMAIN f = Fields /\ f.stage = "Closed" /\ f.reason = reason /\ f.open = e.open /\ f.deferred = e.deferred
  /\ f.wire = e.wire \/ f.wire = Append(e.wire, packet(e, Msg("disconnect")))

LEMMA Shuts ==
  ASSUME NEW e, DOMAIN e = Fields, NEW reason
  PROVE  /\ Shut(e, close(e, reason), reason) /\ Shut(e, reject_sealed(e, reason), reason)
         /\ Shut(e, protocol_disconnect(e, reason), reason)
<1>1. ASSUME NEW g, DOMAIN g = Fields
      PROVE  LET f == close(g, reason) IN
             /\ DOMAIN f = Fields /\ f.stage = "Closed" /\ f.reason = reason
             /\ f.open = g.open /\ f.deferred = g.deferred /\ f.wire = g.wire
  BY <1>1 DEF close, Fields
<1>2. Shut(e, close(e, reason), reason)
  BY <1>1 DEF Shut
<1>3. Shut(e, reject_sealed(e, reason), reason)
  <2> DEFINE g == write_sealed(e, Msg("disconnect"))
  <2>1. Wrote(e, Msg("disconnect"), g)
    BY Writes
  <2>2. reject_sealed(e, reason) = close(g, reason)
    BY DEF reject_sealed
  <2> HIDE DEF g
  <2> DEFINE f == close(g, reason)
  <2>3. /\ DOMAIN f = Fields /\ f.stage = "Closed" /\ f.reason = reason
        /\ f.open = g.open /\ f.deferred = g.deferred /\ f.wire = g.wire
    BY <1>1, <2>1 DEF Wrote, Same
  <2> HIDE DEF f
  <2>4. Shut(e, f, reason)
    BY <2>1, <2>3 DEF Shut, Wrote, Same
  <2> QED
    BY <2>2, <2>4 DEF f
<1> QED
  BY <1>2, <1>3 DEF protocol_disconnect

-----------------------------------------------------------------------------
(* What the fields and the wires leave alone.                                *)

LEMMA SamePlaces ==
  ASSUME NEW e, NEW f, Same(e, f)
  PROVE  /\ RxRound(f) = RxRound(e) /\ RxStep(f) = RxStep(e)
         /\ TxRound(f) = TxRound(e) /\ TxStep(f) = TxStep(e)
         /\ Standing(e) => Standing(f)
<1>1. RxRound(f) = RxRound(e) /\ RxStep(f) = RxStep(e) /\ TxRound(f) = TxRound(e) /\ TxStep(f) = TxStep(e)
  BY DEF Same, RxRound, RxStep, TxRound, TxStep
<1>2. ASSUME Standing(e) PROVE Standing(f)
  BY <1>1, <1>2 DEF Same, Standing
<1> QED
  BY <1>1, <1>2

LEMMA TwinJoined ==
  ASSUME NEW e, NEW f, NEW d, Joined(e, d), Twin(e, f)
  PROVE  Joined(f, d)
<1>1. /\ Same(e, f) /\ f.wire = e.wire /\ f.seq_tx = e.seq_tx /\ f.seq_rx = e.seq_rx
      /\ DOMAIN f = Fields /\ f.stage = e.stage /\ f.reason = e.reason /\ f.open = e.open /\ f.deferred = e.deferred
  BY DEF Twin, Same
<1>2. TxPlace(f) = TxPlace(e) /\ \A k : RxPlace(f, k) = RxPlace(e, k)
  BY <1>1, SamePlaces DEF TxPlace, RxPlace
<1>3. ServerInv(f)
  BY <1>1, SamePlaces DEF Joined, ServerInv
<1>4. OutStream(f, d)
  BY <1>1, <1>2 DEF Joined, OutStream
<1>5. InStream(f, d)
  BY <1>1, <1>2 DEF Joined, InStream
<1> QED
  BY <1>1, <1>3, <1>4, <1>5 DEF Joined, Reason

\* v shows nothing of these kinds that w does not.
Less(v, w, kinds) == (Has(v, kinds) => Has(w, kinds)) /\ (One(w, kinds) => One(v, kinds))

Calmer(v, w) ==
  /\ Rekeys(v) => Rekeys(w)
  /\ Less(v, w, Requests) /\ Less(v, w, Responses)
  /\ Less(v, w, {"service"}) /\ Less(v, w, {"auth"}) /\ Less(v, w, SessionKinds)
  /\ Less(v, w, {"success"}) /\ Less(v, w, Responses \ {"success"})

LEMMA CalmSame ==
  ASSUME NEW w
  PROVE  Calmer(w, w)
BY DEF Calmer, Less

LEMMA CalmRead ==
  ASSUME NEW w, Queue(w), w # <<>>
  PROVE  Calmer(Tail(w), w)
<1>1. ASSUME NEW kinds PROVE Less(Tail(w), w, kinds)
  BY AfterRead DEF Less
<1>2. Rekeys(Tail(w)) => Rekeys(w)
  BY AfterRead
<1> QED
  BY <1>1, <1>2 DEF Calmer

LEMMA LessWritten ==
  ASSUME NEW w, Queue(w), NEW p, NEW kinds, p.msg.kind \notin kinds
  PROVE  Less(Append(w, p), w, kinds)
BY HasAppended, OneAppended DEF Less

LEMMA CalmWrite ==
  ASSUME NEW w, Queue(w), NEW p, p.msg.kind \notin Requests \cup Responses \cup SessionKinds,
         p.msg.kind = "kexinit" => p.msg.n = 1
  PROVE  Calmer(Append(w, p), w)
<1>1. Rekeys(Append(w, p)) => Rekeys(w)
  BY RekeysAppended
<1>2. /\ p.msg.kind \notin Requests /\ p.msg.kind \notin Responses /\ p.msg.kind \notin {"service"}
      /\ p.msg.kind \notin {"auth"} /\ p.msg.kind \notin SessionKinds /\ p.msg.kind \notin {"success"}
      /\ p.msg.kind \notin Responses \ {"success"}
  BY DEF Requests, Responses, SessionKinds
<1> QED
  BY <1>1, <1>2, LessWritten DEF Calmer

LEMMA CalmTwice ==
  ASSUME NEW u, NEW v, NEW w, Calmer(u, v), Calmer(v, w)
  PROVE  Calmer(u, w)
BY DEF Calmer, Less

LEMMA CalmLogin ==
  ASSUME NEW stage, NEW stage2, NEW out, NEW out2, NEW state, NEW in, NEW in2,
         Login(stage, out, state, in), Calmer(out2, out), Calmer(in2, in),
         stage2 = stage \/ {stage, stage2} \subseteq Opening \cup {"ServiceRequest"}
  PROVE  Login(stage2, out2, state, in2)
<1> SUFFICES ASSUME stage2 # "Closed" PROVE Login(stage2, out2, state, in2)
  BY DEF Login
<1>1. stage # "Closed"
  BY DEF Opening
<1>2. /\ stage \in Opening \cup {"ServiceRequest"} => stage2 \in Opening \cup {"ServiceRequest"}
      /\ stage \in Opening \cup {"ServiceRequest", "UserAuth"} => stage2 \in Opening \cup {"ServiceRequest", "UserAuth"}
      /\ stage \in {"UserAuth", "Session"} => stage2 \in {"UserAuth", "Session"}
      /\ stage = "UserAuth" => stage2 = "UserAuth"
      /\ stage = "Session" => stage2 = "Session"
  BY DEF Opening
<1>3. /\ Has(out2, Responses) => Has(out, Responses)
      /\ Has(out2, {"success"}) => Has(out, {"success"})
      /\ Has(out2, Responses \ {"success"}) => Has(out, Responses \ {"success"})
      /\ One(out, Responses) => One(out2, Responses)
      /\ Rekeys(out2) => Rekeys(out)
  BY DEF Calmer, Less
<1>4. /\ Has(in2, Requests) => Has(in, Requests)
      /\ Has(in2, {"service"}) => Has(in, {"service"})
      /\ Has(in2, {"auth"}) => Has(in, {"auth"})
      /\ Has(in2, SessionKinds) => Has(in, SessionKinds)
      /\ One(in, Requests) => One(in2, Requests)
      /\ Rekeys(in2) => Rekeys(in)
  BY DEF Calmer, Less
<1> QED
  BY <1>1, <1>2, <1>3, <1>4, Zenon DEF Login

\* In session nothing but the requests and their answers is watched.
LEMMA SessionLogin ==
  ASSUME NEW out, NEW out2, NEW state, NEW in, NEW in2, Login("Session", out, state, in),
         Less(out2, out, Responses), Less(out2, out, Responses \ {"success"}),
         Less(in2, in, Requests), Less(in2, in, {"service"}), Less(in2, in, {"auth"})
  PROVE  Login("Session", out2, state, in2)
BY DEF Login, Less

LEMMA OpenedOn ==
  ASSUME NEW d, NEW open, NEW out, NEW out2, Opened(open, out, d),
         Has(out2, {"open_reply"}) => Has(out, {"open_reply"})
  PROVE  Opened(open, out2, d)
BY DEF Opened

-----------------------------------------------------------------------------
(* What the server writes leads on.                                          *)

\* The packet e writes m in.
LEMMA Packet ==
  ASSUME NEW e, NEW m
  PROVE  packet(e, m).msg = m /\ packet(e, m).key = e.tx /\ packet(e, m).seq = e.seq_tx
BY DEF packet

LEMMA OutWrite ==
  ASSUME NEW e, NEW d, NEW m, NEW f, Queue(e.wire), Wrote(e, m, f), NEW z, NEW r, Out(e.wire, d, z),
         Follows("s2c", 0, z, packet(e, m), r)
  PROVE  Out(f.wire, d, r) /\ Queue(f.wire)
<1>1. f.wire = Append(e.wire, packet(e, m))
  BY DEF Wrote
<1>2. Queue(f.wire)
  BY <1>1, Appending
<1>3. Out(f.wire, d, r)
  BY <1>1, Sending DEF Out
<1> QED
  BY <1>2, <1>3

\* Traffic under the keys in use, the next KEXINIT, and the exchange.
LEMMA OutTraffic ==
  ASSUME NEW R, R # 0, NEW e, NEW d, NEW m, NEW f, Queue(e.wire), Wrote(e, m, f), e.tx = Key(R, "s2c"),
         Out(e.wire, d, At(R, "idle", e.seq_tx, 0)), m.kind \in Traffic("s2c")
  PROVE  Out(f.wire, d, At(R, "idle", f.seq_tx, 0)) /\ Queue(f.wire)
<1> DEFINE q == At(R, "idle", e.seq_tx, 0)
           r == At(R, "idle", next_seq(e.seq_tx), 0)
           p == packet(e, m)
<1>1. q.round = R /\ q.step = "idle" /\ q.seq = e.seq_tx /\ q.n = 0
  BY DEF At
<1>2. p.msg = m /\ p.key = e.tx /\ p.seq = e.seq_tx /\ f.seq_tx = next_seq(e.seq_tx)
  BY Packet DEF Wrote
<1>3. m.kind # "service"
  BY DEF Traffic, Responses
<1>4. Follows("s2c", 0, q, p, r)
  <2> HIDE DEF q, p
  <2> QED
    BY <1>1, <1>2, <1>3 DEF Follows
<1> QED
  BY <1>2, <1>4, OutWrite

LEMMA OutKexInit ==
  ASSUME NEW R \in Nat, NEW e, NEW d, NEW m, NEW f, Queue(e.wire), Wrote(e, m, f), e.tx = Key(R, "s2c"),
         Out(e.wire, d, At(R, "idle", e.seq_tx, 0)),
         m.kind = "kexinit", m.n = R + 1, m.offer = "ok", m.guess = "none"
  PROVE  Out(f.wire, d, At(R, "init", f.seq_tx, 0)) /\ Queue(f.wire)
<1> DEFINE q == At(R, "idle", e.seq_tx, 0)
           r == At(R, "init", next_seq(e.seq_tx), 0)
           p == packet(e, m)
<1>1. q.round = R /\ q.step = "idle" /\ q.seq = e.seq_tx /\ q.n = 0
  BY DEF At
<1>2. p.msg = m /\ p.key = e.tx /\ p.seq = e.seq_tx /\ f.seq_tx = next_seq(e.seq_tx)
  BY Packet DEF Wrote
<1>4. Follows("s2c", 0, q, p, r)
  <2> HIDE DEF q, p
  <2> QED
    BY <1>1, <1>2 DEF Follows
<1>5. Out(e.wire, d, q)
  OBVIOUS
<1> HIDE DEF q, r, p
<1>6. \A z, t : Out(e.wire, d, z) /\ Follows("s2c", 0, z, packet(e, m), t) => Out(f.wire, d, t) /\ Queue(f.wire)
  BY OutWrite
<1>7. Out(f.wire, d, r) /\ Queue(f.wire)
  BY <1>4, <1>5, <1>6 DEF p
<1> QED
  BY <1>2, <1>7 DEF r

\* The reply and NEWKEYS, under the keys of round R.
LEMMA OutKeys ==
  ASSUME NEW R, NEW e, NEW d, NEW f, NEW g, Queue(e.wire), Wrote(e, Msg("hybrid_reply"), f), Wrote(f, Msg("newkeys"), g),
         e.tx = Key(R, "s2c"), Out(e.wire, d, At(R, "init", e.seq_tx, 0))
  PROVE  Out(g.wire, d, At(R + 1, "idle", 0, 0)) /\ Queue(g.wire)
<1> DEFINE q == At(R, "init", e.seq_tx, 0)
           r == At(R, "half", next_seq(e.seq_tx), 0)
           t == At(R + 1, "idle", 0, 0)
           m == Msg("hybrid_reply")
           n == Msg("newkeys")
           p == packet(e, m)
           o == packet(f, n)
<1>1. /\ q.round = R /\ q.step = "init" /\ q.seq = e.seq_tx /\ q.n = 0
      /\ r.round = R /\ r.step = "half" /\ r.seq = next_seq(e.seq_tx) /\ r.n = 0
  BY DEF At
<1>2. /\ p.msg = m /\ p.key = e.tx /\ p.seq = e.seq_tx /\ f.seq_tx = next_seq(e.seq_tx) /\ f.tx = e.tx
      /\ o.msg = n /\ o.key = f.tx /\ o.seq = f.seq_tx
  BY Packet DEF Wrote, Same
<1>3. m.kind = "hybrid_reply" /\ n.kind = "newkeys"
  BY DEF Msg
<1>4. Follows("s2c", 0, q, p, r)
  <2> HIDE DEF q, p, m
  <2> QED
    BY <1>1, <1>2, <1>3 DEF Follows
<1>5. Follows("s2c", 0, r, o, t)
  <2> HIDE DEF r, o, n
  <2>1. r.step = "half" /\ o.msg.kind = "newkeys" /\ o.key = Key(r.round, "s2c") /\ o.seq = r.seq
    BY <1>1, <1>2, <1>3
  <2> QED
    BY <1>1, <2>1 DEF Follows
<1>6. Out(e.wire, d, q) /\ Wrote(e, m, f) /\ Wrote(f, n, g)
  OBVIOUS
<1> HIDE DEF q, r, m, n
<1>7. Out(f.wire, d, r) /\ Queue(f.wire)
  BY <1>4, <1>6, OutWrite
<1> HIDE DEF t
<1>8. Out(g.wire, d, t) /\ Queue(g.wire)
  BY <1>5, <1>6, <1>7, OutWrite
<1> QED
  BY <1>8 DEF t

\* Nothing follows a disconnect.
LEMMA OutOver ==
  ASSUME NEW R, NEW T, T # "over", NEW e, NEW d, Queue(e.wire), e.tx = Key(R, "s2c"),
         Out(e.wire, d, At(R, T, e.seq_tx, 0))
  PROVE  LET w == Append(e.wire, packet(e, Msg("disconnect"))) IN (\E z : Out(w, d, z)) /\ Queue(w)
<1> DEFINE q == At(R, T, e.seq_tx, 0)
           r == At(R, "over", next_seq(e.seq_tx), 0)
           m == Msg("disconnect")
           p == packet(e, m)
<1>1. q.round = R /\ q.step = T /\ q.seq = e.seq_tx /\ q.n = 0
  BY DEF At
<1>2. p.msg = m /\ p.key = e.tx /\ p.seq = e.seq_tx /\ m.kind = "disconnect"
  BY Packet DEF Msg
<1>4. Follows("s2c", 0, q, p, r)
  <2> HIDE DEF q, p, m
  <2> QED
    BY <1>1, <1>2 DEF Follows
<1>5. Queue(Append(e.wire, p))
  BY Appending
<1>6. Out(Append(e.wire, p), d, r)
  BY <1>4, Sending DEF Out
<1> QED
  BY <1>5, <1>6

-----------------------------------------------------------------------------
(* A packet read and not yet handled.                                        *)

\* Server e has taken the first packet of w; it leads the stream to place r.
Taken(e, d, w, k, r) ==
  /\ ServerInv(e) /\ e.stage # "Closed" /\ ClientInv(d) /\ OutStream(e, d)
  /\ Login(e.stage, e.wire, d.state, w) /\ Opened(e.open, e.wire, d)
  /\ Queue(w) /\ w # <<>> /\ d.wire = Tail(w)
  /\ Head(w).msg.kind = "data" => e.open
  /\ k \in Nat /\ k >= Len(e.deferred)
  /\ \E n : e.seq_rx = next_seq(n) /\ Follows("c2s", d.profile.traffic, At(RxRound(e), RxStep(e), n, k), Head(w), r)
  /\ In(r, d)

\* What can arrive, by the step of the exchange.
LEMMA Arrives ==
  ASSUME NEW N, NEW R, NEW T, NEW n, NEW k, NEW p, NEW r, Follows("c2s", N, At(R, T, n, k), p, r)
  PROVE  /\ T = "idle" =>
              \/ /\ p.msg.kind = "kexinit" /\ p.msg.n = R + 1 /\ p.msg.offer = "ok"
                 /\ r = At(R, IF p.msg.guess = "wrong" THEN "guess" ELSE "init", next_seq(n), k)
              \/ /\ R # 0 /\ p.msg.kind \in Requests \cup SessionKinds
                 /\ p.msg.kind = "service" => p.msg.name = "ssh-userauth"
                 /\ k < N /\ r = At(R, "idle", next_seq(n), k + 1)
         /\ T = "guess" => p.msg.kind = "guess" /\ r = At(R, "init", next_seq(n), k)
         /\ T = "init" => p.msg.kind = "hybrid_init" /\ p.msg.half = "ok" /\ r = At(R, "half", next_seq(n), k)
         /\ T = "half" => p.msg.kind = "newkeys" /\ r = At(R + 1, "idle", 0, k)
<1> DEFINE q == At(R, T, n, k)
<1>1. q.round = R /\ q.step = T /\ q.seq = n /\ q.n = k
  BY DEF At
<1>2. Follows("c2s", N, q, p, r)
  OBVIOUS
<1> HIDE DEF q
<1>3. ASSUME T = "idle"
      PROVE  \/ /\ p.msg.kind = "kexinit" /\ p.msg.n = R + 1 /\ p.msg.offer = "ok"
                /\ r = At(R, IF p.msg.guess = "wrong" THEN "guess" ELSE "init", next_seq(n), k)
             \/ /\ R # 0 /\ p.msg.kind \in Requests \cup SessionKinds
                /\ p.msg.kind = "service" => p.msg.name = "ssh-userauth"
                /\ k < N /\ r = At(R, "idle", next_seq(n), k + 1)
  BY <1>1, <1>2, <1>3 DEF Follows, Traffic
<1>4. T = "guess" => p.msg.kind = "guess" /\ r = At(R, "init", next_seq(n), k)
  BY <1>1, <1>2 DEF Follows
<1>5. T = "init" => p.msg.kind = "hybrid_init" /\ p.msg.half = "ok" /\ r = At(R, "half", next_seq(n), k)
  BY <1>1, <1>2 DEF Follows
<1>6. T = "half" => p.msg.kind = "newkeys" /\ r = At(R + 1, "idle", 0, k)
  BY <1>1, <1>2 DEF Follows
<1> QED
  BY <1>3, <1>4, <1>5, <1>6

LEMMA Joins ==
  ASSUME NEW f, NEW d, NEW k \in Nat, ServerInv(f), f.stage # "Closed", ClientInv(d), Out(f.wire, d, TxPlace(f)),
         In(RxPlace(f, k), d), k >= Len(f.deferred), Login(f.stage, f.wire, d.state, d.wire),
         Opened(f.open, f.wire, d)
  PROVE  Joined(f, d)
<1>1. Reason(f, d)
  BY DEF ServerInv, Standing, Reason, Fair
<1>2. OutStream(f, d)
  BY DEF OutStream
<1>3. InStream(f, d)
  BY DEF InStream
<1> QED
  BY <1>1, <1>2, <1>3 DEF Joined

\* The end of the connection breaks nothing.
LEMMA Ends ==
  ASSUME NEW e, NEW d, NEW f, NEW reason, ServerInv(e), e.stage # "Closed", ClientInv(d), OutStream(e, d),
         Opened(e.open, e.wire, d), Shut(e, f, reason), e.stage = "NewKeys" => f.wire = e.wire,
         reason \in Fair \/ (reason = "too-many-deferred-during-rekey" /\ d.profile.traffic > MAX_DEFERRED)
  PROVE  Joined(f, d)
<1>1. /\ DOMAIN f = Fields /\ f.stage = "Closed" /\ f.reason = reason /\ f.open = e.open /\ f.deferred = e.deferred
      /\ f.wire = e.wire \/ f.wire = Append(e.wire, packet(e, Msg("disconnect")))
  BY DEF Shut
<1>2. Queue(e.wire) /\ Queue(e.deferred)
  BY DEF ServerInv
<1>3. Out(e.wire, d, TxPlace(e))
  BY DEF OutStream
<1>4. (\E z : Out(f.wire, d, z)) /\ Queue(f.wire)
  <2>1. CASE f.wire = e.wire
    BY <1>2, <1>3, <2>1
  <2>2. CASE e.stage # "NewKeys" /\ f.wire = Append(e.wire, packet(e, Msg("disconnect")))
    <3>1. e.tx = Key(TxRound(e), "s2c") /\ TxStep(e) # "over"
      BY <2>2 DEF ServerInv, Standing, TxStep
    <3>2. Out(e.wire, d, At(TxRound(e), TxStep(e), e.seq_tx, 0))
      BY <1>3 DEF TxPlace
    <3> QED
      BY <1>2, <2>2, <3>1, <3>2, OutOver
  <2> QED
    BY <1>1, <2>1, <2>2
<1>5. ServerInv(f)
  BY <1>1, <1>2, <1>4 DEF ServerInv
<1>6. OutStream(f, d) /\ InStream(f, d) /\ Login(f.stage, f.wire, d.state, d.wire)
  BY <1>1, <1>4 DEF OutStream, InStream, Login
<1>7. Has(f.wire, {"open_reply"}) => Has(e.wire, {"open_reply"})
  <2>1. packet(e, Msg("disconnect")).msg.kind \notin {"open_reply"}
    BY Packet DEF Msg
  <2> QED
    BY <1>1, <1>2, <2>1, HasAppended
<1>8. Opened(f.open, f.wire, d)
  BY <1>1, <1>7, OpenedOn
<1>9. Reason(f, d)
  BY <1>1 DEF Reason
<1> QED
  BY <1>5, <1>6, <1>8, <1>9 DEF Joined

-----------------------------------------------------------------------------
(* The handshake, with a client that keeps the protocol.                     *)

LEMMA TakenCalm ==
  ASSUME NEW e, NEW d, NEW w, NEW k, NEW r, Taken(e, d, w, k, r)
  PROVE  /\ Calmer(d.wire, w) /\ Queue(e.wire) /\ DOMAIN e = Fields /\ Standing(e)
         /\ Out(e.wire, d, TxPlace(e)) /\ k \in Nat /\ k >= Len(e.deferred)
BY CalmRead DEF Taken, ServerInv, OutStream

LEMMA JoinKexInit ==
  ASSUME NEW e, NEW d, NEW w, NEW k, NEW r, Taken(e, d, w, k, r), e.stage = "KexInit"
  PROVE  Joined(exchange_kexinit(e, Head(w).msg), d)
<1> DEFINE m == Head(w).msg
           stage == IF m.guess = "wrong" THEN "SkipGuessed" ELSE "HybridInit"
           step == IF m.guess = "wrong" THEN "guess" ELSE "init"
           f == [e EXCEPT !.stage = stage, !.i_c = m.n, !.ext_info = m.ext]
<1>1. RxRound(e) = 0 /\ RxStep(e) = "idle" /\ TxRound(e) = 0 /\ TxStep(e) = "init"
  BY DEF RxRound, RxStep, TxRound, TxStep, Opening
<1>2. PICK n : e.seq_rx = next_seq(n) /\ Follows("c2s", d.profile.traffic, At(0, "idle", n, k), Head(w), r)
  BY <1>1 DEF Taken
<1>3. m.kind = "kexinit" /\ m.n = 1 /\ m.offer = "ok" /\ r = At(0, step, e.seq_rx, k)
  BY <1>2, Arrives
<1>4. exchange_kexinit(e, m) = f
  BY <1>3 DEF exchange_kexinit
<1>5. Standing(e) /\ DOMAIN e = Fields /\ Out(e.wire, d, TxPlace(e)) /\ Calmer(d.wire, w)
  BY TakenCalm
<1>6. stage \in {"SkipGuessed", "HybridInit"} /\ (stage = "SkipGuessed" <=> step = "guess") /\ step \in {"guess", "init"}
  OBVIOUS
<1> HIDE DEF m, stage, step
<1>7. /\ DOMAIN f = Fields /\ f.stage = stage /\ f.i_c = 1 /\ f.reason = e.reason /\ f.i_s = e.i_s
      /\ f.rx = e.rx /\ f.tx = e.tx /\ f.deferred = e.deferred /\ f.open = e.open /\ f.wire = e.wire
      /\ f.seq_rx = e.seq_rx /\ f.seq_tx = e.seq_tx
  BY <1>3, <1>5 DEF Fields
<1> HIDE DEF f
<1>8. RxRound(f) = 0 /\ RxStep(f) = step /\ TxRound(f) = 0 /\ TxStep(f) = "init"
  BY <1>6, <1>7 DEF RxRound, RxStep, TxRound, TxStep, Opening
<1>9. Standing(f)
  BY <1>1, <1>5, <1>6, <1>7, <1>8 DEF Standing, Opening
<1>10. ServerInv(f) /\ f.stage # "Closed"
  BY <1>6, <1>7, <1>9 DEF Taken, ServerInv, Opening
<1>11. Out(f.wire, d, TxPlace(f)) /\ In(RxPlace(f, k), d)
  BY <1>1, <1>3, <1>5, <1>7, <1>8 DEF TxPlace, RxPlace, Taken
<1>12. Login(f.stage, f.wire, d.state, d.wire)
  <2>1. {e.stage, f.stage} \subseteq Opening \cup {"ServiceRequest"}
    BY <1>6, <1>7 DEF Opening
  <2> QED
    BY <1>5, <1>7, <2>1, CalmSame, CalmLogin DEF Taken
<1>13. Opened(f.open, f.wire, d) /\ k >= Len(f.deferred) /\ k \in Nat /\ ClientInv(d)
  BY <1>7 DEF Taken
<1> QED
  BY <1>4, <1>10, <1>11, <1>12, <1>13, Joins DEF m

LEMMA JoinSkip ==
  ASSUME NEW e, NEW d, NEW w, NEW k, NEW r, Taken(e, d, w, k, r), e.stage = "SkipGuessed"
  PROVE  Joined([e EXCEPT !.stage = "HybridInit"], d)
<1> DEFINE f == [e EXCEPT !.stage = "HybridInit"]
<1>1. RxRound(e) = 0 /\ RxStep(e) = "guess" /\ TxRound(e) = 0 /\ TxStep(e) = "init"
  BY DEF RxRound, RxStep, TxRound, TxStep, Opening
<1>2. PICK n : e.seq_rx = next_seq(n) /\ Follows("c2s", d.profile.traffic, At(0, "guess", n, k), Head(w), r)
  BY <1>1 DEF Taken
<1>3. r = At(0, "init", e.seq_rx, k)
  BY <1>2, Arrives
<1>5. Standing(e) /\ DOMAIN e = Fields /\ Out(e.wire, d, TxPlace(e)) /\ Calmer(d.wire, w)
  BY TakenCalm
<1>7. /\ DOMAIN f = Fields /\ f.stage = "HybridInit" /\ f.i_c = e.i_c /\ f.reason = e.reason /\ f.i_s = e.i_s
      /\ f.rx = e.rx /\ f.tx = e.tx /\ f.deferred = e.deferred /\ f.open = e.open /\ f.wire = e.wire
      /\ f.seq_rx = e.seq_rx /\ f.seq_tx = e.seq_tx
  BY <1>5 DEF Fields
<1> HIDE DEF f
<1>8. RxRound(f) = 0 /\ RxStep(f) = "init" /\ TxRound(f) = 0 /\ TxStep(f) = "init"
  BY <1>7 DEF RxRound, RxStep, TxRound, TxStep, Opening
<1>9. Standing(f)
  BY <1>1, <1>5, <1>7, <1>8 DEF Standing, Opening
<1>10. ServerInv(f) /\ f.stage # "Closed"
  BY <1>7, <1>9 DEF Taken, ServerInv, Opening
<1>11. Out(f.wire, d, TxPlace(f)) /\ In(RxPlace(f, k), d)
  BY <1>1, <1>3, <1>5, <1>7, <1>8 DEF TxPlace, RxPlace, Taken
<1>12. Login(f.stage, f.wire, d.state, d.wire)
  <2>1. {e.stage, f.stage} \subseteq Opening \cup {"ServiceRequest"}
    BY <1>7 DEF Opening
  <2> QED
    BY <1>5, <1>7, <2>1, CalmSame, CalmLogin DEF Taken
<1>13. Opened(f.open, f.wire, d) /\ k >= Len(f.deferred) /\ k \in Nat /\ ClientInv(d)
  BY <1>7 DEF Taken
<1>14. Joined(f, d)
  BY <1>10, <1>11, <1>12, <1>13, Joins
<1> QED
  BY <1>14 DEF f

\* The reply and NEWKEYS leave, and the numbers start again.
LEMMA JoinHybrid ==
  ASSUME NEW e, NEW d, NEW w, NEW k, NEW r, Taken(e, d, w, k, r), e.stage = "HybridInit"
  PROVE  Joined(run_hybrid(e, Head(w).msg), d)
<1> DEFINE m == Head(w).msg
           g == write_plain(e, Msg("hybrid_reply"))
           h == write_plain(g, Msg("newkeys"))
           f == [h EXCEPT !.stage = "NewKeys", !.seq_tx = 0]
<1>1. RxRound(e) = 0 /\ RxStep(e) = "init" /\ TxRound(e) = 0 /\ TxStep(e) = "init"
  BY DEF RxRound, RxStep, TxRound, TxStep, Opening
<1>2. PICK n : e.seq_rx = next_seq(n) /\ Follows("c2s", d.profile.traffic, At(0, "init", n, k), Head(w), r)
  BY <1>1 DEF Taken
<1>3. m.kind = "hybrid_init" /\ m.half = "ok" /\ r = At(0, "half", e.seq_rx, k)
  BY <1>2, Arrives
<1>4. run_hybrid(e, m) = f
  BY <1>3 DEF run_hybrid
<1>5. Standing(e) /\ DOMAIN e = Fields /\ Out(e.wire, d, TxPlace(e)) /\ Calmer(d.wire, w) /\ Queue(e.wire)
  BY TakenCalm
<1>6. Wrote(e, Msg("hybrid_reply"), g) /\ Wrote(g, Msg("newkeys"), h)
  <2>1. Wrote(e, Msg("hybrid_reply"), g)
    BY <1>5, Writes
  <2> HIDE DEF g
  <2>2. Wrote(g, Msg("newkeys"), h)
    BY <2>1, Writes DEF Wrote, Same
  <2> QED
    BY <2>1, <2>2
<1> HIDE DEF m, g, h
<1>7. Same(e, h) /\ h.seq_rx = e.seq_rx
  BY <1>6 DEF Wrote, Same
<1>8. /\ DOMAIN f = Fields /\ f.stage = "NewKeys" /\ f.i_c = e.i_c /\ f.reason = e.reason /\ f.i_s = e.i_s
      /\ f.rx = e.rx /\ f.tx = e.tx /\ f.deferred = e.deferred /\ f.open = e.open /\ f.wire = h.wire
      /\ f.seq_rx = e.seq_rx /\ f.seq_tx = 0
  BY <1>7 DEF Fields, Same
<1> HIDE DEF f
<1>9. RxRound(f) = 0 /\ RxStep(f) = "half" /\ TxRound(f) = 1 /\ TxStep(f) = "idle"
  BY <1>8 DEF RxRound, RxStep, TxRound, TxStep, Opening
<1>10. e.tx = Key(0, "s2c") /\ e.tx = Plain /\ e.rx = Key(0, "c2s")
  BY <1>1, <1>5 DEF Standing, Key
<1>11. Standing(f)
  BY <1>5, <1>8, <1>9, <1>10 DEF Standing, Opening
<1>12. Out(h.wire, d, At(1, "idle", 0, 0)) /\ Queue(h.wire)
  <2>1. Out(e.wire, d, At(0, "init", e.seq_tx, 0))
    BY <1>1, <1>5 DEF TxPlace
  <2>2. Out(h.wire, d, At(0 + 1, "idle", 0, 0)) /\ Queue(h.wire)
    BY <1>5, <1>6, <1>10, <2>1, OutKeys
  <2> QED
    BY <2>2
<1>13. ServerInv(f) /\ f.stage # "Closed"
  BY <1>8, <1>11, <1>12 DEF Taken, ServerInv, Opening
<1>14. Out(f.wire, d, TxPlace(f)) /\ In(RxPlace(f, k), d)
  BY <1>3, <1>8, <1>9, <1>12 DEF TxPlace, RxPlace, Taken
<1>15. Calmer(f.wire, e.wire) /\ (Has(f.wire, {"open_reply"}) => Has(e.wire, {"open_reply"}))
  <2> DEFINE p == packet(e, Msg("hybrid_reply"))
             o == packet(g, Msg("newkeys"))
  <2>1. p.msg.kind = "hybrid_reply" /\ o.msg.kind = "newkeys"
    BY Packet DEF Msg
  <2>2. g.wire = Append(e.wire, p) /\ f.wire = Append(g.wire, o)
    BY <1>6, <1>8 DEF Wrote
  <2> HIDE DEF p, o
  <2>3. /\ "hybrid_reply" \notin Requests \cup Responses \cup SessionKinds
        /\ "newkeys" \notin Requests \cup Responses \cup SessionKinds
    BY DEF Requests, Responses, SessionKinds
  <2>4. Queue(g.wire)
    BY <1>5, <2>2, Appending
  <2>5. Calmer(g.wire, e.wire) /\ Calmer(f.wire, g.wire)
    BY <1>5, <2>1, <2>2, <2>3, <2>4, CalmWrite
  <2>6. /\ Has(g.wire, {"open_reply"}) => Has(e.wire, {"open_reply"})
        /\ Has(f.wire, {"open_reply"}) => Has(g.wire, {"open_reply"})
    BY <1>5, <2>1, <2>2, <2>4, HasAppended
  <2> QED
    BY <2>5, <2>6, CalmTwice
<1>16. Login(f.stage, f.wire, d.state, d.wire)
  <2>1. {e.stage, f.stage} \subseteq Opening \cup {"ServiceRequest"}
    BY <1>8 DEF Opening
  <2> QED
    BY <1>5, <1>15, <2>1, CalmLogin DEF Taken
<1>17. Opened(f.open, f.wire, d) /\ k >= Len(f.deferred) /\ k \in Nat /\ ClientInv(d)
  BY <1>8, <1>15, OpenedOn DEF Taken
<1> QED
  BY <1>4, <1>13, <1>14, <1>16, <1>17, Joins DEF m

LEMMA TwinTaken ==
  ASSUME NEW e, NEW d, NEW w, NEW k, NEW r, Taken(e, d, w, k, r), NEW f, Twin(e, f)
  PROVE  Taken(f, d, w, k, r)
<1>1. /\ Same(e, f) /\ f.wire = e.wire /\ f.seq_tx = e.seq_tx /\ f.seq_rx = e.seq_rx
      /\ DOMAIN f = Fields /\ f.stage = e.stage /\ f.open = e.open /\ f.deferred = e.deferred
  BY DEF Twin, Same
<1>2. TxPlace(f) = TxPlace(e) /\ RxRound(f) = RxRound(e) /\ RxStep(f) = RxStep(e)
  BY <1>1, SamePlaces DEF TxPlace
<1>3. ServerInv(f)
  BY <1>1, SamePlaces DEF Taken, ServerInv
<1>4. OutStream(f, d)
  BY <1>1, <1>2 DEF Taken, OutStream
<1> QED
  BY <1>1, <1>2, <1>3, <1>4 DEF Taken

\* What the server writes outside a key exchange.
LEMMA JoinTraffic ==
  ASSUME NEW e, NEW d, Joined(e, d), e.stage \notin {"Closed", "NewKeys"}, TxStep(e) = "idle", TxRound(e) # 0,
         NEW m, NEW f, Wrote(e, m, f), m.kind \in {"ext_info", "reply", "output", "open_reply"},
         m.kind = "open_reply" => e.open
  PROVE  Joined(f, d)
<1>1. /\ Same(e, f) /\ f.seq_rx = e.seq_rx /\ f.wire = Append(e.wire, packet(e, m))
      /\ DOMAIN f = Fields /\ f.stage = e.stage /\ f.open = e.open /\ f.deferred = e.deferred
  BY DEF Wrote, Same
<1>2. Queue(e.wire) /\ e.tx = Key(TxRound(e), "s2c") /\ Standing(e)
  BY DEF Joined, ServerInv, Standing
<1>3. Out(e.wire, d, At(TxRound(e), "idle", e.seq_tx, 0))
  BY DEF Joined, OutStream, TxPlace
<1>4. m.kind \in Traffic("s2c") /\ m.kind \notin Requests \cup Responses \cup SessionKinds /\ m.kind # "kexinit"
  BY DEF Traffic, Requests, Responses, SessionKinds
<1>5. Out(f.wire, d, At(TxRound(e), "idle", f.seq_tx, 0)) /\ Queue(f.wire)
  BY <1>2, <1>3, <1>4, OutTraffic
<1>6. /\ RxRound(f) = RxRound(e) /\ RxStep(f) = RxStep(e) /\ TxRound(f) = TxRound(e) /\ TxStep(f) = "idle"
      /\ Standing(f)
  BY <1>1, <1>2, SamePlaces
<1>7. OutStream(f, d)
  BY <1>5, <1>6 DEF OutStream, TxPlace
<1>8. InStream(f, d)
  BY <1>1, <1>6 DEF Joined, InStream, RxPlace
<1>9. ServerInv(f)
  BY <1>1, <1>5, <1>6 DEF Joined, ServerInv
<1>10. packet(e, m).msg = m
  BY Packet
<1>11. Calmer(f.wire, e.wire)
  BY <1>1, <1>2, <1>4, <1>10, CalmWrite
<1>12. Login(f.stage, f.wire, d.state, d.wire)
  BY <1>1, <1>11, CalmSame, CalmLogin DEF Joined
<1>13. Opened(f.open, f.wire, d)
  <2>1. Has(f.wire, {"open_reply"}) => Has(e.wire, {"open_reply"}) \/ m.kind \in {"open_reply"}
    BY <1>1, <1>2, <1>10, HasAppended
  <2> QED
    BY <1>1, <2>1 DEF Joined, Opened
<1>14. Reason(f, d)
  BY <1>6 DEF Standing, Reason, Fair
<1> QED
  BY <1>7, <1>8, <1>9, <1>12, <1>13, <1>14 DEF Joined

\* The first keys, both directions from number 0.
LEMMA JoinNewKeys ==
  ASSUME NEW e, NEW d, NEW w, NEW k, NEW r, Taken(e, d, w, k, r), e.stage = "NewKeys"
  PROVE  Joined(exchange_newkeys(e, Head(w).msg), d)
<1> DEFINE m == Head(w).msg
           h == exchange_hash(e)
           rx == derive_cipher(h, h, "c2s")
           tx == derive_cipher(h, h, "s2c")
           f == [e EXCEPT !.stage = "ServiceRequest", !.seq_rx = 0, !.session_id = h, !.rx = rx, !.tx = tx]
<1>1. RxRound(e) = 0 /\ RxStep(e) = "half" /\ TxRound(e) = 1 /\ TxStep(e) = "idle"
  BY DEF RxRound, RxStep, TxRound, TxStep, Opening
<1>2. PICK n : e.seq_rx = next_seq(n) /\ Follows("c2s", d.profile.traffic, At(0, "half", n, k), Head(w), r)
  BY <1>1 DEF Taken
<1>3. m.kind = "newkeys" /\ r = At(1, "idle", 0, k)
  <2>1. m.kind = "newkeys" /\ r = At(0 + 1, "idle", 0, k)
    BY <1>2, Arrives
  <2> QED
    BY <2>1
<1>4. exchange_newkeys(e, m) = IF e.ext_info THEN write_sealed(f, Msg("ext_info")) ELSE f
  BY <1>3 DEF exchange_newkeys
<1>5. Standing(e) /\ DOMAIN e = Fields /\ Out(e.wire, d, TxPlace(e)) /\ Calmer(d.wire, w)
  BY TakenCalm
<1>6. h = <<1, 1>> /\ rx = Key(1, "c2s") /\ tx = Key(1, "s2c")
  BY <1>5 DEF Standing, exchange_hash, Key
<1> HIDE DEF m, h, rx, tx
<1>7. /\ DOMAIN f = Fields /\ f.stage = "ServiceRequest" /\ f.i_c = e.i_c /\ f.reason = e.reason /\ f.i_s = e.i_s
      /\ f.rx = rx /\ f.tx = tx /\ f.deferred = e.deferred /\ f.open = e.open /\ f.wire = e.wire
      /\ f.seq_rx = 0 /\ f.seq_tx = e.seq_tx /\ f.session_id = h
  BY <1>5 DEF Fields
<1> HIDE DEF f
<1>8. RxRound(f) = 1 /\ RxStep(f) = "idle" /\ TxRound(f) = 1 /\ TxStep(f) = "idle"
  BY <1>7 DEF RxRound, RxStep, TxRound, TxStep, Opening
<1>9. Standing(f)
  BY <1>5, <1>6, <1>7, <1>8 DEF Standing, Opening
<1>10. ServerInv(f) /\ f.stage # "Closed"
  BY <1>7, <1>9 DEF Taken, ServerInv, Opening
<1>11. Out(f.wire, d, TxPlace(f)) /\ In(RxPlace(f, k), d)
  BY <1>1, <1>3, <1>5, <1>7, <1>8 DEF TxPlace, RxPlace, Taken
<1>12. Login(f.stage, f.wire, d.state, d.wire)
  <2>1. {e.stage, f.stage} \subseteq Opening \cup {"ServiceRequest"}
    BY <1>7 DEF Opening
  <2> QED
    BY <1>5, <1>7, <2>1, CalmSame, CalmLogin DEF Taken
<1>13. Opened(f.open, f.wire, d) /\ k >= Len(f.deferred) /\ k \in Nat /\ ClientInv(d)
  BY <1>7 DEF Taken
<1>14. Joined(f, d)
  BY <1>10, <1>11, <1>12, <1>13, Joins
<1>15. Joined(write_sealed(f, Msg("ext_info")), d)
  <2>1. Wrote(f, Msg("ext_info"), write_sealed(f, Msg("ext_info")))
    BY <1>7, Writes
  <2>2. Msg("ext_info").kind = "ext_info"
    BY DEF Msg
  <2> HIDE DEF Msg
  <2> QED
    BY <1>7, <1>8, <1>14, <2>1, <2>2, JoinTraffic
<1> QED
  BY <1>4, <1>14, <1>15 DEF m

-----------------------------------------------------------------------------
(* Requests and answers.                                                     *)

\* Before the session a packet under keys is the stage's request.
LEMMA Requested ==
  ASSUME NEW e, NEW d, NEW w, NEW k, NEW r, Taken(e, d, w, k, r), e.stage \in {"ServiceRequest", "UserAuth"}
  PROVE  LET m == Head(w).msg IN
         /\ m.kind \in Requests /\ r = At(1, "idle", e.seq_rx, k + 1)
         /\ e.stage = "ServiceRequest" => m.kind = "service" /\ m.name = "ssh-userauth"
         /\ e.stage = "UserAuth" => m.kind = "auth"
<1> DEFINE m == Head(w).msg
<1>1. RxRound(e) = 1 /\ RxStep(e) = "idle"
  BY DEF RxRound, RxStep, Opening
<1>2. PICK n : e.seq_rx = next_seq(n) /\ Follows("c2s", d.profile.traffic, At(1, "idle", n, k), Head(w), r)
  BY <1>1 DEF Taken
<1>3. \/ m.kind = "kexinit" /\ m.n = 1 + 1
      \/ /\ m.kind \in Requests \cup SessionKinds /\ (m.kind = "service" => m.name = "ssh-userauth")
         /\ r = At(1, "idle", e.seq_rx, k + 1)
  BY <1>2, Arrives
<1>4. /\ m.kind = "kexinit" /\ m.n # 1 => Rekeys(w)
      /\ \A kinds : m.kind \in kinds => Has(w, kinds)
  BY AfterRead DEF Taken
<1>5. ~Rekeys(w) /\ ~Has(w, SessionKinds) /\ (Has(w, {"auth"}) => e.stage = "UserAuth")
      /\ (Has(w, {"service"}) => e.stage = "ServiceRequest")
  BY DEF Taken, Login, Opening
<1> HIDE DEF m
<1>6. m.kind \notin SessionKinds /\ ~(m.kind = "kexinit" /\ m.n # 1)
  BY <1>4, <1>5
<1>7. /\ m.kind \in Requests /\ r = At(1, "idle", e.seq_rx, k + 1)
      /\ m.kind = "service" => m.name = "ssh-userauth"
  BY <1>3, <1>6
<1>8. (m.kind = "auth" => e.stage = "UserAuth") /\ (m.kind = "service" => e.stage = "ServiceRequest")
  BY <1>4, <1>5
<1> QED
  BY <1>7, <1>8 DEF Requests, m

LEMMA Parts ==
  ASSUME NEW w
  PROVE  /\ Has(w, {"service"}) => Has(w, Requests)
         /\ Has(w, {"auth"}) => Has(w, Requests)
         /\ Has(w, {"success"}) => Has(w, Responses)
         /\ Has(w, Responses \ {"success"}) => Has(w, Responses)
BY DEF Has, Requests, Responses

\* An answer takes the place of the request.
LEMMA Answered ==
  ASSUME NEW stage, stage \in {"ServiceRequest", "UserAuth"}, NEW out, NEW state, NEW w, Login(stage, out, state, w),
         Queue(out), Queue(w), w # <<>>, NEW p, p.msg.kind \in Responses,
         Head(w).msg.kind = (IF stage = "UserAuth" THEN "auth" ELSE "service"),
         p.msg.kind = "accept" <=> stage = "ServiceRequest"
  PROVE  Login(IF p.msg.kind = "success" THEN "Session" ELSE "UserAuth", Append(out, p), state, Tail(w))
<1> DEFINE v == Tail(w)
           o == Append(out, p)
           q == Head(w).msg.kind
           a == p.msg.kind
           next == IF a = "success" THEN "Session" ELSE "UserAuth"
<1>1. q \in Requests /\ (stage = "UserAuth" => q = "auth") /\ (stage # "UserAuth" => q = "service")
  BY DEF Requests
<1>2. /\ Rekeys(v) => Rekeys(w)
      /\ \A kinds : /\ Has(v, kinds) => Has(w, kinds)
                    /\ q \in kinds => Has(w, kinds)
                    /\ One(w, kinds) => One(v, kinds)
                    /\ One(w, kinds) /\ q \in kinds => ~Has(v, kinds)
  BY AfterRead
<1>3. Has(w, Requests) /\ (stage = "UserAuth" => Has(w, {"auth"})) /\ (stage # "UserAuth" => Has(w, {"service"}))
  BY <1>1, <1>2
<1>4. One(w, Requests) /\ One(out, Responses) /\ ~Has(w, SessionKinds) /\ ~Rekeys(w) /\ ~Rekeys(out) /\ ~Has(out, Responses)
  BY <1>3 DEF Login
<1>5. /\ stage = "UserAuth" => state \in {"authenticating", "gone"}
      /\ stage # "UserAuth" => state \in {"accepting", "gone"}
  BY <1>3 DEF Login
<1>6. One(v, Requests) /\ ~Has(v, Requests) /\ ~Has(v, SessionKinds) /\ ~Rekeys(v)
  BY <1>1, <1>2, <1>4
<1>7. ~Has(v, {"service"}) /\ ~Has(v, {"auth"})
  BY <1>6, Parts
<1>8. ~Has(out, {"success"}) /\ ~Has(out, Responses \ {"success"})
  BY <1>4, Parts
<1>9. One(o, Responses)
  BY <1>4, OneAppended
<1>10. ~Rekeys(o)
  <2>1. a # "kexinit"
    BY DEF Responses
  <2> QED
    BY <1>4, <2>1, RekeysAppended
<1>11. /\ Has(o, {"success"}) => a = "success"
       /\ Has(o, Responses \ {"success"}) => a # "success"
  <2>1. /\ Has(o, {"success"}) => a \in {"success"}
        /\ Has(o, Responses \ {"success"}) => a \in Responses \ {"success"}
    BY <1>8, HasAppended
  <2> QED
    BY <2>1
<1>12. /\ next \in {"UserAuth", "Session"} /\ (next = "Session" <=> a = "success")
       /\ stage = "ServiceRequest" => next = "UserAuth"
  OBVIOUS
<1> HIDE DEF v, o, q, a, next
<1>13. Login(next, o, state, v)
  BY <1>5, <1>6, <1>7, <1>9, <1>10, <1>11, <1>12 DEF Login
<1> QED
  BY <1>13 DEF next, o, v, a

\* f is g on to the next stage of the login.
Advances(g, f, stage) ==
  /\ DOMAIN f = Fields /\ f.stage = stage /\ f.reason = g.reason /\ f.tx = g.tx /\ f.rx = g.rx
  /\ f.session_id = g.session_id /\ f.i_s = g.i_s /\ f.i_c = g.i_c /\ f.open = g.open /\ f.deferred = g.deferred
  /\ f.wire = g.wire /\ f.seq_tx = g.seq_tx /\ f.seq_rx = g.seq_rx
  /\ stage = "Session" => f.phase = "Idle"

LEMMA JoinAnswer ==
  ASSUME NEW e, NEW d, NEW w, NEW k, NEW r, Taken(e, d, w, k, r), e.stage \in {"ServiceRequest", "UserAuth"},
         NEW m, m.kind \in Responses, m.kind = "accept" <=> e.stage = "ServiceRequest", NEW g, Wrote(e, m, g),
         NEW f, Advances(g, f, IF m.kind = "success" THEN "Session" ELSE "UserAuth")
  PROVE  Joined(f, d)
<1> DEFINE next == IF m.kind = "success" THEN "Session" ELSE "UserAuth"
<1>1. RxRound(e) = 1 /\ RxStep(e) = "idle" /\ TxRound(e) = 1 /\ TxStep(e) = "idle"
  BY DEF RxRound, RxStep, TxRound, TxStep, Opening
<1>2. /\ Head(w).msg.kind \in Requests /\ r = At(1, "idle", e.seq_rx, k + 1)
      /\ e.stage = "ServiceRequest" => Head(w).msg.kind = "service"
      /\ e.stage = "UserAuth" => Head(w).msg.kind = "auth"
  BY Requested
<1>3. Standing(e) /\ DOMAIN e = Fields /\ Out(e.wire, d, TxPlace(e)) /\ Queue(e.wire)
  BY TakenCalm
<1>4. /\ Same(e, g) /\ g.seq_rx = e.seq_rx /\ g.wire = Append(e.wire, packet(e, m))
      /\ packet(e, m).msg = m /\ m.kind \in Traffic("s2c")
  BY Packet DEF Wrote, Traffic
<1>5. Out(g.wire, d, At(1, "idle", g.seq_tx, 0)) /\ Queue(g.wire)
  <2> DEFINE R == 1
  <2>1. Out(e.wire, d, At(R, "idle", e.seq_tx, 0)) /\ e.tx = Key(R, "s2c") /\ R # 0
    BY <1>1, <1>3 DEF TxPlace, Standing
  <2> HIDE DEF R
  <2>2. Out(g.wire, d, At(R, "idle", g.seq_tx, 0)) /\ Queue(g.wire)
    BY <1>3, <1>4, <2>1, OutTraffic
  <2> QED
    BY <2>2 DEF R
<1>6. next \in {"UserAuth", "Session"} /\ Advances(g, f, next)
  OBVIOUS
<1>7. Login(next, g.wire, d.state, d.wire)
  <2>1. Head(w).msg.kind = (IF e.stage = "UserAuth" THEN "auth" ELSE "service")
    BY <1>2
  <2>2. Login(next, Append(e.wire, packet(e, m)), d.state, Tail(w))
    <3> DEFINE p == packet(e, m)
    <3>1. p.msg.kind = m.kind
      BY <1>4
    <3> HIDE DEF p, next
    <3>2. Login(IF p.msg.kind = "success" THEN "Session" ELSE "UserAuth", Append(e.wire, p), d.state, Tail(w))
      BY <1>3, <2>1, <3>1, Answered DEF Taken
    <3> QED
      BY <3>1, <3>2 DEF p, next
  <2> QED
    BY <1>4, <2>2 DEF Taken
<1> HIDE DEF next
<1>8. /\ DOMAIN f = Fields /\ f.stage = next /\ f.reason = e.reason /\ f.tx = e.tx /\ f.rx = e.rx
      /\ f.session_id = e.session_id /\ f.i_s = e.i_s /\ f.i_c = e.i_c /\ f.open = e.open /\ f.deferred = e.deferred
      /\ f.wire = g.wire /\ f.seq_tx = g.seq_tx /\ f.seq_rx = e.seq_rx
      /\ next = "Session" => f.phase = "Idle"
  BY <1>4, <1>6 DEF Advances, Same
<1>9. f.i_s = 1 /\ f.i_c = 1
  BY <1>3, <1>8 DEF Standing
<1>10. RxRound(f) = 1 /\ RxStep(f) = "idle" /\ TxRound(f) = 1 /\ TxStep(f) = "idle"
  BY <1>6, <1>8, <1>9 DEF RxRound, RxStep, TxRound, TxStep, Opening
<1>11. Standing(f)
  BY <1>1, <1>3, <1>6, <1>8, <1>9, <1>10 DEF Standing, Opening, Phases
<1>12. ServerInv(f) /\ f.stage # "Closed"
  BY <1>5, <1>6, <1>8, <1>11 DEF Taken, ServerInv
<1>13. Out(f.wire, d, TxPlace(f)) /\ In(RxPlace(f, k + 1), d)
  BY <1>2, <1>5, <1>8, <1>10 DEF TxPlace, RxPlace, Taken
<1>14. Has(f.wire, {"open_reply"}) => Has(e.wire, {"open_reply"})
  <2>1. m.kind \notin {"open_reply"}
    BY DEF Responses
  <2> QED
    BY <1>3, <1>4, <1>8, <2>1, HasAppended
<1>15. k + 1 \in Nat /\ k + 1 >= Len(f.deferred)
  <2>1. f.deferred = <<>>
    BY <1>3, <1>8 DEF Standing
  <2> QED
    BY <2>1 DEF Taken
<1>16. Opened(f.open, f.wire, d) /\ ClientInv(d) /\ Login(f.stage, f.wire, d.state, d.wire)
  BY <1>7, <1>8, <1>14, OpenedOn DEF Taken
<1> QED
  BY <1>12, <1>13, <1>15, <1>16, Joins

LEMMA JoinService ==
  ASSUME NEW e, NEW d, NEW w, NEW k, NEW r, Taken(e, d, w, k, r), e.stage = "ServiceRequest"
  PROVE  Joined(read_service_request(e, Head(w).msg), d)
<1> DEFINE m == Head(w).msg
           a == Msg("accept")
           g == write_sealed(e, a)
           f == [g EXCEPT !.stage = "UserAuth"]
<1>1. m.kind = "service" /\ m.name = "ssh-userauth"
  BY Requested
<1>2. read_service_request(e, m) = f
  BY <1>1 DEF read_service_request
<1>3. Wrote(e, a, g)
  BY TakenCalm, Writes
<1>4. a.kind = "accept"
  BY DEF Msg
<1> HIDE DEF m, a, g
<1>5. Advances(g, f, "UserAuth")
  BY <1>3 DEF Advances, Wrote, Same, Fields
<1> HIDE DEF f
<1>6. a.kind \in Responses /\ (a.kind = "accept" <=> e.stage = "ServiceRequest")
      /\ Advances(g, f, IF a.kind = "success" THEN "Session" ELSE "UserAuth")
  BY <1>4, <1>5 DEF Responses
<1> QED
  BY <1>2, <1>3, <1>6, JoinAnswer DEF m

LEMMA JoinSpend ==
  ASSUME NEW e, NEW d, NEW w, NEW k, NEW r, Taken(e, d, w, k, r), e.stage = "UserAuth", NEW failed,
         NEW answer, answer \in {"failure", "pk_ok"}
  PROVE  Joined(spend(e, failed, answer), d)
<1> DEFINE g == [e EXCEPT !.attempts = @ + 1, !.failures = IF failed THEN @ + 1 ELSE @]
           a == Msg(answer)
           f == write_sealed(g, a)
           x == reject_sealed(g, "too-many-auth-attempts")
<1>1. Twin(e, g)
  BY TakenCalm DEF Twin, Same, Fields
<1>2. spend(e, failed, answer) \in {x, f}
  BY DEF spend
<1> HIDE DEF g
<1>3. Taken(g, d, w, k, r) /\ g.stage = "UserAuth" /\ DOMAIN g = Fields
  BY <1>1, TwinTaken DEF Twin, Same
<1>4. Joined(x, d)
  <2>1. Shut(g, x, "too-many-auth-attempts")
    BY <1>3, Shuts
  <2> QED
    BY <1>3, <2>1, Ends DEF Taken, Fair
<1>5. Joined(f, d)
  <2>1. Wrote(g, a, f)
    BY <1>3, Writes
  <2>2. a.kind \in {"failure", "pk_ok"}
    BY DEF Msg
  <2> HIDE DEF a, f
  <2>3. Advances(f, f, "UserAuth")
    BY <1>3, <2>1 DEF Advances, Wrote, Same
  <2>4. a.kind \in Responses /\ (a.kind = "accept" <=> g.stage = "ServiceRequest")
        /\ Advances(f, f, IF a.kind = "success" THEN "Session" ELSE "UserAuth")
    BY <1>3, <2>2, <2>3 DEF Responses
  <2> QED
    BY <1>3, <2>1, <2>4, JoinAnswer
<1> QED
  BY <1>2, <1>4, <1>5

LEMMA JoinAuth ==
  ASSUME NEW e, NEW d, NEW w, NEW k, NEW r, Taken(e, d, w, k, r), e.stage = "UserAuth"
  PROVE  Joined(authenticate(e, Head(w).msg), d)
<1> DEFINE m == Head(w).msg
           a == Msg("success")
           g == write_sealed(e, a)
           f == serve(g)
<1>1. m.kind = "auth"
  BY Requested
<1>2. \/ authenticate(e, m) = f
      \/ \E failed, answer : answer \in {"failure", "pk_ok"} /\ authenticate(e, m) = spend(e, failed, answer)
  BY <1>1 DEF authenticate
<1>3. Wrote(e, a, g)
  BY TakenCalm, Writes
<1>4. a.kind = "success"
  BY DEF Msg
<1> HIDE DEF m, a, g
<1>5. Advances(g, f, "Session")
  BY <1>3 DEF Advances, Wrote, Same, Fields, serve
<1> HIDE DEF f
<1>6. a.kind \in Responses /\ (a.kind = "accept" <=> e.stage = "ServiceRequest")
      /\ Advances(g, f, IF a.kind = "success" THEN "Session" ELSE "UserAuth")
  BY <1>4, <1>5 DEF Responses
<1>7. Joined(f, d)
  BY <1>3, <1>6, JoinAnswer
<1> QED
  BY <1>2, <1>7, JoinSpend DEF m

-----------------------------------------------------------------------------
(* The session, with a client that keeps the protocol.                       *)

LEMMA Places ==
  ASSUME NEW e, e.stage = "Session"
  PROVE  /\ e.phase = "Idle" =>
              RxRound(e) = e.i_s /\ RxStep(e) = "idle" /\ TxRound(e) = e.i_s /\ TxStep(e) = "idle"
         /\ e.phase = "SentKexInit" =>
              RxRound(e) = e.i_s - 1 /\ RxStep(e) = "idle" /\ TxRound(e) = e.i_s - 1 /\ TxStep(e) = "init"
         /\ e.phase = "SkipGuessed" =>
              RxRound(e) = e.i_s - 1 /\ RxStep(e) = "guess" /\ TxRound(e) = e.i_s - 1 /\ TxStep(e) = "init"
         /\ e.phase = "AwaitHybridInit" =>
              RxRound(e) = e.i_s - 1 /\ RxStep(e) = "init" /\ TxRound(e) = e.i_s - 1 /\ TxStep(e) = "init"
         /\ e.phase = "AwaitNewKeys" =>
              RxRound(e) = e.i_s - 1 /\ RxStep(e) = "half" /\ TxRound(e) = e.i_s /\ TxStep(e) = "idle"
BY DEF RxRound, RxStep, TxRound, TxStep, Opening

\* What waits for the end of a re-key can be answered then.
Answerable(q) == \A i \in DOMAIN q : q[i].kind \in {"open", "global", "ignore"}

LEMMA SessionStanding ==
  ASSUME NEW e, e.stage = "Session"
  PROVE  Standing(e) <=>
           /\ e.reason = "none" /\ e.i_s \in Nat /\ e.session_id = <<1, 1>>
           /\ e.rx = Key(RxRound(e), "c2s") /\ e.tx = Key(TxRound(e), "s2c")
           /\ e.phase \in Phases /\ e.i_s >= 1 /\ (e.phase # "Idle" => e.i_s >= 2)
           /\ e.phase # "SentKexInit" => e.i_c = e.i_s
           /\ e.phase = "AwaitNewKeys" => e.new_rx = Key(e.i_s, "c2s")
           /\ Answerable(e.deferred)
<1>1. "Session" \notin Opening
  BY DEF Opening
<1> QED
  BY <1>1 DEF Standing, Answerable

\* Between exchanges a KEXINIT or a packet of the session arrives.
LEMMA SessionArrives ==
  ASSUME NEW e, NEW d, NEW w, NEW k, NEW r, Taken(e, d, w, k, r), e.stage = "Session",
         e.phase \in {"Idle", "SentKexInit"}
  PROVE  LET m == Head(w).msg IN
         \/ /\ m.kind = "kexinit" /\ m.n = RxRound(e) + 1 /\ m.offer = "ok"
            /\ r = At(RxRound(e), IF m.guess = "wrong" THEN "guess" ELSE "init", e.seq_rx, k)
         \/ /\ m.kind \in SessionKinds /\ k < d.profile.traffic /\ r = At(RxRound(e), "idle", e.seq_rx, k + 1)
<1> DEFINE m == Head(w).msg
           R == RxRound(e)
<1>1. RxStep(e) = "idle"
  BY Places
<1>2. PICK n : e.seq_rx = next_seq(n) /\ Follows("c2s", d.profile.traffic, At(R, "idle", n, k), Head(w), r)
  BY <1>1 DEF Taken
<1> HIDE DEF R
<1>3. \/ /\ m.kind = "kexinit" /\ m.n = R + 1 /\ m.offer = "ok"
         /\ r = At(R, IF m.guess = "wrong" THEN "guess" ELSE "init", e.seq_rx, k)
      \/ m.kind \in Requests \cup SessionKinds /\ k < d.profile.traffic /\ r = At(R, "idle", e.seq_rx, k + 1)
  BY <1>2, Arrives
<1>4. \A kinds : m.kind \in kinds => Has(w, kinds)
  BY AfterRead DEF Taken
<1>5. ~Has(w, {"auth"}) /\ ~Has(w, {"service"})
  BY DEF Taken, Login, Opening
<1> HIDE DEF m
<1>6. m.kind \notin {"auth"} /\ m.kind \notin {"service"}
  BY <1>4, <1>5
<1> QED
  BY <1>3, <1>6 DEF Requests, m, R

LEMMA JoinRead ==
  ASSUME NEW e, NEW d, NEW w, NEW k, NEW r, Taken(e, d, w, k, r), e.stage = "Session",
         e.phase \in {"Idle", "SentKexInit"}, r = At(RxRound(e), "idle", e.seq_rx, k + 1)
  PROVE  Joined(e, d)
<1>1. RxStep(e) = "idle"
  BY Places
<1>2. In(RxPlace(e, k + 1), d)
  BY <1>1 DEF Taken, RxPlace
<1>3. Len(e.deferred) \in Nat
  BY DEF Taken, ServerInv, Queue
<1>4. k + 1 \in Nat /\ k + 1 >= Len(e.deferred)
  BY <1>3 DEF Taken
<1>5. Login(e.stage, e.wire, d.state, d.wire)
  <2>1. Login(e.stage, e.wire, d.state, w) /\ Calmer(d.wire, w) /\ Calmer(e.wire, e.wire)
    BY TakenCalm, CalmSame DEF Taken
  <2> QED
    BY <2>1, CalmLogin
<1> QED
  BY <1>2, <1>4, <1>5, TakenCalm, Joins DEF Taken

\* The channel opens.
LEMMA JoinOpen ==
  ASSUME NEW e, NEW d, Joined(e, d), NEW f, f = [e EXCEPT !.open = TRUE]
  PROVE  Joined(f, d) /\ f.open /\ f.stage = e.stage /\ f.phase = e.phase /\ DOMAIN f = Fields
<1>1. DOMAIN e = Fields
  BY DEF Joined, ServerInv
<1>2. /\ DOMAIN f = Fields /\ f.open /\ f.stage = e.stage /\ f.reason = e.reason /\ f.tx = e.tx /\ f.rx = e.rx
      /\ f.session_id = e.session_id /\ f.i_s = e.i_s /\ f.i_c = e.i_c /\ f.phase = e.phase /\ f.new_rx = e.new_rx
      /\ f.deferred = e.deferred /\ f.wire = e.wire /\ f.seq_tx = e.seq_tx /\ f.seq_rx = e.seq_rx
  BY <1>1 DEF Fields
<1>3. RxRound(f) = RxRound(e) /\ RxStep(f) = RxStep(e) /\ TxRound(f) = TxRound(e) /\ TxStep(f) = TxStep(e)
  BY <1>2 DEF RxRound, RxStep, TxRound, TxStep
<1>4. Standing(e) => Standing(f)
  BY <1>2, <1>3 DEF Standing
<1>5. ServerInv(f)
  BY <1>2, <1>4 DEF Joined, ServerInv
<1>6. OutStream(f, d) /\ InStream(f, d)
  BY <1>2, <1>3 DEF Joined, OutStream, InStream, TxPlace, RxPlace
<1>7. Opened(f.open, f.wire, d) /\ Reason(f, d)
  BY <1>2 DEF Opened, Joined, Reason
<1> QED
  BY <1>2, <1>5, <1>6, <1>7 DEF Joined

LEMMA JoinInbound ==
  ASSUME NEW e, NEW d, Joined(e, d), e.stage = "Session", e.phase = "Idle", NEW m, m.kind \in SessionKinds,
         m.kind = "data" => e.open
  PROVE  LET f == handle_inbound(e, m) IN Joined(f, d) /\ f.stage = "Session" /\ f.phase = "Idle"
<1> DEFINE o == [e EXCEPT !.open = TRUE]
           a == Msg("open_reply")
           b == Msg("reply")
           f == write_packet(o, a)
           g == write_packet(e, b)
<1>1. \/ handle_inbound(e, m) = e
      \/ handle_inbound(e, m) = f
      \/ handle_inbound(e, m) = g
  BY DEF handle_inbound, SessionKinds
<1>2. a.kind = "open_reply" /\ b.kind = "reply"
  BY DEF Msg
<1>3. Joined(o, d) /\ o.open /\ o.stage = "Session" /\ o.phase = "Idle" /\ DOMAIN o = Fields /\ DOMAIN e = Fields
  BY JoinOpen DEF Joined, ServerInv
<1> HIDE DEF o, a, b
<1>4. Wrote(o, a, f) /\ Wrote(e, b, g)
  BY <1>3, Writes
<1> HIDE DEF f, g
<1>5. f.stage = "Session" /\ f.phase = "Idle" /\ g.stage = "Session" /\ g.phase = "Idle"
  BY <1>3, <1>4 DEF Wrote, Same
<1>6. /\ TxStep(e) = "idle" /\ TxRound(e) # 0 /\ TxStep(o) = "idle" /\ TxRound(o) # 0
  <2>1. ASSUME NEW x, Joined(x, d), x.stage = "Session", x.phase = "Idle" PROVE TxStep(x) = "idle" /\ TxRound(x) # 0
    <3>1. Standing(x)
      BY <2>1 DEF Joined, ServerInv
    <3>2. x.i_s \in Nat /\ x.i_s >= 1
      BY <2>1, <3>1, SessionStanding
    <3> QED
      BY <2>1, <3>2, Places
  <2> QED
    BY <1>3, <2>1
<1>7. Joined(f, d) /\ Joined(g, d)
  BY <1>2, <1>3, <1>4, <1>6, JoinTraffic
<1> QED
  BY <1>1, <1>5, <1>7

-----------------------------------------------------------------------------
(* Re-keys, with a client that keeps the protocol.                           *)

\* The server's KEXINIT of round R + 1 leaves.
LEMMA Announces ==
  ASSUME NEW R \in Nat, NEW e, NEW d, Queue(e.wire), e.tx = Key(R, "s2c"), Out(e.wire, d, At(R, "idle", e.seq_tx, 0)),
         NEW g, Wrote(e, KexReply(R + 1), g)
  PROVE  /\ Out(g.wire, d, At(R, "init", g.seq_tx, 0)) /\ Queue(g.wire)
         /\ Less(g.wire, e.wire, Responses) /\ Less(g.wire, e.wire, Responses \ {"success"})
         /\ Has(g.wire, {"open_reply"}) => Has(e.wire, {"open_reply"})
<1> DEFINE m == KexReply(R + 1)
<1>1. m.kind = "kexinit" /\ m.n = R + 1 /\ m.offer = "ok" /\ m.guess = "none"
  BY DEF KexReply, KexInit
<1>2. Wrote(e, m, g)
  OBVIOUS
<1> HIDE DEF m
<1>3. Out(g.wire, d, At(R, "init", g.seq_tx, 0)) /\ Queue(g.wire)
  BY <1>1, <1>2, OutKexInit
<1>4. g.wire = Append(e.wire, packet(e, m)) /\ packet(e, m).msg.kind = "kexinit"
  BY <1>1, <1>2, Packet DEF Wrote
<1>5. "kexinit" \notin Responses /\ "kexinit" \notin Responses \ {"success"} /\ "kexinit" \notin {"open_reply"}
  BY DEF Responses
<1>6. Less(g.wire, e.wire, Responses) /\ Less(g.wire, e.wire, Responses \ {"success"})
  BY <1>4, <1>5, LessWritten
<1>7. Has(g.wire, {"open_reply"}) => Has(e.wire, {"open_reply"})
  BY <1>4, <1>5, HasAppended
<1> QED
  BY <1>3, <1>6, <1>7

\* f is g with another phase of the exchange.
Turns(g, f, phase, i_s, i_c) ==
  /\ DOMAIN f = Fields /\ f.stage = g.stage /\ f.reason = g.reason /\ f.tx = g.tx /\ f.rx = g.rx
  /\ f.session_id = g.session_id /\ f.open = g.open /\ f.deferred = g.deferred
  /\ f.wire = g.wire /\ f.seq_tx = g.seq_tx /\ f.seq_rx = g.seq_rx
  /\ f.phase = phase /\ f.i_s = i_s /\ f.i_c = i_c

\* The server starts a re-key.
LEMMA JoinBegin ==
  ASSUME NEW e, NEW d, Joined(e, d), e.stage = "Session", e.phase = "Idle"
  PROVE  Joined(begin_rekey(e), d)
<1> DEFINE R == e.i_s
           g == write_packet(e, KexReply(R + 1))
           f == [g EXCEPT !.phase = "SentKexInit", !.i_s = @ + 1, !.begun = @ + 1]
<1>1. begin_rekey(e) = f
  BY DEF begin_rekey
<1>2. Standing(e) /\ DOMAIN e = Fields /\ Queue(e.wire) /\ Out(e.wire, d, TxPlace(e))
  BY DEF Joined, ServerInv, OutStream
<1>3. Wrote(e, KexReply(R + 1), g)
  BY <1>2, Writes
<1> HIDE DEF g
<1>4. Turns(g, f, "SentKexInit", R + 1, g.i_c)
  BY <1>3 DEF Turns, Wrote, Same, Fields
<1> HIDE DEF f
<1>5. RxRound(e) = R /\ RxStep(e) = "idle" /\ TxRound(e) = R /\ TxStep(e) = "idle"
  BY Places
<1>6. /\ R \in Nat /\ R >= 1 /\ e.reason = "none" /\ e.session_id = <<1, 1>> /\ e.rx = Key(R, "c2s")
      /\ e.tx = Key(R, "s2c") /\ Answerable(e.deferred)
  BY <1>2, <1>5, SessionStanding
<1> HIDE DEF R
<1>7. /\ Out(g.wire, d, At(R, "init", g.seq_tx, 0)) /\ Queue(g.wire)
      /\ Less(g.wire, e.wire, Responses) /\ Less(g.wire, e.wire, Responses \ {"success"})
      /\ Has(g.wire, {"open_reply"}) => Has(e.wire, {"open_reply"})
  <2>1. Out(e.wire, d, At(R, "idle", e.seq_tx, 0))
    BY <1>2, <1>5 DEF TxPlace
  <2> QED
    BY <1>2, <1>3, <1>6, <2>1, Announces
<1>8. /\ DOMAIN f = Fields /\ f.stage = "Session" /\ f.phase = "SentKexInit" /\ f.i_s = R + 1 /\ f.reason = "none"
      /\ f.session_id = <<1, 1>> /\ f.rx = Key(R, "c2s") /\ f.tx = Key(R, "s2c") /\ f.deferred = e.deferred
      /\ f.wire = g.wire /\ f.seq_tx = g.seq_tx /\ f.seq_rx = e.seq_rx /\ f.open = e.open
  BY <1>3, <1>4, <1>6 DEF Turns, Wrote, Same
<1>9. RxRound(f) = R /\ RxStep(f) = "idle" /\ TxRound(f) = R /\ TxStep(f) = "init"
  <2>1. f.i_s - 1 = R
    BY <1>6, <1>8
  <2> QED
    BY <1>8, <2>1, Places
<1>10. Standing(f)
  <2>1. f.i_s \in Nat /\ f.i_s >= 1 /\ f.i_s >= 2 /\ f.phase \in Phases
    BY <1>6, <1>8 DEF Phases
  <2> QED
    BY <1>6, <1>8, <1>9, <2>1, SessionStanding
<1>11. ServerInv(f) /\ f.stage # "Closed"
  BY <1>7, <1>8, <1>10 DEF Joined, ServerInv
<1>12. PICK k \in Nat : k >= Len(e.deferred) /\ In(RxPlace(e, k), d)
  BY DEF Joined, InStream
<1>13. Out(f.wire, d, TxPlace(f)) /\ In(RxPlace(f, k), d) /\ k >= Len(f.deferred)
  BY <1>5, <1>7, <1>8, <1>9, <1>12 DEF TxPlace, RxPlace
<1>14. Login(f.stage, f.wire, d.state, d.wire)
  <2>1. Login("Session", e.wire, d.state, d.wire)
    BY DEF Joined
  <2>2. Login("Session", g.wire, d.state, d.wire)
    BY <1>7, <2>1, SessionLogin DEF Less
  <2> QED
    BY <1>8, <2>2
<1>15. Opened(f.open, f.wire, d) /\ ClientInv(d)
  BY <1>7, <1>8, OpenedOn DEF Joined
<1> QED
  BY <1>1, <1>11, <1>13, <1>14, <1>15, Joins

\* The client's KEXINIT, in answer to the server's.
LEMMA JoinKexSent ==
  ASSUME NEW e, NEW d, NEW w, NEW k, NEW r, Taken(e, d, w, k, r), e.stage = "Session", e.phase = "SentKexInit",
         Head(w).msg.kind = "kexinit"
  PROVE  Joined(negotiate_rekey(e, Head(w).msg), d)
<1> DEFINE m == Head(w).msg
           R == e.i_s - 1
           phase == IF m.guess = "wrong" THEN "SkipGuessed" ELSE "AwaitHybridInit"
           step == IF m.guess = "wrong" THEN "guess" ELSE "init"
           f == [e EXCEPT !.phase = phase, !.i_c = m.n]
<1>1. RxRound(e) = R /\ TxRound(e) = R /\ TxStep(e) = "init"
  BY Places
<1>2. m.n = R + 1 /\ m.offer = "ok" /\ r = At(R, step, e.seq_rx, k)
  <2>1. m.kind \notin SessionKinds
    BY DEF SessionKinds
  <2> QED
    BY <1>1, <2>1, SessionArrives
<1>3. negotiate_rekey(e, m) = f
  BY <1>2 DEF negotiate_rekey
<1>4. Standing(e) /\ DOMAIN e = Fields /\ Out(e.wire, d, TxPlace(e)) /\ Calmer(d.wire, w)
  BY TakenCalm
<1>5. phase \in {"SkipGuessed", "AwaitHybridInit"} /\ (phase = "SkipGuessed" <=> step = "guess") /\ step \in {"guess", "init"}
  OBVIOUS
<1>6. /\ e.i_s \in Nat /\ e.i_s >= 2 /\ e.reason = "none" /\ e.session_id = <<1, 1>> /\ e.rx = Key(R, "c2s")
      /\ e.tx = Key(R, "s2c") /\ Answerable(e.deferred)
  BY <1>1, <1>4, SessionStanding
<1>7. m.n = e.i_s
  BY <1>2, <1>6
<1> HIDE DEF m, phase, step, R
<1>8. /\ DOMAIN f = Fields /\ f.stage = "Session" /\ f.phase = phase /\ f.i_s = e.i_s /\ f.i_c = e.i_s /\ f.reason = "none"
      /\ f.session_id = <<1, 1>> /\ f.rx = Key(R, "c2s") /\ f.tx = Key(R, "s2c") /\ f.deferred = e.deferred
      /\ f.wire = e.wire /\ f.seq_tx = e.seq_tx /\ f.seq_rx = e.seq_rx /\ f.open = e.open
  BY <1>4, <1>6, <1>7 DEF Fields
<1> HIDE DEF f
<1>9. RxRound(f) = R /\ RxStep(f) = step /\ TxRound(f) = R /\ TxStep(f) = "init"
  BY <1>5, <1>8, Places DEF R
<1>10. Standing(f)
  <2>1. f.i_s \in Nat /\ f.i_s >= 1 /\ f.i_s >= 2 /\ f.phase \in Phases /\ f.phase # "AwaitNewKeys"
    BY <1>5, <1>6, <1>8 DEF Phases
  <2> QED
    BY <1>6, <1>8, <1>9, <2>1, SessionStanding
<1>11. ServerInv(f) /\ f.stage # "Closed"
  BY <1>8, <1>10 DEF Taken, ServerInv
<1>12. Out(f.wire, d, TxPlace(f)) /\ In(RxPlace(f, k), d) /\ k >= Len(f.deferred) /\ k \in Nat
  BY <1>1, <1>2, <1>4, <1>8, <1>9 DEF TxPlace, RxPlace, Taken
<1>13. Login(f.stage, f.wire, d.state, d.wire)
  <2>1. Login(f.stage, e.wire, d.state, w) /\ Calmer(e.wire, e.wire)
    BY <1>8, CalmSame DEF Taken
  <2> QED
    BY <1>4, <1>8, <2>1, CalmLogin
<1>14. Opened(f.open, f.wire, d) /\ ClientInv(d)
  BY <1>8 DEF Taken
<1> QED
  BY <1>3, <1>11, <1>12, <1>13, <1>14, Joins DEF m

\* The client's KEXINIT, first: the server's own answers it.
LEMMA JoinKexIdle ==
  ASSUME NEW e, NEW d, NEW w, NEW k, NEW r, Taken(e, d, w, k, r), e.stage = "Session", e.phase = "Idle",
         Head(w).msg.kind = "kexinit"
  PROVE  Joined(negotiate_rekey(write_packet([e EXCEPT !.i_s = @ + 1], KexReply(e.i_s + 1)), Head(w).msg), d)
<1> DEFINE m == Head(w).msg
           R == e.i_s
           x == [e EXCEPT !.i_s = @ + 1]
           g == write_packet(x, KexReply(R + 1))
           phase == IF m.guess = "wrong" THEN "SkipGuessed" ELSE "AwaitHybridInit"
           step == IF m.guess = "wrong" THEN "guess" ELSE "init"
           f == [g EXCEPT !.phase = phase, !.i_c = m.n]
<1>1. RxRound(e) = R /\ TxRound(e) = R /\ TxStep(e) = "idle"
  BY Places
<1>2. m.n = R + 1 /\ m.offer = "ok" /\ r = At(R, step, e.seq_rx, k)
  <2>1. m.kind \notin SessionKinds
    BY DEF SessionKinds
  <2> QED
    BY <1>1, <2>1, SessionArrives
<1>3. negotiate_rekey(g, m) = f
  BY <1>2 DEF negotiate_rekey
<1>4. Standing(e) /\ DOMAIN e = Fields /\ Out(e.wire, d, TxPlace(e)) /\ Calmer(d.wire, w) /\ Queue(e.wire)
  BY TakenCalm
<1>5. phase \in {"SkipGuessed", "AwaitHybridInit"} /\ (phase = "SkipGuessed" <=> step = "guess") /\ step \in {"guess", "init"}
  OBVIOUS
<1>6. /\ R \in Nat /\ R >= 1 /\ e.reason = "none" /\ e.session_id = <<1, 1>> /\ e.rx = Key(R, "c2s")
      /\ e.tx = Key(R, "s2c") /\ Answerable(e.deferred)
  BY <1>1, <1>4, SessionStanding
<1>7. /\ DOMAIN x = Fields /\ x.i_s = R + 1 /\ x.stage = "Session" /\ x.reason = e.reason /\ x.tx = e.tx /\ x.rx = e.rx
      /\ x.session_id = e.session_id /\ x.open = e.open /\ x.deferred = e.deferred
      /\ x.wire = e.wire /\ x.seq_tx = e.seq_tx /\ x.seq_rx = e.seq_rx
  BY <1>4 DEF Fields
<1> HIDE DEF m, phase, step, x
<1>8. Wrote(x, KexReply(R + 1), g)
  BY <1>7, Writes
<1> HIDE DEF g, R
<1>9. /\ Out(g.wire, d, At(R, "init", g.seq_tx, 0)) /\ Queue(g.wire)
      /\ Less(g.wire, e.wire, Responses) /\ Less(g.wire, e.wire, Responses \ {"success"})
      /\ Has(g.wire, {"open_reply"}) => Has(e.wire, {"open_reply"})
  <2>1. Out(x.wire, d, At(R, "idle", x.seq_tx, 0)) /\ x.tx = Key(R, "s2c") /\ Queue(x.wire)
    BY <1>1, <1>4, <1>6, <1>7 DEF TxPlace
  <2>2. /\ Out(g.wire, d, At(R, "init", g.seq_tx, 0)) /\ Queue(g.wire)
        /\ Less(g.wire, x.wire, Responses) /\ Less(g.wire, x.wire, Responses \ {"success"})
        /\ Has(g.wire, {"open_reply"}) => Has(x.wire, {"open_reply"})
    BY <1>6, <1>8, <2>1, Announces
  <2> QED
    BY <1>7, <2>2
<1>10. /\ DOMAIN f = Fields /\ f.stage = "Session" /\ f.phase = phase /\ f.i_s = R + 1 /\ f.i_c = R + 1 /\ f.reason = "none"
       /\ f.session_id = <<1, 1>> /\ f.rx = Key(R, "c2s") /\ f.tx = Key(R, "s2c") /\ f.deferred = e.deferred
       /\ f.wire = g.wire /\ f.seq_tx = g.seq_tx /\ f.seq_rx = e.seq_rx /\ f.open = e.open
  <2>1. Same(x, g) /\ g.seq_rx = e.seq_rx
    BY <1>7, <1>8 DEF Wrote
  <2>2. Turns(g, f, phase, g.i_s, m.n)
    BY <2>1 DEF Same, Turns, Fields
  <2> HIDE DEF f
  <2> QED
    BY <1>2, <1>6, <1>7, <2>1, <2>2 DEF Same, Turns
<1> HIDE DEF f
<1>11. RxRound(f) = R /\ RxStep(f) = step /\ TxRound(f) = R /\ TxStep(f) = "init"
  <2>1. f.i_s - 1 = R
    BY <1>6, <1>10
  <2> QED
    BY <1>5, <1>10, <2>1, Places
<1>12. Standing(f)
  <2>1. f.i_s \in Nat /\ f.i_s >= 1 /\ f.i_s >= 2 /\ f.phase \in Phases /\ f.phase # "AwaitNewKeys" /\ f.i_c = f.i_s
    BY <1>5, <1>6, <1>10 DEF Phases
  <2> QED
    BY <1>6, <1>10, <1>11, <2>1, SessionStanding
<1>13. ServerInv(f) /\ f.stage # "Closed"
  BY <1>9, <1>10, <1>12 DEF Taken, ServerInv
<1>14. Out(f.wire, d, TxPlace(f)) /\ In(RxPlace(f, k), d) /\ k >= Len(f.deferred) /\ k \in Nat
  BY <1>2, <1>9, <1>10, <1>11 DEF TxPlace, RxPlace, Taken
<1>15. Login(f.stage, f.wire, d.state, d.wire)
  <2>1. Login("Session", e.wire, d.state, w)
    BY DEF Taken
  <2>2. Less(d.wire, w, Requests) /\ Less(d.wire, w, {"service"}) /\ Less(d.wire, w, {"auth"})
    BY <1>4 DEF Calmer
  <2> QED
    BY <1>9, <1>10, <2>1, <2>2, SessionLogin
<1>16. Opened(f.open, f.wire, d) /\ ClientInv(d)
  BY <1>9, <1>10, OpenedOn DEF Taken
<1>17. Joined(f, d)
  BY <1>13, <1>14, <1>15, <1>16, Joins
<1> QED
  BY <1>3, <1>17 DEF m, g, x, R

\* A packet of the session in the half-duplex window waits for its end.
LEMMA JoinDefer ==
  ASSUME NEW e, NEW d, NEW w, NEW k, NEW r, Taken(e, d, w, k, r), e.stage = "Session", e.phase = "SentKexInit",
         Head(w).msg.kind # "kexinit"
  PROVE  Joined(pass_to_channel(e, Head(w).msg), d)
<1> DEFINE m == Head(w).msg
           f == [e EXCEPT !.deferred = Append(e.deferred, m)]
           x == protocol_disconnect(e, "too-many-deferred-during-rekey")
<1>1. m.kind \in SessionKinds /\ k < d.profile.traffic /\ r = At(RxRound(e), "idle", e.seq_rx, k + 1)
  BY SessionArrives
<1>2. Standing(e) /\ DOMAIN e = Fields /\ k \in Nat /\ k >= Len(e.deferred)
  BY TakenCalm
<1>3. Queue(e.deferred) /\ ClientInv(d) /\ Len(e.deferred) \in Nat
  <2>1. Queue(e.deferred) /\ ClientInv(d)
    BY DEF Taken, ServerInv
  <2> QED
    BY <2>1 DEF Queue
<1>4. Joined(e, d)
  BY <1>1, JoinRead
<1>5. CASE m.kind = "data"
  <2>1. e.open
    BY <1>5 DEF Taken
  <2>2. pass_to_channel(e, m) = e
    BY <1>5, <2>1 DEF pass_to_channel, handle_inbound
  <2> QED
    BY <1>4, <2>2
<1>6. CASE m.kind # "data" /\ Len(e.deferred) >= MAX_DEFERRED
  <2>1. pass_to_channel(e, m) = x
    BY <1>6 DEF pass_to_channel
  <2>2. d.profile.traffic > MAX_DEFERRED
    <3>1. d.profile.traffic \in Nat /\ MAX_DEFERRED \in Nat
      BY <1>3, TransportAssumption DEF ClientInv
    <3> QED
      BY <1>1, <1>2, <1>3, <1>6, <3>1
  <2>3. Shut(e, x, "too-many-deferred-during-rekey")
    BY <1>2, Shuts
  <2>4. Joined(x, d)
    BY <2>2, <2>3, Ends DEF Taken
  <2> QED
    BY <2>1, <2>4
<1>7. CASE m.kind # "data" /\ ~(Len(e.deferred) >= MAX_DEFERRED)
  <2>1. pass_to_channel(e, m) = f
    BY <1>7 DEF pass_to_channel
  <2>2. /\ DOMAIN f = Fields /\ f.stage = e.stage /\ f.phase = e.phase /\ f.i_s = e.i_s /\ f.reason = e.reason
        /\ f.session_id = e.session_id /\ f.rx = e.rx /\ f.tx = e.tx /\ f.deferred = Append(e.deferred, m)
        /\ f.wire = e.wire /\ f.seq_tx = e.seq_tx /\ f.seq_rx = e.seq_rx /\ f.open = e.open
    BY <1>2 DEF Fields
  <2>3. m.kind \in {"open", "global", "ignore"}
    BY <1>1, <1>7 DEF SessionKinds
  <2> HIDE DEF f, m
  <2>4. RxRound(f) = RxRound(e) /\ RxStep(f) = "idle" /\ TxRound(f) = TxRound(e) /\ TxStep(f) = TxStep(e)
    BY <2>2, Places
  <2>5. Answerable(f.deferred) /\ Queue(f.deferred) /\ Len(f.deferred) = Len(e.deferred) + 1
    <3> DEFINE q == e.deferred
               l == Len(q)
               u == Append(q, m)
    <3>1. /\ Queue(u) /\ l \in Nat /\ Len(u) = l + 1 /\ DOMAIN q = 1..l /\ DOMAIN u = 1..(l + 1)
          /\ (\A j \in 1..l : u[j] = q[j]) /\ u[l + 1] = m
      BY <1>3, Appending
    <3>2. Answerable(q)
      BY <1>2, SessionStanding
    <3> HIDE DEF q, l, u
    <3>3. ASSUME NEW i \in 1..(l + 1) PROVE u[i].kind \in {"open", "global", "ignore"}
      <4>1. CASE i = l + 1
        BY <2>3, <3>1, <4>1
      <4>2. CASE i # l + 1
        <5>1. i \in 1..l
          BY <3>1, <4>2
        <5> QED
          BY <3>1, <3>2, <5>1 DEF Answerable
      <4> QED
        BY <4>1, <4>2
    <3>4. Answerable(u)
      BY <3>1, <3>3 DEF Answerable
    <3> QED
      BY <2>2, <3>1, <3>4 DEF u, q, l
  <2>6. Standing(f)
    BY <1>2, <2>2, <2>4, <2>5, SessionStanding
  <2>7. ServerInv(f) /\ f.stage # "Closed"
    BY <2>2, <2>5, <2>6 DEF Taken, ServerInv
  <2>8. Out(f.wire, d, TxPlace(f)) /\ In(RxPlace(f, k + 1), d)
    <3>1. Out(e.wire, d, TxPlace(e))
      BY TakenCalm
    <3> QED
      BY <1>1, <2>2, <2>4, <3>1 DEF TxPlace, RxPlace, Taken
  <2>9. k + 1 \in Nat /\ k + 1 >= Len(f.deferred)
    BY <1>2, <1>3, <2>5
  <2>10. Login(f.stage, f.wire, d.state, d.wire) /\ Opened(f.open, f.wire, d)
    BY <1>4, <2>2 DEF Joined
  <2>11. Joined(f, d)
    BY <1>3, <2>7, <2>8, <2>9, <2>10, Joins
  <2> QED
    BY <2>1, <2>11 DEF m
<1> HIDE DEF m, x, f
<1> QED
  BY <1>5, <1>6, <1>7

\* The packet of a wrong guess is passed over.
LEMMA JoinSkipRekey ==
  ASSUME NEW e, NEW d, NEW w, NEW k, NEW r, Taken(e, d, w, k, r), e.stage = "Session", e.phase = "SkipGuessed"
  PROVE  Joined([e EXCEPT !.phase = "AwaitHybridInit"], d)
<1> DEFINE R == e.i_s - 1
           f == [e EXCEPT !.phase = "AwaitHybridInit"]
<1>1. RxRound(e) = R /\ RxStep(e) = "guess" /\ TxRound(e) = R /\ TxStep(e) = "init"
  BY Places
<1>2. PICK n : e.seq_rx = next_seq(n) /\ Follows("c2s", d.profile.traffic, At(R, "guess", n, k), Head(w), r)
  BY <1>1 DEF Taken
<1> HIDE DEF R
<1>3. r = At(R, "init", e.seq_rx, k)
  BY <1>2, Arrives
<1>4. Standing(e) /\ DOMAIN e = Fields /\ Out(e.wire, d, TxPlace(e)) /\ Calmer(d.wire, w)
  BY TakenCalm
<1>5. /\ DOMAIN f = Fields /\ f.stage = e.stage /\ f.phase = "AwaitHybridInit" /\ f.i_s = e.i_s /\ f.i_c = e.i_c
      /\ f.reason = e.reason /\ f.session_id = e.session_id /\ f.rx = e.rx /\ f.tx = e.tx /\ f.deferred = e.deferred
      /\ f.wire = e.wire /\ f.seq_tx = e.seq_tx /\ f.seq_rx = e.seq_rx /\ f.open = e.open
  BY <1>4 DEF Fields
<1> HIDE DEF f
<1>6. RxRound(f) = R /\ RxStep(f) = "init" /\ TxRound(f) = R /\ TxStep(f) = "init"
  BY <1>5, Places DEF R
<1>7. Standing(f)
  BY <1>1, <1>4, <1>5, <1>6, SessionStanding DEF Phases
<1>8. ServerInv(f) /\ f.stage # "Closed"
  BY <1>5, <1>7 DEF Taken, ServerInv
<1>9. Out(f.wire, d, TxPlace(f)) /\ In(RxPlace(f, k), d) /\ k >= Len(f.deferred) /\ k \in Nat
  BY <1>1, <1>3, <1>4, <1>5, <1>6 DEF TxPlace, RxPlace, Taken
<1>10. Login(f.stage, f.wire, d.state, d.wire)
  <2>1. Login(e.stage, e.wire, d.state, w) /\ Calmer(e.wire, e.wire)
    BY CalmSame DEF Taken
  <2>2. Login(e.stage, e.wire, d.state, d.wire)
    BY <1>4, <2>1, CalmLogin
  <2> QED
    BY <1>5, <2>2
<1>11. Opened(f.open, f.wire, d) /\ ClientInv(d)
  BY <1>5 DEF Taken
<1>12. Joined(f, d)
  BY <1>8, <1>9, <1>10, <1>11, Joins
<1> QED
  BY <1>12 DEF f

\* Reply and NEWKEYS leave under the old keys, and the send side switches.
LEMMA JoinReply ==
  ASSUME NEW e, NEW d, NEW w, NEW k, NEW r, Taken(e, d, w, k, r), e.stage = "Session", e.phase = "AwaitHybridInit"
  PROVE  Head(w).msg.kind = "hybrid_init" /\ Joined(complete_rekey_reply(e, Head(w).msg), d)
<1> DEFINE m == Head(w).msg
           R == e.i_s - 1
           h == exchange_hash(e)
           tx == derive_cipher(h, e.session_id, "s2c")
           rx == derive_cipher(h, e.session_id, "c2s")
           x == write_packet(e, Msg("hybrid_reply"))
           g == write_packet(x, Msg("newkeys"))
           f == [g EXCEPT !.tx = tx, !.seq_tx = 0, !.sealed = 0, !.new_rx = rx, !.phase = "AwaitNewKeys"]
<1>1. RxRound(e) = R /\ RxStep(e) = "init" /\ TxRound(e) = R /\ TxStep(e) = "init"
  BY Places
<1>2. PICK n : e.seq_rx = next_seq(n) /\ Follows("c2s", d.profile.traffic, At(R, "init", n, k), Head(w), r)
  BY <1>1 DEF Taken
<1>3. m.kind = "hybrid_init" /\ m.half = "ok" /\ r = At(R, "half", e.seq_rx, k)
  <2> HIDE DEF R
  <2> QED
    BY <1>2, Arrives
<1>4. complete_rekey_reply(e, m) = f
  BY <1>3 DEF complete_rekey_reply
<1>5. Standing(e) /\ DOMAIN e = Fields /\ Out(e.wire, d, TxPlace(e)) /\ Calmer(d.wire, w) /\ Queue(e.wire)
  BY TakenCalm
<1>6. /\ e.i_s \in Nat /\ e.i_s >= 2 /\ e.i_c = e.i_s /\ e.reason = "none" /\ e.session_id = <<1, 1>>
      /\ e.rx = Key(R, "c2s") /\ e.tx = Key(R, "s2c") /\ Answerable(e.deferred)
  BY <1>1, <1>5, SessionStanding
<1>7. tx = Key(e.i_s, "s2c") /\ rx = Key(e.i_s, "c2s")
  BY <1>6 DEF exchange_hash, Key
<1>8. Wrote(e, Msg("hybrid_reply"), x) /\ Wrote(x, Msg("newkeys"), g)
  <2>1. Wrote(e, Msg("hybrid_reply"), x)
    BY <1>5, Writes
  <2> HIDE DEF x
  <2>2. Wrote(x, Msg("newkeys"), g)
    BY <2>1, Writes DEF Wrote, Same
  <2> QED
    BY <2>1, <2>2
<1> HIDE DEF m, h, tx, rx, x, g
<1>9. Same(e, g) /\ g.seq_rx = e.seq_rx
  BY <1>8 DEF Wrote, Same
<1>10. /\ DOMAIN f = Fields /\ f.stage = e.stage /\ f.i_c = e.i_c /\ f.reason = e.reason /\ f.i_s = e.i_s
       /\ f.session_id = e.session_id /\ f.phase = "AwaitNewKeys" /\ f.new_rx = rx
       /\ f.rx = e.rx /\ f.tx = tx /\ f.deferred = e.deferred /\ f.open = e.open /\ f.wire = g.wire
       /\ f.seq_rx = e.seq_rx /\ f.seq_tx = 0
  BY <1>9 DEF Fields, Same
<1> HIDE DEF f
<1>11. RxRound(f) = R /\ RxStep(f) = "half" /\ TxRound(f) = e.i_s /\ TxStep(f) = "idle"
  BY <1>10, Places
<1>12. Standing(f)
  <2> HIDE DEF R
  <2> QED
    BY <1>6, <1>7, <1>10, <1>11, SessionStanding DEF Phases
<1>13. Out(g.wire, d, At(e.i_s, "idle", 0, 0)) /\ Queue(g.wire)
  <2>1. R + 1 = e.i_s
    BY <1>6
  <2>2. Out(e.wire, d, At(R, "init", e.seq_tx, 0))
    BY <1>1, <1>5 DEF TxPlace
  <2> HIDE DEF R
  <2>3. Out(g.wire, d, At(R + 1, "idle", 0, 0)) /\ Queue(g.wire)
    BY <1>5, <1>6, <1>8, <2>2, OutKeys
  <2> QED
    BY <2>1, <2>3
<1>14. ServerInv(f) /\ f.stage # "Closed"
  BY <1>10, <1>12, <1>13 DEF Taken, ServerInv
<1>15. Out(f.wire, d, TxPlace(f)) /\ In(RxPlace(f, k), d) /\ k >= Len(f.deferred) /\ k \in Nat
  <2> HIDE DEF R
  <2> QED
    BY <1>3, <1>10, <1>11, <1>13 DEF TxPlace, RxPlace, Taken
<1>16. Calmer(f.wire, e.wire) /\ (Has(f.wire, {"open_reply"}) => Has(e.wire, {"open_reply"}))
  <2> DEFINE p == packet(e, Msg("hybrid_reply"))
             o == packet(x, Msg("newkeys"))
  <2>1. p.msg.kind = "hybrid_reply" /\ o.msg.kind = "newkeys"
    BY Packet DEF Msg
  <2>2. x.wire = Append(e.wire, p) /\ f.wire = Append(x.wire, o)
    BY <1>8, <1>10 DEF Wrote
  <2> HIDE DEF p, o
  <2>3. /\ "hybrid_reply" \notin Requests \cup Responses \cup SessionKinds
        /\ "newkeys" \notin Requests \cup Responses \cup SessionKinds
    BY DEF Requests, Responses, SessionKinds
  <2>4. Queue(x.wire)
    BY <1>5, <2>2, Appending
  <2>5. Calmer(x.wire, e.wire) /\ Calmer(f.wire, x.wire)
    BY <1>5, <2>1, <2>2, <2>3, <2>4, CalmWrite
  <2>6. /\ Has(x.wire, {"open_reply"}) => Has(e.wire, {"open_reply"})
        /\ Has(f.wire, {"open_reply"}) => Has(x.wire, {"open_reply"})
    BY <1>5, <2>1, <2>2, <2>4, HasAppended
  <2> QED
    BY <2>5, <2>6, CalmTwice
<1>17. Login(f.stage, f.wire, d.state, d.wire)
  <2>1. Login(e.stage, e.wire, d.state, w)
    BY DEF Taken
  <2>2. Login(e.stage, f.wire, d.state, d.wire)
    BY <1>5, <1>16, <2>1, CalmLogin
  <2> QED
    BY <1>10, <2>2
<1>18. Opened(f.open, f.wire, d) /\ ClientInv(d)
  BY <1>10, <1>16, OpenedOn DEF Taken
<1>19. Joined(f, d)
  BY <1>14, <1>15, <1>17, <1>18, Joins
<1> QED
  BY <1>3, <1>4, <1>19 DEF m

\* The new receive keys, from number 0.
LEMMA JoinInstall ==
  ASSUME NEW e, NEW d, NEW w, NEW k, NEW r, Taken(e, d, w, k, r), e.stage = "Session", e.phase = "AwaitNewKeys"
  PROVE  LET f == install_rx(e) IN
         /\ Head(w).msg.kind = "newkeys"
         /\ Joined(f, d) /\ f.stage = "Session" /\ f.phase = "Idle"
<1> DEFINE R == e.i_s - 1
           f == install_rx(e)
<1>1. RxRound(e) = R /\ RxStep(e) = "half" /\ TxRound(e) = e.i_s /\ TxStep(e) = "idle"
  BY Places
<1>2. PICK n : e.seq_rx = next_seq(n) /\ Follows("c2s", d.profile.traffic, At(R, "half", n, k), Head(w), r)
  BY <1>1 DEF Taken
<1>3. Standing(e) /\ DOMAIN e = Fields /\ Out(e.wire, d, TxPlace(e)) /\ Calmer(d.wire, w) /\ Queue(e.wire)
  BY TakenCalm
<1>4. /\ e.i_s \in Nat /\ e.i_s >= 2 /\ e.i_c = e.i_s /\ e.reason = "none" /\ e.session_id = <<1, 1>>
      /\ e.new_rx = Key(e.i_s, "c2s") /\ e.tx = Key(e.i_s, "s2c")
  BY <1>1, <1>3, SessionStanding
<1>5. R + 1 = e.i_s
  BY <1>4
<1> HIDE DEF R
<1>6. Head(w).msg.kind = "newkeys" /\ r = At(e.i_s, "idle", 0, k)
  BY <1>2, <1>5, Arrives
<1>7. /\ DOMAIN f = Fields /\ f.stage = e.stage /\ f.phase = "Idle" /\ f.i_s = e.i_s /\ f.i_c = e.i_c
      /\ f.reason = e.reason /\ f.session_id = e.session_id /\ f.rx = e.new_rx /\ f.tx = e.tx /\ f.deferred = <<>>
      /\ f.wire = e.wire /\ f.seq_tx = e.seq_tx /\ f.seq_rx = 0 /\ f.open = e.open
  BY <1>3 DEF Fields, install_rx
<1> HIDE DEF f
<1>8. RxRound(f) = e.i_s /\ RxStep(f) = "idle" /\ TxRound(f) = e.i_s /\ TxStep(f) = "idle"
  BY <1>7, Places
<1>9. Answerable(f.deferred) /\ Queue(f.deferred) /\ Len(f.deferred) = 0
  <2>1. <<>> \in Seq({})
    OBVIOUS
  <2> QED
    BY <1>7, <2>1 DEF Answerable, Queue
<1>10. Standing(f)
  <2>1. f.i_s >= 1 /\ f.phase \in Phases
    BY <1>4, <1>7 DEF Phases
  <2> QED
    BY <1>4, <1>7, <1>8, <1>9, <2>1, SessionStanding
<1>11. ServerInv(f) /\ f.stage # "Closed"
  BY <1>3, <1>7, <1>9, <1>10 DEF ServerInv
<1>12. Out(f.wire, d, TxPlace(f)) /\ In(RxPlace(f, k), d)
  BY <1>1, <1>3, <1>6, <1>7, <1>8 DEF TxPlace, RxPlace, Taken
<1>13. k \in Nat /\ k >= Len(f.deferred)
  BY <1>9 DEF Taken
<1>14. Login(f.stage, f.wire, d.state, d.wire)
  <2>1. Login(e.stage, e.wire, d.state, w) /\ Calmer(e.wire, e.wire)
    BY CalmSame DEF Taken
  <2>2. Login(e.stage, e.wire, d.state, d.wire)
    BY <1>3, <2>1, CalmLogin
  <2> QED
    BY <1>7, <2>2
<1>15. Opened(f.open, f.wire, d) /\ ClientInv(d)
  BY <1>7 DEF Taken
<1>16. Joined(f, d)
  BY <1>11, <1>12, <1>13, <1>14, <1>15, Joins
<1> QED
  BY <1>6, <1>7, <1>16 DEF f

\* What waited is handled in order.
LEMMA JoinDrain ==
  ASSUME NEW e, NEW d, NEW w, NEW k, NEW r, Taken(e, d, w, k, r), e.stage = "Session", e.phase = "AwaitNewKeys"
  PROVE  Joined(drain_deferred(e), d)
<1> DEFINE n == Len(e.deferred)
           f == CHOOSE f : f = [j \in 0..n |-> IF j = 0 THEN install_rx(e)
                                               ELSE handle_inbound(f[j - 1], e.deferred[j])]
<1>1. Queue(e.deferred) /\ Answerable(e.deferred) /\ n \in Nat /\ DOMAIN e.deferred = 1..n
  <2>1. Queue(e.deferred)
    BY DEF Taken, ServerInv
  <2>2. Answerable(e.deferred)
    BY TakenCalm, SessionStanding
  <2> QED
    BY <2>1, <2>2 DEF Queue
<1>2. drain_deferred(e) = f[n]
  BY DEF drain_deferred
<1> HIDE DEF n
<1>3. Drained(f, e, n)
  BY <1>1, DrainExists DEF Drained
<1> HIDE DEF f
<1> DEFINE Good(x) == Joined(x, d) /\ x.stage = "Session" /\ x.phase = "Idle"
           Bad == {j \in 0..n : ~ Good(f[j])}
<1>4. Bad = {}
  <2> SUFFICES ASSUME Bad # {} PROVE FALSE
    OBVIOUS
  <2>1. PICK j \in Bad : \A i \in Bad : j <= i
    <3>1. Bad \subseteq Nat
      BY <1>1
    <3> HIDE DEF Bad
    <3> QED
      BY <3>1, LeastNumber
  <2>2. Good(install_rx(e))
    BY JoinInstall
  <2> HIDE DEF Good
  <2>3. j # 0
    BY <1>1, <1>3, <2>1, <2>2 DEF Drained
  <2>4. j \in 0..n /\ j - 1 \in 0..n /\ ~(j <= j - 1) /\ j \in 1..n
    BY <1>1, <2>1, <2>3
  <2>5. Good(f[j - 1])
    BY <2>1, <2>4
  <2>6. f[j] = handle_inbound(f[j - 1], e.deferred[j])
    BY <1>1, <1>3, <2>3, <2>4 DEF Drained
  <2>7. e.deferred[j].kind \in SessionKinds /\ e.deferred[j].kind # "data"
    BY <1>1, <2>4 DEF Answerable, SessionKinds
  <2>8. Good(f[j])
    BY <2>5, <2>6, <2>7, JoinInbound DEF Good
  <2> QED
    BY <2>1, <2>8
<1>5. Good(f[n])
  <2> HIDE DEF Good
  <2> QED
    BY <1>1, <1>4
<1> QED
  BY <1>2, <1>5

LEMMA JoinRekey ==
  ASSUME NEW e, NEW d, NEW w, NEW k, NEW r, Taken(e, d, w, k, r), e.stage = "Session",
         e.phase = "Idle" => Head(w).msg.kind = "kexinit"
  PROVE  Joined(step_rekey(e, Head(w).msg), d)
<1> DEFINE m == Head(w).msg
           f == step_rekey(e, m)
<1>1. e.phase \in Phases
  BY TakenCalm, SessionStanding
<1>2. CASE e.phase = "Idle"
  <2>1. f = negotiate_rekey(write_packet([e EXCEPT !.i_s = @ + 1], KexReply(e.i_s + 1)), m)
    BY <1>2 DEF step_rekey
  <2> HIDE DEF f
  <2> QED
    BY <1>2, <2>1, JoinKexIdle DEF f
<1>3. CASE e.phase = "SentKexInit"
  <2>1. f = IF m.kind = "kexinit" THEN negotiate_rekey(e, m) ELSE pass_to_channel(e, m)
    BY <1>3 DEF step_rekey
  <2>2. CASE m.kind = "kexinit"
    BY <1>3, <2>1, <2>2, JoinKexSent
  <2>3. CASE m.kind # "kexinit"
    BY <1>3, <2>1, <2>3, JoinDefer
  <2> QED
    BY <2>2, <2>3
<1>4. CASE e.phase = "SkipGuessed"
  <2>1. f = [e EXCEPT !.phase = "AwaitHybridInit"]
    BY <1>4 DEF step_rekey
  <2>2. Joined([e EXCEPT !.phase = "AwaitHybridInit"], d)
    BY <1>4, JoinSkipRekey
  <2> QED
    BY <2>1, <2>2
<1>5. CASE e.phase = "AwaitHybridInit"
  <2>1. m.kind = "hybrid_init" /\ Joined(complete_rekey_reply(e, m), d)
    BY <1>5, JoinReply
  <2>2. f = complete_rekey_reply(e, m)
    BY <1>5, <2>1 DEF step_rekey
  <2> QED
    BY <2>1, <2>2
<1>6. CASE e.phase = "AwaitNewKeys"
  <2>1. m.kind = "newkeys" /\ Joined(drain_deferred(e), d)
    BY <1>6, JoinInstall, JoinDrain
  <2>2. f = drain_deferred(e)
    BY <1>6, <2>1 DEF step_rekey
  <2> QED
    BY <2>1, <2>2
<1> QED
  BY <1>1, <1>2, <1>3, <1>4, <1>5, <1>6 DEF Phases

LEMMA JoinSession ==
  ASSUME NEW e, NEW d, NEW w, NEW k, NEW r, Taken(e, d, w, k, r), e.stage = "Session"
  PROVE  Joined(session(e, Head(w).msg), d)
<1> DEFINE m == Head(w).msg
           g == [e EXCEPT !.pc = "head"]
<1>1. Twin(e, g)
  BY TakenCalm DEF Twin, Same, Fields
<1>2. session(e, m) = IF e.phase # "Idle" \/ m.kind = "kexinit" THEN step_rekey(g, m) ELSE handle_inbound(g, m)
  BY DEF session, rekey_active
<1> HIDE DEF g
<1>3. Taken(g, d, w, k, r) /\ g.stage = "Session" /\ g.phase = e.phase
  BY <1>1, TwinTaken DEF Twin, Same
<1>4. CASE e.phase # "Idle" \/ m.kind = "kexinit"
  BY <1>2, <1>3, <1>4, JoinRekey
<1>5. CASE ~(e.phase # "Idle" \/ m.kind = "kexinit")
  <2>1. m.kind \in SessionKinds /\ r = At(RxRound(g), "idle", g.seq_rx, k + 1)
    BY <1>3, <1>5, SessionArrives
  <2>2. Joined(g, d)
    BY <1>3, <1>5, <2>1, JoinRead
  <2>3. m.kind = "data" => g.open
    BY <1>3 DEF Taken
  <2>4. Joined(handle_inbound(g, m), d)
    BY <1>3, <1>5, <2>1, <2>2, <2>3, JoinInbound
  <2> QED
    BY <1>2, <1>5, <2>4
<1> QED
  BY <1>4, <1>5

-----------------------------------------------------------------------------
(* The server's steps, with a client that keeps the protocol.                *)

LEMMA JoinVersion ==
  ASSUME NEW e, NEW d, Joined(e, d), e.stage = "Version"
  PROVE  /\ Joined(close(e, "bad-identification"), d)
         /\ Joined(write_plain([e EXCEPT !.stage = "KexInit", !.i_s = 1], KexReply(1)), d)
<1> DEFINE x == [e EXCEPT !.stage = "KexInit", !.i_s = 1]
           f == write_plain(x, KexReply(1))
<1>1. Standing(e) /\ DOMAIN e = Fields /\ Queue(e.wire) /\ Out(e.wire, d, TxPlace(e)) /\ ClientInv(d)
  BY DEF Joined, ServerInv, OutStream
<1>2. Joined(close(e, "bad-identification"), d)
  <2> DEFINE g == close(e, "bad-identification")
  <2>1. Shut(e, g, "bad-identification")
    BY <1>1, Shuts
  <2> HIDE DEF g
  <2> QED
    BY <1>1, <2>1, Ends DEF Joined, Fair, g
<1>3. RxRound(e) = 0 /\ RxStep(e) = "idle" /\ TxRound(e) = 0 /\ TxStep(e) = "idle"
  BY DEF RxRound, RxStep, TxRound, TxStep, Opening
<1>4. /\ DOMAIN x = Fields /\ x.i_s = 1 /\ x.stage = "KexInit" /\ x.reason = e.reason /\ x.tx = e.tx /\ x.rx = e.rx
      /\ x.session_id = e.session_id /\ x.open = e.open /\ x.deferred = e.deferred
      /\ x.wire = e.wire /\ x.seq_tx = e.seq_tx /\ x.seq_rx = e.seq_rx
  BY <1>1 DEF Fields
<1> HIDE DEF x
<1>5. Wrote(x, KexReply(1), f)
  BY <1>4, Writes
<1> HIDE DEF f
<1>6. e.tx = Key(0, "s2c") /\ e.rx = Key(0, "c2s") /\ e.deferred = <<>> /\ e.reason = "none"
  BY <1>1, <1>3 DEF Standing
<1>7. /\ Out(f.wire, d, At(0, "init", f.seq_tx, 0)) /\ Queue(f.wire)
      /\ Has(f.wire, {"open_reply"}) => Has(e.wire, {"open_reply"})
  <2> DEFINE R == 0
  <2>1. /\ R \in Nat /\ Out(x.wire, d, At(R, "idle", x.seq_tx, 0)) /\ x.tx = Key(R, "s2c") /\ Queue(x.wire)
        /\ R + 1 = 1
    BY <1>1, <1>3, <1>4, <1>6 DEF TxPlace
  <2> HIDE DEF R
  <2>2. /\ Out(f.wire, d, At(R, "init", f.seq_tx, 0)) /\ Queue(f.wire)
        /\ Has(f.wire, {"open_reply"}) => Has(x.wire, {"open_reply"})
    BY <1>5, <2>1, Announces
  <2> QED
    BY <1>4, <2>2 DEF R
<1>8. /\ DOMAIN f = Fields /\ f.stage = "KexInit" /\ f.i_s = 1 /\ f.reason = "none" /\ f.tx = Key(0, "s2c")
      /\ f.rx = Key(0, "c2s") /\ f.deferred = <<>> /\ f.open = e.open /\ f.seq_rx = e.seq_rx
      /\ f.wire = Append(e.wire, packet(x, KexReply(1)))
  BY <1>4, <1>5, <1>6 DEF Wrote, Same
<1>9. RxRound(f) = 0 /\ RxStep(f) = "idle" /\ TxRound(f) = 0 /\ TxStep(f) = "init"
  BY <1>8 DEF RxRound, RxStep, TxRound, TxStep, Opening
<1>10. Standing(f)
  BY <1>8, <1>9 DEF Standing, Opening
<1>11. ServerInv(f) /\ f.stage # "Closed"
  BY <1>7, <1>8, <1>10, Nothing DEF ServerInv, Opening
<1>12. PICK k \in Nat : k >= Len(e.deferred) /\ In(RxPlace(e, k), d)
  BY DEF Joined, InStream
<1>13. Out(f.wire, d, TxPlace(f)) /\ In(RxPlace(f, k), d) /\ k >= Len(f.deferred)
  BY <1>3, <1>6, <1>7, <1>8, <1>9, <1>12 DEF TxPlace, RxPlace
<1>14. Login(f.stage, f.wire, d.state, d.wire)
  <2>1. Login(e.stage, e.wire, d.state, d.wire) /\ Calmer(d.wire, d.wire)
    BY CalmSame DEF Joined
  <2>2. Calmer(f.wire, e.wire)
    <3> DEFINE p == packet(x, KexReply(1))
    <3>1. p.msg.kind = "kexinit" /\ p.msg.n = 1
      BY Packet DEF KexReply, KexInit
    <3>2. p.msg.kind \notin Requests \cup Responses \cup SessionKinds
      BY <3>1 DEF Requests, Responses, SessionKinds
    <3> HIDE DEF p
    <3>3. Calmer(Append(e.wire, p), e.wire)
      BY <1>1, <3>1, <3>2, CalmWrite
    <3> QED
      BY <1>8, <3>3 DEF p
  <2>3. {e.stage, f.stage} \subseteq Opening \cup {"ServiceRequest"}
    BY <1>8 DEF Opening
  <2> QED
    BY <2>1, <2>2, <2>3, CalmLogin
<1>15. Opened(f.open, f.wire, d)
  BY <1>7, <1>8, OpenedOn DEF Joined
<1>16. Joined(f, d)
  BY <1>1, <1>11, <1>13, <1>14, <1>15, Joins
<1> QED
  BY <1>2, <1>16 DEF f, x

\* The client after the server has read the first packet.
LEMMA WireRead ==
  ASSUME NEW d, ClientInv(d), d.wire # <<>>, NEW g, g = [d EXCEPT !.wire = Tail(@)]
  PROVE  /\ ClientInv(g) /\ g.wire = Tail(d.wire) /\ SRound(g) = SRound(d) /\ SStep(g) = SStep(d)
         /\ RRound(g) = RRound(d) /\ RStep(g) = RStep(d) /\ g.seq_tx = d.seq_tx /\ g.seq_rx = d.seq_rx
         /\ g.sent = d.sent /\ g.profile = d.profile /\ g.state = d.state /\ g.open = d.open
<1>1. DOMAIN d = ClientFields /\ Queue(d.wire)
  BY DEF ClientInv
<1>2. /\ DOMAIN g = ClientFields /\ g.wire = Tail(d.wire) /\ g.phase = d.phase /\ g.profile = d.profile
      /\ g.seq_tx = d.seq_tx /\ g.seq_rx = d.seq_rx /\ g.tx = d.tx /\ g.rx = d.rx /\ g.session_id = d.session_id
      /\ g.i_s = d.i_s /\ g.i_c = d.i_c /\ g.guess = d.guess /\ g.new_rx = d.new_rx /\ g.state = d.state
      /\ g.open = d.open /\ g.sent = d.sent /\ g.fault = d.fault
  BY <1>1 DEF ClientFields
<1>3. Queue(g.wire)
  BY <1>1, <1>2, Tailing
<1>4. SRound(g) = SRound(d) /\ SStep(g) = SStep(d) /\ RRound(g) = RRound(d) /\ RStep(g) = RStep(d)
  BY <1>2 DEF SRound, SStep, RRound, RStep
<1>5. ClientInv(g)
  BY <1>2, <1>3, <1>4 DEF ClientInv
<1> QED
  BY <1>2, <1>4, <1>5

\* Every packet opens, and leads on.
LEMMA JoinTakes ==
  ASSUME NEW e, NEW d, Joined(e, d), e.stage # "Closed", d.wire # <<>>, NEW g, g = [d EXCEPT !.wire = Tail(@)]
  PROVE  /\ opens(e, Head(d.wire))
         /\ \A f : Took(e, f) => \E k, r : Taken(f, g, d.wire, k, r)
<1> DEFINE N == d.profile.traffic
           w == d.wire
<1>1. PICK k \in Nat : k >= Len(e.deferred) /\ In(RxPlace(e, k), d)
  BY DEF Joined, InStream
<1>2. ClientInv(d) /\ Queue(w) /\ w # <<>> /\ ServerInv(e) /\ Standing(e)
  BY DEF Joined, ClientInv, ServerInv
<1>3. /\ ClientInv(g) /\ g.wire = Tail(w) /\ SRound(g) = SRound(d) /\ SStep(g) = SStep(d)
      /\ RRound(g) = RRound(d) /\ RStep(g) = RStep(d) /\ g.seq_tx = d.seq_tx /\ g.seq_rx = d.seq_rx
      /\ g.sent = d.sent /\ g.profile = d.profile /\ g.state = d.state /\ g.open = d.open
  BY <1>2, WireRead
<1>4. PICK r : /\ Follows("c2s", N, RxPlace(e, k), Head(w), r)
               /\ Stream("c2s", N, Tail(w), r, At(SRound(d), SStep(d), d.seq_tx, d.sent))
  BY <1>1, <1>2, Receiving DEF In
<1>5. In(r, g)
  BY <1>3, <1>4 DEF In
<1>6. opens(e, Head(w))
  <2>1. RxPlace(e, k).round = RxRound(e) /\ RxPlace(e, k).seq = e.seq_rx
    BY DEF RxPlace, At
  <2>2. Head(w).key = Key(RxRound(e), "c2s") /\ Head(w).seq = e.seq_rx
    BY <1>4, <2>1 DEF Follows
  <2> QED
    BY <1>2, <2>2 DEF opens, Standing
<1>7. Login(e.stage, e.wire, g.state, w) /\ OutStream(e, g)
  BY <1>3 DEF Joined, OutStream, Out
<1>8. Opened(e.open, e.wire, g) /\ (Head(w).msg.kind = "data" => e.open)
  <2>1. /\ Has(Tail(w), {"data"}) => Has(w, {"data"})
        /\ Head(w).msg.kind \in {"data"} => Has(w, {"data"})
    BY <1>2, AfterRead
  <2> QED
    BY <1>3, <2>1 DEF Joined, Opened
<1>9. ASSUME NEW f, Took(e, f) PROVE Taken(f, g, w, k, r)
  <2>1. /\ Same(e, f) /\ f.wire = e.wire /\ f.seq_tx = e.seq_tx /\ f.seq_rx = next_seq(e.seq_rx)
        /\ DOMAIN f = Fields /\ f.stage = e.stage /\ f.open = e.open /\ f.deferred = e.deferred
    BY <1>9 DEF Took, Same
  <2>2. TxPlace(f) = TxPlace(e) /\ RxRound(f) = RxRound(e) /\ RxStep(f) = RxStep(e) /\ Standing(f)
    BY <1>2, <2>1, SamePlaces DEF TxPlace
  <2>3. ServerInv(f)
    BY <1>2, <2>1, <2>2 DEF ServerInv
  <2>4. OutStream(f, g)
    BY <1>7, <2>1, <2>2 DEF OutStream
  <2>5. f.seq_rx = next_seq(e.seq_rx)
        /\ Follows("c2s", g.profile.traffic, At(RxRound(f), RxStep(f), e.seq_rx, k), Head(w), r)
    BY <1>3, <1>4, <2>1, <2>2 DEF RxPlace
  <2>6. k \in Nat /\ k >= Len(f.deferred) /\ f.stage # "Closed" /\ Login(f.stage, f.wire, g.state, w)
        /\ Opened(f.open, f.wire, g) /\ (Head(w).msg.kind = "data" => f.open)
    BY <1>1, <1>7, <1>8, <2>1
  <2> QED
    BY <1>2, <1>3, <1>5, <2>3, <2>4, <2>5, <2>6 DEF Taken
<1> QED
  BY <1>6, <1>9

LEMMA JoinReads ==
  ASSUME Joined(s, c), server_reads
  PROVE  Joined(s', c')
<1> DEFINE p == Head(c.wire)
           m == p.msg
           d == [c EXCEPT !.wire = Tail(@)]
           e == read_plain(s)
           x == read_sealed(s)
           y == read_packet(s)
<1>1. /\ s.stage \notin {"Version", "Closed"} /\ c.wire # <<>> /\ c' = d
      /\ s' = IF opens(s, p) THEN handle(m) ELSE close(s, "packet-auth-failed")
  BY DEF server_reads, MayRead
<1>2. opens(s, p) /\ \A f : Took(s, f) => \E k, r : Taken(f, d, c.wire, k, r)
  BY <1>1, JoinTakes
<1>3. Took(s, e) /\ Took(s, x) /\ Took(s, y)
  BY Takes DEF Joined, ServerInv
<1>4. e.stage = s.stage /\ x.stage = s.stage /\ y.stage = s.stage
  BY <1>3 DEF Took, Same
<1>5. s' = handle(m)
  BY <1>1, <1>2
<1>6. /\ s.stage = "KexInit" => s' = exchange_kexinit(e, m)
      /\ s.stage = "SkipGuessed" => s' = [e EXCEPT !.stage = "HybridInit"]
      /\ s.stage = "HybridInit" => s' = run_hybrid(e, m)
      /\ s.stage = "NewKeys" => s' = exchange_newkeys(e, m)
      /\ s.stage = "ServiceRequest" => s' = read_service_request(x, m)
      /\ s.stage = "UserAuth" => s' = authenticate(x, m)
      /\ s.stage = "Session" => s' = session(y, m)
  BY <1>5 DEF handle
<1> HIDE DEF d, e, x, y, m
<1>7. PICK k, r : Taken(e, d, c.wire, k, r)
  BY <1>2, <1>3
<1>8. PICK i, t : Taken(x, d, c.wire, i, t)
  BY <1>2, <1>3
<1>9. PICK j, u : Taken(y, d, c.wire, j, u)
  BY <1>2, <1>3
<1>10. m = Head(c.wire).msg
  BY DEF m
<1>11. CASE s.stage = "KexInit"
  BY <1>1, <1>4, <1>6, <1>7, <1>10, <1>11, JoinKexInit
<1>12. CASE s.stage = "SkipGuessed"
  BY <1>1, <1>4, <1>6, <1>7, <1>12, JoinSkip
<1>13. CASE s.stage = "HybridInit"
  BY <1>1, <1>4, <1>6, <1>7, <1>10, <1>13, JoinHybrid
<1>14. CASE s.stage = "NewKeys"
  BY <1>1, <1>4, <1>6, <1>7, <1>10, <1>14, JoinNewKeys
<1>15. CASE s.stage = "ServiceRequest"
  BY <1>1, <1>4, <1>6, <1>8, <1>10, <1>15, JoinService
<1>16. CASE s.stage = "UserAuth"
  BY <1>1, <1>4, <1>6, <1>8, <1>10, <1>16, JoinAuth
<1>17. CASE s.stage = "Session"
  BY <1>1, <1>4, <1>6, <1>9, <1>10, <1>17, JoinSession
<1> QED
  BY <1>1, <1>11, <1>12, <1>13, <1>14, <1>15, <1>16, <1>17 DEF Joined, ServerInv, Opening

\* A burst of output between exchanges.
LEMMA JoinBurst ==
  ASSUME NEW e, NEW d, Joined(e, d), e.stage = "Session", NEW n \in Nat, n # 0 => e.phase = "Idle"
  PROVE  LET f == output_burst(e, n) IN Joined(f, d) /\ f.stage = "Session" /\ f.phase = e.phase
<1> DEFINE f == CHOOSE f : f = [j \in 0..n |-> IF j = 0 THEN e ELSE write_packet(f[j - 1], Msg("output"))]
           Good(x) == Joined(x, d) /\ x.stage = "Session" /\ x.phase = e.phase
<1>1. output_burst(e, n) = f[n]
  BY DEF output_burst
<1>2. Flushed(f, e, n)
  BY FlushExists DEF Flushed
<1> HIDE DEF f
<1> DEFINE Bad == {j \in 0..n : ~ Good(f[j])}
<1>3. Bad = {}
  <2> SUFFICES ASSUME Bad # {} PROVE FALSE
    OBVIOUS
  <2>1. PICK j \in Bad : \A i \in Bad : j <= i
    <3>1. Bad \subseteq Nat
      OBVIOUS
    <3> HIDE DEF Bad
    <3> QED
      BY <3>1, LeastNumber
  <2>2. Good(e)
    OBVIOUS
  <2> HIDE DEF Good
  <2>3. j # 0
    BY <1>2, <2>1, <2>2 DEF Flushed
  <2>4. j \in 0..n /\ j - 1 \in 0..n /\ ~(j <= j - 1) /\ n # 0
    BY <2>1, <2>3
  <2> DEFINE x == f[j - 1]
             m == Msg("output")
             y == write_packet(x, m)
  <2>5. Good(x)
    BY <2>1, <2>4
  <2>6. f[j] = y
    BY <1>2, <2>3, <2>4 DEF Flushed
  <2>7. m.kind = "output"
    BY DEF Msg
  <2> HIDE DEF x, m
  <2>8. Joined(x, d) /\ x.stage = "Session" /\ x.phase = "Idle" /\ e.phase = "Idle"
    BY <2>4, <2>5 DEF Good
  <2>9. Wrote(x, m, y)
    BY <2>8, Writes DEF Joined, ServerInv
  <2> HIDE DEF y
  <2>10. TxStep(x) = "idle" /\ TxRound(x) # 0
    <3>1. Standing(x)
      BY <2>8 DEF Joined, ServerInv
    <3>2. x.i_s \in Nat /\ x.i_s >= 1
      BY <2>8, <3>1, SessionStanding
    <3> QED
      BY <2>8, <3>2, Places
  <2>11. Joined(y, d)
    BY <2>7, <2>8, <2>9, <2>10, JoinTraffic
  <2>12. Good(y)
    BY <2>8, <2>9, <2>11 DEF Good, Wrote, Same
  <2> QED
    BY <2>1, <2>6, <2>12
<1>4. Good(f[n])
  <2> HIDE DEF Good
  <2> QED
    BY <1>3
<1> QED
  BY <1>1, <1>4

LEMMA JoinLoop ==
  ASSUME Joined(s, c), NEW n \in 0..Burst, NEW time \in BOOLEAN, head_of_loop(n, time)
  PROVE  Joined(s', c')
<1> DEFINE f == output_burst(s, n)
           b == begin_rekey(f)
           g == [b EXCEPT !.pc = "select"]
           h == [f EXCEPT !.pc = "select"]
<1>1. s.stage = "Session" /\ (n > 0 => s.phase = "Idle") /\ c' = c
  BY DEF head_of_loop, rekey_active
<1>2. (s.phase = "Idle" /\ s' = g) \/ s' = h
  BY DEF head_of_loop, rekey_active
<1>3. n \in Nat /\ (n # 0 => s.phase = "Idle")
  BY <1>1, TransportAssumption
<1>4. Joined(f, c) /\ f.stage = "Session" /\ f.phase = s.phase
  BY <1>1, <1>3, JoinBurst
<1> HIDE DEF f
<1>5. s.phase = "Idle" => Joined(b, c)
  BY <1>4, JoinBegin
<1> HIDE DEF b
<1>6. ASSUME NEW x, Joined(x, c) PROVE Joined([x EXCEPT !.pc = "select"], c)
  <2>1. Twin(x, [x EXCEPT !.pc = "select"])
    BY <1>6 DEF Joined, ServerInv, Twin, Same, Fields
  <2> QED
    BY <1>6, <2>1, TwinJoined
<1>7. Joined(h, c) /\ (s.phase = "Idle" => Joined(g, c))
  BY <1>4, <1>5, <1>6
<1> HIDE DEF g, h
<1> QED
  BY <1>1, <1>2, <1>7

LEMMA JoinEnds ==
  ASSUME Joined(s, c), rekey_timeout \/ peer_closed
  PROVE  Joined(s', c')
<1>1. DOMAIN s = Fields /\ ServerInv(s) /\ ClientInv(c) /\ OutStream(s, c) /\ Opened(s.open, s.wire, c)
  BY DEF Joined, ServerInv
<1>2. CASE rekey_timeout
  <2>1. s.stage = "Session" /\ s' = reject_sealed(s, "rekey-timeout") /\ c' = c
    BY <1>2 DEF rekey_timeout
  <2>2. Shut(s, s', "rekey-timeout")
    BY <1>1, <2>1, Shuts
  <2> QED
    BY <1>1, <2>1, <2>2, Ends DEF Fair
<1>3. CASE peer_closed
  <2> DEFINE f == close(s, "io")
  <2>1. s.stage # "Closed" /\ s' = f /\ c' = c
    BY <1>3 DEF peer_closed, MayRead
  <2>2. Shut(s, f, "io")
    BY <1>1, Shuts
  <2>3. f.wire = s.wire
    BY <1>1 DEF close, Fields
  <2> HIDE DEF f
  <2> QED
    BY <1>1, <2>1, <2>2, <2>3, Ends DEF Fair
<1> QED
  BY <1>2, <1>3

-----------------------------------------------------------------------------
(* What the client's operators do.                                           *)

End(d) == At(SRound(d), SStep(d), d.seq_tx, d.sent)

\* What is written takes a stream from place y to place z.
Onward(N, v, y, w, z) == \A a : Stream("c2s", N, v, a, y) => Stream("c2s", N, w, a, z)

\* v asks for nothing that w does not.
Quiet(v, w) ==
  /\ Less(v, w, Requests) /\ Less(v, w, {"service"}) /\ Less(v, w, {"auth"})
  /\ Less(v, w, SessionKinds) /\ Less(v, w, {"data"})

LEMMA QuietTwice ==
  ASSUME NEW u, NEW v, NEW w, Quiet(u, v), Quiet(v, w)
  PROVE  Quiet(u, w)
BY DEF Quiet, Less

LEMMA QuietWrite ==
  ASSUME NEW w, Queue(w), NEW p, p.msg.kind \in {"kexinit", "guess", "hybrid_init", "newkeys"}
  PROVE  Quiet(Append(w, p), w) /\ Queue(Append(w, p))
<1>1. /\ p.msg.kind \notin Requests /\ p.msg.kind \notin {"service"} /\ p.msg.kind \notin {"auth"}
      /\ p.msg.kind \notin SessionKinds /\ p.msg.kind \notin {"data"}
  BY DEF Requests, SessionKinds
<1> QED
  BY <1>1, LessWritten, Appending DEF Quiet

\* A key exchange of the client's leaves the login alone.
LEMMA QuietLogin ==
  ASSUME NEW stage, NEW out, NEW out2, NEW state, NEW in, NEW in2, Login(stage, out, state, in), Calmer(out2, out),
         Quiet(in2, in), Rekeys(in2) => Rekeys(in) \/ stage \in {"Session", "Closed"}
  PROVE  Login(stage, out2, state, in2)
<1> SUFFICES ASSUME stage # "Closed" PROVE Login(stage, out2, state, in2)
  BY DEF Login
<1>1. /\ Has(out2, Responses) => Has(out, Responses)
      /\ Has(out2, {"success"}) => Has(out, {"success"})
      /\ Has(out2, Responses \ {"success"}) => Has(out, Responses \ {"success"})
      /\ One(out, Responses) => One(out2, Responses)
      /\ Rekeys(out2) => Rekeys(out)
  BY DEF Calmer, Less
<1>2. /\ Has(in2, Requests) => Has(in, Requests)
      /\ Has(in2, {"service"}) => Has(in, {"service"})
      /\ Has(in2, {"auth"}) => Has(in, {"auth"})
      /\ Has(in2, SessionKinds) => Has(in, SessionKinds)
      /\ One(in, Requests) => One(in2, Requests)
  BY DEF Quiet, Less
<1>3. Rekeys(in2) => stage = "Session"
  BY DEF Login
<1> QED
  BY <1>1, <1>2, <1>3, Zenon DEF Login

LEMMA QuietOpened ==
  ASSUME NEW open, NEW out, NEW out2, NEW d, NEW g, Opened(open, out, d), Quiet(g.wire, d.wire), g.open = d.open,
         Has(out2, {"open_reply"}) => Has(out, {"open_reply"})
  PROVE  Opened(open, out2, g)
BY DEF Opened, Quiet, Less

\* g is d after m is written.
Sent(d, m, g) ==
  /\ DOMAIN g = ClientFields /\ g.wire = Append(d.wire, packet(d, m)) /\ g.seq_tx = next_seq(d.seq_tx)
  /\ g.phase = d.phase /\ g.ext = d.ext /\ g.profile = d.profile /\ g.seq_rx = d.seq_rx /\ g.tx = d.tx /\ g.rx = d.rx
  /\ g.session_id = d.session_id /\ g.i_s = d.i_s /\ g.i_c = d.i_c /\ g.guess = d.guess /\ g.new_rx = d.new_rx
  /\ g.state = d.state /\ g.open = d.open /\ g.sent = d.sent /\ g.fault = d.fault

LEMMA Sends ==
  ASSUME NEW d, DOMAIN d = ClientFields, NEW m
  PROVE  Sent(d, m, put(d, m))
<1> DEFINE q == packet(d, m)
           n == next_seq(d.seq_tx)
           g == [d EXCEPT !.wire = Append(d.wire, q), !.seq_tx = n]
<1>1. put(d, m) = g
  BY DEF put
<1> HIDE DEF q, n
<1>2. /\ DOMAIN g = ClientFields /\ g.wire = Append(d.wire, q) /\ g.seq_tx = n
      /\ g.phase = d.phase /\ g.ext = d.ext /\ g.profile = d.profile /\ g.seq_rx = d.seq_rx /\ g.tx = d.tx /\ g.rx = d.rx
      /\ g.session_id = d.session_id /\ g.i_s = d.i_s /\ g.i_c = d.i_c /\ g.guess = d.guess /\ g.new_rx = d.new_rx
      /\ g.state = d.state /\ g.open = d.open /\ g.sent = d.sent /\ g.fault = d.fault
  BY DEF ClientFields
<1> HIDE DEF g
<1>3. Sent(d, m, g)
  BY <1>2 DEF Sent, q, n
<1> QED
  BY <1>1, <1>3

LEMMA InWrite ==
  ASSUME NEW N, NEW d, NEW m, NEW g, Queue(d.wire), Sent(d, m, g), NEW y, NEW z,
         Follows("c2s", N, y, packet(d, m), z)
  PROVE  Onward(N, d.wire, y, g.wire, z)
BY Sending DEF Onward, Sent

\* The client's KEXINIT of round R + 1.
LEMMA InKexInit ==
  ASSUME NEW N, NEW n, NEW R \in Nat, NEW d, NEW m, NEW g, Queue(d.wire), Sent(d, m, g), d.tx = Key(R, "c2s"),
         m.kind = "kexinit", m.n = R + 1, m.offer = "ok"
  PROVE  Onward(N, d.wire, At(R, "idle", d.seq_tx, n), g.wire,
                At(R, IF m.guess = "wrong" THEN "guess" ELSE "init", g.seq_tx, n))
<1> DEFINE q == At(R, "idle", d.seq_tx, n)
           step == IF m.guess = "wrong" THEN "guess" ELSE "init"
           r == At(R, step, next_seq(d.seq_tx), n)
           p == packet(d, m)
<1>1. q.round = R /\ q.step = "idle" /\ q.seq = d.seq_tx /\ q.n = n
  BY DEF At
<1>2. p.msg = m /\ p.key = d.tx /\ p.seq = d.seq_tx /\ g.seq_tx = next_seq(d.seq_tx)
  BY Packet DEF Sent
<1>3. Follows("c2s", N, q, p, r)
  <2> HIDE DEF q, p
  <2> QED
    BY <1>1, <1>2 DEF Follows
<1> HIDE DEF q, r, p, step
<1>4. \A y, z : Follows("c2s", N, y, packet(d, m), z) => Onward(N, d.wire, y, g.wire, z)
  BY InWrite
<1>5. Onward(N, d.wire, q, g.wire, r)
  BY <1>3, <1>4 DEF p
<1> QED
  BY <1>2, <1>5 DEF q, r, step

\* The steps of an exchange after it.
LEMMA InExchange ==
  ASSUME NEW N, NEW n, NEW R, NEW d, NEW m, NEW g, Queue(d.wire), Sent(d, m, g), d.tx = Key(R, "c2s")
  PROVE  /\ m.kind = "guess" => Onward(N, d.wire, At(R, "guess", d.seq_tx, n), g.wire, At(R, "init", g.seq_tx, n))
         /\ m.kind = "hybrid_init" /\ m.half = "ok" =>
              Onward(N, d.wire, At(R, "init", d.seq_tx, n), g.wire, At(R, "half", g.seq_tx, n))
         /\ m.kind = "newkeys" => Onward(N, d.wire, At(R, "half", d.seq_tx, n), g.wire, At(R + 1, "idle", 0, n))
<1> DEFINE p == packet(d, m)
<1>1. p.msg = m /\ p.key = d.tx /\ p.seq = d.seq_tx /\ g.seq_tx = next_seq(d.seq_tx)
  BY Packet DEF Sent
<1>2. \A y, z : Follows("c2s", N, y, p, z) => Onward(N, d.wire, y, g.wire, z)
  BY InWrite
<1> HIDE DEF p
<1>3. ASSUME NEW T PROVE LET q == At(R, T, d.seq_tx, n) IN q.round = R /\ q.step = T /\ q.seq = d.seq_tx /\ q.n = n
  BY DEF At
<1>4. m.kind = "guess" => Onward(N, d.wire, At(R, "guess", d.seq_tx, n), g.wire, At(R, "init", g.seq_tx, n))
  <2> SUFFICES ASSUME m.kind = "guess"
               PROVE  Onward(N, d.wire, At(R, "guess", d.seq_tx, n), g.wire, At(R, "init", g.seq_tx, n))
    OBVIOUS
  <2> DEFINE q == At(R, "guess", d.seq_tx, n)
             r == At(R, "init", next_seq(d.seq_tx), n)
  <2>1. q.round = R /\ q.step = "guess" /\ q.seq = d.seq_tx /\ q.n = n
    BY <1>3
  <2> HIDE DEF q
  <2>2. Follows("c2s", N, q, p, r)
    BY <1>1, <2>1 DEF Follows
  <2> HIDE DEF r
  <2>3. Onward(N, d.wire, q, g.wire, r)
    BY <1>2, <2>2
  <2> QED
    BY <1>1, <2>3 DEF q, r
<1>5. m.kind = "hybrid_init" /\ m.half = "ok" =>
        Onward(N, d.wire, At(R, "init", d.seq_tx, n), g.wire, At(R, "half", g.seq_tx, n))
  <2> SUFFICES ASSUME m.kind = "hybrid_init", m.half = "ok"
               PROVE  Onward(N, d.wire, At(R, "init", d.seq_tx, n), g.wire, At(R, "half", g.seq_tx, n))
    OBVIOUS
  <2> DEFINE q == At(R, "init", d.seq_tx, n)
             r == At(R, "half", next_seq(d.seq_tx), n)
  <2>1. q.round = R /\ q.step = "init" /\ q.seq = d.seq_tx /\ q.n = n
    BY <1>3
  <2> HIDE DEF q
  <2>2. Follows("c2s", N, q, p, r)
    BY <1>1, <2>1 DEF Follows
  <2> HIDE DEF r
  <2>3. Onward(N, d.wire, q, g.wire, r)
    BY <1>2, <2>2
  <2> QED
    BY <1>1, <2>3 DEF q, r
<1>6. m.kind = "newkeys" => Onward(N, d.wire, At(R, "half", d.seq_tx, n), g.wire, At(R + 1, "idle", 0, n))
  <2> SUFFICES ASSUME m.kind = "newkeys"
               PROVE  Onward(N, d.wire, At(R, "half", d.seq_tx, n), g.wire, At(R + 1, "idle", 0, n))
    OBVIOUS
  <2> DEFINE q == At(R, "half", d.seq_tx, n)
             r == At(R + 1, "idle", 0, n)
  <2>1. q.round = R /\ q.step = "half" /\ q.seq = d.seq_tx /\ q.n = n
    BY <1>3
  <2> HIDE DEF q
  <2>2. Follows("c2s", N, q, p, r)
    BY <1>1, <2>1 DEF Follows
  <2> HIDE DEF r
  <2>3. Onward(N, d.wire, q, g.wire, r)
    BY <1>2, <2>2
  <2> QED
    BY <2>3 DEF q, r
<1> QED
  BY <1>4, <1>5, <1>6

LEMMA InTraffic ==
  ASSUME NEW N, NEW n, n < N, NEW R, R # 0, NEW d, NEW m, NEW g, Queue(d.wire), Sent(d, m, g), d.tx = Key(R, "c2s"),
         m.kind \in Traffic("c2s"), m.kind = "service" => m.name = "ssh-userauth"
  PROVE  Onward(N, d.wire, At(R, "idle", d.seq_tx, n), g.wire, At(R, "idle", g.seq_tx, n + 1))
<1> DEFINE q == At(R, "idle", d.seq_tx, n)
           r == At(R, "idle", next_seq(d.seq_tx), n + 1)
           p == packet(d, m)
<1>1. q.round = R /\ q.step = "idle" /\ q.seq = d.seq_tx /\ q.n = n
  BY DEF At
<1>2. p.msg = m /\ p.key = d.tx /\ p.seq = d.seq_tx /\ g.seq_tx = next_seq(d.seq_tx)
  BY Packet DEF Sent
<1>3. Follows("c2s", N, q, p, r)
  <2> HIDE DEF q, p
  <2> QED
    BY <1>1, <1>2 DEF Follows
<1>4. \A y, z : Follows("c2s", N, y, packet(d, m), z) => Onward(N, d.wire, y, g.wire, z)
  BY InWrite
<1> HIDE DEF q, r, p
<1>5. Onward(N, d.wire, q, g.wire, r)
  BY <1>3, <1>4 DEF p
<1> QED
  BY <1>2, <1>5 DEF q, r

LEMMA OnwardTwice ==
  ASSUME NEW N, NEW u, NEW x, NEW v, NEW y, NEW w, NEW z, Onward(N, u, x, v, y), Onward(N, v, y, w, z)
  PROVE  Onward(N, u, x, w, z)
BY DEF Onward

-----------------------------------------------------------------------------
(* The steps of a client that keeps the protocol.                            *)

LEMMA ClientJoins ==
  ASSUME NEW e, NEW d, Joined(e, d), NEW f, Same(e, f), f.seq_tx = e.seq_tx, f.seq_rx = e.seq_rx, Queue(f.wire),
         NEW g, ClientInv(g), g.profile = d.profile, Onward(d.profile.traffic, d.wire, End(d), g.wire, End(g)),
         OutStream(f, g), Login(f.stage, f.wire, g.state, g.wire), Opened(f.open, f.wire, g)
  PROVE  Joined(f, g)
<1>1. DOMAIN f = Fields /\ f.stage = e.stage /\ f.deferred = e.deferred /\ f.reason = e.reason
  BY DEF Same
<1>2. /\ RxRound(f) = RxRound(e) /\ RxStep(f) = RxStep(e)
      /\ Standing(e) => Standing(f)
  BY SamePlaces
<1>3. ServerInv(f)
  BY <1>1, <1>2 DEF Joined, ServerInv
<1>4. InStream(f, g)
  <2>1. \A a : In(a, d) => In(a, g)
    BY DEF In, Onward, End
  <2>2. \A k : RxPlace(f, k) = RxPlace(e, k)
    BY <1>2 DEF RxPlace
  <2>3. InStream(e, d)
    BY DEF Joined
  <2> QED
    BY <1>1, <2>1, <2>2, <2>3 DEF InStream
<1>5. Reason(f, g)
  BY <1>1 DEF Joined, Reason
<1> QED
  BY <1>3, <1>4, <1>5 DEF Joined

\* A KEXINIT, with what a guess brings along.
LEMMA SendsKexInit ==
  ASSUME NEW d, ClientInv(d), d.phase = "Idle", NEW guess, guess \in {"none", "wrong", "right"}, NEW N
  PROVE  LET g == send_kexinit(d, guess) IN
         /\ DOMAIN g = ClientFields /\ g.phase = "Sent" /\ g.guess = guess /\ g.i_c = d.i_c + 1 /\ g.profile = d.profile
         /\ g.seq_rx = d.seq_rx /\ g.tx = d.tx /\ g.rx = d.rx /\ g.session_id = d.session_id /\ g.state = d.state
         /\ g.open = d.open /\ g.sent = d.sent /\ g.fault = d.fault
         /\ Queue(g.wire) /\ Quiet(g.wire, d.wire) /\ (Rekeys(g.wire) => Rekeys(d.wire) \/ d.i_c # 0)
         /\ Onward(N, d.wire, At(d.i_c, "idle", d.seq_tx, d.sent), g.wire,
                   At(d.i_c, IF guess = "right" THEN "half" ELSE "init", g.seq_tx, d.sent))
<1> DEFINE R == d.i_c
           m == KexInit(R + 1, guess, d.ext)
           x == [d EXCEPT !.i_c = @ + 1, !.guess = guess, !.phase = "Sent"]
           y == put(x, m)
           o == Msg("guess")
           u == put(y, o)
           v == put(y, HybridInit)
           n == d.sent
<1>1. DOMAIN d = ClientFields /\ Queue(d.wire) /\ R \in Nat /\ d.tx = Key(R, "c2s")
  BY DEF ClientInv, SRound
<1>2. send_kexinit(d, guess) = IF guess = "none" THEN y ELSE IF guess = "wrong" THEN u ELSE v
  BY DEF send_kexinit
<1>3. /\ DOMAIN x = ClientFields /\ x.phase = "Sent" /\ x.guess = guess /\ x.i_c = R + 1 /\ x.profile = d.profile
      /\ x.seq_rx = d.seq_rx /\ x.tx = d.tx /\ x.rx = d.rx /\ x.session_id = d.session_id /\ x.state = d.state
      /\ x.open = d.open /\ x.sent = d.sent /\ x.fault = d.fault /\ x.wire = d.wire /\ x.seq_tx = d.seq_tx
  BY <1>1 DEF ClientFields
<1>4. m.kind = "kexinit" /\ m.n = R + 1 /\ m.offer = "ok" /\ m.guess = guess
  BY DEF KexInit
<1>5. o.kind = "guess" /\ HybridInit.kind = "hybrid_init" /\ HybridInit.half = "ok"
  BY DEF Msg, HybridInit
<1> HIDE DEF x, m, o
<1>6. Sent(x, m, y)
  BY <1>3, Sends
<1> HIDE DEF y, R
<1>7. Sent(y, o, u) /\ Sent(y, HybridInit, v)
  BY <1>6, Sends DEF Sent
<1> HIDE DEF u, v
<1>8. /\ y.wire = Append(d.wire, packet(x, m)) /\ packet(x, m).msg = m
      /\ u.wire = Append(y.wire, packet(y, o)) /\ packet(y, o).msg = o
      /\ v.wire = Append(y.wire, packet(y, HybridInit)) /\ packet(y, HybridInit).msg = HybridInit
  BY <1>3, <1>6, <1>7, Packet DEF Sent
<1>9. Quiet(y.wire, d.wire) /\ Queue(y.wire)
  BY <1>1, <1>4, <1>8, QuietWrite
<1>10. Quiet(u.wire, y.wire) /\ Queue(u.wire) /\ Quiet(v.wire, y.wire) /\ Queue(v.wire)
  BY <1>5, <1>8, <1>9, QuietWrite
<1>11. Rekeys(y.wire) => Rekeys(d.wire) \/ R # 0
  <2>1. Rekeys(y.wire) => Rekeys(d.wire) \/ m.n # 1
    BY <1>1, <1>8, RekeysAppended
  <2> QED
    BY <1>1, <1>4, <2>1
<1>12. (Rekeys(u.wire) => Rekeys(y.wire)) /\ (Rekeys(v.wire) => Rekeys(y.wire))
  BY <1>5, <1>8, <1>9, RekeysAppended
<1>13. Onward(N, d.wire, At(R, "idle", d.seq_tx, n), y.wire, At(R, IF guess = "wrong" THEN "guess" ELSE "init", y.seq_tx, n))
  <2>1. Queue(x.wire) /\ x.tx = Key(R, "c2s")
    BY <1>1, <1>3
  <2> HIDE DEF n
  <2>2. Onward(N, x.wire, At(R, "idle", x.seq_tx, n), y.wire, At(R, IF m.guess = "wrong" THEN "guess" ELSE "init", y.seq_tx, n))
    BY <1>1, <1>4, <1>6, <2>1, InKexInit
  <2> QED
    BY <1>3, <1>4, <2>2
<1>14. y.tx = Key(R, "c2s")
  BY <1>1, <1>3, <1>6 DEF Sent
<1>15. /\ Onward(N, y.wire, At(R, "guess", y.seq_tx, n), u.wire, At(R, "init", u.seq_tx, n))
       /\ Onward(N, y.wire, At(R, "init", y.seq_tx, n), v.wire, At(R, "half", v.seq_tx, n))
  <2> HIDE DEF n
  <2> QED
    BY <1>5, <1>7, <1>9, <1>14, InExchange
<1> DEFINE Kept(g) ==
             /\ DOMAIN g = ClientFields /\ g.phase = "Sent" /\ g.guess = guess /\ g.i_c = R + 1 /\ g.profile = d.profile
             /\ g.seq_rx = d.seq_rx /\ g.tx = d.tx /\ g.rx = d.rx /\ g.session_id = d.session_id /\ g.state = d.state
             /\ g.open = d.open /\ g.sent = d.sent /\ g.fault = d.fault
<1>16. Kept(y) /\ Kept(u) /\ Kept(v)
  <2>1. Kept(y)
    BY <1>3, <1>6 DEF Sent
  <2> QED
    BY <1>7, <2>1 DEF Sent
<1> HIDE DEF Kept
<1> DEFINE Good(g) ==
             /\ Kept(g) /\ Queue(g.wire) /\ Quiet(g.wire, d.wire) /\ (Rekeys(g.wire) => Rekeys(d.wire) \/ R # 0)
             /\ Onward(N, d.wire, At(R, "idle", d.seq_tx, n), g.wire,
                       At(R, IF guess = "right" THEN "half" ELSE "init", g.seq_tx, n))
<1> HIDE DEF n
<1>17. CASE guess = "none"
  BY <1>2, <1>9, <1>11, <1>13, <1>16, <1>17 DEF Kept, R, n
<1>18. CASE guess = "wrong"
  <2>1. Onward(N, d.wire, At(R, "idle", d.seq_tx, n), u.wire, At(R, "init", u.seq_tx, n))
    BY <1>13, <1>15, <1>18, OnwardTwice
  <2>2. Quiet(u.wire, d.wire)
    BY <1>9, <1>10, QuietTwice
  <2>3. Good(u)
    BY <1>10, <1>11, <1>12, <1>16, <1>18, <2>1, <2>2
  <2> QED
    BY <1>2, <1>18, <2>3 DEF Kept, R, n
<1>19. CASE guess = "right"
  <2>1. Onward(N, d.wire, At(R, "idle", d.seq_tx, n), v.wire, At(R, "half", v.seq_tx, n))
    BY <1>13, <1>15, <1>19, OnwardTwice
  <2>2. Quiet(v.wire, d.wire)
    BY <1>9, <1>10, QuietTwice
  <2>3. Good(v)
    BY <1>10, <1>11, <1>12, <1>16, <1>19, <2>1, <2>2
  <2> QED
    BY <1>2, <1>19, <2>3 DEF Kept, R, n
<1> QED
  BY <1>17, <1>18, <1>19

LEMMA JoinClientKexInit ==
  ASSUME NEW e, NEW d, Joined(e, d), d.phase = "Idle", d.i_c = 0 \/ d.state = "session",
         NEW guess, guess \in {"none", "wrong", "right"}
  PROVE  Joined(e, send_kexinit(d, guess))
<1> DEFINE g == send_kexinit(d, guess)
           N == d.profile.traffic
           R == d.i_c
<1>1. ClientInv(d) /\ DOMAIN e = Fields /\ Queue(e.wire)
  BY DEF Joined, ServerInv
<1>2. /\ DOMAIN g = ClientFields /\ g.phase = "Sent" /\ g.guess = guess /\ g.i_c = R + 1 /\ g.profile = d.profile
      /\ g.seq_rx = d.seq_rx /\ g.tx = d.tx /\ g.rx = d.rx /\ g.session_id = d.session_id /\ g.state = d.state
      /\ g.open = d.open /\ g.sent = d.sent /\ g.fault = d.fault
      /\ Queue(g.wire) /\ Quiet(g.wire, d.wire) /\ (Rekeys(g.wire) => Rekeys(d.wire) \/ R # 0)
      /\ Onward(N, d.wire, At(R, "idle", d.seq_tx, d.sent), g.wire,
                At(R, IF guess = "right" THEN "half" ELSE "init", g.seq_tx, d.sent))
  BY <1>1, SendsKexInit
<1> HIDE DEF g
<1>3. R \in Nat /\ SRound(d) = R /\ SStep(d) = "idle" /\ RRound(d) = R /\ RStep(d) = "idle"
  BY <1>1 DEF ClientInv, SRound, SStep, RRound, RStep
<1>4. SRound(g) = R /\ SStep(g) = (IF guess = "right" THEN "half" ELSE "init") /\ RRound(g) = R /\ RStep(g) = "idle"
  <2>1. g.i_c - 1 = R
    BY <1>2, <1>3
  <2> QED
    BY <1>2, <2>1 DEF SRound, SStep, RRound, RStep
<1>5. Onward(N, d.wire, End(d), g.wire, End(g))
  BY <1>2, <1>3, <1>4 DEF End
<1>6. g.i_c \in Nat /\ g.i_c >= 1
  BY <1>2, <1>3
<1> HIDE DEF R, N
<1>7. ClientInv(g)
  BY <1>1, <1>2, <1>3, <1>4, <1>6 DEF ClientInv
<1>8. OutStream(e, g)
  BY <1>2, <1>3, <1>4 DEF Joined, OutStream, Out
<1>9. Rekeys(g.wire) => Rekeys(d.wire) \/ e.stage \in {"Session", "Closed"}
  <2>1. d.state = "session" => e.stage \in {"Session", "Closed"}
    BY DEF Joined, Login
  <2> QED
    BY <1>2, <2>1 DEF R
<1>10. Login(e.stage, e.wire, g.state, g.wire)
  <2>1. Login(e.stage, e.wire, d.state, d.wire) /\ Calmer(e.wire, e.wire)
    BY CalmSame DEF Joined
  <2> QED
    BY <1>2, <1>9, <2>1, QuietLogin
<1>11. Opened(e.open, e.wire, g)
  BY <1>2, QuietOpened DEF Joined
<1>12. Same(e, e)
  BY <1>1 DEF Same
<1>13. Joined(e, g)
  BY <1>1, <1>2, <1>5, <1>7, <1>8, <1>10, <1>11, <1>12, ClientJoins DEF N
<1> QED
  BY <1>13 DEF g

\* What can arrive at the client, by the step of the exchange.
LEMMA Speaks ==
  ASSUME NEW R, NEW T, NEW n, NEW p, NEW r, Follows("s2c", 0, At(R, T, n, 0), p, r)
  PROVE  /\ T \in {"idle", "init", "half"} =>
              \/ p.msg.kind = "disconnect"
              \/ /\ T = "idle" /\ p.msg.kind = "kexinit" /\ p.msg.n = R + 1 /\ r = At(R, "init", next_seq(n), 0)
              \/ T = "idle" /\ p.msg.kind \in Traffic("s2c") /\ r = At(R, "idle", next_seq(n), 0)
              \/ T = "init" /\ p.msg.kind = "hybrid_reply" /\ r = At(R, "half", next_seq(n), 0)
              \/ T = "half" /\ p.msg.kind = "newkeys" /\ r = At(R + 1, "idle", 0, 0)
         /\ p.key = Key(R, "s2c") /\ p.seq = n
<1> DEFINE q == At(R, T, n, 0)
<1>1. q.round = R /\ q.step = T /\ q.seq = n /\ q.n = 0
  BY DEF At
<1>2. Follows("s2c", 0, q, p, r)
  OBVIOUS
<1> HIDE DEF q
<1>3. p.key = Key(R, "s2c") /\ p.seq = n
  BY <1>1, <1>2 DEF Follows
<1>4. CASE T = "idle"
  BY <1>1, <1>2, <1>3, <1>4 DEF Follows
<1>5. CASE T = "init"
  BY <1>1, <1>2, <1>3, <1>5 DEF Follows
<1>6. CASE T = "half"
  BY <1>1, <1>2, <1>3, <1>6 DEF Follows
<1> QED
  BY <1>3, <1>4, <1>5, <1>6

\* What the server has written leads from place r to where it writes.
Ahead(f, r) == \E z : Stream("s2c", 0, f.wire, r, z) /\ (f.stage # "Closed" => z = TxPlace(f))

LEMMA AheadOut ==
  ASSUME NEW f, NEW g, Ahead(f, At(RRound(g), RStep(g), g.seq_rx, 0))
  PROVE  OutStream(f, g)
BY DEF Ahead, OutStream, Out

\* g is d, the number it reads next, its state and its channel apart.
Aside(d, g) ==
  /\ DOMAIN g = ClientFields /\ g.wire = d.wire /\ g.seq_tx = d.seq_tx
  /\ g.phase = d.phase /\ g.ext = d.ext /\ g.profile = d.profile /\ g.tx = d.tx /\ g.rx = d.rx
  /\ g.session_id = d.session_id /\ g.i_s = d.i_s /\ g.i_c = d.i_c /\ g.guess = d.guess /\ g.new_rx = d.new_rx
  /\ g.sent = d.sent /\ g.fault = d.fault

LEMMA AsideInv ==
  ASSUME NEW d, NEW g, ClientInv(d), Aside(d, g),
         g.state \in {"transport", "accepting", "auth", "authenticating", "session", "gone"}
  PROVE  /\ ClientInv(g) /\ End(g) = End(d) /\ RRound(g) = RRound(d) /\ RStep(g) = RStep(d)
         /\ \A N : Onward(N, d.wire, End(d), g.wire, End(g))
<1>1. SRound(g) = SRound(d) /\ SStep(g) = SStep(d) /\ RRound(g) = RRound(d) /\ RStep(g) = RStep(d)
  BY DEF Aside, SRound, SStep, RRound, RStep
<1>2. ClientInv(g)
  BY <1>1 DEF Aside, ClientInv
<1>3. End(g) = End(d)
  BY <1>1 DEF Aside, End
<1> QED
  BY <1>1, <1>2, <1>3 DEF Aside, Onward

\* Client d has taken the first packet of e's wire: x is d with the next number,
\* f is e after it, and the stream goes on from place r.
Heard(e, d, f, x, r) ==
  /\ Joined(e, d) /\ d.state # "gone" /\ e.wire # <<>>
  /\ Same(e, f) /\ f.seq_tx = e.seq_tx /\ f.seq_rx = e.seq_rx /\ f.wire = Tail(e.wire) /\ Ahead(f, r)
  /\ Aside(d, x) /\ x.state = d.state /\ x.open = d.open /\ x.seq_rx = next_seq(d.seq_rx)
  /\ Follows("s2c", 0, At(RRound(d), RStep(d), d.seq_rx, 0), Head(e.wire), r)

LEMMA HeardFacts ==
  ASSUME NEW e, NEW d, NEW f, NEW x, NEW r, Heard(e, d, f, x, r)
  PROVE  /\ Queue(e.wire) /\ Queue(f.wire) /\ Calmer(f.wire, e.wire) /\ ClientInv(d) /\ ClientInv(x)
         /\ Has(f.wire, {"open_reply"}) => Has(e.wire, {"open_reply"})
         /\ f.stage = e.stage /\ f.open = e.open /\ Login(e.stage, e.wire, d.state, d.wire) /\ Opened(e.open, e.wire, d)
<1>1. ClientInv(d) /\ Queue(e.wire) /\ Login(e.stage, e.wire, d.state, d.wire) /\ Opened(e.open, e.wire, d)
  BY DEF Heard, Joined, ServerInv
<1>2. f.wire = Tail(e.wire) /\ e.wire # <<>>
  BY DEF Heard
<1>3. Queue(f.wire) /\ Calmer(f.wire, e.wire)
  BY <1>1, <1>2, Tailing, CalmRead
<1>4. Has(f.wire, {"open_reply"}) => Has(e.wire, {"open_reply"})
  BY <1>1, <1>2, AfterRead
<1>5. ClientInv(x)
  <2>1. x.state \in {"transport", "accepting", "auth", "authenticating", "session", "gone"}
    BY <1>1 DEF Heard, ClientInv
  <2> QED
    BY <1>1, <2>1, AsideInv DEF Heard
<1> QED
  BY <1>1, <1>3, <1>4, <1>5 DEF Heard, Same

\* Every packet opens.
LEMMA JoinHears ==
  ASSUME NEW e, NEW d, Joined(e, d), d.state # "gone", e.wire # <<>>,
         NEW f, f = [e EXCEPT !.wire = Tail(@)], NEW x, x = [d EXCEPT !.seq_rx = next_seq(@), !.lag = 0]
  PROVE  opens(d, Head(e.wire)) /\ \E r : Heard(e, d, f, x, r)
<1>1. DOMAIN e = Fields /\ Queue(e.wire) /\ ClientInv(d) /\ DOMAIN d = ClientFields
  BY DEF Joined, ServerInv, ClientInv
<1>2. Same(e, f) /\ f.seq_tx = e.seq_tx /\ f.seq_rx = e.seq_rx /\ f.wire = Tail(e.wire)
  BY <1>1 DEF Same, Fields
<1>3. Aside(d, x) /\ x.state = d.state /\ x.open = d.open /\ x.seq_rx = next_seq(d.seq_rx)
  <2> DEFINE n == next_seq(d.seq_rx)
  <2>1. x = [d EXCEPT !.seq_rx = n, !.lag = 0]
    OBVIOUS
  <2> HIDE DEF n
  <2>2. Aside(d, x) /\ x.state = d.state /\ x.open = d.open /\ x.seq_rx = n
    BY <1>1, <2>1 DEF Aside, ClientFields
  <2> QED
    BY <2>2 DEF n
<1> DEFINE a == At(RRound(d), RStep(d), d.seq_rx, 0)
<1>4. PICK z : Stream("s2c", 0, e.wire, a, z) /\ (e.stage # "Closed" => z = TxPlace(e))
  BY DEF Joined, OutStream, Out
<1> HIDE DEF a
<1>5. PICK r : Follows("s2c", 0, a, Head(e.wire), r) /\ Stream("s2c", 0, Tail(e.wire), r, z)
  BY <1>1, <1>4, Receiving
<1>6. Ahead(f, r)
  <2>1. TxPlace(f) = TxPlace(e) /\ f.stage = e.stage
    BY <1>2, SamePlaces DEF TxPlace, Same
  <2> QED
    BY <1>2, <1>4, <1>5, <2>1 DEF Ahead
<1>7. opens(d, Head(e.wire))
  <2>1. Head(e.wire).key = Key(RRound(d), "s2c") /\ Head(e.wire).seq = d.seq_rx
    BY <1>5, Speaks DEF a
  <2> QED
    BY <1>1, <2>1 DEF opens, ClientInv
<1>8. Heard(e, d, f, x, r)
  BY <1>2, <1>3, <1>5, <1>6 DEF Heard, a
<1> QED
  BY <1>7, <1>8

LEMMA LeavesLogin ==
  ASSUME NEW stage, NEW out, NEW state, NEW in, Login(stage, out, state, in)
  PROVE  Login(stage, out, "gone", in)
BY DEF Login

LEMMA JoinLeaves ==
  ASSUME NEW e, NEW d, Joined(e, d), NEW g, g = [d EXCEPT !.state = "gone"]
  PROVE  Joined(e, g)
<1>1. DOMAIN e = Fields /\ Queue(e.wire) /\ ClientInv(d) /\ DOMAIN d = ClientFields
  BY DEF Joined, ServerInv, ClientInv
<1>2. Aside(d, g) /\ g.state = "gone" /\ g.open = d.open /\ g.profile = d.profile /\ g.wire = d.wire
  BY <1>1 DEF Aside, ClientFields
<1>3. ClientInv(g) /\ \A N : Onward(N, d.wire, End(d), g.wire, End(g))
  BY <1>1, <1>2, AsideInv
<1>4. OutStream(e, g)
  BY <1>2 DEF OutStream, Out
<1>5. Login(e.stage, e.wire, g.state, g.wire) /\ Opened(e.open, e.wire, g)
  BY <1>2, LeavesLogin DEF Joined, Opened
<1>6. Same(e, e)
  BY <1>1 DEF Same
<1> QED
  BY <1>1, <1>2, <1>3, <1>4, <1>5, <1>6, ClientJoins

\* The server's disconnect.
LEMMA JoinOver ==
  ASSUME NEW e, NEW d, NEW f, NEW x, NEW r, Heard(e, d, f, x, r), NEW g, g = [x EXCEPT !.state = "gone"]
  PROVE  Joined(f, g)
<1>1. /\ Queue(e.wire) /\ Queue(f.wire) /\ Calmer(f.wire, e.wire) /\ ClientInv(d) /\ ClientInv(x)
      /\ Has(f.wire, {"open_reply"}) => Has(e.wire, {"open_reply"})
      /\ f.stage = e.stage /\ f.open = e.open /\ Login(e.stage, e.wire, d.state, d.wire) /\ Opened(e.open, e.wire, d)
  BY HeardFacts
<1>2. Aside(d, g) /\ g.state = "gone" /\ g.open = d.open /\ g.profile = d.profile /\ g.wire = d.wire
  BY DEF Heard, Aside, ClientFields
<1>3. ClientInv(g) /\ \A N : Onward(N, d.wire, End(d), g.wire, End(g))
  BY <1>1, <1>2, AsideInv
<1>4. OutStream(f, g)
  BY <1>2 DEF OutStream, Out
<1>5. Login(f.stage, f.wire, d.state, d.wire)
  BY <1>1, CalmSame, CalmLogin
<1>6. Login(f.stage, f.wire, g.state, g.wire)
  BY <1>2, <1>5, LeavesLogin
<1>7. Opened(f.open, f.wire, g)
  BY <1>1, <1>2 DEF Opened
<1> QED
  BY <1>1, <1>2, <1>3, <1>4, <1>6, <1>7, ClientJoins DEF Heard

\* Traffic: it opens the channel, answers a request, or changes nothing.
LEMMA JoinTold ==
  ASSUME NEW e, NEW d, NEW f, NEW x, NEW r, Heard(e, d, f, x, r), r = At(RRound(d), RStep(d), x.seq_rx, 0),
         NEW g, Aside(d, g), g.seq_rx = x.seq_rx,
         g.state \in {"transport", "accepting", "auth", "authenticating", "session", "gone"},
         Login(f.stage, f.wire, g.state, d.wire), g.open = d.open \/ e.open
  PROVE  Joined(f, g)
<1>1. /\ Queue(e.wire) /\ Queue(f.wire) /\ Calmer(f.wire, e.wire) /\ ClientInv(d) /\ ClientInv(x)
      /\ Has(f.wire, {"open_reply"}) => Has(e.wire, {"open_reply"})
      /\ f.stage = e.stage /\ f.open = e.open /\ Login(e.stage, e.wire, d.state, d.wire) /\ Opened(e.open, e.wire, d)
  BY HeardFacts
<1>2. /\ ClientInv(g) /\ RRound(g) = RRound(d) /\ RStep(g) = RStep(d) /\ g.profile = d.profile /\ g.wire = d.wire
      /\ \A N : Onward(N, d.wire, End(d), g.wire, End(g))
  BY <1>1, AsideInv DEF Aside
<1>3. OutStream(f, g)
  BY <1>2, AheadOut DEF Heard
<1>4. Login(f.stage, f.wire, g.state, g.wire)
  BY <1>2
<1>5. Opened(f.open, f.wire, g)
  BY <1>1, <1>2 DEF Opened
<1> QED
  BY <1>1, <1>2, <1>3, <1>4, <1>5, ClientJoins DEF Heard

\* The answer is read: no request is under way, and the state is the stage's.
LEMMA AnswerRead ==
  ASSUME NEW stage, NEW out, NEW state, NEW in, Login(stage, out, state, in), Queue(out), out # <<>>,
         Head(out).msg.kind \in Responses
  PROVE  Login(stage, Tail(out), IF Head(out).msg.kind = "success" THEN "session" ELSE "auth", in)
<1> SUFFICES ASSUME stage # "Closed"
             PROVE  Login(stage, Tail(out), IF Head(out).msg.kind = "success" THEN "session" ELSE "auth", in)
  BY DEF Login
<1> DEFINE a == Head(out).msg.kind
           v == Tail(out)
           next == IF a = "success" THEN "session" ELSE "auth"
<1>1. /\ Rekeys(v) => Rekeys(out)
      /\ \A kinds : /\ Has(v, kinds) => Has(out, kinds)
                    /\ a \in kinds => Has(out, kinds)
                    /\ One(out, kinds) => One(v, kinds)
                    /\ One(out, kinds) /\ a \in kinds => ~Has(v, kinds)
  BY AfterRead
<1>2. /\ Has(out, Responses) /\ (a = "success" => Has(out, {"success"}))
      /\ a # "success" => Has(out, Responses \ {"success"})
  <2>1. a \in Responses /\ (a = "success" => a \in {"success"}) /\ (a # "success" => a \in Responses \ {"success"})
    OBVIOUS
  <2> QED
    BY <1>1, <2>1
<1>3. /\ One(in, Requests) /\ One(out, Responses) /\ ~Has(in, Requests)
      /\ Has(in, SessionKinds) => stage = "Session"
      /\ Rekeys(in) \/ Rekeys(out) => stage = "Session"
      /\ a = "success" => stage = "Session"
      /\ a # "success" => stage = "UserAuth"
  BY <1>2 DEF Login
<1>4. One(v, Responses) /\ ~Has(v, Responses)
  BY <1>1, <1>3
<1>5. ~Has(in, {"service"}) /\ ~Has(in, {"auth"}) /\ ~Has(v, {"success"}) /\ ~Has(v, Responses \ {"success"})
  BY <1>3, <1>4, Parts
<1>6. Rekeys(in) \/ Rekeys(v) => stage = "Session"
  BY <1>1, <1>3
<1>7. next = (IF a = "success" THEN "session" ELSE "auth")
  OBVIOUS
<1> HIDE DEF a, v, next
<1>8. Login(stage, v, next, in)
  BY <1>3, <1>4, <1>5, <1>6, <1>7 DEF Login
<1> QED
  BY <1>8 DEF a, v, next

\* The client's half of the exchange, unless a right guess has brought it already.
LEMMA SendsHybrid ==
  ASSUME NEW y, DOMAIN y = ClientFields, Queue(y.wire), NEW R, y.tx = Key(R, "c2s"), NEW N, NEW k, NEW n
  PROVE  LET g == send_hybrid(y, n) IN
         /\ DOMAIN g = ClientFields /\ g.phase = "AwaitReply" /\ g.i_s = n /\ g.i_c = y.i_c /\ g.profile = y.profile
         /\ g.seq_rx = y.seq_rx /\ g.tx = y.tx /\ g.rx = y.rx /\ g.session_id = y.session_id /\ g.state = y.state
         /\ g.open = y.open /\ g.sent = y.sent /\ g.fault = y.fault
         /\ Queue(g.wire) /\ Quiet(g.wire, y.wire) /\ (Rekeys(g.wire) => Rekeys(y.wire))
         /\ Onward(N, y.wire, At(R, IF y.guess = "right" THEN "half" ELSE "init", y.seq_tx, k), g.wire,
                   At(R, "half", g.seq_tx, k))
<1> DEFINE x == [y EXCEPT !.i_s = n, !.phase = "AwaitReply"]
           v == put(x, HybridInit)
<1>1. send_hybrid(y, n) = IF y.guess = "right" THEN x ELSE v
  BY DEF send_hybrid
<1>2. /\ DOMAIN x = ClientFields /\ x.phase = "AwaitReply" /\ x.i_s = n /\ x.i_c = y.i_c /\ x.profile = y.profile
      /\ x.seq_rx = y.seq_rx /\ x.tx = y.tx /\ x.rx = y.rx /\ x.session_id = y.session_id /\ x.state = y.state
      /\ x.open = y.open /\ x.sent = y.sent /\ x.fault = y.fault /\ x.wire = y.wire /\ x.seq_tx = y.seq_tx
  BY DEF ClientFields
<1> HIDE DEF x
<1>3. HybridInit.kind = "hybrid_init" /\ HybridInit.half = "ok"
  BY DEF HybridInit
<1>4. Sent(x, HybridInit, v)
  BY <1>2, Sends
<1> HIDE DEF v
<1>5. v.wire = Append(x.wire, packet(x, HybridInit)) /\ packet(x, HybridInit).msg = HybridInit
  BY <1>4, Packet DEF Sent
<1>6. Quiet(v.wire, y.wire) /\ Queue(v.wire)
  BY <1>2, <1>3, <1>5, QuietWrite
<1>7. Rekeys(v.wire) => Rekeys(y.wire)
  BY <1>2, <1>3, <1>5, RekeysAppended
<1>8. Onward(N, y.wire, At(R, "init", y.seq_tx, k), v.wire, At(R, "half", v.seq_tx, k))
  <2>1. Queue(x.wire) /\ x.tx = Key(R, "c2s")
    BY <1>2
  <2>2. Onward(N, x.wire, At(R, "init", x.seq_tx, k), v.wire, At(R, "half", v.seq_tx, k))
    BY <1>3, <1>4, <2>1, InExchange
  <2> QED
    BY <1>2, <2>2
<1>9. CASE y.guess = "right"
  <2>1. Quiet(x.wire, y.wire) /\ (Rekeys(x.wire) => Rekeys(y.wire)) /\ Queue(x.wire)
    BY <1>2 DEF Quiet, Less
  <2>2. Onward(N, y.wire, At(R, "half", y.seq_tx, k), x.wire, At(R, "half", x.seq_tx, k))
    BY <1>2 DEF Onward
  <2> QED
    BY <1>1, <1>2, <1>9, <2>1, <2>2
<1>10. CASE y.guess # "right"
  <2>1. /\ DOMAIN v = ClientFields /\ v.phase = "AwaitReply" /\ v.i_s = n /\ v.i_c = y.i_c /\ v.profile = y.profile
        /\ v.seq_rx = y.seq_rx /\ v.tx = y.tx /\ v.rx = y.rx /\ v.session_id = y.session_id /\ v.state = y.state
        /\ v.open = y.open /\ v.sent = y.sent /\ v.fault = y.fault
    BY <1>2, <1>4 DEF Sent
  <2> QED
    BY <1>1, <1>6, <1>7, <1>8, <1>10, <2>1
<1> QED
  BY <1>9, <1>10

\* A packet of the exchange: the client moves on, and asks for nothing.
LEMMA JoinMoves ==
  ASSUME NEW e, NEW d, NEW f, NEW x, NEW r, Heard(e, d, f, x, r), NEW g, ClientInv(g),
         g.profile = d.profile, g.state = d.state, g.open = d.open, Quiet(g.wire, d.wire),
         Rekeys(g.wire) => Rekeys(d.wire) \/ e.stage \in {"Session", "Closed"},
         Onward(d.profile.traffic, d.wire, End(d), g.wire, End(g)),
         r = At(RRound(g), RStep(g), g.seq_rx, 0)
  PROVE  Joined(f, g)
<1>1. /\ Queue(e.wire) /\ Queue(f.wire) /\ Calmer(f.wire, e.wire)
      /\ Has(f.wire, {"open_reply"}) => Has(e.wire, {"open_reply"})
      /\ f.stage = e.stage /\ f.open = e.open /\ Login(e.stage, e.wire, d.state, d.wire) /\ Opened(e.open, e.wire, d)
  BY HeardFacts
<1>2. OutStream(f, g)
  BY AheadOut DEF Heard
<1>3. Login(f.stage, f.wire, g.state, g.wire)
  BY <1>1, QuietLogin
<1>4. Opened(f.open, f.wire, g)
  BY <1>1, QuietOpened
<1> QED
  BY <1>1, <1>2, <1>3, <1>4, ClientJoins DEF Heard

\* The server's KEXINIT, which the client answers with its own, or has answered.
LEMMA JoinHearsKexInit ==
  ASSUME NEW e, NEW d, NEW f, NEW x, NEW r, Heard(e, d, f, x, r), d.phase \in {"Idle", "Sent"},
         Head(e.wire).msg.kind = "kexinit", NEW g,
         g = send_hybrid(IF d.phase = "Idle" THEN send_kexinit(x, "none") ELSE x, Head(e.wire).msg.n)
  PROVE  Joined(f, g)
<1> DEFINE R == IF d.phase = "Idle" THEN d.i_c ELSE d.i_c - 1
           n == Head(e.wire).msg.n
           N == d.profile.traffic
           k == d.sent
           y == IF d.phase = "Idle" THEN send_kexinit(x, "none") ELSE x
<1>1. ClientInv(d) /\ ClientInv(x) /\ Queue(e.wire) /\ e.wire # <<>> /\ Login(e.stage, e.wire, d.state, d.wire)
  BY HeardFacts DEF Heard
<1>2. R \in Nat /\ d.i_c \in Nat /\ RRound(d) = R /\ RStep(d) = "idle" /\ SRound(d) = R
  BY <1>1 DEF ClientInv, RRound, RStep, SRound
<1>3. n = R + 1 /\ r = At(R, "init", next_seq(d.seq_rx), 0)
  <2>1. Follows("s2c", 0, At(RRound(d), RStep(d), d.seq_rx, 0), Head(e.wire), r)
    BY DEF Heard
  <2>2. Follows("s2c", 0, At(R, "idle", d.seq_rx, 0), Head(e.wire), r)
    BY <1>2, <2>1
  <2> HIDE DEF R
  <2> QED
    BY <2>2, Speaks DEF Traffic, Responses
<1>4. Rekeys(e.wire) => e.stage \in {"Session", "Closed"}
  BY <1>1 DEF Login
<1>5. R # 0 => e.stage \in {"Session", "Closed"}
  <2>1. R # 0 => n # 1
    BY <1>2, <1>3
  <2> QED
    BY <1>1, <1>4, <2>1, AfterRead
<1>6. /\ DOMAIN x = ClientFields /\ x.wire = d.wire /\ x.seq_tx = d.seq_tx /\ x.phase = d.phase /\ x.profile = d.profile
      /\ x.tx = d.tx /\ x.rx = d.rx /\ x.session_id = d.session_id /\ x.i_c = d.i_c /\ x.guess = d.guess
      /\ x.sent = d.sent /\ x.fault = d.fault /\ x.state = d.state /\ x.open = d.open /\ x.seq_rx = next_seq(d.seq_rx)
  BY DEF Heard, Aside
<1>7. /\ DOMAIN y = ClientFields /\ y.i_c = R + 1 /\ y.profile = d.profile
      /\ y.seq_rx = next_seq(d.seq_rx) /\ y.tx = d.tx /\ y.rx = d.rx /\ y.session_id = d.session_id /\ y.state = d.state
      /\ y.open = d.open /\ y.sent = d.sent /\ y.fault = d.fault
      /\ Queue(y.wire) /\ Quiet(y.wire, d.wire) /\ (Rekeys(y.wire) => Rekeys(d.wire) \/ R # 0)
      /\ Onward(N, d.wire, End(d), y.wire, At(R, IF y.guess = "right" THEN "half" ELSE "init", y.seq_tx, k))
  <2>1. CASE d.phase = "Idle"
    <3> DEFINE u == send_kexinit(x, "none")
    <3>1. /\ DOMAIN u = ClientFields /\ u.guess = "none" /\ u.i_c = x.i_c + 1 /\ u.profile = x.profile
          /\ u.seq_rx = x.seq_rx /\ u.tx = x.tx /\ u.rx = x.rx /\ u.session_id = x.session_id /\ u.state = x.state
          /\ u.open = x.open /\ u.sent = x.sent /\ u.fault = x.fault
          /\ Queue(u.wire) /\ Quiet(u.wire, x.wire) /\ (Rekeys(u.wire) => Rekeys(x.wire) \/ x.i_c # 0)
          /\ Onward(N, x.wire, At(x.i_c, "idle", x.seq_tx, x.sent), u.wire, At(x.i_c, "init", u.seq_tx, x.sent))
      <4> DEFINE G == "none"
      <4>1. G \in {"none", "wrong", "right"} /\ G # "right" /\ ClientInv(x) /\ x.phase = "Idle"
        BY <1>1, <1>6, <2>1
      <4> HIDE DEF G, N, y, R, n, k, u
      <4>2. LET v == send_kexinit(x, G) IN
            /\ DOMAIN v = ClientFields /\ v.guess = G /\ v.i_c = x.i_c + 1 /\ v.profile = x.profile
            /\ v.seq_rx = x.seq_rx /\ v.tx = x.tx /\ v.rx = x.rx /\ v.session_id = x.session_id /\ v.state = x.state
            /\ v.open = x.open /\ v.sent = x.sent /\ v.fault = x.fault
            /\ Queue(v.wire) /\ Quiet(v.wire, x.wire) /\ (Rekeys(v.wire) => Rekeys(x.wire) \/ x.i_c # 0)
            /\ Onward(N, x.wire, At(x.i_c, "idle", x.seq_tx, x.sent), v.wire,
                      At(x.i_c, IF G = "right" THEN "half" ELSE "init", v.seq_tx, x.sent))
        BY <4>1, SendsKexInit
      <4> QED
        BY <4>1, <4>2 DEF G, u
    <3> HIDE DEF u, N
    <3>2. End(d) = At(R, "idle", d.seq_tx, d.sent) /\ R = d.i_c
      BY <1>2, <2>1 DEF End, SStep
    <3>3. y = u
      BY <2>1 DEF u
    <3> HIDE DEF y, R
    <3> QED
      BY <1>6, <3>1, <3>2, <3>3
  <2>2. CASE d.phase = "Sent"
    <3>1. y = x /\ R + 1 = d.i_c
      BY <1>1, <2>2 DEF ClientInv
    <3>2. End(d) = At(R, IF d.guess = "right" THEN "half" ELSE "init", d.seq_tx, d.sent)
      BY <1>2, <2>2 DEF End, SStep
    <3> HIDE DEF y, R
    <3>3. Queue(d.wire) /\ Quiet(d.wire, d.wire) /\ \A a, b : Onward(N, d.wire, a, d.wire, a)
      BY <1>1 DEF ClientInv, Quiet, Less, Onward
    <3> QED
      BY <1>6, <3>1, <3>2, <3>3
  <2> QED
    BY <2>1, <2>2
<1>8. g = send_hybrid(y, n)
  OBVIOUS
<1>9. y.tx = Key(R, "c2s") /\ d.rx = Key(R, "s2c")
  BY <1>1, <1>2, <1>7 DEF ClientInv
<1> HIDE DEF y, n, R, N, k
<1>10. /\ DOMAIN g = ClientFields /\ g.phase = "AwaitReply" /\ g.i_s = n /\ g.i_c = y.i_c /\ g.profile = y.profile
       /\ g.seq_rx = y.seq_rx /\ g.tx = y.tx /\ g.rx = y.rx /\ g.session_id = y.session_id /\ g.state = y.state
       /\ g.open = y.open /\ g.sent = y.sent /\ g.fault = y.fault
       /\ Queue(g.wire) /\ Quiet(g.wire, y.wire) /\ (Rekeys(g.wire) => Rekeys(y.wire))
       /\ Onward(N, y.wire, At(R, IF y.guess = "right" THEN "half" ELSE "init", y.seq_tx, k), g.wire,
                 At(R, "half", g.seq_tx, k))
  BY <1>7, <1>8, <1>9, SendsHybrid
<1>11. SRound(g) = R /\ SStep(g) = "half" /\ RRound(g) = R /\ RStep(g) = "init"
  <2>1. g.i_c = R + 1 /\ g.phase = "AwaitReply"
    BY <1>7, <1>10
  <2>2. g.i_c - 1 = R
    BY <1>2, <2>1
  <2> QED
    BY <2>1, <2>2 DEF SRound, SStep, RRound, RStep
<1>12. g.i_c \in Nat /\ g.i_c >= 1 /\ g.i_s = g.i_c
  <2>1. g.i_c = R + 1 /\ g.i_s = R + 1
    BY <1>3, <1>7, <1>10
  <2> QED
    BY <1>2, <2>1
<1>13. ClientInv(g)
  <2>1. /\ g.fault = "none" /\ g.profile \in Profiles /\ g.sent \in Nat
        /\ g.state \in {"transport", "accepting", "auth", "authenticating", "session", "gone"}
    BY <1>1, <1>7, <1>10 DEF ClientInv
  <2>2. g.tx = Key(R, "c2s") /\ g.rx = Key(R, "s2c")
    BY <1>7, <1>9, <1>10
  <2>3. g.session_id = IF R = 0 THEN None ELSE <<1, 1>>
    <3>1. d.session_id = IF R = 0 THEN None ELSE <<1, 1>>
      BY <1>1, <1>2 DEF ClientInv
    <3> QED
      BY <1>7, <1>10, <3>1
  <2>4. DOMAIN g = ClientFields /\ Queue(g.wire) /\ g.phase = "AwaitReply"
    BY <1>10
  <2> QED
    BY <1>11, <1>12, <2>1, <2>2, <2>3, <2>4 DEF ClientInv
<1>14. Onward(N, d.wire, End(d), g.wire, End(g))
  <2> DEFINE b == At(R, IF y.guess = "right" THEN "half" ELSE "init", y.seq_tx, k)
  <2>1. End(g) = At(R, "half", g.seq_tx, k)
    BY <1>7, <1>10, <1>11 DEF End, k
  <2>2. Onward(N, d.wire, End(d), y.wire, b) /\ Onward(N, y.wire, b, g.wire, End(g))
    BY <1>7, <1>10, <2>1
  <2> HIDE DEF b
  <2> QED
    BY <2>2, OnwardTwice
<1>15. Quiet(g.wire, d.wire)
  BY <1>7, <1>10, QuietTwice
<1>16. Rekeys(g.wire) => Rekeys(d.wire) \/ e.stage \in {"Session", "Closed"}
  BY <1>5, <1>7, <1>10
<1>17. r = At(RRound(g), RStep(g), g.seq_rx, 0)
  BY <1>3, <1>7, <1>10, <1>11
<1>18. g.profile = d.profile /\ g.state = d.state /\ g.open = d.open
  BY <1>7, <1>10
<1> QED
  BY <1>13, <1>14, <1>15, <1>16, <1>17, <1>18, JoinMoves DEF N

\* The hybrid reply: the client sends NEWKEYS and writes under the new keys.
LEMMA JoinHearsReply ==
  ASSUME NEW e, NEW d, NEW f, NEW x, NEW r, Heard(e, d, f, x, r), d.phase = "AwaitReply",
         r = At(RRound(d), "half", x.seq_rx, 0), NEW g, g = client_newkeys(x)
  PROVE  Joined(f, g)
<1> DEFINE R == d.i_c - 1
           m == Msg("newkeys")
           y == put(x, m)
           h == exchange_hash(x)
           sid == IF x.session_id = None THEN h ELSE x.session_id
           w == derive_cipher(h, sid, "c2s")
           v == derive_cipher(h, sid, "s2c")
           N == d.profile.traffic
           k == d.sent
<1>1. ClientInv(d) /\ ClientInv(x)
  BY HeardFacts
<1>2. R \in Nat /\ d.i_c = R + 1 /\ RRound(d) = R /\ SRound(d) = R /\ SStep(d) = "half" /\ d.i_s = R + 1 /\ d.tx = Key(R, "c2s")
  BY <1>1 DEF ClientInv, RRound, SRound, SStep
<1>3. /\ DOMAIN x = ClientFields /\ x.wire = d.wire /\ x.seq_tx = d.seq_tx /\ x.phase = d.phase /\ x.profile = d.profile
      /\ x.tx = d.tx /\ x.rx = d.rx /\ x.session_id = d.session_id /\ x.i_c = d.i_c /\ x.i_s = d.i_s
      /\ x.sent = d.sent /\ x.fault = d.fault /\ x.state = d.state /\ x.open = d.open
  BY DEF Heard, Aside
<1>4. h = <<R + 1, R + 1>> /\ sid = <<1, 1>>
  <2>1. h = <<R + 1, R + 1>>
    BY <1>2, <1>3 DEF exchange_hash
  <2>2. x.session_id = IF R = 0 THEN None ELSE <<1, 1>>
    BY <1>1, <1>2, <1>3 DEF ClientInv
  <2>3. CASE R = 0
    <3>1. h = <<1, 1>>
      BY <2>1, <2>3
    <3> QED
      BY <2>1, <2>2, <2>3, <3>1
  <2>4. CASE R # 0
    <3>1. <<1, 1>> # None
      BY DEF None
    <3> HIDE DEF h
    <3> QED
      BY <2>1, <2>2, <2>4, <3>1
  <2> QED
    BY <2>3, <2>4
<1> DEFINE Q == R + 1
<1>5. Q \in Nat /\ Q # 0 /\ Q = d.i_c /\ Q >= 1
  BY <1>2
<1>6. w = Key(Q, "c2s") /\ v = Key(Q, "s2c")
  <2>1. h = <<Q, Q>> /\ sid = <<1, 1>>
    BY <1>4
  <2> HIDE DEF h, sid, Q
  <2> QED
    BY <1>5, <2>1 DEF Key
<1>7. g = [y EXCEPT !.phase = "AwaitNewKeys", !.session_id = sid, !.seq_tx = 0, !.tx = w, !.new_rx = v]
  BY DEF client_newkeys
<1>8. Sent(x, m, y) /\ m.kind = "newkeys"
  BY <1>3, Sends DEF Msg
<1> HIDE DEF y, m, h, sid, w, v, Q, R, N, k
<1>9. /\ DOMAIN g = ClientFields /\ g.phase = "AwaitNewKeys" /\ g.session_id = sid /\ g.seq_tx = 0 /\ g.tx = w
      /\ g.new_rx = v /\ g.wire = y.wire /\ g.profile = y.profile /\ g.seq_rx = y.seq_rx /\ g.rx = y.rx
      /\ g.i_s = y.i_s /\ g.i_c = y.i_c /\ g.state = y.state /\ g.open = y.open /\ g.sent = y.sent /\ g.fault = y.fault
  BY <1>7, <1>8 DEF Sent, ClientFields
<1>10. /\ g.wire = Append(x.wire, packet(x, m)) /\ g.profile = x.profile /\ g.seq_rx = x.seq_rx /\ g.rx = x.rx
       /\ g.i_s = x.i_s /\ g.i_c = x.i_c /\ g.state = x.state /\ g.open = x.open /\ g.sent = x.sent /\ g.fault = x.fault
       /\ packet(x, m).msg = m
  BY <1>8, <1>9, Packet DEF Sent
<1>11. Queue(d.wire)
  BY <1>1 DEF ClientInv
<1>12. Quiet(g.wire, d.wire) /\ Queue(g.wire)
  BY <1>3, <1>8, <1>10, <1>11, QuietWrite
<1>13. Rekeys(g.wire) => Rekeys(d.wire)
  BY <1>3, <1>8, <1>10, <1>11, RekeysAppended
<1>14. SRound(g) = Q /\ SStep(g) = "idle" /\ RRound(g) = R /\ RStep(g) = "half"
  <2>1. g.i_c = Q /\ g.i_c - 1 = R
    BY <1>2, <1>3, <1>5, <1>10
  <2> QED
    BY <1>9, <2>1 DEF SRound, SStep, RRound, RStep
<1>15. ClientInv(g)
  <2>1. g.i_c = Q /\ g.i_s = Q
    BY <1>2, <1>3, <1>5, <1>10 DEF Q
  <2>2. g.rx = Key(R, "s2c")
    BY <1>1, <1>2, <1>3, <1>10 DEF ClientInv
  <2>3. g.fault = "none" /\ g.profile \in Profiles /\ g.sent \in Nat
        /\ g.state \in {"transport", "accepting", "auth", "authenticating", "session", "gone"}
    BY <1>1, <1>3, <1>10 DEF ClientInv
  <2> QED
    BY <1>4, <1>5, <1>6, <1>9, <1>12, <1>14, <2>1, <2>2, <2>3 DEF ClientInv
<1>16. Onward(N, d.wire, End(d), g.wire, End(g))
  <2>1. End(d) = At(R, "half", x.seq_tx, k) /\ End(g) = At(R + 1, "idle", 0, k)
    BY <1>2, <1>3, <1>9, <1>10, <1>14 DEF End, k, Q
  <2>2. Queue(x.wire) /\ x.tx = Key(R, "c2s")
    BY <1>2, <1>3, <1>11
  <2>3. Onward(N, x.wire, At(R, "half", x.seq_tx, k), y.wire, At(R + 1, "idle", 0, k))
    BY <1>8, <2>2, InExchange
  <2> QED
    BY <1>3, <1>9, <2>1, <2>3
<1>17. r = At(RRound(g), RStep(g), g.seq_rx, 0)
  BY <1>2, <1>10, <1>14
<1>18. g.profile = d.profile /\ g.state = d.state /\ g.open = d.open
  BY <1>3, <1>10
<1> QED
  BY <1>12, <1>13, <1>15, <1>16, <1>17, <1>18, JoinMoves DEF N

\* g is x, reading under the new keys.
Rekeyed(x, g) ==
  /\ DOMAIN g = ClientFields /\ g.wire = x.wire /\ g.seq_tx = x.seq_tx /\ g.profile = x.profile
  /\ g.tx = x.tx /\ g.rx = x.new_rx /\ g.session_id = x.session_id /\ g.i_c = x.i_c /\ g.i_s = x.i_s
  /\ g.sent = x.sent /\ g.fault = x.fault /\ g.state = x.state /\ g.open = x.open
  /\ g.phase = "Idle" /\ g.seq_rx = 0

LEMMA RekeysClient ==
  ASSUME NEW x, DOMAIN x = ClientFields
  PROVE  Rekeyed(x, [x EXCEPT !.phase = "Idle", !.rx = x.new_rx, !.seq_rx = 0])
BY DEF Rekeyed, ClientFields

\* The server's NEWKEYS: the client reads under the new keys.
LEMMA JoinHearsNewKeys ==
  ASSUME NEW e, NEW d, NEW f, NEW x, NEW r, Heard(e, d, f, x, r), d.phase = "AwaitNewKeys",
         r = At(RRound(d) + 1, "idle", 0, 0), NEW g, Rekeyed(x, g)
  PROVE  Joined(f, g)
<1>1. ClientInv(d) /\ ClientInv(x)
  BY HeardFacts
<1>2. /\ DOMAIN x = ClientFields /\ x.wire = d.wire /\ x.seq_tx = d.seq_tx /\ x.profile = d.profile
      /\ x.tx = d.tx /\ x.new_rx = d.new_rx /\ x.session_id = d.session_id /\ x.i_c = d.i_c /\ x.i_s = d.i_s
      /\ x.sent = d.sent /\ x.fault = d.fault /\ x.state = d.state /\ x.open = d.open
  BY DEF Heard, Aside
<1>3. /\ DOMAIN g = ClientFields /\ g.wire = d.wire /\ g.seq_tx = d.seq_tx /\ g.profile = d.profile
      /\ g.tx = d.tx /\ g.rx = d.new_rx /\ g.session_id = d.session_id /\ g.i_c = d.i_c /\ g.i_s = d.i_s
      /\ g.sent = d.sent /\ g.fault = d.fault /\ g.state = d.state /\ g.open = d.open
      /\ g.phase = "Idle" /\ g.seq_rx = 0
  BY <1>2 DEF Rekeyed
<1>4. /\ SRound(d) = d.i_c /\ SStep(d) = "idle" /\ SRound(g) = d.i_c /\ SStep(g) = "idle"
      /\ RRound(g) = d.i_c /\ RStep(g) = "idle"
  BY <1>3 DEF SRound, SStep, RRound, RStep
<1>5. ClientInv(g)
  BY <1>1, <1>3, <1>4 DEF ClientInv
<1>6. End(g) = End(d)
  BY <1>3, <1>4 DEF End
<1>7. /\ Onward(d.profile.traffic, d.wire, End(d), g.wire, End(g)) /\ Quiet(g.wire, d.wire)
      /\ Rekeys(g.wire) => Rekeys(d.wire)
  BY <1>3, <1>6 DEF Onward, Quiet, Less
<1>8. r = At(RRound(g), RStep(g), g.seq_rx, 0)
  <2>1. RRound(d) + 1 = d.i_c
    BY <1>1 DEF ClientInv, RRound
  <2> QED
    BY <1>3, <1>4, <2>1
<1>9. /\ g.profile = d.profile /\ g.state = d.state /\ g.open = d.open
      /\ Rekeys(g.wire) => Rekeys(d.wire) \/ e.stage \in {"Session", "Closed"}
  BY <1>3, <1>7
<1> DEFINE N == d.profile.traffic
<1>10. Onward(N, d.wire, End(d), g.wire, End(g))
  BY <1>7
<1> HIDE DEF N
<1> QED
  BY <1>5, <1>7, <1>8, <1>9, <1>10, JoinMoves DEF N

\* Traffic.
LEMMA JoinHearsTraffic ==
  ASSUME NEW e, NEW d, NEW f, NEW x, NEW r, Heard(e, d, f, x, r), d.phase \in {"Idle", "Sent"},
         Head(e.wire).msg.kind \in Traffic("s2c"), r = At(RRound(d), RStep(d), x.seq_rx, 0),
         NEW g, g = receive(x, Head(e.wire).msg)
  PROVE  Joined(f, g)
<1> DEFINE m == Head(e.wire).msg
<1>1. /\ Queue(e.wire) /\ Queue(f.wire) /\ Calmer(f.wire, e.wire) /\ ClientInv(d) /\ ClientInv(x)
      /\ f.stage = e.stage /\ f.open = e.open /\ Login(e.stage, e.wire, d.state, d.wire) /\ Opened(e.open, e.wire, d)
  BY HeardFacts
<1>2. /\ Aside(d, x) /\ x.state = d.state /\ x.open = d.open /\ x.phase = d.phase /\ DOMAIN x = ClientFields
      /\ e.wire # <<>> /\ f.wire = Tail(e.wire)
  BY DEF Heard, Aside
<1>3. m.kind \in {"ext_info", "reply", "output", "open_reply", "accept", "failure", "pk_ok", "success"}
  BY DEF Traffic, Responses
<1>4. g = receive(x, m)
  OBVIOUS
<1>5. d.state \in {"transport", "accepting", "auth", "authenticating", "session", "gone"}
  BY <1>1 DEF ClientInv
<1>6. Login(f.stage, f.wire, d.state, d.wire)
  BY <1>1, CalmSame, CalmLogin
<1> HIDE DEF m
<1>7. CASE m.kind \in {"ext_info", "reply", "output"}
  <2>1. g = x
    BY <1>2, <1>4, <1>7 DEF receive
  <2> QED
    BY <1>2, <1>5, <1>6, <2>1, JoinTold
<1>8. CASE m.kind = "open_reply"
  <2>1. g = [x EXCEPT !.open = TRUE]
    BY <1>2, <1>4, <1>8 DEF receive
  <2>2. Aside(d, g) /\ g.seq_rx = x.seq_rx /\ g.state = d.state
    BY <1>2, <2>1 DEF Aside, ClientFields
  <2>3. Has(e.wire, {"open_reply"})
    <3> DEFINE kinds == {"open_reply"}
    <3>1. m.kind \in kinds
      BY <1>8
    <3> HIDE DEF kinds
    <3>2. Has(e.wire, kinds)
      BY <1>1, <1>2, <3>1, AfterRead DEF m
    <3> QED
      BY <3>2 DEF kinds
  <2>4. e.open
    BY <1>1, <2>3 DEF Opened
  <2> QED
    BY <1>5, <1>6, <2>2, <2>4, JoinTold
<1>9. CASE m.kind \in Responses
  <2> DEFINE next == IF m.kind = "success" THEN "session" ELSE "auth"
  <2>1. g = [x EXCEPT !.state = next]
    BY <1>2, <1>4, <1>9 DEF receive, Responses
  <2>2. Aside(d, g) /\ g.seq_rx = x.seq_rx /\ g.state = next /\ g.open = d.open
    BY <1>2, <2>1 DEF Aside, ClientFields
  <2>3. Login(e.stage, Tail(e.wire), next, d.wire)
    BY <1>1, <1>2, <1>9, AnswerRead DEF m
  <2>4. Login(f.stage, f.wire, g.state, d.wire)
    BY <1>1, <1>2, <2>2, <2>3
  <2>5. next \in {"transport", "accepting", "auth", "authenticating", "session", "gone"}
    OBVIOUS
  <2> HIDE DEF next
  <2> QED
    BY <2>2, <2>4, <2>5, JoinTold
<1> QED
  BY <1>3, <1>7, <1>8, <1>9 DEF Responses

\* Whatever the client reads, it can place.
LEMMA JoinReceives ==
  ASSUME NEW e, NEW d, NEW f, NEW x, NEW r, Heard(e, d, f, x, r)
  PROVE  Joined(f, receive(x, Head(e.wire).msg))
<1> DEFINE p == Head(e.wire)
           m == p.msg
           R == RRound(d)
           T == RStep(d)
           n == d.seq_rx
           g == receive(x, m)
<1>1. Follows("s2c", 0, At(R, T, n, 0), p, r) /\ x.phase = d.phase /\ x.seq_rx = next_seq(n)
  BY DEF Heard, Aside
<1>2. d.phase \in {"Idle", "Sent", "AwaitReply", "AwaitNewKeys"}
  BY HeardFacts DEF ClientInv
<1>3. /\ d.phase \in {"Idle", "Sent"} <=> T = "idle"
      /\ d.phase = "AwaitReply" <=> T = "init"
      /\ d.phase = "AwaitNewKeys" <=> T = "half"
      /\ T \in {"idle", "init", "half"}
  BY <1>2 DEF RStep
<1> HIDE DEF p, R, T, n
<1>4. \/ m.kind = "disconnect"
      \/ T = "idle" /\ m.kind = "kexinit"
      \/ T = "idle" /\ m.kind \in Traffic("s2c") /\ r = At(R, "idle", next_seq(n), 0)
      \/ T = "init" /\ m.kind = "hybrid_reply" /\ r = At(R, "half", next_seq(n), 0)
      \/ T = "half" /\ m.kind = "newkeys" /\ r = At(R + 1, "idle", 0, 0)
  BY <1>1, <1>3, Speaks
<1> HIDE DEF m
<1>5. CASE m.kind = "disconnect"
  <2>1. g = [x EXCEPT !.state = "gone"]
    BY <1>5 DEF receive
  <2> HIDE DEF g
  <2>2. Joined(f, g)
    BY <2>1, JoinOver
  <2> QED
    BY <2>2 DEF g, m, p
<1>6. CASE T = "idle" /\ m.kind = "kexinit"
  <2>1. g = send_hybrid(IF d.phase = "Idle" THEN send_kexinit(x, "none") ELSE x, m.n)
    BY <1>1, <1>3, <1>6 DEF receive
  <2> HIDE DEF g
  <2>2. Joined(f, g)
    BY <1>3, <1>6, <2>1, JoinHearsKexInit DEF m, p
  <2> QED
    BY <2>2 DEF g, m, p
<1>7. CASE T = "idle" /\ m.kind \in Traffic("s2c") /\ r = At(R, "idle", next_seq(n), 0)
  <2> HIDE DEF g
  <2>1. r = At(RRound(d), RStep(d), x.seq_rx, 0)
    BY <1>1, <1>7 DEF R, T
  <2>2. g = receive(x, Head(e.wire).msg)
    BY DEF g, m, p
  <2>3. Joined(f, g)
    BY <1>3, <1>7, <2>1, <2>2, JoinHearsTraffic DEF m, p
  <2> QED
    BY <2>2, <2>3
<1>8. CASE T = "init" /\ m.kind = "hybrid_reply" /\ r = At(R, "half", next_seq(n), 0)
  <2>1. g = client_newkeys(x)
    BY <1>1, <1>3, <1>8 DEF receive
  <2> HIDE DEF g
  <2>2. Joined(f, g)
    BY <1>1, <1>3, <1>8, <2>1, JoinHearsReply DEF R
  <2> QED
    BY <2>2 DEF g, m, p
<1>9. CASE T = "half" /\ m.kind = "newkeys" /\ r = At(R + 1, "idle", 0, 0)
  <2>1. g = [x EXCEPT !.phase = "Idle", !.rx = x.new_rx, !.seq_rx = 0]
    BY <1>1, <1>3, <1>9 DEF receive
  <2> HIDE DEF g
  <2>2. Rekeyed(x, g)
    BY <2>1, RekeysClient DEF Heard, Aside
  <2>3. Joined(f, g)
    BY <1>3, <1>9, <2>2, JoinHearsNewKeys DEF R
  <2> QED
    BY <2>3 DEF g, m, p
<1> QED
  BY <1>4, <1>5, <1>6, <1>7, <1>8, <1>9

\* What the client asks for is what its state allows.
LEMMA AskLogin ==
  ASSUME NEW stage, NEW out, NEW state, NEW in, Login(stage, out, state, in), Queue(in), NEW p, NEW next,
         \/ state = "transport" /\ p.msg.kind = "service" /\ next = "accepting"
         \/ state = "auth" /\ p.msg.kind = "auth" /\ next = "authenticating"
         \/ state = "session" /\ p.msg.kind \in SessionKinds /\ next = "session"
  PROVE  Login(stage, out, next, Append(in, p))
<1> SUFFICES ASSUME stage # "Closed" PROVE Login(stage, out, next, Append(in, p))
  BY DEF Login
<1> DEFINE v == Append(in, p)
           a == p.msg.kind
<1>1. /\ One(in, Requests) /\ One(out, Responses) /\ ~Has(out, Responses) /\ ~Has(in, Requests)
      /\ Has(in, SessionKinds) => stage = "Session"
      /\ Rekeys(in) \/ Rekeys(out) => stage = "Session"
      /\ state = "transport" => stage \in Opening \cup {"ServiceRequest"}
      /\ state = "auth" => stage = "UserAuth"
      /\ state = "session" => stage = "Session"
  BY DEF Login
<1>2. ~Has(in, {"service"}) /\ ~Has(in, {"auth"}) /\ ~Has(out, {"success"}) /\ ~Has(out, Responses \ {"success"})
  BY <1>1, Parts
<1>3. \A kinds : Has(v, kinds) <=> Has(in, kinds) \/ a \in kinds
  BY HasAppended
<1>4. One(v, Requests)
  BY <1>1, OneAppended
<1>5. Rekeys(v) => Rekeys(in)
  <2>1. Rekeys(v) => Rekeys(in) \/ a = "kexinit"
    BY RekeysAppended
  <2>2. a # "kexinit"
    BY DEF SessionKinds
  <2> QED
    BY <2>1, <2>2
<1>6. /\ a \in {"service"} => state = "transport" /\ next = "accepting"
      /\ a \in {"auth"} => state = "auth" /\ next = "authenticating"
      /\ a \in SessionKinds => state = "session"
      /\ next \in {"accepting", "authenticating", "session"}
      /\ next = "accepting" => state = "transport"
      /\ next = "authenticating" => state = "auth"
      /\ next = "session" => state = "session" /\ a \notin Requests
  BY DEF SessionKinds, Requests
<1>7. /\ Has(v, {"service"}) => state = "transport" /\ next = "accepting"
      /\ Has(v, {"auth"}) => state = "auth" /\ next = "authenticating"
      /\ Has(v, SessionKinds) => stage = "Session"
      /\ next = "session" => ~Has(v, Requests)
  BY <1>1, <1>2, <1>3, <1>6
<1> HIDE DEF v, a
<1>8. Login(stage, out, next, v)
  BY <1>1, <1>2, <1>4, <1>5, <1>6, <1>7 DEF Login
<1> QED
  BY <1>8 DEF v

\* g is d after m is sent, one more packet of traffic.
Asked(d, m, next, g) ==
  /\ DOMAIN g = ClientFields /\ g.wire = Append(d.wire, packet(d, m)) /\ g.seq_tx = next_seq(d.seq_tx)
  /\ g.phase = d.phase /\ g.profile = d.profile /\ g.seq_rx = d.seq_rx /\ g.tx = d.tx /\ g.rx = d.rx
  /\ g.session_id = d.session_id /\ g.i_s = d.i_s /\ g.i_c = d.i_c /\ g.guess = d.guess /\ g.new_rx = d.new_rx
  /\ g.state = next /\ g.open = d.open /\ g.sent = d.sent + 1 /\ g.fault = d.fault

LEMMA Asks ==
  ASSUME NEW d, DOMAIN d = ClientFields, NEW m, NEW next, NEW lag,
         NEW g, g = [put(d, m) EXCEPT !.sent = @ + 1, !.state = next, !.lag = lag]
  PROVE  Asked(d, m, next, g)
<1> DEFINE y == put(d, m)
           p == packet(d, m)
           n == next_seq(d.seq_tx)
<1>1. Sent(d, m, y)
  BY Sends
<1>2. g = [y EXCEPT !.sent = @ + 1, !.state = next, !.lag = lag]
  OBVIOUS
<1> HIDE DEF y
<1>3. y.wire = Append(d.wire, p) /\ y.seq_tx = n
  BY <1>1 DEF Sent
<1> HIDE DEF p, n
<1>4. /\ DOMAIN g = ClientFields /\ g.wire = Append(d.wire, p) /\ g.seq_tx = n
      /\ g.phase = d.phase /\ g.profile = d.profile /\ g.seq_rx = d.seq_rx /\ g.tx = d.tx /\ g.rx = d.rx
      /\ g.session_id = d.session_id /\ g.i_s = d.i_s /\ g.i_c = d.i_c /\ g.guess = d.guess /\ g.new_rx = d.new_rx
      /\ g.state = next /\ g.open = d.open /\ g.sent = d.sent + 1 /\ g.fault = d.fault
  <2>1. DOMAIN y = ClientFields
    BY <1>1 DEF Sent
  <2>2. /\ DOMAIN g = ClientFields /\ g.wire = y.wire /\ g.seq_tx = y.seq_tx
        /\ g.phase = y.phase /\ g.profile = y.profile /\ g.seq_rx = y.seq_rx /\ g.tx = y.tx /\ g.rx = y.rx
    BY <1>2, <2>1 DEF ClientFields
  <2>3. /\ g.session_id = y.session_id /\ g.i_s = y.i_s /\ g.i_c = y.i_c /\ g.guess = y.guess /\ g.new_rx = y.new_rx
        /\ g.state = next /\ g.open = y.open /\ g.sent = y.sent + 1 /\ g.fault = y.fault
    BY <1>2, <2>1 DEF ClientFields
  <2>4. /\ y.phase = d.phase /\ y.profile = d.profile /\ y.seq_rx = d.seq_rx /\ y.tx = d.tx /\ y.rx = d.rx
        /\ y.session_id = d.session_id /\ y.i_s = d.i_s /\ y.i_c = d.i_c /\ y.guess = d.guess /\ y.new_rx = d.new_rx
        /\ y.open = d.open /\ y.sent = d.sent /\ y.fault = d.fault
    BY <1>1 DEF Sent
  <2> QED
    BY <1>3, <2>2, <2>3, <2>4
<1> QED
  BY <1>4 DEF Asked, p, n

LEMMA JoinAsks ==
  ASSUME NEW e, NEW d, Joined(e, d), NEW m, NEW next,
         d.phase \in {"Idle", "AwaitNewKeys"}, d.tx # Plain, d.sent < d.profile.traffic,
         \/ d.state = "transport" /\ m.kind = "service" /\ m.name = "ssh-userauth" /\ next = "accepting"
         \/ d.state = "auth" /\ m.kind = "auth" /\ next = "authenticating"
         \/ d.state = "session" /\ m.kind \in SessionKinds /\ (m.kind = "data" => d.open) /\ next = "session",
         NEW g, Asked(d, m, next, g)
  PROVE  Joined(e, g)
<1> DEFINE y == put(d, m)
           R == d.i_c
           N == d.profile.traffic
           k == d.sent
           p == packet(d, m)
<1>1. DOMAIN e = Fields /\ Queue(e.wire) /\ ClientInv(d) /\ DOMAIN d = ClientFields /\ Queue(d.wire)
  BY DEF Joined, ServerInv, ClientInv
<1>2. R \in Nat /\ k \in Nat /\ SRound(d) = R /\ SStep(d) = "idle" /\ d.tx = Key(R, "c2s") /\ R # 0
  <2>1. SRound(d) = R /\ SStep(d) = "idle"
    BY DEF SRound, SStep
  <2> QED
    BY <1>1, <2>1 DEF ClientInv, Key
<1>3. Sent(d, m, y) /\ p.msg = m
  BY <1>1, Sends, Packet
<1> HIDE DEF y
<1>4. y.seq_tx = next_seq(d.seq_tx) /\ y.wire = Append(d.wire, p)
  BY <1>3 DEF Sent
<1>5. /\ DOMAIN g = ClientFields /\ g.wire = Append(d.wire, p) /\ g.seq_tx = y.seq_tx
      /\ g.phase = d.phase /\ g.profile = d.profile /\ g.seq_rx = d.seq_rx /\ g.tx = d.tx /\ g.rx = d.rx
      /\ g.session_id = d.session_id /\ g.i_s = d.i_s /\ g.i_c = d.i_c /\ g.guess = d.guess /\ g.new_rx = d.new_rx
      /\ g.state = next /\ g.open = d.open /\ g.sent = k + 1 /\ g.fault = d.fault /\ g.wire = y.wire
  BY <1>4 DEF Asked
<1>6. /\ SRound(g) = R /\ SStep(g) = "idle" /\ RRound(g) = RRound(d) /\ RStep(g) = RStep(d)
  BY <1>5 DEF SRound, SStep, RRound, RStep
<1>7. Queue(g.wire)
  <2>1. \A q : Queue(Append(d.wire, q))
    BY <1>1, Appending
  <2> QED
    BY <1>5, <2>1
<1>8. k + 1 \in Nat /\ next \in {"transport", "accepting", "auth", "authenticating", "session", "gone"}
  BY <1>2
<1>9. ClientInv(g)
  <2> HIDE DEF R, k, p
  <2> QED
    BY <1>1, <1>2, <1>5, <1>6, <1>7, <1>8 DEF ClientInv
<1>10. m.kind \in Traffic("c2s") /\ (m.kind = "service" => m.name = "ssh-userauth")
  BY DEF Traffic, Requests, SessionKinds
<1>11. Onward(N, d.wire, End(d), g.wire, End(g))
  <2>1. End(d) = At(R, "idle", d.seq_tx, k) /\ End(g) = At(R, "idle", y.seq_tx, k + 1)
    BY <1>2, <1>5, <1>6 DEF End
  <2>2. k < N
    OBVIOUS
  <2> HIDE DEF R, k, N, p
  <2>3. Onward(N, d.wire, At(R, "idle", d.seq_tx, k), y.wire, At(R, "idle", y.seq_tx, k + 1))
    BY <1>1, <1>2, <1>3, <1>10, <2>2, InTraffic
  <2> QED
    BY <1>5, <2>1, <2>3
<1>12. OutStream(e, g)
  <2>1. g.state # "gone" /\ d.state # "gone"
    BY <1>5
  <2>2. OutStream(e, d)
    BY DEF Joined
  <2> HIDE DEF p, k, R, N
  <2> QED
    BY <1>5, <1>6, <2>1, <2>2 DEF OutStream, Out
<1>13. Login(e.stage, e.wire, next, Append(d.wire, p))
  <2>1. \/ d.state = "transport" /\ p.msg.kind = "service" /\ next = "accepting"
        \/ d.state = "auth" /\ p.msg.kind = "auth" /\ next = "authenticating"
        \/ d.state = "session" /\ p.msg.kind \in SessionKinds /\ next = "session"
    BY <1>3
  <2>2. Login(e.stage, e.wire, d.state, d.wire)
    BY DEF Joined
  <2> HIDE DEF p
  <2> QED
    BY <1>1, <2>1, <2>2, AskLogin
<1>14. Opened(e.open, e.wire, g)
  <2>1. Has(g.wire, {"data"}) => Has(d.wire, {"data"}) \/ p.msg.kind \in {"data"}
    <3>1. \A q : Has(Append(d.wire, q), {"data"}) => Has(d.wire, {"data"}) \/ q.msg.kind \in {"data"}
      BY <1>1, HasAppended
    <3> QED
      BY <1>5, <3>1
  <2>2. p.msg.kind \in {"data"} => d.open
    BY <1>3 DEF SessionKinds
  <2>3. Opened(e.open, e.wire, d)
    BY DEF Joined
  <2> HIDE DEF p
  <2> QED
    BY <1>5, <2>1, <2>2, <2>3 DEF Opened
<1>15. Same(e, e)
  BY <1>1 DEF Same
<1> HIDE DEF N, p, k, R
<1>16. Login(e.stage, e.wire, g.state, g.wire)
  BY <1>5, <1>13
<1> QED
  BY <1>1, <1>5, <1>9, <1>11, <1>12, <1>14, <1>15, <1>16, ClientJoins DEF N

LEMMA JoinClientTraffic ==
  ASSUME Joined(s, c), Conforming, client_traffic
  PROVE  Joined(s', c')
<1>1. c.profile \in Profiles
  BY DEF Joined, ClientInv
<1>2. PICK m \in client_offers :
        c' = [put(c, m) EXCEPT !.sent = @ + 1, !.state = awaits[c.state], !.lag = IF s.wire = <<>> THEN 0 ELSE @ + 1]
  BY DEF client_traffic, Conforming
<1>3. c.tx # Plain /\ c.phase \in {"Idle", "AwaitNewKeys"} /\ c.sent < c.profile.traffic /\ s' = s
  BY DEF client_traffic, Conforming
<1> DEFINE next == awaits[c.state]
           lag == IF s.wire = <<>> THEN 0 ELSE put(c, m).lag + 1
<1>4. c' = [put(c, m) EXCEPT !.sent = @ + 1, !.state = next, !.lag = lag]
  BY <1>2
<1>5. \/ c.state = "transport" /\ m.kind = "service" /\ m.name = "ssh-userauth" /\ next = "accepting"
      \/ c.state = "auth" /\ m.kind = "auth" /\ next = "authenticating"
      \/ c.state = "session" /\ m.kind \in SessionKinds /\ (m.kind = "data" => c.open) /\ next = "session"
  <2>1. CASE c.state = "transport"
    BY <1>2, <2>1 DEF client_offers, awaits
  <2>2. CASE c.state = "auth"
    <3>1. m \in c.profile.logins
      BY <1>2, <2>2 DEF client_offers
    <3>2. m.kind = "auth"
      BY <1>1, <3>1, TransportAssumption
    <3> QED
      BY <2>2, <3>2 DEF awaits
  <2>3. CASE c.state = "session"
    <3>1. m \in c.profile.session /\ (m.kind = "data" => c.open)
      BY <1>2, <2>3 DEF client_offers
    <3>2. m.kind \in SessionKinds
      BY <1>1, <3>1, TransportAssumption DEF SessionKinds
    <3> QED
      BY <2>3, <3>1, <3>2 DEF awaits
  <2>4. CASE c.state \notin {"transport", "auth", "session"}
    BY <1>2, <2>4 DEF client_offers
  <2> QED
    BY <2>1, <2>2, <2>3, <2>4
<1> HIDE DEF next, lag
<1> DEFINE g == [put(c, m) EXCEPT !.sent = @ + 1, !.state = next, !.lag = lag]
<1>6. g = [put(c, m) EXCEPT !.sent = @ + 1, !.state = next, !.lag = lag]
  OBVIOUS
<1> HIDE DEF g
<1>7. Asked(c, m, next, g)
  <2>1. DOMAIN c = ClientFields
    BY DEF Joined, ClientInv
  <2> QED
    BY <1>6, <2>1, Asks
<1>8. Joined(s, g)
  BY <1>3, <1>5, <1>7, JoinAsks
<1> QED
  BY <1>3, <1>4, <1>6, <1>8

LEMMA JoinClientReads ==
  ASSUME Joined(s, c), client_reads
  PROVE  Joined(s', c')
<1> DEFINE f == [s EXCEPT !.wire = Tail(@)]
           x == [c EXCEPT !.seq_rx = next_seq(@), !.lag = 0]
           p == Head(s.wire)
<1>1. c.state # "gone" /\ s.wire # <<>> /\ s' = f
  BY DEF client_reads, client_alive
<1>2. c' = IF opens(c, p) THEN receive(x, p.msg) ELSE [c EXCEPT !.fault = "packet-auth-failed"]
  BY DEF client_reads
<1>3. f = [s EXCEPT !.wire = Tail(@)] /\ x = [c EXCEPT !.seq_rx = next_seq(@), !.lag = 0]
  OBVIOUS
<1> HIDE DEF f, x
<1>4. opens(c, p) /\ \E r : Heard(s, c, f, x, r)
  BY <1>1, <1>3, JoinHears
<1>5. PICK r : Heard(s, c, f, x, r)
  BY <1>4
<1>6. Joined(f, receive(x, p.msg))
  BY <1>5, JoinReceives
<1> QED
  BY <1>1, <1>2, <1>4, <1>6

-----------------------------------------------------------------------------
(* The invariant.                                                            *)

\* g is d in the fields every client has, and in its kind.
Kin(d, g) == DOMAIN g = ClientFields /\ g.profile = d.profile

LEMMA KinSends ==
  ASSUME NEW d, DOMAIN d = ClientFields
  PROVE  /\ \A m : Kin(d, put(d, m))
         /\ \A guess \in {"none", "wrong", "right"} : Kin(d, send_kexinit(d, guess))
         /\ \A n : Kin(d, send_hybrid(d, n))
<1>1. ASSUME NEW g, Kin(d, g) PROVE \A m : Kin(d, put(g, m))
  BY <1>1, Sends DEF Sent, Kin
<1>2. Kin(d, d)
  BY DEF Kin
<1>3. ASSUME NEW guess \in {"none", "wrong", "right"} PROVE Kin(d, send_kexinit(d, guess))
  <2> DEFINE x == [d EXCEPT !.i_c = @ + 1, !.guess = guess, !.phase = "Sent"]
             y == put(x, KexInit(d.i_c + 1, guess, d.ext))
  <2>1. Kin(d, x)
    BY DEF Kin, ClientFields
  <2> HIDE DEF x
  <2>2. Kin(d, y)
    BY <1>1, <2>1
  <2>3. \/ send_kexinit(d, guess) = y
        \/ send_kexinit(d, guess) = put(y, Msg("guess"))
        \/ send_kexinit(d, guess) = put(y, HybridInit)
    BY <1>3 DEF send_kexinit, x
  <2> HIDE DEF y
  <2>4. Kin(d, put(y, Msg("guess"))) /\ Kin(d, put(y, HybridInit))
    BY <1>1, <2>2
  <2> QED
    BY <2>2, <2>3, <2>4
<1>4. ASSUME NEW n PROVE Kin(d, send_hybrid(d, n))
  <2> DEFINE x == [d EXCEPT !.i_s = n, !.phase = "AwaitReply"]
  <2>1. Kin(d, x)
    BY DEF Kin, ClientFields
  <2>2. send_hybrid(d, n) = x \/ send_hybrid(d, n) = put(x, HybridInit)
    BY DEF send_hybrid
  <2> HIDE DEF x
  <2> QED
    BY <1>1, <2>1, <2>2
<1> QED
  BY <1>1, <1>2, <1>3, <1>4

LEMMA KinReceives ==
  ASSUME NEW x, DOMAIN x = ClientFields, NEW m
  PROVE  Kin(x, receive(x, m))
<1>1. /\ Kin(x, x) /\ Kin(x, [x EXCEPT !.state = "gone"]) /\ Kin(x, [x EXCEPT !.state = "auth"])
      /\ Kin(x, [x EXCEPT !.state = "session"]) /\ Kin(x, [x EXCEPT !.open = TRUE])
      /\ Kin(x, [x EXCEPT !.fault = "unexpected-packet"])
      /\ Kin(x, [x EXCEPT !.phase = "Idle", !.rx = x.new_rx, !.seq_rx = 0])
  BY DEF Kin, ClientFields
<1>2. Kin(x, send_hybrid(x, m.n))
  BY KinSends
<1>3. Kin(x, send_hybrid(send_kexinit(x, "none"), m.n))
  <2> DEFINE y == send_kexinit(x, "none")
  <2>1. Kin(x, y)
    BY KinSends
  <2> HIDE DEF y
  <2>2. Kin(y, send_hybrid(y, m.n))
    BY <2>1, KinSends DEF Kin
  <2>3. Kin(x, send_hybrid(y, m.n))
    BY <2>1, <2>2 DEF Kin
  <2> QED
    BY <2>3 DEF y
<1>4. Kin(x, client_newkeys(x))
  <2> DEFINE y == put(x, Msg("newkeys"))
             h == exchange_hash(x)
             sid == IF x.session_id = None THEN h ELSE x.session_id
             v == derive_cipher(h, sid, "c2s")
             w == derive_cipher(h, sid, "s2c")
  <2>1. Kin(x, y)
    BY KinSends
  <2>2. client_newkeys(x) =
          [y EXCEPT !.phase = "AwaitNewKeys", !.session_id = sid, !.seq_tx = 0, !.tx = v, !.new_rx = w]
    BY DEF client_newkeys
  <2> HIDE DEF y, h, sid, v, w
  <2> QED
    BY <2>1, <2>2 DEF Kin, ClientFields
<1> DEFINE g == receive(x, m)
<1>5. \/ g = x \/ g = [x EXCEPT !.state = "gone"] \/ g = [x EXCEPT !.state = "auth"]
      \/ g = [x EXCEPT !.state = "session"] \/ g = [x EXCEPT !.open = TRUE]
      \/ g = [x EXCEPT !.fault = "unexpected-packet"]
      \/ g = [x EXCEPT !.phase = "Idle", !.rx = x.new_rx, !.seq_rx = 0]
      \/ g = send_hybrid(x, m.n)
      \/ g = send_hybrid(send_kexinit(x, "none"), m.n)
      \/ g = client_newkeys(x)
  BY Zenon DEF receive
<1> HIDE DEF g
<1>6. Kin(x, g)
  BY <1>1, <1>2, <1>3, <1>4, <1>5
<1> QED
  BY <1>6 DEF g

\* A client stays the kind of client it is.
LEMMA KinStep ==
  ASSUME DOMAIN c = ClientFields, c.profile \in Profiles, [Next]_vars
  PROVE  Kin(c, c')
<1>1. CASE c' = c
  BY <1>1 DEF Kin
<1>2. CASE server_reads
  <2>1. c' = [c EXCEPT !.wire = Tail(@)]
    BY <1>2 DEF server_reads
  <2> QED
    BY <2>1 DEF Kin, ClientFields
<1>3. CASE client_kexinit
  <2>1. PICK guess \in c.profile.guesses : c' = send_kexinit(c, guess)
    BY <1>3 DEF client_kexinit
  <2>2. guess \in {"none", "wrong", "right"}
    BY <2>1, TransportAssumption
  <2> QED
    BY <2>1, <2>2, KinSends
<1>4. CASE client_reads
  <2> DEFINE x == [c EXCEPT !.seq_rx = next_seq(@), !.lag = 0]
             f == [c EXCEPT !.fault = "packet-auth-failed"]
             m == Head(s.wire).msg
  <2>1. c' = receive(x, m) \/ c' = f
    BY <1>4 DEF client_reads
  <2>2. Kin(c, x) /\ Kin(c, f)
    BY DEF Kin, ClientFields
  <2> HIDE DEF x, f, m
  <2>3. Kin(x, receive(x, m))
    BY <2>2, KinReceives DEF Kin
  <2>4. Kin(c, receive(x, m))
    BY <2>2, <2>3 DEF Kin
  <2> QED
    BY <2>1, <2>2, <2>4
<1>5. CASE client_traffic
  <2>1. ASSUME NEW y, Kin(c, y), NEW next, NEW lag
        PROVE  /\ Kin(c, [y EXCEPT !.sent = @ + 1])
               /\ Kin(c, [y EXCEPT !.sent = @ + 1, !.state = next, !.lag = lag])
    BY <2>1 DEF Kin, ClientFields
  <2>2. \A m : Kin(c, put(c, m))
    BY KinSends
  <2>3. CASE \E m \in c.profile.rogue : c' = [put(c, m) EXCEPT !.sent = @ + 1]
    <3>1. PICK m : c' = [put(c, m) EXCEPT !.sent = @ + 1]
      BY <2>3
    <3> DEFINE y == put(c, m)
    <3>2. Kin(c, y) /\ c' = [y EXCEPT !.sent = @ + 1]
      BY <2>2, <3>1
    <3> HIDE DEF y
    <3> QED
      BY <2>1, <3>2
  <2>4. CASE \E m \in client_offers :
               c' = [put(c, m) EXCEPT !.sent = @ + 1, !.state = awaits[c.state],
                                      !.lag = IF s.wire = <<>> THEN 0 ELSE @ + 1]
    <3>1. PICK m : c' = [put(c, m) EXCEPT !.sent = @ + 1, !.state = awaits[c.state],
                                          !.lag = IF s.wire = <<>> THEN 0 ELSE @ + 1]
      BY <2>4
    <3> DEFINE y == put(c, m)
               next == awaits[c.state]
               lag == IF s.wire = <<>> THEN 0 ELSE y.lag + 1
    <3>2. Kin(c, y) /\ c' = [y EXCEPT !.sent = @ + 1, !.state = next, !.lag = lag]
      BY <2>2, <3>1
    <3> HIDE DEF y, next, lag
    <3> QED
      BY <2>1, <3>2
  <2> QED
    BY <1>5, <2>3, <2>4 DEF client_traffic
<1>6. CASE client_leaves
  <2>1. c' = [c EXCEPT !.state = "gone"]
    BY <1>6 DEF client_leaves
  <2> QED
    BY <2>1 DEF Kin, ClientFields
<1>7. \/ c' = c \/ server_reads \/ client_kexinit \/ client_reads \/ client_traffic \/ client_leaves
  BY DEF Next, Server, Client, version_exchange, head_of_loop, peer_closed, rekey_timeout, Over, vars
<1> QED
  BY <1>1, <1>2, <1>3, <1>4, <1>5, <1>6, <1>7

\* The two ends of a connection whose client keeps the protocol are joined.
Together == DOMAIN c = ClientFields /\ c.profile \in Profiles /\ (Conforming => Joined(s, c))

LEMMA TogetherInit == Init => Together
<1> SUFFICES ASSUME Init PROVE Together
  OBVIOUS
<1>1. /\ DOMAIN s = Fields /\ s.stage = "Version" /\ s.reason = "none" /\ s.seq_tx = 0 /\ s.seq_rx = 0
      /\ s.tx = Plain /\ s.rx = Plain /\ s.i_s = 0 /\ s.phase = "Idle" /\ s.deferred = <<>> /\ s.wire = <<>>
  BY DEF Init, Fields
<1>2. /\ DOMAIN c = ClientFields /\ c.phase = "Idle" /\ c.profile \in Profiles /\ c.seq_tx = 0 /\ c.seq_rx = 0
      /\ c.tx = Plain /\ c.rx = Plain /\ c.session_id = None /\ c.i_c = 0 /\ c.state = "transport" /\ c.open = FALSE
      /\ c.sent = 0 /\ c.fault = "none" /\ c.wire = <<>>
  BY DEF Init, ClientFields
<1>3. Queue(<<>>) /\ \A d, N, a : Stream(d, N, <<>>, a, a)
  BY Nothing
<1>4. \A kinds : ~Has(<<>>, kinds) /\ One(<<>>, kinds) /\ ~Rekeys(<<>>)
  BY NothingThere
<1>5. /\ RxRound(s) = 0 /\ RxStep(s) = "idle" /\ TxRound(s) = 0 /\ TxStep(s) = "idle"
      /\ SRound(c) = 0 /\ SStep(c) = "idle" /\ RRound(c) = 0 /\ RStep(c) = "idle"
  BY <1>1, <1>2 DEF RxRound, RxStep, TxRound, TxStep, SRound, SStep, RRound, RStep, Opening
<1>6. \A d : Key(0, d) = Plain
  BY DEF Key
<1>7. ServerInv(s)
  <2>1. DOMAIN s.deferred = {}
    BY <1>1
  <2>2. Standing(s)
    BY <1>1, <1>5, <1>6, <2>1 DEF Standing, Opening
  <2> QED
    BY <1>1, <1>3, <2>2 DEF ServerInv, Opening
<1>8. ClientInv(c)
  BY <1>2, <1>3, <1>5, <1>6 DEF ClientInv
<1>9. OutStream(s, c)
  <2>1. Out(s.wire, c, TxPlace(s))
    BY <1>1, <1>2, <1>3, <1>5 DEF Out, TxPlace
  <2> QED
    BY <2>1 DEF OutStream
<1>10. InStream(s, c)
  <2>1. In(RxPlace(s, 0), c)
    BY <1>1, <1>2, <1>3, <1>5 DEF In, RxPlace
  <2>2. 0 \in Nat /\ 0 >= Len(s.deferred)
    BY <1>1
  <2> QED
    BY <2>1, <2>2 DEF InStream
<1>11. Login("Version", <<>>, "transport", <<>>)
  BY <1>4 DEF Login, Opening
<1>12. Opened(s.open, s.wire, c)
  BY <1>1, <1>2, <1>4 DEF Opened
<1>13. Reason(s, c)
  BY <1>1 DEF Reason, Fair
<1> QED
  BY <1>1, <1>2, <1>7, <1>8, <1>9, <1>10, <1>11, <1>12, <1>13 DEF Together, Joined

LEMMA JoinStep ==
  ASSUME Joined(s, c), Conforming, [Next]_vars
  PROVE  Joined(s', c')
<1>1. CASE version_exchange
  <2>1. s.stage = "Version" /\ c' = c
    BY <1>1 DEF version_exchange
  <2>2. \/ s' = close(s, "bad-identification")
        \/ s' = write_plain([s EXCEPT !.stage = "KexInit", !.i_s = 1], KexReply(1))
    BY <1>1 DEF version_exchange
  <2>3. /\ Joined(close(s, "bad-identification"), c)
        /\ Joined(write_plain([s EXCEPT !.stage = "KexInit", !.i_s = 1], KexReply(1)), c)
    BY <2>1, JoinVersion
  <2> QED
    BY <2>1, <2>2, <2>3, Zenon
<1>2. CASE server_reads
  BY <1>2, JoinReads
<1>3. CASE \E n \in 0..Burst, time \in BOOLEAN : head_of_loop(n, time)
  BY <1>3, JoinLoop
<1>4. CASE rekey_timeout \/ peer_closed
  BY <1>4, JoinEnds
<1>5. CASE client_kexinit
  <2>1. /\ c.phase = "Idle" /\ (c.i_c = 0 \/ c.state = "session") /\ s' = s
    BY <1>5 DEF client_kexinit
  <2>2. PICK guess \in c.profile.guesses : c' = send_kexinit(c, guess)
    BY <1>5 DEF client_kexinit
  <2>3. c.profile \in Profiles
    BY DEF Joined, ClientInv
  <2>4. guess \in {"none", "wrong", "right"}
    BY <2>2, <2>3, TransportAssumption
  <2>5. Joined(s, send_kexinit(c, guess))
    BY <2>1, <2>4, JoinClientKexInit
  <2> QED
    BY <2>1, <2>2, <2>5
<1>6. CASE client_reads
  BY <1>6, JoinClientReads
<1>7. CASE client_traffic
  BY <1>7, JoinClientTraffic
<1>8. CASE client_leaves
  <2>1. c' = [c EXCEPT !.state = "gone"] /\ s' = s
    BY <1>8 DEF client_leaves
  <2> DEFINE g == [c EXCEPT !.state = "gone"]
  <2>2. g = [c EXCEPT !.state = "gone"]
    OBVIOUS
  <2> HIDE DEF g
  <2>3. Joined(s, g)
    BY <2>2, JoinLeaves
  <2> QED
    BY <2>1, <2>2, <2>3
<1>9. CASE s' = s /\ c' = c
  BY <1>9
<1>10. \/ version_exchange \/ server_reads \/ rekey_timeout \/ peer_closed
       \/ \E n \in 0..Burst, time \in BOOLEAN : head_of_loop(n, time)
       \/ client_kexinit \/ client_reads \/ client_traffic \/ client_leaves \/ (s' = s /\ c' = c)
  BY DEF Next, Server, Client, Over, vars
<1> QED
  BY <1>1, <1>2, <1>3, <1>4, <1>5, <1>6, <1>7, <1>8, <1>9, <1>10

LEMMA TogetherStep == Together /\ [Next]_vars => Together'
<1> SUFFICES ASSUME Together, [Next]_vars PROVE Together'
  OBVIOUS
<1>1. DOMAIN c = ClientFields /\ c.profile \in Profiles
  BY DEF Together
<1>2. Kin(c, c')
  BY <1>1, KinStep
<1>3. DOMAIN c' = ClientFields /\ c'.profile = c.profile
  BY <1>2 DEF Kin
<1>4. Conforming' => Conforming
  BY <1>3 DEF Conforming
<1>5. Conforming => Joined(s', c')
  BY JoinStep DEF Together
<1> QED
  BY <1>1, <1>3, <1>4, <1>5 DEF Together

\* A client that keeps the protocol never sees the server break it, and is never
\* refused for it, unless it may send more than the window of a re-key holds
\* (MAX_DEFERRED in step_rekey).
ServedOrFlooding == Conforming =>
  /\ c.fault = "none"
  /\ \/ s.reason \in Fair
     \/ s.reason = "too-many-deferred-during-rekey" /\ c.profile.traffic > MAX_DEFERRED

\* For every client that keeps the protocol, however its key exchanges and the
\* server's overlap and whatever it guesses: the handshake, the login and every
\* re-key are carried out without a refusal on either side, the limit on what
\* waits for the end of a re-key apart (step_rekey, pass_to_channel).
THEOREM ServedUnlessFlooding == Spec => []ServedOrFlooding
<1>1. Together => ServedOrFlooding
  <2>1. Joined(s, c) => c.fault = "none" /\ Reason(s, c)
    BY DEF Joined, ClientInv
  <2> QED
    BY <2>1 DEF Together, ServedOrFlooding, Reason
<1> QED
  BY <1>1, TogetherInit, TogetherStep, PTL DEF Spec

\* Every packet opens at its reader: through overlapping key exchanges both ends
\* agree on the keys and on the sequence number of every packet on the wire
\* (exchange_newkeys, complete_rekey_reply, step_rekey).
THEOREM KeysStayInStep == Spec => []KeysInStep
<1>1. ServedOrFlooding => KeysInStep
  BY DEF ServedOrFlooding, KeysInStep, Fair
<1> QED
  BY <1>1, ServedUnlessFlooding, PTL

\* A client that keeps the protocol, and never sends more than the window of a
\* re-key holds, is served: its connection ends for no reason but its leaving,
\* its bad logins, its identification or a re-key it does not finish in time.
THEOREM ConformingIsServed ==
  ASSUME \A p \in Profiles : p.rogue = {} => p.traffic <= MAX_DEFERRED
  PROVE  Spec => []ConformingClientServed
<1>1. Together => ConformingClientServed
  <2> SUFFICES ASSUME Together, Conforming
               PROVE  c.fault = "none" /\ s.reason \in Fair
    BY DEF ConformingClientServed, Fair
  <2>1. c.fault = "none" /\ Reason(s, c)
    BY DEF Together, Joined, ClientInv
  <2>2. c.profile.traffic <= MAX_DEFERRED
    BY DEF Together, Conforming
  <2>3. c.profile.traffic \in Nat /\ MAX_DEFERRED \in Nat
    BY TransportAssumption DEF Together
  <2>4. ~(c.profile.traffic > MAX_DEFERRED)
    BY <2>2, <2>3
  <2> QED
    BY <2>1, <2>4 DEF Reason
<1> QED
  BY <1>1, TogetherInit, TogetherStep, PTL DEF Spec
=============================================================================
