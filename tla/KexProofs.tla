------------------------------ MODULE KexProofs ------------------------------
(* Theorems about Kex, for all offers, rounds and altered messages.          *)
EXTENDS Kex, FiniteSetTheorems, WellFoundedInduction, TLAPS

-----------------------------------------------------------------------------
(* What the server picks is what RFC 4253 has the client choose.             *)

LEMMA LeastNumber ==
  ASSUME NEW T, T \subseteq Nat, T # {}
  PROVE  \E m \in T : \A k \in T : m <= k
<1> DEFINE R == {ss \in Nat \X Nat : ss[1] < ss[2]}
<1>1. IsWellFoundedOn(R, Nat)
  BY NatLessThanWellFounded DEF OpToRel
<1>2. PICK m \in T : \A k \in T : ~ (<<k, m>> \in R)
  <2> HIDE DEF R
  <2> QED
    BY <1>1, WFMin
<1>3. ASSUME NEW k \in T PROVE m <= k
  <2>1. <<k, m>> \in Nat \X Nat /\ <<k, m>>[1] = k /\ <<k, m>>[2] = m
    OBVIOUS
  <2> QED
    BY <1>2, <2>1
<1> QED
  BY <1>3

Ours == Range(ENCRYPTION_LIST)

\* A cipher that is picked is one the server offers, and the first such one on
\* the client's list.
LEMMA PickIsChoice ==
  ASSUME NEW list \in Seq(STRING), pick(list) # "none"
  PROVE  pick(list) = Choice(list, Ours) /\ pick(list) \in Ours
<1> DEFINE I == {i \in 1..Len(list) : list[i] \in Ours}
<1>1. DOMAIN list = 1..Len(list) /\ I \subseteq Nat
  OBVIOUS
<1>2. first_in(list, Ours) = IF I # {} THEN Min(I) ELSE 0
  BY DEF first_in, SelectInSeq
<1>3. Choice(list, Ours) = list[Min(I)]
  BY <1>1 DEF Choice
<1>4. pick(list) = IF first_in(list, Ours) = 0 THEN "none" ELSE list[first_in(list, Ours)]
  BY DEF pick, Ours
<1>5. I # {}
  BY <1>2, <1>4
<1>6. Min(I) \in I
  <2> HIDE DEF I
  <2>1. \E m \in I : \A k \in I : m <= k
    BY <1>1, <1>5, LeastNumber
  <2> QED
    BY <2>1 DEF Min
<1>7. first_in(list, Ours) = Min(I) /\ Min(I) # 0
  BY <1>2, <1>5, <1>6
<1> QED
  BY <1>3, <1>4, <1>6, <1>7

-----------------------------------------------------------------------------
(* The inductive invariant.                                                  *)

ServerFields ==
  {"stage", "round", "reason", "session_id", "i_s", "i_c", "agreed", "pair"}
ClientFields == {"stage", "round", "i_c", "i_s", "init", "session_id", "pair"}

\* Records, and where the two ends are: the server is at most one exchange
\* ahead, and starts none before the client has ended the one before.
Stages ==
  /\ DOMAIN s = ServerFields /\ DOMAIN c = ClientFields
  /\ s.stage \in {"KexInit", "Sent", "HybridInit", "rejected", "finished"}
  /\ c.stage \in {"start", "offered", "waiting", "gave up", "finished"}
  /\ s.round \in 1..Rounds + 1 /\ c.round \in 1..Rounds + 1
  /\ s.stage \in {"KexInit", "Sent", "HybridInit"} => s.round <= Rounds
  /\ c.stage \in {"start", "offered", "waiting"} => c.round <= Rounds
  /\ s.round = c.round \/ s.round = c.round + 1
  /\ s.stage \in {"Sent", "HybridInit"} => s.round = c.round
  /\ trouble \in 0..MaxTrouble

Up == {[kind |-> "guess"]} \cup Offers \cup {ClientInit(i) : i \in Inits}
      \cup {ClientInit([ek |-> "x", pk |-> "x", fault |-> "none"])}

\* What the client sends, as it was or altered.
Upstream == c2s \in Seq(Up)

\* The client has drawn the shares it offers.
Drawn == c.stage = "offered" => c.init \in Inits

\* The ciphers of the exchange under way are the client's choice.
Chosen(agreed, i_c) ==
  /\ DOMAIN agreed = {"c2s", "s2c", "ext_info", "skip"}
  /\ agreed.c2s = Choice(i_c.enc_c2s, Ours) /\ agreed.c2s \in Ours
  /\ agreed.s2c = Choice(i_c.enc_s2c, Ours) /\ agreed.s2c \in Ours

Negotiated == s.stage = "HybridInit" => Chosen(s.agreed, s.i_c)

\* The hash of the last exchange the server completed: its keys are made of it.
LastHash == s.pair.rx.key[2]

ChoiceOf(i_c) == [c2s |-> Choice(i_c.enc_c2s, Ours), s2c |-> Choice(i_c.enc_s2c, Ours)]

\* Keys in use are of a cipher the server offers, and made of what was hashed.
Installed ==
  s.round > 1 =>
    /\ {s.pair.rx.cipher, s.pair.tx.cipher} \subseteq Ours
    /\ s.pair = derive_cipher_pair(LastHash[6], LastHash, s.session_id, ChoiceOf(LastHash[1]))

\* A signature under way is of that hash, or no signature of the host key.
Signed(m) ==
  m.kind = "reply" =>
    /\ DOMAIN m = {"kind", "host_key", "reply", "signature"}
    /\ s.round = c.round + 1
    /\ m.signature = sign(HostKey, LastHash) \/ m.signature = sign("x", "x")

Downstream ==
  /\ \E M : s2c \in Seq(M)
  /\ \A i \in 1..Len(s2c) : Signed(s2c[i])
  /\ \A i, j \in 1..Len(s2c) : s2c[i].kind = "reply" /\ s2c[j].kind = "reply" => i = j

\* Both ends name the session after the first hash.
SameSession ==
  /\ s.round = c.round + 1 => s.session_id = IF c.round = 1 THEN LastHash ELSE c.session_id
  /\ s.round = c.round /\ c.round > 1 => s.session_id = c.session_id

\* Each key carries the round its secret was made in.
RoundOf(k) == k[1].pq[2]
Fresh ==
  /\ IsFiniteSet(used) /\ Cardinality(used) = 4 * (s.round - 1)
  /\ \A k \in used : RoundOf(k) \in 1..s.round - 1

IInv ==
  /\ Stages /\ Upstream /\ Drawn /\ Negotiated /\ Installed /\ Downstream /\ SameSession /\ Fresh /\ Agreement

-----------------------------------------------------------------------------
(* Steps that install no keys.                                               *)

\* Neither end has new keys.
SameKeys ==
  /\ s'.round = s.round /\ s'.pair = s.pair /\ s'.session_id = s.session_id
  /\ c'.round = c.round /\ c'.pair = c.pair /\ c'.session_id = c.session_id
  /\ used' = used

LEMMA KeysKept ==
  ASSUME IInv, SameKeys
  PROVE  Installed' /\ SameSession' /\ Fresh' /\ Agreement'
<1>1. LastHash' = LastHash
  BY DEF SameKeys, LastHash
<1>2. Installed'
  BY <1>1 DEF IInv, SameKeys, Installed
<1>3. SameSession'
  BY <1>1 DEF IInv, SameKeys, SameSession
<1>4. Fresh'
  BY DEF IInv, SameKeys, Fresh
<1>5. Agreement'
  BY DEF IInv, SameKeys, Agreement
<1> QED
  BY <1>2, <1>3, <1>4, <1>5

LEMMA SignedKept ==
  ASSUME SameKeys, NEW m, Signed(m)
  PROVE  Signed(m)'
BY DEF SameKeys, Signed, LastHash

LEMMA TailOf ==
  ASSUME NEW M, NEW q \in Seq(M), q # <<>>
  PROVE  /\ Tail(q) \in Seq(M) /\ Head(q) \in M /\ Head(q) = q[1] /\ 1 \in 1..Len(q)
         /\ Len(Tail(q)) = Len(q) - 1 /\ Len(q) \in Nat
         /\ \A i \in 1..Len(Tail(q)) : Tail(q)[i] = q[i + 1] /\ i + 1 \in 1..Len(q)
OBVIOUS

\* A message that is no reply joins the queue.
LEMMA DownstreamGrows ==
  ASSUME IInv, SameKeys, NEW m, m.kind # "reply", s2c' = Append(s2c, m)
  PROVE  Downstream'
<1>1. PICK M : s2c \in Seq(M)
  BY DEF IInv, Downstream
<1> DEFINE n == Len(s2c)
<1>2. s2c \in Seq(M \cup {m})
  BY <1>1
<1>3. /\ s2c' \in Seq(M \cup {m}) /\ Len(s2c') = n + 1 /\ s2c'[n + 1] = m /\ n \in Nat
      /\ \A i \in 1..n : s2c'[i] = s2c[i]
  BY <1>2
<1>4. ASSUME NEW i \in 1..n + 1, s2c'[i].kind = "reply" PROVE i \in 1..n /\ s2c'[i] = s2c[i]
  BY <1>3, <1>4
<1> HIDE DEF n
<1>5. ASSUME NEW i \in 1..n + 1 PROVE Signed(s2c[i])'
  <2>1. CASE s2c'[i].kind = "reply"
    <3>1. Signed(s2c'[i])
      BY <1>4, <2>1 DEF IInv, Downstream, n
    <3> QED
      BY <3>1 DEF SameKeys, Signed, LastHash
  <2>2. CASE s2c'[i].kind # "reply"
    BY <2>2 DEF Signed
  <2> QED
    BY <2>1, <2>2
<1>6. ASSUME NEW i \in 1..n + 1, NEW j \in 1..n + 1, s2c'[i].kind = "reply", s2c'[j].kind = "reply" PROVE i = j
  BY <1>4, <1>6 DEF IInv, Downstream, n
<1> QED
  BY <1>3, <1>5, <1>6 DEF Downstream

LEMMA DownstreamSame ==
  ASSUME IInv, SameKeys, s2c' = s2c
  PROVE  Downstream'
<1>1. ASSUME NEW i \in 1..Len(s2c) PROVE Signed(s2c[i])'
  <2>1. Signed(s2c[i])
    BY DEF IInv, Downstream
  <2> QED
    BY <2>1 DEF SameKeys, Signed, LastHash
<1> QED
  BY <1>1 DEF IInv, Downstream

\* The first message is taken off the queue.
LEMMA DownstreamShrinks ==
  ASSUME IInv, SameKeys, s2c # <<>>, s2c' = Tail(s2c)
  PROVE  Downstream'
<1>1. PICK M : s2c \in Seq(M)
  BY DEF IInv, Downstream
<1>2. /\ s2c' \in Seq(M)
      /\ \A i \in 1..Len(s2c') : s2c'[i] = s2c[i + 1] /\ i + 1 \in 1..Len(s2c)
  BY <1>1, TailOf
<1>3. ASSUME NEW i \in 1..Len(s2c') PROVE Signed(s2c[i])'
  <2>1. Signed(s2c'[i])
    BY <1>2 DEF IInv, Downstream
  <2> QED
    BY <2>1 DEF SameKeys, Signed, LastHash
<1>4. ASSUME NEW i \in 1..Len(s2c'), NEW j \in 1..Len(s2c'), s2c'[i].kind = "reply", s2c'[j].kind = "reply"
      PROVE  i = j
  <2>1. i + 1 = j + 1
    BY <1>2, <1>4 DEF IInv, Downstream
  <2> QED
    BY <2>1
<1> QED
  BY <1>2, <1>3, <1>4 DEF Downstream

\* What is left to show of a step that leaves keys and stages as they were.
LEMMA Rejecting ==
  ASSUME IInv, NEW why, reject(why), UNCHANGED <<c, used>>, c2s' \in Seq(Up), trouble' \in 0..MaxTrouble
  PROVE  IInv'
<1>1. /\ DOMAIN s' = ServerFields /\ s'.stage = "rejected"
      /\ s'.round = s.round /\ s'.pair = s.pair /\ s'.session_id = s.session_id
  BY DEF IInv, Stages, ServerFields, reject
<1>2. SameKeys
  BY <1>1 DEF SameKeys
<1>3. Stages'
  BY <1>1 DEF IInv, Stages
<1>4. Downstream'
  <2> DEFINE m == [kind |-> "disconnect"]
  <2>1. m.kind # "reply" /\ s2c' = Append(s2c, m)
    BY DEF reject
  <2> HIDE DEF m
  <2> QED
    BY <1>2, <2>1, DownstreamGrows
<1>5. Upstream' /\ Drawn' /\ Negotiated'
  BY <1>1 DEF IInv, Upstream, Drawn, Negotiated
<1> QED
  BY <1>2, <1>3, <1>4, <1>5, KeysKept DEF IInv

LEMMA Kexinit ==
  ASSUME IInv, server_kexinit
  PROVE  IInv'
<1>1. s.stage = "KexInit" /\ c.round = s.round /\ UNCHANGED <<c, c2s, used>>
  BY DEF server_kexinit
<1>2. CASE /\ s' = [s EXCEPT !.stage = "Sent", !.i_s = build_kexinit(s.round)]
           /\ s2c' = Append(s2c, build_kexinit(s.round)) /\ trouble' = trouble
  <2>1. /\ DOMAIN s' = ServerFields /\ s'.stage = "Sent"
        /\ s'.round = s.round /\ s'.pair = s.pair /\ s'.session_id = s.session_id
    BY <1>2 DEF IInv, Stages, ServerFields
  <2>2. SameKeys
    BY <1>1, <2>1 DEF SameKeys
  <2>3. Stages'
    BY <1>1, <1>2, <2>1 DEF IInv, Stages
  <2>4. Downstream'
    <3> DEFINE m == build_kexinit(s.round)
    <3>1. m.kind # "reply" /\ s2c' = Append(s2c, m)
      BY <1>2 DEF build_kexinit
    <3> HIDE DEF m
    <3> QED
      BY <2>2, <3>1, DownstreamGrows
  <2>5. Upstream' /\ Drawn' /\ Negotiated'
    BY <1>1, <2>1 DEF IInv, Upstream, Drawn, Negotiated
  <2> QED
    BY <2>2, <2>3, <2>4, <2>5, KeysKept DEF IInv
<1>3. CASE trouble < MaxTrouble /\ trouble' = trouble + 1 /\ reject("rng-failure")
  <2>1. trouble' \in 0..MaxTrouble
    <3>1. MaxTrouble \in Nat /\ trouble \in 0..MaxTrouble
      BY KexAssumption DEF IInv, Stages
    <3> QED
      BY <1>3, <3>1
  <2>2. c2s' \in Seq(Up)
    BY <1>1 DEF IInv, Upstream
  <2> QED
    BY <1>1, <1>3, <2>1, <2>2, Rejecting
<1> QED
  BY <1>2, <1>3 DEF server_kexinit

\* What is not refused has a cipher in each direction.
LEMMA NegotiatesChoice ==
  ASSUME NEW m \in Offers, NEW initial \in BOOLEAN, refusal(m, initial) = "none"
  PROVE  Chosen(negotiate(m, initial), m)
<1>1. m.enc_c2s \in Seq(STRING) /\ m.enc_s2c \in Seq(STRING)
  BY KexAssumption
<1>2. pick(m.enc_c2s) # "none" /\ pick(m.enc_s2c) # "none"
  BY DEF refusal
<1>3. negotiate(m, initial).c2s = pick(m.enc_c2s) /\ negotiate(m, initial).s2c = pick(m.enc_s2c)
  BY DEF negotiate
<1> QED
  BY <1>1, <1>2, <1>3, PickIsChoice DEF Chosen, negotiate

LEMMA UpTail ==
  ASSUME IInv, c2s # <<>>
  PROVE  Tail(c2s) \in Seq(Up) /\ Head(c2s) \in Up
BY TailOf DEF IInv, Upstream

LEMMA UpKinds ==
  ASSUME NEW m \in Up
  PROVE  /\ m.kind # "reply"
         /\ m.kind = "kexinit" => m \in Offers
BY KexAssumption DEF Up, ClientInit

LEMMA Negotiates ==
  ASSUME IInv, server_negotiates
  PROVE  IInv'
<1> DEFINE m == Head(c2s)
           why == refusal(m, s.round = 1)
<1>1. /\ s.stage = "Sent" /\ UNCHANGED <<c, trouble, used>>
      /\ c2s' = Tail(c2s) /\ c2s' \in Seq(Up) /\ m \in Up
  BY UpTail DEF server_negotiates
<1>2. trouble' \in 0..MaxTrouble
  BY <1>1 DEF IInv, Stages
<1>3. CASE m.kind # "kexinit"
  BY <1>1, <1>2, <1>3, Rejecting DEF server_negotiates
<1>4. CASE m.kind = "kexinit" /\ why # "none"
  BY <1>1, <1>2, <1>4, Rejecting DEF server_negotiates
<1>5. CASE m.kind = "kexinit" /\ why = "none"
  <2>1. /\ s' = [s EXCEPT !.stage = "HybridInit", !.agreed = negotiate(m, s.round = 1), !.i_c = m]
        /\ s2c' = s2c
    BY <1>5 DEF server_negotiates
  <2>2. Chosen(negotiate(m, s.round = 1), m)
    BY <1>1, <1>5, UpKinds, NegotiatesChoice
  <2> HIDE DEF m
  <2>3. /\ DOMAIN s' = ServerFields /\ s'.stage = "HybridInit" /\ s'.i_c = m
        /\ s'.agreed = negotiate(m, s.round = 1)
        /\ s'.round = s.round /\ s'.pair = s.pair /\ s'.session_id = s.session_id
    BY <2>1 DEF IInv, Stages, ServerFields
  <2>4. SameKeys
    BY <1>1, <2>3 DEF SameKeys
  <2>5. Stages'
    BY <1>1, <1>2, <2>3 DEF IInv, Stages
  <2>6. Upstream' /\ Drawn' /\ Negotiated'
    BY <1>1, <2>2, <2>3 DEF IInv, Upstream, Drawn, Negotiated
  <2> QED
    BY <2>1, <2>4, <2>5, <2>6, KeysKept, DownstreamSame DEF IInv
<1> QED
  BY <1>3, <1>4, <1>5

LEMMA Skips ==
  ASSUME IInv, server_skips
  PROVE  IInv'
<1>1. /\ s.stage = "HybridInit" /\ UNCHANGED <<c, s2c, trouble, used>>
      /\ c2s' \in Seq(Up) /\ s' = [s EXCEPT !.agreed.skip = FALSE]
  BY UpTail DEF server_skips
<1>2. /\ DOMAIN s' = ServerFields /\ s'.stage = "HybridInit" /\ s'.i_c = s.i_c
      /\ s'.agreed = [s.agreed EXCEPT !.skip = FALSE]
      /\ s'.round = s.round /\ s'.pair = s.pair /\ s'.session_id = s.session_id
  BY <1>1 DEF IInv, Stages, ServerFields
<1>3. SameKeys
  BY <1>1, <1>2 DEF SameKeys
<1>4. Stages'
  BY <1>1, <1>2 DEF IInv, Stages
<1>5. Negotiated'
  BY <1>1, <1>2 DEF IInv, Negotiated, Chosen
<1>6. Upstream' /\ Drawn'
  BY <1>1 DEF IInv, Upstream, Drawn
<1> QED
  BY <1>1, <1>3, <1>4, <1>5, <1>6, KeysKept, DownstreamSame DEF IInv

LEMMA TimesOut ==
  ASSUME IInv, server_times_out
  PROVE  IInv'
<1>1. c2s' \in Seq(Up) /\ trouble' \in 0..MaxTrouble
  BY DEF server_times_out, IInv, Upstream, Stages
<1> QED
  BY <1>1, Rejecting DEF server_times_out

\* A step of the client that ends no exchange.
LEMMA ClientMoves ==
  ASSUME IInv, UNCHANGED <<s, trouble, used>>, DOMAIN c' = ClientFields,
         c'.stage \in {"offered", "waiting", "gave up"}, c.stage \in {"start", "offered", "waiting"},
         c'.stage = "offered" => c'.init \in Inits,
         c'.round = c.round, c'.pair = c.pair, c'.session_id = c.session_id,
         c2s' \in Seq(Up), s2c' = s2c \/ (s2c # <<>> /\ s2c' = Tail(s2c))
  PROVE  IInv'
<1>1. SameKeys
  BY DEF SameKeys
<1>2. Stages'
  BY DEF IInv, Stages
<1>3. Upstream' /\ Drawn' /\ Negotiated'
  BY DEF IInv, Upstream, Drawn, Negotiated
<1>4. Downstream'
  BY <1>1, DownstreamSame, DownstreamShrinks
<1> QED
  BY <1>1, <1>2, <1>3, <1>4, KeysKept DEF IInv

LEMMA ClientOffers ==
  ASSUME IInv, client_offers
  PROVE  IInv'
<1>1. PICK o \in Offers, init \in Inits :
        /\ c' = [c EXCEPT !.stage = "offered", !.i_c = o, !.init = init]
        /\ c2s' = c2s \o <<o>> \o
             (IF ~o.follows THEN <<>> ELSE IF RightGuess(o) THEN <<ClientInit(init)>> ELSE <<[kind |-> "guess"]>>)
  BY DEF client_offers
<1>2. o \in Up /\ ClientInit(init) \in Up /\ [kind |-> "guess"] \in Up
  BY DEF Up
<1>3. c2s' \in Seq(Up)
  <2> DEFINE t == IF ~o.follows THEN <<>> ELSE IF RightGuess(o) THEN <<ClientInit(init)>> ELSE <<[kind |-> "guess"]>>
  <2>1. t \in Seq(Up)
    BY <1>2
  <2>2. c2s \in Seq(Up) /\ <<o>> \in Seq(Up)
    BY <1>2 DEF IInv, Upstream
  <2>3. c2s' = c2s \o <<o>> \o t
    BY <1>1
  <2> HIDE DEF t
  <2> QED
    BY <2>1, <2>2, <2>3
<1>4. /\ DOMAIN c' = ClientFields /\ c'.stage = "offered" /\ c'.init \in Inits /\ c'.round = c.round
      /\ c'.pair = c.pair /\ c'.session_id = c.session_id
  BY <1>1 DEF IInv, Stages, ClientFields
<1>5. c.stage = "start" /\ UNCHANGED <<s, s2c, trouble, used>>
  BY DEF client_offers
<1> QED
  BY <1>3, <1>4, <1>5, ClientMoves

LEMMA ClientContinues ==
  ASSUME IInv, client_continues
  PROVE  IInv'
<1>1. /\ c.stage = "offered" /\ UNCHANGED <<s, trouble, used>> /\ s2c # <<>> /\ s2c' = Tail(s2c)
      /\ c' = [c EXCEPT !.stage = "waiting", !.i_s = Head(s2c)]
  BY DEF client_continues
<1>2. /\ DOMAIN c' = ClientFields /\ c'.stage = "waiting" /\ c'.round = c.round
      /\ c'.pair = c.pair /\ c'.session_id = c.session_id
  BY <1>1 DEF IInv, Stages, ClientFields
<1>3. CASE c2s' = c2s
  BY <1>1, <1>2, <1>3, ClientMoves DEF IInv, Upstream
<1>4. CASE c2s' = Append(c2s, ClientInit(c.init))
  \* what the client sends is what it drew for this round
  <2>1. ClientInit(c.init) \in Up
    BY <1>1 DEF IInv, Drawn, Up
  <2>2. c2s' \in Seq(Up)
    BY <1>4, <2>1 DEF IInv, Upstream
  <2> QED
    BY <1>1, <1>2, <2>2, ClientMoves
<1> QED
  BY <1>3, <1>4 DEF client_continues

LEMMA ClientTold ==
  ASSUME IInv, client_told
  PROVE  IInv'
<1>1. /\ c.stage = "offered" /\ UNCHANGED <<s, c2s, trouble, used>> /\ s2c # <<>> /\ s2c' = Tail(s2c)
      /\ c' = [c EXCEPT !.stage = "gave up"]
  BY DEF client_told
<1>2. /\ DOMAIN c' = ClientFields /\ c'.stage = "gave up" /\ c'.round = c.round
      /\ c'.pair = c.pair /\ c'.session_id = c.session_id
  BY <1>1 DEF IInv, Stages, ClientFields
<1>3. c2s' \in Seq(Up)
  BY <1>1 DEF IInv, Upstream
<1> QED
  BY <1>1, <1>2, <1>3, ClientMoves

-----------------------------------------------------------------------------
(* Messages altered on the way.                                              *)

LEMMA OthersUp ==
  ASSUME NEW m \in Up, NEW n \in Others(m)
  PROVE  n \in Up
<1>1. m.kind # "reply"
  BY UpKinds
<1>2. CASE m.kind = "kexinit" /\ m.cookie[1] = "c"
  BY <1>2 DEF Others, Up
<1>3. CASE m.kind = "init"
  BY <1>3 DEF Others, Up
<1>4. CASE ~(m.kind = "kexinit" /\ m.cookie[1] = "c") /\ m.kind # "init"
  BY <1>1, <1>4 DEF Others
<1> QED
  BY <1>2, <1>3, <1>4

\* An altered reply bears the server's signature or none of the host key.
LEMMA OthersDown ==
  ASSUME NEW m, Signed(m), NEW n \in Others(m)
  PROVE  Signed(n) /\ (n.kind = "reply" => m.kind = "reply")
<1>1. CASE m.kind = "kexinit" /\ m.cookie[1] = "c"
  <2>1. n.kind # "reply"
    BY <1>1, KexAssumption DEF Others
  <2> QED
    BY <2>1 DEF Signed
<1>2. CASE m.kind = "init"
  <2>1. n.kind # "reply"
    BY <1>2 DEF Others, ClientInit
  <2> QED
    BY <2>1 DEF Signed
<1>3. CASE m.kind = "reply"
  <2>1. n = [m EXCEPT !.reply.pk = "x"] \/ n = [m EXCEPT !.signature = sign("x", "x")]
    BY <1>3 DEF Others
  <2>2. /\ DOMAIN n = DOMAIN m /\ n.kind = m.kind
        /\ n.signature = m.signature \/ n.signature = sign("x", "x")
    BY <1>3, <2>1 DEF Signed
  <2> QED
    BY <1>3, <2>2 DEF Signed
<1>4. CASE ~(m.kind = "kexinit" /\ m.cookie[1] = "c") /\ m.kind # "init" /\ m.kind # "reply"
  BY <1>4 DEF Others
<1> QED
  BY <1>1, <1>2, <1>3, <1>4

LEMMA HeadReplaced ==
  ASSUME NEW M, NEW q \in Seq(M), q # <<>>, NEW x
  PROVE  LET p == <<x>> \o Tail(q) IN
         /\ p \in Seq(M \cup {x}) /\ Len(p) = Len(q) /\ p[1] = x
         /\ \A i \in 1..Len(q) : i # 1 => p[i] = q[i]
<1>1. Tail(q) \in Seq(M \cup {x}) /\ <<x>> \in Seq(M \cup {x}) /\ Len(<<x>>) = 1 /\ Len(Tail(q)) = Len(q) - 1
      /\ Len(q) \in Nat /\ Len(q) # 0
  OBVIOUS
<1> QED
  BY <1>1

LEMMA Altered ==
  ASSUME IInv, altered
  PROVE  IInv'
<1>1. UNCHANGED <<s, c, used>> /\ trouble < MaxTrouble /\ trouble' = trouble + 1
  BY DEF altered
<1>2. SameKeys
  BY <1>1 DEF SameKeys
<1>3. Stages'
  <2>1. MaxTrouble \in Nat /\ trouble \in 0..MaxTrouble
    BY KexAssumption DEF IInv, Stages
  <2>2. trouble' \in 0..MaxTrouble
    BY <1>1, <2>1
  <2> QED
    BY <1>1, <2>2 DEF IInv, Stages
<1>4. Drawn' /\ Negotiated'
  BY <1>1 DEF IInv, Drawn, Negotiated
<1>5. CASE /\ c2s # <<>> /\ s2c' = s2c
           /\ \E m \in Others(Head(c2s)) \ {Head(c2s)} : c2s' = <<m>> \o Tail(c2s)
  <2>1. PICK m \in Others(Head(c2s)) : c2s' = <<m>> \o Tail(c2s)
    BY <1>5
  <2>2. m \in Up /\ Tail(c2s) \in Seq(Up)
    BY <1>5, UpTail, OthersUp
  <2>3. Upstream'
    BY <2>1, <2>2 DEF Upstream
  <2> QED
    BY <1>2, <1>3, <1>4, <1>5, <2>3, KeysKept, DownstreamSame DEF IInv
<1>6. CASE /\ s2c # <<>> /\ c2s' = c2s
           /\ \E m \in Others(Head(s2c)) \ {Head(s2c)} : s2c' = <<m>> \o Tail(s2c)
  <2>1. PICK m \in Others(Head(s2c)) : s2c' = <<m>> \o Tail(s2c)
    BY <1>6
  <2>2. PICK M : s2c \in Seq(M)
    BY DEF IInv, Downstream
  <2>3. Head(s2c) = s2c[1] /\ 1 \in 1..Len(s2c)
    BY <1>6, <2>2, TailOf
  <2>4. Signed(m) /\ (m.kind = "reply" => s2c[1].kind = "reply")
    BY <2>1, <2>3, OthersDown DEF IInv, Downstream
  <2>5. /\ s2c' \in Seq(M \cup {m}) /\ Len(s2c') = Len(s2c) /\ s2c'[1] = m
        /\ \A i \in 1..Len(s2c) : i # 1 => s2c'[i] = s2c[i]
    BY <1>6, <2>1, <2>2, HeadReplaced
  <2>6. ASSUME NEW i \in 1..Len(s2c) PROVE Signed(s2c'[i]) /\ (s2c'[i].kind = "reply" => s2c[i].kind = "reply")
    BY <2>4, <2>5 DEF IInv, Downstream
  <2>7. ASSUME NEW i \in 1..Len(s2c') PROVE Signed(s2c[i])'
    <3>1. Signed(s2c'[i])
      BY <2>5, <2>6
    <3> QED
      BY <1>2, <3>1 DEF SameKeys, Signed, LastHash
  <2>8. ASSUME NEW i \in 1..Len(s2c'), NEW j \in 1..Len(s2c'), s2c'[i].kind = "reply", s2c'[j].kind = "reply"
        PROVE  i = j
    BY <2>5, <2>6, <2>8 DEF IInv, Downstream
  <2>9. Downstream'
    BY <2>5, <2>7, <2>8 DEF Downstream
  <2>10. Upstream'
    BY <1>6 DEF IInv, Upstream
  <2> QED
    BY <1>2, <1>3, <1>4, <2>9, <2>10, KeysKept DEF IInv
<1> QED
  BY <1>5, <1>6 DEF altered

-----------------------------------------------------------------------------
(* New keys.                                                                 *)

\* Four new members.
LEMMA FourMore ==
  ASSUME NEW U, IsFiniteSet(U), NEW a, NEW b, NEW d, NEW e,
         a \notin U, b \notin U, d \notin U, e \notin U,
         a # b, a # d, a # e, b # d, b # e, d # e
  PROVE  /\ IsFiniteSet(U \cup {a, b, d, e})
         /\ Cardinality(U \cup {a, b, d, e}) = Cardinality(U) + 4
<1>0. Cardinality(U) \in Nat
  BY FS_CardinalityType
<1>1. IsFiniteSet(U \cup {a}) /\ Cardinality(U \cup {a}) = Cardinality(U) + 1
  BY FS_AddElement
<1>2. IsFiniteSet(U \cup {a} \cup {b}) /\ Cardinality(U \cup {a} \cup {b}) = Cardinality(U) + 1 + 1
  BY <1>1, FS_AddElement
<1>3. IsFiniteSet(U \cup {a} \cup {b} \cup {d})
      /\ Cardinality(U \cup {a} \cup {b} \cup {d}) = Cardinality(U) + 1 + 1 + 1
  BY <1>2, FS_AddElement
<1>4. IsFiniteSet(U \cup {a} \cup {b} \cup {d} \cup {e})
      /\ Cardinality(U \cup {a} \cup {b} \cup {d} \cup {e}) = Cardinality(U) + 1 + 1 + 1 + 1
  BY <1>3, FS_AddElement
<1>5. U \cup {a} \cup {b} \cup {d} \cup {e} = U \cup {a, b, d, e}
  OBVIOUS
<1> QED
  BY <1>0, <1>4, <1>5

\* The keys and initial vectors of a pair: each names its secret, its hash and
\* its use.
LEMMA PairParts ==
  ASSUME NEW secret, NEW hash, NEW id, NEW agreed
  PROVE  LET p == derive_cipher_pair(secret, hash, id, agreed) IN
         /\ p.rx.cipher = agreed.c2s /\ p.tx.cipher = agreed.s2c
         /\ p.rx.key = derive_key(secret, hash, "C", id) /\ p.rx.iv = derive_key(secret, hash, "A", id)
         /\ p.tx.key = derive_key(secret, hash, "D", id) /\ p.tx.iv = derive_key(secret, hash, "B", id)
BY DEF derive_cipher_pair

LEMMA KeyParts ==
  ASSUME NEW secret, NEW hash, NEW letter, NEW id
  PROVE  LET k == derive_key(secret, hash, letter, id) IN k[1] = secret /\ k[2] = hash /\ k[3] = letter
BY DEF derive_key

LEMMA Installs ==
  ASSUME IInv, s.stage = "HybridInit", UNCHANGED <<c, trouble>>, c2s' \in Seq(Up), NEW init,
         NEW x, x = hybrid_exchange(init, s.round),
         NEW hash, hash = exchange_hash(s.i_c, s.i_s, HostKey, init, x.reply, x.secret),
         installs(x, hash),
         s2c' = Append(s2c, [kind |-> "reply", host_key |-> HostKey, reply |-> x.reply,
                             signature |-> sign(HostKey, hash)])
  PROVE  IInv'
<1> DEFINE id == IF s.round = 1 THEN hash ELSE s.session_id
           pair == derive_cipher_pair(x.secret, hash, id, s.agreed)
<1>0. Rounds \in Nat /\ Rounds # 0
  BY KexAssumption
<1>1. s.round = c.round /\ s.round \in 1..Rounds /\ Rounds \in Nat /\ c.round \in Nat
  <2>1. s.round = c.round /\ s.round \in 1..Rounds + 1 /\ s.round <= Rounds
    BY DEF IInv, Stages
  <2> QED
    BY <1>0, <2>1
<1>2. /\ DOMAIN s' = ServerFields /\ s'.round = s.round + 1 /\ s'.session_id = id /\ s'.pair = pair
      /\ s'.stage = IF s.round < Rounds THEN "KexInit" ELSE "finished"
  BY DEF IInv, Stages, ServerFields, installs
<1>3. used' = used \cup {pair.rx.key, pair.rx.iv, pair.tx.key, pair.tx.iv}
  BY DEF installs
<1>4. /\ pair.rx.cipher = s.agreed.c2s /\ pair.tx.cipher = s.agreed.s2c
      /\ pair.rx.key = derive_key(x.secret, hash, "C", id) /\ pair.rx.iv = derive_key(x.secret, hash, "A", id)
      /\ pair.tx.key = derive_key(x.secret, hash, "D", id) /\ pair.tx.iv = derive_key(x.secret, hash, "B", id)
  BY PairParts
<1>5. hash[1] = s.i_c /\ hash[6] = x.secret
  BY DEF exchange_hash
<1>6. x.secret.pq[2] = s.round
  BY DEF hybrid_exchange
<1>7. pair = derive_cipher_pair(hash[6], hash, id, ChoiceOf(hash[1]))
  <2>1. ChoiceOf(hash[1]).c2s = s.agreed.c2s /\ ChoiceOf(hash[1]).s2c = s.agreed.s2c
    BY <1>5 DEF IInv, Negotiated, Chosen, ChoiceOf
  <2> QED
    BY <1>5, <2>1 DEF derive_cipher_pair
<1>8. {pair.rx.cipher, pair.tx.cipher} \subseteq Ours
  BY <1>4 DEF IInv, Negotiated, Chosen
<1> HIDE DEF pair, id
<1>9. LastHash' = hash
  BY <1>2, <1>4, KeyParts DEF LastHash
<1>10. Stages'
  <2>1. /\ s'.round \in 1..Rounds + 1 /\ s'.round = c.round + 1
        /\ s'.stage \in {"KexInit", "finished"} /\ (s'.stage = "KexInit" => s'.round <= Rounds)
    BY <1>1, <1>2
  <2> QED
    BY <1>2, <2>1 DEF IInv, Stages
<1>11. Upstream' /\ Drawn' /\ Negotiated'
  BY <1>2 DEF IInv, Upstream, Drawn, Negotiated
<1>12. Installed'
  BY <1>2, <1>7, <1>8, <1>9 DEF Installed
<1>13. SameSession'
  BY <1>1, <1>2, <1>9 DEF IInv, SameSession, id
<1>14. Agreement'
  BY <1>1, <1>2 DEF Agreement
<1>15. Fresh'
  <2> DEFINE a == pair.rx.key
             b == pair.rx.iv
             d == pair.tx.key
             e == pair.tx.iv
  <2>1. a[1] = x.secret /\ b[1] = x.secret /\ d[1] = x.secret /\ e[1] = x.secret
    BY <1>4, KeyParts
  <2>2. a[3] = "C" /\ b[3] = "A" /\ d[3] = "D" /\ e[3] = "B"
    BY <1>4, KeyParts
  <2>3. RoundOf(a) = s.round /\ RoundOf(b) = s.round /\ RoundOf(d) = s.round /\ RoundOf(e) = s.round
    BY <1>6, <2>1 DEF RoundOf
  <2>4. used' = used \cup {a, b, d, e}
    BY <1>3
  <2> HIDE DEF a, b, d, e
  <2>5. a # b /\ a # d /\ a # e /\ b # d /\ b # e /\ d # e
    BY <2>2
  <2>6. \A k \in used : RoundOf(k) \in 1..s.round - 1
    BY DEF IInv, Fresh
  <2>7. a \notin used /\ b \notin used /\ d \notin used /\ e \notin used
    BY <1>1, <2>3, <2>6
  <2>8. IsFiniteSet(used) /\ Cardinality(used) = 4 * (s.round - 1)
    BY DEF IInv, Fresh
  <2>9. IsFiniteSet(used') /\ Cardinality(used') = Cardinality(used) + 4
    BY <2>4, <2>5, <2>7, <2>8, FourMore
  <2>10. Cardinality(used') = 4 * (s'.round - 1)
    BY <1>1, <1>2, <2>8, <2>9
  <2>11. \A k \in used' : RoundOf(k) \in 1..s'.round - 1
    BY <1>1, <1>2, <2>3, <2>4, <2>6
  <2> QED
    BY <2>9, <2>10, <2>11 DEF Fresh, RoundOf
<1>16. Downstream'
  <2> DEFINE m == [kind |-> "reply", host_key |-> HostKey, reply |-> x.reply, signature |-> sign(HostKey, hash)]
             n == Len(s2c)
  <2>1. PICK M : s2c \in Seq(M)
    BY DEF IInv, Downstream
  <2>2. /\ m.kind = "reply" /\ m.signature = sign(HostKey, hash)
        /\ DOMAIN m = {"kind", "host_key", "reply", "signature"}
    OBVIOUS
  <2>3. s2c' = Append(s2c, m)
    OBVIOUS
  <2> HIDE DEF m
  <2>4. s2c \in Seq(M \cup {m})
    BY <2>1
  <2>5. /\ s2c' \in Seq(M \cup {m}) /\ Len(s2c') = n + 1 /\ s2c'[n + 1] = m /\ n \in Nat
        /\ \A i \in 1..n : s2c'[i] = s2c[i]
    BY <2>3, <2>4
  <2> HIDE DEF n
  <2>6. ASSUME NEW i \in 1..n PROVE s2c'[i].kind # "reply"
    <3>1. Signed(s2c[i]) /\ s2c'[i] = s2c[i]
      BY <2>5 DEF IInv, Downstream, n
    <3>2. s.round # c.round + 1
      BY <1>1
    <3> QED
      BY <3>1, <3>2 DEF Signed
  <2>7. ASSUME NEW i \in 1..n + 1, s2c'[i].kind = "reply" PROVE i = n + 1 /\ s2c'[i] = m
    BY <2>5, <2>6, <2>7
  <2>8. ASSUME NEW i \in 1..n + 1 PROVE Signed(s2c[i])'
    BY <1>1, <1>2, <1>9, <2>2, <2>7 DEF Signed
  <2>9. ASSUME NEW i \in 1..n + 1, NEW j \in 1..n + 1, s2c'[i].kind = "reply", s2c'[j].kind = "reply" PROVE i = j
    BY <2>7, <2>9
  <2> QED
    BY <2>5, <2>8, <2>9 DEF Downstream
<1> QED
  BY <1>10, <1>11, <1>12, <1>13, <1>14, <1>15, <1>16 DEF IInv

LEMMA Replies ==
  ASSUME IInv, server_replies
  PROVE  IInv'
<1> DEFINE m == Head(c2s)
           x == hybrid_exchange(m.init, s.round)
           hash == exchange_hash(s.i_c, s.i_s, HostKey, m.init, x.reply, x.secret)
<1>1. s.stage = "HybridInit" /\ c' = c /\ c2s' \in Seq(Up)
  BY UpTail DEF server_replies
<1>2. ASSUME NEW why, reject(why), used' = used,
             trouble' = trouble \/ (trouble < MaxTrouble /\ trouble' = trouble + 1)
      PROVE  IInv'
  <2>1. MaxTrouble \in Nat /\ trouble \in 0..MaxTrouble
    BY KexAssumption DEF IInv, Stages
  <2>2. trouble' \in 0..MaxTrouble
    BY <1>2, <2>1
  <2> QED
    BY <1>1, <1>2, <2>2, Rejecting
<1>3. CASE /\ installs(x, hash) /\ trouble' = trouble
           /\ s2c' = Append(s2c, [kind |-> "reply", host_key |-> HostKey, reply |-> x.reply,
                                  signature |-> sign(HostKey, hash)])
  BY <1>1, <1>3, Installs
<1> QED
  BY <1>2, <1>3 DEF server_replies

LEMMA SignatureBinds ==
  ASSUME NEW h1, NEW h2, NEW g, g = sign(HostKey, h1) \/ g = sign("x", "x"),
         g = [mldsa |-> <<HostKey, h2>>, ed25519 |-> <<HostKey, h2>>]
  PROVE  h1 = h2
<1>1. g.mldsa[1] = HostKey /\ g.mldsa[2] = h2 /\ HostKey # "x"
  BY DEF HostKey
<1>2. CASE g = sign(HostKey, h1)
  <2>1. g.mldsa[2] = h1
    BY <1>2 DEF sign
  <2> QED
    BY <1>1, <2>1
<1>3. CASE g = sign("x", "x")
  <2>1. g.mldsa[1] = "x"
    BY <1>3 DEF sign
  <2> QED
    BY <1>1, <2>1
<1> QED
  BY <1>2, <1>3

LEMMA ClientVerifies ==
  ASSUME IInv, client_verifies
  PROVE  IInv'
<1> DEFINE m == Head(s2c)
           secret == [pq |-> m.reply.ct, cl |-> <<c.init.pk, m.reply.pk>>]
           hash == <<c.i_c, c.i_s, HostKey, c.init, m.reply, secret>>
           id == IF c.round = 1 THEN hash ELSE c.session_id
           good == m.kind = "reply" /\ m.host_key = HostKey /\ m.reply.ct[1] = c.init.ek
                   /\ m.signature = [mldsa |-> <<HostKey, hash>>, ed25519 |-> <<HostKey, hash>>]
           tx == [cipher |-> Choice(c.i_c.enc_c2s, Ours),
                  key |-> <<secret, hash, "C", id>>, iv |-> <<secret, hash, "A", id>>]
           rx == [cipher |-> Choice(c.i_c.enc_s2c, Ours),
                  key |-> <<secret, hash, "D", id>>, iv |-> <<secret, hash, "B", id>>]
<1>1. c.stage = "waiting" /\ s2c # <<>> /\ s2c' = Tail(s2c) /\ UNCHANGED <<s, c2s, trouble, used>>
  BY DEF client_verifies
<1>2. CASE ~good
  <2>1. c' = [c EXCEPT !.stage = "gave up"]
    BY <1>2 DEF client_verifies
  <2>2. /\ DOMAIN c' = ClientFields /\ c'.stage = "gave up" /\ c'.round = c.round
        /\ c'.pair = c.pair /\ c'.session_id = c.session_id
    BY <2>1 DEF IInv, Stages, ClientFields
  <2>3. c2s' \in Seq(Up)
    BY <1>1 DEF IInv, Upstream
  <2> HIDE DEF m, secret, hash, id, good
  <2> QED
    BY <1>1, <2>2, <2>3, ClientMoves
<1>3. CASE good
  <2>1. c' = [c EXCEPT !.stage = IF c.round < Rounds THEN "start" ELSE "finished",
                       !.round = @ + 1, !.session_id = id, !.pair = [tx |-> tx, rx |-> rx]]
    BY <1>3 DEF client_verifies, Ours
  <2>2. hash[1] = c.i_c /\ hash[6] = secret
    OBVIOUS
  <2>3. /\ m.kind = "reply"
        /\ m.signature = [mldsa |-> <<HostKey, hash>>, ed25519 |-> <<HostKey, hash>>]
    BY <1>3
  <2>4. /\ tx = [cipher |-> Choice(c.i_c.enc_c2s, Ours),
                 key |-> <<secret, hash, "C", id>>, iv |-> <<secret, hash, "A", id>>]
        /\ rx = [cipher |-> Choice(c.i_c.enc_s2c, Ours),
                 key |-> <<secret, hash, "D", id>>, iv |-> <<secret, hash, "B", id>>]
    OBVIOUS
  <2>5. id = IF c.round = 1 THEN hash ELSE c.session_id
    OBVIOUS
  <2>6. m = Head(s2c)
    OBVIOUS
  <2> HIDE DEF m, secret, hash, id, good, tx, rx
  <2>7. PICK M : s2c \in Seq(M)
    BY DEF IInv, Downstream
  <2>8. m = s2c[1] /\ 1 \in 1..Len(s2c)
    BY <1>1, <2>6, <2>7, TailOf
  <2>9. /\ s.round = c.round + 1
        /\ m.signature = sign(HostKey, LastHash) \/ m.signature = sign("x", "x")
    BY <2>3, <2>8 DEF IInv, Downstream, Signed
  <2>10. LastHash = hash
    BY <2>3, <2>9, SignatureBinds
  <2>11. Rounds \in Nat /\ c.round \in 1..Rounds
    <3>1. Rounds \in Nat
      BY KexAssumption
    <3>2. c.round \in 1..Rounds + 1 /\ c.round <= Rounds
      BY <1>1 DEF IInv, Stages
    <3> QED
      BY <3>1, <3>2
  <2>12. id = s.session_id
    BY <2>5, <2>9, <2>10 DEF IInv, SameSession
  <2>13. /\ DOMAIN c' = ClientFields /\ c'.round = c.round + 1 /\ c'.session_id = id
         /\ c'.stage = IF c.round < Rounds THEN "start" ELSE "finished"
         /\ c'.pair = [tx |-> tx, rx |-> rx]
    BY <2>1 DEF IInv, Stages, ClientFields
  <2>14. Stages'
    <3>1. /\ c'.round \in 1..Rounds + 1 /\ c'.round = s.round
          /\ c'.stage \in {"start", "finished"} /\ (c'.stage = "start" => c'.round <= Rounds)
      BY <2>9, <2>11, <2>13
    <3> QED
      BY <1>1, <2>13, <3>1 DEF IInv, Stages
  <2>15. Upstream' /\ Drawn' /\ Negotiated'
    BY <1>1, <2>13 DEF IInv, Upstream, Drawn, Negotiated
  <2>16. LastHash' = LastHash
    BY <1>1 DEF LastHash
  <2>17. Installed' /\ Fresh'
    BY <1>1, <2>16 DEF IInv, Installed, Fresh
  <2>18. s.round = c'.round /\ s'.round # c'.round + 1
    BY <1>1, <2>9, <2>11, <2>13
  <2>19. SameSession'
    BY <1>1, <2>12, <2>13, <2>18 DEF SameSession
  <2>20. Agreement'
    <3>1. s.round > 1
      BY <2>9, <2>11
    <3>2. s.pair = derive_cipher_pair(hash[6], hash, s.session_id, ChoiceOf(hash[1]))
      BY <2>10, <3>1 DEF IInv, Installed
    <3>3. s.pair.rx = tx /\ s.pair.tx = rx
      BY <2>2, <2>4, <2>12, <3>2 DEF derive_cipher_pair, derive_key, ChoiceOf
    <3> QED
      BY <1>1, <2>13, <3>3 DEF Agreement
  <2>21. Downstream'
    <3>1. /\ s2c' \in Seq(M)
          /\ \A i \in 1..Len(s2c') : s2c'[i] = s2c[i + 1] /\ i + 1 \in 1..Len(s2c)
      BY <1>1, <2>7, TailOf
    <3>2. ASSUME NEW i \in 1..Len(s2c') PROVE s2c'[i].kind # "reply"
      <4>1. i + 1 # 1
        BY <2>7, <3>1
      <4> QED
        BY <2>3, <2>8, <3>1, <4>1 DEF IInv, Downstream
    <3> QED
      BY <3>1, <3>2 DEF Downstream, Signed
  <2> QED
    BY <2>14, <2>15, <2>17, <2>19, <2>20, <2>21 DEF IInv
<1> QED
  BY <1>2, <1>3

-----------------------------------------------------------------------------
(* The theorems.                                                             *)

LEMMA Initially == Init => IInv
<1> SUFFICES ASSUME Init PROVE IInv
  OBVIOUS
<1>0. Rounds \in Nat /\ Rounds # 0 /\ MaxTrouble \in Nat
  BY KexAssumption
<1>1. /\ s.stage = "KexInit" /\ s.round = 1 /\ DOMAIN s = ServerFields
      /\ c.stage = "start" /\ c.round = 1 /\ DOMAIN c = ClientFields
      /\ c2s = <<>> /\ s2c = <<>> /\ trouble = 0 /\ used = {}
  BY DEF Init, ServerFields, ClientFields
<1>2. Stages
  BY <1>0, <1>1 DEF Stages
<1>3. Upstream /\ Drawn /\ Negotiated /\ Installed /\ SameSession /\ Agreement
  BY <1>1 DEF Upstream, Drawn, Negotiated, Installed, SameSession, Agreement
<1>4. Downstream
  <2>1. s2c \in Seq({}) /\ Len(s2c) = 0
    BY <1>1
  <2> QED
    BY <2>1 DEF Downstream
<1>5. Fresh
  BY <1>1, FS_EmptySet DEF Fresh
<1> QED
  BY <1>2, <1>3, <1>4, <1>5 DEF IInv

LEMMA Stutters ==
  ASSUME IInv, UNCHANGED vars
  PROVE  IInv'
<1>1. SameKeys /\ s2c' = s2c
  BY DEF vars, SameKeys
<1>2. Stages' /\ Upstream' /\ Drawn' /\ Negotiated'
  BY DEF vars, IInv, Stages, Upstream, Drawn, Negotiated
<1> QED
  BY <1>1, <1>2, KeysKept, DownstreamSame DEF IInv

LEMMA Steps == IInv /\ [Next]_vars => IInv'
<1> SUFFICES ASSUME IInv, [Next]_vars PROVE IInv'
  OBVIOUS
<1>1. CASE Server
  BY <1>1, Kexinit, Negotiates, Skips, Replies, TimesOut DEF Server
<1>2. CASE Client
  BY <1>2, ClientOffers, ClientContinues, ClientVerifies, ClientTold DEF Client
<1>3. CASE altered
  BY <1>3, Altered
<1>4. CASE Over \/ UNCHANGED vars
  BY <1>4, Stutters DEF Over
<1> QED
  BY <1>1, <1>2, <1>3, <1>4 DEF Next

\* The two ends are never more than one exchange apart, the signature under way
\* is of what the server hashed, and every key carries its round (run_hybrid,
\* complete_rekey_reply).
THEOREM Invariance == Spec => []IInv
  BY Initially, Steps, PTL DEF Spec

\* Whatever a network alters before the client has its first keys, and however
\* many exchanges follow, a client that accepted the last one uses the server's
\* keys and the ciphers of its own preference (negotiate, exchange_hash,
\* derive_cipher_pair).
THEOREM EndsAgree == Spec => []Agreement
<1>1. IInv => Agreement
  BY DEF IInv
<1> QED
  BY <1>1, Invariance, PTL

\* No key or initial vector serves twice on a connection of any number of
\* exchanges, and each is of a cipher the server offers (hybrid_exchange,
\* derive_cipher_pair).
THEOREM KeysAreFresh == Spec => []KeysFresh
<1>1. IInv => KeysFresh
  BY DEF IInv, Stages, Installed, Fresh, KeysFresh, TypeOK, KeysNeverReused, Ours
<1> QED
  BY <1>1, Invariance, PTL
=============================================================================
