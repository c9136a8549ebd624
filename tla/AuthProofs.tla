------------------------------ MODULE AuthProofs ------------------------------
(* Theorems about Auth, for all key files, requests, clocks and budgets: who  *)
(* gets a session, who is never refused one, what the files load to, and what *)
(* the audit log says.                                                        *)
EXTENDS Auth, WellFoundedInduction, TLAPS

-----------------------------------------------------------------------------
(* The constants, and the least element of a set of numbers.                 *)

LEMMA Constants ==
  /\ MAX_AUTH_ATTEMPTS \in Nat /\ MAX_AUTH_ATTEMPTS > 0
  /\ Times \subseteq Int
  /\ \A u \in Setups : DOMAIN u.keyfile \subseteq Nat /\ DOMAIN u.cafile \subseteq Nat
  /\ \A q \in Requests : q.cert.body.after \in Nat /\ q.cert.body.before \in Nat
  BY AuthAssumption

LEMMA LeastNumber ==
  ASSUME NEW T, T \subseteq Nat, T # {}
  PROVE  \E m \in T : \A k \in T : m <= k
<1> DEFINE R == {ss \in Nat \X Nat : ss[1] < ss[2]}
<1>1. IsWellFoundedOn(R, Nat)
  BY NatLessThanWellFounded DEF OpToRel
<1>2. PICK m \in T : \A k \in T : ~ (<<k, m>> \in R)
  <2> HIDE DEF R
  <2> QED
    BY <1>1, WFMin
<1>3. ASSUME NEW k \in T PROVE m <= k
  <2>1. <<k, m>> \in Nat \X Nat /\ <<k, m>>[1] = k /\ <<k, m>>[2] = m
    OBVIOUS
  <2>2. ~(k < m)
    BY <1>2, <2>1
  <2> QED
    BY <2>2
<1> QED
  BY <1>3

LEMMA MinIsMember == ASSUME NEW T, T \subseteq Nat, T # {} PROVE Min(T) \in T
  BY LeastNumber DEF Min

-----------------------------------------------------------------------------
(* What a file loads to.                                                     *)

\* A load without an error has met no line that is refused, and one that says
\* something.
LEMMA LoadWithoutError ==
  ASSUME NEW lines, NEW algorithm, DOMAIN lines \subseteq Nat,
         algorithm \in {KEY_ALGORITHM, CA_ALGORITHM},
         parse_key_lines(lines, algorithm).error = "none"
  PROVE  /\ live(lines) # {}
         /\ \A i \in live(lines) : Sound(lines[i], algorithm)
         /\ parse_key_lines(lines, algorithm).keys = {lines[i].key : i \in live(lines)}
<1> DEFINE bad == {i \in DOMAIN lines : line_error(lines[i], algorithm) # "none"}
<1>1. bad # {} => line_error(lines[Min(bad)], algorithm) # "none"
  <2> SUFFICES ASSUME bad # {} PROVE Min(bad) \in bad
    OBVIOUS
  <2>1. bad \subseteq Nat
    OBVIOUS
  <2> HIDE DEF bad
  <2> QED
    BY <2>1, MinIsMember
<1>2. bad = {} /\ live(lines) # {}
  BY <1>1 DEF parse_key_lines
<1>3. ASSUME NEW i \in live(lines) PROVE Sound(lines[i], algorithm)
  <2>1. line_error(lines[i], algorithm) = "none" /\ ~skipped(lines[i])
    BY <1>2 DEF live
  <2> QED
    BY <2>1 DEF line_error, Sound
<1> QED
  BY <1>2, <1>3 DEF parse_key_lines
-----------------------------------------------------------------------------
(* The inductive invariant, in parts.                                        *)

Names ==
  {"none"} \cup {q.key : q \in Requests} \cup {q.user : q \in Requests}
  \cup {q.cert.body.key : q \in Requests} \cup {q.cert.body.ca : q \in Requests}

Identity ==
  [fingerprint : Names, certificate : BOOLEAN, ca : Names, principal : Names, pty : BOOLEAN]

Reasons ==
  {"none", "io", "too-many-auth-attempts", "expected-userauth-request",
   "malformed-userauth-request", "unexpected-service-name"}

Entry == [event : {"auth.failed", "auth.succeeded"}, failure_count : Nat, who : Identity]

ConnType ==
  [stage : {"none", "UserAuth", "Session", "Closed"}, attempts : Nat, failures : Nat,
   reason : Reasons, who : Identity]

Typed ==
  /\ conn \in ConnType
  /\ audit \in Seq(Entry)

\* A connection is served only by a server that loaded its files, and starts
\* with nothing spent.
Served ==
  /\ conn.stage = "none" <=> server # "ready"
  /\ conn.stage = "none" => heard = [v \in Verdicts |-> 0]

\* The two counters say what was heard: why the budget they run out of is the
\* one the requests spend.
Counted ==
  /\ heard \in [Verdicts -> Nat]
  /\ conn.attempts = Unsuccessful /\ conn.failures = heard["failed"]

IInv ==
  /\ TypeOK /\ Typed /\ Served /\ Counted /\ LoadAllOrNothing
  /\ BudgetExact /\ AuditExact /\ AuthSound /\ IdentityProven

-----------------------------------------------------------------------------
(* Who is resolved.                                                          *)

\* A server that is ready, asked with a request that parses.
Asked(q) ==
  /\ q \in Requests /\ parse_userauth_request(q) = "publickey"
  /\ server = "ready" /\ LoadAllOrNothing /\ clock \in Times /\ setup \in Setups

LEMMA AskedAlgorithm ==
  ASSUME NEW q, Asked(q)
  PROVE  q.algorithm \in {KEY_ALGORITHM, CERT_ALGORITHM}
  BY DEF Asked, parse_userauth_request

\* What a certificate that is not refused says.
LEMMA NotRefused ==
  ASSUME NEW cert, NEW user, NEW now \in Int, cert.body.after \in Nat, cert.body.before \in Nat
  PROVE  (refusal(cert, user, now) = "none") <=>
           /\ parsed(cert) /\ cert.body.ca \in cas
           /\ cert.algorithm = CA_ALGORITHM /\ composite_verify(cert.body.ca, cert)
           /\ cert.body.role = "user" /\ now \in Nat
           /\ cert.body.after <= now /\ now < cert.body.before
           /\ listed(cert.body.principals, user) /\ cert.body.critical = <<>>
  BY DEF refusal

\* A proven request is an entitled one.
LEMMA ProvenEntitled ==
  ASSUME NEW q, Asked(q), q.signed, proven(q, resolve(q))
  PROVE  Entitled(q, clock)
<1>1. CASE q.algorithm = KEY_ALGORITHM
  <2>1. q.key \in keys
    BY <1>1 DEF proven, resolve, lookup, Nobody
  <2>2. \E i \in live(setup.keyfile) : setup.keyfile[i].key = q.key
    BY <2>1 DEF Asked, LoadAllOrNothing
  <2>3. resolve(q).key = q.key
    BY <1>1, <2>1 DEF resolve, lookup
  <2> QED
    BY <1>1, <2>2, <2>3 DEF Entitled, proven, verify_auth_signature
<1>2. CASE q.algorithm = CERT_ALGORITHM
  <2>1. /\ refusal(q.cert, q.user, clock) = "none"
        /\ resolve(q).key = q.cert.body.key
    BY <1>2 DEF proven, resolve, Nobody, candidate_of, KEY_ALGORITHM, CERT_ALGORITHM
  <2>2. q.cert.body.after \in Nat /\ q.cert.body.before \in Nat /\ clock \in Int
    BY Constants DEF Asked
  <2>3. /\ parsed(q.cert) /\ q.cert.body.ca \in cas
        /\ q.cert.algorithm = CA_ALGORITHM /\ composite_verify(q.cert.body.ca, q.cert)
        /\ q.cert.body.role = "user" /\ clock \in Nat
        /\ q.cert.body.after <= clock /\ clock < q.cert.body.before
        /\ listed(q.cert.body.principals, q.user) /\ q.cert.body.critical = <<>>
    BY <2>1, <2>2, NotRefused
  <2>4. PICK i \in live(setup.cafile) : setup.ca /\ setup.cafile[i].key = q.cert.body.ca
    BY <2>3 DEF Asked, LoadAllOrNothing
  <2>5. q.user \in Range(q.cert.body.principals)
    BY <2>3 DEF listed, Range
  <2>6. Certified(q.cert, q.user, clock)
    BY <2>3, <2>4, <2>5 DEF Certified, composite_verify
  <2> QED
    BY <1>2, <2>1, <2>6 DEF Entitled, proven, verify_auth_signature, KEY_ALGORITHM, CERT_ALGORITHM
<1> QED
  BY <1>1, <1>2, AskedAlgorithm

\* An entitled request, with a regular certificate if it brings one, is proven.
LEMMA EntitledProven ==
  ASSUME NEW q, Asked(q), Entitled(q, clock), q.algorithm = CERT_ALGORITHM => Regular(q.cert)
  PROVE  proven(q, resolve(q))
<1>1. CASE q.algorithm = KEY_ALGORITHM
  <2>1. q.key \in keys
    BY <1>1 DEF Entitled, Asked, LoadAllOrNothing
  <2> QED
    BY <1>1, <2>1 DEF Entitled, proven, resolve, lookup, verify_auth_signature
<1>2. CASE q.algorithm = CERT_ALGORITHM
  <2>1. /\ Certified(q.cert, q.user, clock)
        /\ q.signature.by = q.cert.body.key /\ q.cert.body.key \notin WeakKeys
        /\ q.signature.over = auth_signed_data(SessionId, q)
    BY <1>2 DEF Entitled, KEY_ALGORITHM, CERT_ALGORITHM
  <2>2. q.cert.body.after \in Nat /\ q.cert.body.before \in Nat /\ clock \in Int
    BY Constants DEF Asked
  <2>3. PICK i \in live(setup.cafile) :
          /\ setup.ca /\ setup.cafile[i].key = q.cert.body.ca
          /\ q.cert.mldsa.by = setup.cafile[i].key /\ q.cert.ed25519.by = setup.cafile[i].key
    BY <2>1 DEF Certified
  <2>4. q.cert.body.ca \in cas
    BY <2>3 DEF Asked, LoadAllOrNothing
  <2>5. parsed(q.cert)
    BY <1>2, <2>1 DEF Regular, parsed
  <2>6. listed(q.cert.body.principals, q.user)
    BY <2>1 DEF Certified, listed, Range
  <2>7. refusal(q.cert, q.user, clock) = "none"
    BY <2>1, <2>2, <2>3, <2>4, <2>5, <2>6, NotRefused DEF Certified, composite_verify
  <2> QED
    BY <1>2, <2>1, <2>7 DEF proven, resolve, candidate_of, verify_auth_signature,
                            KEY_ALGORITHM, CERT_ALGORITHM
<1> QED
  BY <1>1, <1>2, AskedAlgorithm

\* The server resolves exactly the keys the files let in, none of them weak.
LEMMA ResolvesRecognised ==
  ASSUME NEW q, Asked(q)
  PROVE  /\ resolve(q).known \in BOOLEAN
         /\ resolve(q).known <=> Recognised(q, clock)
         /\ resolve(q).known => resolve(q).key = KeyOf(q) /\ KeyOf(q) \notin WeakKeys
<1>1. CASE q.algorithm = KEY_ALGORITHM
  <2>1. q.key \in keys <=> \E i \in live(setup.keyfile) : setup.keyfile[i].key = q.key
    BY DEF Asked, LoadAllOrNothing
  <2>2. q.key \in keys => q.key \notin WeakKeys
    BY <2>1 DEF Asked, LoadAllOrNothing, Sound
  <2>3. CASE q.key \in keys
    BY <1>1, <2>1, <2>2, <2>3 DEF resolve, lookup, Recognised, KeyOf
  <2>4. CASE q.key \notin keys
    BY <1>1, <2>1, <2>4 DEF resolve, lookup, Nobody, Recognised
  <2> QED
    BY <2>3, <2>4
<1>2. CASE q.algorithm = CERT_ALGORITHM
  <2>0. q.algorithm # KEY_ALGORITHM
    BY <1>2 DEF KEY_ALGORITHM, CERT_ALGORITHM
  <2>1. q.cert.body.after \in Nat /\ q.cert.body.before \in Nat /\ clock \in Int
    BY Constants DEF Asked
  <2>2. parsed(q.cert) <=> Regular(q.cert) /\ q.cert.body.key \notin WeakKeys
    BY DEF parsed, Regular
  <2>3. q.cert.body.ca \in cas <=>
          setup.ca /\ \E i \in live(setup.cafile) : setup.cafile[i].key = q.cert.body.ca
    BY DEF Asked, LoadAllOrNothing
  <2>4. listed(q.cert.body.principals, q.user) <=> q.user \in Range(q.cert.body.principals)
    BY DEF listed, Range
  <2>5. Certified(q.cert, q.user, clock) <=>
          /\ q.cert.body.ca \in cas
          /\ q.cert.algorithm = CA_ALGORITHM /\ composite_verify(q.cert.body.ca, q.cert)
          /\ q.cert.body.role = "user" /\ clock \in Nat
          /\ q.cert.body.after <= clock /\ clock < q.cert.body.before
          /\ listed(q.cert.body.principals, q.user) /\ q.cert.body.critical = <<>>
    BY <2>3, <2>4, Zenon DEF Certified, composite_verify
  <2>6. refusal(q.cert, q.user, clock) = "none" <=> Recognised(q, clock)
    BY <2>0, <2>1, <2>2, <2>5, NotRefused DEF Recognised
  <2>7. CASE refusal(q.cert, q.user, clock) = "none"
    BY <2>0, <2>2, <2>6, <2>7 DEF resolve, candidate_of, Recognised, KeyOf
  <2>8. CASE refusal(q.cert, q.user, clock) # "none"
    BY <2>0, <2>6, <2>8 DEF resolve, Nobody
  <2> QED
    BY <2>7, <2>8
<1> QED
  BY <1>1, <1>2, AskedAlgorithm

\* What the server answers is what the request was worth.
LEMMA VerdictOfAsked ==
  ASSUME NEW q, Asked(q)
  PROVE  /\ ~q.signed => Verdict(q, clock) = IF resolve(q).known THEN "known" ELSE "failed"
         /\ q.signed /\ proven(q, resolve(q)) => Verdict(q, clock) = "proof"
         /\ q.signed /\ ~proven(q, resolve(q)) => Verdict(q, clock) = "failed"
<1>1. parse_userauth_request(q) = "publickey"
  BY DEF Asked
<1>2. proven(q, resolve(q)) <=> Recognised(q, clock) /\ SignsIt(q)
  BY ResolvesRecognised, Zenon DEF proven, verify_auth_signature, SignsIt
<1> QED
  BY <1>1, <1>2, ResolvesRecognised DEF Verdict

LEMMA NoOneIdentity == NoOne \in Identity /\ NoOne.certificate = FALSE
<1>1. "none" \in Names
  BY DEF Names
<1> QED
  BY <1>1 DEF NoOne, Identity

LEMMA ListedIdentity ==
  ASSUME NEW w, NEW k \in Names, w = [NoOne EXCEPT !.fingerprint = k, !.pty = TRUE]
  PROVE  w \in Identity /\ w.fingerprint = k /\ w.certificate = FALSE /\ w.pty = TRUE
  BY NoOneIdentity DEF Identity

\* The identity that goes with a proven request is the signer's own.
LEMMA ProvenIdentity ==
  ASSUME NEW q, Asked(q), proven(q, resolve(q))
  PROVE  LET who == resolve(q).who IN
         /\ who \in Identity
         /\ who.fingerprint = q.signature.by
         /\ who.certificate = (q.algorithm = CERT_ALGORITHM)
         /\ who.certificate => who.principal = q.user /\ who.ca = q.cert.body.ca
         /\ who.pty = (who.certificate => permit_pty(q.cert))
<1> DEFINE who == resolve(q).who
<1>0. q.key \in Names /\ q.user \in Names /\ q.cert.body.key \in Names /\ q.cert.body.ca \in Names
  BY DEF Names, Asked
<1>1. CASE q.algorithm = KEY_ALGORITHM
  <2>1. resolve(q) = [known |-> TRUE, key |-> q.key,
                      who |-> [NoOne EXCEPT !.fingerprint = q.key, !.pty = TRUE]]
    BY <1>1 DEF proven, resolve, lookup, Nobody
  <2>2. q.signature.by = q.key
    BY <2>1 DEF proven, verify_auth_signature
  <2>3. who \in Identity /\ who.fingerprint = q.key /\ who.certificate = FALSE /\ who.pty = TRUE
    <3>1. who = [NoOne EXCEPT !.fingerprint = q.key, !.pty = TRUE]
      BY <2>1
    <3> HIDE DEF who
    <3> QED
      BY <1>0, <3>1, ListedIdentity
  <2>4. q.algorithm # CERT_ALGORITHM
    BY <1>1 DEF KEY_ALGORITHM, CERT_ALGORITHM
  <2> QED
    BY <2>2, <2>3, <2>4, Zenon
<1>2. CASE q.algorithm = CERT_ALGORITHM
  <2>1. resolve(q) = candidate_of(q.cert, q.user)
    BY <1>2 DEF proven, resolve, Nobody, KEY_ALGORITHM, CERT_ALGORITHM
  <2>2. q.signature.by = q.cert.body.key
    BY <2>1 DEF proven, verify_auth_signature, candidate_of
  <2>3. PICK b \in BOOLEAN : b = permit_pty(q.cert)
    BY Zenon DEF permit_pty
  <2>4. who = [fingerprint |-> q.cert.body.key, certificate |-> TRUE, ca |-> q.cert.body.ca,
               principal |-> q.user, pty |-> b]
    BY <2>1, <2>3 DEF candidate_of
  <2>5. /\ who \in Identity
        /\ who.fingerprint = q.cert.body.key /\ who.certificate = TRUE
        /\ who.principal = q.user /\ who.ca = q.cert.body.ca
        /\ who.pty = b
    <3> HIDE DEF who
    <3> QED
      BY <1>0, <2>3, <2>4 DEF Identity
  <2> QED
    BY <1>2, <2>2, <2>3, <2>5, Zenon
<1> QED
  BY <1>1, <1>2, AskedAlgorithm
-----------------------------------------------------------------------------
(* The steps, one lemma per kind.                                            *)

LEMMA InvInit == Init => IInv
<1> SUFFICES ASSUME Init PROVE IInv
  OBVIOUS
<1>1. conn = [stage |-> "none", attempts |-> 0, failures |-> 0, reason |-> "none", who |-> NoOne]
      /\ audit = <<>> /\ server = "starting" /\ heard = [v \in Verdicts |-> 0]
  BY DEF Init
<1>2. TypeOK
  BY <1>1, Constants DEF Init, TypeOK
<1>3. Typed
  BY <1>1, NoOneIdentity DEF Typed, ConnType, Reasons
<1>4. Served /\ LoadAllOrNothing /\ AuthSound /\ IdentityProven
  BY <1>1 DEF Served, LoadAllOrNothing, AuthSound, IdentityProven
<1>5. /\ heard \in [Verdicts -> Nat]
      /\ heard["failed"] = 0 /\ heard["known"] = 0 /\ heard["proof"] = 0 /\ heard["rejected"] = 0
  BY <1>1 DEF Verdicts
<1>6. Counted /\ BudgetExact /\ AuditExact
  BY <1>1, <1>5, Constants DEF Counted, BudgetExact, AuditExact, Unsuccessful
<1> QED
  BY <1>2, <1>3, <1>4, <1>6 DEF IInv

LEMMA NoErrorIsReady ==
  ASSUME NEW lines, NEW algorithm PROVE parse_key_lines(lines, algorithm).error # "ready"
  BY DEF parse_key_lines, line_error

\* The load: all of both files, or nothing.
LEMMA InvLoad == IInv /\ load => IInv'
<1> SUFFICES ASSUME IInv, load PROVE IInv'
  OBVIOUS
<1> DEFINE k == parse_key_lines(setup.keyfile, KEY_ALGORITHM)
           a == parse_key_lines(setup.cafile, CA_ALGORITHM)
<1>0. /\ server = "starting" /\ UNCHANGED <<setup, clock, audit, last, heard>>
      /\ conn.stage = "none"
  BY DEF load, IInv, Served
<1>heard. /\ heard["failed"] = 0 /\ heard["known"] = 0 /\ heard["proof"] = 0 /\ heard["rejected"] = 0
       /\ conn.attempts = 0 /\ conn.failures = 0
  BY <1>0 DEF IInv, Served, Counted, Unsuccessful, Verdicts
<1>1. CASE UNCHANGED <<keys, cas, conn>> /\ server' # "ready"
  BY <1>0, <1>1 DEF IInv, TypeOK, Typed, Served, Counted, Unsuccessful, LoadAllOrNothing, BudgetExact,
                    AuditExact, AuthSound, IdentityProven
<1>2. CASE /\ k.error = "none" /\ (setup.ca => a.error = "none") /\ server' = "ready"
           /\ keys' = k.keys /\ cas' = IF setup.ca THEN a.keys ELSE {}
           /\ conn' = [conn EXCEPT !.stage = "UserAuth"]
  <2>1. LoadAllOrNothing'
    <3>1. DOMAIN setup.keyfile \subseteq Nat /\ DOMAIN setup.cafile \subseteq Nat
      BY Constants DEF IInv, TypeOK
    <3>2. /\ live(setup.keyfile) # {}
          /\ \A i \in live(setup.keyfile) : Sound(setup.keyfile[i], KEY_ALGORITHM)
          /\ keys' = {setup.keyfile[i].key : i \in live(setup.keyfile)}
      BY <1>2, <3>1, LoadWithoutError
    <3>3. setup.ca => /\ \A i \in live(setup.cafile) : Sound(setup.cafile[i], CA_ALGORITHM)
                      /\ cas' = {setup.cafile[i].key : i \in live(setup.cafile)}
      BY <1>2, <3>1, LoadWithoutError
    <3>4. ~setup.ca => cas' = {}
      BY <1>2
    <3> HIDE DEF k, a
    <3> QED
      BY <1>0, <3>2, <3>3, <3>4 DEF LoadAllOrNothing
  <2>2. /\ Typed' /\ conn'.stage = "UserAuth" /\ conn'.attempts = 0 /\ conn'.failures = 0
        /\ conn'.reason = conn.reason
    BY <1>0, <1>heard, <1>2 DEF IInv, Typed, ConnType
  <2>3. TypeOK'
    BY <1>0, <2>2, Constants DEF IInv, TypeOK
  <2>4. Served' /\ AuthSound' /\ IdentityProven'
    BY <1>2, <2>2 DEF Served, AuthSound, IdentityProven
  <2>5. Counted' /\ BudgetExact' /\ AuditExact'
    BY <1>0, <1>heard, <2>2 DEF IInv, Counted, Unsuccessful, BudgetExact, AuditExact
  <2> QED
    BY <2>1, <2>2, <2>3, <2>4, <2>5 DEF IInv
<1>3. k.error # "ready" /\ a.error # "ready"
  BY NoErrorIsReady
<1> QED
  <2> HIDE DEF k, a
  <2> QED
    BY <1>1, <1>2, <1>3 DEF load, k, a
\* What stays as it is when only the connection moves out of UserAuth, or when
\* nothing it depends on moves.
LEMMA LoadKept ==
  ASSUME LoadAllOrNothing, UNCHANGED <<setup, server, keys, cas>> PROVE LoadAllOrNothing'
  BY DEF LoadAllOrNothing

\* A closed connection: the reason is noted, the counters stand.
LEMMA Closing ==
  ASSUME NEW reason \in Reasons, NEW c \in ConnType
  PROVE  /\ closed(c, reason) \in ConnType /\ closed(c, reason).stage = "Closed"
         /\ closed(c, reason).reason = reason
         /\ closed(c, reason).attempts = c.attempts /\ closed(c, reason).failures = c.failures
  BY DEF closed, ConnType

\* One more request heard.
LEMMA OneMore ==
  ASSUME heard \in [Verdicts -> Nat], NEW v \in Verdicts, heard' = [heard EXCEPT ![v] = @ + 1]
  PROVE  /\ heard' \in [Verdicts -> Nat] /\ heard'[v] = heard[v] + 1
         /\ \A w \in Verdicts : heard[w] \in Nat /\ (w # v => heard'[w] = heard[w])
  OBVIOUS

\* The connection leaves UserAuth without a session: nothing was heard, or a
\* last request that is no failure.
LEMMA InvClosed ==
  ASSUME IInv, conn.stage = "UserAuth",
         NEW why \in Reasons, why # "too-many-auth-attempts", conn' = closed(conn, why),
         UNCHANGED <<setup, server, keys, cas, audit>>, clock' \in Times,
         \/ heard' = heard
         \/ \E v \in {"proof", "rejected"} : heard' = [heard EXCEPT ![v] = @ + 1]
  PROVE  IInv'
<1>0. /\ heard' \in [Verdicts -> Nat]
      /\ heard'["failed"] = heard["failed"] /\ heard'["known"] = heard["known"]
      /\ heard'["proof"] + heard'["rejected"] <= 1
  <2>1. /\ heard \in [Verdicts -> Nat] /\ heard["proof"] = 0 /\ heard["rejected"] = 0
    BY DEF IInv, Counted, BudgetExact
  <2>2. CASE heard' = heard
    BY <2>1, <2>2
  <2>3. ASSUME NEW v \in {"proof", "rejected"}, heard' = [heard EXCEPT ![v] = @ + 1]
        PROVE  /\ heard' \in [Verdicts -> Nat]
               /\ heard'["failed"] = heard["failed"] /\ heard'["known"] = heard["known"]
               /\ heard'["proof"] + heard'["rejected"] <= 1
    BY <2>1, <2>3, OneMore DEF Verdicts
  <2> QED
    BY <2>2, <2>3
<1>1. /\ Typed' /\ conn'.stage = "Closed" /\ conn'.reason = why
      /\ conn'.attempts = conn.attempts /\ conn'.failures = conn.failures
  BY Closing DEF IInv, Typed
<1>2. TypeOK'
  BY <1>1 DEF IInv, TypeOK
<1>3. Served' /\ AuthSound' /\ IdentityProven'
  BY <1>1 DEF IInv, Served, AuthSound, IdentityProven
<1>4. Counted' /\ AuditExact'
  BY <1>0, <1>1 DEF IInv, Counted, Unsuccessful, AuditExact
<1>5. BudgetExact'
  <2>1. Unsuccessful' = Unsuccessful /\ Unsuccessful = conn.attempts /\ conn.attempts \in Nat
    BY <1>0 DEF IInv, Typed, ConnType, Counted, Unsuccessful
  <2>2. conn.attempts < MAX_AUTH_ATTEMPTS
    BY DEF IInv, TypeOK
  <2> QED
    BY <1>0, <1>1, <2>1, <2>2, Constants DEF BudgetExact
<1> QED
  BY <1>1, <1>2, <1>3, <1>4, <1>5, LoadKept DEF IInv

\* A request that spends an attempt.
LEMMA InvSpends ==
  ASSUME IInv, conn.stage = "UserAuth", UNCHANGED <<setup, server, keys, cas, clock>>,
         NEW q, NEW known \in BOOLEAN, NEW reply, spends(q, known, reply),
         heard' = [heard EXCEPT ![IF known THEN "known" ELSE "failed"] = @ + 1]
  PROVE  IInv'
<1> DEFINE n == failed(known)
           c == [conn EXCEPT !.attempts = @ + 1, !.failures = @ + n]
<1>0. /\ heard' \in [Verdicts -> Nat] /\ heard["failed"] \in Nat /\ heard["known"] \in Nat
      /\ heard["proof"] = 0 /\ heard["rejected"] = 0
      /\ heard'["failed"] = heard["failed"] + n
      /\ heard'["failed"] + heard'["known"] = heard["failed"] + heard["known"] + 1
      /\ heard'["proof"] = 0 /\ heard'["rejected"] = 0
  <2>1. /\ heard \in [Verdicts -> Nat] /\ heard["proof"] = 0 /\ heard["rejected"] = 0
    BY DEF IInv, Counted, BudgetExact
  <2>2. CASE known
    BY <2>1, <2>2, OneMore DEF Verdicts, failed
  <2>3. CASE ~known
    BY <2>1, <2>3, OneMore DEF Verdicts, failed
  <2> QED
    BY <2>2, <2>3
<1>1. n \in {0, 1}
  BY DEF failed
<1>2. /\ conn.failures \in Nat /\ conn.attempts \in Nat /\ conn.failures <= conn.attempts
      /\ conn.attempts < MAX_AUTH_ATTEMPTS /\ conn \in ConnType
      /\ Len(audit) = conn.failures /\ audit \in Seq(Entry)
      /\ \A i \in 1..conn.failures : audit[i] = Failed(i)
  <2>1. conn \in ConnType /\ conn.failures \in Nat /\ conn.attempts \in Nat /\ audit \in Seq(Entry)
    BY DEF IInv, Typed, ConnType
  <2>2. Len(audit) = conn.failures /\ \A i \in 1..conn.failures : audit[i] = Failed(i)
    BY <1>0, <2>1 DEF IInv, AuditExact, Counted
  <2> QED
    BY <2>1, <2>2 DEF IInv, TypeOK
<1>3. /\ c \in ConnType /\ c.stage = "UserAuth"
      /\ c.attempts = conn.attempts + 1 /\ c.failures = conn.failures + n
  <2>1. PICK a \in Nat, f \in Nat : a = conn.attempts + 1 /\ f = conn.failures + n
    BY <1>1, <1>2
  <2>2. c = [conn EXCEPT !.attempts = a, !.failures = f]
    BY <2>1
  <2> HIDE DEF n, c
  <2> QED
    BY <1>2, <2>1, <2>2 DEF ConnType
<1>4. /\ audit' = IF n = 0 THEN audit ELSE Append(audit, Failed(c.failures))
      /\ \/ c.attempts >= MAX_AUTH_ATTEMPTS /\ conn' = closed(c, "too-many-auth-attempts")
         \/ c.attempts < MAX_AUTH_ATTEMPTS /\ conn' \in {c, closed(c, "io")}
  <2>1. /\ audit' = IF n = 0 THEN audit ELSE Append(audit, Failed(c.failures))
        /\ \/ c.attempts >= MAX_AUTH_ATTEMPTS /\ conn' = closed(c, "too-many-auth-attempts")
           \/ ~(c.attempts >= MAX_AUTH_ATTEMPTS) /\ conn' \in {c, closed(c, "io")}
    BY Zenon DEF spends, exhausted
  <2> HIDE DEF n, c
  <2> QED
    BY <1>2, <1>3, <2>1, Constants
<1> HIDE DEF n, c
<1>5. /\ conn' \in ConnType /\ conn'.stage \in {"UserAuth", "Closed"}
      /\ conn'.attempts = conn.attempts + 1 /\ conn'.failures = conn.failures + n
      /\ conn'.stage = "UserAuth" => conn'.attempts < MAX_AUTH_ATTEMPTS
      /\ conn'.reason = "too-many-auth-attempts" <=> conn'.attempts = MAX_AUTH_ATTEMPTS
  <2>1. conn.attempts < MAX_AUTH_ATTEMPTS /\ conn.attempts \in Nat /\ MAX_AUTH_ATTEMPTS \in Nat
    BY <1>2, Constants
  <2>2. c.reason # "too-many-auth-attempts"
    <3>1. conn.reason # "too-many-auth-attempts"
      BY <2>1 DEF IInv, BudgetExact, Counted
    <3> QED
      BY <1>2, <3>1 DEF ConnType, c
  <2> QED
    BY <1>3, <1>4, <2>1, <2>2, Closing DEF Reasons
<1>6. /\ audit' \in Seq(Entry) /\ Len(audit') = conn'.failures
      /\ \A i \in 1..conn'.failures : audit'[i] = Failed(i)
  <2>1. CASE n = 0
    BY <1>2, <1>4, <1>5, <2>1
  <2>2. CASE n = 1
    <3>1. Failed(c.failures) \in Entry
      BY <1>2, <1>3, <2>2, NoOneIdentity DEF Failed, Entry
    <3>2. audit' = Append(audit, Failed(c.failures)) /\ c.failures = Len(audit) + 1
      BY <1>2, <1>3, <1>4, <2>2
    <3> QED
      BY <1>2, <1>3, <1>5, <2>2, <3>1, <3>2
  <2> QED
    BY <1>1, <2>1, <2>2
<1>7. TypeOK'
  BY <1>1, <1>2, <1>5, Constants DEF IInv, TypeOK
<1>8. Counted' /\ AuditExact'
  <2>1. conn.attempts = heard["failed"] + heard["known"] /\ conn.failures = heard["failed"]
    BY DEF IInv, Counted, Unsuccessful
  <2>2. conn'.attempts = heard'["failed"] + heard'["known"] /\ conn'.failures = heard'["failed"]
    BY <1>0, <1>1, <1>5, <2>1
  <2>3. Counted'
    BY <1>0, <2>2 DEF Counted, Unsuccessful
  <2>4. AuditExact'
    BY <1>0, <1>1, <1>5, <1>6, <2>2 DEF AuditExact
  <2> QED
    BY <2>3, <2>4
<1>budget. BudgetExact'
  BY <1>0, <1>2, <1>5, <1>8, Constants DEF BudgetExact, Counted, Unsuccessful
<1>9. Served' /\ AuthSound' /\ IdentityProven'
  BY <1>5 DEF IInv, Served, AuthSound, IdentityProven
<1> QED
  BY <1>5, <1>6, <1>7, <1>8, <1>budget, <1>9, LoadKept DEF IInv, Typed
\* A request that authenticates.
LEMMA InvSuccess == ASSUME IInv, NEW q \in Requests, userauth_success(q) PROVE IInv'
<1> DEFINE who == resolve(q).who
<1>1. /\ conn.stage = "UserAuth" /\ UNCHANGED <<setup, server, keys, cas, clock>>
      /\ q.signed /\ proven(q, resolve(q)) /\ Asked(q)
  BY DEF userauth_success, reads, IInv, Served, TypeOK, Asked
<1>2. /\ last' = [req |-> q, at |-> clock, reply |-> conn'.stage]
      /\ heard' = [heard EXCEPT !["proof"] = @ + 1]
  BY <1>1, VerdictOfAsked DEF userauth_success, reads
<1>3. CASE conn' = closed(conn, "io") /\ UNCHANGED audit
  BY <1>1, <1>2, <1>3, InvClosed DEF IInv, TypeOK, Reasons
<1>4. CASE /\ conn' = [conn EXCEPT !.stage = "Session", !.who = who]
           /\ audit' = Append(audit, Succeeded(who))
  <2>1. /\ who \in Identity
        /\ who.fingerprint = q.signature.by
        /\ who.certificate = (q.algorithm = CERT_ALGORITHM)
        /\ who.certificate => who.principal = q.user /\ who.ca = q.cert.body.ca
        /\ who.pty = (who.certificate => permit_pty(q.cert))
    BY <1>1, ProvenIdentity
  <2> HIDE DEF who
  <2>2. /\ conn' \in ConnType /\ conn'.stage = "Session" /\ conn'.who = who
        /\ conn'.attempts = conn.attempts /\ conn'.failures = conn.failures
        /\ conn'.reason = conn.reason
    BY <1>4, <2>1 DEF IInv, Typed, ConnType
  <2>heard. /\ heard' \in [Verdicts -> Nat] /\ heard["failed"] \in Nat /\ heard["known"] \in Nat
         /\ heard'["failed"] = heard["failed"] /\ heard'["known"] = heard["known"]
         /\ heard'["proof"] = 1 /\ heard'["rejected"] = 0
    <3>1. /\ heard \in [Verdicts -> Nat] /\ heard["proof"] = 0 /\ heard["rejected"] = 0
      BY <1>1 DEF IInv, Counted, BudgetExact
    <3> QED
      BY <1>2, <3>1, OneMore DEF Verdicts
  <2>3. /\ conn.failures \in Nat /\ Len(audit) = conn.failures /\ audit \in Seq(Entry)
        /\ \A i \in 1..conn.failures : audit[i] = Failed(i)
    <3>1. conn.failures \in Nat /\ audit \in Seq(Entry)
      BY DEF IInv, Typed, ConnType
    <3> QED
      BY <1>1, <3>1 DEF IInv, AuditExact, Counted
  <2>4. Succeeded(who) \in Entry
    BY <2>1 DEF Succeeded, Entry
  <2>5. /\ audit' \in Seq(Entry) /\ Len(audit') = conn.failures + 1
        /\ \A i \in 1..conn.failures : audit'[i] = Failed(i)
        /\ audit'[Len(audit')] = Succeeded(who)
    BY <1>4, <2>3, <2>4
  <2>6. last'.req = q /\ last'.at = clock /\ last'.reply = "Session"
    BY <1>2, <2>2
  <2>7. TypeOK'
    BY <1>1, <2>2 DEF IInv, TypeOK
  <2>8. Counted' /\ AuditExact'
    <3>1. conn.failures = heard["failed"] /\ conn.attempts = heard["failed"] + heard["known"]
      BY DEF IInv, Counted, Unsuccessful
    <3> QED
      BY <2>2, <2>heard, <2>3, <2>5, <3>1 DEF Counted, Unsuccessful, AuditExact, Last
  <2>budget. BudgetExact'
    BY <1>1, <2>2, <2>heard DEF IInv, BudgetExact, Unsuccessful
  <2>9. AuthSound'
    <3>1. Entitled(q, clock)
      BY <1>1, ProvenEntitled
    <3>2. Entitled(q, clock)'
      BY <1>1, <3>1 DEF Entitled, Certified
    <3> QED
      BY <1>1, <2>6, <3>2 DEF AuthSound
  <2>10. IdentityProven'
    BY <2>1, <2>2, <2>6 DEF IdentityProven, permit_pty
  <2>11. Served'
    BY <1>1, <2>2 DEF IInv, Served
  <2> QED
    BY <1>1, <2>2, <2>5, <2>7, <2>8, <2>budget, <2>9, <2>10, <2>11, LoadKept DEF IInv, Typed
<1> QED
  BY <1>3, <1>4 DEF userauth_success

LEMMA InvAuthenticate == ASSUME IInv, NEW q \in Requests, authenticate(q) PROVE IInv'
<1>0. conn.stage = "UserAuth" /\ parse_userauth_request(q) = "publickey" => Asked(q)
  BY DEF Asked, IInv, Served, TypeOK
<1>1. CASE userauth_rejected(q)
  <2>1. PICK why \in {"expected-userauth-request", "malformed-userauth-request",
                      "unexpected-service-name"} : reads(q, why) /\ conn' = closed(conn, why)
    BY <1>1 DEF userauth_rejected
  <2>2. heard' = [heard EXCEPT !["rejected"] = @ + 1]
    BY <2>1 DEF reads, Verdict
  <2> QED
    BY <1>1, <2>1, <2>2, InvClosed DEF userauth_rejected, reads, IInv, TypeOK, Reasons
<1>2. CASE userauth_refused(q)
  <2>1. heard' = [heard EXCEPT !["failed"] = @ + 1]
    BY <1>2 DEF userauth_refused, reads, Verdict
  <2> QED
    BY <1>2, <2>1, InvSpends DEF userauth_refused, reads
<1>3. CASE userauth_probe(q)
  <2>1. PICK known \in BOOLEAN : known = resolve(q).known
    BY Zenon DEF resolve, lookup, Nobody, candidate_of
  <2>2. reads(q, "publickey") /\ spends(q, known, IF known THEN "pk_ok" ELSE "failure")
    BY <1>3, <2>1 DEF userauth_probe
  <2>3. heard' = [heard EXCEPT ![IF known THEN "known" ELSE "failed"] = @ + 1]
    BY <1>0, <1>3, <2>1, VerdictOfAsked DEF userauth_probe, reads
  <2> QED
    BY <2>1, <2>2, <2>3, InvSpends DEF reads
<1>4. CASE userauth_unproven(q)
  <2>1. heard' = [heard EXCEPT !["failed"] = @ + 1]
    BY <1>0, <1>4, VerdictOfAsked DEF userauth_unproven, reads
  <2> QED
    BY <1>4, <2>1, InvSpends DEF userauth_unproven, reads
<1>5. CASE userauth_success(q)
  BY <1>5, InvSuccess
<1> QED
  BY <1>1, <1>2, <1>3, <1>4, <1>5 DEF authenticate

LEMMA InvNext == IInv /\ [Next]_vars => IInv'
<1> SUFFICES ASSUME IInv, [Next]_vars PROVE IInv'
  OBVIOUS
<1>1. CASE ends
  BY <1>1, InvClosed DEF ends, IInv, TypeOK, Reasons
<1>2. CASE clock_changes \/ UNCHANGED vars
  <2>1. /\ UNCHANGED <<setup, server, keys, cas, conn, audit, last, heard>>
        /\ clock' \in Times
    BY <1>2 DEF clock_changes, vars, IInv, TypeOK
  <2>2. TypeOK' /\ Typed' /\ Served'
    BY <2>1 DEF IInv, TypeOK, Typed, Served
  <2>3. Counted' /\ BudgetExact' /\ AuditExact'
    BY <2>1 DEF IInv, Counted, Unsuccessful, BudgetExact, AuditExact
  <2>4. AuthSound' /\ IdentityProven'
    BY <2>1 DEF IInv, AuthSound, IdentityProven, Entitled, Certified
  <2> QED
    BY <2>1, <2>2, <2>3, <2>4, LoadKept DEF IInv
<1> QED
  BY <1>1, <1>2, InvLoad, InvAuthenticate DEF Next

LEMMA Invariance == Spec => []IInv
<1>1. Init => IInv
  BY InvInit
<1>2. IInv /\ [Next]_vars => IInv'
  BY InvNext
<1> QED
  BY <1>1, <1>2, PTL DEF Spec
-----------------------------------------------------------------------------
(* The theorems.                                                             *)

\* For all key files and CA files, a server that starts trusts every key they
\* list and no other, each of them acceptable: one bad line anywhere fails the
\* whole load (parse_key_lines, AuthorizedKeys::load, TrustedUserCaKeys::load).
THEOREM FilesLoadWhole == Spec => []LoadAllOrNothing
<1>1. IInv => LoadAllOrNothing
  BY DEF IInv
<1> QED
  BY <1>1, Invariance, PTL

\* For all files, requests and budgets, measured by the requests read and by what
\* the files say of each: the one that makes MAX_AUTH_ATTEMPTS without a proof,
\* and no other, ends the connection for its budget; every one that failed, that
\* one included, has its own auth.failed with its number, a known key's probe has
\* none, and auth.succeeded comes last, with a session only (authenticate).
THEOREM BudgetIsAudited == Spec => []BudgetAudited
<1>1. IInv => BudgetAudited
  BY DEF IInv, BudgetAudited
<1> QED
  BY <1>1, Invariance, PTL

\* What EntitledServed says of one step.
NotTurnedAway(q) ==
  ~ /\ parse_userauth_request(q) = "publickey" /\ Entitled(q, clock)
    /\ q.algorithm = CERT_ALGORITHM => Regular(q.cert)

\* A step that spends an attempt was made by a request nobody owes a session.
LEMMA SpentNotOwed ==
  ASSUME IInv, Next, conn'.attempts > conn.attempts
  PROVE  NotTurnedAway(last'.req)
<1>1. ASSUME NEW c \in ConnType, NEW why \in Reasons, conn' = closed(c, why), c.attempts = conn.attempts
      PROVE  FALSE
  BY <1>1, Closing DEF IInv, Typed, ConnType
<1>2. ~ends /\ ~clock_changes /\ ~load
  <2>1. ~load
    BY DEF load, IInv, Typed, ConnType
  <2>2. ~ends /\ ~clock_changes
    BY <1>1 DEF ends, clock_changes, IInv, Typed, ConnType, Reasons
  <2> QED
    BY <2>1, <2>2
<1>3. PICK q \in Requests : authenticate(q)
  BY <1>2 DEF Next
<1>4. ~userauth_rejected(q) /\ ~userauth_success(q)
  <2>1. ~userauth_rejected(q)
    BY <1>1 DEF userauth_rejected, Reasons, IInv, Typed
  <2>2. ~userauth_success(q)
    <3>1. conn \in ConnType /\ conn.attempts \in Nat
      BY DEF IInv, Typed, ConnType
    <3>2. conn' # closed(conn, "io")
      BY <1>1, <3>1 DEF Reasons
    <3>3. ASSUME NEW w, conn' = [conn EXCEPT !.stage = "Session", !.who = w] PROVE FALSE
      <4>1. conn'.attempts = conn.attempts
        BY <3>1, <3>3 DEF ConnType
      <4> QED
        BY <3>1, <4>1
    <3> QED
      BY <3>2, <3>3, Zenon DEF userauth_success
  <2> QED
    BY <2>1, <2>2
<1>5. CASE userauth_refused(q)
  BY <1>5 DEF userauth_refused, reads, spends, NotTurnedAway
<1>6. CASE userauth_probe(q)
  BY <1>6 DEF userauth_probe, spends, NotTurnedAway, Entitled
<1>7. CASE userauth_unproven(q)
  <2>1. last'.req = q /\ ~proven(q, resolve(q)) /\ reads(q, "publickey")
    BY <1>7 DEF userauth_unproven, spends
  <2>2. parse_userauth_request(q) = "publickey" => Asked(q)
    BY <2>1 DEF reads, Asked, IInv, Served, TypeOK
  <2> QED
    BY <2>1, <2>2, EntitledProven DEF NotTurnedAway
<1> QED
  BY <1>3, <1>4, <1>5, <1>6, <1>7 DEF authenticate

\* For all files, requests and clocks: a session only for the holder of an
\* entitled key that signed this request in this session while it was entitled,
\* under its own identity; and no entitled, well-formed request is ever answered
\* as a failed one (authenticate, resolve, verify, verify_auth_signature).
THEOREM AuthenticationExact == Spec => AuthExact
<1>1. IInv => AuthSound /\ IdentityProven
  BY DEF IInv
<1>2. IInv /\ [Next]_vars =>
        [LET q == last'.req IN conn'.attempts > conn.attempts =>
           ~ /\ parse_userauth_request(q) = "publickey" /\ Entitled(q, clock)
             /\ q.algorithm = CERT_ALGORITHM => Regular(q.cert)]_vars
  BY SpentNotOwed DEF NotTurnedAway
<1> QED
  BY <1>1, <1>2, Invariance, PTL DEF Spec, AuthExact, EntitledServed
==============================================================================
