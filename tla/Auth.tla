-------------------------------- MODULE Auth ---------------------------------
(***************************************************************************)
(* Public-key authentication: the key files and what they load to          *)
(* (crates/quantumssh-core/src/auth.rs), user certificates (cert.rs, with  *)
(* the composite CA signature of composite.rs) and the request loop        *)
(* (transport.rs, authenticate).                                           *)
(*                                                                         *)
(* One server start and one connection, against a wall clock that anything *)
(* may set.  Cryptography is symbolic: a signature is the record of the    *)
(* key that made it and of what it covers.  Requests, certificates and     *)
(* files are records of what the parsers tell apart.                       *)
(***************************************************************************)
EXTENDS Integers, Sequences, SequencesExt, FiniteSets, FiniteSetsExt

CONSTANTS
  Setups,     \* what an administrator may have configured: [keyfile, cafile, ca]
  Requests,   \* USERAUTH_REQUESTs a client may send
  Times,      \* what the wall clock may show; negative is before the epoch
  WeakKeys,   \* small-order keys
  MAX_AUTH_ATTEMPTS, MAX_PRINCIPALS, MIN_NONCE_LEN, CERT_BLOB_BOUND

ASSUME AuthAssumption ==
  /\ {MAX_AUTH_ATTEMPTS, MAX_PRINCIPALS, MIN_NONCE_LEN, CERT_BLOB_BOUND} \subseteq Nat \ {0}
  /\ Times \subseteq Int /\ Times # {}
  /\ \A u \in Setups : DOMAIN u.keyfile \cup DOMAIN u.cafile \subseteq Nat
  /\ \A q \in Requests : {q.cert.body.after, q.cert.body.before} \subseteq Nat

VARIABLES
  setup,    \* the files configured
  server,   \* "starting", "ready", or why it did not start
  keys,     \* AuthorizedKeys: the keys loaded
  cas,      \* TrustedUserCaKeys, empty when none is configured
  clock,    \* SystemTime::now
  conn,     \* the connection: its stage, counters and who was authenticated
  audit,    \* the audit log: auth.failed counts, then auth.succeeded
  last,     \* the last request, the time it was resolved at, and the reply
  heard     \* history: requests read, by what each was worth when it came

vars == <<setup, server, keys, cas, clock, conn, audit, last, heard>>

KEY_ALGORITHM == "ssh-ed25519"
CERT_ALGORITHM == "ssh-ed25519-cert"
CA_ALGORITHM == "ssh-mldsa44-ed25519"
SessionId == "this-session"

Verdicts == {"failed", "known", "proof", "rejected"}

NoOne == [fingerprint |-> "none", certificate |-> FALSE, ca |-> "none", principal |-> "none", pty |-> FALSE]

Init ==
  /\ setup \in Setups
  /\ server = "starting"
  /\ keys = {} /\ cas = {}
  /\ clock \in Times
  /\ conn = [stage |-> "none", attempts |-> 0, failures |-> 0, reason |-> "none", who |-> NoOne]
  /\ audit = <<>>
  /\ last = [req |-> <<>>, at |-> clock, reply |-> "none"]
  /\ heard = [v \in Verdicts |-> 0]
-----------------------------------------------------------------------------
(* The key files.  A line is [first, defect, key]: its first field, what is *)
(* wrong after it, and the key it names.                                    *)

looks_like_key_type(field) ==
  field \in {KEY_ALGORITHM, CA_ALGORITHM, CERT_ALGORITHM, "ssh-rsa", "ecdsa-sha2", "sk-ssh-ed25519"}

skipped(line) == line.first \in {"blank", "#"}

line_error(line, algorithm) ==
  IF skipped(line) THEN "none"
  ELSE IF ~looks_like_key_type(line.first) THEN "KeyOptions"
  ELSE IF line.first # algorithm THEN "UnsupportedKeyType"
  ELSE IF line.defect # "none" \/ line.key \in WeakKeys THEN "MalformedLine"
  ELSE "none"

live(lines) == {i \in DOMAIN lines : ~skipped(lines[i])}

\* Mutant: a line that does not parse is left out, and the rest is loaded.
parse_key_lines_lenient(lines, algorithm) ==
  LET good == {i \in live(lines) : line_error(lines[i], algorithm) = "none"} IN
  [error |-> IF good = {} THEN "Empty" ELSE "none", keys |-> {lines[i].key : i \in good}]

\* parse_key_lines: the first line that is refused fails the load.
parse_key_lines(lines, algorithm) ==
  LET bad == {i \in DOMAIN lines : line_error(lines[i], algorithm) # "none"} IN
  [error |-> IF bad # {} THEN line_error(lines[Min(bad)], algorithm)
             ELSE IF live(lines) = {} THEN "Empty" ELSE "none",
   keys |-> {lines[i].key : i \in live(lines)}]

\* AuthorizedKeys::load, then TrustedUserCaKeys::load when it is configured;
\* a file may be unreadable.
load ==
  LET k == parse_key_lines(setup.keyfile, KEY_ALGORITHM)
      a == parse_key_lines(setup.cafile, CA_ALGORITHM)
  IN
  /\ server = "starting"
  /\ \/ server' = "Io" /\ UNCHANGED <<keys, cas, conn>>
     \/ k.error # "none" /\ server' = k.error /\ UNCHANGED <<keys, cas, conn>>
     \/ k.error = "none" /\ setup.ca /\ a.error # "none" /\ server' = a.error /\ UNCHANGED <<keys, cas, conn>>
     \/ /\ k.error = "none" /\ (setup.ca => a.error = "none")
        /\ server' = "ready"
        /\ keys' = k.keys /\ cas' = IF setup.ca THEN a.keys ELSE {}
        /\ conn' = [conn EXCEPT !.stage = "UserAuth"]
  /\ UNCHANGED <<setup, clock, audit, last, heard>>
-----------------------------------------------------------------------------
(* Certificates: a body and the CA's signature over it.                    *)

\* Parsed::parse, with parse_principals and for_each_option.  wire says that
\* every field reads within its bound and nothing trails.
parsed(cert) ==
  LET b == cert.body IN
  /\ b.size <= CERT_BLOB_BOUND
  /\ b.wire
  /\ b.algorithm = CERT_ALGORITHM
  /\ b.nonce >= MIN_NONCE_LEN
  /\ b.key \notin WeakKeys
  /\ Len(b.principals) <= MAX_PRINCIPALS
  /\ \A i \in DOMAIN b.extensions : b.extensions[i].name = "permit-pty" => b.extensions[i].empty

permit_pty(cert) == \E i \in DOMAIN cert.body.extensions : cert.body.extensions[i].name = "permit-pty"

\* VerifyingKey::verify: both halves, over the same message.
composite_verify(ca, cert) ==
  /\ cert.mldsa.by = ca /\ cert.mldsa.over = cert.body
  /\ cert.ed25519.by = ca /\ cert.ed25519.over = cert.body

\* Mutant: only the first principal is compared.
listed_first(principals, user) == principals # <<>> /\ principals[1] = user

listed(principals, user) == \E i \in DOMAIN principals : principals[i] = user

\* verify: the refusal, in the order of the checks, "none" when there is none.
refusal(cert, user, now) ==
  LET b == cert.body IN
  IF ~parsed(cert) THEN "malformed"
  ELSE IF b.ca \notin cas THEN "untrusted_ca"
  ELSE IF cert.algorithm # CA_ALGORITHM \/ ~composite_verify(b.ca, cert) THEN "bad_ca_signature"
  ELSE IF b.role # "user" THEN "not_user_certificate"
  ELSE IF now < 0 \/ now < b.after THEN "not_yet_valid"
  ELSE IF now >= b.before THEN "expired"
  ELSE IF ~listed(b.principals, user) THEN "principal_mismatch"
  ELSE IF b.critical # <<>> THEN "critical_option"
  ELSE "none"

Nobody == [known |-> FALSE]

\* Mutant: any certificate may have a terminal.
candidate_of_any_pty(cert, user) ==
  [known |-> TRUE, key |-> cert.body.key,
   who |-> [fingerprint |-> cert.body.key, certificate |-> TRUE, ca |-> cert.body.ca,
            principal |-> user, pty |-> TRUE]]

\* The certified key, its identity for the audit log, and its permission.
candidate_of(cert, user) ==
  [known |-> TRUE, key |-> cert.body.key,
   who |-> [fingerprint |-> cert.body.key, certificate |-> TRUE, ca |-> cert.body.ca,
            principal |-> user, pty |-> permit_pty(cert)]]

\* A listed key may have a terminal.
lookup(key) ==
  IF key \notin keys THEN Nobody
  ELSE [known |-> TRUE, key |-> key,
        who |-> [NoOne EXCEPT !.fingerprint = key, !.pty = TRUE]]

\* Mutant: a certificate that answered a probe is not checked again.
resolve_cached(q) ==
  IF q.algorithm = KEY_ALGORITHM THEN lookup(q.key)
  ELSE IF (last.reply = "pk_ok" /\ last.req.cert = q.cert) \/ refusal(q.cert, q.user, clock) = "none"
  THEN candidate_of(q.cert, q.user) ELSE Nobody

\* resolve: a listed key, or a certificate that holds now.
resolve(q) ==
  IF q.algorithm = KEY_ALGORITHM THEN lookup(q.key)
  ELSE IF refusal(q.cert, q.user, clock) = "none" THEN candidate_of(q.cert, q.user) ELSE Nobody
-----------------------------------------------------------------------------
(* The request loop.                                                       *)

\* parse_userauth_request, its fields in wire order; defect is the field that
\* does not read.
parse_userauth_request(q) ==
  IF q.message # "userauth-request" THEN "expected-userauth-request"
  ELSE IF q.defect \in {"user", "service"} THEN "malformed-userauth-request"
  ELSE IF q.service # "ssh-connection" THEN "unexpected-service-name"
  ELSE IF q.defect = "method" THEN "malformed-userauth-request"
  ELSE IF q.method # "publickey" THEN "refused"
  ELSE IF q.defect = "algorithm" THEN "malformed-userauth-request"
  ELSE IF q.algorithm \notin {KEY_ALGORITHM, CERT_ALGORITHM} THEN "refused"
  ELSE IF \/ q.defect # "none"
          \/ q.signed /\ q.signature.algorithm # KEY_ALGORITHM
          \/ q.algorithm = CERT_ALGORITHM /\ q.cert.body.size > CERT_BLOB_BOUND
  THEN "malformed-userauth-request"
  ELSE "publickey"

\* What a signature covers: the session and the request up to it.
auth_signed_data(session_id, q) == <<session_id, q.user, q.service, q.algorithm, q.key, q.cert>>

\* verify_auth_signature is strict: no signature holds under a weak key.
verify_auth_signature(q, key) ==
  /\ key \notin WeakKeys
  /\ q.signature.by = key /\ q.signature.over = auth_signed_data(SessionId, q)

\* A listed CA certified the key for this user and this time.
Certified(cert, user, t) ==
  /\ \E i \in live(setup.cafile) :
       /\ setup.ca /\ setup.cafile[i].key = cert.body.ca
       /\ cert.mldsa.by = setup.cafile[i].key /\ cert.ed25519.by = setup.cafile[i].key
  /\ cert.algorithm = CA_ALGORITHM
  /\ cert.mldsa.over = cert.body /\ cert.ed25519.over = cert.body
  /\ cert.body.role = "user" /\ user \in Range(cert.body.principals)
  /\ cert.body.critical = <<>>
  /\ t \in Nat /\ cert.body.after <= t /\ t < cert.body.before

\* A well-formed certificate, as its holder would have it issued.
Regular(cert) ==
  /\ cert.body.wire /\ cert.body.algorithm = CERT_ALGORITHM
  /\ cert.body.size <= CERT_BLOB_BOUND /\ cert.body.nonce >= MIN_NONCE_LEN
  /\ Len(cert.body.principals) <= MAX_PRINCIPALS
  /\ \A i \in DOMAIN cert.body.extensions :
       cert.body.extensions[i].name = "permit-pty" => cert.body.extensions[i].empty

\* What a request is worth at a time, by the files and not by what the server
\* makes of it: it is no request at all, proves a key the files let in, asks
\* about one, or fails.
KeyOf(q) == IF q.algorithm = KEY_ALGORITHM THEN q.key ELSE q.cert.body.key

Recognised(q, t) ==
  IF q.algorithm = KEY_ALGORITHM THEN \E i \in live(setup.keyfile) : setup.keyfile[i].key = q.key
  ELSE Certified(q.cert, q.user, t) /\ Regular(q.cert) /\ q.cert.body.key \notin WeakKeys

SignsIt(q) == q.signature.by = KeyOf(q) /\ q.signature.over = auth_signed_data(SessionId, q)

Verdict(q, t) ==
  IF parse_userauth_request(q) \notin {"refused", "publickey"} THEN "rejected"
  ELSE IF parse_userauth_request(q) = "refused" \/ ~Recognised(q, t) THEN "failed"
  ELSE IF ~q.signed THEN "known"
  ELSE IF SignsIt(q) THEN "proof" ELSE "failed"
-----------------------------------------------------------------------------
(* The loop's turns.                                                       *)

reads(q, kind) ==
  /\ conn.stage = "UserAuth"
  /\ parse_userauth_request(q) = kind
  /\ heard' = [heard EXCEPT ![Verdict(q, clock)] = @ + 1]
  /\ UNCHANGED <<setup, server, keys, cas, clock>>

closed(c, reason) == [c EXCEPT !.stage = "Closed", !.reason = reason]

Failed(n) == [event |-> "auth.failed", failure_count |-> n, who |-> NoOne]
Succeeded(who) == [event |-> "auth.succeeded", failure_count |-> 0, who |-> who]

\* Mutant: every request that is not a success counts as a failure.
failed_all(known) == 1

failed(known) == IF known THEN 0 ELSE 1

\* Mutant: one attempt more.
exhausted_late(attempts) == attempts > MAX_AUTH_ATTEMPTS

exhausted(attempts) == attempts >= MAX_AUTH_ATTEMPTS

\* Mutant: the budget is tested first, so the last request goes unrecorded.
spends_tests_first(q, known, reply) ==
  LET c == [conn EXCEPT !.attempts = @ + 1, !.failures = @ + failed(known)] IN
  /\ \/ /\ exhausted(c.attempts) /\ UNCHANGED audit
        /\ conn' = closed([conn EXCEPT !.attempts = @ + 1], "too-many-auth-attempts")
     \/ /\ ~exhausted(c.attempts) /\ conn' \in {c, closed(c, "io")}
        /\ audit' = IF failed(known) = 0 THEN audit ELSE Append(audit, Failed(c.failures))
  /\ last' = [req |-> q, at |-> clock, reply |-> IF conn'.stage = "UserAuth" THEN reply ELSE "none"]

\* A request that did not authenticate: it spends an attempt, is recorded if it
\* failed, and is answered unless the budget is gone or the write fails.
spends(q, known, reply) ==
  LET c == [conn EXCEPT !.attempts = @ + 1, !.failures = @ + failed(known)] IN
  /\ audit' = IF failed(known) = 0 THEN audit ELSE Append(audit, Failed(c.failures))
  /\ \/ exhausted(c.attempts) /\ conn' = closed(c, "too-many-auth-attempts")
     \/ ~exhausted(c.attempts) /\ conn' \in {c, closed(c, "io")}
  /\ last' = [req |-> q, at |-> clock, reply |-> IF conn'.stage = "UserAuth" THEN reply ELSE "none"]

userauth_rejected(q) ==
  /\ \E why \in {"expected-userauth-request", "malformed-userauth-request", "unexpected-service-name"} :
       reads(q, why) /\ conn' = closed(conn, why)
  /\ UNCHANGED <<audit, last>>

userauth_refused(q) == reads(q, "refused") /\ spends(q, FALSE, "failure")

userauth_probe(q) ==
  LET known == resolve(q).known IN
  /\ reads(q, "publickey") /\ ~q.signed
  /\ spends(q, known, IF known THEN "pk_ok" ELSE "failure")

proven(q, candidate) == candidate.known /\ verify_auth_signature(q, candidate.key)

userauth_unproven(q) ==
  /\ reads(q, "publickey") /\ q.signed /\ ~proven(q, resolve(q))
  /\ spends(q, FALSE, "failure")

\* The reply is written first; if that fails, nobody was authenticated.
userauth_success(q) ==
  LET candidate == resolve(q) IN
  /\ reads(q, "publickey") /\ q.signed /\ proven(q, candidate)
  /\ \/ /\ conn' = [conn EXCEPT !.stage = "Session", !.who = candidate.who]
        /\ audit' = Append(audit, Succeeded(candidate.who))
     \/ conn' = closed(conn, "io") /\ UNCHANGED audit
  /\ last' = [req |-> q, at |-> clock, reply |-> conn'.stage]

\* The client leaves, or the handshake budget runs out.
ends ==
  /\ conn.stage = "UserAuth"
  /\ conn' = closed(conn, "io")
  /\ UNCHANGED <<setup, server, keys, cas, clock, audit, last, heard>>

\* The wall clock goes on, or is set.
clock_changes ==
  /\ clock' \in Times \ {clock}
  /\ UNCHANGED <<setup, server, keys, cas, conn, audit, last, heard>>
-----------------------------------------------------------------------------
authenticate(q) ==
  \/ userauth_rejected(q) \/ userauth_refused(q) \/ userauth_probe(q)
  \/ userauth_unproven(q) \/ userauth_success(q)

Next == load \/ ends \/ clock_changes \/ \E q \in Requests : authenticate(q)

Spec == Init /\ [][Next]_vars
-----------------------------------------------------------------------------
(* Properties.                                                             *)

\* The connection is still open only while an attempt is left.
TypeOK ==
  /\ setup \in Setups /\ clock \in Times
  /\ conn.stage \in {"none", "UserAuth", "Session", "Closed"}
  /\ conn.failures <= conn.attempts /\ conn.attempts <= MAX_AUTH_ATTEMPTS
  /\ conn.stage \in {"UserAuth", "Session"} => conn.attempts < MAX_AUTH_ATTEMPTS

\* A line that names one acceptable key and nothing else.
Sound(line, algorithm) == line.first = algorithm /\ line.defect = "none" /\ line.key \notin WeakKeys

\* A server that starts trusts every key its files list and no other: no line
\* was dropped, none was loaded without its options, and none is weak
\* (parse_key_lines fails the whole load).
LoadAllOrNothing ==
  server = "ready" =>
    /\ \A i \in live(setup.keyfile) :
         Sound(setup.keyfile[i], KEY_ALGORITHM) /\ setup.keyfile[i].key \in keys
    /\ keys # {} /\ \A k \in keys : \E i \in live(setup.keyfile) : setup.keyfile[i].key = k
    /\ setup.ca => \A i \in live(setup.cafile) :
         Sound(setup.cafile[i], CA_ALGORITHM) /\ setup.cafile[i].key \in cas
    /\ \A k \in cas : setup.ca /\ \E i \in live(setup.cafile) : setup.cafile[i].key = k

\* A request signed in this session by the key that the files entitle now.
Entitled(q, t) ==
  LET k == IF q.algorithm = KEY_ALGORITHM THEN q.key ELSE q.cert.body.key IN
  /\ IF q.algorithm = KEY_ALGORITHM THEN \E i \in live(setup.keyfile) : setup.keyfile[i].key = k
     ELSE Certified(q.cert, q.user, t)
  /\ q.signed /\ q.signature.by = k /\ k \notin WeakKeys
  /\ q.signature.over = auth_signed_data(SessionId, q)

\* Nobody gets a session without a signature of this session and this request
\* by an entitled key, entitled when the request came: a probe answered before
\* the certificate expired, or a signature of another session, buys nothing
\* (resolve, cert verify, verify_auth_signature).
AuthSound == conn.stage = "Session" => Entitled(last.req, last.at)

\* An entitled client that signs a well-formed request is let in, whatever it
\* tried before within its budget: the request is never answered as a failed
\* one (resolve, cert verify, authenticate).
EntitledServed ==
  [][LET q == last'.req IN
     conn'.attempts > conn.attempts =>
       ~ /\ parse_userauth_request(q) = "publickey" /\ Entitled(q, clock)
         /\ q.algorithm = CERT_ALGORITHM => Regular(q.cert)]_vars

\* Requests read that did not authenticate anybody.
Unsuccessful == heard["failed"] + heard["known"]

\* The budget is spent by the requests read, not by what was answered: the
\* connection is read from only below MAX_AUTH_ATTEMPTS of them, the last one
\* ends it with "too-many-auth-attempts" and nothing else does, and nothing is
\* read after a proof or a malformed request (authenticate).
BudgetExact ==
  /\ Unsuccessful <= MAX_AUTH_ATTEMPTS
  /\ conn.reason = "too-many-auth-attempts" <=> Unsuccessful = MAX_AUTH_ATTEMPTS
  /\ conn.stage = "UserAuth" => heard["proof"] = 0 /\ heard["rejected"] = 0
  /\ heard["proof"] + heard["rejected"] <= 1
  /\ conn.stage = "Session" => heard["proof"] = 1

\* The audit log tells what was heard: one auth.failed for each request that
\* failed, numbered one by one, the one that exhausts the budget included; none
\* for a probe of a known key or a malformed request; and auth.succeeded exactly
\* at a session's start, after them (authenticate).
AuditExact ==
  /\ Len(audit) = heard["failed"] + (IF conn.stage = "Session" THEN 1 ELSE 0)
  /\ \A i \in 1..heard["failed"] : audit[i] = Failed(i)
  /\ conn.stage = "Session" => Last(audit) = Succeeded(conn.who)

\* The session's identity is the key that signed, never the CA or another; its
\* certificate fields are there for a certificate only, and it may have a
\* terminal unless its certificate lacks permit-pty (resolve, verify).
IdentityProven ==
  conn.stage = "Session" =>
    /\ conn.who.fingerprint = last.req.signature.by
    /\ conn.who.certificate = (last.req.algorithm = CERT_ALGORITHM)
    /\ conn.who.certificate => conn.who.principal = last.req.user /\ conn.who.ca = last.req.cert.body.ca
    /\ conn.who.pty = (conn.who.certificate =>
         \E i \in DOMAIN last.req.cert.body.extensions :
           last.req.cert.body.extensions[i].name = "permit-pty")
\* A session exactly for the entitled, under their own identity: nobody else is
\* let in, and no one entitled is turned away (authenticate).
AuthExact == [](AuthSound /\ IdentityProven) /\ EntitledServed

\* The budget and the audit log against the requests that were read
\* (authenticate).
BudgetAudited == TypeOK /\ BudgetExact /\ AuditExact
=============================================================================
