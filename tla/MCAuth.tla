------------------------------- MODULE MCAuth --------------------------------
EXTENDS Auth

Weak == {"weak"}
ClockTimes == {-1, 0, 1, 2, 3}

(* Files: the ordinary ones, and each way a line can be refused.           *)

Line(first, key) == [first |-> first, defect |-> "none", key |-> key]

Ordinary == <<Line("#", "none"), Line(KEY_ALGORITHM, "alice"), Line("blank", "none"), Line(KEY_ALGORITHM, "bob")>>
Ca == <<Line(CA_ALGORITHM, "ca")>>

BadLines ==
  {Line("restrict", "eve"), Line("ssh-rsa", "eve"), Line(KEY_ALGORITHM, "weak"),
   [Line(KEY_ALGORITHM, "eve") EXCEPT !.defect = "base64"]}

AnySetup ==
  {[keyfile |-> Ordinary, cafile |-> Ca, ca |-> TRUE], [keyfile |-> Ordinary, cafile |-> Ca, ca |-> FALSE],
   [keyfile |-> <<Line("#", "none")>>, cafile |-> Ca, ca |-> FALSE],
   [keyfile |-> Ordinary, cafile |-> <<Line(KEY_ALGORITHM, "ca")>>, ca |-> TRUE]}
  \cup {[keyfile |-> Append(Ordinary, l), cafile |-> Ca, ca |-> TRUE] : l \in BadLines}

(* Certificates: one that holds from 1 until 3, and its variants.          *)

Body ==
  [size |-> 1, wire |-> TRUE, algorithm |-> CERT_ALGORITHM, nonce |-> 2, key |-> "carol", role |-> "user",
   principals |-> <<"u1", "u2">>, after |-> 1, before |-> 3, critical |-> <<>>,
   extensions |-> <<[name |-> "x11", empty |-> FALSE], [name |-> "permit-pty", empty |-> TRUE]>>, ca |-> "ca"]

Issued(body, by) ==
  [body |-> body, algorithm |-> CA_ALGORITHM,
   mldsa |-> [by |-> by, over |-> body], ed25519 |-> [by |-> by, over |-> body]]

Good == Issued(Body, "ca")

Bodies ==
  {[Body EXCEPT !.size = 3], [Body EXCEPT !.wire = FALSE], [Body EXCEPT !.algorithm = KEY_ALGORITHM],
   [Body EXCEPT !.nonce = 1], [Body EXCEPT !.key = "weak"], [Body EXCEPT !.role = "host"],
   [Body EXCEPT !.principals = <<>>], [Body EXCEPT !.principals = <<"u1", "u2", "u3">>],
   [Body EXCEPT !.after = 0], [Body EXCEPT !.critical = <<"force-command">>],
   [Body EXCEPT !.extensions = <<>>], [Body EXCEPT !.extensions[2].empty = FALSE]}

Certificates ==
  {Good, Issued(Body, "eve"), Issued([Body EXCEPT !.ca = "eve"], "eve"),
   [Good EXCEPT !.mldsa.by = "eve"], [Good EXCEPT !.ed25519.by = "eve"],
   [Good EXCEPT !.body.before = 9], [Good EXCEPT !.algorithm = KEY_ALGORITHM]}
  \cup {Issued(b, "ca") : b \in Bodies}

(* Requests: unsigned, signed, and each way they go wrong.                 *)

Plain(algorithm, key, cert, user) ==
  [message |-> "userauth-request", defect |-> "none", service |-> "ssh-connection", method |-> "publickey",
   user |-> user, algorithm |-> algorithm, key |-> key, cert |-> cert, signed |-> FALSE,
   signature |-> [algorithm |-> KEY_ALGORITHM, by |-> "none", over |-> <<>>]]

SignedBy(q, by) ==
  [q EXCEPT !.signed = TRUE, !.signature.by = by, !.signature.over = auth_signed_data(SessionId, q)]

Keys == {Plain(KEY_ALGORITHM, k, Good, "u1") : k \in {"alice", "eve", "weak"}}
Certs == {Plain(CERT_ALGORITHM, "none", c, "u2") : c \in Certificates}
Alice == Plain(KEY_ALGORITHM, "alice", Good, "u1")
Carol == Plain(CERT_ALGORITHM, "none", Good, "u1")

Signing ==
  {SignedBy(q, q.key) : q \in Keys} \cup {SignedBy(q, q.cert.body.key) : q \in Certs}
  \cup {SignedBy(Alice, "eve"), SignedBy(Carol, "ca"), SignedBy([Carol EXCEPT !.user = "u3"], "carol"),
        [SignedBy(Carol, "carol") EXCEPT !.user = "u2"],
        [SignedBy(Alice, "alice") EXCEPT !.signature.over = auth_signed_data("another-session", Alice)],
        [SignedBy(Alice, "alice") EXCEPT !.signature.algorithm = "ssh-rsa"]}

Defective ==
  {[Alice EXCEPT !.defect = d] : d \in {"user", "method", "algorithm", "blob", "trailing"}}
  \cup {[Alice EXCEPT !.message = "other"], [Alice EXCEPT !.service = "other"],
        [Alice EXCEPT !.method = "password"], [Alice EXCEPT !.algorithm = "ssh-rsa"]}

AnyRequest ==
  {Alice, Carol, Plain(KEY_ALGORITHM, "eve", Good, "u1"), Plain(CERT_ALGORITHM, "none", Issued(Body, "eve"), "u1")}
  \cup Signing \cup Defective
==============================================================================
