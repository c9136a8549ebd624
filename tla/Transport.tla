------------------------------ MODULE Transport ------------------------------
(***************************************************************************)
(* The SSH transport of one connection                                     *)
(* (crates/quantumssh-core/src/transport.rs): the stages Expect<S, St>     *)
(* walks from identification to Session, the two sequence counters and     *)
(* ciphers, the authentication budget, and the re-key state machine.       *)
(*                                                                         *)
(* s mirrors Expect and its stage.  c is a strict-kex client, external to  *)
(* the repository: it does what the server's checks require, so that the   *)
(* two ends can be compared.  s.wire and c.wire are the TCP stream in each *)
(* direction, already written and not yet read.                            *)
(*                                                                         *)
(* A cipher is the key schedule it was derived from; a sealed packet opens *)
(* only under the same schedule and the same sequence number.  The channel *)
(* layer is reduced to what it writes; Channel.tla models it in full.      *)
(***************************************************************************)
EXTENDS Integers, Sequences, SequencesExt

CONSTANTS
  SeqRange,              \* 2^32, the range of a sequence number
  MaxPackets, MaxBytes,   \* RekeyThresholds; every payload counts 1 byte
  MAX_AUTH_ATTEMPTS, MAX_DEFERRED,
  Burst,               \* bound: packets one turn of the driver's loop writes
  MaxLag,              \* bound: packets the client has on the wire, and sends
                       \* before it reads one that is on its way to it
  MaxOutput,           \* bound: output packets the server sends
  MaxRekeys,           \* bound: re-keys each side starts
  Profiles             \* the kinds of client: what it may guess with
                       \* first_kex_packet_follows, the logins and the session
                       \* packets it may send, the packets it sends at any time
                       \* against the protocol, and (a bound) how many in all

ASSUME TransportAssumption ==
  /\ {SeqRange, MaxPackets, MaxBytes, MAX_AUTH_ATTEMPTS, MAX_DEFERRED} \subseteq Nat \ {0}
  /\ {Burst, MaxLag, MaxOutput, MaxRekeys} \subseteq Nat
  /\ \A p \in Profiles :
       /\ p.guesses \subseteq {"none", "wrong", "right"} /\ p.traffic \in Nat
       /\ \A m \in p.logins : m.kind = "auth"
       /\ \A m \in p.session : m.kind \in {"open", "global", "ignore", "data"}

VARIABLES
  s,        \* Expect<S, St>
  c,        \* the client
  output,   \* output packets sent
  requests  \* history: authentication requests the server has read

vars == <<s, c, output, requests>>

Plain == <<>>     \* no cipher installed
None == <<>>
Msg(kind) == [kind |-> kind]
KexInit(n, guess, ext) ==
  [kind |-> "kexinit", n |-> n, guess |-> guess, ext |-> ext, offer |-> "ok"]
KexReply(n) == KexInit(n, "none", FALSE)     \* the server's, which never guesses
HybridInit == [kind |-> "hybrid_init", half |-> "ok"]

Init ==
  /\ s = [stage |-> "Version", reason |-> "none", seq_tx |-> 0, seq_rx |-> 0,
          tx |-> Plain, rx |-> Plain, session_id |-> None, ext_info |-> FALSE,
          i_s |-> 0, i_c |-> 0, attempts |-> 0, failures |-> 0,
          phase |-> "Idle", new_rx |-> Plain, bytes_rx |-> 0, bytes_tx |-> 0,
          pc |-> "head", open |-> FALSE, deferred |-> <<>>, begun |-> 0,
          sealed |-> 0, opened |-> 0, wire |-> <<>>]
  /\ \E ext \in BOOLEAN, p \in Profiles :
     c = [phase |-> "Idle", ext |-> ext, profile |-> p, seq_tx |-> 0, seq_rx |-> 0, tx |-> Plain, rx |-> Plain,
          session_id |-> None, i_s |-> 0, i_c |-> 0, guess |-> "none",
          new_rx |-> Plain, state |-> "transport", open |-> FALSE, sent |-> 0, lag |-> 0,
          fault |-> "none", wire |-> <<>>]
  /\ output = 0
  /\ requests = 0
-----------------------------------------------------------------------------
(* Packets.                                                                *)

next_seq(n) == (n + 1) % SeqRange

packet(e, m) == [msg |-> m, key |-> e.tx, seq |-> e.seq_tx]

\* A plaintext packet carries no sequence number and no tag.
opens(e, p) == p.key = e.rx /\ (e.rx = Plain \/ p.seq = e.seq_rx)

put(e, m) == [e EXCEPT !.wire = Append(@, packet(e, m)), !.seq_tx = next_seq(@)]

write_plain(e, m) == put(e, m)

\* sealed and opened count the packets under the current ciphers.
write_sealed(e, m) == [put(e, m) EXCEPT !.sealed = @ + 1]

read_plain(e) == [e EXCEPT !.seq_rx = next_seq(@)]

read_sealed(e) == [read_plain(e) EXCEPT !.opened = @ + 1]

write_packet(e, m) == [write_sealed(e, m) EXCEPT !.bytes_tx = @ + 1]

read_packet(e) == [read_sealed(e) EXCEPT !.bytes_rx = @ + 1]

close(e, reason) == [e EXCEPT !.stage = "Closed", !.reason = reason]

reject_plain(e, reason) == close(write_plain(e, Msg("disconnect")), reason)

reject_sealed(e, reason) == close(write_sealed(e, Msg("disconnect")), reason)

protocol_disconnect(e, reason) == reject_sealed(e, reason)

\* The exchange hash covers both KEXINITs; the keys of a direction, the hash
\* and the session id.
exchange_hash(e) == <<e.i_c, e.i_s>>

derive_cipher(h, sid, direction) == <<h, sid, direction>>
-----------------------------------------------------------------------------
(* The handshake.  Each operator is what the stage makes of packet m.      *)

version_exchange ==
  /\ s.stage = "Version"
  /\ s' \in {close(s, "bad-identification"),
             write_plain([s EXCEPT !.stage = "KexInit", !.i_s = 1], KexReply(1))}
  /\ UNCHANGED <<c, output, requests>>

exchange_kexinit(e, m) ==
  IF m.kind # "kexinit" THEN reject_plain(e, "first-packet-not-kexinit")
  ELSE IF m.offer # "ok" THEN reject_plain(e, m.offer)
  ELSE [e EXCEPT !.stage = IF m.guess = "wrong" THEN "SkipGuessed" ELSE "HybridInit",
                 !.i_c = m.n, !.ext_info = m.ext]

\* The reply is followed by NEWKEYS, whose sending resets seq_tx.
run_hybrid(e, m) ==
  IF m.kind # "hybrid_init" THEN reject_plain(e, "expected-hybrid-init")
  ELSE IF m.half # "ok" THEN reject_plain(e, m.half)
  ELSE [write_plain(write_plain(e, Msg("hybrid_reply")), Msg("newkeys"))
          EXCEPT !.stage = "NewKeys", !.seq_tx = 0]

exchange_newkeys(e, m) ==
  IF m.kind # "newkeys" THEN reject_plain(e, "expected-newkeys")
  ELSE LET h == exchange_hash(e)
           keyed == [e EXCEPT !.stage = "ServiceRequest", !.seq_rx = 0, !.session_id = h,
                              !.rx = derive_cipher(h, h, "c2s"),
                              !.tx = derive_cipher(h, h, "s2c")]
       IN  IF e.ext_info THEN write_sealed(keyed, Msg("ext_info")) ELSE keyed

read_service_request(e, m) ==
  IF m.kind # "service" THEN reject_sealed(e, "expected-service-request")
  ELSE IF m.name # "ssh-userauth" THEN reject_sealed(e, "service-not-available")
  ELSE [write_sealed(e, Msg("accept")) EXCEPT !.stage = "UserAuth"]
-----------------------------------------------------------------------------
(* Authentication.  A request is refused by method ("refused"), names a    *)
(* known or an unknown key, and is signed well, signed badly or a probe.   *)

\* Mutant: one request too many.
spend_off_by_one(e, failed, answer) ==
  LET spent == [e EXCEPT !.attempts = @ + 1, !.failures = IF failed THEN @ + 1 ELSE @]
  IN  IF spent.attempts > MAX_AUTH_ATTEMPTS
      THEN reject_sealed(spent, "too-many-auth-attempts")
      ELSE write_sealed(spent, Msg(answer))

\* Mutant: a probe for a known key is free.
spend_failures_only(e, failed, answer) ==
  LET spent == [e EXCEPT !.attempts = IF failed THEN @ + 1 ELSE @,
                         !.failures = IF failed THEN @ + 1 ELSE @]
  IN  IF spent.attempts >= MAX_AUTH_ATTEMPTS
      THEN reject_sealed(spent, "too-many-auth-attempts")
      ELSE write_sealed(spent, Msg(answer))

\* The request spends an attempt; the budget ends the connection.
spend(e, failed, answer) ==
  LET spent == [e EXCEPT !.attempts = @ + 1, !.failures = IF failed THEN @ + 1 ELSE @]
  IN  IF spent.attempts >= MAX_AUTH_ATTEMPTS
      THEN reject_sealed(spent, "too-many-auth-attempts")
      ELSE write_sealed(spent, Msg(answer))

resolve(m) == m.key = "known"

verify_auth_signature(e, m) == m.signature = "valid"

serve(e) == [e EXCEPT !.stage = "Session", !.bytes_rx = 0, !.bytes_tx = 0, !.phase = "Idle"]

authenticate(e, m) ==
  IF m.kind # "auth" THEN reject_sealed(e, "expected-userauth-request")
  ELSE IF m.method # "publickey" THEN spend(e, TRUE, "failure")
  ELSE IF m.signature = "none"
  THEN IF resolve(m) THEN spend(e, FALSE, "pk_ok") ELSE spend(e, TRUE, "failure")
  ELSE IF resolve(m) /\ verify_auth_signature(e, m)
  THEN serve(write_sealed(e, Msg("success")))
  ELSE spend(e, TRUE, "failure")
-----------------------------------------------------------------------------
(* The session: the channel layer reduced to what it writes.               *)

handle_inbound(e, m) ==
  IF e.stage = "Closed" THEN e
  ELSE CASE m.kind = "open" -> write_packet([e EXCEPT !.open = TRUE], Msg("open_reply"))
         [] m.kind = "global" -> write_packet(e, Msg("reply"))
         [] m.kind = "ignore" -> e
         [] m.kind = "data" /\ e.open -> e
         [] OTHER -> protocol_disconnect(e, "unexpected-channel-message")

rekey_active(e) == e.phase # "Idle"

\* Mutant: the byte trigger alone.
rekey_due_by_bytes(e) == e.bytes_rx >= MaxBytes \/ e.bytes_tx >= MaxBytes

rekey_due(e) ==
  \/ e.bytes_rx >= MaxBytes \/ e.bytes_tx >= MaxBytes
  \/ e.seq_rx >= MaxPackets \/ e.seq_tx >= MaxPackets

begin_rekey(e) ==
  [write_packet(e, KexReply(e.i_s + 1))
     EXCEPT !.phase = "SentKexInit", !.i_s = @ + 1, !.begun = @ + 1]

\* Mutant: a guessed packet is never skipped.
negotiate_rekey_no_skip(e, m) ==
  IF m.offer # "ok" THEN reject_sealed([e EXCEPT !.phase = "Idle"], m.offer)
  ELSE [e EXCEPT !.phase = "AwaitHybridInit", !.i_c = m.n]

\* Mutant: a right guess is skipped like a wrong one.
negotiate_rekey_skips_all(e, m) ==
  IF m.offer # "ok" THEN reject_sealed([e EXCEPT !.phase = "Idle"], m.offer)
  ELSE [e EXCEPT !.phase = IF m.guess = "none" THEN "AwaitHybridInit" ELSE "SkipGuessed",
                 !.i_c = m.n]

\* A refused or malformed re-key offer disconnects.
negotiate_rekey(e, m) ==
  IF m.offer # "ok" THEN reject_sealed([e EXCEPT !.phase = "Idle"], m.offer)
  ELSE [e EXCEPT !.phase = IF m.guess = "wrong" THEN "SkipGuessed" ELSE "AwaitHybridInit",
                 !.i_c = m.n]

\* Reply and NEWKEYS go out under the old cipher, then tx switches; the
\* receive cipher waits for the peer's NEWKEYS.
complete_rekey_reply(e, m) ==
  IF m.half # "ok" THEN reject_sealed([e EXCEPT !.phase = "Idle"], m.half)
  ELSE LET h == exchange_hash(e) IN
       [write_packet(write_packet(e, Msg("hybrid_reply")), Msg("newkeys"))
          EXCEPT !.tx = derive_cipher(h, e.session_id, "s2c"), !.seq_tx = 0, !.sealed = 0,
                 !.new_rx = derive_cipher(h, e.session_id, "c2s"),
                 !.phase = "AwaitNewKeys"]

\* What the half-duplex window cannot answer waits for its end.
pass_to_channel(e, m) ==
  IF m.kind = "data" THEN handle_inbound(e, m)
  ELSE IF Len(e.deferred) >= MAX_DEFERRED
  THEN protocol_disconnect(e, "too-many-deferred-during-rekey")
  ELSE [e EXCEPT !.deferred = Append(@, m)]

\* Mutant: the receive counter goes on under the new keys.
install_rx_no_reset(e) ==
  [e EXCEPT !.rx = e.new_rx, !.new_rx = Plain, !.opened = 0,
            !.bytes_rx = 0, !.bytes_tx = 0, !.phase = "Idle", !.deferred = <<>>]

install_rx(e) ==
  [e EXCEPT !.rx = e.new_rx, !.new_rx = Plain, !.seq_rx = 0, !.opened = 0,
            !.bytes_rx = 0, !.bytes_tx = 0, !.phase = "Idle", !.deferred = <<>>]

\* The new keys, then what waited, in order.
drain_deferred(e) ==
  LET n == Len(e.deferred)
      drained[k \in 0..n] ==
        IF k = 0 THEN install_rx(e) ELSE handle_inbound(drained[k - 1], e.deferred[k])
  IN  drained[n]

step_rekey(e, m) ==
  CASE e.phase = "Idle" ->
         negotiate_rekey(write_packet([e EXCEPT !.i_s = @ + 1], KexReply(e.i_s + 1)), m)
    [] e.phase = "SentKexInit" /\ m.kind = "kexinit" -> negotiate_rekey(e, m)
    [] e.phase = "SentKexInit" /\ m.kind # "kexinit" -> pass_to_channel(e, m)
    [] e.phase = "SkipGuessed" -> [e EXCEPT !.phase = "AwaitHybridInit"]
    [] e.phase = "AwaitHybridInit" /\ m.kind = "hybrid_init" -> complete_rekey_reply(e, m)
    [] e.phase = "AwaitNewKeys" /\ m.kind = "newkeys" ->
         drain_deferred(e)
    [] OTHER -> protocol_disconnect([e EXCEPT !.phase = "Idle"], "unexpected-during-rekey")

session(e, m) ==
  LET turned == [e EXCEPT !.pc = "head"]
  IN  IF rekey_active(e) \/ m.kind = "kexinit" THEN step_rekey(turned, m)
      ELSE handle_inbound(turned, m)
-----------------------------------------------------------------------------
(* The server's steps.                                                     *)

MayRead == s.stage \notin {"Version", "Closed"} /\ (s.stage = "Session" => s.pc = "select")

handle(m) ==
  CASE s.stage = "KexInit" -> exchange_kexinit(read_plain(s), m)
    [] s.stage = "SkipGuessed" -> [read_plain(s) EXCEPT !.stage = "HybridInit"]
    [] s.stage = "HybridInit" -> run_hybrid(read_plain(s), m)
    [] s.stage = "NewKeys" -> exchange_newkeys(read_plain(s), m)
    [] s.stage = "ServiceRequest" -> read_service_request(read_sealed(s), m)
    [] s.stage = "UserAuth" -> authenticate(read_sealed(s), m)
    [] s.stage = "Session" -> session(read_packet(s), m)

\* One packet is read and handled; one that does not open ends the
\* connection without an answer.
server_reads ==
  /\ MayRead
  /\ c.wire # <<>>
  /\ LET p == Head(c.wire) IN
       /\ s' = IF opens(s, p) THEN handle(p.msg) ELSE close(s, "packet-auth-failed")
       /\ requests' = requests + (IF s.stage = "UserAuth" /\ p.msg.kind = "auth" THEN 1 ELSE 0)
  /\ c' = [c EXCEPT !.wire = Tail(@)]
  /\ UNCHANGED output

\* One turn of drive's loop: up to Burst packets of output, then a re-key if
\* one is due, by count or by time.
may_rekey(e) == e.open

output_burst(e, n) ==
  LET flushed[k \in 0..n] == IF k = 0 THEN e ELSE write_packet(flushed[k - 1], Msg("output"))
  IN  flushed[n]

head_of_loop(n, time) ==
  /\ s.stage = "Session"
  /\ s.pc = "head" \/ n > 0 \/ time
  /\ n > 0 => s.open /\ ~rekey_active(s)
  /\ output + n <= MaxOutput
  /\ LET flushed == output_burst(s, n)
         due == ~rekey_active(s) /\ may_rekey(s) /\ (rekey_due(flushed) \/ time)
     IN  /\ time => due
         /\ due => s.begun < MaxRekeys
         /\ s' = [(IF due THEN begin_rekey(flushed) ELSE flushed) EXCEPT !.pc = "select"]
  /\ output' = output + n
  /\ UNCHANGED <<c, requests>>

rekey_timeout ==
  /\ s.stage = "Session" /\ s.pc = "select"
  /\ rekey_active(s)
  /\ s' = reject_sealed(s, "rekey-timeout")
  /\ UNCHANGED <<c, output, requests>>

\* The peer's EOF.
peer_closed ==
  /\ c.state = "gone"
  /\ c.wire = <<>>
  /\ MayRead
  /\ s' = close(s, "io")
  /\ UNCHANGED <<c, output, requests>>
-----------------------------------------------------------------------------
(* The client, external: a strict-kex peer.                                *)

client_alive == c.state # "gone" /\ c.fault = "none"

\* KEXINIT, with the packet a guess brings along.
send_kexinit(e, guess) ==
  LET sent == put([e EXCEPT !.i_c = @ + 1, !.guess = guess, !.phase = "Sent"],
                          KexInit(e.i_c + 1, guess, e.ext))
  IN  CASE guess = "none" -> sent
        [] guess = "wrong" -> put(sent, Msg("guess"))
        [] guess = "right" -> put(sent, HybridInit)

client_kexinit ==
  /\ client_alive
  /\ c.phase = "Idle"
  /\ c.i_c = 0 \/ (c.state = "session" /\ c.i_c <= MaxRekeys)
  /\ \E guess \in c.profile.guesses : c' = send_kexinit(c, guess)
  /\ UNCHANGED <<s, output, requests>>

send_hybrid(e, n) ==
  LET known == [e EXCEPT !.i_s = n, !.phase = "AwaitReply"]
  IN  IF e.guess = "right" THEN known
      ELSE put(known, HybridInit)

client_newkeys(e) ==
  LET h == exchange_hash(e)
      sid == IF e.session_id = None THEN h ELSE e.session_id
  IN  [put(e, Msg("newkeys"))
         EXCEPT !.phase = "AwaitNewKeys", !.session_id = sid, !.seq_tx = 0,
                !.tx = derive_cipher(h, sid, "c2s"),
                !.new_rx = derive_cipher(h, sid, "s2c")]

\* After its KEXINIT the server may send nothing but the exchange.
receive(e, m) ==
  CASE m.kind = "disconnect" -> [e EXCEPT !.state = "gone"]
    [] m.kind = "kexinit" /\ e.phase = "Idle" -> send_hybrid(send_kexinit(e, "none"), m.n)
    [] m.kind = "kexinit" /\ e.phase = "Sent" -> send_hybrid(e, m.n)
    [] m.kind = "hybrid_reply" /\ e.phase = "AwaitReply" -> client_newkeys(e)
    [] m.kind = "newkeys" /\ e.phase = "AwaitNewKeys" ->
         [e EXCEPT !.phase = "Idle", !.rx = e.new_rx, !.seq_rx = 0]
    [] m.kind \in {"ext_info", "reply", "output"} /\ e.phase \in {"Idle", "Sent"} -> e
    [] m.kind = "open_reply" /\ e.phase \in {"Idle", "Sent"} -> [e EXCEPT !.open = TRUE]
    [] m.kind \in {"accept", "failure", "pk_ok"} -> [e EXCEPT !.state = "auth"]
    [] m.kind = "success" -> [e EXCEPT !.state = "session"]
    [] OTHER -> [e EXCEPT !.fault = "unexpected-packet"]

client_reads ==
  /\ client_alive
  /\ s.wire # <<>>
  /\ LET p == Head(s.wire)
         got == [c EXCEPT !.seq_rx = next_seq(@), !.lag = 0]
     IN  c' = IF opens(c, p) THEN receive(got, p.msg)
              ELSE [c EXCEPT !.fault = "packet-auth-failed"]
  /\ s' = [s EXCEPT !.wire = Tail(@)]
  /\ UNCHANGED <<output, requests>>

\* One request at a time before authentication, anything after it.
client_offers ==
  CASE c.state = "transport" -> {[kind |-> "service", name |-> "ssh-userauth"]}
    [] c.state = "auth" -> c.profile.logins
    [] c.state = "session" -> {m \in c.profile.session : m.kind = "data" => c.open}
    [] OTHER -> {}

awaits == [transport |-> "accepting", auth |-> "authenticating", session |-> "session"]

client_traffic ==
  /\ client_alive
  /\ c.sent < c.profile.traffic
  /\ c.lag < MaxLag /\ Len(c.wire) <= MaxLag
  /\ \/ \E m \in c.profile.rogue :
          c' = [put(c, m) EXCEPT !.sent = @ + 1]
     \/ /\ c.tx # Plain
        /\ c.phase \in {"Idle", "AwaitNewKeys"}
        /\ \E m \in client_offers :
             c' = [put(c, m) EXCEPT
                     !.sent = @ + 1, !.state = awaits[c.state],
                     !.lag = IF s.wire = <<>> THEN 0 ELSE @ + 1]
  /\ UNCHANGED <<s, output, requests>>

client_leaves ==
  /\ client_alive
  /\ c' = [c EXCEPT !.state = "gone"]
  /\ UNCHANGED <<s, output, requests>>
-----------------------------------------------------------------------------
Server ==
  \/ version_exchange
  \/ server_reads
  \/ \E n \in 0..Burst, time \in BOOLEAN : head_of_loop(n, time)
  \/ peer_closed

Client == client_kexinit \/ client_reads \/ client_traffic

\* The connection is closed, or the bound on re-keys stops the model.
Over ==
  /\ s.stage = "Closed" \/ (s.begun = MaxRekeys /\ s.pc = "head")
  /\ UNCHANGED vars

Next == Server \/ rekey_timeout \/ Client \/ client_leaves \/ Over

Spec == Init /\ [][Next]_vars

\* Both ends read what has arrived; the driver's loop turns.
Fairness ==
  /\ WF_vars(server_reads)
  /\ WF_vars(head_of_loop(0, FALSE))
  /\ WF_vars(client_reads)

FairSpec == Spec /\ Fairness
-----------------------------------------------------------------------------
(* Properties.                                                             *)

Ciphers == {Plain} \cup
  {derive_cipher(h, sid, d) : h, sid \in (1..2 * MaxRekeys + 2) \X (1..2 * MaxRekeys + 2),
                              d \in {"c2s", "s2c"}}

\* The type of the transport's state: stages, re-key phases, counters within
\* the width of a sequence number and the deferred queue within its bound.
TypeOK ==
  /\ s.stage \in {"Version", "KexInit", "SkipGuessed", "HybridInit", "NewKeys",
                  "ServiceRequest", "UserAuth", "Session", "Closed"}
  /\ s.phase \in {"Idle", "SentKexInit", "SkipGuessed", "AwaitHybridInit", "AwaitNewKeys"}
  /\ {s.seq_tx, s.seq_rx, c.seq_tx, c.seq_rx} \subseteq 0..SeqRange - 1
  /\ {s.tx, s.rx, s.new_rx, c.tx, c.rx} \subseteq Ciphers
  /\ s.attempts \in 0..MAX_AUTH_ATTEMPTS /\ s.failures \in 0..s.attempts
  /\ Len(s.deferred) \in 0..MAX_DEFERRED

Conforming == c.profile.rogue = {}

\* However key exchanges of the two sides overlap, and whatever is on the
\* wire when they do, every packet opens: sender and receiver agree on the
\* key schedule and on the sequence number (seq resets of exchange_newkeys,
\* complete_rekey_reply and step_rekey).
KeysInStep == Conforming =>
  /\ s.reason # "packet-auth-failed"
  /\ c.fault # "packet-auth-failed"

\* A client that keeps the protocol is never refused for it, and never sees
\* the server break the exchange (step_rekey, drive's half-duplex window).
ConformingClientServed == Conforming =>
  /\ c.fault = "none"
  /\ s.reason \in {"none", "bad-identification", "io", "rekey-timeout", "too-many-auth-attempts"}

\* No sequence number is used twice under one key schedule, in either
\* direction: the packet trigger re-keys before a counter wraps
\* (RekeyThresholds::max_packets).
NonceUnique == s.sealed <= SeqRange /\ s.opened <= SeqRange

\* Every authentication request spends budget, a probe for a known key too:
\* the connection has left UserAuth by the MAX_AUTH_ATTEMPTS-th (authenticate).
AuthBudget ==
  /\ requests <= MAX_AUTH_ATTEMPTS
  /\ requests = MAX_AUTH_ATTEMPTS => s.stage # "UserAuth"

\* A re-key either side starts comes to its end, simultaneous starts and
\* wrong guesses included, without help from the deadline (step_rekey).
RekeyCompletes == rekey_active(s) ~> (~rekey_active(s) \/ s.stage = "Closed" \/ c.state = "gone")
\* Through overlapping re-keys both ends stay on one key and one number, and no
\* number serves twice under a key (complete_rekey_reply, step_rekey).
KeysExact == TypeOK /\ KeysInStep /\ NonceUnique
=============================================================================
