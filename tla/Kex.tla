--------------------------------- MODULE Kex ---------------------------------
(***************************************************************************)
(* The content of the key exchange (crates/quantumssh-core/src/kex.rs with *)
(* host_key.rs, composite.rs and the steps of transport.rs that call       *)
(* them): what is offered, what is negotiated, which secret and which keys *)
(* come out, and what the signature covers.  Round 1 is the handshake, in  *)
(* the clear; later rounds are re-keys, under the keys of the round before.*)
(*                                                                         *)
(* Cryptography is symbolic: a hash, a shared secret or a signature is the *)
(* record of what it was made from.  The client is external and follows    *)
(* RFC 4253; in round 1 the network may exchange a message for another, up *)
(* to MaxTrouble times together with failures of the random source.        *)
(***************************************************************************)
EXTENDS Naturals, Sequences, SequencesExt, FiniteSets

CONSTANTS
  Offers,       \* KEXINITs a client may send: its lists, whether a guess follows
  Inits,        \* what HYBRID_INIT may hold: [ek, pk, fault]
  Rounds,       \* bound: key exchanges on the connection
  MaxTrouble    \* bound: altered messages and failed random draws

ASSUME KexAssumption ==
  /\ Rounds \in Nat \ {0} /\ MaxTrouble \in Nat
  /\ \A o \in Offers : o.kind = "kexinit" /\ {o.enc_c2s, o.enc_s2c} \subseteq Seq(STRING)

VARIABLES
  s,         \* the server: its stage and what the stage holds
  c,         \* the client, external
  c2s, s2c,  \* messages under way
  trouble,   \* messages altered and draws failed so far
  used       \* history: keys the server has installed

vars == <<s, c, c2s, s2c, trouble, used>>

KEX_ALGORITHM == "mlkem768x25519"
STRICT_KEX_CLIENT == "kex-strict-c"
HOST_KEY_LIST == "ssh-mldsa44-ed25519"
ENCRYPTION_LIST == <<"chacha20-poly1305", "aes256-gcm">>
COMPRESSION_LIST == "none"
None == <<>>
Markers == {STRICT_KEX_CLIENT, "kex-strict-s", "ext-info-c", "ext-info-s"}

\* build_kexinit, build_rekey_kexinit: the marker only in round 1.
build_kexinit(round) ==
  [kind |-> "kexinit", cookie |-> <<"s", round>>,
   kex |-> IF round = 1 THEN <<KEX_ALGORITHM, "kex-strict-s">> ELSE <<KEX_ALGORITHM>>]

Init ==
  /\ s = [stage |-> "KexInit", round |-> 1, reason |-> "none", session_id |-> None,
          i_s |-> None, i_c |-> None, agreed |-> None, pair |-> None]
  /\ c = [stage |-> "start", round |-> 1, i_c |-> None, i_s |-> None, init |-> None,
          session_id |-> None, pair |-> None]
  /\ c2s = <<>> /\ s2c = <<>>
  /\ trouble = 0
  /\ used = {}
-----------------------------------------------------------------------------
(* The server's computations.                                              *)

contains(list, name) == \E i \in DOMAIN list : list[i] = name

first_in(list, S) == SelectInSeq(list, LAMBDA n : n \in S)

\* Mutant: the client's first cipher, offered or not.
pick_first(list) == IF list = <<>> THEN "none" ELSE list[1]

\* Mutant: the server's own order decides.
pick_ours(list) ==
  LET i == first_in(ENCRYPTION_LIST, Range(list)) IN IF i = 0 THEN "none" ELSE ENCRYPTION_LIST[i]

\* The first cipher on the client's list that the server offers.
pick(list) ==
  LET i == first_in(list, Range(ENCRYPTION_LIST)) IN IF i = 0 THEN "none" ELSE list[i]

\* Mutant: a packet announced by first_kex_packet_follows is always skipped.
skip_guessed_always(peer) == peer.follows

\* The guess is wrong unless both first names are the negotiated ones.
skip_guessed(peer) ==
  peer.follows /\ (Head(peer.kex) # KEX_ALGORITHM \/ Head(peer.hostkeys) # HOST_KEY_LIST)

\* Why a peer's KEXINIT is refused, in the order of the checks.
refusal(peer, initial) ==
  IF ~peer.wire THEN "malformed-kexinit"
  ELSE IF ~contains(SelectSeq(peer.kex, LAMBDA n : n \notin Markers), KEX_ALGORITHM)
  THEN "no-hybrid-kex"
  ELSE IF initial /\ ~contains(peer.kex, STRICT_KEX_CLIENT) THEN "no-strict-kex"
  ELSE IF ~contains(peer.hostkeys, HOST_KEY_LIST) THEN "no-host-key-algorithm"
  ELSE IF pick(peer.enc_c2s) = "none" THEN "no-cipher-c2s"
  ELSE IF pick(peer.enc_s2c) = "none" THEN "no-cipher-s2c"
  ELSE IF ~contains(peer.comp_c2s, COMPRESSION_LIST) \/ ~contains(peer.comp_s2c, COMPRESSION_LIST)
  THEN "no-compression"
  ELSE "none"

\* negotiate, when nothing is refused
negotiate(peer, initial) ==
  [c2s |-> pick(peer.enc_c2s), s2c |-> pick(peer.enc_s2c),
   ext_info |-> initial /\ contains(peer.kex, "ext-info-c"),
   skip |-> skip_guessed(peer)]

\* hybrid_exchange: both halves are validated, the ML-KEM half first.
init_refusal(init) ==
  CASE init.fault = "wire" -> "malformed-hybrid-init"
    [] init.fault = "length" -> "bad-hybrid-init-length"
    [] init.fault = "mlkem" -> "invalid-mlkem-key"
    [] init.fault = "x25519" -> "invalid-x25519-key"
    [] OTHER -> "none"

\* The server's fresh share in a round; the secret is made of both halves.
hybrid_exchange(init, round) ==
  [reply |-> [ct |-> <<init.ek, round>>, pk |-> <<"s", round>>],
   secret |-> [pq |-> <<init.ek, round>>, cl |-> <<init.pk, <<"s", round>>>>]]

\* The identification lines, the same in every round, are left out.
exchange_hash(i_c, i_s, host_key, init, reply, secret) ==
  <<i_c, i_s, host_key, init, reply, secret>>

HostKey == "host-key"

\* sign: both halves of the composite, over one message.
sign(key, message) == [mldsa |-> <<key, message>>, ed25519 |-> <<key, message>>]

derive_key(secret, hash, letter, session_id) == <<secret, hash, letter, session_id>>

\* Mutant: both directions take the initial vector of the first.
derive_cipher_pair_one_iv(secret, hash, session_id, agreed) ==
  [rx |-> [cipher |-> agreed.c2s, key |-> derive_key(secret, hash, "C", session_id),
           iv |-> derive_key(secret, hash, "A", session_id)],
   tx |-> [cipher |-> agreed.s2c, key |-> derive_key(secret, hash, "D", session_id),
           iv |-> derive_key(secret, hash, "A", session_id)]]

\* derive_cipher_pair: C and A receive, D and B send.
derive_cipher_pair(secret, hash, session_id, agreed) ==
  [rx |-> [cipher |-> agreed.c2s, key |-> derive_key(secret, hash, "C", session_id),
           iv |-> derive_key(secret, hash, "A", session_id)],
   tx |-> [cipher |-> agreed.s2c, key |-> derive_key(secret, hash, "D", session_id),
           iv |-> derive_key(secret, hash, "B", session_id)]]
-----------------------------------------------------------------------------
(* The server's steps.                                                     *)

\* The connection ends, with a DISCONNECT where one can be sent.
reject(reason) ==
  /\ s' = [s EXCEPT !.stage = "rejected", !.reason = reason]
  /\ s2c' = Append(s2c, [kind |-> "disconnect"])

\* exchange_kexinit and begin_rekey send the server's KEXINIT first; a re-key
\* begins only once the client's NEWKEYS of the round before has come.  The
\* cookie is random.
server_kexinit ==
  /\ s.stage = "KexInit" /\ c.round = s.round
  /\ \/ /\ s' = [s EXCEPT !.stage = "Sent", !.i_s = build_kexinit(s.round)]
        /\ s2c' = Append(s2c, build_kexinit(s.round))
        /\ UNCHANGED trouble
     \/ trouble < MaxTrouble /\ trouble' = trouble + 1 /\ reject("rng-failure")
  /\ UNCHANGED <<c, c2s, used>>

server_negotiates ==
  /\ s.stage = "Sent" /\ c2s # <<>>
  /\ c2s' = Tail(c2s)
  /\ LET m == Head(c2s)
         why == refusal(m, s.round = 1)
     IN  IF m.kind # "kexinit" THEN reject("first-packet-not-kexinit")
         ELSE IF why # "none" THEN reject(why)
         ELSE /\ s' = [s EXCEPT !.stage = "HybridInit", !.agreed = negotiate(m, s.round = 1), !.i_c = m]
              /\ UNCHANGED s2c
  /\ UNCHANGED <<c, trouble, used>>

\* The packet after a wrong guess is dropped unread.
server_skips ==
  /\ s.stage = "HybridInit" /\ s.agreed.skip /\ c2s # <<>>
  /\ c2s' = Tail(c2s)
  /\ s' = [s EXCEPT !.agreed.skip = FALSE]
  /\ UNCHANGED <<c, s2c, trouble, used>>

\* The keys of a completed exchange; the first hash names the session.
installs(x, hash) ==
  LET id == IF s.round = 1 THEN hash ELSE s.session_id
      pair == derive_cipher_pair(x.secret, hash, id, s.agreed)
  IN  /\ s' = [s EXCEPT !.stage = IF s.round < Rounds THEN "KexInit" ELSE "finished",
                        !.round = @ + 1, !.session_id = id, !.pair = pair]
      /\ used' = used \cup {pair.rx.key, pair.rx.iv, pair.tx.key, pair.tx.iv}

\* run_hybrid, complete_rekey_reply; the random source may fail.
server_replies ==
  LET m == Head(c2s)
      x == hybrid_exchange(m.init, s.round)
      hash == exchange_hash(s.i_c, s.i_s, HostKey, m.init, x.reply, x.secret)
  IN
  /\ s.stage = "HybridInit" /\ ~s.agreed.skip /\ c2s # <<>>
  /\ c2s' = Tail(c2s)
  /\ \/ m.kind # "init" /\ reject("expected-hybrid-init") /\ UNCHANGED <<used, trouble>>
     \/ /\ m.kind = "init" /\ init_refusal(m.init) # "none"
        /\ reject(init_refusal(m.init)) /\ UNCHANGED <<used, trouble>>
     \/ /\ m.kind = "init" /\ init_refusal(m.init) = "none" /\ trouble < MaxTrouble
        /\ reject("rng-failure") /\ trouble' = trouble + 1 /\ UNCHANGED used
     \/ /\ m.kind = "init" /\ init_refusal(m.init) = "none"
        /\ installs(x, hash)
        /\ s2c' = Append(s2c, [kind |-> "reply", host_key |-> HostKey, reply |-> x.reply,
                               signature |-> sign(HostKey, hash)])
        /\ UNCHANGED trouble
  /\ UNCHANGED c

\* The handshake budget, or the re-key timeout, ends an exchange in which both
\* ends wait or the client has left.
server_times_out ==
  /\ s.stage \in {"KexInit", "Sent", "HybridInit"}
  /\ (c.stage = "waiting" /\ c2s = <<>> /\ s2c = <<>>) \/ c.stage = "gave up"
  /\ reject("timeout")
  /\ UNCHANGED <<c, c2s, trouble, used>>
-----------------------------------------------------------------------------
(* The client, external.  RFC 4253 section 7.1: in each slot the first name *)
(* on the client's list that the server also lists.                         *)

Choice(list, ours) == list[Min({i \in DOMAIN list : list[i] \in ours})]

Compatible(o, initial) ==
  /\ o.wire
  /\ KEX_ALGORITHM \in Range(o.kex) /\ (initial => STRICT_KEX_CLIENT \in Range(o.kex))
  /\ HOST_KEY_LIST \in Range(o.hostkeys) /\ "none" \in Range(o.comp_c2s) \cap Range(o.comp_s2c)
  /\ Range(o.enc_c2s) \cap Range(ENCRYPTION_LIST) # {}
  /\ Range(o.enc_s2c) \cap Range(ENCRYPTION_LIST) # {}

\* A guess is for the first algorithms listed; a wrong one is a packet of
\* another method.
RightGuess(o) == o.kex[1] = KEX_ALGORITHM /\ o.hostkeys[1] = HOST_KEY_LIST

ClientInit(init) == [kind |-> "init", init |-> init]

client_offers ==
  /\ c.stage = "start"
  /\ \E o \in Offers, init \in Inits :
       /\ c' = [c EXCEPT !.stage = "offered", !.i_c = o, !.init = init]
       /\ c2s' = c2s \o <<o>> \o
            (IF ~o.follows THEN <<>> ELSE IF RightGuess(o) THEN <<ClientInit(init)>> ELSE <<[kind |-> "guess"]>>)
  /\ UNCHANGED <<s, s2c, trouble, used>>

client_continues ==
  /\ c.stage = "offered" /\ s2c # <<>> /\ Head(s2c).kind = "kexinit"
  /\ s2c' = Tail(s2c)
  /\ c' = [c EXCEPT !.stage = "waiting", !.i_s = Head(s2c)]
  /\ c2s' = IF c.i_c.follows /\ RightGuess(c.i_c) THEN c2s ELSE Append(c2s, ClientInit(c.init))
  /\ UNCHANGED <<s, trouble, used>>

\* It goes on only if the host key it knows signed the hash it computes.
client_verifies ==
  LET m == Head(s2c)
      secret == [pq |-> m.reply.ct, cl |-> <<c.init.pk, m.reply.pk>>]
      hash == <<c.i_c, c.i_s, HostKey, c.init, m.reply, secret>>
      id == IF c.round = 1 THEN hash ELSE c.session_id
      good == m.kind = "reply" /\ m.host_key = HostKey /\ m.reply.ct[1] = c.init.ek
              /\ m.signature = [mldsa |-> <<HostKey, hash>>, ed25519 |-> <<HostKey, hash>>]
  IN
  /\ c.stage = "waiting" /\ s2c # <<>>
  /\ s2c' = Tail(s2c)
  /\ c' = IF ~good THEN [c EXCEPT !.stage = "gave up"]
          ELSE [c EXCEPT !.stage = IF c.round < Rounds THEN "start" ELSE "finished",
                         !.round = @ + 1, !.session_id = id,
                         !.pair = [tx |-> [cipher |-> Choice(c.i_c.enc_c2s, Range(ENCRYPTION_LIST)),
                                           key |-> <<secret, hash, "C", id>>, iv |-> <<secret, hash, "A", id>>],
                                   rx |-> [cipher |-> Choice(c.i_c.enc_s2c, Range(ENCRYPTION_LIST)),
                                           key |-> <<secret, hash, "D", id>>, iv |-> <<secret, hash, "B", id>>]]]
  /\ UNCHANGED <<s, c2s, trouble, used>>

client_told ==
  /\ c.stage = "offered" /\ s2c # <<>> /\ Head(s2c).kind = "disconnect"
  /\ c' = [c EXCEPT !.stage = "gave up"] /\ s2c' = Tail(s2c)
  /\ UNCHANGED <<s, c2s, trouble, used>>

\* In the clear, until the client has its first keys, a message may arrive as
\* another.
Others(m) ==
  CASE m.kind = "kexinit" /\ m.cookie[1] = "c" -> Offers \cup {[kind |-> "guess"]}
    [] m.kind = "init" -> {ClientInit(i) : i \in Inits} \cup {ClientInit([ek |-> "x", pk |-> "x", fault |-> "none"])}
    [] m.kind = "reply" -> {[m EXCEPT !.reply.pk = "x"], [m EXCEPT !.signature = sign("x", "x")]}
    [] OTHER -> {}

altered ==
  /\ trouble < MaxTrouble /\ c.round = 1
  /\ \/ /\ c2s # <<>> /\ UNCHANGED s2c
        /\ \E m \in Others(Head(c2s)) \ {Head(c2s)} : c2s' = <<m>> \o Tail(c2s)
     \/ /\ s2c # <<>> /\ UNCHANGED c2s
        /\ \E m \in Others(Head(s2c)) \ {Head(s2c)} : s2c' = <<m>> \o Tail(s2c)
  /\ trouble' = trouble + 1
  /\ UNCHANGED <<s, c, used>>
-----------------------------------------------------------------------------
Server == server_kexinit \/ server_negotiates \/ server_skips \/ server_replies
          \/ server_times_out
Client == client_offers \/ client_continues \/ client_verifies \/ client_told

Over ==
  /\ s.stage \in {"rejected", "finished"} /\ c.stage \in {"gave up", "finished"}
  /\ UNCHANGED vars

Next == Server \/ Client \/ altered \/ Over

Spec == Init /\ [][Next]_vars /\ WF_vars(Server) /\ WF_vars(Client)
-----------------------------------------------------------------------------
(* Properties.                                                             *)

\* The ciphers in use are ones the server offers, and each exchange completed
\* left four keys or initial vectors.
TypeOK ==
  /\ s.stage \in {"KexInit", "Sent", "HybridInit", "rejected", "finished"}
  /\ s.round \in 1..Rounds + 1 /\ c.round \in 1..Rounds + 1
  /\ trouble \in 0..MaxTrouble
  /\ s.round > 1 => {s.pair.rx.cipher, s.pair.tx.cipher} \subseteq Range(ENCRYPTION_LIST)

\* When the client has accepted the server's last exchange, both ends use the
\* same ciphers and keys in each direction: the ones of the client's own
\* preference, whatever was altered on the way (negotiate, exchange_hash,
\* derive_cipher_pair).
Agreement ==
  c.round > 1 /\ s.round = c.round => c.pair.tx = s.pair.rx /\ c.pair.rx = s.pair.tx

\* No key or initial vector serves twice: not in both directions, nor in two
\* exchanges of a connection (hybrid_exchange, derive_cipher_pair).
KeysNeverReused == Cardinality(used) = 4 * (s.round - 1)

\* A client whose lists fit gets its exchange, guess or no guess, unless a
\* message was altered or the random source failed: skipping a packet that
\* was meant, or reading one that was not, ends it (negotiate, run_hybrid).
CompatibleServed ==
  \A r \in 1..Rounds :
    (c.round = r /\ c.stage = "offered" /\ Compatible(c.i_c, r = 1) /\ c.init.fault = "none")
      ~> (c.round > r \/ trouble > 0)
\* Every key in use is one of an offered cipher, and fresh (negotiate,
\* derive_cipher_pair).
KeysFresh == TypeOK /\ KeysNeverReused
=============================================================================
