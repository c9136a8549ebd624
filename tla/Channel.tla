------------------------------- MODULE Channel -------------------------------
(***************************************************************************)
(* The session channel (crates/quantumssh-core/src/channel.rs) with the    *)
(* child's I/O tasks (exec.rs) and the phases of a re-key as the driver    *)
(* sees them (transport.rs).                                               *)
(*                                                                         *)
(* d mirrors struct Driver, io mirrors ChildIo and the tasks behind it.    *)
(* One turn of drive's loop is the action head (phases A to E) followed by *)
(* one arm of its select.  The pumps and the reap task run between any two *)
(* driver steps.  The select is biased towards the wire; which arm is      *)
(* ready is left open, so every order the bias allows is a behaviour here. *)
(*                                                                         *)
(* An Option is a sequence of at most one element.  Inbound bytes carry    *)
(* their position in the stream; outbound bytes are counted.  Packet       *)
(* splitting is left out: a flush sends what the window allows.            *)
(***************************************************************************)
EXTENDS Integers, Sequences, SequencesExt

CONSTANTS
  ClientMsgs,      \* the packets a client may send
  MaxMsgs,         \* bound: packets the client sends
  MaxOut,          \* bound: bytes the child writes
  MaxRekeys,       \* bound: re-keys the server begins
  MaxEarly,        \* bound: stdin packets the client sends before a start
  Streams,         \* the child's output pipes, "stdout" among them
  INITIAL_WINDOW, CREDIT_BATCH, MAX_DEFERRED, CHUNK, OUT_QUEUE, STDIN_QUEUE,
  MaxWindow        \* u32::MAX, the largest legal client window

ASSUME ChannelAssumption ==
  /\ {MaxMsgs, MaxOut, MaxRekeys, MaxEarly} \subseteq Nat
  /\ {INITIAL_WINDOW, CREDIT_BATCH, MAX_DEFERRED, CHUNK, OUT_QUEUE, STDIN_QUEUE,
      MaxWindow} \subseteq Nat \ {0}
  /\ "stdout" \in Streams
  /\ \A m \in ClientMsgs :
       /\ m.kind \in {"open", "request", "global", "data", "adjust", "eof", "close", "ignore",
                     "disconnect", "bad", "kexinit", "hybrid_init", "newkeys"}
       /\ m.kind \in {"request", "global"} => m.reply \in BOOLEAN
       /\ m.kind = "open" => m.window \in 0..MaxWindow
       /\ m.kind = "data" => m.len \in Nat
       /\ m.kind = "adjust" => m.add \in Nat

VARIABLES
  pc,        \* head (due: the interval timer fired), select, drain, over
  d,         \* struct Driver
  io,        \* ChildIo, the child and its tasks
  phase,     \* RekeyPhase
  draining,  \* the deferred packets drain_deferred took
  written,   \* the packets the last step wrote, in order
  msgs,      \* packets read from the client
  rekeys,    \* re-keys the server began
  received,  \* history: stdin bytes accepted from the client
  asked,     \* history: messages read, not skipped, that are owed a reply
  answered   \* history: replies written

vars == <<pc, d, io, phase, draining, written, msgs, rekeys, received, asked, answered>>
clientVars == <<msgs, received, asked>>

None == <<>>
Some(x) == <<x>>

Total(ns) ==
  LET sum[i \in 0..Len(ns)] == IF i = 0 THEN 0 ELSE sum[i - 1] + ns[i] IN sum[Len(ns)]
BytesIn(chunks) == Total([i \in DOMAIN chunks |-> Len(chunks[i])])

\* ChildChunk::Exited on the output queue; any other chunk is its length.
Exited == 0

NoChild ==
  [child |-> "none", kill |-> FALSE, on_pty |-> FALSE,
   out |-> <<>>, pumps |-> [s \in Streams |-> "done"], produced |-> 0,
   stdin_tx |-> FALSE, stdin_q |-> <<>>, stdin_pump |-> "done", rest |-> <<>>,
   delivered |-> 0, uncredited |-> 0, credits |-> <<>>, saw_eof |-> FALSE]

new ==
  [state |-> "BeforeOpen", pty |-> FALSE, out_window |-> 0, in_window |-> 0,
   credit_pending |-> 0, pending_out |-> None, pending_stdin |-> None,
   pre_exec_stdin |-> <<>>, client_eof |-> FALSE, early_close |-> FALSE,
   exit_status |-> None, child_out_closed |-> FALSE, consumed_closed |-> FALSE,
   command |-> FALSE, bytes_received |-> 0, bytes_sent |-> 0, finished |-> 0,
   deferred |-> <<>>]

Init ==
  /\ pc = "head"
  /\ d = new
  /\ io = NoChild
  /\ phase = "Idle"
  /\ draining = <<>>
  /\ written = <<>>
  /\ msgs = 0
  /\ rekeys = 0
  /\ received = 0
  /\ asked = 0
  /\ answered = 0

has_child == io.child # "none"
rekey_active == phase # "Idle"
may_emit_output(s) == s \in {"Running", "Draining"}
may_rekey(s) == s \in {"Running", "Idle", "Draining"}
-----------------------------------------------------------------------------
(* ChildIo.                                                                *)

spawn(pty) ==
  [NoChild EXCEPT !.child = "running", !.on_pty = pty,
                  !.pumps = [s \in Streams |-> IF pty /\ s # "stdout" THEN "done"
                                               ELSE "open"],
                  !.stdin_tx = TRUE, !.stdin_pump = "open"]

close_stdin(c) == [c EXCEPT !.stdin_tx = FALSE]

\* The stdin pump is gone, and its queue with it.
stdin_gone(c) == [c EXCEPT !.stdin_pump = "done", !.stdin_q = <<>>, !.rest = <<>>]

\* Mutant: the output pumps are left running.
discard_output_kept(c) == c

\* The output pumps are aborted; a PTY's one pump also writes its input.
discard_output(c) ==
  LET quiet == [c EXCEPT !.pumps = [s \in Streams |-> "done"]]
  IN  IF c.on_pty THEN stdin_gone(quiet) ELSE quiet

kill(c) == [c EXCEPT !.kill = TRUE]

\* Dropping ChildIo aborts the pumps; the dropped kill sender means kill.
drop_io(c) ==
  IF c.child = "none" THEN c
  ELSE [kill(close_stdin(stdin_gone(discard_output(c)))) EXCEPT !.out = <<>>, !.credits = <<>>]

\* Mutant: one chunk too many.
stdin_full_late(c) == Len(c.stdin_q) > STDIN_QUEUE

stdin_full(c) == Len(c.stdin_q) >= STDIN_QUEUE

\* try_send_stdin hands the chunk back if the queue is full or the pump gone.
refuses_stdin(c) == c.stdin_tx /\ (c.stdin_pump = "done" \/ stdin_full(c))
-----------------------------------------------------------------------------
(* Leaving drive.                                                          *)

\* Mutant: credits still queued are not counted.
emit_finished_early(dd) ==
  IF dd.command /\ dd.finished = 0 THEN [dd EXCEPT !.finished = @ + 1] ELSE dd

\* exec.finished, once, for a started command; queued credits are counted.
emit_finished(dd) ==
  IF dd.command /\ dd.finished = 0
  THEN [dd EXCEPT !.finished = @ + 1, !.bytes_received = @ + Total(io.credits)]
  ELSE dd

ReplyKinds == {"OPEN_REPLY", "GLOBAL_REPLY", "CHANNEL_REPLY"}

replies(w) == Cardinality({i \in DOMAIN w : w[i] \in ReplyKinds})

\* The driver goes on at pc `then` in state dd, having written w.
continue(then, dd, w) ==
  /\ pc' = then
  /\ d' = dd
  /\ written' = w
  /\ answered' = answered + replies(w)

\* Mutant: an error path leaves without exec.finished.
leave_silently(dd, w) ==
  /\ continue("over", dd, w)
  /\ io' = drop_io(io)

\* drive returns and the Driver is dropped, its child with it.
leave(dd, w) ==
  /\ continue("over", emit_finished(dd), w)
  /\ io' = drop_io(io)

protocol_disconnect == leave(d, <<"DISCONNECT">>)
-----------------------------------------------------------------------------
(* One inbound channel packet.  A handler ends at pc `then`.               *)

wants_reply(m) == m.kind = "open" \/ (m.kind \in {"request", "global"} /\ m.reply)

reply(m) ==
  IF ~wants_reply(m) THEN <<>>
  ELSE <<CASE m.kind = "open" -> "OPEN_REPLY"
           [] m.kind = "global" -> "GLOBAL_REPLY"
           [] m.kind = "request" -> "CHANNEL_REPLY">>

\* A second channel and an unknown type are refused.
on_channel_open(m, then) ==
  IF d.state # "BeforeOpen" \/ m.type # "session"
  THEN continue(then, d, reply(m)) /\ UNCHANGED io
  ELSE IF m.max_pkt = 0
  THEN protocol_disconnect
  ELSE /\ continue(then, [d EXCEPT !.state = "Idle", !.out_window = m.window,
                                   !.in_window = INITIAL_WINDOW], reply(m))
       /\ UNCHANGED io

\* The reply goes out before the spawn and may fail; a failed spawn still
\* finishes.
start(m, then) ==
  LET accepted == [d EXCEPT !.command = TRUE, !.pty = FALSE] IN
  \/ /\ continue(then, [accepted EXCEPT !.state = "Running"], reply(m))
     /\ io' = spawn(d.pty)
  \/ /\ continue(then, [accepted EXCEPT !.state = "Draining", !.exit_status = Some("127"),
                                        !.child_out_closed = TRUE,
                                        !.consumed_closed = TRUE], reply(m))
     /\ UNCHANGED io
  \/ leave(accepted, <<>>)

starts_child(m) ==
  /\ d.state = "Idle"
  /\ \/ m.what = "program"              \* exec and shell
     \/ m.what = "sftp" /\ ~d.pty

\* A pty-req is granted in Idle, once; a refusal leaves a granted pair alone.
\* Everything else (window-change included) only replies.
on_channel_request(m, then) ==
  \/ /\ starts_child(m)
     /\ start(m, then)
  \/ /\ ~starts_child(m)
     /\ \E granted \in {FALSE, m.what = "pty" /\ d.state = "Idle" /\ ~d.pty} :
          continue(then, [d EXCEPT !.pty = @ \/ granted], reply(m))
     /\ UNCHANGED io

chunk_of(n) == [i \in 1..n |-> received + i]

\* Mutant: the slot is overwritten instead of appended to.
stash_overwrites(n) ==
  LET taken == [d EXCEPT !.in_window = @ - n] IN
  IF d.state = "Idle"
  THEN [taken EXCEPT !.pre_exec_stdin = Append(@, chunk_of(n))]
  ELSE IF has_child THEN [taken EXCEPT !.pending_stdin = Some(chunk_of(n))] ELSE taken

\* Idle buffers; a child's single slot is filled or appended to; a Draining
\* channel that never had a child drops the data.
stash(n) ==
  LET taken == [d EXCEPT !.in_window = @ - n] IN
  IF d.state = "Idle"
  THEN [taken EXCEPT !.pre_exec_stdin = Append(@, chunk_of(n))]
  ELSE IF has_child
  THEN [taken EXCEPT !.pending_stdin = Some(FlattenSeq(@) \o chunk_of(n))]
  ELSE taken

data_refused(n) == d.client_eof \/ n > d.in_window

on_channel_data(m, then) ==
  IF d.state = "ServerClosed"
  THEN continue(then, d, <<>>) /\ UNCHANGED <<io, received>>
  ELSE IF data_refused(m.len)
  THEN protocol_disconnect /\ UNCHANGED received
  ELSE /\ continue(then, stash(m.len), <<>>)
       /\ received' = received + m.len
       /\ UNCHANGED io

on_window_adjust(m, then) ==
  IF d.out_window + m.add > MaxWindow
  THEN protocol_disconnect
  ELSE continue(then, [d EXCEPT !.out_window = @ + m.add], <<>>) /\ UNCHANGED io

on_channel_eof(m, then) ==
  continue(then, [d EXCEPT !.client_eof = TRUE], <<>>) /\ UNCHANGED io

\* Client closed first: give up the output, kill the child, drain the exit.
on_channel_close(m, then) ==
  IF d.state = "ServerClosed"
  THEN continue(then, [d EXCEPT !.state = "Closed"], <<>>) /\ UNCHANGED io
  ELSE LET closing == [d EXCEPT !.early_close = TRUE, !.pending_out = None,
                                !.state = "Draining"]
       IN  IF has_child
           THEN /\ continue(then, closing, <<>>)
                /\ io' = kill(discard_output(close_stdin(io)))
           ELSE /\ continue(then, [closing EXCEPT !.child_out_closed = TRUE], <<>>)
                /\ UNCHANGED io

ChannelKinds == {"request", "data", "adjust", "eof", "close"}

\* "bad": every malformed, unknown-channel or unexpected packet.
Unexpected == {"bad", "hybrid_init", "newkeys"}

handle_inbound(m, then) ==
  \/ m.kind = "open" /\ on_channel_open(m, then) /\ UNCHANGED received
  \/ /\ m.kind \in Unexpected \/ (m.kind \in ChannelKinds /\ d.state = "BeforeOpen")
     /\ protocol_disconnect
     /\ UNCHANGED received
  \/ /\ d.state # "BeforeOpen"
     /\ \/ m.kind = "request" /\ on_channel_request(m, then) /\ UNCHANGED received
        \/ m.kind = "data" /\ on_channel_data(m, then)
        \/ m.kind = "adjust" /\ on_window_adjust(m, then) /\ UNCHANGED received
        \/ m.kind = "eof" /\ on_channel_eof(m, then) /\ UNCHANGED received
        \/ m.kind = "close" /\ on_channel_close(m, then) /\ UNCHANGED received
  \/ /\ m.kind \in {"global", "ignore"}
     /\ continue(then, d, reply(m))
     /\ UNCHANGED <<io, received>>
  \/ m.kind = "disconnect" /\ leave(d, <<>>) /\ UNCHANGED received
-----------------------------------------------------------------------------
(* Re-keying while the channel is open (step_rekey, pass_to_channel).      *)

\* Mutant: requests are answered inside the window.
passes_requests(m) == m.kind \in {"data", "adjust", "eof", "request"}

\* During the half-duplex window only messages that need no reply go through.
passes(m) == m.kind \in {"data", "adjust", "eof"}

\* Mutant: what needs a reply is dropped.
pass_to_channel_drops(m) ==
  IF passes(m) THEN handle_inbound(m, "head")
  ELSE continue("head", d, <<>>) /\ UNCHANGED <<io, received>>

pass_to_channel(m) ==
  IF passes(m)
  THEN handle_inbound(m, "head")
  ELSE /\ IF Len(d.deferred) >= MAX_DEFERRED
          THEN protocol_disconnect
          ELSE continue("head", [d EXCEPT !.deferred = Append(@, m)], <<>>) /\ UNCHANGED io
       /\ UNCHANGED received

\* The phase a KEXINIT leads to; a rejected offer disconnects instead.
negotiate_rekey(m, w) ==
  IF m.ok
  THEN /\ phase' = IF m.guess THEN "SkipGuessed" ELSE "AwaitHybridInit"
       /\ continue("head", d, w)
       /\ UNCHANGED io
  ELSE /\ phase' = "Idle"
       /\ leave(d, w \o <<"DISCONNECT">>)

step_rekey(m) ==
  \/ /\ phase = "SentKexInit"
     /\ m.kind # "kexinit"
     /\ pass_to_channel(m)
     /\ UNCHANGED <<phase, draining>>
  \/ /\ phase = "SentKexInit"
     /\ m.kind = "kexinit"
     /\ negotiate_rekey(m, <<>>)
     /\ UNCHANGED <<draining, received>>
  \/ /\ phase = "SkipGuessed"
     /\ phase' = "AwaitHybridInit"
     /\ continue("head", d, <<>>)
     /\ UNCHANGED <<io, draining, received>>
  \/ /\ phase = "AwaitHybridInit"
     /\ m.kind = "hybrid_init"
     /\ phase' = "AwaitNewKeys"
     /\ continue("head", d, <<"HYBRID_REPLY", "NEWKEYS">>)
     /\ UNCHANGED <<io, draining, received>>
  \/ /\ phase = "AwaitNewKeys"
     /\ m.kind = "newkeys"
     /\ phase' = "Idle"
     /\ draining' = d.deferred
     /\ continue(IF d.deferred = <<>> THEN "head" ELSE "drain",
                 [d EXCEPT !.deferred = <<>>], <<>>)
     /\ UNCHANGED <<io, received>>
  \/ /\ \/ phase = "AwaitHybridInit" /\ m.kind # "hybrid_init"
        \/ phase = "AwaitNewKeys" /\ m.kind # "newkeys"
     /\ phase' = "Idle"
     /\ protocol_disconnect
     /\ UNCHANGED <<draining, received>>

\* The read arm.
read_packet(m) ==
  /\ pc = "select"
  /\ msgs < MaxMsgs
  /\ m.kind = "data" /\ d.state = "Idle" => Len(d.pre_exec_stdin) < MaxEarly
  /\ msgs' = msgs + 1
  /\ asked' = IF phase = "SkipGuessed" THEN asked ELSE asked + Len(reply(m))
  /\ \/ /\ rekey_active
        /\ step_rekey(m)
     \/ /\ ~rekey_active
        /\ m.kind = "kexinit"
        /\ negotiate_rekey(m, <<"KEXINIT">>)
        /\ UNCHANGED <<draining, received>>
     \/ /\ ~rekey_active
        /\ m.kind # "kexinit"
        /\ handle_inbound(m, "head")
        /\ UNCHANGED <<phase, draining>>
  /\ UNCHANGED rekeys

\* drain_deferred: what was held back is handled in the order it came.
drain_deferred ==
  /\ pc = "drain"
  /\ handle_inbound(Head(draining), IF Len(draining) = 1 THEN "head" ELSE "drain")
  /\ draining' = Tail(draining)
  /\ UNCHANGED <<phase, msgs, rekeys, asked>>
-----------------------------------------------------------------------------
(* The head of the loop: phases A to E.                                    *)

LeastOf(a, b) == IF a <= b THEN a ELSE b

\* (A) What the client's window takes of the pending chunk.
flush_output(dd) ==
  LET n == IF may_emit_output(dd.state) /\ dd.pending_out # None
           THEN LeastOf(dd.pending_out[1], dd.out_window)
           ELSE 0
  IN  [dd EXCEPT !.out_window = @ - n,
                 !.bytes_sent = @ + n,
                 !.pending_out = IF n = 0 THEN @
                                 ELSE IF @[1] = n THEN None ELSE Some(@[1] - n)]

\* (B) The slot is refilled from the pre-exec buffer, then offered to the pump.
refilled(dd) ==
  IF dd.pending_stdin = None /\ dd.pre_exec_stdin # <<>>
  THEN [dd EXCEPT !.pending_stdin = Some(Head(dd.pre_exec_stdin)),
                  !.pre_exec_stdin = Tail(@)]
  ELSE dd

offered(dd) == has_child /\ dd.pending_stdin # None

handed_off(dd) ==
  IF offered(dd) /\ ~refuses_stdin(io) THEN [dd EXCEPT !.pending_stdin = None] ELSE dd

handoff_stdin(dd) == IF has_child THEN handed_off(refilled(dd)) ELSE dd

\* ... and the child's side of it: the queue grows, EOF closes the sender.
eof_reached(dd) == dd.client_eof /\ dd.pending_stdin = None /\ dd.pre_exec_stdin = <<>>

child_after_handoff(before, after) ==
  LET chunk == FlattenSeq(refilled(before).pending_stdin)
      fed   == IF offered(refilled(before)) /\ io.stdin_tx /\ ~refuses_stdin(io)
               THEN [io EXCEPT !.stdin_q = Append(@, chunk)]
               ELSE io
  IN  IF has_child /\ eof_reached(after) THEN close_stdin(fed) ELSE fed

\* Mutant: the batch is granted again and again.
replenish_window_again(dd) ==
  IF dd.credit_pending >= CREDIT_BATCH
  THEN [dd EXCEPT !.in_window = @ + dd.credit_pending]
  ELSE dd

\* (C) Credit goes back in batches.
replenish_window(dd) ==
  IF dd.credit_pending >= CREDIT_BATCH
  THEN [dd EXCEPT !.in_window = @ + dd.credit_pending, !.credit_pending = 0]
  ELSE dd

\* Mutant: the exit status is enough to close.
ready_to_close_on_exit(dd) == dd.state = "Draining" /\ dd.pending_out = None

\* Mutant: the client must have sent EOF.
ready_to_close_after_eof(dd) ==
  dd.state = "Draining" /\ dd.child_out_closed /\ dd.pending_out = None /\ dd.client_eof

\* (E) The terminal sequence.
ready_to_close(dd) ==
  dd.state = "Draining" /\ dd.child_out_closed /\ dd.pending_out = None

terminal_packets(dd) ==
  IF dd.early_close THEN <<"CLOSE">>
  ELSE (IF dd.exit_status = None THEN <<>> ELSE <<"EXIT_STATUS">>) \o <<"EOF", "CLOSE">>

send_terminal(dd) ==
  [dd EXCEPT !.state = IF dd.early_close THEN "Closed" ELSE "ServerClosed"]

\* No channel traffic while a re-key is active: only the stdin hand-off runs.
head_during_rekey ==
  /\ pc = "head"
  /\ rekey_active
  /\ continue("select", handoff_stdin(d), <<>>)
  /\ io' = child_after_handoff(d, handoff_stdin(d))
  /\ UNCHANGED <<phase, draining, rekeys, clientVars>>

\* due: rekey_due(), whichever threshold it was (see Transport).
head(due) ==
  LET flushed == flush_output(d)
      fed     == handoff_stdin(flushed)
      dd      == replenish_window(fed)
      child   == child_after_handoff(flushed, fed)
      w       == (IF flushed.bytes_sent > d.bytes_sent THEN <<"DATA">> ELSE <<>>)
                 \o (IF dd.in_window > fed.in_window THEN <<"WINDOW_ADJUST">> ELSE <<>>)
      begins  == due /\ may_rekey(dd.state)
  IN  /\ pc = "head" \/ (pc = "due" /\ due)
      /\ ~rekey_active
      /\ \/ /\ begins
            /\ phase' = "SentKexInit"
            /\ rekeys' = rekeys + 1
            /\ continue("select", dd, w \o <<"KEXINIT">>)
            /\ io' = child
         \/ /\ ~begins
            /\ LET ends  == ready_to_close(dd)
                   after == IF ends THEN send_terminal(dd) ELSE dd
                   wrote == IF ends THEN w \o terminal_packets(dd) ELSE w
               IN  IF after.state = "Closed"
                   THEN leave(after, wrote)
                   ELSE continue("select", after, wrote) /\ io' = child
            /\ UNCHANGED <<phase, rekeys>>
      /\ UNCHANGED <<draining, clientVars>>
-----------------------------------------------------------------------------
(* The other arms of the select.                                           *)

want_output == d.pending_out = None /\ may_emit_output(d.state) /\ ~rekey_active

arm(dd) ==
  /\ pc = "select"
  /\ continue("head", dd, <<>>)
  /\ UNCHANGED <<phase, draining, rekeys, clientVars>>

\* A data chunk becomes pending, unless the client closed first.
recv_out_data ==
  /\ want_output
  /\ io.out # <<>>
  /\ Head(io.out) # Exited
  /\ arm(IF d.early_close THEN d ELSE [d EXCEPT !.pending_out = Some(Head(io.out))])
  /\ io' = [io EXCEPT !.out = Tail(@)]

recv_out_exited ==
  /\ want_output
  /\ io.out # <<>>
  /\ Head(io.out) = Exited
  /\ arm([d EXCEPT !.exit_status = IF @ = None THEN Some("exited") ELSE @,
                   !.state = "Draining"])
  /\ io' = [io EXCEPT !.out = Tail(@)]

\* The output channel closes when it is empty and every sender is dropped.
out_senders_gone == io.child = "reported" /\ \A s \in Streams : io.pumps[s] = "done"

recv_out_closed ==
  /\ want_output
  /\ has_child
  /\ io.out = <<>>
  /\ out_senders_gone
  /\ arm([d EXCEPT !.child_out_closed = TRUE])
  /\ UNCHANGED io

recv_consumed ==
  /\ has_child
  /\ ~d.consumed_closed
  /\ \/ /\ io.credits # <<>>
        /\ arm([d EXCEPT !.credit_pending = @ + Head(io.credits),
                         !.bytes_received = @ + Head(io.credits)])
        /\ io' = [io EXCEPT !.credits = Tail(@)]
     \/ /\ io.credits = <<>>
        /\ io.stdin_pump = "done"
        /\ io.uncredited = 0
        /\ arm([d EXCEPT !.consumed_closed = TRUE])
        /\ UNCHANGED io

\* Mutant: the deadline ends with the peer's KEXINIT.
rekey_timeout_early_only ==
  /\ pc = "select"
  /\ phase = "SentKexInit"
  /\ leave(d, <<"DISCONNECT">>)
  /\ UNCHANGED <<phase, draining, rekeys, clientVars>>

\* The completion deadline of a started re-key.
rekey_timeout ==
  /\ pc = "select"
  /\ rekey_active
  /\ leave(d, <<"DISCONNECT">>)
  /\ UNCHANGED <<phase, draining, rekeys, clientVars>>

\* The interval timer: the next turn finds a re-key due.
rekey_wake ==
  /\ rekeys < MaxRekeys
  /\ ~rekey_active
  /\ may_rekey(d.state)
  /\ pc = "select"
  /\ continue("due", d, <<>>)
  /\ UNCHANGED <<io, phase, draining, rekeys, clientVars>>

\* A read or write fails, the task is cancelled, or it panics.
drop_driver ==
  /\ pc # "over"
  /\ leave(d, <<>>)
  /\ UNCHANGED <<phase, draining, rekeys, clientVars>>
-----------------------------------------------------------------------------
(* The child and its tasks.                                                *)

child_step(c) ==
  /\ io' = c
  /\ written' = <<>>
  /\ UNCHANGED <<pc, d, phase, draining, rekeys, clientVars, answered>>

\* pump_output: one read of at most CHUNK bytes is one queued chunk.  A
\* process the child left behind may keep writing after the child is gone.
pump_output(s, n) ==
  /\ io.pumps[s] = "open"
  /\ Len(io.out) < OUT_QUEUE
  /\ io.produced + n <= MaxOut
  /\ child_step([io EXCEPT !.out = Append(@, n), !.produced = @ + n])

\* Every writer of the pipe is gone.
pump_output_eof(s) ==
  /\ io.pumps[s] = "open"
  /\ ~io.on_pty
  /\ child_step([io EXCEPT !.pumps[s] = "done"])

\* A PTY's one pump ends with the session, with the leader, or by a failed
\* read or write, which tears the session down.
pump_pty_ends(failed) ==
  /\ io.on_pty
  /\ io.pumps["stdout"] = "open"
  /\ io.uncredited = 0
  /\ child_step(LET ended == stdin_gone([io EXCEPT !.pumps["stdout"] = "done"])
                IN  IF failed THEN kill(ended) ELSE ended)

leader_exits ==
  /\ io.child = "running"
  /\ child_step([io EXCEPT !.child = "exited"])

try_reap ==
  /\ io.child = "exited"
  /\ child_step([io EXCEPT !.child = "reaped"])

\* spawn_reap: Exited goes on the queue, then the last sender is dropped.
report_exit ==
  /\ io.child = "reaped"
  /\ Len(io.out) < OUT_QUEUE
  /\ child_step([io EXCEPT !.child = "reported", !.out = Append(@, Exited)])

\* pump_stdin takes a chunk.  An empty one is written at once: a pipe's pump
\* then reports nothing, a PTY's reports a write of no bytes.
pump_stdin_recv ==
  /\ io.stdin_pump = "open"
  /\ io.rest = <<>>
  /\ io.uncredited = 0
  /\ io.stdin_q # <<>>
  /\ child_step([io EXCEPT !.rest = Head(io.stdin_q),
                           !.stdin_q = Tail(@),
                           !.credits = IF io.on_pty /\ Head(io.stdin_q) = <<>>
                                       THEN Append(@, 0) ELSE @])

\* A write takes a prefix; then its length is reported.
pump_stdin_write(n) ==
  /\ io.uncredited = 0
  /\ n <= Len(io.rest)
  /\ child_step([io EXCEPT !.rest = SubSeq(@, n + 1, Len(@)),
                           !.delivered = @ + n,
                           !.uncredited = n])

\* Mutant: the write is not reported.
pump_stdin_credit_lost ==
  /\ io.uncredited > 0
  /\ child_step([io EXCEPT !.uncredited = 0])

pump_stdin_credit ==
  /\ io.uncredited > 0
  /\ child_step([io EXCEPT !.credits = Append(@, io.uncredited), !.uncredited = 0])

\* The write to the pipe failed: the child closed its stdin or is gone.
pump_stdin_fails ==
  /\ io.rest # <<>>
  /\ ~io.on_pty
  /\ io.uncredited = 0
  /\ child_step(stdin_gone(io))

\* The sender is dropped and the queue is empty: a pipe's end is closed.
pump_stdin_eof ==
  /\ io.stdin_pump = "open"
  /\ ~io.on_pty
  /\ ~io.stdin_tx
  /\ io.stdin_q = <<>>
  /\ io.rest = <<>>
  /\ io.uncredited = 0
  /\ child_step([io EXCEPT !.stdin_pump = "done", !.saw_eof = TRUE])
-----------------------------------------------------------------------------
Driver ==
  \/ head_during_rekey
  \/ \E due \in {FALSE, rekeys < MaxRekeys} : head(due)
  \/ drain_deferred
  \/ recv_out_data \/ recv_out_exited \/ recv_out_closed \/ recv_consumed

Child ==
  \/ \E s \in Streams : pump_output_eof(s) \/ \E n \in 1..CHUNK : pump_output(s, n)
  \/ \E failed \in BOOLEAN : pump_pty_ends(failed)
  \/ leader_exits \/ try_reap \/ report_exit
  \/ pump_stdin_recv \/ pump_stdin_credit \/ pump_stdin_fails \/ pump_stdin_eof
  \/ \E n \in 1..INITIAL_WINDOW : pump_stdin_write(n)

Finished == pc = "over" /\ UNCHANGED vars

Next ==
  \/ Driver
  \/ \E m \in ClientMsgs : read_packet(m)
  \/ rekey_timeout \/ rekey_wake \/ drop_driver
  \/ Child
  \/ Finished

Spec == Init /\ [][Next]_vars

(* Fairness.  The runtime polls the driver while an arm is ready; the re-key *)
(* deadline comes (the client's packets are finitely many, so the bias of    *)
(* the select cannot keep it waiting); a killed child dies; the reap task    *)
(* runs.  Nothing is assumed of the client, of the child's output or of the  *)
(* processes it leaves behind.                                               *)
Fairness ==
  /\ WF_vars(Driver)
  /\ WF_vars(rekey_timeout)
  /\ WF_vars(io.kill /\ leader_exits)
  /\ WF_vars(try_reap \/ report_exit)
  /\ WF_vars(pump_stdin_credit)

FairSpec == Spec /\ Fairness
-----------------------------------------------------------------------------
(* Properties.                                                             *)

States == {"BeforeOpen", "Idle", "Running", "Draining", "ServerClosed", "Closed"}
Phases == {"Idle", "SentKexInit", "SkipGuessed", "AwaitHybridInit", "AwaitNewKeys"}

\* The driver's state: windows within u32 and INITIAL_WINDOW, queues and slots
\* within their capacities.
TypeOK ==
  /\ pc \in {"head", "due", "select", "drain", "over"}
  /\ phase \in Phases
  /\ d.state \in States
  /\ d.out_window \in 0..MaxWindow
  /\ d.in_window \in 0..INITIAL_WINDOW
  /\ d.credit_pending \in 0..INITIAL_WINDOW
  /\ Len(d.pending_out) <= 1 /\ Len(d.pending_stdin) <= 1
  /\ Len(d.deferred) <= MAX_DEFERRED
  /\ Len(io.out) <= OUT_QUEUE
  /\ Len(io.stdin_q) <= STDIN_QUEUE
  /\ io.child \in {"none", "running", "exited", "reaped", "reported"}
  /\ io.delivered \in 0..received
  /\ pc = "drain" <=> draining # <<>> /\ pc # "over"

\* RFC 4253 section 9 as pass_to_channel states it: after our KEXINIT and before
\* our NEWKEYS nothing but KEX packets (and DISCONNECT) is written, whatever
\* the client, the child and the deferred requests do meanwhile.
HalfDuplex ==
  phase \in {"SentKexInit", "SkipGuessed", "AwaitHybridInit"} =>
    \A i \in DOMAIN written :
      \/ written[i] \in {"KEXINIT", "DISCONNECT"}
      \/ \E j \in DOMAIN written : j > i /\ written[j] = "KEXINIT"

Owed(ms) == Cardinality({i \in DOMAIN ms : wants_reply(ms[i])})

\* A request held back by a re-key is answered once, not lost: what is owed is
\* exactly what is still deferred (pass_to_channel, drain_deferred).
RepliesNotLost ==
  pc # "over" => asked - answered = Owed(d.deferred) + Owed(draining)

\* The client learns the exit status only after all the output the child's
\* pumps read, in whatever order output, exit and closing pipes are seen.
OutputBeforeExit ==
  \A i \in DOMAIN written :
    written[i] = "EOF" =>
      /\ i > 1 /\ written[i - 1] = "EXIT_STATUS"
      /\ d.bytes_sent = io.produced
      /\ io.child \in {"none", "reported"}

\* What the client sent and the child has not been given, in stream order.
Undelivered ==
  io.rest \o FlattenSeq(io.stdin_q) \o FlattenSeq(d.pending_stdin)
          \o FlattenSeq(d.pre_exec_stdin)

\* The child can still be given input.
StdinLive ==
  /\ pc # "over"
  /\ d.state \in {"Idle", "Running", "Draining"}
  /\ ~d.early_close
  /\ d.state # "Idle" => has_child /\ io.stdin_pump = "open"

\* Stdin sent before the exec, during a re-key or while the pump is full reaches
\* the child complete and in order, and its EOF comes after the last byte.
StdinInOrder ==
  /\ StdinLive => Undelivered = [i \in 1..(received - io.delivered) |-> io.delivered + i]
  /\ io.saw_eof /\ ~d.early_close => d.client_eof /\ io.delivered = received

\* What the client may still send, and what stands for the rest of the window.
Outstanding ==
  d.in_window + d.credit_pending + Total(io.credits) + io.uncredited
    + Len(io.rest) + BytesIn(io.stdin_q) + BytesIn(d.pending_stdin) + BytesIn(d.pre_exec_stdin)

\* ADR-0023: unconsumed inbound bytes are bounded by INITIAL_WINDOW, and the
\* window leaks nothing: what the client may not send is buffered or credited.
WindowConserved ==
  d.state # "BeforeOpen" =>
    /\ Outstanding <= INITIAL_WINDOW
    /\ StdinLive => Outstanding = INITIAL_WINDOW

\* handoff_stdin runs once per turn of the loop, so while it has something to
\* hand to a living pump, an event must be on its way: a queued credit, or a
\* chunk whose write will make one.
StdinKeepsMoving ==
  StdinLive /\ pc = "select" /\ has_child
    /\ (d.pending_stdin # None \/ d.pre_exec_stdin # <<>>)
  => io.credits # <<>> \/ io.uncredited > 0 \/ io.rest # <<>> \/ BytesIn(io.stdin_q) > 0

\* Issue #190: after an early client close the driver always finishes, even if a
\* process the child left behind keeps the pipes open for ever.
EarlyCloseEnds == d.early_close ~> pc = "over"

\* A re-key never stays open: it completes or the deadline ends the connection.
RekeyEnds == rekey_active ~> (~rekey_active \/ pc = "over")

\* Once the child is reaped and its pipes are closed, the channel is closed
\* unless the client's window holds its output back.
ExitIsReported ==
  (out_senders_gone /\ pc # "over") ~>
     \/ pc = "over"
     \/ d.state \in {"ServerClosed", "Closed"}
     \/ d.pending_out # None /\ d.out_window = 0
\* Every buffer between the client and the child stays within its capacity, and
\* the window accounts for each byte in them (replenish_window, handoff_stdin).
BuffersExact == TypeOK /\ WindowConserved

\* ADR-0023 and ADR-0042: whichever of its many exits drive took, an exec.started
\* has exactly one exec.finished once the driver is gone, and that one counts
\* every byte a write to the child had accepted and reported, the credits the
\* driver never received included (emit_finished, Driver::drop).
AuditExact ==
  /\ [](pc = "over" => d.finished = IF d.command THEN 1 ELSE 0)
  /\ [][d'.finished # d.finished =>
          d'.bytes_received + io.uncredited = io.delivered]_vars

\* Whatever the driver waits for ends: an early close, a re-key, a reaped child
\* (drive's select and its deadlines).
ChannelEnds == EarlyCloseEnds /\ RekeyEnds /\ ExitIsReported
=============================================================================
