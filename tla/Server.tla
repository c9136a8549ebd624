-------------------------------- MODULE Server --------------------------------
(***************************************************************************)
(* The accept loop, the connection tasks and graceful shutdown             *)
(* (crates/quantumssh-core/src/server.rs, with the signal listener of      *)
(* crates/quantumssh/src/main.rs).                                         *)
(*                                                                         *)
(* The loop's select! is unbiased: every ready arm may be taken, so each   *)
(* arm is an action.  A connection task interleaves with the loop, with    *)
(* the other tasks and with the signal listener between its awaits.  The   *)
(* broadcast reaches only receivers that exist when it is sent, which      *)
(* seen records.  Admission's verdict is left open (see Admission).        *)
(***************************************************************************)
EXTENDS Naturals, FiniteSets

CONSTANTS
  Conns,      \* incoming TCP connections, each used once
  MaxPauses   \* bound: accept() errors that pause the loop

ASSUME ConnsAssumption == IsFiniteSet(Conns) /\ MaxPauses \in Nat

VARIABLES
  loop,        \* the accept loop: serving, aborting or returned
  abort_at,    \* Option<Instant>: unset, past the drain deadline, or at once
  paused,      \* resume_at is Some
  pauses,      \* accept() errors so far that paused the loop
  sent,        \* shutdown deadlines broadcast so far: 0, 1 or 2
  loop_seen,   \* how many of them the loop's own receiver has taken
  clock,       \* how far time is past the first signal
  conn,        \* life cycle of every connection
  seen,        \* broadcasts that precede what the connection's receiver holds
  authed,      \* the guard's authenticated flag
  child,       \* the connection's child process
  reason,      \* why handle's connection future ended
  closed       \* connection.closed events logged

vars == <<loop, abort_at, paused, pauses, sent, loop_seen, clock, conn,
          seen, authed, child, reason, closed>>

loopVars == <<loop, abort_at, paused, pauses, loop_seen>>
taskVars == <<seen, authed, child, reason>>

\* now < deadline; deadline reached; deadline + ABORT_GRACE reached.
Before == 0
Deadline == 1
Grace == 2

\* A task as handle() goes through it.  "spawned" has not been polled yet.
Running == {"spawned", "handshake", "channel", "draining", "shutting", "joining"}
Completed == {"done", "panicked", "cancelled"}
ConnStates == {"absent", "queued", "refused", "lost", "reaped"} \cup Running \cup Completed

\* The JoinSet: every task not yet reaped.
Tasks == {c \in Conns : conn[c] \in Running \cup Completed}

Spawned == {c \in Conns : conn[c] \in Running \cup Completed \cup {"reaped"}}

Init ==
  /\ loop = "serving"
  /\ abort_at = "none"
  /\ paused = FALSE
  /\ pauses = 0
  /\ sent = 0
  /\ loop_seen = 0
  /\ clock = Before
  /\ conn = [c \in Conns |-> "absent"]
  /\ seen = [c \in Conns |-> 0]
  /\ authed = [c \in Conns |-> FALSE]
  /\ child = [c \in Conns |-> "none"]
  /\ reason = [c \in Conns |-> "none"]
  /\ closed = [c \in Conns |-> 0]
-----------------------------------------------------------------------------
(* The environment: peers, the service manager, time.                      *)

Connect(c) ==
  /\ conn[c] = "absent"
  /\ conn' = [conn EXCEPT ![c] = "queued"]
  /\ UNCHANGED <<loopVars, taskVars, sent, clock, closed>>

\* spawn_signal_listener: the first signal broadcasts the drain deadline, the
\* second an immediate one; then the listener task ends.
Signal ==
  /\ sent < 2
  /\ sent' = sent + 1
  /\ UNCHANGED <<loopVars, taskVars, clock, conn, closed>>

Time ==
  /\ sent > 0
  /\ clock < Grace
  /\ clock' = clock + 1
  /\ UNCHANGED <<loopVars, taskVars, sent, conn, closed>>
-----------------------------------------------------------------------------
(* The accept loop.                                                        *)

\* Mutant: a draining loop goes on accepting.
accepting_draining == loop = "serving" /\ ~paused

accepting == loop = "serving" /\ abort_at = "none" /\ ~paused

\* Admitted: the receiver is created here, then the task is spawned.
accept_admitted(c) ==
  /\ accepting
  /\ conn[c] = "queued"
  /\ conn' = [conn EXCEPT ![c] = "spawned"]
  /\ seen' = [seen EXCEPT ![c] = sent]
  /\ UNCHANGED <<loopVars, authed, child, reason, sent, clock, closed>>

\* try_admit refused: connection.refused, the stream is dropped.
accept_refused(c) ==
  /\ accepting
  /\ conn[c] = "queued"
  /\ conn' = [conn EXCEPT ![c] = "refused"]
  /\ UNCHANGED <<loopVars, taskVars, sent, clock, closed>>

\* AcceptFailure::Connection: that connection left the queue.
accept_lost(c) ==
  /\ accepting
  /\ conn[c] = "queued"
  /\ conn' = [conn EXCEPT ![c] = "lost"]
  /\ UNCHANGED <<loopVars, taskVars, sent, clock, closed>>

\* AcceptFailure::Pause: the connection stays queued.
accept_pause ==
  /\ accepting
  /\ pauses < MaxPauses
  /\ \E c \in Conns : conn[c] = "queued"
  /\ paused' = TRUE
  /\ pauses' = pauses + 1
  /\ UNCHANGED <<loop, abort_at, loop_seen, taskVars, sent, clock, conn, closed>>

\* Mutant: the timer fires but resume_at stays Some.
resume_stuck == loop = "serving" /\ paused /\ UNCHANGED vars

\* ACCEPT_BACKOFF elapsed.
resume ==
  /\ loop = "serving"
  /\ paused
  /\ paused' = FALSE
  /\ UNCHANGED <<loop, abort_at, pauses, loop_seen, taskVars, sent, clock, conn, closed>>

\* AcceptFailure::Listener: serve returns Err, which drops the JoinSet; its
\* tasks are cancelled and nobody joins them.
accept_listener_failed ==
  /\ accepting
  /\ loop' = "failed"
  /\ UNCHANGED <<abort_at, paused, pauses, loop_seen, taskVars, sent, clock, conn, closed>>

\* Mutant: every reaped task is logged, one that logged itself too.
log_join_twice(c) ==
  /\ conn[c] \in Completed
  /\ conn' = [conn EXCEPT ![c] = "reaped"]
  /\ closed' = [closed EXCEPT ![c] = @ + 1]
  /\ UNCHANGED taskVars

\* log_join: a task that did not close itself gets its connection.closed here.
\* The task's own state goes with it.
log_join(c) ==
  /\ conn[c] \in Completed
  /\ conn' = [conn EXCEPT ![c] = "reaped"]
  /\ closed' = [closed EXCEPT ![c] = IF conn[c] = "done" THEN @ ELSE @ + 1]
  /\ seen' = [seen EXCEPT ![c] = 0]
  /\ authed' = [authed EXCEPT ![c] = FALSE]
  /\ reason' = [reason EXCEPT ![c] = "none"]
  /\ UNCHANGED child

\* The join arm: reap one task; a draining loop with an empty set returns.
join_next(c) ==
  /\ loop = "serving"
  /\ log_join(c)
  /\ loop' = IF abort_at # "none" /\ Tasks = {c} THEN "returned" ELSE loop
  /\ UNCHANGED <<abort_at, paused, pauses, loop_seen, sent, clock>>

\* The shutdown arm: the first value starts the drain, the second ends it.
take_shutdown ==
  /\ loop = "serving"
  /\ loop_seen < sent
  /\ loop_seen' = loop_seen + 1
  /\ \/ /\ abort_at # "none"
        /\ abort_at' = "now"
        /\ loop' = loop
     \/ /\ abort_at = "none"
        /\ Tasks = {}
        /\ loop' = "returned"
        /\ UNCHANGED abort_at
     \/ /\ abort_at = "none"
        /\ Tasks # {}
        /\ abort_at' = "grace"
        /\ loop' = loop
  /\ UNCHANGED <<paused, pauses, taskVars, sent, clock, conn, closed>>

\* Mutant: the drain deadline is not waited for.
abort_due_at_once == abort_at # "none"

\* Mutant: only a second signal aborts.
abort_due_on_demand == abort_at = "now"

abort_due == abort_at = "now" \/ (abort_at = "grace" /\ clock = Grace)

\* The abort arm: abort_all, then the remaining tasks are joined.
abort_all ==
  /\ loop = "serving"
  /\ abort_due
  /\ loop' = IF Tasks = {} THEN "returned" ELSE "aborting"
  /\ UNCHANGED <<abort_at, paused, pauses, loop_seen, taskVars, sent, clock, conn, closed>>

join_aborted(c) ==
  /\ loop = "aborting"
  /\ log_join(c)
  /\ loop' = IF Tasks = {c} THEN "returned" ELSE loop
  /\ UNCHANGED <<abort_at, paused, pauses, loop_seen, sent, clock>>
-----------------------------------------------------------------------------
(* A connection task: handle() and run_connection().                       *)

\* The runtime goes on running tasks until main returns; after serve has
\* returned there is nothing left to run but tasks being cancelled.
runtime_up == loop \in {"serving", "aborting"}

step(c, from, to) ==
  /\ runtime_up
  /\ conn[c] = from
  /\ conn' = [conn EXCEPT ![c] = to]
  /\ UNCHANGED <<loopVars, sent, clock>>

\* First poll: connection.accepted, then the handshake starts.
first_poll(c) ==
  /\ step(c, "spawned", "handshake")
  /\ UNCHANGED <<taskVars, closed>>

\* The auth phase failed, or its budget ran out.
handshake_failed(c) ==
  /\ step(c, "handshake", "shutting")
  /\ reason' = [reason EXCEPT ![c] = "rejected"]
  /\ UNCHANGED <<seen, authed, child, closed>>

\* mark_authenticated, then the channel layer.
authenticated(c) ==
  /\ step(c, "handshake", "channel")
  /\ authed' = [authed EXCEPT ![c] = TRUE]
  /\ UNCHANGED <<seen, child, reason, closed>>

\* serve(): the session starts its one child.
start_child(c) ==
  /\ runtime_up
  /\ conn[c] \in {"channel", "draining"}
  /\ child[c] = "none"
  /\ child' = [child EXCEPT ![c] = "running"]
  /\ UNCHANGED <<loopVars, sent, clock, conn, seen, authed, reason, closed>>

\* Mutant: dropping the future leaves the child alone.
kill_child_forgotten(c) == UNCHANGED child

\* Dropping the connection future asks the reaper to kill a running child.
kill_child(c) ==
  child' = [child EXCEPT ![c] = IF @ = "running" THEN "dying" ELSE @]

\* The connection future completed, with or without an error.
session_ended(c) ==
  /\ \/ step(c, "channel", "shutting")
     \/ step(c, "draining", "shutting")
  /\ reason' = [reason EXCEPT ![c] = "session"]
  /\ kill_child(c)
  /\ UNCHANGED <<seen, authed, closed>>

\* next_shutdown resolved first in handle's select.  The phase is a snapshot:
\* pre-auth ends now, a session goes on under the deadline.
shutdown_received(c) ==
  /\ seen[c] < sent
  /\ seen' = [seen EXCEPT ![c] = @ + 1]
  /\ IF authed[c]
     THEN /\ step(c, "channel", "draining")
          /\ UNCHANGED reason
     ELSE /\ step(c, "handshake", "shutting")
          /\ reason' = [reason EXCEPT ![c] = "shutdown"]
  /\ UNCHANGED <<authed, child, closed>>

\* timeout_at: the deadline this connection was told; the second signal's
\* deadline is the moment it was sent.
deadline_passed(c) == clock >= Deadline \/ seen[c] = 2

drain_timeout(c) ==
  /\ deadline_passed(c)
  /\ step(c, "draining", "shutting")
  /\ reason' = [reason EXCEPT ![c] = "shutdown"]
  /\ kill_child(c)
  /\ UNCHANGED <<seen, authed, closed>>

\* stream.shutdown().await returned.
tcp_shutdown(c) ==
  /\ step(c, "shutting", "joining")
  /\ UNCHANGED <<taskVars, closed>>

\* children.join().await returned: connection.closed, and the task is over.
children_joined(c) ==
  /\ child[c] \in {"none", "gone"}
  /\ step(c, "joining", "done")
  /\ closed' = [closed EXCEPT ![c] = @ + 1]
  /\ UNCHANGED taskVars

\* The child exits on its own; its reaper collects it.
child_exits(c) ==
  /\ child[c] \in {"running", "dying"}
  /\ child' = [child EXCEPT ![c] = "gone"]
  /\ UNCHANGED <<loopVars, sent, clock, conn, seen, authed, reason, closed>>

\* A panic unwinds the task: its ChildScope kills what still runs.
task_panics(c) ==
  /\ runtime_up
  /\ conn[c] \in Running \ {"spawned"}
  /\ conn' = [conn EXCEPT ![c] = "panicked"]
  /\ kill_child(c)
  /\ UNCHANGED <<loopVars, seen, authed, reason, sent, clock, closed>>

\* An aborted task is dropped at its next await: the ChildScope kills.
task_cancelled(c) ==
  /\ loop \in {"aborting", "failed"}
  /\ conn[c] \in Running
  /\ conn' = [conn EXCEPT ![c] = "cancelled"]
  /\ kill_child(c)
  /\ UNCHANGED <<loopVars, seen, authed, reason, sent, clock, closed>>
-----------------------------------------------------------------------------
Loop ==
  \/ \E c \in Conns : \/ accept_admitted(c) \/ accept_refused(c) \/ accept_lost(c)
                      \/ join_next(c) \/ join_aborted(c)
  \/ accept_pause \/ resume \/ accept_listener_failed
  \/ take_shutdown \/ abort_all

Task(c) ==
  \/ first_poll(c) \/ handshake_failed(c) \/ authenticated(c) \/ start_child(c)
  \/ session_ended(c) \/ shutdown_received(c) \/ drain_timeout(c)
  \/ tcp_shutdown(c) \/ children_joined(c)
  \/ task_panics(c) \/ task_cancelled(c)

Environment == Signal \/ Time \/ \E c \in Conns : Connect(c) \/ child_exits(c)

\* The process is over once serve returned; a failed listener still drops tasks.
Finished ==
  /\ \/ loop = "returned"
     \/ loop = "failed" /\ \A c \in Conns : conn[c] \notin Running
  /\ UNCHANGED vars

Next == Loop \/ (\E c \in Conns : Task(c)) \/ Environment \/ Finished

Spec == Init /\ [][Next]_vars

(* Fairness.  The loop keeps taking ready arms, whichever (finitely many     *)
(* connections and accept errors cannot keep it from the shutdown arm); the  *)
(* runtime polls a woken task; timers fire; a child that was sent SIGKILL    *)
(* dies.  Nothing is assumed of peers, of handshakes, of commands or of      *)
(* signals: a task may hang for ever.                                        *)
LoopProgress ==
  \/ resume \/ take_shutdown \/ abort_all
  \/ \E c \in Conns : \/ join_next(c) \/ join_aborted(c)
                      \/ accept_admitted(c) \/ accept_refused(c) \/ accept_lost(c)

TaskProgress(c) ==
  \/ first_poll(c) \/ shutdown_received(c) \/ drain_timeout(c)
  \/ tcp_shutdown(c) \/ children_joined(c) \/ task_cancelled(c)

Fairness ==
  /\ WF_vars(LoopProgress)
  /\ WF_vars(Time)
  /\ \A c \in Conns : WF_vars(TaskProgress(c))
  /\ \A c \in Conns : WF_vars(child[c] = "dying" /\ child_exits(c))

FairSpec == Spec /\ Fairness
-----------------------------------------------------------------------------
(* Properties.                                                             *)

\* The type of the loop's and the tasks' state.
TypeOK ==
  /\ loop \in {"serving", "aborting", "returned", "failed"}
  /\ abort_at \in {"none", "grace", "now"}
  /\ paused \in BOOLEAN
  /\ pauses \in 0..MaxPauses
  /\ sent \in 0..2
  /\ loop_seen \in 0..sent
  /\ clock \in {Before, Deadline, Grace}
  /\ conn \in [Conns -> ConnStates]
  /\ seen \in [Conns -> 0..2]
  /\ authed \in [Conns -> BOOLEAN]
  /\ child \in [Conns -> {"none", "running", "dying", "gone"}]
  /\ reason \in [Conns -> {"none", "rejected", "session", "shutdown"}]
  /\ closed \in [Conns -> Nat]

\* One connection.closed per connection on every path (a clean close, a panic,
\* an abort racing the task's own close), and none missing once serve returned
\* Ok: handle logs its own, log_join logs for the tasks that could not.
ClosedExactlyOnce ==
  \A c \in Conns :
    /\ closed[c] <= 1
    /\ conn[c] = "reaped" => closed[c] = 1
    /\ loop = "returned" /\ c \in Spawned => closed[c] = 1

\* No child survives its connection (ADR-0038 section 6): a task that closed
\* itself has reaped its child, a task that was torn down has killed it.
NoChildOutlivesTask ==
  \A c \in Conns :
    /\ conn[c] = "done" => child[c] \in {"none", "gone"}
    /\ conn[c] \in Completed \cup {"reaped"} => child[c] # "running"

\* An authenticated session is cut by shutdown only at its deadline: a single
\* signal never ends one early, whatever the loop and the other tasks do.
SessionsGetTheirDrain ==
  \A c \in Conns :
    authed[c] /\ (reason[c] = "shutdown" \/ conn[c] = "cancelled") =>
      clock >= Deadline \/ sent = 2 \/ loop = "failed"

\* A shutdown signal always ends serve, even with tasks that hang for ever.
ShutdownEnds == (sent > 0) ~> (loop \in {"returned", "failed"})

\* A queued connection is not forgotten by the accept loop: pauses end, and
\* it is admitted, refused or lost unless the server stops accepting.
QueuedIsAnswered ==
  \A c \in Conns :
    (conn[c] = "queued") ~> (conn[c] # "queued" \/ sent > 0 \/ loop = "failed")

\* Refinement: the phase of the service and of each session.
phase_of ==
  CASE loop = "returned" -> "down"
    [] loop = "failed" -> "failed"
    [] loop = "aborting" -> "draining"
    [] loop = "serving" -> IF abort_at = "none" THEN "up" ELSE "draining"

session_at(place) ==
  CASE place \in Running -> "open"
    [] place \in {"panicked", "cancelled"} -> "cut"
    [] place \in {"done", "reaped"} -> "closed"
    [] OTHER -> "none"

session_of == [c \in Conns |-> session_at(conn[c])]

Svc == INSTANCE Service WITH phase <- phase_of, session <- session_of

\* The accept loop, its tasks, panics, aborts and races with shutdown together
\* do no more than the service ADR-0028 promises: a session opens only while
\* the service is up, ends once with one record, and none is left when serve
\* returns Ok.
ImplementsService == Svc!Spec
\* However a task ends (by itself, by panic, by abort, by its deadline), in a
\* race with shutdown or not: one record, no child left, and no session cut
\* before its time (handle, log_join, ADR-0028, ADR-0038 section 6).
TasksEndClean == ClosedExactlyOnce /\ NoChildOutlivesTask /\ SessionsGetTheirDrain
=============================================================================
