----------------------------- MODULE ServerProofs -----------------------------
(* Theorems about Server, for every finite set of connections: what shutdown *)
(* may cut, what every task leaves behind, and that the loop and its tasks    *)
(* implement Service.                                                         *)
EXTENDS Server, TLAPS

-----------------------------------------------------------------------------
(* The inductive invariant, in parts.                                        *)

\* A task has its record exactly when it logged itself or was joined, and the
\* loop returns Ok only over an empty JoinSet.
Recorded ==
  /\ \A c \in Conns : closed[c] = IF conn[c] \in {"done", "reaped"} THEN 1 ELSE 0
  /\ loop = "returned" => Tasks = {}

\* What the loop has seen explains what it is about to do.
LoopInformed ==
  /\ abort_at # "none" => loop_seen >= 1
  /\ abort_at = "now" => loop_seen = 2
  /\ loop = "aborting" => abort_at = "now" \/ clock = Grace

\* No receiver is ahead of the sender, and a reason is set only past the session.
TasksInformed ==
  \A c \in Conns :
    /\ seen[c] <= sent
    /\ reason[c] # "none" => conn[c] \in {"shutting", "joining", "done", "panicked", "cancelled"}

IInv ==
  /\ TypeOK /\ Recorded /\ LoopInformed /\ TasksInformed
  /\ NoChildOutlivesTask /\ SessionsGetTheirDrain

-----------------------------------------------------------------------------
(* Type correctness.                                                         *)

LEMMA TypeInit == Init => TypeOK
<1> SUFFICES ASSUME Init PROVE TypeOK
  OBVIOUS
<1>1. authed \in [Conns -> BOOLEAN]
  BY Zenon DEF Init
<1>2. pauses \in 0..MaxPauses
  BY ConnsAssumption DEF Init
<1>3. /\ conn \in [Conns -> ConnStates] /\ seen \in [Conns -> 0..2] /\ closed \in [Conns -> Nat]
  BY DEF Init, ConnStates
<1>4. /\ child \in [Conns -> {"none", "running", "dying", "gone"}]
      /\ reason \in [Conns -> {"none", "rejected", "session", "shutdown"}]
  BY DEF Init
<1>5. /\ loop \in {"serving", "aborting", "returned", "failed"}
      /\ abort_at \in {"none", "grace", "now"}
      /\ sent \in 0..2 /\ loop_seen \in 0..sent
  BY DEF Init
<1>6. paused \in BOOLEAN /\ clock \in {Before, Deadline, Grace}
  BY Zenon DEF Init
<1> QED
  BY <1>1, <1>2, <1>3, <1>4, <1>5, <1>6, Zenon DEF TypeOK

LEMMA TypeLoop == TypeOK /\ Loop => TypeOK'
<1> SUFFICES ASSUME TypeOK, Loop PROVE TypeOK'
  OBVIOUS
<1> USE ConnsAssumption DEF TypeOK, loopVars, taskVars, ConnStates, Running, Completed
<1>1. ASSUME NEW c \in Conns, accept_admitted(c) PROVE TypeOK'
  BY <1>1 DEF accept_admitted
<1>2. ASSUME NEW c \in Conns, accept_refused(c) PROVE TypeOK'
  BY <1>2 DEF accept_refused
<1>3. ASSUME NEW c \in Conns, accept_lost(c) PROVE TypeOK'
  BY <1>3 DEF accept_lost
<1>4. ASSUME NEW c \in Conns, join_next(c) PROVE TypeOK'
  BY <1>4 DEF join_next, log_join
<1>5. ASSUME NEW c \in Conns, join_aborted(c) PROVE TypeOK'
  BY <1>5 DEF join_aborted, log_join
<1>6. CASE accept_pause
  BY <1>6 DEF accept_pause
<1>7. CASE resume
  BY <1>7 DEF resume
<1>8. CASE accept_listener_failed
  BY <1>8 DEF accept_listener_failed
<1>9. CASE take_shutdown
  BY <1>9 DEF take_shutdown
<1>10. CASE abort_all
  BY <1>10 DEF abort_all
<1> QED
  BY <1>1, <1>2, <1>3, <1>4, <1>5, <1>6, <1>7, <1>8, <1>9, <1>10 DEF Loop

LEMMA TypeTask == ASSUME NEW c \in Conns, TypeOK, Task(c) PROVE TypeOK'
<1> USE DEF TypeOK, loopVars, taskVars, ConnStates, Running, Completed, step, kill_child
<1>1. CASE first_poll(c)
  BY <1>1 DEF first_poll
<1>2. CASE handshake_failed(c)
  BY <1>2 DEF handshake_failed
<1>3. CASE authenticated(c)
  BY <1>3 DEF authenticated
<1>4. CASE start_child(c)
  BY <1>4 DEF start_child
<1>5. CASE session_ended(c)
  BY <1>5 DEF session_ended
<1>6. CASE shutdown_received(c)
  BY <1>6 DEF shutdown_received
<1>7. CASE drain_timeout(c)
  BY <1>7 DEF drain_timeout
<1>8. CASE tcp_shutdown(c)
  BY <1>8 DEF tcp_shutdown
<1>9. CASE children_joined(c)
  BY <1>9 DEF children_joined
<1>10. CASE task_panics(c)
  BY <1>10 DEF task_panics
<1>11. CASE task_cancelled(c)
  BY <1>11 DEF task_cancelled
<1> QED
  BY <1>1, <1>2, <1>3, <1>4, <1>5, <1>6, <1>7, <1>8, <1>9, <1>10, <1>11 DEF Task

LEMMA TypeEnvironment == TypeOK /\ Environment => TypeOK'
<1> SUFFICES ASSUME TypeOK, Environment PROVE TypeOK'
  OBVIOUS
<1> USE DEF TypeOK, loopVars, taskVars, ConnStates, Before, Deadline, Grace
<1>1. CASE Signal
  BY <1>1 DEF Signal
<1>2. CASE Time
  BY <1>2 DEF Time
<1>3. ASSUME NEW c \in Conns, Connect(c) PROVE TypeOK'
  BY <1>3 DEF Connect
<1>4. ASSUME NEW c \in Conns, child_exits(c) PROVE TypeOK'
  BY <1>4 DEF child_exits
<1> QED
  BY <1>1, <1>2, <1>3, <1>4 DEF Environment

LEMMA TypeStep == TypeOK /\ [Next]_vars => TypeOK'
<1> SUFFICES ASSUME TypeOK, [Next]_vars PROVE TypeOK'
  OBVIOUS
<1>1. CASE UNCHANGED vars
  BY <1>1 DEF TypeOK, vars
<1>2. CASE Finished
  BY <1>1, <1>2 DEF Finished
<1> QED
  BY <1>1, <1>2, TypeLoop, TypeTask, TypeEnvironment DEF Next

\* The loop, every task, the signals and the clock keep their types for every
\* number of connections and accept errors.
THEOREM ServerTypeCorrect == Spec => []TypeOK
<1> QED
  BY TypeInit, TypeStep, PTL DEF Spec
-----------------------------------------------------------------------------
(* The safety invariants.                                                    *)

LEMMA InvInit == Init => IInv
<1> SUFFICES ASSUME Init PROVE IInv
  OBVIOUS
<1>1. TypeOK
  BY TypeInit
<1>2. Recorded /\ LoopInformed /\ TasksInformed
  BY DEF Init, Recorded, LoopInformed, TasksInformed
<1>3. NoChildOutlivesTask
  BY DEF Init, NoChildOutlivesTask, Completed
<1>4. SessionsGetTheirDrain
  BY DEF Init, SessionsGetTheirDrain
<1> QED
  BY <1>1, <1>2, <1>3, <1>4 DEF IInv

LEMMA InvLoop == IInv /\ TypeOK' /\ Loop => IInv'
<1> SUFFICES ASSUME IInv, TypeOK', Loop PROVE IInv'
  OBVIOUS
<1> USE DEF loopVars, taskVars, Running, Completed
<1> USE DEF IInv, TypeOK, Recorded, LoopInformed, TasksInformed, NoChildOutlivesTask,
            SessionsGetTheirDrain, Tasks, ConnStates, Deadline, Grace
<1>1. ASSUME NEW c \in Conns, accept_admitted(c) PROVE IInv'
  BY <1>1 DEF accept_admitted, accepting
<1>2. ASSUME NEW c \in Conns, accept_refused(c) PROVE IInv'
  BY <1>2 DEF accept_refused, accepting
<1>3. ASSUME NEW c \in Conns, accept_lost(c) PROVE IInv'
  BY <1>3 DEF accept_lost, accepting
<1>4. ASSUME NEW c \in Conns, join_next(c) PROVE IInv'
  BY <1>4 DEF join_next, log_join
<1>5. ASSUME NEW c \in Conns, join_aborted(c) PROVE IInv'
  BY <1>5 DEF join_aborted, log_join
<1>6. CASE accept_pause
  BY <1>6 DEF accept_pause, accepting
<1>7. CASE resume
  BY <1>7 DEF resume
<1>8. CASE accept_listener_failed
  BY <1>8 DEF accept_listener_failed, accepting
<1>9. CASE take_shutdown
  BY <1>9 DEF take_shutdown
<1>10. CASE abort_all
  BY <1>10 DEF abort_all, abort_due
<1> QED
  BY <1>1, <1>2, <1>3, <1>4, <1>5, <1>6, <1>7, <1>8, <1>9, <1>10 DEF Loop

LEMMA InvTask == ASSUME NEW c \in Conns, IInv, TypeOK', Task(c) PROVE IInv'
<1> USE DEF loopVars, taskVars, Running, Completed, step, runtime_up, kill_child
<1> USE DEF IInv, TypeOK, Recorded, LoopInformed, TasksInformed, NoChildOutlivesTask,
            SessionsGetTheirDrain, Tasks, ConnStates, Deadline, Grace
<1>1. CASE first_poll(c)
  BY <1>1 DEF first_poll
<1>2. CASE handshake_failed(c)
  BY <1>2 DEF handshake_failed
<1>3. CASE authenticated(c)
  BY <1>3 DEF authenticated
<1>4. CASE start_child(c)
  BY <1>4 DEF start_child
<1>5. CASE session_ended(c)
  BY <1>5 DEF session_ended
<1>6. CASE shutdown_received(c)
  BY <1>6 DEF shutdown_received
<1>7. CASE drain_timeout(c)
  BY <1>7 DEF drain_timeout, deadline_passed
<1>8. CASE tcp_shutdown(c)
  BY <1>8 DEF tcp_shutdown
<1>9. CASE children_joined(c)
  BY <1>9 DEF children_joined
<1>10. CASE task_panics(c)
  BY <1>10 DEF task_panics
<1>11. CASE task_cancelled(c)
  BY <1>11 DEF task_cancelled
<1> QED
  BY <1>1, <1>2, <1>3, <1>4, <1>5, <1>6, <1>7, <1>8, <1>9, <1>10, <1>11 DEF Task

LEMMA InvEnvironment == IInv /\ TypeOK' /\ Environment => IInv'
<1> SUFFICES ASSUME IInv, TypeOK', Environment PROVE IInv'
  OBVIOUS
<1> USE DEF loopVars, taskVars, Running, Completed
<1> USE DEF IInv, TypeOK, Recorded, LoopInformed, TasksInformed, NoChildOutlivesTask,
            SessionsGetTheirDrain, Tasks, ConnStates, Deadline, Grace, Before
<1>1. CASE Signal
  BY <1>1 DEF Signal
<1>2. CASE Time
  BY <1>2 DEF Time
<1>3. ASSUME NEW c \in Conns, Connect(c) PROVE IInv'
  BY <1>3 DEF Connect
<1>4. ASSUME NEW c \in Conns, child_exits(c) PROVE IInv'
  BY <1>4 DEF child_exits
<1> QED
  BY <1>1, <1>2, <1>3, <1>4 DEF Environment

LEMMA InvStutter == IInv /\ UNCHANGED vars => IInv'
BY DEF vars, IInv, TypeOK, Recorded, LoopInformed, TasksInformed, NoChildOutlivesTask,
       SessionsGetTheirDrain, Tasks

LEMMA InvStep == IInv /\ [Next]_vars => IInv'
<1> SUFFICES ASSUME IInv, [Next]_vars PROVE IInv'
  OBVIOUS
<1>1. TypeOK'
  BY TypeStep DEF IInv
<1>2. CASE UNCHANGED vars
  BY <1>2, InvStutter
<1>3. CASE Finished
  BY <1>3, InvStutter DEF Finished
<1> QED
  BY <1>1, <1>2, <1>3, InvLoop, InvTask, InvEnvironment DEF Next

LEMMA Invariance == Spec => []IInv
<1> QED
  BY InvInit, InvStep, PTL DEF Spec

\* For every number of connections, however the tasks end: connection.closed is
\* logged once, no child is left running, and shutdown cuts an authenticated
\* session only at its deadline, on a second signal or with a failed listener.
THEOREM TasksEndCleanly == Spec => []TasksEndClean
<1>1. IInv => ClosedExactlyOnce
  BY DEF IInv, TypeOK, Recorded, ClosedExactlyOnce, Spawned, Tasks, Running, Completed
<1>2. IInv => TasksEndClean
  BY <1>1 DEF IInv, TasksEndClean
<1> QED
  BY <1>2, Invariance, PTL

-----------------------------------------------------------------------------
(* Refinement: every step of Server is a step of Service or leaves it alone. *)

\* The phase, by the values of the loop's variables.
LEMMA PhaseIs ==
  ASSUME TypeOK
  PROVE  /\ loop = "returned" => phase_of = "down"
         /\ loop = "failed" => phase_of = "failed"
         /\ loop = "aborting" => phase_of = "draining"
         /\ loop = "serving" /\ abort_at = "none" => phase_of = "up"
         /\ loop = "serving" /\ abort_at # "none" => phase_of = "draining"
BY DEF TypeOK, phase_of

\* The same of the state after a step.
LEMMA PhaseBecomes ==
  ASSUME TypeOK'
  PROVE  /\ loop' = "returned" => phase_of' = "down"
         /\ loop' = "failed" => phase_of' = "failed"
         /\ loop' = "aborting" => phase_of' = "draining"
         /\ loop' = "serving" /\ abort_at' = "none" => phase_of' = "up"
         /\ loop' = "serving" /\ abort_at' # "none" => phase_of' = "draining"
BY DEF TypeOK, phase_of

LEMMA PhaseKept == loop' = loop /\ abort_at' = abort_at => phase_of' = phase_of
BY DEF phase_of

LEMMA SessionsKept == conn' = conn => session_of' = session_of
BY DEF session_of

\* One task moves: its session moves, the others stay.
LEMMA SessionMoves ==
  ASSUME TypeOK, NEW c \in Conns, NEW place, conn' = [conn EXCEPT ![c] = place]
  PROVE  session_of' = [session_of EXCEPT ![c] = session_at(place)]
BY DEF TypeOK, session_of

\* What each place of a task is to Service.
LEMMA SessionAt ==
  /\ \A place \in Running : session_at(place) = "open"
  /\ session_at("panicked") = "cut" /\ session_at("cancelled") = "cut"
  /\ session_at("done") = "closed" /\ session_at("reaped") = "closed"
  /\ \A place \in {"absent", "queued", "refused", "lost"} : session_at(place) = "none"
BY DEF session_at, Running

\* An empty JoinSet is a service without open or unrecorded sessions.
LEMMA OverWhenJoined == TypeOK /\ Tasks = {} => Svc!over(session_of)
<1> SUFFICES ASSUME TypeOK, Tasks = {}, NEW c \in Conns PROVE session_of[c] \in {"none", "closed"}
  BY DEF Svc!over
<1>1. conn[c] \in {"absent", "queued", "refused", "lost", "reaped"}
  BY DEF TypeOK, Tasks, ConnStates
<1> QED
  BY <1>1, SessionAt DEF session_of

LEMMA RefinesInit == Init => Svc!Init
<1> SUFFICES ASSUME Init PROVE Svc!Init
  OBVIOUS
<1>1. phase_of = "up"
  BY TypeInit, PhaseIs DEF Init
<1>2. session_of = [c \in Conns |-> "none"]
  BY SessionAt DEF Init, session_of
<1> QED
  BY <1>1, <1>2 DEF Svc!Init

\* A step that keeps the loop's phase and every session is invisible.
LEMMA Invisible ==
  ASSUME phase_of' = phase_of, session_of' = session_of
  PROVE  [Svc!Next]_(Svc!vars)
BY DEF Svc!vars

\* A step that moves one task and keeps the phase, by where the session goes.
LEMMA MoveRefines ==
  ASSUME TypeOK, NEW c \in Conns, NEW place, conn' = [conn EXCEPT ![c] = place],
         phase_of' = phase_of,
         \/ session_at(place) = session_at(conn[c])
         \/ phase_of = "up" /\ session_at(conn[c]) = "none" /\ session_at(place) = "open"
         \/ /\ phase_of \in {"up", "draining"} /\ session_at(conn[c]) = "open"
            /\ session_at(place) = "closed"
         \/ phase_of # "down" /\ session_at(conn[c]) = "open" /\ session_at(place) = "cut"
  PROVE  [Svc!Next]_(Svc!vars)
<1>1. session_of' = [session_of EXCEPT ![c] = session_at(place)]
  BY SessionMoves
<1>2. session_of[c] = session_at(conn[c])
  BY DEF session_of
<1>3. CASE session_at(place) = session_at(conn[c])
  <2>1. session_of' = session_of
    BY <1>1, <1>2, <1>3 DEF session_of
  <2> QED
    BY <2>1, Invisible
<1>4. CASE phase_of = "up" /\ session_at(conn[c]) = "none" /\ session_at(place) = "open"
  <2>1. Svc!Open(c)
    BY <1>1, <1>2, <1>4 DEF Svc!Open
  <2> QED
    BY <2>1 DEF Svc!Next
<1>5. CASE /\ phase_of \in {"up", "draining"} /\ session_at(conn[c]) = "open"
           /\ session_at(place) = "closed"
  <2>1. Svc!Close(c)
    BY <1>1, <1>2, <1>5 DEF Svc!Close
  <2> QED
    BY <2>1 DEF Svc!Next
<1>6. CASE phase_of # "down" /\ session_at(conn[c]) = "open" /\ session_at(place) = "cut"
  <2>1. Svc!Cut(c)
    BY <1>1, <1>2, <1>6 DEF Svc!Cut
  <2> QED
    BY <2>1 DEF Svc!Next
<1> QED
  BY <1>3, <1>4, <1>5, <1>6

\* Joining a task records a cut session or is invisible; the last one joined
\* may end a drain.
LEMMA JoinRefines ==
  ASSUME TypeOK, TypeOK', NEW c \in Conns, log_join(c), abort_at' = abort_at,
         \/ loop \in {"serving", "aborting"} /\ loop' = loop
         \/ phase_of = "draining" /\ loop' = "returned" /\ Tasks = {c}
  PROVE  [Svc!Next]_(Svc!vars)
<1>1. session_of' = [session_of EXCEPT ![c] = "closed"]
  <2>1. session_of' = [session_of EXCEPT ![c] = session_at("reaped")]
    BY SessionMoves DEF log_join
  <2> QED
    BY <2>1, SessionAt
<1>2. session_of[c] \in {"cut", "closed"}
  BY SessionAt DEF log_join, Completed, session_of
<1>3. CASE loop \in {"serving", "aborting"} /\ loop' = loop
  <2>1. phase_of \in {"up", "draining"} /\ phase_of' = phase_of
    BY <1>3, PhaseIs, PhaseKept
  <2>2. CASE session_of[c] = "cut"
    <3>1. Svc!Record(c)
      BY <1>1, <2>1, <2>2 DEF Svc!Record, Svc!settles
    <3> QED
      BY <3>1 DEF Svc!Next
  <2>3. CASE session_of[c] = "closed"
    <3>1. session_of' = session_of
      BY <1>1, <2>3 DEF session_of
    <3> QED
      BY <2>1, <3>1, Invisible
  <2> QED
    BY <1>2, <2>2, <2>3
<1>4. CASE phase_of = "draining" /\ loop' = "returned" /\ Tasks = {c}
  <2>1. phase_of' = "down"
    BY <1>4, PhaseBecomes
  <2>2. Svc!over(session_of')
    <3> SUFFICES ASSUME NEW d \in Conns PROVE session_of'[d] \in {"none", "closed"}
      BY DEF Svc!over
    <3>1. CASE d = c
      BY <3>1, <1>1 DEF session_of
    <3>2. CASE d # c
      <4>1. conn[d] \in {"absent", "queued", "refused", "lost", "reaped"}
        BY <1>4, <3>2 DEF TypeOK, Tasks, ConnStates
      <4>2. session_of'[d] = session_of[d]
        BY <1>1, <3>2 DEF session_of
      <4> QED
        BY <4>1, <4>2, SessionAt DEF session_of
    <3> QED
      BY <3>1, <3>2
  <2>3. CASE session_of[c] = "cut"
    <3>1. Svc!Record(c)
      BY <1>1, <1>4, <2>1, <2>2, <2>3 DEF Svc!Record, Svc!settles
    <3> QED
      BY <3>1 DEF Svc!Next
  <2>4. CASE session_of[c] = "closed"
    <3>1. session_of' = session_of
      BY <1>1, <2>4 DEF session_of
    <3>2. Svc!Stop
      BY <1>4, <2>1, <2>2, <3>1 DEF Svc!Stop, Svc!over
    <3> QED
      BY <3>2 DEF Svc!Next
  <2> QED
    BY <1>2, <2>3, <2>4
<1> QED
  BY <1>3, <1>4

LEMMA LoopRefines == TypeOK /\ TypeOK' /\ Loop => [Svc!Next]_(Svc!vars)
<1> SUFFICES ASSUME TypeOK, TypeOK', Loop PROVE [Svc!Next]_(Svc!vars)
  OBVIOUS
<1>1. ASSUME NEW c \in Conns, accept_admitted(c) PROVE [Svc!Next]_(Svc!vars)
  BY <1>1, MoveRefines, SessionAt, PhaseIs, PhaseKept DEF accept_admitted, accepting, loopVars, Running
<1>2. ASSUME NEW c \in Conns, accept_refused(c) PROVE [Svc!Next]_(Svc!vars)
  BY <1>2, MoveRefines, SessionAt, PhaseKept DEF accept_refused, loopVars
<1>3. ASSUME NEW c \in Conns, accept_lost(c) PROVE [Svc!Next]_(Svc!vars)
  BY <1>3, MoveRefines, SessionAt, PhaseKept DEF accept_lost, loopVars
<1>4. ASSUME NEW c \in Conns, join_next(c) PROVE [Svc!Next]_(Svc!vars)
  BY <1>4, JoinRefines, PhaseIs DEF join_next
<1>5. ASSUME NEW c \in Conns, join_aborted(c) PROVE [Svc!Next]_(Svc!vars)
  BY <1>5, JoinRefines, PhaseIs DEF join_aborted
<1>6. CASE accept_pause
  BY <1>6, Invisible, PhaseKept, SessionsKept DEF accept_pause
<1>7. CASE resume
  BY <1>7, Invisible, PhaseKept, SessionsKept DEF resume
<1>8. CASE accept_listener_failed
  <2>1. Svc!Fail
    BY <1>8, PhaseIs, PhaseBecomes, SessionsKept DEF accept_listener_failed, accepting, Svc!Fail
  <2> QED
    BY <2>1 DEF Svc!Next
<1>9. CASE take_shutdown
  <2>1. session_of' = session_of
    BY <1>9, SessionsKept DEF take_shutdown
  <2>2. CASE abort_at # "none"
    <3>1. phase_of' = phase_of
      BY <1>9, <2>2, PhaseIs, PhaseBecomes DEF take_shutdown
    <3> QED
      BY <2>1, <3>1, Invisible
  <2>3. CASE abort_at = "none" /\ Tasks = {}
    <3>1. Svc!Stop
      BY <1>9, <2>1, <2>3, OverWhenJoined, PhaseIs, PhaseBecomes DEF take_shutdown, Svc!Stop
    <3> QED
      BY <3>1 DEF Svc!Next
  <2>4. CASE abort_at = "none" /\ Tasks # {}
    <3>1. Svc!Drain
      BY <1>9, <2>1, <2>4, PhaseIs, PhaseBecomes DEF take_shutdown, Svc!Drain
    <3> QED
      BY <3>1 DEF Svc!Next
  <2> QED
    BY <2>2, <2>3, <2>4
<1>10. CASE abort_all
  <2>1. session_of' = session_of /\ phase_of = "draining"
    BY <1>10, SessionsKept, PhaseIs DEF abort_all, abort_due
  <2>2. CASE Tasks = {}
    <3>1. Svc!Stop
      BY <1>10, <2>1, <2>2, OverWhenJoined, PhaseBecomes DEF abort_all, Svc!Stop
    <3> QED
      BY <3>1 DEF Svc!Next
  <2>3. CASE Tasks # {}
    <3>1. phase_of' = "draining"
      BY <1>10, <2>3, PhaseBecomes DEF abort_all
    <3> QED
      BY <2>1, <3>1, Invisible
  <2> QED
    BY <2>2, <2>3
<1> QED
  BY <1>1, <1>2, <1>3, <1>4, <1>5, <1>6, <1>7, <1>8, <1>9, <1>10 DEF Loop

LEMMA TaskRefines ==
  ASSUME TypeOK, TypeOK', NEW c \in Conns, Task(c)
  PROVE  [Svc!Next]_(Svc!vars)
<1>1. phase_of' = phase_of
  <2>1. loop' = loop /\ abort_at' = abort_at
    BY DEF Task, first_poll, handshake_failed, authenticated, start_child, session_ended,
           shutdown_received, drain_timeout, tcp_shutdown, children_joined, task_panics,
           task_cancelled, step, loopVars
  <2> QED
    BY <2>1, PhaseKept
<1>2. CASE start_child(c)
  BY <1>1, <1>2, Invisible, SessionsKept DEF start_child
<1>3. CASE children_joined(c)
  BY <1>1, <1>3, MoveRefines, SessionAt, PhaseIs DEF children_joined, step, runtime_up, Running
<1>4. CASE task_panics(c)
  BY <1>1, <1>4, MoveRefines, SessionAt, PhaseIs DEF task_panics, runtime_up, Running
<1>5. CASE task_cancelled(c)
  BY <1>1, <1>5, MoveRefines, SessionAt, PhaseIs DEF task_cancelled
<1>6. CASE \E from, to \in Running : step(c, from, to)
  BY <1>1, <1>6, MoveRefines, SessionAt DEF step
<1>7. ASSUME \/ first_poll(c) \/ handshake_failed(c) \/ authenticated(c) \/ session_ended(c)
             \/ shutdown_received(c) \/ drain_timeout(c) \/ tcp_shutdown(c)
      PROVE  \E from, to \in Running : step(c, from, to)
  <2> USE DEF Running
  <2>1. CASE first_poll(c) \/ handshake_failed(c) \/ authenticated(c)
    BY <2>1 DEF first_poll, handshake_failed, authenticated
  <2>2. CASE session_ended(c) \/ shutdown_received(c)
    BY <2>2 DEF session_ended, shutdown_received
  <2>3. CASE drain_timeout(c) \/ tcp_shutdown(c)
    BY <2>3 DEF drain_timeout, tcp_shutdown
  <2> QED
    BY <1>7, <2>1, <2>2, <2>3
<1> QED
  BY <1>2, <1>3, <1>4, <1>5, <1>6, <1>7 DEF Task

LEMMA EnvironmentRefines ==
  ASSUME TypeOK, TypeOK', Environment
  PROVE  [Svc!Next]_(Svc!vars)
<1>1. phase_of' = phase_of
  BY PhaseKept DEF Environment, Signal, Time, Connect, child_exits, loopVars
<1>2. CASE conn' = conn
  BY <1>1, <1>2, Invisible, SessionsKept
<1>3. ASSUME NEW c \in Conns, Connect(c) PROVE [Svc!Next]_(Svc!vars)
  BY <1>1, <1>3, MoveRefines, SessionAt DEF Connect
<1> QED
  BY <1>2, <1>3 DEF Environment, Signal, Time, child_exits

LEMMA StepRefines == TypeOK /\ TypeOK' /\ [Next]_vars => [Svc!Next]_(Svc!vars)
<1> SUFFICES ASSUME TypeOK, TypeOK', [Next]_vars PROVE [Svc!Next]_(Svc!vars)
  OBVIOUS
<1>1. CASE UNCHANGED vars
  BY <1>1, Invisible, PhaseKept, SessionsKept DEF vars
<1>2. CASE Finished
  BY <1>1, <1>2 DEF Finished
<1> QED
  BY <1>1, <1>2, LoopRefines, TaskRefines, EnvironmentRefines DEF Next

\* The accept loop with its tasks, signals, panics and aborts implements the
\* service of ADR-0028 for every number of connections: sessions open only
\* while it is up, each ends once with one record, none is left at a clean end.
THEOREM ServerImplementsService == Spec => ImplementsService
<1> QED
  BY RefinesInit, StepRefines, ServerTypeCorrect, PTL DEF Spec, ImplementsService, Svc!Spec
=============================================================================
