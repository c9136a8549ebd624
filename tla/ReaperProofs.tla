---------------------------- MODULE ReaperProofs ----------------------------
(* Theorems about Reaper: signals and the reap never cross, and a kill that  *)
(* was taken, or an aborted connection, leaves nobody alive in the group.    *)
EXTENDS Reaper, TLAPS

-----------------------------------------------------------------------------
(* The inductive invariant, in parts.                                        *)

\* Where the reap task stands explains the registry and the leader: while it
\* runs the child is registered and unreaped, and it is about to reap only a
\* leader that exited, with no hang-up left to finish.
TaskInformed ==
  /\ task \notin {"returned", "dropped"} => registered /\ unreaped
  /\ task \in {"reap", "returned"} => leader # "running" /\ grace_end = "none"
  /\ task = "returned" => leader = "reaped"
  /\ task = "dropped" => scope = "dropped" /\ ~registered

\* A hang-up is of a PTY's child, each request makes at most one, and pipes
\* have no pump to report.
RequestsCounted ==
  /\ ~pty => grace_end = "none" /\ hangups = 0 /\ failed_tx = "dropped"
  /\ kill_pending /\ failure_pending => hangups = 0
  /\ kill_pending \/ failure_pending => hangups <= 1

\* Nobody is left in the group, and nobody can join it.
Doomed == ~group /\ (leader = "running" => sigkilled)

\* A kill that was taken is done, or the hang-up that will finish it is running.
TakenKillGoesOn ==
  /\ group => leads_group
  /\ (~kill_pending \/ hangups > 0) => Doomed \/ grace_end # "none"
  /\ scope = "dropped" /\ unreaped => Doomed

IInv ==
  /\ TypeOK /\ SignalsOnlyUnreaped /\ RegistryExact
  /\ TaskInformed /\ RequestsCounted /\ TakenKillGoesOn

-----------------------------------------------------------------------------
(* The signals.                                                              *)

\* A group kill of an unreaped leader leaves nobody in the group who is not
\* dying, and strays nowhere.
LEMMA KillGroup ==
  ASSUME IInv, kill_group, unreaped
  PROVE  /\ group' = FALSE /\ stray' = FALSE /\ sigkilled' \in BOOLEAN
         /\ leader' = leader /\ leads_group' = leads_group
         /\ leader = "running" => sigkilled'
<1> USE DEF IInv, TypeOK, kill_group, unreaped, TakenKillGoesOn, SignalsOnlyUnreaped
<1>1. group' = FALSE
  BY Zenon
<1>2. stray' = FALSE
  BY Zenon
<1>3. sigkilled' \in BOOLEAN /\ (leader = "running" => sigkilled')
  BY Zenon
<1> QED
  BY <1>1, <1>2, <1>3

LEMMA HangUp ==
  ASSUME IInv, hang_up, unreaped
  PROVE  /\ stray' = FALSE /\ hangups' = hangups + 1 /\ grace_end' = "running"
         /\ UNCHANGED <<leader, leads_group, group, sigkilled>>
<1>1. stray' = FALSE
  BY Zenon DEF IInv, TypeOK, hang_up, unreaped, SignalsOnlyUnreaped
<1> QED
  BY <1>1 DEF hang_up, process

\* A kill that begins while the leader is unreaped: the group is killed, or a
\* hang-up is running, and only a PTY's first request counts one.
LEMMA BeginKill ==
  ASSUME IInv, begin_kill, unreaped
  PROVE  /\ stray' = FALSE /\ leader' = leader /\ leads_group' = leads_group
         /\ group' => group
         /\ sigkilled => sigkilled'
         /\ grace_end' = "none" => grace_end = "none"
         /\ ~pty => grace_end' = "none" /\ hangups' = hangups
         /\ hangups' \in {hangups, hangups + 1}
         /\ Doomed' \/ grace_end' # "none"
         /\ Doomed => Doomed'
<1>1. CASE ~pty /\ kill_group /\ UNCHANGED <<hangups, grace_end>>
  <2>1. sigkilled => sigkilled'
    BY <1>1, Zenon DEF kill_group
  <2>2. grace_end = "none"
    BY <1>1 DEF RequestsCounted, IInv
  <2> QED
    BY <1>1, <2>1, <2>2, KillGroup DEF Doomed
<1>2. CASE pty /\ grace_end = "none" /\ hang_up
  BY <1>2, HangUp DEF Doomed
<1>3. CASE pty /\ grace_end # "none" /\ no_signal /\ UNCHANGED <<hangups, grace_end>>
  <2>1. stray = FALSE
    BY Zenon DEF IInv, SignalsOnlyUnreaped, TypeOK
  <2> QED
    BY <1>3, <2>1 DEF no_signal, process, Doomed
<1> QED
  BY <1>1, <1>2, <1>3 DEF begin_kill

-----------------------------------------------------------------------------
(* Type correctness.                                                         *)

LEMMA TypeInit == Init => TypeOK
<1> SUFFICES ASSUME Init PROVE TypeOK
  OBVIOUS
<1>1. /\ pty \in BOOLEAN /\ registered \in BOOLEAN /\ stray \in BOOLEAN
      /\ leads_group \in BOOLEAN /\ group \in BOOLEAN /\ sigkilled \in BOOLEAN
      /\ kill_pending \in BOOLEAN /\ failure_pending \in BOOLEAN
  BY Zenon DEF Init
<1>2. failed_tx \in {"held", "sent", "dropped"}
  BY Zenon DEF Init
<1>3. /\ leader \in {"running", "zombie", "reaped"}
      /\ task \in {"kill", "failed", "grace", "exit", "reap", "returned", "dropped"}
      /\ kill_tx \in {"held", "fired"} /\ scope \in {"held", "dropped"}
      /\ grace_end \in {"none", "running", "over"} /\ hangups \in 0..2
  BY DEF Init
<1> QED
  BY <1>1, <1>2, <1>3, Zenon DEF TypeOK

LEMMA TypeReap == ASSUME TypeOK, RequestsCounted, Reap PROVE TypeOK'
<1> USE DEF Reap, poll_kill, poll_failed, poll_grace, poll_exit, try_reap, turn, request
<1>1. /\ kill_pending' \in BOOLEAN /\ failure_pending' \in BOOLEAN
      /\ registered' \in BOOLEAN /\ pty' \in BOOLEAN
  BY Zenon DEF TypeOK
<1>2. /\ group' \in BOOLEAN /\ leads_group' \in BOOLEAN
      /\ sigkilled' \in BOOLEAN /\ stray' \in BOOLEAN
  BY DEF TypeOK, begin_kill, hang_up, kill_group, no_signal, process
<1>3. /\ grace_end' \in {"none", "running", "over"}
      /\ leader' \in {"running", "zombie", "reaped"}
  BY DEF TypeOK, begin_kill, hang_up, kill_group, no_signal, process
<1>4. /\ kill_tx' \in {"held", "fired"} /\ failed_tx' \in {"held", "sent", "dropped"}
      /\ task' \in {"kill", "failed", "grace", "exit", "reap", "returned", "dropped"}
      /\ scope' \in {"held", "dropped"}
  BY DEF TypeOK
<1>5. hangups' \in 0..2
  BY DEF TypeOK, begin_kill, hang_up, RequestsCounted
<1> QED
  BY <1>1, <1>2, <1>3, <1>4, <1>5, Zenon DEF TypeOK

LEMMA TypeConnection ==
  ASSUME TypeOK, fire_kill \/ pump_ends \/ drop_scope \/ drop_reaper \/ orphan_reaped
  PROVE  TypeOK'
<1> USE DEF fire_kill, pump_ends, drop_scope, drop_reaper, orphan_reaped, TypeOK, request,
            process, taskVars, no_signal, kill_group
<1>1. /\ group' \in BOOLEAN /\ leads_group' \in BOOLEAN
      /\ sigkilled' \in BOOLEAN /\ stray' \in BOOLEAN
  OBVIOUS
<1>2. /\ kill_pending' \in BOOLEAN /\ failure_pending' \in BOOLEAN
      /\ registered' \in BOOLEAN /\ pty' \in BOOLEAN
  OBVIOUS
<1>3. /\ leader' \in {"running", "zombie", "reaped"} /\ grace_end' \in {"none", "running", "over"}
      /\ kill_tx' \in {"held", "fired"} /\ failed_tx' \in {"held", "sent", "dropped"}
      /\ task' \in {"kill", "failed", "grace", "exit", "reap", "returned", "dropped"}
      /\ scope' \in {"held", "dropped"} /\ hangups' \in 0..2
  OBVIOUS
<1> QED
  BY <1>1, <1>2, <1>3, Zenon

LEMMA TypeSystem ==
  ASSUME TypeOK, setsid \/ forks \/ leader_exits \/ grace_passes PROVE TypeOK'
  BY DEF setsid, forks, leader_exits, grace_passes, TypeOK, osVars, request, process, taskVars

-----------------------------------------------------------------------------
(* Every step preserves the invariant.                                       *)

LEMMA InvInit == Init => IInv
<1> SUFFICES ASSUME Init PROVE IInv
  OBVIOUS
<1>1. SignalsOnlyUnreaped /\ RegistryExact
  BY DEF Init, SignalsOnlyUnreaped, RegistryExact, unreaped
<1>2. TaskInformed /\ TakenKillGoesOn
  BY DEF Init, TaskInformed, TakenKillGoesOn, Doomed, unreaped
<1>3. RequestsCounted
  BY DEF Init, RequestsCounted
<1> QED
  BY <1>1, <1>2, <1>3, TypeInit DEF IInv

\* What the invariant adds to the types.
Informed ==
  /\ SignalsOnlyUnreaped /\ RegistryExact
  /\ TaskInformed /\ RequestsCounted /\ TakenKillGoesOn

\* The reap task: each arm of its select.
LEMMA InvReap == IInv /\ Reap => IInv'
<1> SUFFICES ASSUME IInv, Reap PROVE Informed'
  BY TypeReap DEF IInv, Informed
<1> USE DEF Informed, SignalsOnlyUnreaped, RegistryExact, TaskInformed, RequestsCounted,
            TakenKillGoesOn, turn, request
<1>1. Informed /\ hangups \in 0..2
  BY DEF IInv, TypeOK
<1>2. task \notin {"returned", "dropped"} /\ registered /\ unreaped
  BY <1>1 DEF Reap, poll_kill, poll_failed, poll_grace, poll_exit, try_reap
<1>3. CASE poll_kill
  <2>1. CASE begin_kill /\ kill_pending /\ kill_tx = "fired"
    <3>1. /\ task' = "kill" /\ kill_pending' = FALSE
          /\ UNCHANGED <<pty, failed_tx, scope, registered, failure_pending>>
      BY <1>3, <2>1 DEF poll_kill
    <3> QED
      BY <1>1, <1>2, <2>1, <3>1, BeginKill DEF unreaped
  <2>2. CASE no_signal /\ UNCHANGED <<grace_end, hangups>> /\ task' = "failed"
    BY <1>1, <1>2, <1>3, <2>2 DEF poll_kill, no_signal, process, Doomed, unreaped
  <2> QED
    BY <1>3, <2>1, <2>2 DEF poll_kill
<1>4. CASE poll_failed
  <2>1. CASE begin_kill /\ failure_pending /\ failed_tx = "sent"
    <3>1. /\ task' = "kill" /\ failure_pending' = FALSE
          /\ UNCHANGED <<pty, failed_tx, scope, registered, kill_pending>>
      BY <1>4, <2>1 DEF poll_failed
    <3> QED
      BY <1>1, <1>2, <2>1, <3>1, BeginKill DEF unreaped
  <2>2. CASE no_signal /\ UNCHANGED <<grace_end, hangups>>
    <3>1. /\ task' \in {"kill", "grace"} /\ (failure_pending' => failure_pending)
          /\ UNCHANGED <<pty, failed_tx, scope, registered, kill_pending>>
      BY <1>4, <2>2 DEF poll_failed
    <3> QED
      BY <1>1, <1>2, <2>2, <3>1 DEF no_signal, process, Doomed, unreaped
  <2> QED
    BY <1>4, <2>1, <2>2 DEF poll_failed
<1>5. CASE poll_grace
  <2>1. CASE grace_end = "over"
    <3>1. /\ kill_group /\ task' = "kill"
          /\ UNCHANGED <<pty, failed_tx, scope, registered, kill_pending, failure_pending, hangups>>
      BY <1>5, <2>1 DEF poll_grace
    <3>2. grace_end' = "none"
      BY <1>5, <2>1 DEF poll_grace
    <3> QED
      BY <1>1, <1>2, <2>1, <3>1, <3>2, KillGroup DEF Doomed, unreaped
  <2>2. CASE grace_end # "over"
    <3>1. /\ no_signal /\ task' = "exit"
          /\ UNCHANGED <<pty, failed_tx, scope, registered, kill_pending, failure_pending, hangups,
                         grace_end>>
      BY <1>5, <2>2 DEF poll_grace
    <3> QED
      BY <1>1, <1>2, <3>1 DEF no_signal, process, Doomed, unreaped
  <2> QED
    BY <2>1, <2>2
<1>6. CASE poll_exit
  <2>1. CASE leader # "running" /\ grace_end # "none"
    <3>1. /\ kill_group /\ task' = "reap" /\ grace_end' = "none"
          /\ UNCHANGED <<pty, failed_tx, scope, registered, kill_pending, failure_pending, hangups>>
      BY <1>6, <2>1 DEF poll_exit
    <3> QED
      BY <1>1, <1>2, <2>1, <3>1, KillGroup DEF Doomed, unreaped
  <2>2. CASE leader = "running" \/ grace_end = "none"
    <3>1. /\ no_signal /\ task' = IF leader = "running" THEN "kill" ELSE "reap"
          /\ UNCHANGED <<pty, failed_tx, scope, registered, kill_pending, failure_pending, hangups,
                         grace_end>>
      BY <1>6, <2>2 DEF poll_exit
    <3> QED
      BY <1>1, <1>2, <2>2, <3>1 DEF no_signal, process, Doomed, unreaped
  <2> QED
    BY <2>1, <2>2
<1>7. CASE try_reap
  BY <1>1, <1>2, <1>7 DEF try_reap, Doomed, unreaped
<1> QED
  BY <1>3, <1>4, <1>5, <1>6, <1>7 DEF Reap

\* The connection: its requests, and the two drop guards.
LEMMA InvConnection ==
  ASSUME IInv, fire_kill \/ pump_ends \/ drop_scope \/ drop_reaper \/ orphan_reaped
  PROVE  IInv'
<1> SUFFICES Informed'
  BY TypeConnection DEF IInv, Informed
<1> USE DEF Informed, SignalsOnlyUnreaped, RegistryExact, TaskInformed, RequestsCounted,
            TakenKillGoesOn, Doomed, process, request, taskVars
<1>1. Informed
  BY DEF IInv
<1>2. CASE fire_kill
  BY <1>1, <1>2 DEF fire_kill, unreaped
<1>3. CASE pump_ends
  BY <1>1, <1>3 DEF pump_ends, unreaped
<1>4. CASE drop_scope
  BY <1>1, <1>4, KillGroup DEF drop_scope, no_signal, unreaped
<1>5. CASE drop_reaper
  BY <1>1, <1>5, KillGroup DEF drop_reaper, no_signal, unreaped
<1>6. CASE orphan_reaped
  BY <1>1, <1>6 DEF orphan_reaped, unreaped
<1> QED
  BY <1>2, <1>3, <1>4, <1>5, <1>6

\* The processes and the clock.
LEMMA InvSystem ==
  ASSUME IInv, setsid \/ forks \/ leader_exits \/ grace_passes
  PROVE  IInv'
<1> SUFFICES Informed'
  BY TypeSystem DEF IInv, Informed
<1> USE DEF Informed, SignalsOnlyUnreaped, RegistryExact, TaskInformed, RequestsCounted,
            TakenKillGoesOn, Doomed, unreaped, process, request, taskVars, osVars
<1>1. Informed
  BY DEF IInv
<1>2. CASE setsid
  BY <1>1, <1>2 DEF setsid
<1>3. CASE forks
  BY <1>1, <1>3 DEF forks
<1>4. CASE leader_exits
  BY <1>1, <1>4 DEF leader_exits
<1>5. CASE grace_passes
  BY <1>1, <1>5 DEF grace_passes
<1> QED
  BY <1>2, <1>3, <1>4, <1>5

LEMMA InvStutter == IInv /\ UNCHANGED vars => IInv'
  BY DEF IInv, TypeOK, SignalsOnlyUnreaped, RegistryExact, TaskInformed, RequestsCounted,
         TakenKillGoesOn, Doomed, unreaped, vars

LEMMA InvNext == IInv /\ [Next]_vars => IInv'
  BY InvReap, InvConnection, InvSystem, InvStutter DEF Next, Finished

LEMMA Invariance == Spec => []IInv
<1>1. Init => IInv
  BY InvInit
<1>2. IInv /\ [Next]_vars => IInv'
  BY InvNext
<1> QED
  BY <1>1, <1>2, PTL DEF Spec

-----------------------------------------------------------------------------
(* The theorems.                                                             *)

\* No signal reaches a PID that was reaped: the kill arm, the grace, the exit
\* arm and both drop guards only ever signal a child that is still registered
\* or unreaped, and the registry never lists a reaped PID nor loses a live one
\* that is not dying (Reaper::run, try_reap, ChildScope::drop, Reaper::drop).
THEOREM SignalsAreGuarded == Spec => []SignalsGuarded
<1>1. IInv => SignalsGuarded
  BY DEF IInv, SignalsGuarded
<1> QED
  BY <1>1, Invariance, PTL

\* A kill the reap task has taken is carried to the group before the leader is
\* reaped, and an aborted connection leaves no member of the group alive, in
\* every order of request, pump failure, grace, exit and abort (Reaper::run,
\* ChildScope::drop).
THEOREM KillsAreCarriedOut == Spec => []KillsReachGroup
<1>1. IInv => KillsReachGroup
  BY DEF IInv, KillsReachGroup, TakenKillReachesGroup, AbortLeavesNoOrphan, TaskInformed,
         TakenKillGoesOn, Doomed
<1> QED
  BY <1>1, Invariance, PTL
=============================================================================
