-------------------------------- MODULE Reaper --------------------------------
(***************************************************************************)
(* Killing and reaping one child (crates/quantumssh-core/src/exec.rs:      *)
(* ChildScope and Reaper, ADR-0038 sections 6 and 7).                      *)
(*                                                                         *)
(* The reap task polls the arms of its biased select one after the other,  *)
(* on a multi-threaded runtime: the driver, the PTY's pump, the clock, the *)
(* child and the abort of the connection task act between two polls.  What *)
(* is done under the registry lock (try_reap, the two drop guards) is one  *)
(* step.  Once the leader is reaped its PID may belong to anyone.          *)
(***************************************************************************)
EXTENDS Naturals

VARIABLES
  pty,              \* hangup_grace is Some
  leader,           \* running, zombie, reaped
  leads_group,      \* the leader leads its own group (a PTY helper: after setsid)
  group,            \* other members of the group are alive
  sigkilled,        \* SIGKILL is pending on the leader
  registered,       \* the PID is in ChildScope::live
  task,             \* the arm the reap task polls next; returned; dropped
  kill_tx,          \* held; fired: sent, or dropped with ChildIo
  failed_tx,        \* the master pump's report: held, sent, dropped
  kill_pending, failure_pending,
  grace_end,        \* none, running, over
  scope,            \* ChildScope: held, dropped
  hangups,          \* history: SIGHUPs sent
  stray             \* history: a signal went to a reaped PID

vars == <<pty, leader, leads_group, group, sigkilled, registered, task, kill_tx,
          failed_tx, kill_pending, failure_pending, grace_end, scope, hangups, stray>>

process == <<leader, leads_group, group, sigkilled>>
request == <<kill_tx, failed_tx>>

\* register: the child is in the registry before its reap task is spawned.  A
\* pipe child leads its group from the start; a PTY's helper calls setsid.
Init ==
  /\ pty \in BOOLEAN
  /\ leader = "running"
  /\ leads_group = ~pty
  /\ group = FALSE
  /\ sigkilled = FALSE
  /\ registered = TRUE
  /\ task = "kill"
  /\ kill_tx = "held"
  /\ failed_tx = IF pty THEN "held" ELSE "dropped"
  /\ kill_pending = TRUE
  /\ failure_pending = TRUE
  /\ grace_end = "none"
  /\ scope = "held"
  /\ hangups = 0
  /\ stray = FALSE
-----------------------------------------------------------------------------
(* Signals.                                                                *)

unreaped == leader # "reaped"

\* Mutant: SIGKILL to the group alone.
kill_group_only ==
  /\ group' = (group /\ ~leads_group)
  /\ sigkilled' = (sigkilled \/ (leader = "running" /\ leads_group))
  /\ stray' = (stray \/ ~unreaped)
  /\ UNCHANGED <<leader, leads_group>>

\* Mutant: SIGKILL to the leader alone.
kill_leader_only ==
  /\ sigkilled' = (sigkilled \/ leader = "running")
  /\ stray' = (stray \/ ~unreaped)
  /\ UNCHANGED <<leader, leads_group, group>>

\* SIGKILL to the group, ESRCH while the leader does not lead one, and to the
\* leader itself.
kill_group ==
  /\ group' = (group /\ ~leads_group)
  /\ sigkilled' = (sigkilled \/ leader = "running")
  /\ stray' = (stray \/ ~unreaped)
  /\ UNCHANGED <<leader, leads_group>>

no_signal == UNCHANGED <<process, stray>>

\* Pipes: the group kill.  A PTY: SIGHUP and the grace, unless one is running.
hang_up ==
  /\ hangups' = hangups + 1
  /\ grace_end' = "running"
  /\ stray' = (stray \/ ~unreaped)
  /\ UNCHANGED process

begin_kill ==
  \/ ~pty /\ kill_group /\ UNCHANGED <<hangups, grace_end>>
  \/ pty /\ grace_end = "none" /\ hang_up
  \/ pty /\ grace_end # "none" /\ no_signal /\ UNCHANGED <<hangups, grace_end>>
-----------------------------------------------------------------------------
(* Reaper::run.  The arms are polled in order; one that fires restarts.    *)

turn(at, then) ==
  /\ task = at
  /\ task' = then
  /\ UNCHANGED <<pty, request, scope>>

\* Mutant: a request is served every time the arm is polled.
poll_kill_repeats ==
  \/ /\ kill_tx = "fired"
     /\ turn("kill", IF pty /\ grace_end = "none" THEN "kill" ELSE "failed")
     /\ begin_kill
     /\ UNCHANGED <<kill_pending, failure_pending, registered>>
  \/ /\ kill_tx # "fired"
     /\ turn("kill", "failed")
     /\ no_signal
     /\ UNCHANGED <<kill_pending, failure_pending, grace_end, hangups, registered>>

poll_kill ==
  \/ /\ kill_pending /\ kill_tx = "fired"
     /\ turn("kill", "kill")
     /\ kill_pending' = FALSE
     /\ begin_kill
     /\ UNCHANGED <<failure_pending, registered>>
  \/ /\ ~(kill_pending /\ kill_tx = "fired")
     /\ turn("kill", "failed")
     /\ no_signal
     /\ UNCHANGED <<kill_pending, failure_pending, grace_end, hangups, registered>>

\* A pump that ends without a report reports nothing.
poll_failed ==
  \/ /\ failure_pending /\ failed_tx = "sent"
     /\ turn("failed", "kill")
     /\ failure_pending' = FALSE
     /\ begin_kill
     /\ UNCHANGED <<kill_pending, registered>>
  \/ /\ failure_pending /\ failed_tx = "dropped"
     /\ turn("failed", "kill")
     /\ failure_pending' = FALSE
     /\ no_signal
     /\ UNCHANGED <<kill_pending, grace_end, hangups, registered>>
  \/ /\ ~failure_pending \/ failed_tx = "held"
     /\ turn("failed", "grace")
     /\ no_signal
     /\ UNCHANGED <<kill_pending, failure_pending, grace_end, hangups, registered>>

poll_grace ==
  \/ /\ grace_end = "over"
     /\ turn("grace", "kill")
     /\ grace_end' = "none"
     /\ kill_group
     /\ UNCHANGED <<kill_pending, failure_pending, hangups, registered>>
  \/ /\ grace_end # "over"
     /\ turn("grace", "exit")
     /\ no_signal
     /\ UNCHANGED <<kill_pending, failure_pending, grace_end, hangups, registered>>

\* Mutant: a hang-up in progress is forgotten when the leader exits.
poll_exit_forgets ==
  \/ /\ leader # "running"
     /\ turn("exit", "reap")
     /\ no_signal
     /\ UNCHANGED <<kill_pending, failure_pending, grace_end, hangups, registered>>
  \/ /\ leader = "running"
     /\ turn("exit", "kill")
     /\ no_signal
     /\ UNCHANGED <<kill_pending, failure_pending, grace_end, hangups, registered>>

\* wait_exit resolved: a hang-up in progress ends with the group kill.
poll_exit ==
  \/ /\ leader # "running"
     /\ turn("exit", "reap")
     /\ grace_end' = "none"
     /\ IF grace_end # "none" THEN kill_group ELSE no_signal
     /\ UNCHANGED <<kill_pending, failure_pending, hangups, registered>>
  \/ /\ leader = "running"
     /\ turn("exit", "kill")
     /\ no_signal
     /\ UNCHANGED <<kill_pending, failure_pending, grace_end, hangups, registered>>

\* Mutant: reaped, deregistered later.
try_reap_registered ==
  /\ turn("reap", "returned")
  /\ leader' = "reaped"
  /\ UNCHANGED <<registered, leads_group, group, sigkilled, stray, kill_pending,
                 failure_pending, grace_end, hangups>>

\* Reaped and deregistered under the lock.
try_reap ==
  /\ turn("reap", "returned")
  /\ leader' = "reaped"
  /\ registered' = FALSE
  /\ UNCHANGED <<leads_group, group, sigkilled, stray, kill_pending,
                 failure_pending, grace_end, hangups>>
-----------------------------------------------------------------------------
(* The connection.                                                         *)

taskVars == <<task, kill_pending, failure_pending, grace_end, hangups>>

\* ChildIo::kill, or ChildIo dropped with the driver.
fire_kill ==
  /\ kill_tx = "held"
  /\ kill_tx' = "fired"
  /\ UNCHANGED <<pty, process, registered, taskVars, failed_tx, scope, stray>>

\* The master pump fails, or ends without a report.
pump_ends ==
  /\ failed_tx = "held"
  /\ failed_tx' \in {"sent", "dropped"}
  /\ UNCHANGED <<pty, process, registered, taskVars, kill_tx, scope, stray>>

\* The connection task ends or is aborted: ChildScope's guard signals every
\* registered child, by PID and by group, under the lock.
drop_scope ==
  /\ scope = "held"
  /\ scope' = "dropped"
  /\ IF registered THEN kill_group ELSE no_signal
  /\ UNCHANGED <<pty, registered, taskVars, request>>

\* The aborted reap task is dropped between two turns: Reaper's own guard.
drop_reaper ==
  /\ scope = "dropped"
  /\ task = "kill"
  /\ task' = "dropped"
  /\ IF unreaped THEN kill_group ELSE no_signal
  /\ registered' = FALSE
  /\ UNCHANGED <<pty, kill_pending, failure_pending, grace_end, hangups, scope, request>>

\* tokio reaps the Child it was left with.
orphan_reaped ==
  /\ task = "dropped"
  /\ leader = "zombie"
  /\ leader' = "reaped"
  /\ UNCHANGED <<pty, leads_group, group, sigkilled, registered, taskVars, scope,
                 request, stray>>
-----------------------------------------------------------------------------
(* The processes and the clock.                                            *)

osVars == <<pty, registered, taskVars, request, scope, stray>>

\* The PTY helper becomes a session and group leader.
setsid ==
  /\ leader = "running" /\ ~sigkilled /\ ~leads_group
  /\ leads_group' = TRUE
  /\ UNCHANGED <<leader, group, sigkilled, osVars>>

forks ==
  /\ leader = "running" /\ ~sigkilled /\ leads_group /\ ~group
  /\ group' = TRUE
  /\ UNCHANGED <<leader, leads_group, sigkilled, osVars>>

leader_exits ==
  /\ leader = "running"
  /\ leader' = "zombie"
  /\ UNCHANGED <<leads_group, group, sigkilled, osVars>>

grace_passes ==
  /\ grace_end = "running"
  /\ grace_end' = "over"
  /\ UNCHANGED <<pty, process, registered, task, kill_pending, failure_pending,
                 hangups, request, scope, stray>>

Reap == poll_kill \/ poll_failed \/ poll_grace \/ poll_exit \/ try_reap

\* Nothing is left to do once the leader is reaped and the scope is gone.
Finished ==
  /\ leader = "reaped"
  /\ scope = "dropped"
  /\ UNCHANGED vars

Next ==
  \/ Reap
  \/ fire_kill \/ pump_ends \/ drop_scope \/ drop_reaper \/ orphan_reaped
  \/ setsid \/ forks \/ leader_exits \/ grace_passes
  \/ Finished

Spec == Init /\ [][Next]_vars

(* Fairness.  The reap task is polled, the grace timer fires, a process with *)
(* SIGKILL pending dies, tokio reaps orphans.  A child need not exit, honour *)
(* SIGHUP or call setsid.                                                    *)
Fairness ==
  /\ WF_vars(Reap)
  /\ WF_vars(grace_passes)
  /\ WF_vars(sigkilled /\ leader_exits)
  /\ WF_vars(orphan_reaped)

FairSpec == Spec /\ Fairness
-----------------------------------------------------------------------------
(* Properties.                                                             *)

\* The type of the reaper's state; two requests make at most two hang-ups.
TypeOK ==
  /\ pty \in BOOLEAN /\ registered \in BOOLEAN /\ stray \in BOOLEAN
  /\ leads_group \in BOOLEAN /\ group \in BOOLEAN /\ sigkilled \in BOOLEAN
  /\ kill_pending \in BOOLEAN /\ failure_pending \in BOOLEAN
  /\ leader \in {"running", "zombie", "reaped"}
  /\ task \in {"kill", "failed", "grace", "exit", "reap", "returned", "dropped"}
  /\ kill_tx \in {"held", "fired"}
  /\ failed_tx \in {"held", "sent", "dropped"}
  /\ grace_end \in {"none", "running", "over"}
  /\ scope \in {"held", "dropped"}
  /\ hangups \in 0..2

\* ADR-0016: no signal ever reaches a PID that was reaped and may be reused,
\* whichever of the five senders races the reap.
SignalsOnlyUnreaped == ~stray

\* ADR-0038 section 6: "No live child is ever unregistered, and no reaped PID is
\* ever registered"; a child that leaves the registry unreaped is being killed.
RegistryExact ==
  /\ registered => unreaped
  /\ leader = "running" /\ ~registered => sigkilled

\* A kill the reap task has taken, or a hang-up it has begun, is carried to the
\* group's SIGKILL before the leader is reaped, even if the leader exits first.
TakenKillReachesGroup ==
  task = "returned" /\ (~kill_pending \/ hangups > 0) => ~group

\* Aborting the connection task kills synchronously: by the time the scope is
\* gone, an unreaped leader is dying and so is its group.
AbortLeavesNoOrphan ==
  scope = "dropped" /\ unreaped => ~group /\ (leader = "running" => sigkilled)

\* A requested kill always ends in a reaped leader, a child that ignores SIGHUP
\* included.
KillIsReaped == (kill_tx = "fired") ~> (leader = "reaped")
\* Signals and reaping never cross: the registry is exact under its lock and no
\* sender reaches a PID after the reap (try_reap and both drop guards).
SignalsGuarded == TypeOK /\ SignalsOnlyUnreaped /\ RegistryExact

\* No member of the group outlives a kill that was taken or an aborted
\* connection (Reaper::run, ChildScope::drop).
KillsReachGroup == TakenKillReachesGroup /\ AbortLeavesNoOrphan
=============================================================================
