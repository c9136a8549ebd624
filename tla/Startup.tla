------------------------------- MODULE Startup -------------------------------
(***************************************************************************)
(* One start of the server (crates/quantumssh/src/main.rs, config.rs and   *)
(* notify.rs): command line, configuration file, the StrictModes check and *)
(* the read of each trusted file, bind, signal handlers, readiness, and    *)
(* the two shutdown signals.  Files are those of Keygen, whose runs go on  *)
(* beside it; the operator may point a name at another file at any time.   *)
(*                                                                         *)
(* The accept loop is one step here (Server.tla has the rest).  systemd is *)
(* external: it stops the service with SIGTERM and kills it when its stop  *)
(* timer, which STOPPING extends, runs out.                                *)
(***************************************************************************)
EXTENDS Keygen

\* The settings that are numbers, at least 1.
Bounded == {"handshake_timeout", "drain_timeout", "max_connections"}

CONSTANTS
  MaxTime,       \* bound on the clock
  MaxInteger,    \* the largest integer TOML allows
  INSTANT_MAX,   \* the latest instant the platform can express
  FAR_FUTURE,    \* the deadline that stands for one beyond it
  ABORT_GRACE,   \* what the accept loop may take past the deadline
  STOP_MARGIN,   \* what STOPPING adds to the drain
  TimeoutStop    \* systemd's own stop timeout

ASSUME StartupAssumption ==
  /\ {MaxTime, MaxInteger, INSTANT_MAX, FAR_FUTURE, ABORT_GRACE, STOP_MARGIN, TimeoutStop} \subseteq Nat
  /\ ABORT_GRACE < STOP_MARGIN /\ MaxTime + FAR_FUTURE <= INSTANT_MAX
  /\ MaxInteger >= 2
  /\ \A p \in DOMAIN Profiles : LET t == Profiles[p] IN
       /\ \A args \in t.args : Len(args) \in Nat /\ DOMAIN args = 1..Len(args)
       /\ \A i \in DOMAIN t.ino : t.ino[i].content.kind = "toml" =>
            \A x \in DOMAIN t.ino[i].content.settings \cap Bounded : t.ino[i].content.settings[x] \in Nat

VARIABLES
  server,     \* the process: pc, settings, the path checked, how it ended
  link,       \* names -> paths
  retargets,  \* history: names pointed elsewhere, at most site.retargets
  read,       \* history: the files the server read, with their class
  log,        \* the audit log
  clock,
  signals,    \* TERM and INT: how many came, which are pending, the handlers
  systemd     \* what it was told, and when it kills

startVars == <<server, link, retargets, read, log, clock, signals, systemd>>
vars == <<profile, keygenVars, startVars>>

Init ==
  /\ profile \in DOMAIN Profiles
  /\ KeygenInit
  /\ server = [pc |-> "cli", cli |-> <<>>, settings |-> <<>>, canon |-> <<>>, logging |-> FALSE,
               deadline |-> -1, drain_at |-> -1, exit |-> "none"]
  /\ link = site.link
  /\ retargets = 0
  /\ read = {}
  /\ log = <<>>
  /\ clock = 0
  /\ signals = [came |-> 0, pending |-> {}, handlers |-> "default", heard |-> 0]
  /\ systemd = [ready |-> FALSE, stopping |-> FALSE, kill_at |-> -1]

steps(pc) == server.pc = pc /\ UNCHANGED <<profile, keygenVars, link, retargets, clock>>
quiet == UNCHANGED <<signals, systemd>>
-----------------------------------------------------------------------------
(* Command line and configuration.  Settings are functions on the keys set. *)

CliFlags == {"config", "listen", "host_key", "authorized_keys", "handshake_timeout", "log_format"}

\* One flag and its value; valid: the value is there and of the flag's type.
parse_flag(arg) ==
  IF arg.flag \in {"--help", "--version"} THEN "exit"
  ELSE IF arg.flag \notin CliFlags \/ ~arg.valid \/ (arg.flag = "handshake_timeout" /\ arg.value = 0)
  THEN "error" ELSE "run"

\* parse_cli, left to right: the first flag that is not one ends it, a later
\* value wins.
parse_cli(args) ==
  LET odd == {i \in DOMAIN args : parse_flag(args[i]) # "run"}
      flags == {args[i].flag : i \in DOMAIN args}
      value(flag) == args[Max({i \in DOMAIN args : args[i].flag = flag})].value
  IN  IF odd # {} THEN [kind |-> parse_flag(args[Min(odd)]), cli |-> <<>>]
      ELSE [kind |-> "run", cli |-> [flag \in flags |-> value(flag)]]

\* Mutant: the ranges are not checked.
parse_error_unbounded(toml) ==
  IF toml.kind # "toml" \/ toml.unknown THEN "schema_error"
  ELSE IF toml.version # 1 THEN "version_unsupported" ELSE "none"

\* config::parse: the schema, the version, then the ranges.
parse_error(toml) ==
  IF toml.kind # "toml" \/ toml.unknown THEN "schema_error"
  ELSE IF toml.version # 1 THEN "version_unsupported"
  ELSE IF \E k \in DOMAIN toml.settings \cap Bounded :
            toml.settings[k] = 0 \/ toml.settings[k] > MaxInteger
  THEN "schema_error" ELSE "none"

Defaults == [listen |-> "loopback", handshake_timeout |-> 2, drain_timeout |-> 1,
             log_format |-> "json", max_connections |-> 2]

\* pick, pick_opt: the flag, then the file, then the default.
pick(cli, file) ==
  [k \in DOMAIN cli \cup DOMAIN file \cup DOMAIN Defaults |->
     IF k \in DOMAIN cli THEN cli[k] ELSE IF k \in DOMAIN file THEN file[k] ELSE Defaults[k]]

\* Mutant: an override is told of the settings that have a default only.
overrides_with_default(cli, file) == DOMAIN cli \cap DOMAIN file \cap DOMAIN Defaults

overrides(cli, file) == DOMAIN cli \cap DOMAIN file

\* The log exists once init_logging has run.
emits(started, events) == log' = IF started THEN log \o events ELSE log

Event(name, detail) == [event |-> name, detail |-> detail]

ends(exit) == server' = [server EXCEPT !.pc = "over", !.exit = exit]

\* config_error, then the failure exit.
config_error(class) ==
  /\ emits(server.logging, <<Event("config_error", class)>>)
  /\ ends("failure")
  /\ quiet

\* main up to the configuration; keygen and the helpers are other processes.
main_cli(args) ==
  LET o == parse_cli(args) IN
  /\ steps("cli")
  /\ IF o.kind # "run" THEN ends(IF o.kind = "exit" THEN "success" ELSE "usage")
     ELSE server' = [server EXCEPT !.cli = o.cli,
                                   !.pc = IF "config" \in DOMAIN o.cli THEN "check config" ELSE "resolve"]
  /\ UNCHANGED <<read, log>> /\ quiet

\* Mutant: the failure is reported before the log exists.
main_config_failed_unlogged(class) == config_error(class)

\* The log is opened with the flag's format first, so the failure reaches it.
main_config_failed(class) ==
  emits(TRUE, <<Event("config_error", class)>>) /\ ends("failure") /\ quiet

fails_with(class) ==
  IF server.pc \in {"check config", "read config"} THEN main_config_failed(class) ELSE config_error(class)

resolves(file) ==
  LET told == SetToSeq(overrides(server.cli, file)) IN
  /\ server' = [server EXCEPT !.pc = "runtime", !.logging = TRUE, !.settings = pick(server.cli, file)]
  /\ emits(TRUE, [i \in DOMAIN told |-> Event("config_override", told[i])])
  /\ quiet

main_no_config == steps("resolve") /\ resolves(<<>>) /\ UNCHANGED read

\* The runtime is built.
main_runtime ==
  /\ steps("runtime") /\ UNCHANGED read
  /\ \/ config_error("runtime_failed")
     \/ server' = [server EXCEPT !.pc = "check host_key"] /\ UNCHANGED log /\ quiet
-----------------------------------------------------------------------------
(* The trusted files: each is checked, then read.                          *)

Trusted == {"config", "host_key", "authorized_keys", "trusted_user_ca_keys"}
Following == [config |-> "runtime", host_key |-> "check authorized_keys",
          authorized_keys |-> "check trusted_user_ca_keys", trusted_user_ca_keys |-> "bind"]

Checking(f) == [config |-> "check config", host_key |-> "check host_key",
                authorized_keys |-> "check authorized_keys",
                trusted_user_ca_keys |-> "check trusted_user_ca_keys"][f]
Reading(f) == [config |-> "read config", host_key |-> "read host_key",
               authorized_keys |-> "read authorized_keys",
               trusted_user_ca_keys |-> "read trusted_user_ca_keys"][f]

name_of(f) == IF f = "config" THEN server.cli[f] ELSE server.settings[f]
given(f) == f \in DOMAIN (IF f = "config" THEN server.cli ELSE server.settings)

\* file_violation, and ancestor_violation of the canonical path's directories.
file_violation(path, f) ==
  LET i == ino[dirent[path]] IN
  \/ "gw" \in i.mode
  \/ i.owner \notin {"root", "server"}
  \/ f = "host_key" /\ "gr" \in i.mode

insecure(path, f) == file_violation(path, f) \/ \E d \in {path[1], "/"} : ancestor_violation(site.dirs[d])

\* A required file that is not named, or none of the CA's.
not_given(f) ==
  /\ steps(Checking(f)) /\ ~given(f) /\ UNCHANGED read
  /\ IF f = "trusted_user_ca_keys" THEN server' = [server EXCEPT !.pc = Following[f]] /\ UNCHANGED log /\ quiet
     ELSE config_error("missing_setting")

\* check_trusted_file: canonicalise, stat the file, stat its ancestors.
check_trusted_file(f) ==
  LET path == link[name_of(f)] IN
  /\ steps(Checking(f)) /\ given(f) /\ UNCHANGED read
  /\ \/ path \notin DOMAIN dirent /\ fails_with("file_unavailable")
     \/ path \in DOMAIN dirent /\ insecure(path, f) /\ fails_with("insecure_permissions")
     \/ /\ path \in DOMAIN dirent /\ ~insecure(path, f)
        /\ server' = [server EXCEPT !.pc = Reading(f), !.canon = path]
        /\ UNCHANGED log /\ quiet

\* from_openssh_pem: the container and its consistency; and the key files'
\* own rules (Auth.tla).
accepted(f, content) ==
  content.kind = [host_key |-> "private", authorized_keys |-> "keys", trusted_user_ca_keys |-> "cas"][f]
  /\ content.fault = "none"

\* Mutant: the file is opened under the name given, not the one checked.
path_to_read_name(f) == link[name_of(f)]

\* The canonical path that was checked.
path_to_read(f) == server.canon

\* load_config_file, load_host_key, load_key_file, after the check.
load_file(f) ==
  LET path == path_to_read(f)
      content == ino[dirent[path]].content
      class == IF f = "config" THEN parse_error(content)
               ELSE IF accepted(f, content) THEN "none" ELSE "invalid"
  IN
  /\ steps(Reading(f))
  /\ IF path \notin DOMAIN dirent
     THEN /\ fails_with(IF f \in {"config", "host_key"} THEN "file_unavailable" ELSE "invalid")
          /\ UNCHANGED read
     ELSE /\ read' = read \cup {<<f, path, dirent[path]>>}
          /\ IF class # "none" THEN fails_with(class)
             ELSE IF f = "config" THEN resolves(content.settings)
             ELSE server' = [server EXCEPT !.pc = Following[f]] /\ UNCHANGED log /\ quiet
-----------------------------------------------------------------------------
(* Listening, readiness and shutdown.                                      *)

\* Mutant: readiness is told first.
run_order_ready_first == [signals |-> "serve", ready |-> "signals", bind |-> "ready"]

\* spawn_signal_listener returns with the handlers in place; READY follows.
run_order == [bind |-> "signals", signals |-> "ready", ready |-> "serve"]

\* Server::bind, then server.started.
run_bind ==
  /\ steps("bind") /\ UNCHANGED read
  /\ \/ config_error("bind_failed")
     \/ /\ server' = [server EXCEPT !.pc = run_order.bind]
        /\ emits(TRUE, <<Event("started", "none")>>) /\ quiet

\* The handlers may fail to install, which is logged and not fatal.
run_signals ==
  /\ steps("signals") /\ UNCHANGED <<read, log, systemd>>
  /\ server' = [server EXCEPT !.pc = run_order.signals]
  /\ \E h \in {"installed", "failed"} : signals' = [signals EXCEPT !.handlers = h]

\* notify: under systemd the datagram is sent, or lost.
run_ready ==
  /\ steps("ready") /\ UNCHANGED <<read, log, signals>>
  /\ server' = [server EXCEPT !.pc = run_order.ready]
  /\ \E sent \in {FALSE, site.supervised} : systemd' = [systemd EXCEPT !.ready = sent]

\* Mutant: the sum wraps.
drain_deadline_wraps(now, drain) == (now + drain) % (INSTANT_MAX + 1)

\* A drain past the last instant ends in the far future.
drain_deadline(now, drain) == IF now + drain <= INSTANT_MAX THEN now + drain ELSE now + FAR_FUTURE

\* Mutant: the stop timer is extended by the margin only.
stopping_margin(drain) == STOP_MARGIN

\* EXTEND_TIMEOUT_USEC of the STOPPING message.
stopping(drain) == drain + STOP_MARGIN

\* Mutant: the accept loop subscribes only when it starts.
deadline_seen_late(deadline) == IF server.pc \in {"serve", "draining"} THEN deadline ELSE server.deadline

\* The loop's receiver exists before the listener can send.
deadline_seen(deadline) == deadline

drain_timeout == server.settings["drain_timeout"]

\* The signal listener: the first signal starts the drain, the second ends it.
listener_hears ==
  /\ signals.handlers = "installed" /\ signals.pending # {} /\ signals.heard < 2
  /\ server.pc # "over"
  /\ \E k \in signals.pending :
       signals' = [signals EXCEPT !.pending = @ \ {k}, !.heard = @ + 1]
  /\ \/ /\ signals.heard = 0
        /\ server' = [server EXCEPT !.drain_at = clock,
                                    !.deadline = deadline_seen(drain_deadline(clock, drain_timeout))]
        /\ \E sent \in {FALSE, site.supervised} :
             systemd' = IF ~sent THEN systemd
                        ELSE [systemd EXCEPT !.stopping = TRUE,
                                !.kill_at = Max({@, clock + TimeoutStop, clock + stopping(drain_timeout)})]
     \/ signals.heard = 1 /\ server' = [server EXCEPT !.deadline = clock] /\ UNCHANGED systemd
  /\ UNCHANGED <<profile, keygenVars, link, retargets, read, log, clock>>

\* The accept loop, in one step: it drains until the sessions are over or the
\* deadline aborts them; accepting may fail for good.
serve ==
  /\ steps("serve") /\ UNCHANGED read
  /\ \/ server.deadline = -1 /\ config_error("listener_failed")
     \/ server.deadline # -1 /\ ends("drained") /\ UNCHANGED log /\ quiet

serve_aborts ==
  /\ steps("serve") /\ server.deadline # -1 /\ clock >= server.deadline
  /\ ends("aborted") /\ UNCHANGED <<read, log>> /\ quiet
-----------------------------------------------------------------------------
(* The operator, systemd and the clock.                                    *)

\* A signal without a handler ends the process; when only one of the two
\* handlers installed, it may also be swallowed.
signal_comes(k) ==
  /\ server.pc # "over" /\ signals.came < site.signals /\ clock + FAR_FUTURE < MaxTime
  /\ \/ /\ signals.handlers = "installed" /\ UNCHANGED server
        /\ signals' = [signals EXCEPT !.came = @ + 1, !.pending = @ \cup {k}]
     \/ /\ signals.handlers # "installed" /\ ends("killed")
        /\ signals' = [signals EXCEPT !.came = @ + 1]
     \/ /\ signals.handlers = "failed" /\ UNCHANGED server
        /\ signals' = [signals EXCEPT !.came = @ + 1]
  /\ systemd' = IF site.supervised /\ k = "TERM" /\ systemd.kill_at = -1
                THEN [systemd EXCEPT !.kill_at = clock + TimeoutStop] ELSE systemd
  /\ UNCHANGED <<profile, keygenVars, link, retargets, read, log, clock>>

systemd_kills ==
  /\ systemd.kill_at # -1 /\ clock >= systemd.kill_at /\ server.pc # "over"
  /\ ends("killed by systemd")
  /\ UNCHANGED <<profile, keygenVars, link, retargets, read, log, clock, signals, systemd>>

operator_retargets(name, path) ==
  /\ retargets < site.retargets /\ retargets' = retargets + 1
  /\ link' = [link EXCEPT ![name] = path]
  /\ UNCHANGED <<profile, keygenVars, server, read, log, clock, signals, systemd>>

\* abort_at of the accept loop: a grace past the deadline, none after a second
\* signal.
abort_at == IF signals.heard = 2 THEN server.deadline ELSE server.deadline + ABORT_GRACE

\* The listener runs, and the accept loop ends, before time goes on.
tick ==
  /\ clock < MaxTime /\ site.signals > 0
  /\ server.pc = "serve" /\ signals.pending = {}
  /\ server.deadline # -1 => clock < abort_at
  /\ clock' = clock + 1
  /\ UNCHANGED <<profile, keygenVars, server, link, retargets, read, log, signals, systemd>>
-----------------------------------------------------------------------------
Start ==
  \/ \E args \in site.args : main_cli(args)
  \/ main_no_config \/ main_runtime
  \/ \E f \in Trusted : not_given(f) \/ check_trusted_file(f) \/ load_file(f)
  \/ run_bind \/ run_signals \/ run_ready

Files ==
  \/ \E r \in site.keygens : (keygen(r) \/ operator_cleans(r)) /\ UNCHANGED startVars
  \/ \E name \in DOMAIN link : \E path \in site.targets : operator_retargets(name, path)

Next ==
  \/ Start \/ Files \/ listener_hears \/ serve \/ serve_aborts \/ systemd_kills \/ tick
  \/ \E k \in {"TERM", "INT"} : signal_comes(k)

Spec ==
  /\ Init /\ [][Next]_vars
  /\ WF_vars(Start) /\ WF_vars(listener_hears) /\ WF_vars(serve_aborts) /\ WF_vars(tick)
-----------------------------------------------------------------------------
(* Properties.                                                             *)

\* A process that is past its configuration has its settings, in range.
TypeOK ==
  /\ profile \in DOMAIN Profiles /\ faults \in 0..MaxFaults /\ clock \in 0..MaxTime
  /\ DOMAIN link = DOMAIN site.link
  /\ server.logging =>
       /\ DOMAIN Defaults \subseteq DOMAIN server.settings
       /\ \A k \in Bounded \cap DOMAIN server.settings :
            server.settings[k] # 0 /\ (k \notin DOMAIN server.cli => server.settings[k] \in 1..MaxInteger)
  /\ server.pc = "over" <=> server.exit # "none"

\* Nothing is trusted that StrictModes would refuse: each file the server read
\* was unwritable to others, owned by root or the server, not readable by
\* others if it holds a host key, and in a directory nobody else can write,
\* wherever its name pointed between the check and the read, and whatever
\* keygen did to the file (check_trusted_file, load_*).
ReadsOnlyTrusted ==
  \A x \in read :
    /\ ino[x[3]].owner \in {"root", "server"}
    /\ "gw" \notin ino[x[3]].mode
    /\ x[1] = "host_key" /\ ino[x[3]].content.kind = "private" => "gr" \notin ino[x[3]].mode
    /\ "gw" \notin site.dirs[x[2][1]] \cup site.dirs["/"]

\* A server that gives up says why exactly once in its audit log, from the
\* first line of the configuration on, and as its last event (main, run).
FailureExplained ==
  LET errors == {i \in DOMAIN log : log[i].event = "config_error"} IN
  IF server.exit = "failure" THEN errors = {Len(log)} ELSE errors = {}

\* Where the server runs with another value than the configuration file sets,
\* its log says which setting was overridden (pick, pick_opt).
OverridesTold ==
  server.logging =>
    \A x \in read : x[1] = "config" =>
      \A k \in DOMAIN ino[x[3]].content.settings :
        server.settings[k] # ino[x[3]].content.settings[k] =>
          \E i \in DOMAIN log : log[i] = Event("config_override", k)

\* Once systemd has seen READY, a stop request is heard and never kills the
\* process outright, unless the handlers could not be installed (run,
\* spawn_signal_listener).
ReadyMeansDrains ==
  server.exit = "killed" => ~systemd.ready \/ signals.handlers = "failed"

\* A drain that one signal started is aborted only after the time configured
\* for it, or after the far future when that is beyond the clock
\* (drain_deadline).
DrainGetsItsTime ==
  server.exit = "aborted" /\ signals.heard = 1 =>
    clock >= server.drain_at + Min({drain_timeout, FAR_FUTURE})

\* systemd does not kill a drain it was told of: the extended stop timer covers
\* the drain and the abort (notify::stopping).
SystemdWaits == server.exit = "killed by systemd" => ~systemd.stopping

\* A stop request that was heard ends the process, also when it came before the
\* accept loop ran (run's first receiver).
StopCompletes == signals.heard > 0 ~> server.pc = "over"

\* The server accepts the key of a keygen run that succeeded: not refused for
\* its mode, its directory or its content (check_directory, write_pair).
KeygenServes ==
  [][/\ \/ server.pc = "check host_key" /\ given("host_key") /\ link[name_of("host_key")] = Private
        \/ server.pc = "read host_key" /\ server.canon = Private
     /\ server'.exit = "failure"
     => \A r \in site.keygens : gen[r].pc # "success"]_vars
\* The log tells what was decided: which settings were overridden, and why a
\* start failed (main, pick, config_error).
LogTells == TypeOK /\ FailureExplained /\ OverridesTold

\* A stop at any moment after READY drains for its time, is not cut short by
\* systemd, and ends (run, spawn_signal_listener, drain_deadline, stopping).
StopIsGraceful ==
  [](ReadyMeansDrains /\ DrainGetsItsTime /\ SystemdWaits) /\ StopCompletes
=============================================================================
