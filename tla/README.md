# A TLA+ model of quantumssh

quantumssh is an SSH server in Rust: one binary (`crates/quantumssh`) over one
library (`crates/quantumssh-core`), on the tokio runtime. This directory holds
TLA+ modules for the parts of it where concurrency, ordering and failure decide
whether it is correct, the TLC configurations that check them, and proofs that
TLAPS checks. Line numbers below and in `PROJECT.json` are of the library's
`src/` unless another file is named.

## The system

| Part | State | Operations | Talks to |
|---|---|---|---|
| admission (`admission.rs`) | connection and half-open counters, per-source map of half-open counts and token buckets, sweep counter, all under one mutex | `try_admit`, `mark_authenticated`, guard drop | called by the accept loop and by every connection task |
| accept loop (`server.rs`) | `JoinSet` of connection tasks, `abort_at`, `resume_at`, a broadcast receiver | five `select!` arms: accept, join, shutdown, resume, abort | spawns `handle`; the signal listener of `main.rs` broadcasts deadlines to it and to every task |
| connection task (`handle`, `run_connection`) | phase, its own broadcast receiver, its `ChildScope` | handshake under a budget, session, drain, TCP shutdown, join of children | admission guard, transport, channel, reaper |
| transport (`transport.rs`, `kex.rs`) | stage of `Expect<S, St>`, two sequence numbers, two ciphers, re-key phase and byte counts | the handshake stages, `authenticate`, `read_packet`, `write_packet`, `begin_rekey`, `step_rekey` | the peer; driven by the channel layer once authenticated |
| session channel (`channel.rs`) | `Driver`: channel state, two windows, one pending chunk each way, the pre-exec buffer, deferred packets, exit and audit fields | one turn of `drive`: flush, hand-off, replenish, re-key, close; then one arm of a biased `select!` | transport below, child tasks through bounded queues |
| child I/O (`exec.rs`) | output queue, stdin queue, credit queue, the pumps, `kill_tx` | `pump_output`, `pump_stdin`, `pump_pty`, `spawn_reap` | channel driver, the operating system |
| reaper (`exec.rs`) | registry of live PIDs under a mutex, `kill_pending`, `failure_pending`, `grace_end`, the owned `Child` | `Reaper::run`'s four arms, `try_reap`, the drop guards of `Reaper` and `ChildScope` | the process group |
| key exchange (`kex.rs`, `composite.rs`, `host_key.rs`) | none of its own | `build_kexinit`, `negotiate`, `hybrid_exchange`, `exchange_hash`, `derive_key`, `sign` | transport, in the handshake and in every re-key |
| authentication (`auth.rs`, `cert.rs`) | the keys and CAs loaded at start | `load`, `resolve`, `cert::verify`, `verify_auth_signature`, and transport's `authenticate` loop | transport; the wall clock |
| SFTP server (`sftp.rs`) | handle table; the file system | one request at a time, some of several system calls | its own process, over pipes; other processes on the same names |
| start-up (`main.rs`, `config.rs`, `notify.rs` of the binary) | command line, settings, the trusted files, signal handlers | parse, check, read, bind, install handlers, READY, serve, STOPPING | the operator, systemd, the accept loop |
| keygen (`keygen.rs` of the binary) | the files it has created | open, create, chmod, generate, write and sync, or take back | the file system; other runs of itself |
| ciphers, codec, PTY modes, logging | none that a property is about | pure functions, formatting | - |

### What is hard

* **Interleaving.** Connection tasks share the admission mutex; a flag is swapped
  before the mutex is taken, a clock is read before it is waited for. The reaper
  polls four sources one after the other while all four change.
* **Shutdown.** A broadcast reaches only the receivers that exist; two signals, a
  deadline per connection and the loop's abort overlap; a task may hang, panic or
  be dropped at any await.
* **Ordering.** Output, exit and the closing of two pipes race to the client;
  stdin crosses three buffers; both ends may begin a re-key with packets of the
  other in flight.
* **Wake-ups.** The driver retries a stashed chunk only when something wakes it.
* **Limits.** Windows, queues of capacity one and up, a deferred list, a token
  bucket in integers, a `u32` sequence number that is also a nonce.
* **PIDs.** A signal after the reap may hit another process.
* **Names.** SFTP requests, the check of a trusted file and keygen make several
  calls on names that somebody else may change in between, and any of the calls
  may fail half-way.
* **Agreement.** Both ends of a key exchange compute the choice, the hash and the
  keys from what they saw; nothing but a peer that cannot decrypt shows an error.
* **Time.** Certificates are judged by a wall clock that may be set; the drain
  deadline, the abort grace and systemd's stop timer run against each other.

`PROJECT.json` lists each of these hazards at its line with the properties that
would catch it.

## Modules

| Module | Models | How the state corresponds |
|---|---|---|
| `Admission` | `admission.rs` | The fields of `State`, one life cycle per `ConnectionGuard`, the call in flight with the clock value it was given. `credit` and `waited` are history variables: the bucket an exact clock would keep, and what the lock waits of a source's own admissions were worth. |
| `Service` | the promise of `server.rs` and ADR-0028, without loop, tasks and signals | `phase` of the service, `session` of each connection: none, open, cut, closed. `Server` maps to it by `phase_of` and `session_of`. |
| `Server` | `serve`, `log_join`, `handle`, `run_connection`; `spawn_signal_listener` | `loop`, `abort_at`, `paused` are the loop's locals; `conn` is where each task is; `seen` is where its broadcast receiver stands. Admission's verdict is left open. |
| `Channel` | `channel.rs`, the child tasks of `exec.rs`, the re-key phases the driver sees | `d` has the fields of `Driver`, `io` those of `ChildIo` and of the tasks behind it. A turn of `drive` is `head`, then one select arm. |
| `Reaper` | `ChildScope`, `Reaper`, `kill_group`, the PTY helper's `setsid` | `task` is the arm polled next, so other actors act between two polls; what is done under the registry lock is one step. |
| `Transport` | `transport.rs`, with the driver's loop reduced to what it writes | `s` has the fields of `Expect` and its stage. A cipher is the key schedule it came from. `c` is a strict-kex client, external. |
| `Kex` | `kex.rs`, `composite.rs`, `host_key.rs`, and the steps of `transport.rs` that call them | `s` is the server's stage and what it holds, `c` an RFC 4253 client, external. A hash, secret or signature is the record of what it was made from. |
| `Auth` | `auth.rs`, `cert.rs`, `authenticate` of `transport.rs` | Files, certificates and requests are records of what the parsers tell apart; `conn` is the loop's locals, `audit` its events. `heard` is history: the requests read, counted by what they deserve (`Verdict`, from the files and the clock, not from the loop's counters). |
| `Sftp` | `sftp.rs` | `handles` is the table; `tree` and `ino` the file system, external. A handler is one action, except RENAME, SETSTAT and REALPATH, which go call by call in `op`. `held` is history: what the client opened, and for a directory what it held then, what was listed and which entries' metadata could not be read. |
| `Keygen` | `keygen.rs`, `generate_host_key` | `gen` is where each run is and what it created; a run may be killed between any two calls. |
| `Startup` | `main.rs`, `config.rs`, `notify.rs`; extends `Keygen` | `server.pc` goes through `main` and `run` in their order; `link` maps names to paths, which the operator may move. The accept loop is one step. |
| `AdmissionProofs`, `ServerProofs`, `ChannelProofs`, `ReaperProofs`, `TransportProofs`, `KexProofs`, `AuthProofs`, `StartupProofs` | theorems about the module of that name, `StartupProofs` also about `Keygen` | |
| `MCAdmission`, `MCServer`, `MCChannel`, `MCTransport`, `MCKex`, `MCAuth`, `MCSftp`, `MCStartup` | values of the constants for TLC | `Reaper` has no constants and is run as it is. |

`Startup` composes with `Keygen` (one file system, both run at once) and `Server`
implements `Service`. The other modules meet where the code does, and are composed
by assumption rather than by INSTANCE: `Server` leaves `try_admit`'s answer open,
so whatever `Admission` does is a behaviour of it; it treats the child as `Reaper` shows it to behave
(killed when the scope is dropped, reaped in the end). `Channel` leaves open when
a re-key is due and which arm of the select is ready; `Transport` decides the
first and abstracts the rest of the channel. `Transport` takes the outcome of a
negotiation and of `authenticate` as given, and `Kex` and `Auth` say what it is.

In every module a definition that a comment calls *Mutant* is a plausible mistake
in the definition it precedes. It is used by nothing: `PROJECT.json` says which
property fails when it takes that definition's place. A property with several parts
has several mutants; some break two parts at once.

## Runs

Several properties are conjunctions of named parts, given in brackets; each part is
stated on its own in its module.

| Run | Checks | Shows |
|---|---|---|
| `admission` | `CountersExact`, `CapsHold`, `CapRefusalReadOnly`, `BucketExact` (`RateBound`, `ForgottenOweNothing`, `NoSpuriousRefusal`) | the counters are the connections; the caps hold of hosts however they spell their address; refusing at a cap is read-only; the bucket is exact to a token and the lock waits through prunes and sweeps when the rate divides a second |
| `server` | `TasksEndClean` (`ClosedExactlyOnce`, `NoChildOutlivesTask`, `SessionsGetTheirDrain`), `ShutdownEnds`, `QueuedIsAnswered`, `ImplementsService` | the loop and its tasks do no more than the service promises; every way a task ends is logged once, leaves no child and cuts no session early; a signal ends `serve` even if tasks hang; accept pauses end |
| `channel_stdin` | `BuffersExact` (`TypeOK`, `WindowConserved`), `StdinKeepsMoving`, `StdinInOrder` | no window leaks, no lost wake-up, and stdin in order with one early chunk |
| `channel_session` | `OutputBeforeExit`, `HalfDuplex`, `AuditExact` | the close never overtakes output; a re-key's window is silent; every exit of `drive` pairs the audit events, with exact byte counts |
| `channel_rekey` | `RepliesNotLost`, `ChannelEnds` (`EarlyCloseEnds`, `RekeyEnds`, `ExitIsReported`) | what a re-key defers is answered; nothing the driver waits for is waited for in vain |
| `reaper` | `SignalsGuarded` (`TypeOK`, `SignalsOnlyUnreaped`, `RegistryExact`), `KillsReachGroup` (`TakenKillReachesGroup`, `AbortLeavesNoOrphan`), `KillIsReaped` | signals and reaping never cross; a kill reaches the group and ends in a reap |
| `transport` | `KeysExact` (`TypeOK`, `KeysInStep`, `NonceUnique`), `ConformingClientServed`, `AuthBudget`, `RekeyCompletes` | every request spends the budget; overlapping re-keys keep both ends on one key and number and end by themselves; the packet trigger is in time once a channel is open |
| `kex` | `Agreement`, `KeysFresh` (`TypeOK`, `KeysNeverReused`), `CompatibleServed` | whatever is altered on the way, a client that accepts is on the server's keys, by its own preference; no key serves twice; guesses never cost a compatible client its exchange |
| `auth` | `LoadAllOrNothing`, `AuthExact` (`AuthSound`, `IdentityProven`, `EntitledServed`), `BudgetAudited` (`TypeOK`, `BudgetExact`, `AuditExact`) | in by a listed key or a valid certificate, at that moment, and by nothing else; the budget ends the connection at its last request and no other, and each failed request, that one included, is in the audit trail |
| `sftp` | `HandlesExact` (`TypeOK`, `HandlesKnown`, `HandlesNamed`), `RefusedOpenHarmless`, `OkMeansDone` (`SyncBeforeOk`, `SetstatTakesEffect`), `ListingComplete`, `RenameSafe` (`RenameAtomic`, `RenameNeverReplaces`), `RealpathCorrect` | an OK means it is done and a refusal that nothing happened, through partial writes, failing calls and somebody else on the same names |
| `startup` | `ReadsOnlyTrusted`, `LogTells` (`TypeOK`, `FailureExplained`, `OverridesTold`), `StopIsGraceful` (`ReadyMeansDrains`, `DrainGetsItsTime`, `SystemdWaits`, `StopCompletes`), `KeygenSafe` (`NeverReplaces`, `PrivateNeverWide`, `FailureLeavesNothing`, `SuccessIsComplete`), `KeygenServes` | only checked files are trusted, every failure and override is told, a stop at any moment drains for its time; keygen is all or nothing and never touches another's file |
| `channel_preexec` (fails) | `StdinInOrder` | with two chunks sent before the start, stdin is out of order |

`channel_preexec` fails because the code does: while chunks of the pre-exec buffer
wait, `on_channel_data` puts new data ahead of them (`channel.rs:1045`), against
`channel.rs:525`, which `PROJECT.json` quotes.

Other disagreements between the code and what the repository says of it, that the
models show and that no run is kept for:

* A connection accepted between the broadcast and the loop's own receipt of it
  subscribes too late (`server.rs:250`) and keeps its handshake until it ends or
  the abort, where `server.rs:17-18` says "A pre-auth connection disconnects
  immediately". The service still ends, with its record (`ImplementsService`,
  `ShutdownEnds`).
* An empty CHANNEL_DATA yields no credit (`exec.rs:878`): when it was the chunk that
  filled the queue nothing wakes the driver, and stdin behind it waits for other
  traffic. `StdinKeepsMoving` is checked of clients that send no empty data.
* A kill requested after the kill arm was polled loses to an exit that the exit arm
  finds in the same turn (`exec.rs:401`): the leader is reaped and its group lives
  on, against ADR-0038:524-525.
* `negotiate` judges a guess by the first name of the peer's list, markers included
  (`kex.rs:332`), where its comment says "first-real-kex". A client that puts a
  marker first and guesses right has its guess skipped.
* READY is sent also when the signal handlers could not be installed
  (`main.rs:676`), where `notify.rs:18-20` has it follow their installation;
  `ReadyMeansDrains` makes the exception explicit.
* keygen takes files back by name, not by inode, and does not sync the directory
  (`keygen.rs:225`): its properties are about runs of keygen among themselves.
* `refill` advances its clock by a floored number of milliseconds
  (`admission.rs:113`): at a rate that does not divide a second, such as 1500/s,
  `RateBound` fails by the fraction kept ("no floats, no drift", `admission.rs:81`).
* The clock is read before the lock is waited for (`server.rs:236`). A source that was
  forgotten meanwhile and comes back gains the time waited, and no more than that:
  `RateBound` and `ForgottenOweNothing` allow each source what the waits of its own
  admissions were worth (`waited`).
* A dead listener (`server.rs:219`) drops the `JoinSet`: its tasks get no
  `connection.closed`, which is why `ClosedExactlyOnce` asks for one only when
  `serve` returned Ok.
* READDIR skips an entry whose metadata cannot be read, gone or not
  (`sftp.rs:505-508`; ADR-0041:153 says so), so an entry that is there can stay
  unlisted before EOF. `ListingComplete` excuses exactly these entries.
* STOPPING prints its extension as a `u128` of microseconds (`notify.rs:30`), which for
  a drain beyond what an `Instant` holds is more than systemd's 64 bits. The model's
  systemd accepts any extension.
* The read arm of `drive` is not gated by a stashed chunk (`channel.rs:403`,
  against the comment at 526); only the window holds the client back.
* A request that crosses our CHANNEL_CLOSE is answered (`channel.rs:774`), where
  ADR-0023 says such messages are silently discarded.
* After the grace, a second request hangs the terminal up again (`exec.rs:431`,
  against 425).
* Before a channel is open nothing begins a re-key (`channel.rs:358`), so
  `NonceUnique` needs a client that does not send 2^32 packets first
  (`transport.rs:210` says the wrap is impossible by construction).
* A probe for a known key spends an attempt (`transport.rs:816`), so fewer
  failures than MAX_AUTH_ATTEMPTS can end the connection.

### Bounds

* `Admission`: three guards reach every cap with one connection to spare;
  SWEEP_INTERVAL 2 makes the sweep meet live, idle and spent sources; a token takes
  two ticks to earn, so a refill meets half-earned tokens; MaxTime is two tokens. A
  lock wait of one tick is half a token, so two of them are worth one; the theorems
  about counters and caps hold for every lock wait. The rate divides the second: the
  drift of other rates, see above, is outside `BucketExact`.
* `Server`: two connections suffice for "the other task" and "the last task";
  two signals are all the listener sends; a third instant of the clock is the
  abort grace.
* `Channel`: queues of capacity one and two, a window of three bytes with credit
  batches of one and two. The smallest sizes at which a queue is full while another
  holds something and a batch is both incomplete and complete. MaxMsgs (five for
  the full set of packets, seven for the smaller ones: enough to open, start, defer
  two requests and complete a re-key), MaxOut and MaxRekeys bound the length of a
  session; MaxEarly is the number of chunks sent before the start, and is what
  separates `channel_stdin` from `channel_preexec`.
* `Transport`: SeqRange stands for 2^32 and MaxPackets for the packet trigger. The
  code's trigger is at 2^31, so the margin SeqRange - MaxPackets stands for 2^31
  packets; the peer's lag and the packets of one turn (MaxLag, Burst), which the
  margin has to absorb, are bounded far below it in practice (TCP buffers, the
  window). Each side begins one re-key, so two follow or cross each other.
  MAX_DEFERRED is what the client that keeps the protocol sends in all; a client that
  sends more requests than that into a re-key is disconnected by design.
* `Reaper` is unbounded: its state is finite as the code's is.
* `Kex`: two rounds are the handshake and a re-key, and two altered messages let the
  network change both directions of the first; once the client has keys, what it
  reads is sealed and not altered. Twelve offers: each list that does
  not fit, with and without a guess.
* `Auth`: three attempts are a first, a repeated and an exhausting one; one variant
  of the certificate for each check, and a clock before, at and after both ends of
  its validity, and before the epoch.
* `Sftp`: two handles reach the cap with one slot to reuse. A reply takes two names and
  four units, and an entry is one unit or, with a long name, three (`entry_size`), so
  that now the count and now the packet ends a reply; `orders` lets the long one come
  anywhere in the directory's order, the others in a fixed one. Chains of links end below and above SYMLOOP_MAX.
  Seven sessions of one to six requests, each about one part; one or two failing calls,
  one or two steps of the other process. In a listing two faults are two failed reads,
  two entries without metadata, or one of each.
* `Startup`: eight installations; two failing calls or kills, so that a roll-back
  fails too; one move of a name to any file there is, the
  public half of a key pair under the private one's name included; INSTANT_MAX within reach of the
  longest drain timeout, so that the sum overflows.

Symmetry is used for guards only, in a run of safety properties.

### Fairness

`Server`: the loop keeps taking ready arms, woken tasks are polled, timers fire,
a child that was sent SIGKILL dies. `Channel`: the driver is polled while an arm
is ready, the re-key deadline fires, a killed child dies and is reaped, a finished
write is credited. `Reaper`: the task is polled, the grace passes, SIGKILL kills.
`Transport` and `Kex`: both ends read what has arrived and the loop turns.
`Startup`: the process goes on, the listener is polled, the clock ticks and the
abort deadline fires. `Auth` and `Sftp` have safety properties only. These are what
tokio and the kernel promise. Nothing is assumed of peers (except in
`transport` and `kex`, of a client that reads), of commands, of their output or of
signals: they may all stop for ever.

The channel's `select!` is biased towards the wire, so weak fairness of the
deadline arm rests on the client's packets being finitely many, which MaxMsgs
makes them. Against a peer that always has a packet ready, promptness of the
deadline is not shown.

## Proofs

`AdmissionProofs` proves for every set of guards and addresses, all limits, rates
and clocks (assumptions: `LimitsAssumption`, `AddrsAssumption`, `TimeAssumption`;
all limits positive, guards finite, time in Nat):

* `TypeCorrect`: `Spec => []TypeOK`. Inductive as it stands; the work is that
  refill and sweep return buckets (`RefillType`, `SweepType`).
* `CountersCorrect`: `Spec => []CountersExact`. Inductive given `TypeOK`. The
  argument is about cardinalities: each action adds or removes one guard from
  `Live`, `Holding` and one `HoldingFrom(s)` (`AdmitExact`, `MarkExact`,
  `ReleaseExact`, `DropExact`), so the saturating subtractions never saturate, and
  the sweep and the prune drop only sources with no holder (`SweepExact`).
* `CapsCorrect`: `Spec => []CapsHold`. `CapsHold` counts hosts by `SameHost`,
  which the code never computes; `CapsCounted` restates it by `source_key` and is
  inductive given the exact counters: an admission passed the cap reads, and they
  read the true sizes.
* `LoadShedding`: `Spec => CapRefusalReadOnly`. A cap reached by the real guards is
  seen by the cap reads (`CapIsSeen`), so no admitting or charging step is enabled.

`ServerProofs` proves for every finite set of connections and every number of accept
errors (`ConnsAssumption`):

* `ServerTypeCorrect`: `Spec => []TypeOK`, inductive as it stands.
* `TasksEndCleanly`: `Spec => []TasksEndClean`. Its parts say too little of the loop
  and the counts to be inductive, so `IInv` adds: the count is 1 exactly for tasks
  that logged themselves or were joined, and serve returns over an empty `JoinSet`
  (`Recorded`); an abort was told by a second signal or by the clock
  (`LoopInformed`); no receiver is ahead of the sender, and a task with a reason is
  past its session (`TasksInformed`).
* `ServerImplementsService`: `Spec => Svc!Spec`. Every step keeps the phase and moves
  at most one session, which `MoveRefines` and `JoinRefines` match to a step of
  `Service`, except the four steps of the loop that change the phase; those that end
  the service do so over an empty `JoinSet` (`OverWhenJoined`).

`ReaperProofs` (the model has no constants, so this is the run's result again, with the
reason it holds):

* `SignalsAreGuarded`: `Spec => []SignalsGuarded`, and `KillsAreCarriedOut`:
  `Spec => []KillsReachGroup`. The inductive invariant adds to the properties what the
  task knows in each arm (`TaskInformed`), that requests are counted
  (`RequestsCounted`) and that a taken kill goes on to its signal (`TakenKillGoesOn`).

`ChannelProofs` proves for every set of client messages and streams, every window,
chunk, queue capacity, credit batch and deferred limit (`ChannelAssumption`: sizes
positive, messages well formed):

* `RekeyIsHalfDuplex`, `OutputComesFirst`, `RepliesAreKept`, `AuditIsExact`: the
  properties of `channel_session` and `channel_rekey` that are not liveness. They rest
  on one inductive invariant `IInv`: `Core` (types; nothing of a child before its
  start; audited once; output counted wherever it is; the exit known once reported),
  `Control` (where the loop may be in which re-key phase) and `RepliesOwed` (requests
  asked are those answered plus those that wait), together with the properties.
* `BuffersAreExact`: `Spec => []BuffersExact`. `Buffered` states the window as a sum
  over all buffers and their slots; each hand-off moves bytes between two terms.
* `StdinIsNotStranded`: `StdinKeepsMoving`, of clients that send no empty
  CHANNEL_DATA (`NoEmptyData`, the condition under which the code promises it, see
  above). `Moving` adds that no chunk in a buffer is empty.
* `StdinStaysInOrder`: `MaxEarly <= 1` implies `Spec => []StdinInOrder`. `Ordered`
  says that the pump's rest, its queue, the pending slot and the pre-exec buffer are,
  joined in this order, the bytes after the last delivered one (`InLine`), that at
  most one chunk waits in the pre-exec buffer, none behind a filled slot and none when
  the driver reads with a child (`Early`, `NoneBehind`), and that the pump saw EOF only
  after the last byte (`EofLast`). `HeldBack`, that no data packet is ever deferred, is
  what keeps a re-key from reordering input. The bound on early chunks is exact: with
  two of them `NoneBehind` fails and so does the property (`channel_preexec`).

`TransportProofs` proves for every budget, sequence range, trigger and client
(`TransportAssumption`):

* `EveryRequestIsPaid`: `Spec => []AuthBudget`. `Budget` says what was spent by
  stage: nothing in the handshake, the requests read while in UserAuth, at most the
  limit after it. The work is that no operator of the session, the re-key with the
  packets it deferred and bursts of output included, leads back (`InSession`).
* `ServedUnlessFlooding`: `Spec => []ServedOrFlooding`, with `KeysStayInStep`
  (`Spec => []KeysInStep`) and `ConformingIsServed` (`ConformingClientServed`) as its
  consequences. The properties say what did not happen; the invariant has to say
  where both ends are. A place on a direction of the connection is the round of the
  keys in use, the step of the exchange that comes next, the next sequence number and
  the traffic sent so far (`At`), and `Follows` says which packet leads from which
  place to which. `Joined` says that what is on the wire is a path (`Stream`) from the
  place its reader reads at to the place its writer writes at, in both directions;
  these places are functions of the stage and the phase (`RxPlace`, `TxPlace`, `End`).
  The stream alone would let the client log in twice or write to a channel that is not
  open, so `Login` and `Opened` relate what is on the wires to the server's stage and
  the client's state: one request under way at a time, no session packet or second
  KEXINIT before the session. `InStream` also bounds what is deferred by what was
  sent, which is where the exception comes from: `ServedOrFlooding` allows
  "too-many-deferred-during-rekey", of a client that sends more than `MAX_DEFERRED`
  packets, and `ConformingIsServed` assumes that no client that keeps the protocol
  does (the instance of `transport` satisfies this). Every action of both ends is then
  shown to read at the first place of a path or to write at its last (`Join...`
  lemmas). A path is a function, so appending and reading need no induction; only
  draining what was deferred and a burst of output do.

`KexProofs` proves for all offers, numbers of rounds and altered messages
(`KexAssumption`):

* `EndsAgree`: `Spec => []Agreement`, and `KeysAreFresh`: `Spec => []KeysFresh`.
  `IInv` says that what the server chose is the choice of the offer it read
  (`Negotiated`), that the keys installed come from its last hash (`Installed`), that
  a signature under way is of that hash (`Downstream`), that both ends keep one
  session id (`SameSession`), and that every key carries its round (`Fresh`).

`AuthProofs` proves for all key files, certificates, requests, budgets and clocks
(`AuthAssumption`):

* `FilesLoadWhole`, `BudgetIsAudited` and `AuthenticationExact`, the last an action
  property: who is let in is entitled at that step, and who is entitled is not
  refused. `BudgetIsAudited` measures both counters and the audit trail by the requests
  read: `Counted` says that the attempts are the requests that failed or probed a known
  key and the failures those that failed, which needs that a request is resolved exactly
  when the files and the clock recognise it (`ResolvesRecognised`, `VerdictOfAsked`). A
  probe of a known key spends an attempt and leaves no record; the failed request that
  exhausts the budget leaves one.

`StartupProofs` proves for all installations, command lines, numbers of keygen runs,
faults and moves of names (`KeygenAssumption`, `StartupAssumption`):

* `FilesAreOwned`: `Spec => []FilesInv`. What a run of keygen has created, by its place
  in the program: its own files, under their names, with their modes, and all that it
  has still to remove.
* `KeygenIsSafe`: `Spec => KeygenSafe`, from `FilesInv`.
* `TrustedFilesOnly`: `Spec => []ReadsOnlyTrusted`, and `LogIsTruthful`:
  `Spec => []LogTells`. `StartInv` adds to `FilesInv` where the process is and what it
  has by then (`Process`, `Numbers`, `InRange`), its log (`Logged`, `Told`) and that
  the path it is about to read, and every file it has read, passed the check
  (`Checked`). Each of the many steps is first put into one of eight classes by its
  effect on the process and its log (`Effect`), and the invariant proved of these.
* `KeygenKeyIsServed`: `Spec => KeygenServes`, an action property, from `StartInv` and
  `Opened`: a run that is past its start found the directory safe, which is what makes
  the key it leaves pass the server's check of the ancestors.
* `StopIsOrderly`: `ReadyMeansDrains`, `DrainGetsItsTime` and `SystemdWaits` are
  invariants, for every drain time, margin, stop timeout and number of signals. None is
  inductive. `StopInv` adds when a signal can have been heard (`Heard`), which deadline
  the accept loop holds after no, one and two signals (`Deadlines`), and that a stop
  timer that STOPPING extended lies past the drain and the clock (`Timer`). The last is
  kept by a step of the clock because the loop aborts `ABORT_GRACE` past the deadline,
  which is less than `STOP_MARGIN`.

What a recursive function over a sequence computes is proved with the least-number
principle (`LeastNumber`, from `WFMin`) on the set of indices where it would fail.

Only model-checked:

* liveness and fairness, which are out of TLAPS's reach: `ShutdownEnds`,
  `QueuedIsAnswered`, `ChannelEnds`, `KillIsReaped`, `RekeyCompletes`,
  `CompatibleServed`, `StopCompletes`;
* `RateBound`, which holds only for rates that divide a second and needs non-linear
  arithmetic, and with it `BucketExact`;
* the rest of `KeysExact` of `Transport`: `NonceUnique` is a relation between the
  constants (the margin SeqRange - MaxPackets against lag and bursts, see Bounds), and
  `TypeOK` bounds the rounds by what the client's packets name;
* `Sftp`: path resolution and listings are recursive functions over strings, whose
  results would need an induction over paths for nearly every property.

## Not modelled

* Cryptography: a sealed packet opens under its key and number, a signature verifies
  under its key and message, a hash determines its input, and nothing else does.
  `cipher.rs` is only this assumption.
* Byte-level codecs: `wire.rs` and the grammars of TOML, PEM and the packet parsers
  are verdicts. The repository fuzzes them (`fuzzing.rs`).
* `pty.rs` beyond the helper's `setsid`: terminal modes and window sizes are data
  for the kernel.
* `log_fields.rs`, `log_json.rs`: formatting. Events that carry meaning are state in
  `Server`, `Channel`, `Auth` and `Startup`.
* In `Sftp`: the long name of a listing (`longname`, `ls_date`, `mode_string`). The
  helper's working directory is not moved or removed, and the other process creates
  files and removes what is not a directory.
* In `Startup`: the file between the stat of its canonical path and the open of that
  path. `ReadsOnlyTrusted` is about names that move, not about writers in a trusted
  directory, which StrictModes excludes.

## Plan

1. Done: all components above; the refinement of `Service`; the proofs above.
2. Theorems: `NonceUnique` of `Transport`, from a margin between its constants;
   `ForgottenOweNothing` of `Admission`, with its allowance for lock waits.
3. Abstract specifications still to state: a byte stream with end (`Channel`'s stdin
   and output) and a session-key agreement over `Transport` and `Kex` together.
4. A composition of `Server` with the child life cycle of `Reaper` in place of its
   three-state child.
