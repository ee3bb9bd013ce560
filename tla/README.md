# A verification project for yapm

yapm is a process manager: a client program sends commands over a Unix socket
to a daemon, and the daemon forks processes, confines them with seccomp and
cgroups, copies their output to log files, polls their metrics, restarts them
by policy when they die, and stops them. This directory holds TLA+ models of
it, TLC configurations that check them on small instances, and proofs of the
most important results for every instance.

All paths below are relative to the repository (`src/src/core/device.rs` is the
crate's `core/device.rs`).

## 1. Inventory

| part | state | operations | what is hard |
| --- | --- | --- | --- |
| **ProcessManager** (`core/device.rs`, `core/task.rs`) | `ProcessRegistry.tasks`: a DashMap from name to process, its config and metrics | `start`, `stop`, `stop_all`, the restart handler, queries | commands run concurrently; the map is read, then the world is changed, then the map is written; restart requests carry a name only |
| **AsyncRuntime** (`threads.rs`) | `TaskRegistry` (tasks by id, ids by pid) under a mutex, three channels, join handles | `submit_*`, `kill_tasks_by_pid`, `kill_runtime`, three coordinators and the tasks they spawn | keyed by pids the kernel recycles; handles registered after the spawn; abort works at awaits only; two mutexes and a DashMap guard taken in two orders |
| **Linux layer** (`core/platform/linux.rs`) | children, pipes, `/proc` files | fork and set-up, SIGKILL, pidfd wait, `refresh` | fork in a threaded process; unwraps on I/O |
| **Logging** (`core/logging.rs`, stream tasks in `threads.rs`) | log file per stream, a size counter, a ring buffer of 100 entries | stream reader, `truncate_file`, `push`, `get_logs` | a counter that must follow the file, several writers of one file |
| **Client and daemon** (`utils.rs`, `main.rs`) | the socket file, the listener, one task per connection, a shutdown channel | `entry`, `split`, `daemon_listener`, `handle_incoming`, `handle_system_cmd`, `reply` | two clients starting a daemon, a stale socket file, exit against reply |
| **Configuration** (`config.rs`) | none (pure) | command line and TOML to `ProcessConfig` | two ways that should agree, profiles with overrides |
| **Confinement** (`linux.rs`, `core/platform/consts.rs`) | the child's filter and cgroup | set-up between fork and exec | order of the steps, errors after the fork return into a copy of the daemon, descriptors shared with it |
| **Protocol** (`protocol.rs`) | none | results and their display | nothing: not modelled |
| **Windows layer** (`core/platform/windows.rs`) | - | - | not part of the Linux program: not modelled |

How they interact: a connection's task calls `ProcessManager`, which forks
through the Linux layer and submits tasks to `AsyncRuntime`; coordinators spawn
those tasks; a lifetime task that has reaped its child sends a `RestartRequest`
to the restart handler, which takes the entry out of the process registry and
runs the start sequence again. The process registry, the task registry, the
log ring buffer and the kernel's process table are the shared state.

What makes each part correct:

* ProcessManager: a name stands for one process; a process is owned by one
  entry or one handler; every failed start leaves nothing behind; a death is
  noticed and answered once, within the restart budget; shutdown leaves nothing
  running.
* AsyncRuntime: each process has its tasks, an abort hits only the tasks it is
  meant for, a request is sent once per death, a task ends with its process; no
  set of tasks blocks the daemon for ever.
* Logging: the file keeps the newest output and stays within its bound.
* Daemon: one daemon at a time, a command gets an answer, a shutdown daemon can
  be started again.
* Configuration and confinement: what is asked for is what the child gets,
  whichever way it is asked; a client is told the truth about its child's set-up.

The hazards these properties are for are listed in `PROJECT.json`, each with the
line where it bites.

## 2. Modules

| module | role |
| --- | --- |
| `Supervisor` | ProcessManager, the restart handler, lifetime and metrics tasks, the kernel's view of the children |
| `SupervisorProperties` | what they promise, and what the repository says that they do not keep |
| `MCSupervisor` | small instances for TLC |
| `LogStream` | the readers of the processes' output, the log files and their truncation, the ring buffer and its mutex |
| `LogStreamProperties`, `MCLogStream` | their properties and small instances |
| `RestartChains` | what supervision promises: an abstract specification without registry, tasks, pids, queues and locals |
| `SupervisorRefinement` | the refinement mapping: `Supervisor` implements `RestartChains` |
| `Daemon` | client start-up, the socket, the listener, the handlers of connections, the shutdown channel |
| `DaemonProperties`, `MCDaemon` | their properties and small instances |
| `Confinement` | pure: a request, from the command line or TOML, to a seccomp filter and cgroup values |
| `Launch` | a start command from its connection to `exec`, across the fork, with the descriptors that processes share; applies `Confinement` |
| `LaunchProperties`, `MCLaunch` | their properties and a small instance |
| `Locks` | the two mutexes, who takes them in which order, and the worker threads that wait |
| `LocksProperties`, `MCLocks` | their properties and a small instance |
| `SupervisorTypes`, `SupervisorOwners`, `SupervisorWatch`, `SupervisorRefinementProofs`, `LogStreamProofs`, `DaemonProofs`, `LaunchProofs`, `LocksProofs` | proofs |

### Supervisor

One step is one access to shared state: a DashMap operation, a critical section
of the task registry, a system call, a send or a receive. Between two of them
any other task of the multi-threaded tokio runtime may run, whether or not the
code has an `.await` there.

| variable | code |
| --- | --- |
| `registry` | `ProcessRegistry.tasks`, the instance under each name |
| `proc`, `info`, `forks` | the kernel's children, numbered in the order of `fork`; `info` also holds what is fixed at the fork (name, pid, policy of that entry) and, as history, the restart chain it belongs to |
| `life`, `metrics` | `TaskRegistry`, by instance: a task's state and whether its join handle was registered |
| `reviveQ`, `metricsQ`, `restartQ` | the unbounded channels; the head of the first two is the submission a coordinator is working on |
| `pc`, `job`, `sweep` | where each client's handler and the restart handler are, their local entry, and the rest of `stop_all`'s iteration |
| `daemon` | up, exited by shutdown, or aborted by a panic |
| `poisoned` | whether a task panicked that held `Mutex<LogManager>`, after which each `lock().unwrap()` of it panics |

| action | code |
| --- | --- |
| `StartCheck` | `device.rs` 75-80 |
| `Fork`, `ForkFails` | 82-89 and 326-343, `linux.rs` 281-297 |
| `Streams`, `StreamsFail` | the parent's arm after the fork: `linux.rs` 298-316 and 148-162, its error at 86-88 and 335-342, without a kill |
| `SetupFails` | 92-122 and 346-391: `/proc` files, log files |
| `SubmitLife`, `SubmitMetrics`, `Refuse` | 128-165 and 397-444, `threads.rs` 333-376 |
| `Insert` | 166 and 445 |
| `StopRemove`, `StopTasks`, `StopKill` | 173-182, 183-195 with the log line, 196-210 |
| `ShutdownBegin`, `SweepKill`, `ShutdownExit` | 285-302, `utils.rs` 276-295 and 98-115 |
| `HandlerRecv`, `HandlerDecide`, `HandlerForget` | 312-325; a respawn then takes the start actions |
| `LifeSpawn`, `LifeHandle`, `MetricsSpawn`, `MetricsHandle` | the coordinators, `threads.rs` 487-592 |
| `MonitorReap`, `MonitorFails`, `MonitorSend` | the lifetime task |
| `MetricsTick` | the metrics task, when a round changes something |
| `LogPoisoned` | `threads.rs` 643-650: a failed truncation |
| `ChildExit` | the managed process ends |

What is merged or left out, and why it is faithful:

* Between the parent's arm of the fork and the first submit the handler touches nothing shared except
  the child, so the sleep, `LinuxRuntimeMetrics::new`, `ProcessLogger::new` and
  the logging task are one label with a failing exit. `send_to_runtime` drops the
  result of `submit_logging_task`, and logging tasks are never asked about:
  aborting them has no effect on this state.
* A refused task's SIGKILL and abort are one step: its pid stays taken until
  then, so nobody else's step meets it.
* `MetricsTick` looks up, locks and refreshes under one DashMap guard: one step.
* `stop_all` visits names in any order; DashMap's order by shard is one of them.
* `TaskInfo.status` is written and never read; `remove_task` has no caller. So a
  pid's tasks stay in the registry for ever (`HasTask`).
* A stopped process is a zombie for the rest of the daemon's life: its monitor
  was aborted, so nobody waits for it and its pid is not given away.
* Pids are the children's only: foreign processes of the host do not take part,
  although a kill by a stale pid could reach them as well.
* `PanicAborts` chooses between the release profile (`panic = "abort"` in
  `Cargo.toml`) and the others, where tokio catches a task's panic.
* A poisoned log makes a task panic where it logs, and this is part of the step
  that logs first: the restart handler before it acts on any error and before its
  second `remove` (`LogPanics`, `HandlerForget`), a stop between the `remove` and
  the kill (`StopTasks`), a monitor before its send (`MonitorSend`). Elsewhere it
  changes nothing here: `submit_*` lock the log under `?`, so a refusal stays one; a
  monitor or metrics task that fails or panics is gone either way; the log line
  that ends a stop, and the queries, only decide an answer.
* What children do after the daemon has ended is not followed.

Named bounds of `Supervisor`: `MaxForks` (after which `fork` fails, as with EAGAIN), the sets
`Names`, `Clients`, `Pids`, and `MaxRestarts` for the budget a client asks for.

### RestartChains and SupervisorRefinement

A start command begins a chain of processes, each restart adds one to a chain.
`RestartChains` has four variables: the `chain` of each process, the `terms`
(name and policy) of each chain, the `exit` of each process (unnoticed, noticed,
settled) and the `status` of each chain (none, starting, listed, serving,
stopping, closed). `SupervisorRefinement` reads them off the code's state:

| variable | from |
| --- | --- |
| `chain`, `terms` | `info`: the first process of the chain, and what it was started with |
| `exit` | `life` and `restartQ`: noticed once the monitor has reaped the process, settled once the handler has received the request, or the send has panicked |
| `status` | where the chain's last process is: in the registry, or in the locals of a handler, and then by its label; closed if it is nowhere |

`RestartChains` says what the code does promise, not what one could wish: a
request names a process and not an exit, so `Answer` takes up whichever chain is
listed under the name by then; and the second `remove` of a chain that is not to
be restarted lets go of whatever was inserted meanwhile (`LetGo`).

### LogStream

`Supervisor` and `LogStream` share one thing, the mutex of the log that a failed
truncation poisons: `LogPoisoned` there stands for `TrimFails` here, in a build that unwinds.
Otherwise logging tasks are neither looked up nor refused, and no entry of the
ring buffer decides anything. A step is one system call on a file, one critical section on the ring buffer, or
one step inside a truncation, which holds the mutex over three calls on the file.

| variable | code |
| --- | --- |
| `sent`, `source`, `pipe` | the process's side of its stream and the pipe |
| `file` | the log file, in cells `[stream, line, at]`: the `at`th piece of a line |
| `reader`, `abort`, `size`, `kept` | `async_truncate_stream_to_file`: where it is, whether its handle was aborted, `curr_size`, the bytes `truncate_file` read back |
| `lock`, `poisoned`, `ring` | `Mutex<LogManager>` and `glv` |
| `logged`, `daemon` | the daemon's own entries; whether a panic aborted it |

| action | code |
| --- | --- |
| `Open`, `Spawn` | `logging.rs` 93-162, `threads.rs` 406-432 |
| `Write`, `WriteFails`, `EndOfStream` | `threads.rs` 637-643 |
| `PushLine`, `PushPoisoned` | 644-646, and the first test of `truncate_file` |
| `TrimRead`, `TrimClear`, `TrimRewrite`, `TrimFails` | `logging.rs` 84-90, `threads.rs` 647-650 |
| `Report` | `threads.rs` 430-447: the error of a reader is logged |
| `Abort`, `Cancel`, `ManagerLog` | `threads.rs` 378-396, `device.rs` 456-460 |
| `Produce`, `Close` | the managed process |

Files are appended to outside the mutex and truncated inside it. A file is
shared by the readers of two runs of one name, for a new run may start while
the old one's reader still drains its pipe. `MaxLen` is `fmax_size` (4096 bytes
in the code, 4 cells here) and a line is 3 cells, so that the second line
triggers a truncation and a quarter of the limit is one cell. A write may be
short, as `File::write` allows. Bounds: `MaxLines` and `MaxLogs`.

`InOrder` is about a file that no second reader has opened yet, and must be: with two, a line
that one writes between the other's `TrimClear` and `TrimRewrite` ends up ahead
of older lines of its own stream, which the truncation had read back.

### Daemon

A client is one run of the program. `Supervisor` takes commands as given and
ends with the daemon's exit; `Daemon` follows the commands' way and takes what
they do to processes as given. The two meet in `stop_all` (`Sweep` here, the
`SweepKill` steps there) and in the exit (`Exit`, `ShutdownExit`).

| variable | code |
| --- | --- |
| `state` | the listener of each daemon: starting, about to poll the channel, about to accept, in `handle_connect_errcase`, exited |
| `chan`, `sock` | the shutdown channel of each daemon; which daemon bound the socket file |
| `pc`, `cmd`, `conn` | `entry` and `send_task` |
| `handler`, `replied` | `handle_incoming` of the client's connection |
| `ran` | history |

| action | code (`utils.rs`) |
| --- | --- |
| `Connect`, `NobodyHome`, `Split`, `SplitFails`, `ReconnectFails` | 22-59, 345-394 |
| `Send`, `ReadReply`, `ReadEOF` | 144-168 |
| `Bind`, `BindFails` | 70-87, 373-382 |
| `Poll`, `Wake`, `Accept`, `Exit` | 89-116 |
| `AcceptError`, `FatalSend` | 300-336 |
| `ReadCommand`, `Sweep`, `Notify`, `Reply` | 118-142, 170-211, 268-298 |
| `Crash` | a panic in the release profile |

The select is biased, so a poll of the channel comes before each accept, and a
message may arrive between the two: they are two steps. `bind` and `listen` are
one: a client that falls between them finds nobody home, like one that comes
before both. The 50 ms of the second connection promise nothing, so it may come
before or after `Bind`. Errors of `accept` that are only logged change nothing
and have no step.

### Confinement and Launch

`Supervisor` takes a successful `fork` to be a start; `Launch` looks into it, for
any number of concurrent start commands. Its atomic steps are system calls of the
daemon or of a child; `start`'s work after the fork, which `Supervisor` has in
detail, is one step that succeeds (`Register`) or fails (`RegisterFails`).

| variable | code |
| --- | --- |
| `handler`, `request` | `handle_incoming` and `start` of each connection; what was asked |
| `child` | the child's stage: redirect, chdir, cgroup, filter, exec; then running, dead, or a copy of the daemon |
| `filter`, `cgroup` | what the kernel denies the child; the limits written under its name |
| `conn`, `wr`, `rd` | which processes hold the daemon's end of the connection and the two ends of the pipes |
| `replies`, `registered`, `reader` | what was written to the connection; the registry; the log readers |

| action | code |
| --- | --- |
| `Accept`, `Reply` | `utils.rs` 118-133, 170-198 |
| `Pipe`, `Fork`, `ForkReturns` | `linux.rs` 292-316 |
| `SpawnFails`, `StreamPanics` | an error before, at or after the fork (`device.rs` 82-88), or a panic after it (`linux.rs` 151-160) |
| `Register`, `RegisterFails` | `device.rs` 90-171 |
| `SetupStep`, `SetupFails` | `linux.rs` 317-368 |
| `Exec`, `ExecFails` | 370-410 |
| `Stop`, `Reap`, `AbortReader` | `device.rs` 173-210, 304-340, in one step each: `Supervisor` has the detail |
| `ReaderEof` | `threads.rs` 637-653 |

Who holds a descriptor decides when a reader sees its end. Accepted sockets are
close-on-exec, pipes are not; the future of `stream.shutdown()` is dropped
without being polled, so a client reads until the last holder of its connection
is gone. `Confinement` keeps the lists of system calls by what tells them apart:
one name for the calls that are in the same lists, `open` split by access mode,
`clone` by its flags.

### Locks

`TaskRegistry` and `LogManager` are behind one mutex each (`std::sync`), and a
task keeps its worker thread while it waits. `Locks` has one poll of a task per
element of `Tasks`, of six roles. A critical section with no other lock inside is
one step; the two nestings, a refused submit (registry, then log) and a task that
gives up (log, then registry), are one step per lock. The process registry is not
part of this: its guards are released before either mutex is taken, but for one
place, `threads.rs` 512-530, where a metrics task whose `refresh` returned an
`Err` would take both under its entry's guard. `refresh` never returns one (it unwraps).

## 3. Runs

All runs set `CHECK_DEADLOCK FALSE`: a daemon with nothing to do waits, and one
that has exited stops.

| run | instance | shows |
| --- | --- | --- |
| `duel` | 1 name, 2 clients, 2 pids, 3 forks, start and stop, policy Capped(2), no failing calls, aborting panics | `TypeOK`, `OneOwner`, `RegisteredIsWatched`, `MetricsNeverRefused`, `RestartBudget`, `PidHitsTarget`, `NoOtherOrphan` |
| `names` | 2 names, 1 client, 2 pids, 3 forks, start, stop, shutdown, caught panics | the same across names, and during a shutdown |
| `live` | 1 name, 1 client, 2 pids, 2 forks, start and stop, failing calls, caught panics and a poisoned log, fairness | `ExitHandled`, `MetricsEnds`, `RegisteredIsWatched`, `PidHitsTarget` and `NoOtherOrphan` where calls fail, and `KeepsChains`: `Supervisor` implements `RestartChains` |
| `logs` | 2 streams with one file, 2 lines and 1 line, ring of 2, failing and short calls, fairness | `TypeOK`, `FileCapped`, `NothingTwice`, `InOrder`, `RingLatest`, `PipeDrained` |
| `log_tail` | 1 stream, 3 lines | the line just written is not in its file |
| `daemon` | 3 clients, 2 daemons; one start and two shutdowns, or two starts and a forced Init; failing calls, crashes, fairness | `TypeOK`, `ReachableUnlessTold`, `RanOnce`, `ClientEnds`, `ToldExits` |
| `stale_socket` | the same without failures | a client is told that a daemon is most likely running when none is |
| `launch` | 2 clients, three different requests, failing calls, aborting panics, fairness | `TypeOK`, `Confined`, `SameEitherWay`, `AnswerIsTrue`, `NoStray`, `AnswerEnds`, `ReadersEnd` |
| `locks` | 7 tasks of all roles about one pid, 3 workers, fairness | `TypeOK`, `OnlyCrossing`, `TasksEnd` |
| `handler_panic`, `duplicate_name`, `shutdown_leak` | 2 forks | the counterexamples reported under findings |

Why the bounds suffice: the races are between two commands, or a command and a
restart, so two clients or one client and the handler meet in them; a third fork
lets a process come after the two that raced, and two pids with three forks force
a pid to be used again. In `daemon` each run begins with or without a daemon;
a successor and a second shutdown of its predecessor need three commands, and
so do two starters and a forced Init.
In `logs` the two counters start
from different lengths of one file and one of them is driven past the limit
while the other reader writes between the steps of the truncation.
`Capped(2)` has both answers of `respawn` in one chain.
In `launch` one command's child, in any stage of its set-up, meets the fork of
another, which is all that descriptors can do to each other; the requests have a
profile alone, a profile with switches, and overrides of both kinds. In `locks` the pid is
the same for all tasks, so that a submit may be refused, and three workers leave
one for a bystander while two cross.
Names, clients and pids are interchangeable, so the
safety runs use symmetry; the liveness runs do not, but `live` looks only at the
behaviours in which the first process has one fixed pid (`FirstPid`), of which all
others are permutations.

**Fairness** (`FairSpec`). The tokio runtime polls every task that is ready:
weak fairness of each client's handler (`ClientStep`, not `Command`: nobody has
to send one), of the restart handler, of each coordinator, and of a monitor's
wait and send, and of a metrics task, whose interval ticks every second. Nothing
obliges a child to exit or a system call to fail, so these have none.
`ExitHandled` therefore says that a
listed zombie leaves the list unless its monitor failed, or panicked at a
poisoned log, or the restart handler or the daemon is gone. Those exceptions are
real: see findings; in particular nothing is said of what happens once a restart
has failed. The safety properties of `live` need no fairness; they are there for
the failing calls, which `duel` and `names` leave out.

One assumption is stronger than the runtime's. The tasks of `Supervisor`,
`LogStream` and `Launch` take the two mutexes of `Locks`, and two of them can
block each other for ever, with every task that comes after them: `Crossed`,
reported under findings. Their fairness takes it that this does not happen, so
`ExitHandled`, `MetricsEnds`, `PipeDrained`, `AnswerEnds` and `ReadersEnd` hold as
long as the mutexes do not cross; `Locks` shows that nothing else of this kind
can happen.

In `LogStream`, a reader whose pipe is readable is polled (weak fairness of
`Reader`, whose calls need not fail), and gets the mutex if it keeps becoming
free (strong fairness: `std::sync::Mutex` promises no order, but does not starve
a waiter for ever while others come and go). Processes, aborts and the daemon's
own entries are not obliged to happen.

In `Launch`, the runtime polls the handler of every connection, the restart
handler and the readers, and the kernel runs every child's set-up; nobody has to
exit or to be stopped. `AnswerEnds` and `ReadersEnd` except what another child
holds open, which is real: a copy of the daemon keeps connections, and a process
forked between `pipe` and the parent's close keeps a write end.

In `Locks`, a task that is ready is polled while there is a free worker, and a
thread that can take its mutex does. Every task takes finitely many steps, so
weak fairness of each is enough.

In `Daemon`, the kernel runs clients once they have begun, and tokio polls the
listener and every handler that can go on. Each of them takes finitely many
steps, so weak fairness of all together (`Progress`) is enough, and assumes less
than fairness of each. Nobody is
obliged to run a client, and no fault to happen. `ClientEnds` and `ToldExits`
except the state in which the listener awaits itself (`Stuck`): see findings.

## 4. Proofs

For every value of the constants that satisfies the module's assumption
(`SupervisorAssumption`, `LogStreamAssumption`, `DaemonAssumption`, `ConfinementAssumption`,
`LaunchAssumption`, `LocksAssumption`):

| theorem | says |
| --- | --- |
| `TypeCorrect` (`SupervisorTypes`) | `Spec => []TypeOK`. `TypeOK` is not inductive: `HandlerRecv` reads the registry at the name of a request, `Fork` counts instances, and an actor's label says which fields of its job are filled. `TypeInv` adds these facts (`JobOK`, `RegistryOK`, `BornOK`). |
| `OneOwnerHolds` (`SupervisorOwners`) | `Spec => []OneOwner`: the entry moves from the registry to one handler and back; only a fork creates it, with a new number. |
| `RestartBudgetHolds` (`SupervisorOwners`) | `Spec => []RestartBudget`. `ChainBalanced` says of every forked instance that its position in the chain plus what is left of its policy is at most what the first one had; `AccountKept` says the same of the handler's copy between `respawn` and the fork. |
| `WatchInvariant` (`SupervisorWatch`) | the invariant behind the next three: a pid that is in use belongs to one instance whose tasks are newer than every other task of that pid (`PidInv`), what each monitor has done fits its child's state (`Watched`), and an actor that holds an instance holds the only one its pid can mean (`HolderOK`). |
| `RegisteredIsWatchedHolds`, `MetricsNeverRefusedHolds` | the invariants `RegisteredIsWatched` and `MetricsNeverRefused` |
| `PidHitsTargetHolds` | the action property `PidHitsTarget`, from the same invariant |
| `NoOtherOrphanHolds` | the action property `NoOtherOrphan`, in every build and with all failures: what a step lets go of it has killed before, or handed to whoever takes the entry, except in the four ways that the property names (`Overwritten`, `TakenForAnother`, `LostAtFork`, `LostToPoison`), each of them a finding. It needs that an actor with nothing to do, and a client that has yet to fork, holds nothing (`EmptyHanded`), or a start could forget what it held. |
| `LogTypeCorrect` (`LogStreamProofs`) | `Spec => []TypeOK`. `TypeInv` adds that the mutex is held by exactly the reader that truncates, whose counter is above the limit, and that a pipe holds no more lines than were sent (`ReaderOK`). |
| `FileCappedHolds`, `NothingTwiceHolds`, `InOrderHolds`, `RingLatestHolds` | the four invariants of the logs, see below |
| `RanOnceHolds` (`DaemonProofs`) | `Spec => []RanOnce`: `HandlerOK` ties what a client has reached to what its handler has done. |
| `ReachableUnlessToldHolds` | `Spec => []ReachableUnlessTold`, inductive with `HandlerOK`. A shutdown of daemon `e` takes the socket of `d`: `e` had lost it before, so it was told twice now, or somebody else was, or `d` itself was told. It uses that the clients are finitely many. |
| `DaemonTypeCorrect` | `Spec => []TypeOK` |
| `ChainInvariant`, `KeepsChainsHolds` (`SupervisorRefinementProofs`) | `Spec => KeepsChains`, see below |
| `LaunchTypeCorrect`, `ConfinedHolds`, `SameEitherWayHolds`, `AnswerIsTrueHolds`, `NoStrayHolds` (`LaunchProofs`) | the four invariants of `launch` and the action property `NoStray`. The lemmas about `Confinement` hold for every request (`PolicyIsAsked`, `FilterConfines`, `SamePolicy`, `SameLimits`): the policy is what was asked but for `no_fs`, which is never applied, so `Confined` promises nothing for it, nor for `no_thread`, whose rule matches no call that makes a thread. `Coherent` ties a child's filter and cgroup to its stage, and its stage, the answers and the registry to the handler: a child before `exec` holds its own connection, which is why a client cannot be told early. |
| `LocksTypeCorrect`, `OnlyCrossingHolds` (`LocksProofs`) | the two invariants of `locks`. Follow the waiting: if all busy tasks are blocked, the holder of the mutex that one of them waits for is blocked on the other mutex, whose holder is blocked on the first; `LocksInv` says at which label each mutex is held, so these two are a refused submit and a task that gives up. |

**The refinement.** `KeepsChainsHolds` needs to know where a chain is before a
step and after it. `ChainInv` makes that unique: only the last process of a chain
is listed or held (`LineInv`, with the number of its processes), each is listed
and held under its own name by an actor at work on it (`PlaceInv`), and a request
in the queue is the only one of a monitor that has sent it (`QueueInv`). With `OneOwner` and
`ChainBalanced` of the earlier proofs this is inductive. The lemmas `ListedStatus`,
`HeldStatus` and `ClosedStatus` then give a chain's status from where its last
process is, and `StatusKept` says that all other chains keep theirs. Each way a process changes hands
has a lemma that names the step of `RestartChains` it is: `SimFork` (`Begin` or
`Extend`, which needs the budget), `SimInsert` (`List`), `SimTake` (`Stop`,
`Answer`), `SimRelease` and `SimForget` (`LetGo`), `SimReap` (`Notice`), `SimSend`
and `SimRecv` (`Lose`, or what is sent stays noticed). All other actions leave the abstract state
alone (`Quiet`).

**The logs.** The file of a stream may be written by any number of readers, and
the set of streams need not be finite. `NothingTwice` is inductive as `CellsInv`:
all cells are of lines that were taken off a pipe (`Old`), so a new line's cells
are new; what a truncating reader has read back is free of repetitions; and once
it has cleared the file nothing there is in what it kept (`Apart`): the mutex keeps
other truncations away, and writers only add new cells. `InOrder` needs in
addition that the first reader of a file, while it rewrites it, finds it
empty (`OrderOK`).

`FileCapped` needs a measure, since no counter is right. A reader's
`Share` is its counter, but no more than the limit while it is between two lines.
A write adds to a share at least what it adds to the file; a reader is done
with a line when its counter is within the limit or after a truncation, and a
truncation keeps less than its counter and a quarter of the limit, so that the
file's length never exceeds the sum of the shares (`CapOK`). The two clauses on
`kept` carry this over the three steps of a truncation, with the other readers'
writes in between. The sum is the cardinality of a set (`Pieces`), with the few
facts about it that are needed (`TotalSplit`, `TotalMono`, `TotalGrows`,
`TotalBound`) from the library's facts about finite sets; that finitely many
streams have opened a file is part of the invariant.

`RingLatest` is inductive with `InHand`: while a reader has a line in hand, its
newest entry is of the line before, and a reader that was not spawned has no
entry. Every step changes the buffer by `RingPush`, for one stream or for
the daemon, or leaves it alone (`RingFrame`).

Every safety property of the passing runs is a theorem. Only model-checked: the
liveness properties `ExitHandled`, `MetricsEnds`, `ClientEnds`, `ToldExits`,
`PipeDrained`, `AnswerEnds`, `ReadersEnd`, `TasksEnd` (liveness is out of the
proof system's reach, as is ENABLED), and the properties that the code does not
keep, whose counterexamples TLC finds.

## 5. Not modelled

* `protocol.rs`: serialised results and the tables that display them. It has no
  state and decides nothing; that a reply is one JSON document is used in
  `Launch` (a second answer on a connection makes it unreadable).
* `windows.rs`: not compiled into the Linux program.
* The texts of `/proc` files, TOML, command line and log entries. A text that
  does not parse is `Garbage` in `Confinement`.
* Code without a caller: `validate` and `validate_paths` (tests only),
  `set_process_*_rlimit`, `seccomp_no_escalate`, `remove_task`.
* The queries (`list_processes`, `get_process_details`, `get_logs`): they read
  under one guard and change nothing.
* In `Launch`: the tasks that happen to be queued for the one thread of a copy of
  the daemon. A handler among them would answer a connection that the copy holds,
  and could run a start of its own and fork from the copy. Names are taken to be
  distinct (`Supervisor` has the starts of one name), and the restart handler's
  forks, which share `start`'s steps and answer nobody, are left out with the
  copies that they may leave.
* A client that is killed while it waits.

## 6. Plan

1. `Supervisor` and its proofs (done).
2. `LogStream`: reader, file, counter and ring buffer (done, with proofs).
3. `Daemon`: socket, client start-up, shutdown and reply (done, with proofs).
4. `Confinement` and `Launch`: request to child, across the fork (done, with proofs).
5. `Locks`: the order of the two mutexes (done, with proofs).
6. `RestartChains` and the refinement (done, with its proof).
7. Left: theorems that say under which commands the statements under
   findings do hold.
