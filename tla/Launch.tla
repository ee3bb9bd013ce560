-------------------------------- MODULE Launch --------------------------------
(***************************************************************************)
(* A start command from the connection to exec, across the fork:           *)
(* handle_incoming and reply (src/src/utils.rs), ProcessManager::start     *)
(* (src/src/core/device.rs) and create_child_exec_context_from_config      *)
(* (src/src/core/platform/linux.rs), with the descriptors that the         *)
(* daemon and its children share.                                          *)
(*                                                                         *)
(* Every `?` of the child's set-up returns into a copy of the daemon that  *)
(* has one thread: it runs the rest of the command's handler, answers the  *)
(* client itself, and then stays, with the descriptors the daemon had open *)
(* at the fork.  What the copy does after that is not followed: tasks that  *)
(* were queued for its thread may run in it as well, so it may answer other *)
(* connections it holds and even run a start of its own, whose child would *)
(* be forked from the copy.  Nor are the copies that a restart leaves.     *)
(***************************************************************************)
EXTENDS Confinement, Sequences

CONSTANTS
  Clients,      \* connections; each sends one start command of its own name
  Daemon,       \* the daemon's process; the child of c's command is called c
  Requests,     \* what each client may ask: a function from Clients to sets
  PanicAborts,  \* TRUE: Cargo's release profile, a panic aborts the process
  IOErrors      \* TRUE: the system calls of daemon and children may fail

ASSUME LaunchAssumption ==
  /\ Daemon \notin Clients
  /\ \A c \in Clients : Requests[c] \subseteq Request
  /\ PanicAborts \in BOOLEAN
  /\ IOErrors \in BOOLEAN

Procs  == {Daemon} \cup Clients

(* The child's set-up, in order, after the fork. *)
Stages == <<"redirect", "chdir", "cgroup", "filter", "exec">>

VARIABLES
  daemon,      \* "up" or "aborted"
  handler,     \* where the daemon's handler of each connection is
  request,     \* what the client asked for
  child,       \* each child: a stage of its set-up, "running", "copy", ...
  filter,      \* the calls that the kernel denies each child
  cgroup,      \* the limits written into the cgroup of the child's name
  conn,        \* processes that hold the daemon's end of each connection
  wr,          \* processes that hold a write end of the child's pipes
  rd,          \* processes that hold a read end of them
  replies,     \* what was written to each connection
  registered,  \* the names that are in the registry
  reader       \* the log reader tasks of each child

fds  == <<conn, wr, rd>>
vars == <<daemon, handler, request, child, filter, cgroup, fds, replies,
          registered, reader>>

HandlerState == {"idle", "accepted", "piped", "forked", "setup", "started",
                 "refused", "done"}
ChildState   == {"none", "running", "copy", "dead"} \cup {Stages[i] : i \in 1..5}
Answer       == {"started", "error"}
Limits       == [quota : {Unlimited} \cup 1..100, mem : Memory]

TypeOK ==
  /\ daemon \in {"up", "aborted"}
  /\ handler \in [Clients -> HandlerState]
  /\ request \in [Clients -> Request \cup {NotGiven}]
  /\ child \in [Clients -> ChildState]
  /\ filter \in [Clients -> SUBSET Calls]
  /\ cgroup \in [Clients -> Limits \cup {NotGiven}]
  /\ conn \in [Clients -> SUBSET Procs]
  /\ wr \in [Clients -> SUBSET Procs]
  /\ rd \in [Clients -> SUBSET Procs]
  /\ replies \in [Clients -> Seq(Answer)]
  /\ registered \in SUBSET Clients
  /\ reader \in [Clients -> {"none", "reading", "ended"}]

Init ==
  /\ daemon = "up"
  /\ handler = [c \in Clients |-> "idle"]
  /\ request = [c \in Clients |-> NotGiven]
  /\ child = [c \in Clients |-> "none"]
  /\ filter = [c \in Clients |-> {}]
  /\ cgroup = [c \in Clients |-> NotGiven]
  /\ conn = [c \in Clients |-> {}]
  /\ wr = [c \in Clients |-> {}]
  /\ rd = [c \in Clients |-> {}]
  /\ replies = [c \in Clients |-> <<>>]
  /\ registered = {}
  /\ reader = [c \in Clients |-> "none"]

-----------------------------------------------------------------------------
(* Descriptors.                                                            *)

(* fork: the child c holds whatever the daemon holds. *)
Inherited(holders, c) ==
  [d \in Clients |-> IF Daemon \in holders[d] THEN holders[d] \cup {c} ELSE holders[d]]

(* A process is gone, or execs with close-on-exec descriptors. *)
Released(holders, p) == [d \in Clients |-> holders[d] \ {p}]

(* A process drops its own copy of one descriptor. *)
Dropped(holders, c, p) == [holders EXCEPT ![c] = @ \ {p}]

ReleaseAll(p) ==
  /\ conn' = Released(conn, p)
  /\ wr' = Released(wr, p)
  /\ rd' = Released(rd, p)

(* SIGKILL to the child of c, if it is there. *)
Kill(c) == child' = [child EXCEPT ![c] = IF @ = "none" THEN @ ELSE "dead"]

Goto(c, l) == handler' = [handler EXCEPT ![c] = l]

-----------------------------------------------------------------------------
(* The daemon's handler of one connection.                                 *)

(* The command has been read; clap or serde have made a ProcessConfig. *)
Accept(c) ==
  /\ daemon = "up" /\ handler[c] = "idle"
  /\ \E r \in Requests[c] : request' = [request EXCEPT ![c] = r]
  /\ conn' = [conn EXCEPT ![c] = {Daemon}]
  /\ Goto(c, "accepted")
  /\ UNCHANGED <<daemon, child, filter, cgroup, wr, rd, replies, registered, reader>>

(* Both calls of pipe(): no close-on-exec on any end. *)
Pipe(c) ==
  /\ daemon = "up" /\ handler[c] = "accepted"
  /\ wr' = [wr EXCEPT ![c] = {Daemon}]
  /\ rd' = [rd EXCEPT ![c] = {Daemon}]
  /\ Goto(c, "piped")
  /\ UNCHANGED <<daemon, request, child, filter, cgroup, conn, replies, registered, reader>>

Fork(c) ==
  /\ daemon = "up" /\ handler[c] = "piped"
  /\ child' = [child EXCEPT ![c] = Stages[1]]
  /\ conn' = Inherited(conn, c)
  /\ wr' = Inherited(wr, c)
  /\ rd' = Inherited(rd, c)
  /\ Goto(c, "forked")
  /\ UNCHANGED <<daemon, request, filter, cgroup, replies, registered, reader>>

(* pipe(), fork() or the parent's fcntl() fails: what was opened is         *)
(* dropped, and start returns the error.  In the last case the child is    *)
(* there, and nobody kills it.                                             *)
SpawnFails(c) ==
  /\ daemon = "up" /\ handler[c] \in {"accepted", "piped", "forked"} /\ IOErrors
  /\ wr' = Dropped(wr, c, Daemon)
  /\ rd' = Dropped(rd, c, Daemon)
  /\ Goto(c, "refused")
  /\ UNCHANGED <<daemon, request, child, filter, cgroup, conn, replies, registered, reader>>

(* Slip: the parent keeps the write ends. *)
ForkReturnsKeeps(c) ==
  /\ daemon = "up" /\ handler[c] = "forked"
  /\ Goto(c, "setup")
  /\ UNCHANGED <<daemon, request, child, filter, cgroup, fds, replies, registered, reader>>

(* The parent's arm returns: the read ends become ManagedStreams, the      *)
(* write ends go out of scope.                                             *)
ForkReturns(c) ==
  /\ daemon = "up" /\ handler[c] = "forked"
  /\ wr' = Dropped(wr, c, Daemon)
  /\ Goto(c, "setup")
  /\ UNCHANGED <<daemon, request, child, filter, cgroup, conn, rd, replies, registered, reader>>

(* AsyncFd::new fails under expect(): the daemon aborts, or the task is    *)
(* gone with its connection, and the child runs with nobody to know of it. *)
StreamPanics(c) ==
  /\ daemon = "up" /\ handler[c] = "forked" /\ IOErrors
  /\ IF PanicAborts
     THEN /\ daemon' = "aborted"
          /\ ReleaseAll(Daemon)
          /\ reader' = [d \in Clients |-> IF reader[d] = "reading" THEN "ended" ELSE reader[d]]
          /\ UNCHANGED handler
     ELSE /\ conn' = Dropped(conn, c, Daemon)
          /\ wr' = Dropped(wr, c, Daemon)
          /\ rd' = Dropped(rd, c, Daemon)
          /\ Goto(c, "done")
          /\ UNCHANGED <<daemon, reader>>
  /\ UNCHANGED <<request, child, filter, cgroup, replies, registered>>

(* The rest of start: metrics, log files, the readers, the two submits and *)
(* the insert, which is what other commands see.                           *)
Register(c) ==
  /\ daemon = "up" /\ handler[c] = "setup"
  /\ registered' = registered \cup {c}
  /\ reader' = [reader EXCEPT ![c] = "reading"]
  /\ Goto(c, "started")
  /\ UNCHANGED <<daemon, request, child, filter, cgroup, fds, replies>>

(* Slip: the child is left running. *)
RegisterFailsNoKill(c) ==
  /\ daemon = "up" /\ handler[c] = "setup" /\ IOErrors
  /\ rd' = Dropped(rd, c, Daemon)
  /\ Goto(c, "refused")
  /\ UNCHANGED <<daemon, request, child, filter, cgroup, conn, wr, replies, registered, reader>>

(* One of them fails and the child is killed; by then its readers may be   *)
(* at work, and too young for kill_tasks_by_pid to find their handles.     *)
RegisterFails(c) ==
  /\ daemon = "up" /\ handler[c] = "setup" /\ IOErrors
  /\ Kill(c)
  /\ conn' = Released(conn, c)
  /\ wr' = Released(wr, c)
  /\ \E r \in {"none", "reading"} :
       /\ reader' = [reader EXCEPT ![c] = r]
       /\ rd' = IF r = "none" THEN Dropped(Released(rd, c), c, Daemon) ELSE Released(rd, c)
  /\ Goto(c, "refused")
  /\ UNCHANGED <<daemon, request, filter, cgroup, replies, registered>>

(* Slip: the future of shutdown() is awaited. *)
ReplyShutsDown(c) ==
  /\ daemon = "up" /\ handler[c] \in {"started", "refused"}
  /\ replies' = [replies EXCEPT ![c] =
                   Append(@, IF handler[c] = "started" THEN "started" ELSE "error")]
  /\ conn' = [conn EXCEPT ![c] = {}]
  /\ Goto(c, "done")
  /\ UNCHANGED <<daemon, request, child, filter, cgroup, wr, rd, registered, reader>>

(* reply writes the answer; the future of shutdown() is never awaited, so  *)
(* the client sees the end when the last holder closes the connection.     *)
Reply(c) ==
  /\ daemon = "up" /\ handler[c] \in {"started", "refused"}
  /\ replies' = [replies EXCEPT ![c] =
                   Append(@, IF handler[c] = "started" THEN "started" ELSE "error")]
  /\ conn' = Dropped(conn, c, Daemon)
  /\ Goto(c, "done")
  /\ UNCHANGED <<daemon, request, child, filter, cgroup, wr, rd, registered, reader>>

-----------------------------------------------------------------------------
(* The child.                                                              *)

(* One stage of the set-up succeeds. *)
SetupStep(c) ==
  \E i \in 1..4 :
    /\ child[c] = Stages[i]
    /\ child' = [child EXCEPT ![c] = Stages[i + 1]]
    /\ cgroup' = IF Stages[i] = "cgroup"
                 THEN [cgroup EXCEPT ![c] = Cgroup(LimitsOf(request[c]))] ELSE cgroup
    /\ filter' = IF Stages[i] = "filter"
                 THEN [filter EXCEPT ![c] = Filter(PolicyOf(request[c]))] ELSE filter
    /\ UNCHANGED <<daemon, handler, request, fds, replies, registered, reader>>

(* A stage fails: the copy of the handler answers the client, and its      *)
(* locals are dropped; after a dup2 it still has a pipe as its stdout or   *)
(* stderr.                                                                 *)
SetupFails(c) ==
  /\ child[c] \in {Stages[i] : i \in 1..4} /\ IOErrors
  /\ child' = [child EXCEPT ![c] = "copy"]
  /\ replies' = [replies EXCEPT ![c] = Append(@, "error")]
  /\ conn' = Dropped(conn, c, c)
  /\ \/ wr' = wr
     \/ child[c] = "redirect" /\ wr' = Dropped(wr, c, c)
  /\ rd' = Dropped(rd, c, c)
  /\ UNCHANGED <<daemon, handler, request, filter, cgroup, registered, reader>>

(* Slip: the connections are not close-on-exec. *)
ExecKeeps(c) ==
  /\ child[c] = "exec"
  /\ child' = [child EXCEPT ![c] = "running"]
  /\ UNCHANGED <<daemon, handler, request, filter, cgroup, fds, replies, registered, reader>>

(* execvpe: the connections are close-on-exec, the pipes are not. *)
Exec(c) ==
  /\ child[c] = "exec"
  /\ child' = [child EXCEPT ![c] = "running"]
  /\ conn' = Released(conn, c)
  /\ UNCHANGED <<daemon, handler, request, filter, cgroup, wr, rd, replies, registered, reader>>

(* execvpe returns: unreachable!() panics, in the child. *)
ExecFails(c) ==
  /\ child[c] = "exec" /\ IOErrors
  /\ IF PanicAborts
     THEN child' = [child EXCEPT ![c] = "dead"] /\ ReleaseAll(c)
     ELSE /\ child' = [child EXCEPT ![c] = "copy"]
          /\ conn' = Dropped(conn, c, c)
          /\ rd' = Dropped(rd, c, c)
          /\ UNCHANGED wr
  /\ UNCHANGED <<daemon, handler, request, filter, cgroup, replies, registered, reader>>

ChildExit(c) ==
  /\ child[c] = "running"
  /\ child' = [child EXCEPT ![c] = "dead"]
  /\ ReleaseAll(c)
  /\ UNCHANGED <<daemon, handler, request, filter, cgroup, replies, registered, reader>>

-----------------------------------------------------------------------------
(* What the rest of the daemon does to a child (module Supervisor).        *)

(* A reader task aborted by kill_tasks_by_pid drops its end. *)
AbortReader(c) ==
  /\ reader' = [reader EXCEPT ![c] = "ended"]
  /\ rd' = Dropped(Released(rd, c), c, Daemon)

(* A stop command of another connection, in one step. *)
Stop(c) ==
  /\ daemon = "up" /\ c \in registered
  /\ registered' = registered \ {c}
  /\ Kill(c)
  /\ AbortReader(c)
  /\ conn' = Released(conn, c)
  /\ wr' = Released(wr, c)
  /\ UNCHANGED <<daemon, handler, request, filter, cgroup, replies>>

(* The monitor of a dead child, and the restart handler with policy None. *)
Reap(c) ==
  /\ daemon = "up" /\ c \in registered /\ child[c] = "dead"
  /\ registered' = registered \ {c}
  /\ AbortReader(c)
  /\ UNCHANGED <<daemon, handler, request, child, filter, cgroup, conn, wr, replies>>

(* The end of the stream: no process holds a write end. *)
ReaderEof(c) ==
  /\ daemon = "up" /\ reader[c] = "reading" /\ wr[c] = {}
  /\ reader' = [reader EXCEPT ![c] = "ended"]
  /\ rd' = Dropped(rd, c, Daemon)
  /\ UNCHANGED <<daemon, handler, request, child, filter, cgroup, conn, wr, replies, registered>>

-----------------------------------------------------------------------------
HandlerStep(c) ==
  \/ Pipe(c)
  \/ Fork(c)
  \/ SpawnFails(c)
  \/ ForkReturns(c)
  \/ StreamPanics(c)
  \/ Register(c)
  \/ RegisterFails(c)
  \/ Reply(c)

ChildStep(c) == SetupStep(c) \/ SetupFails(c) \/ Exec(c) \/ ExecFails(c)

Next ==
  \E c \in Clients :
    \/ Accept(c)
    \/ HandlerStep(c)
    \/ ChildStep(c)
    \/ ChildExit(c)
    \/ Stop(c)
    \/ Reap(c)
    \/ ReaderEof(c)

Spec == Init /\ [][Next]_vars

(* The runtime polls what is ready and the kernel runs every process.      *)
(* Nothing obliges a child to end, nor anybody to stop one.                *)
(* Assumed with it: the tasks do not block each other with the two mutexes *)
(* that Register, Reap and Stop take inside (module Locks, Crossed).       *)
Fairness ==
  \A c \in Clients :
    WF_vars(HandlerStep(c)) /\ WF_vars(ChildStep(c)) /\ WF_vars(Reap(c)) /\ WF_vars(ReaderEof(c))

FairSpec == Spec /\ Fairness
=============================================================================
