----------------------------- MODULE Supervisor -----------------------------
(***************************************************************************)
(* The core of yapm's daemon: ProcessManager (src/src/core/device.rs), the *)
(* lifetime and metrics tasks of AsyncRuntime (src/src/threads.rs) and the *)
(* kernel's view of the children they fork.                                *)
(*                                                                         *)
(* Each action is one access to shared state: a DashMap operation, one     *)
(* critical section of the task registry's mutex, one system call, one     *)
(* send or receive on a channel.  Between two of them any other task of    *)
(* the multi-threaded runtime may run.                                     *)
(***************************************************************************)
EXTENDS Naturals, Sequences

CONSTANTS
  Names,        \* process names, the keys of ProcessRegistry.tasks
  Commands,     \* which of "start", "stop", "shutdown" clients send
  Clients,      \* connections whose commands the daemon serves concurrently
  Handler,      \* the task that start_restart_handler spawns
  Pids,         \* process ids; the kernel recycles the id of a reaped child
  Policies,     \* restart policies clients ask for
  MaxForks,     \* bound: children forked in a behaviour (then fork() fails)
  PanicAborts,  \* TRUE: Cargo's release profile, a panic aborts the daemon
  IOErrors,     \* TRUE: fork, /proc, log files and pidfd_open may fail
  Nil           \* stands for a name or pid not yet chosen

(* RestartPolicy: None, Capped(left) or Infinite. *)
Policy == [kind : {"none", "capped", "infinite"}, left : Nat]
NoPolicy == [kind |-> "none", left |-> 0]

ASSUME SupervisorAssumption ==
  /\ Handler \notin Clients
  /\ Nil \notin Names \cup Pids
  /\ Commands \subseteq {"start", "stop", "shutdown"}
  /\ Policies \subseteq Policy
  /\ MaxForks \in Nat
  /\ PanicAborts \in BOOLEAN
  /\ IOErrors \in BOOLEAN

Actors    == Clients \cup {Handler}
Instances == 1..MaxForks    \* children in the order they are forked
None      == 0              \* no instance

VARIABLES
  daemon,      \* "up", "exited" (Shutdown) or "aborted" (a panic)
  proc,        \* the kernel's state of each instance
  info,        \* what is fixed when an instance is forked; root and gen are
               \* history: the first instance of its restart chain, and its
               \* position in it
  forks,       \* instances forked so far
  registry,    \* ProcessRegistry.tasks: the instance registered per name
  life,        \* the monitor_process_life task of each instance
  metrics,     \* the metrics collation task of each instance
  reviveQ,     \* channel to revive_coordinator; its head is being spawned
  metricsQ,    \* channel to metrics_coordinator; its head is being spawned
  restartQ,    \* channel of RestartRequests (inst is history)
  pc,          \* where each actor is in its handler
  job,         \* the locals of that handler
  sweep,       \* names stop_all's iter_mut has still to visit, per client
  poisoned     \* the LogManager's mutex: a task panicked that held it

kernelVars == <<proc, info, forks>>
taskVars   == <<life, metrics, reviveQ, metricsQ>>
actorVars  == <<pc, job, sweep>>
vars == <<daemon, kernelVars, registry, taskVars, restartQ, actorVars, poisoned>>

ProcState    == {"unborn", "alive", "zombie", "reaped"}
LifeState    == {"none", "queued", "watching", "reaped", "sent",
                 "failed", "aborted", "panicked"}
MetricsState == {"none", "queued", "running", "failed", "aborted", "panicked"}
StartLabel   == {"fork", "forked", "setup", "submitMetrics", "insert"}
ClientLabel  == {"idle", "stopTasks", "stopKill", "sweep"} \cup StartLabel
HandlerLabel == {"recv", "decide", "forget", "dead", "panicked"} \cup StartLabel

Info == [name : Names \cup {Nil}, pid : Pids \cup {Nil}, pol : Policy,
         root : Nat, gen : Nat]
Job  == [name : Names \cup {Nil}, pol : Policy, inst : Instances \cup {None}]
NoJob == [name |-> Nil, pol |-> NoPolicy, inst |-> None]

(* Types, a budget that never goes below zero, and the restart handler and *)
(* the clients' handlers each in their own code.                           *)
TypeOK ==
  /\ daemon \in {"up", "exited", "aborted"}
  /\ proc \in [Instances -> ProcState]
  /\ info \in [Instances -> Info]
  /\ forks \in 0..MaxForks
  /\ registry \in [Names -> Instances \cup {None}]
  /\ life \in [Instances -> [st : LifeState, handle : BOOLEAN]]
  /\ metrics \in [Instances -> [st : MetricsState, handle : BOOLEAN]]
  /\ reviveQ \in Seq(Instances)
  /\ metricsQ \in Seq(Instances)
  /\ restartQ \in Seq([name : Names, inst : Instances])
  /\ pc \in [Actors -> ClientLabel \cup HandlerLabel]
  /\ \A a \in Actors : pc[a] \in IF a = Handler THEN HandlerLabel ELSE ClientLabel
  /\ job \in [Actors -> Job]
  /\ sweep \in [Clients -> SUBSET Names]
  /\ poisoned \in BOOLEAN

Init ==
  /\ daemon = "up"
  /\ proc = [i \in Instances |-> "unborn"]
  /\ info = [i \in Instances |-> [name |-> Nil, pid |-> Nil, pol |-> NoPolicy,
                                  root |-> 0, gen |-> 0]]
  /\ forks = 0
  /\ registry = [n \in Names |-> None]
  /\ life = [i \in Instances |-> [st |-> "none", handle |-> FALSE]]
  /\ metrics = [i \in Instances |-> [st |-> "none", handle |-> FALSE]]
  /\ reviveQ = <<>>
  /\ metricsQ = <<>>
  /\ restartQ = <<>>
  /\ pc = [a \in Actors |-> IF a = Handler THEN "recv" ELSE "idle"]
  /\ job = [a \in Actors |-> NoJob]
  /\ sweep = [c \in Clients |-> {}]
  /\ poisoned = FALSE

-----------------------------------------------------------------------------
(* Operations on the kernel and on the task registry.                      *)

(* Pids a child holds: until it is reaped, its pid is not given away. *)
PidsInUse == {info[i].pid : i \in {j \in Instances : proc[j] \in {"alive", "zombie"}}}

(* kill(p, SIGKILL): takes effect on whichever child holds p now. *)
Sigkill(p) ==
  proc' = [i \in Instances |->
             IF proc[i] = "alive" /\ info[i].pid = p THEN "zombie" ELSE proc[i]]

(* JoinHandle::abort: the task ends if it is at an await point.  A monitor *)
(* that has waited for its child runs on to the send: no await remains.    *)
AwaitsLife    == {"watching"}
AwaitsMetrics == {"running"}
Cancelled(t, awaits) ==
  IF t.handle /\ t.st \in awaits THEN [t EXCEPT !.st = "aborted"] ELSE t

(* kill_tasks_by_pid: the entries of pid_index stay, aborted or not. *)
KillTasksByPid(p) ==
  /\ life' = [i \in Instances |->
                IF info[i].pid = p THEN Cancelled(life[i], AwaitsLife) ELSE life[i]]
  /\ metrics' = [i \in Instances |->
                   IF info[i].pid = p THEN Cancelled(metrics[i], AwaitsMetrics)
                                      ELSE metrics[i]]

(* Slip: only tasks still at work count as duplicates. *)
HasTaskAtWork(tasks, p) ==
  \E j \in Instances : info[j].pid = p /\ tasks[j].st \in {"queued", "watching", "running"}

(* The duplicate test of submit_process_monitoring_task and of             *)
(* submit_metrics_task: no task is ever removed from the registry, so any  *)
(* task that was ever registered for this pid counts.                      *)
HasTask(tasks, p) == \E j \in Instances : info[j].pid = p /\ tasks[j].st # "none"

(* Slip: the bound on a Capped budget is not tested. *)
RespawnsUnbounded(pol) == pol.kind # "none"

(* Capped(value) with value <= 1, and None, end a restart chain. *)
Respawns(pol) == pol.kind = "infinite" \/ (pol.kind = "capped" /\ pol.left > 1)
Spent(pol)    == IF pol.kind = "capped" THEN [pol EXCEPT !.left = @ - 1] ELSE pol

(* A panic: the release profile aborts the process, otherwise tokio catches *)
(* it and only the panicking task is gone.                                 *)
Panic == daemon' = IF PanicAborts THEN "aborted" ELSE daemon

Goto(a, l) == pc' = [pc EXCEPT ![a] = l]
Finish(a, l) == Goto(a, l) /\ job' = [job EXCEPT ![a] = NoJob]

(* Slip: an error return leaves a client's handler like the restart handler. *)
GiveUpQuits(a) == Finish(a, "dead")

(* An error return: the client's command is answered with an Error, but in *)
(* the restart handler the same return leaves the receive loop for good.   *)
GiveUp(a) == Finish(a, IF a = Handler THEN "dead" ELSE "idle")

(* A panic in an actor: its task is gone, a client's with its connection. *)
Panics(a) == Panic /\ Finish(a, IF a = Handler THEN "panicked" ELSE "idle")

(* The restart handler logs each of its errors, with lock().unwrap(), before *)
(* it does anything about it; start logs none.                             *)
LogPanics(a) == a = Handler /\ poisoned

-----------------------------------------------------------------------------
(* Starting a child: ProcessManager::start, and the same sequence in the   *)
(* restart handler.                                                        *)

(* The lookup that rejects a name in use; nothing is reserved. *)
StartCheck(c, n, pol) ==
  /\ daemon = "up" /\ pc[c] = "idle"
  /\ registry[n] = None
  /\ Goto(c, "fork")
  /\ job' = [job EXCEPT ![c] = [name |-> n, pol |-> pol, inst |-> None]]
  /\ UNCHANGED <<daemon, kernelVars, registry, taskVars, restartQ, sweep, poisoned>>

(* create_child_exec_context_from_config in the parent. *)
Fork(a, p) ==
  LET i == forks + 1
      before == job[a].inst
  IN
  /\ daemon = "up" /\ pc[a] = "fork"
  /\ forks < MaxForks
  /\ p \notin PidsInUse
  /\ forks' = i
  /\ proc' = [proc EXCEPT ![i] = "alive"]
  /\ info' = [info EXCEPT ![i] =
        [name |-> job[a].name, pid |-> p, pol |-> job[a].pol,
         root |-> IF before = None THEN i ELSE info[before].root,
         gen  |-> IF before = None THEN 1 ELSE info[before].gen + 1]]
  /\ Goto(a, "forked")
  /\ job' = [job EXCEPT ![a].inst = i]
  /\ UNCHANGED <<daemon, registry, taskVars, restartQ, sweep, poisoned>>

ForkFails(a) ==
  /\ daemon = "up" /\ pc[a] = "fork"
  /\ IOErrors \/ forks = MaxForks \/ Pids \subseteq PidsInUse
  /\ IF LogPanics(a) THEN Panics(a) ELSE GiveUp(a) /\ UNCHANGED daemon
  /\ UNCHANGED <<kernelVars, registry, taskVars, restartQ, sweep, poisoned>>

(* The parent's arm: the read ends of the pipes become ManagedStreams. *)
Streams(a) ==
  /\ daemon = "up" /\ pc[a] = "forked"
  /\ Goto(a, "setup")
  /\ UNCHANGED <<daemon, kernelVars, registry, taskVars, restartQ, job, sweep, poisoned>>

(* One does not: fcntl fails under `?`, or AsyncFd::new under expect().     *)
(* The caller never learns the pid, and the child runs on.                 *)
StreamsFail(a) ==
  /\ daemon = "up" /\ pc[a] = "forked"
  /\ IOErrors
  /\ \/ Panics(a)
     \/ ~LogPanics(a) /\ GiveUp(a) /\ UNCHANGED daemon
  /\ UNCHANGED <<kernelVars, registry, taskVars, restartQ, sweep, poisoned>>

(* Slip: the child of a failed start is left running. *)
SetupFailsNoKill(a) ==
  /\ daemon = "up" /\ pc[a] = "setup"
  /\ IOErrors
  /\ GiveUp(a)
  /\ UNCHANGED <<daemon, kernelVars, registry, taskVars, restartQ, sweep, poisoned>>

(* LinuxRuntimeMetrics::new or ProcessLogger::new fails.  Nothing is shared *)
(* from the fork to the first submit but the child itself: the 1 ms sleep, *)
(* these calls and send_to_runtime (which drops submit_logging_task's      *)
(* result) are the rest of the "setup" label.                              *)
SetupFails(a) ==
  /\ daemon = "up" /\ pc[a] = "setup"
  /\ IOErrors
  /\ IF LogPanics(a)
     THEN Panics(a) /\ UNCHANGED proc
     ELSE Sigkill(info[job[a].inst].pid) /\ GiveUp(a) /\ UNCHANGED daemon
  /\ UNCHANGED <<info, forks, registry, taskVars, restartQ, sweep, poisoned>>

(* Slip: the child of a refused start is left running. *)
RefuseNoKill(a) ==
  /\ GiveUp(a)
  /\ UNCHANGED <<daemon, kernelVars, registry, taskVars, restartQ, sweep, poisoned>>

(* A refused task: the child is killed and its pid's tasks are aborted.    *)
(* One step: the child is neither watched nor listed, so its pid stays     *)
(* taken and no other actor's step touches it between the two calls.       *)
Refuse(a) ==
  LET p == info[job[a].inst].pid IN
  /\ IF LogPanics(a)
     THEN Panics(a) /\ UNCHANGED <<proc, life, metrics>>
     ELSE Sigkill(p) /\ KillTasksByPid(p) /\ GiveUp(a) /\ UNCHANGED daemon
  /\ UNCHANGED <<info, forks, registry, reviveQ, metricsQ, restartQ, sweep, poisoned>>

(* submit_process_monitoring_task *)
SubmitLife(a) ==
  LET i == job[a].inst IN
  /\ daemon = "up" /\ pc[a] = "setup"
  /\ IF HasTask(life, info[i].pid)
     THEN Refuse(a)
     ELSE /\ life' = [life EXCEPT ![i].st = "queued"]
          /\ reviveQ' = Append(reviveQ, i)
          /\ Goto(a, "submitMetrics")
          /\ UNCHANGED <<daemon, kernelVars, registry, metrics, metricsQ,
                         restartQ, job, sweep, poisoned>>

(* submit_metrics_task *)
SubmitMetrics(a) ==
  LET i == job[a].inst IN
  /\ daemon = "up" /\ pc[a] = "submitMetrics"
  /\ IF HasTask(metrics, info[i].pid)
     THEN Refuse(a)
     ELSE /\ metrics' = [metrics EXCEPT ![i].st = "queued"]
          /\ metricsQ' = Append(metricsQ, i)
          /\ Goto(a, "insert")
          /\ UNCHANGED <<daemon, kernelVars, registry, life, reviveQ,
                         restartQ, job, sweep, poisoned>>

(* registry.tasks.insert replaces whatever is registered under the name. *)
Insert(a) ==
  /\ daemon = "up" /\ pc[a] = "insert"
  /\ registry' = [registry EXCEPT ![job[a].name] = job[a].inst]
  /\ Finish(a, IF a = Handler THEN "recv" ELSE "idle")
  /\ UNCHANGED <<daemon, kernelVars, taskVars, restartQ, sweep, poisoned>>

StartStep(a) ==
  \/ \E p \in Pids : Fork(a, p)
  \/ ForkFails(a)
  \/ Streams(a)
  \/ StreamsFail(a)
  \/ SetupFails(a)
  \/ SubmitLife(a)
  \/ SubmitMetrics(a)
  \/ Insert(a)

-----------------------------------------------------------------------------
(* ProcessManager::stop.                                                   *)

(* Slip: the entry is looked up and stays in the map. *)
StopRemoveGets(c, n) ==
  /\ daemon = "up" /\ pc[c] = "idle"
  /\ registry[n] # None
  /\ job' = [job EXCEPT ![c] =
                [name |-> n, pol |-> info[registry[n]].pol, inst |-> registry[n]]]
  /\ Goto(c, "stopTasks")
  /\ UNCHANGED <<daemon, kernelVars, registry, taskVars, restartQ, sweep, poisoned>>

(* registry.tasks.remove takes the entry: from here the client owns it. *)
StopRemove(c, n) ==
  /\ daemon = "up" /\ pc[c] = "idle"
  /\ registry[n] # None
  /\ registry' = [registry EXCEPT ![n] = None]
  /\ job' = [job EXCEPT ![c] =
                [name |-> n, pol |-> info[registry[n]].pol, inst |-> registry[n]]]
  /\ Goto(c, "stopTasks")
  /\ UNCHANGED <<daemon, kernelVars, taskVars, restartQ, sweep, poisoned>>

(* A log line and kill_tasks_by_pid: with a poisoned log the handler ends   *)
(* between the remove and the kill.                                        *)
StopTasks(c) ==
  /\ daemon = "up" /\ pc[c] = "stopTasks"
  /\ IF poisoned
     THEN Panics(c) /\ UNCHANGED <<life, metrics>>
     ELSE /\ KillTasksByPid(info[job[c].inst].pid)
          /\ Goto(c, "stopKill")
          /\ UNCHANGED <<daemon, job>>
  /\ UNCHANGED <<kernelVars, registry, reviveQ, metricsQ, restartQ, sweep, poisoned>>

(* kill() may find nobody (ESRCH): that only changes the reply, and so does *)
(* a panic at the last log line.                                           *)
StopKill(c) ==
  /\ daemon = "up" /\ pc[c] = "stopKill"
  /\ Sigkill(info[job[c].inst].pid)
  /\ Finish(c, "idle")
  /\ UNCHANGED <<daemon, info, forks, registry, taskVars, restartQ, sweep, poisoned>>

-----------------------------------------------------------------------------
(* ProcessManager::stop_all and the end of the daemon, as the Shutdown and *)
(* the forced Init command run them.                                       *)

(* kill_runtime aborts every handle it finds and forgets them. *)
ShutdownBegin(c) ==
  /\ daemon = "up" /\ pc[c] = "idle"
  /\ life' = [i \in Instances |-> [Cancelled(life[i], AwaitsLife) EXCEPT !.handle = FALSE]]
  /\ metrics' = [i \in Instances |->
                   [Cancelled(metrics[i], AwaitsMetrics) EXCEPT !.handle = FALSE]]
  /\ sweep' = [sweep EXCEPT ![c] = Names]
  /\ Goto(c, "sweep")
  /\ UNCHANGED <<daemon, kernelVars, registry, reviveQ, metricsQ, restartQ, job, poisoned>>

(* iter_mut kills what is registered under each name when it gets there; *)
(* the entries stay.                                                     *)
SweepKill(c, n) ==
  /\ daemon = "up" /\ pc[c] = "sweep" /\ n \in sweep[c]
  /\ IF registry[n] = None THEN UNCHANGED proc ELSE Sigkill(info[registry[n]].pid)
  /\ sweep' = [sweep EXCEPT ![c] = @ \ {n}]
  /\ UNCHANGED <<daemon, info, forks, registry, taskVars, restartQ, pc, job, poisoned>>

(* The shutdown channel reaches daemon_listener, which exits the process. *)
ShutdownExit(c) ==
  /\ daemon = "up" /\ pc[c] = "sweep" /\ sweep[c] = {}
  /\ daemon' = "exited"
  /\ Finish(c, "idle")
  /\ UNCHANGED <<kernelVars, registry, taskVars, restartQ, sweep, poisoned>>

-----------------------------------------------------------------------------
(* start_restart_handler.                                                  *)

(* Slip: the entry is looked up and stays in the map. *)
HandlerRecvGets ==
  LET n == Head(restartQ).name
      i == registry[n]
  IN
  /\ daemon = "up" /\ pc[Handler] = "recv" /\ restartQ # <<>>
  /\ restartQ' = Tail(restartQ)
  /\ IF i = None
     THEN /\ Panic
          /\ Goto(Handler, "panicked")
          /\ UNCHANGED <<registry, job>>
     ELSE /\ UNCHANGED registry
          /\ job' = [job EXCEPT ![Handler] =
                        [name |-> n, pol |-> info[i].pol, inst |-> i]]
          /\ Goto(Handler, "decide")
          /\ UNCHANGED daemon
  /\ UNCHANGED <<kernelVars, taskVars, sweep, poisoned>>

(* rx.recv and registry.tasks.remove(&name).unwrap(). *)
HandlerRecv ==
  LET n == Head(restartQ).name
      i == registry[n]
  IN
  /\ daemon = "up" /\ pc[Handler] = "recv" /\ restartQ # <<>>
  /\ restartQ' = Tail(restartQ)
  /\ IF i = None
     THEN /\ Panic
          /\ Goto(Handler, "panicked")
          /\ UNCHANGED <<registry, job>>
     ELSE /\ registry' = [registry EXCEPT ![n] = None]
          /\ job' = [job EXCEPT ![Handler] =
                        [name |-> n, pol |-> info[i].pol, inst |-> i]]
          /\ Goto(Handler, "decide")
          /\ UNCHANGED daemon
  /\ UNCHANGED <<kernelVars, taskVars, sweep, poisoned>>

(* kill_tasks_by_pid and respawn, which spends one of a Capped budget. *)
HandlerDecide ==
  LET pol == job[Handler].pol IN
  /\ daemon = "up" /\ pc[Handler] = "decide"
  /\ KillTasksByPid(info[job[Handler].inst].pid)
  /\ IF Respawns(pol)
     THEN /\ job' = [job EXCEPT ![Handler].pol = Spent(pol)]
          /\ Goto(Handler, "fork")
     ELSE Goto(Handler, "forget") /\ UNCHANGED job
  /\ UNCHANGED <<daemon, kernelVars, registry, reviveQ, metricsQ, restartQ, sweep, poisoned>>

(* The second remove of the name, after the log line. *)
HandlerForget ==
  /\ daemon = "up" /\ pc[Handler] = "forget"
  /\ IF poisoned
     THEN Panics(Handler) /\ UNCHANGED registry
     ELSE /\ registry' = [registry EXCEPT ![job[Handler].name] = None]
          /\ Finish(Handler, "recv")
          /\ UNCHANGED daemon
  /\ UNCHANGED <<kernelVars, taskVars, restartQ, sweep, poisoned>>

-----------------------------------------------------------------------------
(* The coordinators and the tasks they spawn.                              *)

LifeSpawn ==
  /\ daemon = "up" /\ reviveQ # <<>> /\ life[Head(reviveQ)].st = "queued"
  /\ life' = [life EXCEPT ![Head(reviveQ)].st = "watching"]
  /\ UNCHANGED <<daemon, kernelVars, registry, metrics, reviveQ, metricsQ, restartQ, actorVars, poisoned>>

(* add_handle comes after the spawn: until then nothing can abort the task. *)
LifeHandle ==
  /\ daemon = "up" /\ reviveQ # <<>> /\ life[Head(reviveQ)].st # "queued"
  /\ life' = [life EXCEPT ![Head(reviveQ)].handle = TRUE]
  /\ reviveQ' = Tail(reviveQ)
  /\ UNCHANGED <<daemon, kernelVars, registry, metrics, metricsQ, restartQ, actorVars, poisoned>>

MetricsSpawn ==
  /\ daemon = "up" /\ metricsQ # <<>> /\ metrics[Head(metricsQ)].st = "queued"
  /\ metrics' = [metrics EXCEPT ![Head(metricsQ)].st = "running"]
  /\ UNCHANGED <<daemon, kernelVars, registry, life, reviveQ, metricsQ, restartQ, actorVars, poisoned>>

MetricsHandle ==
  /\ daemon = "up" /\ metricsQ # <<>> /\ metrics[Head(metricsQ)].st # "queued"
  /\ metrics' = [metrics EXCEPT ![Head(metricsQ)].handle = TRUE]
  /\ metricsQ' = Tail(metricsQ)
  /\ UNCHANGED <<daemon, kernelVars, registry, life, reviveQ, restartQ, actorVars, poisoned>>

(* monitor_process_life ends with an error (pidfd_open, AsyncFd::new or     *)
(* waitid): nobody watches this child any more.  That the error cannot be  *)
(* logged when the log is poisoned makes no difference here.               *)
MonitorFails(i) ==
  /\ daemon = "up" /\ life[i].st = "watching" /\ IOErrors
  /\ life' = [life EXCEPT ![i].st = "failed"]
  /\ UNCHANGED <<daemon, kernelVars, registry, metrics, reviveQ, metricsQ, restartQ, actorVars, poisoned>>

(* Slip: a wait status that is not a normal exit goes round the loop again, *)
(* when there is no child left to wait for.                                *)
MonitorReapLoops(i) ==
  /\ daemon = "up" /\ life[i].st = "watching" /\ proc[i] = "zombie"
  /\ proc' = [proc EXCEPT ![i] = "reaped"]
  /\ UNCHANGED <<daemon, info, forks, registry, taskVars, restartQ, actorVars, poisoned>>

(* The pidfd is readable and waitid reaps the child: its pid is free. *)
MonitorReap(i) ==
  /\ daemon = "up" /\ life[i].st = "watching" /\ proc[i] = "zombie"
  /\ proc' = [proc EXCEPT ![i] = "reaped"]
  /\ life' = [life EXCEPT ![i].st = "reaped"]
  /\ UNCHANGED <<daemon, info, forks, registry, metrics, reviveQ, metricsQ, restartQ, actorVars, poisoned>>

(* The log line and tx.send(RestartRequest { name }).unwrap(): a panic when *)
(* the log is poisoned, or the restart handler has dropped the receiver.    *)
MonitorSend(i) ==
  /\ daemon = "up" /\ life[i].st = "reaped"
  /\ IF poisoned \/ pc[Handler] \in {"dead", "panicked"}
     THEN /\ Panic
          /\ life' = [life EXCEPT ![i].st = "panicked"]
          /\ UNCHANGED restartQ
     ELSE /\ restartQ' = Append(restartQ, [name |-> info[i].name, inst |-> i])
          /\ life' = [life EXCEPT ![i].st = "sent"]
          /\ UNCHANGED daemon
  /\ UNCHANGED <<kernelVars, registry, metrics, reviveQ, metricsQ, actorVars, poisoned>>

(* Slip: a metrics task that finds no entry waits for the next round. *)
MetricsTickWaits(i) ==
  LET j == registry[info[i].name] IN
  /\ daemon = "up" /\ metrics[i].st = "running"
  /\ j # None /\ proc[j] = "reaped"
  /\ metrics' = [metrics EXCEPT ![i].st = "panicked"]
  /\ Panic
  /\ UNCHANGED <<kernelVars, registry, life, reviveQ, metricsQ, restartQ, actorVars, poisoned>>

(* One round of the metrics task that changes something: it looks its      *)
(* process up by name and, under that entry's lock, refreshes whatever is   *)
(* there.  The /proc files of a reaped process read as ESRCH, which        *)
(* refresh unwraps.  A task that finds no entry ends, by a break or, when  *)
(* the log is poisoned, by a panic.                                        *)
MetricsTick(i) ==
  LET j == registry[info[i].name] IN
  /\ daemon = "up" /\ metrics[i].st = "running"
  /\ \/ /\ j = None
        /\ metrics' = [metrics EXCEPT ![i].st = "failed"]
        /\ UNCHANGED daemon
     \/ /\ j # None /\ proc[j] = "reaped"
        /\ metrics' = [metrics EXCEPT ![i].st = "panicked"]
        /\ Panic
  /\ UNCHANGED <<kernelVars, registry, life, reviveQ, metricsQ, restartQ, actorVars, poisoned>>

(* A log reader fails to truncate its file and panics with the log in its  *)
(* hands (module LogStream): the mutex is poisoned for good.  In a build   *)
(* that aborts, the daemon is gone and nothing here can follow.  A reader  *)
(* may outlive its process.                                                *)
LogPoisoned ==
  /\ daemon = "up" /\ ~poisoned /\ IOErrors /\ ~PanicAborts
  /\ \E i \in Instances : life[i].st # "none"
  /\ poisoned' = TRUE
  /\ UNCHANGED <<daemon, kernelVars, registry, taskVars, restartQ, actorVars>>

(* A child ends by itself; what children do after the daemon is gone is not *)
(* followed.                                                               *)
ChildExit(i) ==
  /\ daemon = "up"
  /\ proc[i] = "alive"
  /\ proc' = [proc EXCEPT ![i] = "zombie"]
  /\ UNCHANGED <<daemon, info, forks, registry, taskVars, restartQ, actorVars, poisoned>>

-----------------------------------------------------------------------------
(* Commands a client may send whenever its last one is answered. *)
Command(c) ==
  \/ "start" \in Commands /\ \E n \in Names, pol \in Policies : StartCheck(c, n, pol)
  \/ "stop" \in Commands /\ \E n \in Names : StopRemove(c, n)
  \/ "shutdown" \in Commands /\ ShutdownBegin(c)

(* The rest of a command's handler. *)
ClientStep(c) ==
  \/ StartStep(c)
  \/ StopTasks(c)
  \/ StopKill(c)
  \/ \E n \in Names : SweepKill(c, n)
  \/ ShutdownExit(c)

HandlerStep ==
  \/ HandlerRecv
  \/ HandlerDecide
  \/ HandlerForget
  \/ StartStep(Handler)

Coordinators == LifeSpawn \/ LifeHandle \/ MetricsSpawn \/ MetricsHandle

Monitor(i) == MonitorFails(i) \/ MonitorReap(i) \/ MonitorSend(i)

Next ==
  \/ \E c \in Clients : Command(c) \/ ClientStep(c)
  \/ HandlerStep
  \/ Coordinators
  \/ \E i \in Instances : Monitor(i) \/ MetricsTick(i) \/ ChildExit(i)
  \/ LogPoisoned

Spec == Init /\ [][Next]_vars

(* The tokio runtime polls every task that is ready, a metrics task among  *)
(* them once its second is over.  Nothing obliges a client to send a       *)
(* command, a child to exit or a system call to fail.                      *)
(* These tasks take two mutexes in different orders.  That nobody waits for *)
(* one for ever is an assumption: module Locks shows in which state the    *)
(* code breaks it (Crossed), and that there is no other.                   *)
Fairness ==
  /\ \A c \in Clients : WF_vars(ClientStep(c))
  /\ WF_vars(HandlerStep)
  /\ WF_vars(LifeSpawn \/ LifeHandle)
  /\ WF_vars(MetricsSpawn \/ MetricsHandle)
  /\ \A i \in Instances : WF_vars(MonitorReap(i) \/ MonitorSend(i)) /\ WF_vars(MetricsTick(i))

FairSpec == Spec /\ Fairness
=============================================================================
