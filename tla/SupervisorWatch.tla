-------------------------- MODULE SupervisorWatch ---------------------------
(***************************************************************************)
(* Proofs about pids and monitors, for every value of the constants of     *)
(* Supervisor: kill and kill_tasks_by_pid are addressed by pid, the kernel *)
(* recycles pids, and no entry of the task registry is ever removed.       *)
(***************************************************************************)
EXTENDS SupervisorOwners

Done == {"reaped", "sent", "panicked"}   \* the monitor has reaped its child

(* Whose pid is whose.  Live children have distinct pids (the kernel), and *)
(* so have monitored ones, dead or alive (the duplicate test); a child is  *)
(* reaped by its own monitor only.                                         *)
PidInv ==
  /\ \A i \in Born :
       /\ proc[i] # "unborn"
       /\ proc[i] = "reaped" => life[i].st \in Done
  /\ \A i \in Instances : metrics[i].st # "none" => life[i].st # "none"
  /\ \A i, j \in Born :
       /\ i # j /\ proc[i] # "reaped" /\ proc[j] # "reaped" => info[i].pid # info[j].pid
       /\ i # j /\ life[i].st # "none" /\ life[j].st # "none" => info[i].pid # info[j].pid

Watched(i) == life[i].st # "none" /\ (ShuttingDown \/ life[i].st # "aborted")

(* What an actor's label says of the tasks of the instance it holds. *)
HolderOK(a) ==
  LET i == job[a].inst IN
  /\ pc[a] \in {"forked", "setup"} => life[i].st = "none"
  /\ pc[a] \in {"forked", "setup", "submitMetrics"} => metrics[i].st = "none"
  /\ pc[a] \in {"submitMetrics", "insert"} => Watched(i)
  /\ pc[a] \in {"stopTasks", "stopKill", "decide", "forget"} => life[i].st # "none"

WatchInv ==
  /\ \A n \in Names : registry[n] # None => Watched(registry[n])
  /\ \A a \in Actors : HolderOK(a)

-----------------------------------------------------------------------------
(* What a signal and an abort addressed to a process's pid reach.          *)

(* A task that is not awaiting anything is not aborted. *)
LEMMA CancelledState ==
  /\ \A t \in LifeTask :
       /\ t.st # "watching" => Cancelled(t, AwaitsLife) = t
       /\ Cancelled(t, AwaitsLife).st \in {t.st, "aborted"}
  /\ \A t \in MetricsTask :
       /\ t.st # "running" => Cancelled(t, AwaitsMetrics) = t
       /\ Cancelled(t, AwaitsMetrics).st \in {t.st, "aborted"}
  BY DEF LifeTask, MetricsTask, Cancelled, AwaitsLife, AwaitsMetrics

(* The instance an actor kills is monitored, or at least not reaped yet: *)
(* either way nobody else's monitor or running child has its pid.         *)
LEMMA KillHitsTarget ==
  ASSUME TypeInv, PidInv, NEW i \in Born, life[i].st # "none" \/ proc[i] # "reaped",
         KillTasksByPid(info[i].pid)
  PROVE  /\ \A j \in Instances : /\ life'[j].st = "none" <=> life[j].st = "none"
                                 /\ metrics'[j].st = "none" <=> metrics[j].st = "none"
                                 /\ life[j].st \in Done => life'[j].st = life[j].st
                                 /\ life'[j].st \in {life[j].st, "aborted"}
         /\ \A j \in Instances \ {i} :
              /\ life'[j] = life[j]
              /\ proc[j] # "reaped" => metrics'[j] = metrics[j]
<1>1. ASSUME NEW j \in Instances
      PROVE  /\ life[j] \in LifeTask /\ metrics[j] \in MetricsTask
             /\ life'[j] = IF info[j].pid = info[i].pid
                             THEN Cancelled(life[j], AwaitsLife) ELSE life[j]
             /\ metrics'[j] = IF info[j].pid = info[i].pid
                                THEN Cancelled(metrics[j], AwaitsMetrics) ELSE metrics[j]
  BY DEF TypeInv, TypeOK, LifeTask, MetricsTask, KillTasksByPid
<1>2. ASSUME NEW j \in Instances
      PROVE  /\ life'[j].st = "none" <=> life[j].st = "none"
             /\ metrics'[j].st = "none" <=> metrics[j].st = "none"
             /\ life[j].st \in Done => life'[j].st = life[j].st
             /\ life'[j].st \in {life[j].st, "aborted"}
  BY <1>1, CancelledState DEF Done
<1>3. ASSUME NEW j \in Instances \ {i}
      PROVE  /\ life'[j] = life[j]
             /\ proc[j] # "reaped" => metrics'[j] = metrics[j]
  <2>1. CASE life[j].st = "none"
    <3>1. metrics[j].st = "none"
      BY <2>1 DEF PidInv
    <3> QED BY <1>1, <2>1, <3>1, CancelledState
  <2>2. CASE life[j].st # "none"
    <3>1. j \in Born
      BY <2>2 DEF TypeInv, BornOK, Born
    <3>2. CASE proc[j] = "reaped"
      BY <1>1, <3>1, <3>2, CancelledState DEF PidInv, Done
    <3>3. CASE proc[j] # "reaped"
      BY <1>1, <2>2, <3>1, <3>3 DEF PidInv
    <3> QED BY <3>2, <3>3
  <2> QED BY <2>1, <2>2
<1> QED BY <1>2, <1>3

(* The same for SIGKILL. *)
LEMMA SigkillHitsTarget ==
  ASSUME TypeInv, PidInv, NEW i \in Born, life[i].st # "none" \/ proc[i] # "reaped",
         Sigkill(info[i].pid)
  PROVE  \A j \in Born \ {i} :
           life[j].st # "none" /\ proc[j] # "reaped" => proc'[j] = proc[j]
<1>1. \A j \in Born : j \in Instances
  BY BornType DEF Born
<1> QED BY <1>1 DEF PidInv, Sigkill

(* A killed child is not reaped by that, nor is one born. *)
LEMMA SigkillState ==
  ASSUME TypeInv, NEW p, Sigkill(p)
  PROVE  \A i \in Born : proc'[i] = proc[i] \/ (proc[i] = "alive" /\ proc'[i] = "zombie")
<1> SUFFICES ASSUME NEW i \in Born
             PROVE  proc'[i] = proc[i] \/ (proc[i] = "alive" /\ proc'[i] = "zombie")
  OBVIOUS
<1>1. i \in Instances
  BY BornType DEF Born
<1>2. proc'[i] = IF proc[i] = "alive" /\ info[i].pid = p THEN "zombie" ELSE proc[i]
  BY <1>1 DEF Sigkill
<1> QED BY <1>2

-----------------------------------------------------------------------------
(* Which steps leave PidInv alone. *)

(* No fork, and nobody gets a monitor. *)
LEMMA PidFrame ==
  ASSUME TypeInv, PidInv, forks' = forks, info' = info,
         \A i \in Born : /\ proc'[i] # "unborn"
                         /\ proc[i] = "reaped" => proc'[i] = "reaped"
                         /\ proc'[i] = "reaped" => life'[i].st \in Done,
         \A i \in Instances : /\ life'[i].st = "none" <=> life[i].st = "none"
                              /\ metrics'[i].st # "none" => life[i].st # "none"
  PROVE  PidInv'
<1>1. \A i \in Born : i \in Instances
  BY BornType DEF Born
<1>2. Born' = Born
  BY DEF Born
<1> QED BY <1>1, <1>2 DEF PidInv

(* No task changes, and no child is reaped. *)
LEMMA PidKernel ==
  ASSUME TypeInv, PidInv, forks' = forks, info' = info, life' = life, metrics' = metrics,
         \A i \in Born : proc'[i] = proc[i] \/ (proc[i] = "alive" /\ proc'[i] = "zombie")
  PROVE  PidInv'
<1>1. \A i \in Born : i \in Instances
  BY BornType DEF Born
<1> QED BY <1>1, PidFrame DEF PidInv

(* An actor lets go of what it held. *)
LEMMA PidLetsGo ==
  ASSUME TypeInv, PidInv, NEW a, LetsGo(a)
  PROVE  PidInv'
  BY PidKernel DEF LetsGo, kernelVars, taskVars

(* A refused child is killed, and its pid's tasks are aborted. *)
LEMMA PidRefuse ==
  ASSUME TypeInv, PidInv, NEW a \in Actors, Refuse(a), job[a].inst \in Born,
         life[job[a].inst].st # "none" \/ proc[job[a].inst] # "reaped"
  PROVE  PidInv'
<1> DEFINE k == job[a].inst
<1>1. CASE LogPanics(a)
  BY <1>1, PidLetsGo, GoingLetsGo DEF Refuse, kernelVars, taskVars
<1>2. CASE ~LogPanics(a)
  <2>1. Sigkill(info[k].pid) /\ KillTasksByPid(info[k].pid) /\ forks' = forks /\ info' = info
    BY <1>2 DEF Refuse
  <2>2. \A i \in Instances : /\ life'[i].st = "none" <=> life[i].st = "none"
                             /\ metrics'[i].st = "none" <=> metrics[i].st = "none"
                             /\ life[i].st \in Done => life'[i].st = life[i].st
    BY <2>1, KillHitsTarget
  <2>3. \A i \in Born : proc'[i] = proc[i] \/ (proc[i] = "alive" /\ proc'[i] = "zombie")
    BY <2>1, SigkillState
  <2>4. \A i \in Born : i \in Instances
    BY BornType DEF Born
  <2> HIDE DEF k
  <2> QED BY <2>1, <2>2, <2>3, <2>4, PidFrame DEF PidInv
<1> QED BY <1>1, <1>2

(* No child changes; tasks are aborted, or forgotten, or move on. *)
LEMMA PidTasks ==
  ASSUME TypeInv, PidInv, forks' = forks, info' = info, proc' = proc,
         \A i \in Instances : /\ life'[i].st = "none" <=> life[i].st = "none"
                              /\ life[i].st \in Done => life'[i].st \in Done
                              /\ metrics'[i].st = "none" <=> metrics[i].st = "none"
  PROVE  PidInv'
<1>1. \A i \in Born : i \in Instances
  BY BornType DEF Born
<1> QED BY <1>1, PidFrame DEF PidInv

-----------------------------------------------------------------------------
(* Every step keeps PidInv. *)

(* The kernel gives away no pid in use, and a new child has no task yet. *)
LEMMA PidFork ==
  ASSUME TypeInv, PidInv, NEW a \in Actors, NEW p \in Pids, Fork(a, p)
  PROVE  PidInv'
<1>0. PICK k \in Nat : k = forks + 1
  BY DEF TypeInv, TypeOK
<1>1. k \in Instances /\ k = forks + 1 /\ forks \in Nat /\ forks' = k
        /\ life' = life /\ metrics' = metrics
  BY <1>0, SupervisorAssumption DEF Fork, TypeInv, TypeOK, Instances, taskVars
<1>2. \A i \in Born' : i \in Instances /\ (i \in Born \/ i = k)
  BY <1>1, BornType DEF Born
<1>3. proc'[k] = "alive" /\ info'[k].pid = p /\ life[k].st = "none"
  BY <1>1 DEF Fork, TypeInv, TypeOK, BornOK
<1>4. \A i \in Born : proc'[i] = proc[i] /\ info'[i] = info[i] /\ i # k /\ i \in Instances
  BY <1>1, BornType DEF Fork, TypeInv, TypeOK, Born
<1>5. \A i \in Born : proc[i] # "reaped" => info[i].pid # p
  <2>1. \A i \in Born : proc[i] \in ProcState
    BY <1>4 DEF TypeInv, TypeOK
  <2> QED BY <1>4, <2>1 DEF Fork, PidsInUse, PidInv, ProcState
<1> QED BY <1>1, <1>2, <1>3, <1>4, <1>5 DEF PidInv

(* The first task registered for a pid passes the duplicate test. *)
LEMMA PidSubmitLife ==
  ASSUME TypeInv, PidInv, WatchInv, NEW a \in Actors, SubmitLife(a)
  PROVE  PidInv'
<1> DEFINE k == job[a].inst
<1>1. k \in Born /\ k \in Instances /\ pc[a] = "setup" /\ life[k].st = "none"
  BY BornType DEF SubmitLife, TypeInv, JobOK, Born, WatchInv, HolderOK
<1>2. proc[k] # "reaped"
  BY <1>1 DEF PidInv, Done
<1>3. CASE Refuse(a)
  BY <1>1, <1>2, <1>3, PidRefuse
<1>4. CASE ~Refuse(a)
  <2>1. /\ ~HasTask(life, info[k].pid)
        /\ life' = [life EXCEPT ![k].st = "queued"]
        /\ forks' = forks /\ info' = info /\ proc' = proc /\ metrics' = metrics
    BY <1>4 DEF SubmitLife, kernelVars
  <2>2. \A i \in Instances : life[i].st # "none" => info[i].pid # info[k].pid
    BY <2>1 DEF HasTask
  <2>3. life'[k].st = "queued" /\ \A i \in Instances \ {k} : life'[i] = life[i]
    BY <1>1, <2>1 DEF TypeInv, TypeOK
  <2>4. \A i \in Born : i \in Instances
    BY BornType DEF Born
  <2>5. Born' = Born
    BY <2>1 DEF Born
  <2> HIDE DEF k
  <2> QED BY <1>1, <1>2, <2>1, <2>2, <2>3, <2>4, <2>5 DEF PidInv, Done
<1> QED BY <1>3, <1>4

(* A metrics task is submitted for a process that has its monitor. *)
LEMMA PidSubmitMetrics ==
  ASSUME TypeInv, PidInv, WatchInv, NEW a \in Actors, SubmitMetrics(a)
  PROVE  PidInv'
<1> DEFINE k == job[a].inst
<1>1. k \in Born /\ k \in Instances /\ life[k].st # "none"
  BY BornType DEF SubmitMetrics, TypeInv, JobOK, Born, WatchInv, HolderOK, Watched
<1>2. CASE Refuse(a)
  BY <1>1, <1>2, PidRefuse
<1>3. CASE ~Refuse(a)
  <2>1. /\ metrics' = [metrics EXCEPT ![k].st = "queued"]
        /\ forks' = forks /\ info' = info /\ proc' = proc /\ life' = life
    BY <1>3 DEF SubmitMetrics, kernelVars
  <2>2. \A i \in Instances \ {k} : metrics'[i] = metrics[i]
    BY <2>1 DEF TypeInv, TypeOK
  <2>3. \A i \in Born : i \in Instances
    BY BornType DEF Born
  <2> HIDE DEF k
  <2> QED BY <1>1, <2>1, <2>2, <2>3, PidFrame DEF PidInv
<1> QED BY <1>2, <1>3

(* A stop or a restart aborts the tasks of the process it holds. *)
LEMMA PidKillTasks ==
  ASSUME TypeInv, PidInv, NEW i \in Born, life[i].st # "none",
         KillTasksByPid(info[i].pid), UNCHANGED kernelVars
  PROVE  PidInv'
<1>1. \A j \in Instances : /\ life'[j].st = "none" <=> life[j].st = "none"
                           /\ metrics'[j].st = "none" <=> metrics[j].st = "none"
                           /\ life[j].st \in Done => life'[j].st = life[j].st
  BY KillHitsTarget
<1> QED BY <1>1, PidTasks DEF kernelVars

(* kill_runtime aborts tasks and forgets handles; no task disappears. *)
LEMMA PidShutdown ==
  ASSUME TypeInv, PidInv, NEW c \in Clients, ShutdownBegin(c)
  PROVE  PidInv'
<1>1. /\ \A t \in LifeTask :
           /\ [Cancelled(t, AwaitsLife) EXCEPT !.handle = FALSE].st = "none" <=> t.st = "none"
           /\ t.st \in Done => [Cancelled(t, AwaitsLife) EXCEPT !.handle = FALSE].st = t.st
      /\ \A t \in MetricsTask :
           [Cancelled(t, AwaitsMetrics) EXCEPT !.handle = FALSE].st = "none" <=> t.st = "none"
  BY DEF LifeTask, MetricsTask, Cancelled, AwaitsLife, AwaitsMetrics, Done
<1>2. \A i \in Instances : life[i] \in LifeTask /\ metrics[i] \in MetricsTask
  BY DEF TypeInv, TypeOK, LifeTask, MetricsTask
<1>3. \A i \in Instances : /\ life'[i].st = "none" <=> life[i].st = "none"
                           /\ life[i].st \in Done => life'[i].st \in Done
                           /\ metrics'[i].st = "none" <=> metrics[i].st = "none"
  BY <1>1, <1>2 DEF ShutdownBegin
<1> QED BY <1>3, PidTasks DEF ShutdownBegin, kernelVars

(* What the coordinators and the monitors do to the tasks: none appears,   *)
(* none that has reaped its child goes back, and none is aborted.          *)
TasksProgress ==
  \A i \in Instances : /\ life'[i].st = "none" <=> life[i].st = "none"
                       /\ life[i].st \in Done => life'[i].st \in Done
                       /\ metrics'[i].st = "none" <=> metrics[i].st = "none"
                       /\ life'[i].st # "aborted" \/ life[i].st = "aborted"

(* The coordinators only bring queued tasks to life. *)
LEMMA CoordinatorsProgress ==
  ASSUME TypeInv, Coordinators
  PROVE  TasksProgress
<1>1. CASE LifeSpawn
  <2>1. PICK k \in Instances : /\ life[k].st = "queued"
                              /\ life' = [life EXCEPT ![k].st = "watching"]
    BY <1>1, HeadTailProperties DEF LifeSpawn, TypeInv, TypeOK
  <2>2. \A i \in Instances : life'[i].st = IF i = k THEN "watching" ELSE life[i].st
    <3>1. TypeOK /\ life' = [life EXCEPT ![k].st = "watching"]
      BY <2>1 DEF TypeInv
    <3> QED BY <3>1, LifeMoves
  <2> QED BY <1>1, <2>1, <2>2 DEF LifeSpawn, TasksProgress, Done
<1>2. CASE LifeHandle
  <2>1. \A i \in Instances : life'[i].st = life[i].st
    BY <1>2, HandlesMove DEF LifeHandle, TypeInv
  <2> QED BY <1>2, <2>1 DEF LifeHandle, TasksProgress
<1>3. CASE MetricsSpawn
  <2>1. PICK k \in Instances : /\ metrics[k].st = "queued"
                              /\ metrics' = [metrics EXCEPT ![k].st = "running"]
    BY <1>3, HeadTailProperties DEF MetricsSpawn, TypeInv, TypeOK
  <2>2. \A i \in Instances : metrics'[i].st = IF i = k THEN "running" ELSE metrics[i].st
    <3>1. TypeOK /\ metrics' = [metrics EXCEPT ![k].st = "running"]
      BY <2>1 DEF TypeInv
    <3> QED BY <3>1, MetricsMoves
  <2> QED BY <1>3, <2>1, <2>2 DEF MetricsSpawn, TasksProgress
<1>4. CASE MetricsHandle
  <2>1. \A i \in Instances : metrics'[i].st = metrics[i].st
    BY <1>4, HandlesMove DEF MetricsHandle, TypeInv
  <2> QED BY <1>4, <2>1 DEF MetricsHandle, TasksProgress
<1> QED BY <1>1, <1>2, <1>3, <1>4 DEF Coordinators

(* A monitor or a metrics task only moves on, or ends by itself. *)
LEMMA MonitorProgress ==
  ASSUME TypeInv, NEW i \in Instances, Monitor(i) \/ MetricsTick(i)
  PROVE  TasksProgress
<1>1. ASSUME NEW s, life' = [life EXCEPT ![i].st = s], metrics' = metrics,
             s \notin {"none", "aborted"}, life[i].st # "none",
             life[i].st \in Done => s \in Done
      PROVE  TasksProgress
  <2>1. \A j \in Instances : life'[j].st = IF j = i THEN s ELSE life[j].st
    <3>1. TypeOK /\ life' = [life EXCEPT ![i].st = s]
      BY <1>1 DEF TypeInv
    <3> QED BY <3>1, LifeMoves
  <2> QED BY <1>1, <2>1 DEF TasksProgress
<1>2. ASSUME NEW s, metrics' = [metrics EXCEPT ![i].st = s], life' = life,
             s # "none", metrics[i].st # "none"
      PROVE  TasksProgress
  <2>1. \A j \in Instances : metrics'[j].st = IF j = i THEN s ELSE metrics[j].st
    <3>1. TypeOK /\ metrics' = [metrics EXCEPT ![i].st = s]
      BY <1>2 DEF TypeInv
    <3> QED BY <3>1, MetricsMoves
  <2> QED BY <1>2, <2>1 DEF TasksProgress
<1>3. CASE MonitorFails(i)
  <2>1. /\ life' = [life EXCEPT ![i].st = "failed"] /\ metrics' = metrics
        /\ life[i].st # "none" /\ life[i].st \notin Done
        /\ "failed" \notin {"none", "aborted"}
    BY <1>3 DEF MonitorFails, Done
  <2> QED BY <2>1, <1>1
<1>4. CASE MonitorReap(i)
  <2>1. /\ life' = [life EXCEPT ![i].st = "reaped"] /\ metrics' = metrics
        /\ life[i].st # "none" /\ life[i].st \notin Done
        /\ "reaped" \notin {"none", "aborted"}
    BY <1>4 DEF MonitorReap, Done
  <2> QED BY <2>1, <1>1
<1>5. CASE MonitorSend(i)
  <2>1. /\ life[i].st = "reaped" /\ metrics' = metrics
        /\ \/ life' = [life EXCEPT ![i].st = "panicked"]
           \/ life' = [life EXCEPT ![i].st = "sent"]
    BY <1>5 DEF MonitorSend
  <2>2. /\ {"panicked", "sent"} \subseteq Done
        /\ "panicked" \notin {"none", "aborted"} /\ "sent" \notin {"none", "aborted"}
    BY DEF Done
  <2> QED BY <2>1, <2>2, <1>1
<1>6. CASE MetricsTick(i)
  BY <1>6, <1>2 DEF MetricsTick
<1> QED BY <1>3, <1>4, <1>5, <1>6 DEF Monitor

(* Spawning a task and keeping its handle leave PidInv alone. *)
LEMMA PidCoordinators ==
  ASSUME TypeInv, PidInv, Coordinators
  PROVE  PidInv'
<1>1. forks' = forks /\ info' = info /\ proc' = proc
  BY DEF Coordinators, LifeSpawn, LifeHandle, MetricsSpawn, MetricsHandle, kernelVars
<1> QED BY <1>1, CoordinatorsProgress, PidTasks DEF TasksProgress

(* A child is reaped by its own monitor, and stays so. *)
LEMMA PidMonitor ==
  ASSUME TypeInv, PidInv, NEW i \in Instances, Monitor(i) \/ MetricsTick(i) \/ ChildExit(i)
  PROVE  PidInv'
<1>1. CASE MonitorFails(i) \/ MonitorSend(i) \/ MetricsTick(i)
  <2>1. TasksProgress
    BY <1>1, MonitorProgress DEF Monitor
  <2> QED BY <1>1, <2>1, PidTasks
          DEF TasksProgress, MonitorFails, MonitorSend, MetricsTick, kernelVars
<1>2. CASE MonitorReap(i)
  <2>1. \A j \in Instances : IF j = i THEN life'[j].st = "reaped" ELSE life'[j] = life[j]
    BY <1>2 DEF MonitorReap, TypeInv, TypeOK
  <2>2. \A j \in Instances : proc'[j] = IF j = i THEN "reaped" ELSE proc[j]
    BY <1>2 DEF MonitorReap, TypeInv, TypeOK
  <2>3. life[i].st = "watching" /\ forks' = forks /\ info' = info /\ metrics' = metrics
    BY <1>2 DEF MonitorReap
  <2>4. \A j \in Born : j \in Instances
    BY BornType DEF Born
  <2> QED BY <2>1, <2>2, <2>3, <2>4, PidFrame DEF PidInv, Done
<1>3. CASE ChildExit(i)
  <2>1. \A j \in Born : proc'[j] = proc[j] \/ (proc[j] = "alive" /\ proc'[j] = "zombie")
    BY <1>3 DEF ChildExit, TypeInv, TypeOK
  <2> QED BY <1>3, <2>1, PidKernel DEF ChildExit, taskVars
<1> QED BY <1>1, <1>2, <1>3 DEF Monitor

(* Every step keeps PidInv, as long as WatchInv holds. *)
LEMMA PidNext ==
  ASSUME TypeInv, PidInv, WatchInv, [Next]_vars
  PROVE  PidInv'
<1>1. ASSUME NEW a \in Actors, StartStep(a) PROVE PidInv'
  <2>1. CASE Streams(a) \/ Insert(a)
    BY <2>1, PidKernel DEF Streams, Insert, kernelVars, taskVars
  <2>2. CASE SetupFails(a)
    BY <2>2, PidKernel, SigkillState DEF SetupFails, taskVars
  <2>3. CASE ForkFails(a) \/ StreamsFail(a)
    BY <2>3, FailuresLetGo, PidLetsGo
  <2> QED BY <1>1, <2>1, <2>2, <2>3, PidFork, PidSubmitLife, PidSubmitMetrics DEF StartStep
<1>2. ASSUME NEW c \in Clients, Command(c) PROVE PidInv'
  <2>1. CASE ~ShutdownBegin(c)
    BY <1>2, <2>1, PidKernel DEF Command, StartCheck, StopRemove, kernelVars, taskVars
  <2> QED BY <2>1, PidShutdown
<1>3. ASSUME NEW c \in Clients, ClientStep(c) PROVE PidInv'
  <2>1. c \in Actors
    BY DEF Actors
  <2>2. CASE StopTasks(c)
    <3>1. job[c].inst \in Born /\ life[job[c].inst].st # "none"
      BY <2>1, <2>2 DEF StopTasks, TypeInv, JobOK, Born, WatchInv, HolderOK
    <3> QED BY <2>2, <3>1, PidKillTasks, PidKernel DEF StopTasks, kernelVars
  <2>3. CASE StopKill(c) \/ ShutdownExit(c) \/ \E n \in Names : SweepKill(c, n)
    BY <2>3, PidKernel, SigkillState DEF StopKill, ShutdownExit, SweepKill, kernelVars, taskVars
  <2> QED BY <1>1, <1>3, <2>1, <2>2, <2>3 DEF ClientStep
<1>4. CASE HandlerStep
  <2>1. Handler \in Actors
    BY DEF Actors
  <2>2. CASE HandlerDecide
    <3>1. job[Handler].inst \in Born /\ life[job[Handler].inst].st # "none"
      BY <2>1, <2>2 DEF HandlerDecide, TypeInv, JobOK, Born, WatchInv, HolderOK
    <3> QED BY <2>2, <3>1, PidKillTasks DEF HandlerDecide
  <2>3. CASE HandlerRecv \/ HandlerForget
    BY <2>3, PidKernel DEF HandlerRecv, HandlerForget, kernelVars, taskVars
  <2> QED BY <1>1, <1>4, <2>1, <2>2, <2>3 DEF HandlerStep
<1>5. CASE UNCHANGED vars
  BY <1>5, PidKernel DEF vars, kernelVars, taskVars
<1>6. CASE LogPoisoned
  BY <1>6, PidKernel DEF LogPoisoned, kernelVars, taskVars
<1> QED BY <1>2, <1>3, <1>4, <1>5, <1>6, PidCoordinators, PidMonitor DEF Next

-----------------------------------------------------------------------------
(* Every step keeps WatchInv. *)

(* The last labels before the daemon exits are never left for others. *)
LEMMA ShutdownStays ==
  ASSUME daemon = "up",
         daemon' = "up" => \A c \in Clients : pc[c] = "sweep" => pc'[c] = "sweep"
  PROVE  ShuttingDown => ShuttingDown'
  BY DEF ShuttingDown

(* A step that leaves an instance's monitor unaborted. *)
Keeps(i) == life'[i].st # "aborted" \/ life[i].st = "aborted" \/ ShuttingDown'

(* What a step may do to tasks, entries and handlers: nobody gains or loses *)
(* a monitor; a monitor is aborted only if nobody relies on it afterwards;  *)
(* and whoever is listed or held at a later label was monitored before.    *)
LEMMA WatchFrame ==
  ASSUME TypeInv, WatchInv, ShuttingDown => ShuttingDown',
         \A i \in Instances : /\ life'[i].st = "none" <=> life[i].st = "none"
                              /\ metrics[i].st = "none" => metrics'[i].st = "none",
         \A n \in Names :
           LET i == registry'[n] IN
           i # None => i \in Instances /\ Watched(i) /\ Keeps(i),
         \A a \in Actors :
           LET i == job[a].inst IN
           pc'[a] \in {"forked", "setup", "submitMetrics", "insert"} =>
             pc'[a] = pc[a] /\ job'[a].inst = i /\ Keeps(i),
         \A a \in Actors :
           LET i == job'[a].inst IN
           pc'[a] \in {"stopTasks", "stopKill", "decide", "forget"} =>
             i \in Instances /\ life[i].st # "none"
  PROVE  WatchInv'
<1>1. ASSUME NEW n \in Names, registry'[n] # None PROVE Watched(registry[n])'
  BY <1>1 DEF Watched, Keeps
<1>2. ASSUME NEW a \in Actors PROVE HolderOK(a)'
  <2>1. CASE pc'[a] \in {"forked", "setup", "submitMetrics", "insert"}
    <3>1. pc[a] = pc'[a] /\ job'[a].inst = job[a].inst /\ Keeps(job[a].inst)
      BY <2>1
    <3>2. job[a].inst \in Instances
      BY <2>1, <3>1, BornType DEF TypeInv, JobOK
    <3>3. HolderOK(a)
      BY DEF WatchInv
    <3> QED BY <2>1, <3>1, <3>2, <3>3 DEF HolderOK, Watched, Keeps
  <2>2. CASE pc'[a] \notin {"forked", "setup", "submitMetrics", "insert"}
    BY <2>2 DEF HolderOK
  <2> QED BY <2>1, <2>2
<1> QED BY <1>1, <1>2 DEF WatchInv

(* No task changes. *)
LEMMA WatchQuiet ==
  ASSUME TypeInv, WatchInv, ShuttingDown => ShuttingDown', life' = life, metrics' = metrics,
         \A n \in Names : \/ registry'[n] \in {registry[n], None}
                          \/ registry'[n] \in Instances /\ Watched(registry'[n]),
         \A a \in Actors :
           /\ pc'[a] \in {"forked", "setup", "submitMetrics", "insert"} =>
                pc'[a] = pc[a] /\ job'[a].inst = job[a].inst
           /\ pc'[a] \in {"stopTasks", "stopKill", "decide", "forget"} =>
                \/ pc'[a] = pc[a] /\ job'[a].inst = job[a].inst
                \/ job'[a].inst \in Instances /\ life[job'[a].inst].st # "none"
  PROVE  WatchInv'
<1>1. \A n \in Names : registry'[n] # None => registry'[n] \in Instances /\ Watched(registry'[n])
  BY DEF WatchInv, TypeInv, TypeOK
<1>2. \A i \in Instances : Keeps(i)
  BY DEF Keeps
<1>3. ASSUME NEW a \in Actors, pc'[a] \in {"stopTasks", "stopKill", "decide", "forget"}
      PROVE  job'[a].inst \in Instances /\ life[job'[a].inst].st # "none"
  BY <1>3, BornType DEF WatchInv, HolderOK, TypeInv, JobOK
<1>4. ASSUME NEW a \in Actors, pc'[a] \in {"forked", "setup", "submitMetrics", "insert"}
      PROVE  pc'[a] = pc[a] /\ job'[a].inst = job[a].inst /\ Keeps(job[a].inst)
  BY <1>2, <1>4, BornType DEF TypeInv, JobOK
<1> QED BY <1>1, <1>2, <1>3, <1>4, WatchFrame

(* Only tasks change, and none is aborted. *)
LEMMA WatchTasks ==
  ASSUME TypeInv, WatchInv, ShuttingDown => ShuttingDown',
         registry' = registry, pc' = pc, job' = job,
         \A i \in Instances : /\ life'[i].st = "none" <=> life[i].st = "none"
                              /\ metrics[i].st = "none" => metrics'[i].st = "none"
                              /\ life'[i].st # "aborted" \/ life[i].st = "aborted"
  PROVE  WatchInv'
<1>1. \A n \in Names : registry[n] # None => registry[n] \in Instances /\ Watched(registry[n])
  BY DEF WatchInv, TypeInv, TypeOK
<1>2. \A i \in Instances : Keeps(i)
  BY DEF Keeps
<1>3. ASSUME NEW a \in Actors, pc[a] \in {"stopTasks", "stopKill", "decide", "forget"}
      PROVE  job[a].inst \in Instances /\ life[job[a].inst].st # "none"
  BY <1>3, BornType DEF WatchInv, HolderOK, TypeInv, JobOK
<1>4. ASSUME NEW a \in Actors, pc[a] \in {"forked", "setup", "submitMetrics", "insert"}
      PROVE  Keeps(job[a].inst)
  BY <1>2, <1>4, BornType DEF TypeInv, JobOK
<1> QED BY <1>1, <1>2, <1>3, <1>4, WatchFrame

(* A forker holds an instance that has no task; nobody else is concerned. *)
LEMMA WatchFork ==
  ASSUME TypeInv, PidInv, WatchInv, NEW a \in Actors, NEW p \in Pids, Fork(a, p)
  PROVE  WatchInv'
<1>0. PICK k \in Nat : k = forks + 1
  BY DEF TypeInv, TypeOK
<1>1. /\ k \in Instances /\ life[k].st = "none" /\ metrics[k].st = "none"
      /\ life' = life /\ metrics' = metrics /\ registry' = registry /\ daemon' = daemon
  BY <1>0, SupervisorAssumption DEF Fork, TypeInv, TypeOK, BornOK, PidInv, Instances, taskVars
<1>2. pc'[a] = "forked" /\ job'[a].inst = k
  BY <1>0 DEF Fork, Goto, TypeInv, TypeOK, Job
<1>3. \A b \in Actors \ {a} : pc'[b] = pc[b] /\ job'[b] = job[b]
  BY DEF Fork, Goto, TypeInv, TypeOK
<1>4. ShuttingDown => ShuttingDown'
  BY ShutdownStays DEF Fork, Goto, TypeInv, TypeOK, Actors
<1>5. \A i : Watched(i) => Watched(i)'
  BY <1>1, <1>4 DEF Watched
<1>6. ASSUME NEW b \in Actors PROVE HolderOK(b)'
  BY <1>1, <1>2, <1>3, <1>5 DEF WatchInv, HolderOK
<1> QED BY <1>1, <1>5, <1>6 DEF WatchInv

(* A process held by one actor is neither listed nor held by another. *)
LEMMA HeldAlone ==
  ASSUME TypeInv, OneOwner, NEW a \in Actors, job[a].inst \in Born
  PROVE  /\ \A n \in Names : registry[n] # job[a].inst
         /\ \A b \in Actors \ {a} : job[b].inst # job[a].inst
  BY DEF OneOwner, Registered

(* A client does a step that leaves all tasks alone. *)
LEMMA WatchOneActor ==
  ASSUME TypeInv, WatchInv, NEW a \in Actors, life' = life, metrics' = metrics, daemon = "up",
         pc[a] = "sweep" => pc'[a] = "sweep" \/ daemon' # "up",
         \A b \in Actors \ {a} : pc'[b] = pc[b] /\ job'[b] = job[b],
         \A n \in Names : \/ registry'[n] \in {registry[n], None}
                          \/ registry'[n] \in Instances /\ Watched(registry'[n]),
         \/ pc'[a] \notin {"forked", "setup", "submitMetrics", "insert",
                           "stopTasks", "stopKill", "decide", "forget"}
         \/ pc'[a] = pc[a] /\ job'[a].inst = job[a].inst
         \/ pc'[a] = "stopTasks" /\ job'[a].inst \in Instances /\ life[job'[a].inst].st # "none"
  PROVE  WatchInv'
<1>1. ShuttingDown => ShuttingDown'
  BY ShutdownStays DEF Actors
<1> QED BY <1>1, WatchQuiet

(* An actor lets go of what it held. *)
LEMMA WatchLetsGo ==
  ASSUME TypeInv, WatchInv, NEW a \in Actors, LetsGo(a), daemon = "up", pc[a] # "sweep"
  PROVE  WatchInv'
<1>1. /\ pc'[a] \in {"dead", "panicked", "idle"}
      /\ \A b \in Actors \ {a} : pc'[b] = pc[b] /\ job'[b] = job[b]
  BY DEF LetsGo, Finish, Goto, TypeInv, TypeOK
<1>2. life' = life /\ metrics' = metrics /\ registry' = registry
  BY DEF LetsGo, taskVars
<1> QED BY <1>1, <1>2, WatchOneActor

(* Killing the process one holds, and letting it go. *)
LEMMA WatchRefuse ==
  ASSUME TypeInv, OneOwner, PidInv, WatchInv, NEW a \in Actors, Refuse(a), daemon = "up",
         pc[a] # "sweep", job[a].inst \in Born,
         life[job[a].inst].st # "none" \/ proc[job[a].inst] # "reaped"
  PROVE  WatchInv'
<1> DEFINE k == job[a].inst
<1>a. CASE LogPanics(a)
  BY <1>a, GoingLetsGo, WatchLetsGo DEF Refuse, kernelVars, taskVars
<1> SUFFICES ASSUME ~LogPanics(a) PROVE WatchInv'
  BY <1>a
<1>1. /\ \A i \in Instances : /\ life'[i].st = "none" <=> life[i].st = "none"
                              /\ metrics'[i].st = "none" <=> metrics[i].st = "none"
      /\ \A i \in Instances \ {k} : life'[i] = life[i]
  BY KillHitsTarget DEF Refuse
<1>2. /\ pc'[a] \in {"idle", "dead"} /\ \A b \in Actors \ {a} : pc'[b] = pc[b] /\ job'[b] = job[b]
      /\ registry' = registry /\ daemon' = daemon
  BY DEF Refuse, GiveUp, Finish, Goto, TypeInv, TypeOK
<1>3. ShuttingDown => ShuttingDown'
  BY <1>2, ShutdownStays DEF Actors
<1>4. \A i \in Instances \ {k} : Keeps(i)
  BY <1>1 DEF Keeps
<1>5. /\ \A n \in Names : registry[n] # k
      /\ \A b \in Actors \ {a} : job[b].inst # k
  BY HeldAlone
<1>6. ASSUME NEW n \in Names, registry'[n] # None
      PROVE  registry'[n] \in Instances /\ Watched(registry'[n]) /\ Keeps(registry'[n])
  BY <1>2, <1>4, <1>5, <1>6 DEF WatchInv, TypeInv, TypeOK
<1>7. ASSUME NEW b \in Actors, pc'[b] \in {"forked", "setup", "submitMetrics", "insert"}
      PROVE  pc'[b] = pc[b] /\ job'[b].inst = job[b].inst /\ Keeps(job[b].inst)
  BY <1>2, <1>4, <1>5, <1>7, BornType DEF TypeInv, JobOK
<1>8. ASSUME NEW b \in Actors, pc'[b] \in {"stopTasks", "stopKill", "decide", "forget"}
      PROVE  job'[b].inst \in Instances /\ life[job'[b].inst].st # "none"
  BY <1>2, <1>8, BornType DEF WatchInv, HolderOK, TypeInv, JobOK
<1> HIDE DEF k
<1> QED BY <1>1, <1>3, <1>6, <1>7, <1>8, WatchFrame

(* An accepted monitor watches the process its submitter holds. *)
LEMMA WatchSubmitLife ==
  ASSUME TypeInv, OneOwner, PidInv, WatchInv, NEW a \in Actors, SubmitLife(a)
  PROVE  WatchInv'
<1> DEFINE k == job[a].inst
<1>1. k \in Born /\ k \in Instances /\ pc[a] = "setup" /\ daemon = "up"
        /\ life[k].st = "none" /\ metrics[k].st = "none"
  BY BornType DEF SubmitLife, TypeInv, JobOK, Born, WatchInv, HolderOK
<1>2. CASE Refuse(a)
  <2>1. proc[k] # "reaped"
    BY <1>1 DEF PidInv, Done
  <2> QED BY <1>1, <1>2, <2>1, WatchRefuse
<1>3. CASE ~Refuse(a)
  <2>1. /\ life' = [life EXCEPT ![k].st = "queued"] /\ metrics' = metrics
        /\ pc' = [pc EXCEPT ![a] = "submitMetrics"] /\ job' = job
        /\ registry' = registry /\ daemon' = daemon
    BY <1>3 DEF SubmitLife, Goto
  <2>2. life'[k].st = "queued" /\ \A i \in Instances \ {k} : life'[i] = life[i]
    BY <1>1, <2>1 DEF TypeInv, TypeOK
  <2>3. pc'[a] = "submitMetrics" /\ \A b \in Actors \ {a} : pc'[b] = pc[b]
    BY <2>1 DEF TypeInv, TypeOK
  <2>4. ShuttingDown => ShuttingDown'
    BY <1>1, <2>1, <2>3, ShutdownStays DEF Actors
  <2>5. /\ \A n \in Names : registry[n] # k
        /\ \A b \in Actors \ {a} : job[b].inst # k
    BY <1>1, HeldAlone
  <2>6. \A i \in Instances \ {k} : Watched(i) => Watched(i)'
    BY <2>2, <2>4 DEF Watched
  <2>7. ASSUME NEW n \in Names, registry'[n] # None PROVE Watched(registry[n])'
    BY <2>1, <2>5, <2>6, <2>7 DEF WatchInv, TypeInv, TypeOK
  <2>8. ASSUME NEW b \in Actors PROVE HolderOK(b)'
    <3>1. CASE b = a
      BY <1>1, <2>1, <2>2, <2>3, <3>1 DEF HolderOK, Watched
    <3>2. CASE b # a
      <4>1. pc[b] \in {"forked", "setup", "submitMetrics", "insert", "stopTasks", "stopKill", "decide",
                       "forget"} => job[b].inst \in Instances \ {k}
        BY <2>5, <3>2, BornType DEF TypeInv, JobOK
      <4>2. pc'[b] = pc[b] /\ job'[b] = job[b] /\ HolderOK(b)
        BY <2>1, <2>3, <3>2 DEF WatchInv
      <4> HIDE DEF k
      <4> QED BY <2>1, <2>2, <2>6, <4>1, <4>2 DEF HolderOK
    <3> QED BY <3>1, <3>2
  <2> QED BY <2>7, <2>8 DEF WatchInv
<1> QED BY <1>2, <1>3

(* An accepted metrics task belongs to a watched process. *)
LEMMA WatchSubmitMetrics ==
  ASSUME TypeInv, OneOwner, PidInv, WatchInv, NEW a \in Actors, SubmitMetrics(a)
  PROVE  WatchInv'
<1> DEFINE k == job[a].inst
<1>1. k \in Born /\ k \in Instances /\ pc[a] = "submitMetrics" /\ daemon = "up" /\ Watched(k)
  BY BornType DEF SubmitMetrics, TypeInv, JobOK, Born, WatchInv, HolderOK
<1>2. CASE Refuse(a)
  BY <1>1, <1>2, WatchRefuse DEF Watched
<1>3. CASE ~Refuse(a)
  <2>1. /\ metrics' = [metrics EXCEPT ![k].st = "queued"] /\ life' = life
        /\ pc' = [pc EXCEPT ![a] = "insert"] /\ job' = job
        /\ registry' = registry /\ daemon' = daemon
    BY <1>3 DEF SubmitMetrics, Goto
  <2>2. \A i \in Instances \ {k} : metrics'[i] = metrics[i]
    BY <2>1 DEF TypeInv, TypeOK
  <2>3. pc'[a] = "insert" /\ \A b \in Actors \ {a} : pc'[b] = pc[b]
    BY <2>1 DEF TypeInv, TypeOK
  <2>4. ShuttingDown => ShuttingDown'
    BY <1>1, <2>1, <2>3, ShutdownStays DEF Actors
  <2>5. \A b \in Actors \ {a} : job[b].inst # k
    BY <1>1, HeldAlone
  <2>6. \A i : Watched(i) => Watched(i)'
    BY <2>1, <2>4 DEF Watched
  <2>7. ASSUME NEW b \in Actors PROVE HolderOK(b)'
    <3>1. CASE b = a
      BY <1>1, <2>1, <2>3, <2>6, <3>1 DEF HolderOK
    <3>2. CASE b # a
      <4>1. pc[b] \in {"forked", "setup", "submitMetrics"} => job[b].inst \in Instances \ {k}
        BY <2>5, <3>2, BornType DEF TypeInv, JobOK
      <4>2. pc'[b] = pc[b] /\ job'[b] = job[b] /\ HolderOK(b)
        BY <2>1, <2>3, <3>2 DEF WatchInv
      <4> HIDE DEF k
      <4> QED BY <2>1, <2>2, <2>6, <4>1, <4>2 DEF HolderOK
    <3> QED BY <3>1, <3>2
  <2> QED BY <2>1, <2>6, <2>7 DEF WatchInv
<1> QED BY <1>2, <1>3

(* A stop or a restart aborts the tasks of the process it holds, which is  *)
(* listed no more.                                                         *)
LEMMA WatchKillTasks ==
  ASSUME TypeInv, OneOwner, PidInv, WatchInv, NEW a \in Actors, daemon = "up", daemon' = daemon,
         pc[a] \in {"stopTasks", "decide"}, KillTasksByPid(info[job[a].inst].pid),
         pc'[a] \in {"stopKill", "fork", "forget"}, job'[a].inst = job[a].inst,
         \A b \in Actors \ {a} : pc'[b] = pc[b] /\ job'[b] = job[b],
         registry' = registry
  PROVE  WatchInv'
<1> DEFINE k == job[a].inst
<1>0. k \in Born /\ k \in Instances /\ life[k].st # "none"
  BY BornType DEF TypeInv, JobOK, Born, WatchInv, HolderOK
<1>1. /\ \A i \in Instances : /\ life'[i].st = "none" <=> life[i].st = "none"
                              /\ metrics'[i].st = "none" <=> metrics[i].st = "none"
      /\ \A i \in Instances \ {k} : life'[i] = life[i]
  BY <1>0, KillHitsTarget
<1>3. ShuttingDown => ShuttingDown'
  BY ShutdownStays DEF Actors
<1>4. \A i \in Instances \ {k} : Keeps(i)
  BY <1>1 DEF Keeps
<1>5. /\ \A n \in Names : registry[n] # k
      /\ \A b \in Actors \ {a} : job[b].inst # k
  BY <1>0, HeldAlone
<1>6. ASSUME NEW n \in Names, registry'[n] # None
      PROVE  registry'[n] \in Instances /\ Watched(registry'[n]) /\ Keeps(registry'[n])
  BY <1>4, <1>5, <1>6 DEF WatchInv, TypeInv, TypeOK
<1>7. ASSUME NEW b \in Actors, pc'[b] \in {"forked", "setup", "submitMetrics", "insert"}
      PROVE  pc'[b] = pc[b] /\ job'[b].inst = job[b].inst /\ Keeps(job[b].inst)
  BY <1>4, <1>5, <1>7, BornType DEF TypeInv, JobOK
<1>8. ASSUME NEW b \in Actors, pc'[b] \in {"stopTasks", "stopKill", "decide", "forget"}
      PROVE  job'[b].inst \in Instances /\ life[job'[b].inst].st # "none"
  BY <1>0, <1>8, BornType DEF WatchInv, HolderOK, TypeInv, JobOK
<1> HIDE DEF k
<1> QED BY <1>1, <1>3, <1>6, <1>7, <1>8, WatchFrame

(* kill_runtime aborts every monitor, but the daemon is ending. *)
LEMMA WatchShutdown ==
  ASSUME TypeInv, WatchInv, NEW c \in Clients, ShutdownBegin(c)
  PROVE  WatchInv'
<1>1. /\ \A t \in LifeTask :
           [Cancelled(t, AwaitsLife) EXCEPT !.handle = FALSE].st = "none" <=> t.st = "none"
      /\ \A t \in MetricsTask :
           [Cancelled(t, AwaitsMetrics) EXCEPT !.handle = FALSE].st = "none" <=> t.st = "none"
  BY DEF LifeTask, MetricsTask, Cancelled, AwaitsLife, AwaitsMetrics
<1>2. \A i \in Instances : /\ life'[i].st = "none" <=> life[i].st = "none"
                           /\ metrics'[i].st = "none" <=> metrics[i].st = "none"
  BY <1>1 DEF ShutdownBegin, TypeInv, TypeOK, LifeTask, MetricsTask
<1>3. c \in Actors /\ job' = job /\ registry' = registry
        /\ pc'[c] = "sweep" /\ \A b \in Actors \ {c} : pc'[b] = pc[b]
  BY DEF ShutdownBegin, Goto, TypeInv, TypeOK, Actors
<1>4. ShuttingDown'
  BY <1>3 DEF ShuttingDown
<1>5. \A i : Keeps(i)
  BY <1>4 DEF Keeps
<1>6. \A n \in Names : registry[n] # None => registry[n] \in Instances /\ Watched(registry[n])
  BY DEF WatchInv, TypeInv, TypeOK
<1>7. ASSUME NEW b \in Actors, pc'[b] \in {"forked", "setup", "submitMetrics", "insert"}
      PROVE  pc'[b] = pc[b]
  BY <1>3, <1>7
<1>8. ASSUME NEW b \in Actors, pc'[b] \in {"stopTasks", "stopKill", "decide", "forget"}
      PROVE  job[b].inst \in Instances /\ life[job[b].inst].st # "none"
  BY <1>3, <1>8, BornType DEF WatchInv, HolderOK, TypeInv, JobOK
<1> QED BY <1>2, <1>3, <1>4, <1>5, <1>6, <1>7, <1>8, WatchFrame

(* The actor that takes an entry takes a monitored process. *)
LEMMA WatchRecv ==
  ASSUME TypeInv, WatchInv, HandlerRecv
  PROVE  WatchInv'
<1> DEFINE n == Head(restartQ).name
           i == registry[n]
<1>1. n \in Names /\ Handler \in Actors
  <2>1. Head(restartQ) \in [name : Names, inst : Instances]
    BY HeadTailProperties DEF HandlerRecv, TypeInv, TypeOK
  <2> QED BY <2>1 DEF HandlerRecv, Actors
<1>2. \A b \in Actors \ {Handler} : pc'[b] = pc[b] /\ job'[b] = job[b]
  BY DEF HandlerRecv, Goto, TypeInv, TypeOK
<1>3. daemon = "up" /\ pc[Handler] = "recv" /\ life' = life /\ metrics' = metrics
  BY DEF HandlerRecv, taskVars
<1>4. ShuttingDown => ShuttingDown'
  BY <1>2, <1>3, ShutdownStays, SupervisorAssumption DEF Actors
<1>5. \A m \in Names : registry'[m] \in {registry[m], None}
  BY DEF HandlerRecv, TypeInv, TypeOK
<1>6. \/ pc'[Handler] = "panicked"
      \/ pc'[Handler] = "decide" /\ job'[Handler].inst \in Instances
           /\ life[job'[Handler].inst].st # "none"
  <2>1. CASE i = None
    BY <1>1, <2>1 DEF HandlerRecv, Goto, TypeInv, TypeOK
  <2>2. CASE i # None
    <3>1. pc'[Handler] = "decide" /\ job'[Handler].inst = i
      BY <1>1, <2>2 DEF HandlerRecv, Goto, TypeInv, TypeOK
    <3>2. i \in Instances /\ life[i].st # "none"
      BY <1>1, <2>2 DEF WatchInv, Watched, TypeInv, TypeOK
    <3> QED BY <3>1, <3>2
  <2> QED BY <2>1, <2>2
<1> QED BY <1>2, <1>3, <1>4, <1>5, <1>6, WatchQuiet

(* The actor goes on with an instance that has no task yet. *)
LEMMA WatchStreams ==
  ASSUME TypeInv, WatchInv, NEW a \in Actors, Streams(a)
  PROVE  WatchInv'
<1>1. /\ pc[a] = "forked" /\ pc'[a] = "setup" /\ \A b \in Actors \ {a} : pc'[b] = pc[b]
      /\ daemon = "up" /\ UNCHANGED <<registry, job, life, metrics, daemon>>
  BY DEF Streams, Goto, taskVars, TypeInv, TypeOK
<1>2. ShuttingDown => ShuttingDown'
  BY <1>1, ShutdownStays DEF Actors
<1>3. \A i : Watched(i) => Watched(i)'
  BY <1>1, <1>2 DEF Watched
<1>4. ASSUME NEW b \in Actors PROVE HolderOK(b)'
  BY <1>1, <1>3 DEF WatchInv, HolderOK
<1> QED BY <1>1, <1>3, <1>4 DEF WatchInv

(* Every step of a start keeps WatchInv. *)
LEMMA WatchStartStep ==
  ASSUME TypeInv, OneOwner, PidInv, WatchInv, NEW a \in Actors, StartStep(a)
  PROVE  WatchInv'
<1>1. CASE SetupFails(a)
  BY <1>1, WatchOneActor
  DEF SetupFails, GiveUp, Panics, Finish, Goto, TypeInv, TypeOK, taskVars
<1>2. CASE Insert(a)
  <2>1. job[a].inst \in Instances /\ Watched(job[a].inst)
    BY <1>2, BornType DEF Insert, TypeInv, JobOK, WatchInv, HolderOK
  <2>2. \A n \in Names : registry'[n] \in {registry[n], job[a].inst}
    BY <1>2 DEF Insert, TypeInv, TypeOK
  <2>3. /\ life' = life /\ metrics' = metrics /\ daemon = "up"
        /\ pc[a] = "insert" /\ pc'[a] \in {"recv", "idle"}
        /\ \A b \in Actors \ {a} : pc'[b] = pc[b] /\ job'[b] = job[b]
    BY <1>2 DEF Insert, Finish, Goto, TypeInv, TypeOK, taskVars
  <2> QED BY <2>1, <2>2, <2>3, WatchOneActor
<1>3. CASE ForkFails(a) \/ StreamsFail(a)
  <2>1. daemon = "up" /\ pc[a] # "sweep"
    BY <1>3 DEF ForkFails, StreamsFail
  <2> QED BY <1>3, <2>1, FailuresLetGo, WatchLetsGo
<1>4. CASE Streams(a)
  BY <1>4, WatchStreams
<1> QED BY <1>1, <1>2, <1>3, <1>4, WatchFork, WatchSubmitLife, WatchSubmitMetrics
DEF StartStep

(* Every step keeps WatchInv. *)
LEMMA WatchNext ==
  ASSUME TypeInv, OneOwner, PidInv, WatchInv, [Next]_vars
  PROVE  WatchInv'
<1>1. ASSUME NEW c \in Clients, Command(c) PROVE WatchInv'
  <2>1. c \in Actors
    BY DEF Actors
  <2>2. CASE \E n \in Names, pol \in Policies : StartCheck(c, n, pol)
    BY <2>1, <2>2, WatchOneActor DEF StartCheck, Goto, TypeInv, TypeOK, taskVars
  <2>3. CASE \E n \in Names : StopRemove(c, n)
    <3>1. PICK n \in Names : StopRemove(c, n)
      BY <2>3
    <3>2. /\ pc'[c] = "stopTasks" /\ job'[c].inst = registry[n] /\ registry[n] \in Instances
          /\ daemon = "up" /\ life' = life /\ metrics' = metrics /\ pc[c] = "idle"
          /\ \A b \in Actors \ {c} : pc'[b] = pc[b] /\ job'[b] = job[b]
          /\ \A m \in Names : registry'[m] \in {registry[m], None}
      BY <2>1, <3>1 DEF StopRemove, Goto, TypeInv, TypeOK, taskVars
    <3>3. life[registry[n]].st # "none"
      BY <3>1 DEF StopRemove, WatchInv, Watched
    <3> QED BY <2>1, <3>2, <3>3, WatchOneActor
  <2> QED BY <1>1, <2>2, <2>3, WatchShutdown DEF Command
<1>2. ASSUME NEW c \in Clients, ClientStep(c) PROVE WatchInv'
  <2>1. c \in Actors
    BY DEF Actors
  <2>2. CASE StopKill(c) \/ ShutdownExit(c) \/ \E n \in Names : SweepKill(c, n)
    BY <2>1, <2>2, WatchOneActor
    DEF StopKill, ShutdownExit, SweepKill, Finish, Goto, TypeInv, TypeOK, taskVars
  <2>3. CASE StopTasks(c)
    <3>1. CASE poisoned
      BY <2>1, <2>3, <3>1, GoingLetsGo, WatchLetsGo DEF StopTasks, kernelVars, taskVars
    <3>2. CASE ~poisoned
      BY <2>1, <2>3, <3>2, WatchKillTasks DEF StopTasks, Goto, TypeInv, TypeOK
    <3> QED BY <3>1, <3>2
  <2> QED BY <1>2, <2>1, <2>2, <2>3, WatchStartStep DEF ClientStep
<1>3. CASE HandlerStep
  <2>1. Handler \in Actors
    BY DEF Actors
  <2>2. CASE HandlerForget
    BY <2>1, <2>2, WatchOneActor
    DEF HandlerForget, Panics, Finish, Goto, TypeInv, TypeOK, taskVars
  <2>3. CASE HandlerDecide
    <3>1. pc[Handler] = "decide" /\ pc'[Handler] \in {"fork", "forget"}
            /\ KillTasksByPid(info[job[Handler].inst].pid) /\ registry' = registry
            /\ daemon = "up" /\ daemon' = daemon
      BY <2>1, <2>3 DEF HandlerDecide, Goto, TypeInv, TypeOK
    <3>2. \A b \in Actors \ {Handler} : pc'[b] = pc[b] /\ job'[b] = job[b]
      BY <2>3 DEF HandlerDecide, Goto, TypeInv, TypeOK
    <3>3. job'[Handler].inst = job[Handler].inst
      <4>1. CASE job' = job
        BY <4>1
      <4>2. CASE job' = [job EXCEPT ![Handler].pol = Spent(job[Handler].pol)]
        BY <2>1, <4>2 DEF TypeInv, TypeOK, Job
      <4> QED BY <2>3, <4>1, <4>2 DEF HandlerDecide
    <3> QED BY <2>1, <3>1, <3>2, <3>3, WatchKillTasks
  <2> QED BY <1>3, <2>1, <2>2, <2>3, WatchRecv, WatchStartStep DEF HandlerStep
<1>4. CASE Coordinators
  <2>1. daemon' = daemon /\ registry' = registry /\ pc' = pc /\ job' = job
    BY <1>4
    DEF Coordinators, LifeSpawn, LifeHandle, MetricsSpawn, MetricsHandle, actorVars
  <2>2. ShuttingDown => ShuttingDown'
    BY <2>1 DEF ShuttingDown
  <2> QED BY <1>4, <2>1, <2>2, CoordinatorsProgress, WatchTasks DEF TasksProgress
<1>5. ASSUME NEW i \in Instances, Monitor(i) \/ MetricsTick(i) PROVE WatchInv'
  <2>1. daemon = "up" /\ registry' = registry /\ pc' = pc /\ job' = job
    BY <1>5
    DEF Monitor, MonitorFails, MonitorReap, MonitorSend, MetricsTick, actorVars
  <2>2. ShuttingDown => ShuttingDown'
    BY <2>1 DEF ShuttingDown
  <2> QED BY <1>5, <2>1, <2>2, MonitorProgress, WatchTasks DEF TasksProgress
<1>6. CASE UNCHANGED vars \/ LogPoisoned \/ \E i \in Instances : ChildExit(i)
  <2>1. daemon' = daemon /\ registry' = registry /\ pc' = pc /\ job' = job
          /\ life' = life /\ metrics' = metrics
    BY <1>6 DEF ChildExit, LogPoisoned, vars, taskVars, actorVars
  <2>2. ShuttingDown => ShuttingDown'
    BY <2>1 DEF ShuttingDown
  <2> QED BY <2>1, <2>2, WatchTasks
<1> QED BY <1>1, <1>2, <1>3, <1>4, <1>5, <1>6 DEF Next

-----------------------------------------------------------------------------
(* The invariant, and what follows from it. *)

WatchIInv == TypeInv /\ OneOwner /\ PidInv /\ WatchInv

(* Who owns, watches and shares a pid with whom, in every reachable state. *)
THEOREM WatchInvariant == Spec => []WatchIInv
<1>1. Init => PidInv /\ WatchInv
  BY DEF Init, PidInv, WatchInv, HolderOK, Born, Actors, None
<1>2. WatchIInv /\ [Next]_vars => WatchIInv'
  BY TypeInvNext, OwnerNext, PidNext, WatchNext DEF WatchIInv
<1>3. Init => WatchIInv
  BY <1>1, TypeInvInit DEF WatchIInv, Init, OneOwner, Born
<1> QED BY <1>2, <1>3, PTL DEF Spec

(* A listed process has a monitor that no command or restart for another   *)
(* process has aborted, although aborts are addressed by recycled pids.    *)
THEOREM RegisteredIsWatchedHolds == Spec => []RegisteredIsWatched
<1>1. WatchIInv => RegisteredIsWatched
  BY DEF WatchIInv, WatchInv, Watched, RegisteredIsWatched, Registered, Born, None
<1> QED BY <1>1, WatchInvariant, PTL

(* submit_metrics_task never reports a duplicate: the branch that kills the *)
(* child after its monitor was accepted is dead code.                       *)
THEOREM MetricsNeverRefusedHolds == Spec => []MetricsNeverRefused
<1>1. ASSUME WatchIInv, NEW a \in Actors, pc[a] = "submitMetrics"
      PROVE  ~HasTask(metrics, info[job[a].inst].pid)
  <2>1. job[a].inst \in Born /\ life[job[a].inst].st # "none" /\ metrics[job[a].inst].st = "none"
    BY <1>1 DEF WatchIInv, WatchInv, HolderOK, Watched, TypeInv, JobOK, Born
  <2>2. \A j \in Instances : metrics[j].st # "none" => j \in Born /\ life[j].st # "none"
    BY <1>1 DEF WatchIInv, PidInv, TypeInv, BornOK, Born
  <2> QED BY <1>1, <2>1, <2>2 DEF WatchIInv, PidInv, HasTask
<1>2. WatchIInv => MetricsNeverRefused
  BY <1>1 DEF MetricsNeverRefused
<1> QED BY <1>2, WatchInvariant, PTL

-----------------------------------------------------------------------------
(* What an actor's step does to the processes that are not its own.        *)

(* Aborting the tasks of a pid, and killing it, spares everybody else. *)
LEMMA SparedByAbort ==
  ASSUME TypeInv, PidInv, NEW k \in Born, life[k].st # "none" \/ proc[k] # "reaped",
         KillTasksByPid(info[k].pid), Sigkill(info[k].pid) \/ proc' = proc,
         NEW i \in Born \ {k}, life[i].st # "none", proc[i] # "reaped"
  PROVE  Spared(i)
<1>1. i \in Instances
  BY BornType DEF Born
<1>2. life'[i] = life[i] /\ metrics'[i] = metrics[i]
  BY <1>1, KillHitsTarget
<1>3. proc'[i] = proc[i]
  BY SigkillHitsTarget
<1> QED BY <1>2, <1>3 DEF Spared

(* A start or a restart spares everybody else, when it fails as well. *)
LEMMA SparedByStart ==
  ASSUME WatchIInv, NEW a \in Actors, StartStep(a),
         NEW i \in Born \ {job[a].inst}, life[i].st # "none", proc[i] # "reaped"
  PROVE  Spared(i)
<1> DEFINE k == job[a].inst
<1>1. i \in Instances /\ TypeInv /\ PidInv
  BY BornType DEF Born, WatchIInv
<1>2. CASE \E p \in Pids : Fork(a, p)
  <2>1. i # forks + 1 /\ life' = life /\ metrics' = metrics
    BY <1>1, <1>2 DEF Fork, taskVars, TypeInv, BornOK, TypeOK, Born
  <2> QED BY <1>1, <1>2, <2>1 DEF Fork, Spared, TypeInv, TypeOK
<1>3. CASE ForkFails(a) \/ StreamsFail(a) \/ Streams(a) \/ Insert(a)
  BY <1>3 DEF ForkFails, StreamsFail, Streams, Insert, kernelVars, taskVars, Spared
<1>4. pc[a] = "setup" => k \in Born /\ proc[k] # "reaped"
  BY <1>1 DEF WatchIInv, WatchInv, HolderOK, PidInv, Done, TypeInv, JobOK, Born
<1>5. pc[a] = "submitMetrics" => k \in Born /\ life[k].st # "none"
  BY DEF WatchIInv, WatchInv, HolderOK, Watched, TypeInv, JobOK, Born
<1>6. CASE SetupFails(a)
  <2>1. proc'[i] = proc[i]
    BY <1>1, <1>4, <1>6, SigkillHitsTarget DEF SetupFails
  <2> QED BY <1>6, <2>1 DEF SetupFails, taskVars, Spared
<1>7. CASE Refuse(a) /\ pc[a] \in {"setup", "submitMetrics"}
  <2>1. CASE LogPanics(a)
    BY <1>7, <2>1 DEF Refuse, Spared
  <2>2. CASE ~LogPanics(a)
    BY <1>1, <1>4, <1>5, <1>7, <2>2, SparedByAbort DEF Refuse
  <2> QED BY <2>1, <2>2
<1>8. CASE ~Refuse(a) /\ (SubmitLife(a) \/ SubmitMetrics(a))
  <2>1. proc' = proc /\ life'[i] = life[i] /\ metrics'[i] = metrics[i]
    BY <1>1, <1>8 DEF SubmitLife, SubmitMetrics, kernelVars, TypeInv, TypeOK
  <2> QED BY <2>1 DEF Spared
<1> QED BY <1>2, <1>3, <1>6, <1>7, <1>8 DEF StartStep, SubmitLife, SubmitMetrics

(* Every step changes the label of the actor that takes it only. *)
LEMMA StartStepLabel ==
  ASSUME TypeInv, NEW a \in Actors, StartStep(a)
  PROVE  \A b \in Actors \ {a} : pc'[b] = pc[b]
  BY DEF StartStep, Fork, ForkFails, Streams, StreamsFail, SetupFails, SubmitLife,
     SubmitMetrics, Refuse, Insert, GiveUp, Panics, Finish, Goto, TypeInv, TypeOK

(* No step of an actor reaches a watched process that is not its own. *)
LEMMA NextHitsOnlyItsOwn ==
  ASSUME WatchIInv, [Next]_vars
  PROVE  [HitsOnlyItsOwn]_vars
<1> SUFFICES ASSUME Next, NEW a \in Actors, pc'[a] # pc[a], pc[a] \notin {"idle", "sweep"},
                    NEW i \in Born \ {job[a].inst}, life[i].st # "none", proc[i] # "reaped"
             PROVE  Spared(i)
  BY DEF HitsOnlyItsOwn
<1>0. TypeInv /\ PidInv /\ WatchInv
  BY DEF WatchIInv
<1>1. ASSUME NEW c \in Clients, Command(c) PROVE FALSE
  BY <1>0, <1>1 DEF Command, StartCheck, StopRemove, ShutdownBegin, Goto, TypeInv, TypeOK
<1>2. ASSUME NEW c \in Clients, ClientStep(c) PROVE Spared(i)
  <2>1. c \in Actors
    BY DEF Actors
  <2>2. CASE StartStep(c)
    BY <1>0, <2>1, <2>2, StartStepLabel, SparedByStart
  <2>3. CASE StopTasks(c) \/ StopKill(c)
    <3>1. a = c
      BY <1>0, <2>3 DEF StopTasks, StopKill, Panics, Finish, Goto, TypeInv, TypeOK
    <3>2. job[a].inst \in Born /\ life[job[a].inst].st # "none"
      BY <1>0, <2>3, <3>1 DEF StopTasks, StopKill, WatchInv, HolderOK, TypeInv, JobOK, Born
    <3>3. CASE StopTasks(c)
      <4>1. CASE poisoned
        BY <3>3, <4>1 DEF StopTasks, kernelVars, Spared
      <4>2. CASE ~poisoned
        BY <1>0, <3>1, <3>2, <3>3, <4>2, SparedByAbort DEF StopTasks, kernelVars
      <4> QED BY <4>1, <4>2
    <3>4. CASE StopKill(c)
      <4>1. proc'[i] = proc[i]
        BY <1>0, <3>1, <3>2, <3>4, SigkillHitsTarget DEF StopKill
      <4> QED BY <3>4, <4>1 DEF StopKill, taskVars, Spared
    <3> QED BY <2>3, <3>3, <3>4
  <2>4. CASE ShutdownExit(c) \/ \E n \in Names : SweepKill(c, n)
    BY <1>0, <2>4 DEF ShutdownExit, SweepKill, Finish, Goto, TypeInv, TypeOK
  <2> QED BY <1>2, <2>2, <2>3, <2>4 DEF ClientStep
<1>3. CASE HandlerStep
  <2>1. Handler \in Actors
    BY DEF Actors
  <2>2. CASE StartStep(Handler)
    BY <1>0, <2>1, <2>2, StartStepLabel, SparedByStart
  <2>3. CASE HandlerDecide
    <3>1. a = Handler
      BY <1>0, <2>3 DEF HandlerDecide, Goto, TypeInv, TypeOK
    <3>2. job[a].inst \in Born /\ life[job[a].inst].st # "none"
      BY <1>0, <2>3, <3>1 DEF HandlerDecide, WatchInv, HolderOK, TypeInv, JobOK, Born
    <3> QED BY <1>0, <2>3, <3>1, <3>2, SparedByAbort DEF HandlerDecide, kernelVars
  <2>4. CASE HandlerRecv \/ HandlerForget
    BY <2>4 DEF HandlerRecv, HandlerForget, kernelVars, taskVars, Spared
  <2> QED BY <1>3, <2>2, <2>3, <2>4 DEF HandlerStep
<1>4. CASE \/ Coordinators \/ LogPoisoned
           \/ \E j \in Instances : Monitor(j) \/ MetricsTick(j) \/ ChildExit(j)
  <2>1. pc' = pc
    BY <1>4 DEF LogPoisoned, Coordinators, LifeSpawn, LifeHandle, MetricsSpawn, MetricsHandle,
       Monitor, MonitorFails, MonitorReap, MonitorSend, MetricsTick, ChildExit, actorVars
  <2> QED BY <2>1
<1> QED BY <1>1, <1>2, <1>3, <1>4 DEF Next

(* However pids are recycled, a stop, a failed start or a restart signals  *)
(* and aborts its own process and no other watched one.                    *)
THEOREM PidHitsTargetHolds == Spec => PidHitsTarget
<1>1. WatchIInv /\ [Next]_vars => [HitsOnlyItsOwn]_vars
  BY NextHitsOnlyItsOwn
<1> QED BY <1>1, WatchInvariant, PTL DEF Spec, PidHitsTarget

-----------------------------------------------------------------------------
(* Who stops managing a process.                                           *)

(* Whoever has nothing to do, or has yet to fork for a start, holds none. *)
EmptyHanded ==
  \A a \in Actors :
    \/ pc[a] \in {"idle", "sweep", "recv", "dead", "panicked"}
    \/ a # Handler /\ pc[a] = "fork"
    => job[a].inst = None

LEMMA EmptyStart ==
  ASSUME TypeInv, EmptyHanded, NEW a \in Actors, StartStep(a)
  PROVE  EmptyHanded'
<1>1. \A b \in Actors \ {a} : pc'[b] = pc[b] /\ job'[b] = job[b]
  BY DEF StartStep, Fork, ForkFails, Streams, StreamsFail, SetupFails, SubmitLife,
     SubmitMetrics, Refuse, Insert, GiveUp, Panics, Finish, Goto, TypeInv, TypeOK
<1>2. pc'[a] \in {"forked", "setup", "submitMetrics", "insert"} \/ job'[a] = NoJob
  BY DEF StartStep, Fork, ForkFails, Streams, StreamsFail, SetupFails, SubmitLife,
     SubmitMetrics, Refuse, Insert, GiveUp, Panics, Finish, Goto, TypeInv, TypeOK
<1> QED BY <1>1, <1>2 DEF EmptyHanded, NoJob

LEMMA EmptyNext ==
  ASSUME TypeInv, EmptyHanded, [Next]_vars
  PROVE  EmptyHanded'
<1>1. ASSUME NEW c \in Clients, Command(c) \/ ClientStep(c), ~StartStep(c) PROVE EmptyHanded'
  <2>1. c \in Actors /\ c # Handler
    BY SupervisorAssumption DEF Actors
  <2>2. \A b \in Actors \ {c} : pc'[b] = pc[b] /\ job'[b] = job[b]
    BY <1>1, <2>1 DEF Command, ClientStep, StartCheck, StopRemove, ShutdownBegin, StopTasks,
       StopKill, SweepKill, ShutdownExit, Panics, Finish, Goto, TypeInv, TypeOK
  <2>3. \/ pc'[c] \in {"stopTasks", "stopKill"}
        \/ job'[c].inst = None
        \/ pc[c] \in {"idle", "sweep"} /\ job'[c] = job[c]
    BY <1>1, <2>1 DEF Command, ClientStep, StartCheck, StopRemove, ShutdownBegin, StopTasks,
       StopKill, SweepKill, ShutdownExit, Panics, Finish, Goto, NoJob, TypeInv, TypeOK
  <2> QED BY <2>2, <2>3 DEF EmptyHanded
<1>2. CASE HandlerRecv \/ HandlerDecide \/ HandlerForget
  <2>1. Handler \in Actors
    BY DEF Actors
  <2>2. \A b \in Actors \ {Handler} : pc'[b] = pc[b] /\ job'[b] = job[b]
    BY <1>2, <2>1 DEF HandlerRecv, HandlerDecide, HandlerForget, Panics, Finish, Goto, TypeInv,
       TypeOK
  <2>3. \/ pc'[Handler] \in {"decide", "fork", "forget"}
        \/ job'[Handler].inst = None
        \/ pc[Handler] = "recv" /\ job'[Handler] = job[Handler]
    BY <1>2, <2>1 DEF HandlerRecv, HandlerDecide, HandlerForget, Panics, Finish, Goto, NoJob,
       TypeInv, TypeOK
  <2> QED BY <2>2, <2>3 DEF EmptyHanded
<1>3. ASSUME NEW a \in Actors, StartStep(a) PROVE EmptyHanded'
  BY <1>3, EmptyStart
<1>4. CASE \/ Coordinators \/ LogPoisoned
           \/ \E j \in Instances : Monitor(j) \/ MetricsTick(j) \/ ChildExit(j)
  <2>1. pc' = pc /\ job' = job
    BY <1>4 DEF LogPoisoned, Coordinators, LifeSpawn, LifeHandle, MetricsSpawn, MetricsHandle,
       Monitor, MonitorFails, MonitorReap, MonitorSend, MetricsTick, ChildExit, actorVars
  <2> QED BY <2>1 DEF EmptyHanded
<1>5. CASE UNCHANGED vars
  BY <1>5 DEF vars, actorVars, EmptyHanded
<1>6. Handler \in Actors /\ Clients \subseteq Actors
  BY DEF Actors
<1> QED BY <1>1, <1>2, <1>3, <1>4, <1>5, <1>6 DEF Next, HandlerStep

LEMMA EmptyInvariant == Spec => []EmptyHanded
<1>1. Init => EmptyHanded
  BY DEF Init, EmptyHanded, NoJob
<1>2. TypeInv /\ EmptyHanded /\ [Next]_vars => EmptyHanded'
  BY EmptyNext
<1> QED BY <1>1, <1>2, TypeInvariant, PTL DEF Spec

(* No entry and no actor lost the instance. *)
LEMMA ManagedStays ==
  ASSUME NEW i \in Born, Managed(i), registry' = registry,
         \A a \in Actors : job[a].inst = i => job'[a].inst = i
  PROVE  Managed(i)'
  BY DEF Managed, Registered

(* A start lets go of the child it forked when it has killed it, or when   *)
(* its streams fail; of what the name was registered for when it inserts;  *)
(* the restart handler also of the process it replaces when it forks, or   *)
(* fails to, and of a child it meant to kill when the log is poisoned.     *)
LEMMA StartKeeps ==
  ASSUME TypeInv, EmptyHanded, NEW a \in Actors, StartStep(a),
         NEW i \in Born, proc'[i] = "alive", Managed(i), ~Managed(i)'
  PROVE  \/ pc[a] = "insert" /\ registry[job[a].name] = i
         \/ a = Handler /\ pc[a] = "fork" /\ job[a].inst = i
         \/ LostAtFork(i) \/ LostToPoison(i)
<1>1. i \in Instances /\ i # None
  BY BornType DEF Born, None
<1>2. \A b \in Actors \ {a} : job'[b] = job[b]
  BY DEF StartStep, Fork, ForkFails, Streams, StreamsFail, SetupFails, SubmitLife,
     SubmitMetrics, Refuse, Insert, GiveUp, Panics, Finish, TypeInv, TypeOK
<1>3. registry' = registry => job[a].inst = i /\ job'[a].inst # i
  BY <1>2, ManagedStays
<1>4. CASE ForkFails(a) \/ \E p \in Pids : Fork(a, p)
  <2>1. pc[a] = "fork" /\ registry' = registry
    BY <1>4 DEF ForkFails, Fork
  <2> QED BY <1>1, <1>3, <2>1 DEF EmptyHanded
<1>5. CASE SetupFails(a) \/ (Refuse(a) /\ pc[a] \in {"setup", "submitMetrics"})
  <2>1. job[a].inst = i /\ pc[a] \in {"setup", "submitMetrics"}
    BY <1>3, <1>5 DEF SetupFails, Refuse
  <2>2. CASE LogPanics(a)
    BY <2>1, <2>2 DEF LogPanics, LostToPoison
  <2>3. CASE ~LogPanics(a)
    <3>1. Sigkill(info[i].pid)
      BY <1>5, <2>1, <2>3 DEF SetupFails, Refuse
    <3>2. proc'[i] # "alive"
      BY <1>1, <3>1 DEF Sigkill
    <3> QED BY <3>2
  <2> QED BY <2>2, <2>3
<1>6. CASE ~Refuse(a) /\ (SubmitLife(a) \/ SubmitMetrics(a))
  BY <1>3, <1>6 DEF SubmitLife, SubmitMetrics
<1>8. CASE Streams(a)
  BY <1>3, <1>8 DEF Streams
<1>9. CASE StreamsFail(a)
  <2>1. pc[a] = "forked" /\ IOErrors /\ registry' = registry
    BY <1>9 DEF StreamsFail
  <2> QED BY <1>3, <2>1 DEF LostAtFork
<1>7. CASE Insert(a)
  <2>1. job[a].name \in Names /\ registry \in [Names -> Instances \cup {None}]
    BY <1>7 DEF Insert, StartLabel, TypeInv, TypeOK, JobOK
  <2>2. registry' = [registry EXCEPT ![job[a].name] = job[a].inst] /\ pc[a] = "insert"
    BY <1>7 DEF Insert
  <2>3. job[a].inst # i
    BY <2>1, <2>2 DEF Managed, Registered
  <2>4. \A b \in Actors : job[b].inst # i
    BY <1>2, <2>3 DEF Managed
  <2>5. PICK n \in Names : registry[n] = i
    BY <2>4 DEF Managed, Registered
  <2>6. n = job[a].name
    BY <2>1, <2>2, <2>5 DEF Managed, Registered
  <2> QED BY <2>2, <2>5, <2>6
<1> QED BY <1>4, <1>5, <1>6, <1>7, <1>8, <1>9 DEF StartStep, SubmitLife, SubmitMetrics

(* Taking an entry out of the registry hands its process to the taker. *)
LEMMA TakeKeeps ==
  ASSUME TypeInv, NEW a \in Actors, job[a].inst = None, NEW n \in Names,
         registry' = [registry EXCEPT ![n] = None],
         job'[a].inst = registry[n], \A b \in Actors \ {a} : job'[b] = job[b],
         NEW i \in Born, Managed(i)
  PROVE  Managed(i)'
<1>1. i # None
  BY DEF Born, None
<1>2. CASE Registered(i)
  BY <1>2 DEF Managed, Registered, TypeInv, TypeOK
<1>3. CASE \E b \in Actors : job[b].inst = i
  BY <1>1, <1>3 DEF Managed
<1> QED BY <1>2, <1>3 DEF Managed

LEMMA NextOrphans ==
  ASSUME TypeInv, EmptyHanded, Next, NEW i \in Born, proc'[i] = "alive",
         Managed(i), ~Managed(i)', daemon' = "up"
  PROVE  Overwritten(i) \/ TakenForAnother(i) \/ LostAtFork(i) \/ LostToPoison(i)
<1>1. i \in Instances /\ i # None /\ Handler \in Actors /\ Clients \subseteq Actors
  BY BornType DEF Born, None, Actors
<1>2. ~(registry' = registry /\ job' = job)
  BY ManagedStays
<1>3. ASSUME NEW c \in Clients, Command(c) PROVE FALSE
  <2>1. job[c].inst = None
    BY <1>1, <1>3 DEF Command, StartCheck, StopRemove, ShutdownBegin, EmptyHanded
  <2>2. \A b \in Actors \ {c} : job'[b] = job[b]
    BY <1>3 DEF Command, StartCheck, StopRemove, ShutdownBegin, TypeInv, TypeOK
  <2>3. CASE registry' = registry
    BY <1>1, <2>1, <2>2, <2>3, ManagedStays
  <2>4. CASE registry' # registry
    <3>1. PICK n \in Names : StopRemove(c, n)
      BY <1>3, <2>4 DEF Command, StartCheck, ShutdownBegin
    <3>2. registry' = [registry EXCEPT ![n] = None] /\ job'[c].inst = registry[n]
      BY <1>1, <3>1 DEF StopRemove, TypeInv, TypeOK
    <3> QED BY <1>1, <2>1, <2>2, <3>2, TakeKeeps
  <2> QED BY <2>3, <2>4
<1>4. ASSUME NEW c \in Clients, StopTasks(c) PROVE LostToPoison(i)
  <2>1. pc[c] = "stopTasks" /\ poisoned /\ registry' = registry
    BY <1>2, <1>4 DEF StopTasks
  <2>2. \A b \in Actors \ {c} : job'[b] = job[b]
    BY <1>4, <2>1 DEF StopTasks, Panics, Finish, TypeInv, TypeOK
  <2>3. job[c].inst = i
    BY <2>1, <2>2, ManagedStays
  <2> QED BY <2>1, <2>3 DEF LostToPoison
<1>10. ASSUME NEW c \in Clients, ClientStep(c), ~StartStep(c), ~StopTasks(c) PROVE FALSE
  <2>1. StopKill(c)
    BY <1>2, <1>10 DEF ClientStep, SweepKill, ShutdownExit
  <2>2. \A b \in Actors \ {c} : job'[b] = job[b]
    BY <2>1 DEF StopKill, Finish, TypeInv, TypeOK
  <2>3. job[c].inst = i
    BY <2>1, <2>2, ManagedStays DEF StopKill
  <2>4. proc'[i] # "alive"
    BY <1>1, <2>1, <2>3 DEF StopKill, Sigkill
  <2> QED BY <2>4
<1>5. CASE HandlerRecv
  <2>1. job[Handler].inst = None
    BY <1>1, <1>5 DEF HandlerRecv, EmptyHanded
  <2>2. PICK n \in Names : /\ registry' = [registry EXCEPT ![n] = None]
                           /\ job'[Handler].inst = registry[n]
                           /\ \A b \in Actors \ {Handler} : job'[b] = job[b]
    <3> DEFINE n == Head(restartQ).name
               taken == [name |-> n, pol |-> info[registry[n]].pol, inst |-> registry[n]]
    <3>1. restartQ # <<>> /\ restartQ \in Seq([name : Names, inst : Instances])
      BY <1>5 DEF HandlerRecv, TypeInv, TypeOK
    <3>2. Head(restartQ) \in [name : Names, inst : Instances]
      BY <3>1, HeadTailProperties
    <3>3. n \in Names
      BY <3>2
    <3>4. registry' = [registry EXCEPT ![n] = None] /\ job' = [job EXCEPT ![Handler] = taken]
      BY <1>2, <1>5 DEF HandlerRecv
    <3>5. taken.inst = registry[n]
      OBVIOUS
    <3> HIDE DEF n, taken
    <3>6. /\ job'[Handler].inst = registry[n]
          /\ \A b \in Actors \ {Handler} : job'[b] = job[b]
      BY <1>1, <3>4, <3>5 DEF TypeInv, TypeOK
    <3> QED BY <3>3, <3>4, <3>6
  <2> QED BY <1>1, <2>1, <2>2, TakeKeeps
<1>6. CASE HandlerDecide
  <2>1. registry' = registry /\ \A a \in Actors : job'[a].inst = job[a].inst
    <3>1. job[Handler] \in Job /\ job \in [Actors -> Job]
      BY <1>1 DEF TypeInv, TypeOK
    <3>2. /\ registry' = registry
          /\ job' = job \/ job' = [job EXCEPT ![Handler].pol = Spent(job[Handler].pol)]
      BY <1>6 DEF HandlerDecide
    <3> QED BY <3>1, <3>2 DEF Job
  <2> QED BY <2>1, ManagedStays
<1>7. CASE HandlerForget
  <2>1. /\ pc[Handler] = "forget"
        /\ \/ registry' = registry
           \/ registry' = [registry EXCEPT ![job[Handler].name] = None]
        /\ \A b \in Actors \ {Handler} : job'[b] = job[b]
    BY <1>7 DEF HandlerForget, Panics, Finish, TypeInv, TypeOK
  <2>2. ASSUME job[Handler].inst # i, registry[job[Handler].name] # i PROVE FALSE
    <3>1. ASSUME NEW n \in Names, registry[n] = i PROVE Registered(i)'
      BY <2>1, <2>2, <3>1 DEF Registered, TypeInv, TypeOK
    <3> QED BY <2>1, <2>2, <3>1 DEF Managed, Registered
  <2> QED BY <2>1, <2>2 DEF TakenForAnother
<1>8. ASSUME NEW a \in Actors, StartStep(a)
      PROVE  Overwritten(i) \/ TakenForAnother(i) \/ LostAtFork(i) \/ LostToPoison(i)
  BY <1>8, StartKeeps DEF Overwritten, TakenForAnother
<1>9. ~ \/ Coordinators \/ LogPoisoned
        \/ \E j \in Instances : Monitor(j) \/ MetricsTick(j) \/ ChildExit(j)
  BY <1>2 DEF LogPoisoned, Coordinators, LifeSpawn, LifeHandle, MetricsSpawn, MetricsHandle,
     Monitor, MonitorFails, MonitorReap, MonitorSend, MetricsTick, ChildExit, actorVars
<1> QED BY <1>1, <1>3, <1>4, <1>5, <1>6, <1>7, <1>8, <1>9, <1>10 DEF Next, HandlerStep

(* A running process stays in the registry or in some actor's hands, until *)
(* one of the four ways in which the code forgets it: an insert over its   *)
(* entry, a request served on another process, a failure right after the   *)
(* fork (with IOErrors), a panic over a poisoned log before its kill.      *)
(* Every other failure of a start, and every stop, kills it first.         *)
THEOREM NoOtherOrphanHolds == Spec => NoOtherOrphan
<1> DEFINE Kept ==
      \A i \in Born :
        proc'[i] = "alive" /\ Managed(i) /\ ~Managed(i)' /\ daemon' = "up" =>
          Overwritten(i) \/ TakenForAnother(i) \/ LostAtFork(i) \/ LostToPoison(i)
<1>1. TypeInv /\ EmptyHanded /\ [Next]_vars => [Kept]_vars
  BY NextOrphans
<1> HIDE DEF Kept
<1>2. Spec => [][Kept]_vars
  BY <1>1, TypeInvariant, EmptyInvariant, PTL DEF Spec
<1> QED BY <1>2 DEF NoOtherOrphan, Kept
=============================================================================
