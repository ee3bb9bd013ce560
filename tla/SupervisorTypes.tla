-------------------------- MODULE SupervisorTypes --------------------------
(***************************************************************************)
(* Proofs about Supervisor, for every value of its constants.              *)
(***************************************************************************)
EXTENDS SupervisorProperties, SequenceTheorems, TLAPS

(* What an actor's locals hold at each label: a client is never at a label *)
(* of the restart handler, nor the other way round, and whoever works on a *)
(* process knows its name and works on one that was forked.                *)
JobOK ==
  \A a \in Actors :
    /\ pc[a] \in IF a = Handler THEN HandlerLabel ELSE ClientLabel
    /\ job[a].inst \in 0..forks
    /\ pc[a] \in StartLabel \cup {"stopTasks", "stopKill", "decide", "forget"}
         => job[a].name \in Names
    /\ pc[a] \in {"forked", "setup", "submitMetrics", "insert",
                  "stopTasks", "stopKill", "decide", "forget"}
         => job[a].inst \in 1..forks

RegistryOK == \A n \in Names : registry[n] \in 0..forks

(* A forked process has a name, and only a forked process has a monitor. *)
BornOK ==
  /\ \A i \in 1..forks : info[i].name \in Names
  /\ \A i \in Instances : life[i].st # "none" => i \in 1..forks

(* The strengthening of TypeOK that is inductive. *)
TypeInv == TypeOK /\ JobOK /\ RegistryOK /\ BornOK

LifeTask    == [st : LifeState, handle : BOOLEAN]
MetricsTask == [st : MetricsState, handle : BOOLEAN]

(* An aborted task is still a task. *)
LEMMA CancelledType ==
  /\ \A t \in LifeTask : Cancelled(t, AwaitsLife) \in LifeTask
  /\ \A t \in MetricsTask : Cancelled(t, AwaitsMetrics) \in MetricsTask
  BY DEF LifeTask, MetricsTask, Cancelled, LifeState, MetricsState

(* A killed child is a zombie; KillTasksByPid only marks tasks as aborted. *)
LEMMA KillTypes ==
  ASSUME TypeOK, NEW p
  PROVE  /\ Sigkill(p) => proc' \in [Instances -> ProcState]
         /\ KillTasksByPid(p) =>
              life' \in [Instances -> LifeTask] /\ metrics' \in [Instances -> MetricsTask]
<1>1. Sigkill(p) => proc' \in [Instances -> ProcState]
  BY DEF TypeOK, Sigkill, ProcState
<1>2. KillTasksByPid(p) => life' \in [Instances -> LifeTask]
  BY CancelledType DEF TypeOK, KillTasksByPid, LifeTask
<1>3. KillTasksByPid(p) => metrics' \in [Instances -> MetricsTask]
  BY CancelledType DEF TypeOK, KillTasksByPid, MetricsTask
<1> QED BY <1>1, <1>2, <1>3

(* A budget that allows a respawn can be spent. *)
LEMMA SpentType ==
  ASSUME NEW pol \in Policy, Respawns(pol)
  PROVE  Spent(pol) \in Policy
  BY DEF Policy, Respawns, Spent

(* An actor at rest. *)
LEMMA NoJobType == NoJob \in Job /\ NoJob.inst = 0 /\ NoPolicy \in Policy
  BY DEF NoJob, Job, NoPolicy, Policy, None

(* Nothing is forked, nothing is registered: every part holds at first. *)
LEMMA TypeInvInit == Init => TypeInv
<1> SUFFICES ASSUME Init PROVE TypeInv
  OBVIOUS
<1>1. /\ info \in [Instances -> Info]
      /\ job \in [Actors -> Job]
  BY NoJobType DEF Init, Info
<1>2. /\ life \in [Instances -> [st : LifeState, handle : BOOLEAN]]
      /\ metrics \in [Instances -> [st : MetricsState, handle : BOOLEAN]]
      /\ proc \in [Instances -> ProcState]
  BY DEF Init, LifeState, MetricsState, ProcState
<1>4. pc \in [Actors -> ClientLabel \cup HandlerLabel]
  BY DEF Init, ClientLabel, HandlerLabel
<1>5. \A a \in Actors : pc[a] \in IF a = Handler THEN HandlerLabel ELSE ClientLabel
  BY DEF Init, ClientLabel, HandlerLabel
<1>6. /\ reviveQ \in Seq(Instances) /\ metricsQ \in Seq(Instances)
      /\ restartQ \in Seq([name : Names, inst : Instances])
  BY DEF Init
<1>7. /\ daemon \in {"up", "exited", "aborted"} /\ poisoned \in BOOLEAN
      /\ registry \in [Names -> Instances \cup {None}]
      /\ sweep \in [Clients -> SUBSET Names]
  BY DEF Init
<1>8. forks \in 0..MaxForks
  BY SupervisorAssumption DEF Init
<1>9. TypeOK
  BY <1>1, <1>2, <1>4, <1>5, <1>6, <1>7, <1>8 DEF TypeOK
<1>3. JobOK /\ RegistryOK /\ BornOK
  BY SupervisorAssumption
  DEF Init, JobOK, RegistryOK, BornOK, ClientLabel, HandlerLabel, StartLabel, NoJob,
      None, Actors, Instances
<1> QED BY <1>3, <1>9 DEF TypeInv

(* An actor whose command or restart ends without having got through: it   *)
(* lets go of what it held, and everything shared stays as it is.          *)
LetsGo(a) ==
  /\ \E l \in (IF a = Handler THEN {"dead", "panicked"} ELSE {"idle"}) : Finish(a, l)
  /\ daemon' \in {daemon, "aborted"}
  /\ UNCHANGED <<kernelVars, registry, taskVars, restartQ, sweep, poisoned>>

(* An error return and a panic are such ends. *)
LEMMA GoingLetsGo ==
  ASSUME NEW a, Panics(a) \/ (GiveUp(a) /\ UNCHANGED daemon),
         UNCHANGED <<kernelVars, registry, taskVars, restartQ, sweep, poisoned>>
  PROVE  LetsGo(a)
  BY DEF LetsGo, Panics, Panic, GiveUp

(* The failures of a start that kill nothing. *)
LEMMA FailuresLetGo ==
  ASSUME NEW a, ForkFails(a) \/ StreamsFail(a)
  PROVE  LetsGo(a)
  BY GoingLetsGo DEF ForkFails, StreamsFail

(* What such an end leaves is typed. *)
LEMMA Type_LetsGo ==
  ASSUME TypeInv, NEW a \in Actors, LetsGo(a)
  PROVE  TypeInv'
<1>1. PICK l \in (IF a = Handler THEN {"dead", "panicked"} ELSE {"idle"}) : Finish(a, l)
  BY DEF LetsGo
<1>2. NoJob \in Job /\ NoJob.inst = 0
  BY NoJobType
<1>3. TypeOK'
  BY <1>1, <1>2
  DEF LetsGo, Finish, Goto, TypeInv, TypeOK, kernelVars, taskVars, ClientLabel, HandlerLabel
<1>4. JobOK'
  BY <1>1, <1>2
  DEF LetsGo, Finish, Goto, TypeInv, TypeOK, JobOK, kernelVars, taskVars, ClientLabel,
      HandlerLabel, StartLabel
<1> QED BY <1>3, <1>4 DEF LetsGo, TypeInv, RegistryOK, BornOK, kernelVars, taskVars

(* A forked process has a policy. *)
LEMMA BornType ==
  ASSUME TypeInv, NEW i \in 1..forks
  PROVE  i \in Instances /\ info[i] \in Info /\ info[i].pol \in Policy
<1>1. i \in Instances
  BY SupervisorAssumption DEF TypeInv, TypeOK, Instances
<1>2. info[i] \in Info
  BY <1>1 DEF TypeInv, TypeOK
<1> QED BY <1>1, <1>2 DEF Info

(* Updating one field of one task keeps the table of tasks well-typed. *)
LEMMA TaskUpdate ==
  ASSUME NEW States, NEW f \in [Instances -> [st : States, handle : BOOLEAN]],
         NEW i, NEW s \in States
  PROVE  /\ [f EXCEPT ![i].st = s] \in [Instances -> [st : States, handle : BOOLEAN]]
         /\ [f EXCEPT ![i].handle = TRUE] \in [Instances -> [st : States, handle : BOOLEAN]]
<1>1. ASSUME i \in Instances
      PROVE  /\ [f[i] EXCEPT !.st = s] \in [st : States, handle : BOOLEAN]
             /\ [f[i] EXCEPT !.handle = TRUE] \in [st : States, handle : BOOLEAN]
  BY <1>1
<1>2. /\ [f EXCEPT ![i] = [f[i] EXCEPT !.st = s]] \in [Instances -> [st : States, handle : BOOLEAN]]
      /\ [f EXCEPT ![i] = [f[i] EXCEPT !.handle = TRUE]] \in [Instances -> [st : States, handle : BOOLEAN]]
  BY <1>1
<1> QED BY <1>2

(* What such an update changes. *)
LEMMA TaskState ==
  ASSUME NEW States, NEW f \in [Instances -> [st : States, handle : BOOLEAN]], NEW i, NEW s
  PROVE  \A j \in Instances :
           /\ [f EXCEPT ![i].st = s][j].st = IF j = i THEN s ELSE f[j].st
           /\ [f EXCEPT ![i].handle = TRUE][j].st = f[j].st
<1>1. \A t \in [st : States, handle : BOOLEAN] :
        [t EXCEPT !.st = s].st = s /\ [t EXCEPT !.handle = TRUE].st = t.st
  OBVIOUS
<1>2. \A j \in Instances :
        /\ [f EXCEPT ![i] = [f[i] EXCEPT !.st = s]][j].st = IF j = i THEN s ELSE f[j].st
        /\ [f EXCEPT ![i] = [f[i] EXCEPT !.handle = TRUE]][j].st = f[j].st
  BY <1>1
<1> QED BY <1>2

(* One monitor changes state. *)
LEMMA LifeMoves ==
  ASSUME TypeOK, NEW k \in Instances, NEW s, life' = [life EXCEPT ![k].st = s]
  PROVE  \A j \in Instances : life'[j].st = IF j = k THEN s ELSE life[j].st
<1>1. life \in [Instances -> [st : LifeState, handle : BOOLEAN]]
  BY DEF TypeOK
<1> QED BY <1>1, TaskState

(* One metrics task changes state. *)
LEMMA MetricsMoves ==
  ASSUME TypeOK, NEW k \in Instances, NEW s, metrics' = [metrics EXCEPT ![k].st = s]
  PROVE  \A j \in Instances : metrics'[j].st = IF j = k THEN s ELSE metrics[j].st
<1>1. metrics \in [Instances -> [st : MetricsState, handle : BOOLEAN]]
  BY DEF TypeOK
<1> QED BY <1>1, TaskState

(* A handle is kept: no task changes state. *)
LEMMA HandlesMove ==
  ASSUME TypeOK, NEW k
  PROVE  /\ life' = [life EXCEPT ![k].handle = TRUE] =>
              \A j \in Instances : life'[j].st = life[j].st
         /\ metrics' = [metrics EXCEPT ![k].handle = TRUE] =>
              \A j \in Instances : metrics'[j].st = metrics[j].st
<1>1. /\ life \in [Instances -> [st : LifeState, handle : BOOLEAN]]
      /\ metrics \in [Instances -> [st : MetricsState, handle : BOOLEAN]]
  BY DEF TypeOK
<1> QED BY <1>1, TaskState

(* So does giving one actor's locals a new policy or instance. *)
LEMMA JobUpdate ==
  ASSUME NEW f \in [Actors -> Job], NEW a, NEW pol \in Policy, NEW i \in Instances \cup {None}
  PROVE  /\ [f EXCEPT ![a].pol = pol] \in [Actors -> Job]
         /\ [f EXCEPT ![a].inst = i] \in [Actors -> Job]
<1>1. ASSUME a \in Actors
      PROVE  [f[a] EXCEPT !.pol = pol] \in Job /\ [f[a] EXCEPT !.inst = i] \in Job
  BY <1>1 DEF Job
<1>2. /\ [f EXCEPT ![a] = [f[a] EXCEPT !.pol = pol]] \in [Actors -> Job]
      /\ [f EXCEPT ![a] = [f[a] EXCEPT !.inst = i]] \in [Actors -> Job]
  BY <1>1
<1> QED BY <1>2

(* What ShutdownBegin does to a task. *)
LEMMA ForgottenType ==
  /\ \A t \in LifeTask : [Cancelled(t, AwaitsLife) EXCEPT !.handle = FALSE] \in LifeTask
  /\ \A t \in MetricsTask : [Cancelled(t, AwaitsMetrics) EXCEPT !.handle = FALSE] \in MetricsTask
<1>1. /\ \A t \in LifeTask : [t EXCEPT !.handle = FALSE] \in LifeTask
      /\ \A t \in MetricsTask : [t EXCEPT !.handle = FALSE] \in MetricsTask
  BY DEF LifeTask, MetricsTask
<1> QED BY <1>1, CancelledType

(* No process gets a monitor by having its tasks aborted. *)
LEMMA KillLife ==
  ASSUME TypeOK, NEW p, KillTasksByPid(p)
  PROVE  \A i \in Instances : life'[i].st # "none" => life[i].st # "none"
<1>1. \A t \in LifeTask : Cancelled(t, AwaitsLife).st # "none" => t.st # "none"
  BY DEF LifeTask, Cancelled, AwaitsLife
<1> QED BY <1>1 DEF KillTasksByPid, TypeOK, LifeTask

(* Fork: A new child takes the next instance, and its forker holds it. *)
LEMMA Type_Fork ==
  ASSUME TypeInv, NEW a \in Actors, NEW p \in Pids, Fork(a, p)
  PROVE  TypeInv'
<1> DEFINE i == forks + 1
           rec == [name |-> job[a].name, pid |-> p, pol |-> job[a].pol,
                   root |-> IF job[a].inst = None THEN i ELSE info[job[a].inst].root,
                   gen |-> IF job[a].inst = None THEN 1 ELSE info[job[a].inst].gen + 1]
<1>1. i \in Instances /\ i \in Nat /\ forks \in Nat
  BY SupervisorAssumption DEF Fork, TypeInv, TypeOK, Instances
<1>2. job[a] \in Job /\ (job[a].inst # None => info[job[a].inst] \in Info)
  BY DEF TypeInv, TypeOK, Job
<1>3. rec \in Info
  BY <1>1, <1>2 DEF Info, Job
<1>4. info' \in [Instances -> Info]
  BY <1>3 DEF Fork, TypeInv, TypeOK
<1>5. job' \in [Actors -> Job]
  BY <1>1, JobUpdate, <1>2 DEF Fork, TypeInv, TypeOK, Policy, Job
<1>6. TypeOK'
  BY <1>1, <1>4, <1>5, SupervisorAssumption
  DEF Fork, TypeInv, TypeOK, Goto, taskVars, ProcState, ClientLabel, HandlerLabel,
      StartLabel
<1>7. JobOK'
  BY SupervisorAssumption
  DEF Fork, TypeInv, TypeOK, JobOK, Goto, taskVars, ClientLabel, HandlerLabel,
      StartLabel, Job, Instances, None, Actors
<1>8. RegistryOK'
  BY DEF Fork, TypeInv, TypeOK, JobOK, RegistryOK, taskVars, StartLabel, Instances,
      None, Actors
<1>9. BornOK'
  BY <1>1 DEF Fork, TypeInv, TypeOK, JobOK, BornOK, taskVars, StartLabel, Instances
<1> QED BY <1>6, <1>7, <1>8, <1>9 DEF TypeInv

(* Refuse: A child is killed and its tasks are aborted, unless logging panics. *)
LEMMA Type_Refuse ==
  ASSUME TypeInv, NEW a \in Actors, Refuse(a)
  PROVE  TypeInv'
<1>1. CASE LogPanics(a)
  BY <1>1, GoingLetsGo, Type_LetsGo DEF Refuse, kernelVars, taskVars
<1>2. CASE ~LogPanics(a)
  <2>0. /\ proc' \in [Instances -> ProcState]
        /\ life' \in [Instances -> LifeTask] /\ metrics' \in [Instances -> MetricsTask]
    BY <1>2, KillTypes DEF Refuse, TypeInv
  <2>1. TypeOK'
    BY <1>2, <2>0, NoJobType
    DEF Refuse, TypeInv, TypeOK, Goto, Finish, GiveUp, LifeTask, MetricsTask,
        ClientLabel, HandlerLabel
  <2>2. JobOK'
    BY <1>2
    DEF Refuse, TypeInv, TypeOK, JobOK, Goto, Finish, GiveUp, ClientLabel,
        HandlerLabel, StartLabel, NoJob, None
  <2>3. RegistryOK'
    BY <1>2 DEF TypeInv, RegistryOK, Refuse
  <2>4. BornOK'
    BY <1>2, KillLife DEF Refuse, TypeInv, BornOK
  <2> QED BY <2>1, <2>2, <2>3, <2>4 DEF TypeInv
<1> QED BY <1>1, <1>2

(* SubmitLife: A refused task leaves the tables typed; an accepted one is queued. *)
LEMMA Type_SubmitLife ==
  ASSUME TypeInv, NEW a \in Actors, SubmitLife(a)
  PROVE  TypeInv'
<1>1. CASE Refuse(a)
  BY <1>1, Type_Refuse
<1>2. CASE ~Refuse(a)
  <2> DEFINE i == job[a].inst
  <2>1. /\ life' = [life EXCEPT ![i].st = "queued"]
        /\ reviveQ' = Append(reviveQ, i)
        /\ i \in Instances
        /\ UNCHANGED <<daemon, proc, info, forks, registry, restartQ, job, sweep, poisoned>>
        /\ Goto(a, "submitMetrics")
        /\ UNCHANGED <<metrics, metricsQ>>
    BY <1>2, SupervisorAssumption
    DEF SubmitLife, TypeInv, TypeOK, JobOK, Instances, kernelVars
  <2>2. life' \in [Instances -> LifeTask]
    BY <2>1, TaskUpdate DEF TypeInv, TypeOK, LifeTask, LifeState
  <2>3. reviveQ' \in Seq(Instances)
    BY <2>1 DEF TypeInv, TypeOK
  <2>4. TypeOK'
    BY <2>1, <2>2, <2>3, SupervisorAssumption
    DEF TypeInv, TypeOK, Goto, LifeTask, ClientLabel, HandlerLabel, StartLabel
  <2>5. JobOK'
    BY <2>1, SupervisorAssumption
    DEF SubmitLife, TypeInv, TypeOK, JobOK, Goto, kernelVars, ClientLabel,
        HandlerLabel, StartLabel, Job, Instances, None, Actors
  <2>6. RegistryOK'
    BY <2>1 DEF TypeInv, RegistryOK
  <2>7. BornOK'
    BY <2>1 DEF SubmitLife, TypeInv, TypeOK, JobOK, BornOK, StartLabel
  <2> QED BY <2>4, <2>5, <2>6, <2>7 DEF TypeInv
<1> QED BY <1>1, <1>2

(* SubmitMetrics: The same for the metrics task. *)
LEMMA Type_SubmitMetrics ==
  ASSUME TypeInv, NEW a \in Actors, SubmitMetrics(a)
  PROVE  TypeInv'
<1>1. CASE Refuse(a)
  BY <1>1, Type_Refuse
<1>2. CASE ~Refuse(a)
  <2> DEFINE i == job[a].inst
  <2>1. /\ metrics' = [metrics EXCEPT ![i].st = "queued"]
        /\ metricsQ' = Append(metricsQ, i)
        /\ i \in Instances
        /\ UNCHANGED <<daemon, proc, info, forks, registry, restartQ, job, sweep, poisoned>>
        /\ Goto(a, "insert")
        /\ UNCHANGED <<life, reviveQ>>
    BY <1>2, SupervisorAssumption
    DEF SubmitMetrics, TypeInv, TypeOK, JobOK, Instances, kernelVars
  <2>2. metrics' \in [Instances -> MetricsTask]
    BY <2>1, TaskUpdate DEF TypeInv, TypeOK, MetricsTask, MetricsState
  <2>3. metricsQ' \in Seq(Instances)
    BY <2>1 DEF TypeInv, TypeOK
  <2>4. TypeOK'
    BY <2>1, <2>2, <2>3, SupervisorAssumption
    DEF TypeInv, TypeOK, Goto, MetricsTask, ClientLabel, HandlerLabel, StartLabel
  <2>5. JobOK'
    BY <2>1, SupervisorAssumption
    DEF SubmitMetrics, TypeInv, TypeOK, JobOK, Goto, kernelVars, ClientLabel,
        HandlerLabel, StartLabel, Job, Instances, None, Actors
  <2>6. RegistryOK'
    BY <2>1 DEF TypeInv, RegistryOK
  <2>7. BornOK'
    BY <2>1 DEF SubmitMetrics, TypeInv, TypeOK, JobOK, BornOK, StartLabel
  <2> QED BY <2>4, <2>5, <2>6, <2>7 DEF TypeInv
<1> QED BY <1>1, <1>2

(* StopRemove: The client takes the entry, and with it a forked process. *)
LEMMA Type_StopRemove ==
  ASSUME TypeInv, NEW c \in Clients, NEW n \in Names, StopRemove(c, n)
  PROVE  TypeInv'
<1>1. /\ registry[n] \in Instances /\ registry[n] \in 1..forks
      /\ info[registry[n]].pol \in Policy
      /\ c \in Actors /\ c # Handler
  BY SupervisorAssumption
  DEF StopRemove, TypeInv, TypeOK, RegistryOK, None, Instances, Info, Actors
<1> DEFINE new == [name |-> n, pol |-> info[registry[n]].pol, inst |-> registry[n]]
<1>2. new \in Job
  BY <1>1 DEF Job
<1>3. job' = [job EXCEPT ![c] = new]
  BY DEF StopRemove
<1>4. TypeOK'
  BY <1>1, <1>2, <1>3
  DEF StopRemove, TypeInv, TypeOK, Goto, kernelVars, taskVars, ClientLabel, None
<1>5. JobOK'
  BY <1>1, <1>3
  DEF StopRemove, TypeInv, TypeOK, JobOK, Goto, kernelVars, taskVars, ClientLabel,
      HandlerLabel, StartLabel, Job, Instances, None, Actors
<1>6. RegistryOK'
  BY DEF StopRemove, TypeInv, TypeOK, JobOK, RegistryOK, kernelVars, taskVars,
      StartLabel, Instances, None, Actors
<1> QED BY <1>4, <1>5, <1>6 DEF StopRemove, TypeInv, BornOK, kernelVars, taskVars

(* ShutdownBegin: Aborting and forgetting every task keeps them typed. *)
LEMMA Type_ShutdownBegin ==
  ASSUME TypeInv, NEW c \in Clients, ShutdownBegin(c)
  PROVE  TypeInv'
<1>1. /\ life' \in [Instances -> LifeTask]
      /\ metrics' \in [Instances -> MetricsTask]
  BY ForgottenType DEF ShutdownBegin, TypeInv, TypeOK, LifeTask, MetricsTask
<1>2. TypeOK'
  BY <1>1, SupervisorAssumption
  DEF ShutdownBegin, TypeInv, TypeOK, Goto, kernelVars, LifeTask, MetricsTask,
      ClientLabel, HandlerLabel, Actors
<1>3. JobOK'
  BY SupervisorAssumption
  DEF ShutdownBegin, TypeInv, TypeOK, JobOK, Goto, kernelVars, ClientLabel,
      HandlerLabel, StartLabel, Job, Instances, None, Actors
<1>4. RegistryOK'
  BY DEF ShutdownBegin, TypeInv, TypeOK, JobOK, RegistryOK, kernelVars, StartLabel,
      Instances, None, Actors
<1>5. BornOK'
  <2>1. \A t \in LifeTask :
          [Cancelled(t, AwaitsLife) EXCEPT !.handle = FALSE].st # "none" => t.st # "none"
    BY DEF LifeTask, Cancelled, AwaitsLife
  <2> QED BY <2>1 DEF ShutdownBegin, TypeInv, TypeOK, BornOK, LifeTask, kernelVars
<1> QED BY <1>2, <1>3, <1>4, <1>5 DEF TypeInv

(* HandlerRecv: The request names an entry: the handler panics or takes it. *)
LEMMA Type_HandlerRecv ==
  ASSUME TypeInv, HandlerRecv
  PROVE  TypeInv'
<1> DEFINE n == Head(restartQ).name
           i == registry[n]
<1>1. n \in Names /\ restartQ' \in Seq([name : Names, inst : Instances])
  <2>1. restartQ # <<>> /\ restartQ \in Seq([name : Names, inst : Instances])
    BY DEF HandlerRecv, TypeInv, TypeOK
  <2>2. /\ Head(restartQ) \in [name : Names, inst : Instances]
        /\ Tail(restartQ) \in Seq([name : Names, inst : Instances])
    BY <2>1, HeadTailProperties
  <2> QED BY <2>2 DEF HandlerRecv
<1>2. Handler \in Actors /\ Handler \notin Clients /\ i \in Instances \cup {None} /\ i \in 0..forks
  BY <1>1, SupervisorAssumption DEF Actors, TypeInv, TypeOK, RegistryOK
<1>3. CASE i = None
  <2>1. /\ daemon' \in {"up", "aborted"}
        /\ pc' = [pc EXCEPT ![Handler] = "panicked"]
        /\ UNCHANGED <<proc, info, forks, registry, life, metrics, reviveQ, metricsQ, job, sweep, poisoned>>
    BY <1>3 DEF HandlerRecv, Panic, Goto, kernelVars, taskVars
  <2>2. TypeOK'
    BY <1>1, <1>2, <2>1 DEF TypeInv, TypeOK, HandlerLabel
  <2>3. JobOK'
    BY <1>2, <2>1 DEF TypeInv, TypeOK, JobOK, HandlerLabel, StartLabel
  <2> QED BY <2>1, <2>2, <2>3 DEF TypeInv, RegistryOK, BornOK
<1>4. CASE i # None
  <2> DEFINE new == [name |-> n, pol |-> info[i].pol, inst |-> i]
  <2>1. /\ job' = [job EXCEPT ![Handler] = new]
        /\ pc' = [pc EXCEPT ![Handler] = "decide"]
        /\ registry' = [registry EXCEPT ![n] = None]
        /\ UNCHANGED <<daemon, proc, info, forks, life, metrics, reviveQ, metricsQ, sweep, poisoned>>
    BY <1>4 DEF HandlerRecv, Goto, kernelVars, taskVars
  <2>2. new \in Job /\ i \in 1..forks
    BY <1>1, <1>2, <1>4 DEF TypeInv, TypeOK, Info, Job, Instances, None
  <2>3. TypeOK'
    BY <1>1, <1>2, <2>1, <2>2 DEF TypeInv, TypeOK, HandlerLabel, None
  <2>4. JobOK'
    BY <1>1, <1>2, <2>1, <2>2 DEF TypeInv, TypeOK, JobOK, HandlerLabel
  <2>5. RegistryOK'
    BY <2>1, SupervisorAssumption DEF TypeInv, TypeOK, RegistryOK, None
  <2> QED BY <2>1, <2>3, <2>4, <2>5 DEF TypeInv, BornOK
<1> QED BY <1>3, <1>4

(* HandlerDecide: A budget that allows a respawn is spent; otherwise nothing is. *)
LEMMA Type_HandlerDecide ==
  ASSUME TypeInv, HandlerDecide
  PROVE  TypeInv'
<1>1. Handler \in Actors /\ job[Handler] \in Job /\ job[Handler].pol \in Policy
  BY DEF Actors, TypeInv, TypeOK, Job
<1>2. job' \in [Actors -> Job]
  <2>1. CASE Respawns(job[Handler].pol)
    <3>1. Spent(job[Handler].pol) \in Policy
      BY <1>1, <2>1, SpentType
    <3>2. job' = [job EXCEPT ![Handler].pol = Spent(job[Handler].pol)]
      BY <2>1 DEF HandlerDecide
    <3> QED BY <3>1, <3>2, JobUpdate DEF TypeInv, TypeOK
  <2>2. CASE ~Respawns(job[Handler].pol)
    BY <2>2 DEF HandlerDecide, TypeInv, TypeOK
  <2> QED BY <2>1, <2>2
<1>3. /\ life' \in [Instances -> LifeTask]
      /\ metrics' \in [Instances -> MetricsTask]
  BY KillTypes DEF HandlerDecide, TypeInv
<1>4. pc' \in [Actors -> ClientLabel \cup HandlerLabel]
  BY DEF HandlerDecide, Goto, TypeInv, TypeOK, ClientLabel, HandlerLabel, StartLabel
<1>5. /\ \A a \in Actors \ {Handler} : pc'[a] = pc[a]
      /\ pc[Handler] = "decide" /\ pc'[Handler] \in {"fork", "forget"} /\ forks' = forks
  BY <1>1 DEF HandlerDecide, Goto, TypeInv, TypeOK, kernelVars
<1>6. \A a \in Actors : pc'[a] \in IF a = Handler THEN HandlerLabel ELSE ClientLabel
  BY <1>5 DEF TypeInv, TypeOK, HandlerLabel, StartLabel
<1>7. TypeOK'
  BY <1>2, <1>3, <1>4, <1>6
  DEF HandlerDecide, TypeInv, TypeOK, LifeTask, MetricsTask, kernelVars
<1>8. \A a \in Actors : job'[a].name = job[a].name /\ job'[a].inst = job[a].inst
  <2>1. CASE job' = job
    BY <2>1
  <2>2. CASE job' = [job EXCEPT ![Handler].pol = Spent(job[Handler].pol)]
    BY <2>2, <1>1 DEF TypeInv, TypeOK, Job
  <2> QED BY <2>1, <2>2 DEF HandlerDecide
<1>9. JobOK'
  BY <1>5, <1>6, <1>8 DEF TypeInv, JobOK, HandlerLabel, StartLabel
<1>10. RegistryOK' /\ BornOK'
  BY KillLife DEF HandlerDecide, TypeInv, RegistryOK, BornOK, kernelVars
<1> QED BY <1>7, <1>9, <1>10 DEF TypeInv

(* LifeSpawn: The head of the channel is a forked process. *)
LEMMA Type_LifeSpawn ==
  ASSUME TypeInv, LifeSpawn
  PROVE  TypeInv'
<1>1. life' \in [Instances -> LifeTask]
  BY TaskUpdate DEF LifeSpawn, TypeInv, TypeOK, LifeTask, LifeState
<1>2. reviveQ' \in Seq(Instances)
  BY HeadTailProperties DEF LifeSpawn, TypeInv, TypeOK
<1>3. TypeOK'
  BY <1>1, <1>2 DEF LifeSpawn, TypeInv, TypeOK, LifeTask, kernelVars, actorVars
<1>4. BornOK'
  BY HeadTailProperties DEF LifeSpawn, TypeInv, TypeOK, BornOK, kernelVars
<1> QED BY <1>3, <1>4 DEF LifeSpawn, TypeInv, JobOK, RegistryOK, kernelVars, actorVars

(* LifeHandle: The head of the channel is a forked process. *)
LEMMA Type_LifeHandle ==
  ASSUME TypeInv, LifeHandle
  PROVE  TypeInv'
<1>1. life' \in [Instances -> LifeTask]
  BY TaskUpdate DEF LifeHandle, TypeInv, TypeOK, LifeTask, LifeState
<1>2. reviveQ' \in Seq(Instances)
  BY HeadTailProperties DEF LifeHandle, TypeInv, TypeOK
<1>3. TypeOK'
  BY <1>1, <1>2 DEF LifeHandle, TypeInv, TypeOK, LifeTask, kernelVars, actorVars
<1>4. BornOK'
  BY HeadTailProperties DEF LifeHandle, TypeInv, TypeOK, BornOK, kernelVars
<1> QED BY <1>3, <1>4 DEF LifeHandle, TypeInv, JobOK, RegistryOK, kernelVars, actorVars

(* MetricsSpawn: The head of the channel is a forked process. *)
LEMMA Type_MetricsSpawn ==
  ASSUME TypeInv, MetricsSpawn
  PROVE  TypeInv'
<1>1. metrics' \in [Instances -> MetricsTask]
  BY TaskUpdate DEF MetricsSpawn, TypeInv, TypeOK, MetricsTask, MetricsState
<1>2. metricsQ' \in Seq(Instances)
  BY HeadTailProperties DEF MetricsSpawn, TypeInv, TypeOK
<1>3. TypeOK'
  BY <1>1, <1>2 DEF MetricsSpawn, TypeInv, TypeOK, MetricsTask, kernelVars, actorVars
<1>4. BornOK'
  BY HeadTailProperties DEF MetricsSpawn, TypeInv, TypeOK, BornOK, kernelVars
<1> QED BY <1>3, <1>4
DEF MetricsSpawn, TypeInv, JobOK, RegistryOK, kernelVars, actorVars

(* MetricsHandle: The head of the channel is a forked process. *)
LEMMA Type_MetricsHandle ==
  ASSUME TypeInv, MetricsHandle
  PROVE  TypeInv'
<1>1. metrics' \in [Instances -> MetricsTask]
  BY TaskUpdate DEF MetricsHandle, TypeInv, TypeOK, MetricsTask, MetricsState
<1>2. metricsQ' \in Seq(Instances)
  BY HeadTailProperties DEF MetricsHandle, TypeInv, TypeOK
<1>3. TypeOK'
  BY <1>1, <1>2 DEF MetricsHandle, TypeInv, TypeOK, MetricsTask, kernelVars, actorVars
<1>4. BornOK'
  BY HeadTailProperties DEF MetricsHandle, TypeInv, TypeOK, BornOK, kernelVars
<1> QED BY <1>3, <1>4
DEF MetricsHandle, TypeInv, JobOK, RegistryOK, kernelVars, actorVars

(* MonitorFails: Only the state of one monitor changes. *)
LEMMA Type_MonitorFails ==
  ASSUME TypeInv, NEW i \in Instances, MonitorFails(i)
  PROVE  TypeInv'
<1>1. life' \in [Instances -> LifeTask]
  BY TaskUpdate DEF MonitorFails, TypeInv, TypeOK, LifeTask, LifeState
<1>3. TypeOK'
  BY <1>1 DEF MonitorFails, TypeInv, TypeOK, LifeTask, ProcState, kernelVars, actorVars
<1>4. BornOK'
  BY DEF MonitorFails, TypeInv, TypeOK, BornOK, kernelVars
<1> QED BY <1>3, <1>4
DEF MonitorFails, TypeInv, JobOK, RegistryOK, kernelVars, actorVars

(* MonitorReap: Only one child and its monitor change. *)
LEMMA Type_MonitorReap ==
  ASSUME TypeInv, NEW i \in Instances, MonitorReap(i)
  PROVE  TypeInv'
<1>1. life' \in [Instances -> LifeTask]
  BY TaskUpdate DEF MonitorReap, TypeInv, TypeOK, LifeTask, LifeState
<1>3. TypeOK'
  BY <1>1 DEF MonitorReap, TypeInv, TypeOK, LifeTask, ProcState, actorVars
<1>4. BornOK'
  BY DEF MonitorReap, TypeInv, TypeOK, BornOK
<1> QED BY <1>3, <1>4 DEF MonitorReap, TypeInv, JobOK, RegistryOK, actorVars

(* MonitorSend: The request carries the name of a forked process. *)
LEMMA Type_MonitorSend ==
  ASSUME TypeInv, NEW i \in Instances, MonitorSend(i)
  PROVE  TypeInv'
<1>1. life' \in [Instances -> LifeTask]
  <2>1. {"panicked", "sent"} \subseteq LifeState /\ life \in [Instances -> LifeTask]
    BY DEF TypeInv, TypeOK, LifeState, LifeTask
  <2>2. CASE life' = [life EXCEPT ![i].st = "panicked"]
    BY <2>1, <2>2, TaskUpdate DEF LifeTask
  <2>3. CASE life' = [life EXCEPT ![i].st = "sent"]
    BY <2>1, <2>3, TaskUpdate DEF LifeTask
  <2> QED BY <2>2, <2>3 DEF MonitorSend
<1>2. restartQ' \in Seq([name : Names, inst : Instances])
  <2>1. info[i].name \in Names
    BY DEF MonitorSend, TypeInv, BornOK
  <2> DEFINE Request == [name : Names, inst : Instances]
             r == [name |-> info[i].name, inst |-> i]
  <2>2. r \in Request /\ restartQ \in Seq(Request)
    BY <2>1 DEF TypeInv, TypeOK
  <2>3. restartQ' = restartQ \/ restartQ' = Append(restartQ, r)
    BY DEF MonitorSend
  <2> HIDE DEF Request, r
  <2>4. restartQ' \in Seq(Request)
    BY <2>2, <2>3, AppendProperties
  <2> QED BY <2>4 DEF Request
<1>3. TypeOK'
  BY <1>1, <1>2
  DEF MonitorSend, Panic, TypeInv, TypeOK, LifeTask, ProcState, kernelVars, actorVars
<1>4. BornOK'
  BY DEF MonitorSend, TypeInv, TypeOK, BornOK, kernelVars
<1> QED BY <1>3, <1>4 DEF MonitorSend, TypeInv, JobOK, RegistryOK, kernelVars, actorVars

(* MetricsTick: Only the state of one metrics task changes. *)
LEMMA Type_MetricsTick ==
  ASSUME TypeInv, NEW i \in Instances, MetricsTick(i)
  PROVE  TypeInv'
<1>1. metrics' \in [Instances -> MetricsTask]
  <2>1. {"failed", "panicked"} \subseteq MetricsState /\ metrics \in [Instances -> MetricsTask]
    BY DEF TypeInv, TypeOK, MetricsState, MetricsTask
  <2>2. CASE metrics' = [metrics EXCEPT ![i].st = "failed"]
    BY <2>1, <2>2, TaskUpdate DEF MetricsTask
  <2>3. CASE metrics' = [metrics EXCEPT ![i].st = "panicked"]
    BY <2>1, <2>3, TaskUpdate DEF MetricsTask
  <2> QED BY <2>2, <2>3 DEF MetricsTick
<1>3. TypeOK'
  BY <1>1
  DEF MetricsTick, Panic, TypeInv, TypeOK, MetricsTask, ProcState, kernelVars,
      actorVars
<1>4. BornOK'
  BY DEF MetricsTick, TypeInv, TypeOK, BornOK, kernelVars
<1> QED BY <1>3, <1>4 DEF MetricsTick, TypeInv, JobOK, RegistryOK, kernelVars, actorVars

(* StartCheck: The client remembers a name and a policy, and no process yet. *)
LEMMA Type_StartCheck ==
  ASSUME TypeInv, NEW c \in Clients, NEW n \in Names, NEW pol \in Policies, StartCheck(c, n, pol)
  PROVE  TypeInv'
<1>1. TypeOK'
  BY SupervisorAssumption
  DEF StartCheck, TypeInv, TypeOK, Goto, kernelVars, taskVars, ProcState, LifeState,
      MetricsState, ClientLabel, HandlerLabel, StartLabel, Info, Job, Policy,
      Instances, None, Actors
<1>2. JobOK'
  BY SupervisorAssumption
  DEF StartCheck, TypeInv, TypeOK, JobOK, Goto, kernelVars, taskVars, ClientLabel,
      HandlerLabel, StartLabel, Job, Instances, None, Actors
<1>3. RegistryOK'
  BY DEF StartCheck, TypeInv, TypeOK, JobOK, RegistryOK, kernelVars, taskVars,
      StartLabel, Instances, None, Actors
<1>4. BornOK'
  BY DEF StartCheck, TypeInv, TypeOK, BornOK, kernelVars, taskVars, Instances
<1> QED BY <1>1, <1>2, <1>3, <1>4 DEF TypeInv

(* ForkFails, StreamsFail: The actor gives up or panics; a child is left alone. *)
LEMMA Type_Failures ==
  ASSUME TypeInv, NEW a \in Actors, ForkFails(a) \/ StreamsFail(a)
  PROVE  TypeInv'
  BY FailuresLetGo, Type_LetsGo

(* Streams: Only the actor's label changes. *)
LEMMA Type_Streams ==
  ASSUME TypeInv, NEW a \in Actors, Streams(a)
  PROVE  TypeInv'
<1>1. TypeOK'
  BY DEF Streams, TypeInv, TypeOK, Goto, kernelVars, taskVars, ClientLabel, HandlerLabel,
      StartLabel
<1>2. JobOK'
  BY DEF Streams, TypeInv, TypeOK, JobOK, Goto, kernelVars, taskVars, ClientLabel,
      HandlerLabel, StartLabel
<1> QED BY <1>1, <1>2 DEF Streams, TypeInv, RegistryOK, BornOK, kernelVars, taskVars

(* SetupFails: The child is killed, unless logging panics, and the actor gives up. *)
LEMMA Type_SetupFails ==
  ASSUME TypeInv, NEW a \in Actors, SetupFails(a)
  PROVE  TypeInv'
<1>1. CASE LogPanics(a)
  BY <1>1, GoingLetsGo, Type_LetsGo DEF SetupFails, kernelVars
<1>2. CASE ~LogPanics(a)
  <2>0. proc' \in [Instances -> ProcState]
    BY <1>2, KillTypes DEF SetupFails, TypeInv
  <2>1. TypeOK'
    BY <1>2, <2>0, NoJobType
    DEF SetupFails, TypeInv, TypeOK, Goto, Finish, GiveUp, taskVars,
        ClientLabel, HandlerLabel
  <2>2. JobOK'
    BY <1>2
    DEF SetupFails, TypeInv, TypeOK, JobOK, Goto, Finish, GiveUp, taskVars,
        ClientLabel, HandlerLabel, StartLabel, NoJob, None
  <2> QED BY <2>1, <2>2 DEF SetupFails, TypeInv, RegistryOK, BornOK, taskVars
<1> QED BY <1>1, <1>2

(* Insert: The instance an actor holds is a forked one. *)
LEMMA Type_Insert ==
  ASSUME TypeInv, NEW a \in Actors, Insert(a)
  PROVE  TypeInv'
<1>1. TypeOK'
  BY SupervisorAssumption
  DEF Insert, TypeInv, TypeOK, Goto, Finish, kernelVars, taskVars, ProcState,
      LifeState, MetricsState, ClientLabel, HandlerLabel, StartLabel, Info, Job,
      NoJob, NoPolicy, Policy, Instances, None, Actors
<1>2. JobOK'
  BY SupervisorAssumption
  DEF Insert, TypeInv, TypeOK, JobOK, Goto, Finish, kernelVars, taskVars,
      ClientLabel, HandlerLabel, StartLabel, Job, NoJob, Instances, None, Actors
<1>3. RegistryOK'
  BY DEF Insert, TypeInv, TypeOK, JobOK, RegistryOK, kernelVars, taskVars,
      StartLabel, Instances, None, Actors
<1>4. BornOK'
  BY DEF Insert, TypeInv, TypeOK, BornOK, kernelVars, taskVars, Instances
<1> QED BY <1>1, <1>2, <1>3, <1>4 DEF TypeInv

(* StopTasks: Aborting tasks keeps them typed. *)
LEMMA Type_StopTasks ==
  ASSUME TypeInv, NEW c \in Clients, StopTasks(c)
  PROVE  TypeInv'
<1>0. c \in Actors /\ c # Handler
  BY SupervisorAssumption DEF Actors
<1>1. CASE poisoned
  BY <1>0, <1>1, GoingLetsGo, Type_LetsGo DEF StopTasks, kernelVars, taskVars
<1>2. CASE ~poisoned
  <2>1. TypeOK'
    BY <1>0, <1>2, KillTypes
    DEF StopTasks, TypeInv, TypeOK, Goto, kernelVars, LifeTask, MetricsTask, ClientLabel
  <2>2. JobOK'
    BY <1>0, <1>2
    DEF StopTasks, TypeInv, TypeOK, JobOK, Goto, kernelVars, ClientLabel, StartLabel
  <2>3. BornOK'
    BY <1>2, KillLife DEF StopTasks, TypeInv, BornOK, kernelVars
  <2> QED BY <2>1, <2>2, <2>3 DEF StopTasks, TypeInv, RegistryOK, kernelVars
<1> QED BY <1>1, <1>2

(* StopKill: Killing a child keeps it typed. *)
LEMMA Type_StopKill ==
  ASSUME TypeInv, NEW c \in Clients, StopKill(c)
  PROVE  TypeInv'
<1>1. TypeOK'
  BY SupervisorAssumption, KillTypes
  DEF StopKill, TypeInv, TypeOK, Goto, Finish, taskVars, LifeTask, MetricsTask,
      ProcState, LifeState, MetricsState, ClientLabel, HandlerLabel, StartLabel,
      Info, Job, NoJob, NoPolicy, Policy, Instances, None, Actors
<1>2. JobOK'
  BY SupervisorAssumption
  DEF StopKill, TypeInv, TypeOK, JobOK, Goto, Finish, taskVars, ClientLabel,
      HandlerLabel, StartLabel, Job, NoJob, Instances, None, Actors
<1>3. RegistryOK'
  BY DEF StopKill, TypeInv, TypeOK, JobOK, RegistryOK, taskVars, StartLabel,
      Instances, None, Actors
<1>4. BornOK'
  BY KillLife DEF StopKill, TypeInv, TypeOK, BornOK, taskVars, Instances
<1> QED BY <1>1, <1>2, <1>3, <1>4 DEF TypeInv

(* SweepKill: Killing a child keeps it typed. *)
LEMMA Type_SweepKill ==
  ASSUME TypeInv, NEW c \in Clients, NEW n \in Names, SweepKill(c, n)
  PROVE  TypeInv'
<1>1. TypeOK'
  BY SupervisorAssumption, KillTypes
  DEF SweepKill, TypeInv, TypeOK, taskVars, LifeTask, MetricsTask, ProcState,
      LifeState, MetricsState, ClientLabel, HandlerLabel, StartLabel, Info, Job,
      Policy, Instances, None, Actors
<1>2. JobOK'
  BY SupervisorAssumption
  DEF SweepKill, TypeInv, TypeOK, JobOK, taskVars, ClientLabel, HandlerLabel,
      StartLabel, Job, Instances, None, Actors
<1>3. RegistryOK'
  BY DEF SweepKill, TypeInv, TypeOK, JobOK, RegistryOK, taskVars, StartLabel,
      Instances, None, Actors
<1>4. BornOK'
  BY KillLife DEF SweepKill, TypeInv, TypeOK, BornOK, taskVars, Instances
<1> QED BY <1>1, <1>2, <1>3, <1>4 DEF TypeInv

(* ShutdownExit: Only the daemon and the actor change. *)
LEMMA Type_ShutdownExit ==
  ASSUME TypeInv, NEW c \in Clients, ShutdownExit(c)
  PROVE  TypeInv'
<1>1. TypeOK'
  BY SupervisorAssumption
  DEF ShutdownExit, TypeInv, TypeOK, Goto, Finish, kernelVars, taskVars, ProcState,
      LifeState, MetricsState, ClientLabel, HandlerLabel, StartLabel, Info, Job,
      NoJob, NoPolicy, Policy, Instances, None, Actors
<1>2. JobOK'
  BY SupervisorAssumption
  DEF ShutdownExit, TypeInv, TypeOK, JobOK, Goto, Finish, kernelVars, taskVars,
      ClientLabel, HandlerLabel, StartLabel, Job, NoJob, Instances, None, Actors
<1>3. RegistryOK'
  BY DEF ShutdownExit, TypeInv, TypeOK, JobOK, RegistryOK, kernelVars, taskVars,
      StartLabel, Instances, None, Actors
<1>4. BornOK'
  BY DEF ShutdownExit, TypeInv, TypeOK, BornOK, kernelVars, taskVars, Instances
<1> QED BY <1>1, <1>2, <1>3, <1>4 DEF TypeInv

(* HandlerForget: An entry is cleared, unless logging panics. *)
LEMMA Type_HandlerForget ==
  ASSUME TypeInv, HandlerForget
  PROVE  TypeInv'
<1>0. Handler \in Actors
  BY DEF Actors
<1>1. CASE poisoned
  BY <1>0, <1>1, GoingLetsGo, Type_LetsGo DEF HandlerForget
<1>2. CASE ~poisoned
  <2>0. /\ registry' \in [Names -> Instances \cup {None}]
        /\ job' \in [Actors -> Job]
    BY <1>2, NoJobType DEF HandlerForget, Finish, TypeInv, TypeOK
  <2>1. TypeOK'
    BY <1>0, <1>2, <2>0
    DEF HandlerForget, TypeInv, TypeOK, Goto, Finish, kernelVars, taskVars, HandlerLabel
  <2>2. JobOK'
    BY <1>0, <1>2
    DEF HandlerForget, TypeInv, TypeOK, JobOK, Goto, Finish, kernelVars, taskVars,
        HandlerLabel, StartLabel, NoJob, None
  <2>3. RegistryOK'
    BY <1>2 DEF HandlerForget, TypeInv, TypeOK, RegistryOK, kernelVars, None
  <2> QED BY <2>1, <2>2, <2>3 DEF HandlerForget, TypeInv, BornOK, kernelVars, taskVars
<1> QED BY <1>1, <1>2

(* LogPoisoned: Only the log. *)
LEMMA Type_LogPoisoned ==
  ASSUME TypeInv, LogPoisoned
  PROVE  TypeInv'
<1>1. TypeOK'
  BY DEF LogPoisoned, TypeInv, TypeOK, kernelVars, taskVars, actorVars
<1> QED BY <1>1
DEF LogPoisoned, TypeInv, JobOK, RegistryOK, BornOK, kernelVars, taskVars, actorVars

(* ChildExit: One child becomes a zombie. *)
LEMMA Type_ChildExit ==
  ASSUME TypeInv, NEW i \in Instances, ChildExit(i)
  PROVE  TypeInv'
<1>1. TypeOK'
  BY SupervisorAssumption
  DEF ChildExit, TypeInv, TypeOK, taskVars, actorVars, ProcState, LifeState,
      MetricsState, ClientLabel, HandlerLabel, StartLabel, Info, Job, Policy,
      Instances, None, Actors
<1>2. JobOK'
  BY SupervisorAssumption
  DEF ChildExit, TypeInv, TypeOK, JobOK, taskVars, actorVars, ClientLabel,
      HandlerLabel, StartLabel, Job, Instances, None, Actors
<1>3. RegistryOK'
  BY DEF ChildExit, TypeInv, TypeOK, JobOK, RegistryOK, taskVars, actorVars,
      StartLabel, Instances, None, Actors
<1>4. BornOK'
  BY DEF ChildExit, TypeInv, TypeOK, BornOK, taskVars, Instances
<1> QED BY <1>1, <1>2, <1>3, <1>4 DEF TypeInv

(* A step that changes nothing. *)
LEMMA Type_Stutter ==
  ASSUME TypeInv, UNCHANGED vars
  PROVE  TypeInv'
<1>1. TypeOK'
  BY DEF TypeInv, TypeOK, vars, kernelVars, taskVars, actorVars
<1>2. JobOK' /\ RegistryOK' /\ BornOK'
  BY DEF TypeInv, JobOK, RegistryOK, BornOK, vars, kernelVars, taskVars, actorVars
<1> QED BY <1>1, <1>2 DEF TypeInv

(* Whatever step an actor takes in starting a process. *)
LEMMA Type_StartStep ==
  ASSUME TypeInv, NEW a \in Actors, StartStep(a)
  PROVE  TypeInv'
  BY Type_Fork, Type_Failures, Type_Streams, Type_SetupFails, Type_SubmitLife,
     Type_SubmitMetrics, Type_Insert
  DEF StartStep

(* TypeInv is inductive. *)
LEMMA TypeInvNext ==
  ASSUME TypeInv, [Next]_vars
  PROVE  TypeInv'
<1>1. ASSUME NEW c \in Clients, Command(c) PROVE TypeInv'
  BY <1>1, Type_StartCheck, Type_StopRemove, Type_ShutdownBegin DEF Command
<1>2. ASSUME NEW c \in Clients, ClientStep(c) PROVE TypeInv'
  BY <1>2, Type_StartStep, Type_StopTasks, Type_StopKill, Type_SweepKill, Type_ShutdownExit
  DEF ClientStep, Actors
<1>3. CASE HandlerStep
  BY <1>3, Type_HandlerRecv, Type_HandlerDecide, Type_HandlerForget, Type_StartStep
  DEF HandlerStep, Actors
<1>4. CASE Coordinators
  BY <1>4, Type_LifeSpawn, Type_LifeHandle, Type_MetricsSpawn, Type_MetricsHandle
  DEF Coordinators
<1>5. ASSUME NEW i \in Instances, Monitor(i) \/ MetricsTick(i) \/ ChildExit(i) PROVE TypeInv'
  BY <1>5, Type_MonitorFails, Type_MonitorReap, Type_MonitorSend, Type_MetricsTick, Type_ChildExit
  DEF Monitor
<1>6. CASE UNCHANGED vars
  BY <1>6, Type_Stutter
<1>7. CASE LogPoisoned
  BY <1>7, Type_LogPoisoned
<1> QED BY <1>1, <1>2, <1>3, <1>4, <1>5, <1>6, <1>7 DEF Next

(* Every value the daemon's state takes is of its type, and the handlers'  *)
(* locals fit the label they are at.                                       *)
THEOREM TypeInvariant == Spec => []TypeInv
<1>1. TypeInv /\ [Next]_vars => TypeInv'
  BY TypeInvNext
<1> QED BY <1>1, TypeInvInit, PTL DEF Spec

(* The type invariant of the model: in particular a Capped budget is never *)
(* decremented below zero, and the indices the handlers keep are those of  *)
(* forked processes.                                                       *)
THEOREM TypeCorrect == Spec => []TypeOK
<1>1. TypeInv => TypeOK
  BY DEF TypeInv
<1> QED BY <1>1, TypeInvariant, PTL
=============================================================================
