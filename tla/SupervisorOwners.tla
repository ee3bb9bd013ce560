-------------------------- MODULE SupervisorOwners --------------------------
(***************************************************************************)
(* Proofs that nobody shares a process and that a restart chain stays in   *)
(* its budget, for every value of the constants of Supervisor.             *)
(***************************************************************************)
EXTENDS SupervisorTypes

-----------------------------------------------------------------------------
(* OneOwner is inductive: an instance changes hands in five ways. *)

(* Nobody's instance changes. *)
LEMMA OwnerFrame ==
  ASSUME OneOwner, forks' = forks, registry' = registry,
         \A a \in Actors : job'[a].inst = job[a].inst
  PROVE  OneOwner'
  BY DEF OneOwner, Registered, Born

(* An actor lets go of its instance, or takes up work on none. *)
LEMMA OwnerRelease ==
  ASSUME TypeInv, OneOwner, forks' = forks, NEW a \in Actors, NEW j,
         job' = [job EXCEPT ![a] = j], j.inst = None,
         \/ registry' = registry
         \/ \E n \in Names : registry' = [registry EXCEPT ![n] = None]
  PROVE  OneOwner'
<1>1. \A b \in Actors, i \in Born' : job'[b].inst = i => job[b].inst = i
  BY DEF TypeInv, TypeOK, None, Born
<1>2. \A n \in Names, i \in Born' : registry'[n] = i => registry[n] = i
  BY DEF TypeInv, TypeOK, None, Born
<1> QED BY <1>1, <1>2 DEF OneOwner, Registered, Born

(* Every handler ends by letting go. *)
LEMMA OwnerFinish ==
  ASSUME TypeInv, OneOwner, forks' = forks, NEW a \in Actors, NEW l, Finish(a, l),
         \/ registry' = registry
         \/ \E n \in Names : registry' = [registry EXCEPT ![n] = None]
  PROVE  OneOwner'
<1>1. job' = [job EXCEPT ![a] = NoJob]
  BY DEF Finish
<1>2. NoJob.inst = None
  BY DEF NoJob
<1> QED BY <1>1, <1>2, OwnerRelease

(* An actor takes the instance registered under a name. *)
LEMMA OwnerTake ==
  ASSUME TypeInv, OneOwner, forks' = forks, NEW a \in Actors, NEW n \in Names, NEW j,
         job' = [job EXCEPT ![a] = j], j.inst = registry[n],
         registry' = [registry EXCEPT ![n] = None]
  PROVE  OneOwner'
<1>1. \A b \in Actors, i \in Born' :
        job'[b].inst = i => IF b = a THEN registry[n] = i ELSE job[b].inst = i
  BY DEF TypeInv, TypeOK, Born
<1>2. \A m \in Names, i \in Born' : registry'[m] = i => m # n /\ registry[m] = i
  BY DEF TypeInv, TypeOK, None, Born
<1>3. \A i \in Born' : i \in Born
  BY DEF Born
<1> QED BY <1>1, <1>2, <1>3 DEF OneOwner, Registered

(* A fork gives the forker an instance nobody has seen. *)
LEMMA OwnerFork ==
  ASSUME TypeInv, OneOwner, NEW a \in Actors, NEW p \in Pids, Fork(a, p)
  PROVE  OneOwner'
<1>1. forks \in Nat /\ forks' = forks + 1 /\ registry' = registry
  BY SupervisorAssumption DEF Fork, TypeInv, TypeOK
<1>2. job'[a].inst = forks + 1 /\ \A b \in Actors \ {a} : job'[b].inst = job[b].inst
  BY DEF Fork, TypeInv, TypeOK, Job
<1>3. /\ \A b \in Actors : job[b].inst \in 0..forks
      /\ \A n \in Names : registry[n] \in 0..forks
  BY DEF TypeInv, JobOK, RegistryOK
<1> QED BY <1>1, <1>2, <1>3 DEF OneOwner, Registered, Born

(* An insert hands the actor's instance to the registry, and whoever was    *)
(* registered under the name to nobody.                                    *)
LEMMA OwnerInsert ==
  ASSUME TypeInv, OneOwner, NEW a \in Actors, Insert(a)
  PROVE  OneOwner'
<1> DEFINE n == job[a].name
           k == job[a].inst
<1>1. n \in Names /\ k \in 1..forks /\ forks' = forks /\ forks \in Nat
  BY SupervisorAssumption
  DEF Insert, TypeInv, TypeOK, JobOK, StartLabel, kernelVars
<1>2. \A b \in Actors, i \in Born' : job'[b].inst = i => b # a /\ job[b].inst = i
  BY <1>1 DEF Insert, Finish, NoJob, None, TypeInv, TypeOK, Born
<1>3. \A m \in Names, i \in Born' :
        registry'[m] = i => IF m = n THEN i = k ELSE registry[m] = i
  BY <1>1 DEF Insert, TypeInv, TypeOK, Born
<1>4. \A i \in Born' : i \in Born
  BY <1>1 DEF Born
<1> QED BY <1>1, <1>2, <1>3, <1>4 DEF OneOwner, Registered

(* Such an end without a result is one of them. *)
LEMMA OwnerLetsGo ==
  ASSUME TypeInv, OneOwner, NEW a \in Actors, LetsGo(a)
  PROVE  OneOwner'
  BY OwnerFinish DEF LetsGo, kernelVars

(* A refused child is given up, whether it was killed or logging panicked. *)
LEMMA OwnerRefuse ==
  ASSUME TypeInv, OneOwner, NEW a \in Actors, Refuse(a)
  PROVE  OneOwner'
<1>1. \E l : Finish(a, l)
  BY DEF Refuse, GiveUp, Panics
<1> QED BY <1>1, OwnerFinish DEF Refuse

(* The rest of a start: the actor moves on, or gives up and lets go. *)
LEMMA OwnerStartStep ==
  ASSUME TypeInv, OneOwner, NEW a \in Actors, StartStep(a)
  PROVE  OneOwner'
<1>1. CASE \E p \in Pids : Fork(a, p)
  BY <1>1, OwnerFork
<1>2. CASE ForkFails(a) \/ StreamsFail(a)
  BY <1>2, FailuresLetGo, OwnerLetsGo
<1>3. CASE SetupFails(a)
  <2>1. \E l : Finish(a, l)
    BY <1>3 DEF SetupFails, GiveUp, Panics
  <2> QED BY <1>3, <2>1, OwnerFinish DEF SetupFails
<1>4. CASE Streams(a)
  BY <1>4, OwnerFrame DEF Streams, kernelVars
<1>5. CASE SubmitLife(a) \/ SubmitMetrics(a)
  BY <1>5, OwnerRefuse, OwnerFrame DEF SubmitLife, SubmitMetrics, kernelVars
<1>6. CASE Insert(a)
  BY <1>6, OwnerInsert
<1> QED BY <1>1, <1>2, <1>3, <1>4, <1>5, <1>6 DEF StartStep

(* HandlerRecv panics, or takes an entry. *)
LEMMA OwnerRecv ==
  ASSUME TypeInv, OneOwner, HandlerRecv
  PROVE  OneOwner'
<1> DEFINE n == Head(restartQ).name
<1>1. n \in Names /\ Handler \in Actors /\ forks' = forks
  <2>1. Head(restartQ) \in [name : Names, inst : Instances]
    BY HeadTailProperties DEF HandlerRecv, TypeInv, TypeOK
  <2> QED BY <2>1 DEF HandlerRecv, Actors, kernelVars
<1>2. CASE registry[n] = None
  BY <1>1, <1>2, OwnerFrame DEF HandlerRecv
<1>3. CASE registry[n] # None
  BY <1>1, <1>3, OwnerTake DEF HandlerRecv
<1> QED BY <1>2, <1>3

(* HandlerDecide keeps the instance, with what is left of its budget. *)
LEMMA OwnerDecide ==
  ASSUME TypeInv, OneOwner, HandlerDecide
  PROVE  OneOwner'
<1>1. \A a \in Actors : job'[a].inst = job[a].inst
  <2>1. CASE job' = job
    BY <2>1
  <2>2. CASE job' = [job EXCEPT ![Handler].pol = Spent(job[Handler].pol)]
    BY <2>2 DEF TypeInv, TypeOK, Job
  <2> QED BY <2>1, <2>2 DEF HandlerDecide
<1> QED BY <1>1, OwnerFrame DEF HandlerDecide, kernelVars

(* Every step keeps OneOwner. *)
LEMMA OwnerNext ==
  ASSUME TypeInv, OneOwner, [Next]_vars
  PROVE  OneOwner'
<1>1. ASSUME NEW c \in Clients, Command(c) PROVE OneOwner'
  <2>1. c \in Actors
    BY DEF Actors
  <2>2. CASE \E n \in Names, pol \in Policies : StartCheck(c, n, pol)
    <3>1. PICK n \in Names, pol \in Policies : StartCheck(c, n, pol)
      BY <2>2
    <3> DEFINE j == [name |-> n, pol |-> pol, inst |-> None]
    <3>2. job' = [job EXCEPT ![c] = j] /\ registry' = registry /\ forks' = forks
      BY <3>1 DEF StartCheck, kernelVars
    <3>3. j.inst = None
      OBVIOUS
    <3> HIDE DEF j
    <3> QED BY <2>1, <3>2, <3>3, OwnerRelease
  <2>3. CASE \E n \in Names : StopRemove(c, n)
    BY <2>1, <2>3, OwnerTake DEF StopRemove, kernelVars
  <2>4. CASE ShutdownBegin(c)
    BY <2>4, OwnerFrame DEF ShutdownBegin, kernelVars
  <2> QED BY <1>1, <2>2, <2>3, <2>4 DEF Command
<1>2. ASSUME NEW c \in Clients, ClientStep(c) PROVE OneOwner'
  <2>1. c \in Actors
    BY DEF Actors
  <2>2. CASE StopKill(c) \/ ShutdownExit(c)
    BY <2>1, <2>2, OwnerFinish DEF StopKill, ShutdownExit, kernelVars
  <2>3. CASE \E n \in Names : SweepKill(c, n)
    BY <2>3, OwnerFrame DEF SweepKill
  <2>4. CASE StopTasks(c)
    <3>1. (\E l : Finish(c, l)) \/ UNCHANGED job
      BY <2>4 DEF StopTasks, Panics
    <3> QED BY <2>1, <2>4, <3>1, OwnerFinish, OwnerFrame DEF StopTasks, kernelVars
  <2> QED BY <1>2, <2>1, <2>2, <2>3, <2>4, OwnerStartStep DEF ClientStep
<1>3. CASE HandlerStep
  <2>1. Handler \in Actors
    BY DEF Actors
  <2>2. CASE HandlerForget
    <3>1. job[Handler].name \in Names
      BY <2>1, <2>2 DEF HandlerForget, TypeInv, JobOK
    <3>2. \E l : Finish(Handler, l)
      BY <2>2 DEF HandlerForget, Panics
    <3> QED BY <2>1, <2>2, <3>1, <3>2, OwnerFinish DEF HandlerForget, kernelVars
  <2> QED BY <1>3, <2>1, <2>2, OwnerRecv, OwnerDecide, OwnerStartStep DEF HandlerStep
<1>4. CASE Coordinators
  BY <1>4, OwnerFrame
  DEF Coordinators, LifeSpawn, LifeHandle, MetricsSpawn, MetricsHandle, kernelVars, actorVars
<1>5. ASSUME NEW i \in Instances, Monitor(i) \/ MetricsTick(i) \/ ChildExit(i)
      PROVE  OneOwner'
  BY <1>5, OwnerFrame
  DEF Monitor, MonitorFails, MonitorReap, MonitorSend, MetricsTick, ChildExit,
      kernelVars, actorVars
<1>6. CASE UNCHANGED vars
  BY <1>6, OwnerFrame DEF vars, kernelVars, actorVars
<1>7. CASE LogPoisoned
  BY <1>7, OwnerFrame DEF LogPoisoned, kernelVars, actorVars
<1> QED BY <1>1, <1>2, <1>3, <1>4, <1>5, <1>6, <1>7 DEF Next

(* Two commands, or a command and a restart, never work on one process: a  *)
(* DashMap remove gives the entry to one of them.                          *)
THEOREM OneOwnerHolds == Spec => []OneOwner
<1>1. Init => OneOwner
  BY DEF Init, OneOwner, Born
<1>2. TypeInv /\ OneOwner /\ [Next]_vars => OneOwner'
  BY OwnerNext
<1> QED BY <1>1, <1>2, TypeInvariant, PTL DEF Spec

-----------------------------------------------------------------------------
(* Every chain's account balances: what the policy of its last process has *)
(* left, plus the processes started so far, is one more than was asked for *)
(* at its start.                                                           *)
ChainBalanced(i) ==
  LET asked == info[info[i].root].pol IN
  /\ info[i].root \in 1..forks
  /\ info[i].gen \in Nat \ {0}
  /\ info[i].pol.kind = asked.kind
  /\ asked.kind = "none" => info[i].gen = 1
  /\ asked.kind = "capped" =>
       /\ info[i].pol.left + info[i].gen = asked.left + 1
       /\ info[i].gen = 1 \/ info[i].pol.left >= 1

(* Between the remove that takes an entry and the fork that replaces its   *)
(* process the account is kept in the restart handler's locals.            *)
AccountKept(a) ==
  LET held == info[job[a].inst].pol IN
  /\ pc[a] = "decide" => job[a].pol = held
  /\ pc[a] = "fork" /\ job[a].inst # None => Respawns(held) /\ job[a].pol = Spent(held)

BudgetInv ==
  /\ \A i \in Born : ChainBalanced(i)
  /\ \A a \in Actors : AccountKept(a)

(* A balanced account is in budget. *)
LEMMA BudgetInvImplies ==
  ASSUME TypeInv, BudgetInv
  PROVE  RestartBudget
<1> SUFFICES ASSUME NEW i \in Born
             PROVE  LET pol == info[info[i].root].pol IN
                      \/ pol.kind = "infinite"
                      \/ info[i].gen = 1
                      \/ pol.kind = "capped" /\ info[i].gen <= pol.left
  BY DEF RestartBudget
<1> DEFINE asked == info[info[i].root].pol
<1>1. ChainBalanced(i)
  BY DEF BudgetInv
<1>2. i \in Instances /\ info[i].root \in Instances
  BY <1>1, SupervisorAssumption DEF ChainBalanced, Born, Instances, TypeInv, TypeOK
<1>3. asked \in Policy /\ info[i].pol \in Policy
  BY <1>2 DEF TypeInv, TypeOK, Info
<1>4. CASE asked.kind = "capped"
  BY <1>1, <1>3, <1>4 DEF ChainBalanced, Policy
<1> QED BY <1>1, <1>3, <1>4 DEF ChainBalanced, Policy

(* Most steps neither fork nor touch what a deciding handler remembers. *)
LEMMA BudgetFrame ==
  ASSUME BudgetInv, forks' = forks, info' = info,
         \A a \in Actors : pc'[a] \in {"decide", "fork"} => pc'[a] = pc[a] /\ job'[a] = job[a]
  PROVE  BudgetInv'
<1>1. ASSUME NEW i \in Born' PROVE ChainBalanced(i)'
  BY <1>1 DEF BudgetInv, ChainBalanced, Born
<1>2. ASSUME NEW a \in Actors PROVE AccountKept(a)'
  BY DEF BudgetInv, AccountKept
<1> QED BY <1>1, <1>2 DEF BudgetInv

(* One actor's label and locals change. *)
LEMMA BudgetOneActor ==
  ASSUME BudgetInv, forks' = forks, info' = info, NEW a \in Actors, AccountKept(a)',
         \A b \in Actors \ {a} : pc'[b] = pc[b] /\ job'[b] = job[b]
  PROVE  BudgetInv'
<1>1. ASSUME NEW i \in Born' PROVE ChainBalanced(i)'
  BY <1>1 DEF BudgetInv, ChainBalanced, Born
<1>2. ASSUME NEW b \in Actors \ {a} PROVE AccountKept(b)'
  BY DEF BudgetInv, AccountKept
<1> QED BY <1>1, <1>2 DEF BudgetInv

(* A fork opens an account, or carries one over to the next process. *)
LEMMA BudgetFork ==
  ASSUME TypeInv, BudgetInv, NEW a \in Actors, NEW p \in Pids, Fork(a, p)
  PROVE  BudgetInv'
<1> DEFINE before == job[a].inst
<1>0. PICK i \in Nat : i = forks + 1
  BY DEF TypeInv, TypeOK
<1>1. i \in Instances /\ i = forks + 1 /\ forks \in Nat /\ forks' = i /\ pc[a] = "fork"
  BY <1>0, SupervisorAssumption DEF Fork, TypeInv, TypeOK, Instances
<1>2. /\ info'[i] = [name |-> job[a].name, pid |-> p, pol |-> job[a].pol,
                     root |-> IF before = None THEN i ELSE info[before].root,
                     gen |-> IF before = None THEN 1 ELSE info[before].gen + 1]
      /\ \A j \in 1..forks : info'[j] = info[j]
  BY <1>0, <1>1 DEF Fork, TypeInv, TypeOK, Instances
<1>3. job[a].pol \in Policy
  BY DEF TypeInv, TypeOK, Job
<1>4. ASSUME NEW j \in 1..forks PROVE ChainBalanced(j)'
  <2>1. ChainBalanced(j)
    BY DEF BudgetInv, Born
  <2> QED BY <1>1, <1>2, <2>1 DEF ChainBalanced
<1>5. ChainBalanced(i)'
  <2>1. CASE before = None
    <3>1. /\ info'[i].root = i /\ info'[i].gen = 1
          /\ info'[i].pol = job[a].pol /\ info'[info'[i].root] = info'[i]
      BY <1>2, <2>1
    <3> QED BY <1>1, <1>3, <3>1 DEF ChainBalanced, Policy
  <2>2. CASE before # None
    <3>1. before \in 1..forks
      BY <2>2 DEF TypeInv, JobOK, None
    <3>2. ChainBalanced(before) /\ Respawns(info[before].pol)
            /\ job[a].pol = Spent(info[before].pol)
      BY <1>1, <2>2, <3>1 DEF BudgetInv, AccountKept, Born
    <3>3. info[before].pol \in Policy
      BY <3>1, BornType
    <3>4. info[before].root \in 1..forks /\ info[info[before].root].pol \in Policy
      BY <3>2, BornType DEF ChainBalanced
    <3>5. info'[i].root = info[before].root /\ info'[i].gen = info[before].gen + 1
            /\ info'[i].pol = Spent(info[before].pol)
            /\ info'[info[before].root] = info[info[before].root]
      BY <1>2, <2>2, <3>2, <3>4
    <3>6. /\ Spent(info[before].pol).kind = info[before].pol.kind
          /\ info[before].pol.kind = "capped" =>
               /\ Spent(info[before].pol).left = info[before].pol.left - 1
               /\ info[before].pol.left > 1
          /\ info[before].pol.kind # "none"
      BY <3>2, <3>3 DEF Spent, Respawns, Policy
    <3>7. info[before].pol.left \in Nat /\ info[info[before].root].pol.left \in Nat
      BY <3>3, <3>4 DEF Policy
    <3> HIDE DEF before
    <3> QED BY <1>1, <3>2, <3>4, <3>5, <3>6, <3>7 DEF ChainBalanced
  <2> QED BY <2>1, <2>2
<1>6. \A j \in Born' : ChainBalanced(j)'
  <2>1. \A j \in Born' : j \in 1..forks \/ j = i
    BY <1>1 DEF Born
  <2> QED BY <2>1, <1>4, <1>5
<1>7. ASSUME NEW b \in Actors PROVE AccountKept(b)'
  <2>1. CASE b = a
    BY <2>1 DEF Fork, Goto, AccountKept, TypeInv, TypeOK
  <2>2. CASE b # a
    <3>1. pc'[b] = pc[b] /\ job'[b] = job[b]
      BY <2>2 DEF Fork, Goto, TypeInv, TypeOK
    <3>2. pc[b] \in {"decide", "fork"} /\ job[b].inst # None
            => info'[job[b].inst] = info[job[b].inst]
      BY <1>1, <1>2 DEF TypeInv, JobOK, None
    <3>3. pc[b] = "decide" => job[b].inst # None
      BY DEF TypeInv, JobOK, None
    <3> QED BY <3>1, <3>2, <3>3 DEF BudgetInv, AccountKept
  <2> QED BY <2>1, <2>2
<1> QED BY <1>6, <1>7 DEF BudgetInv

(* An actor that ends keeps no account. *)
LEMMA BudgetFinish ==
  ASSUME TypeInv, BudgetInv, NEW a \in Actors, NEW l, l \notin {"decide", "fork"},
         Finish(a, l), forks' = forks, info' = info
  PROVE  BudgetInv'
  BY BudgetFrame DEF Finish, Goto, TypeInv, TypeOK

LEMMA BudgetLetsGo ==
  ASSUME TypeInv, BudgetInv, NEW a \in Actors, LetsGo(a)
  PROVE  BudgetInv'
  BY BudgetFinish DEF LetsGo, kernelVars

(* The rest of a start. *)
LEMMA BudgetStartStep ==
  ASSUME TypeInv, BudgetInv, NEW a \in Actors, StartStep(a)
  PROVE  BudgetInv'
<1>1. CASE \E p \in Pids : Fork(a, p)
  BY <1>1, BudgetFork
<1>2. CASE ForkFails(a) \/ StreamsFail(a)
  BY <1>2, FailuresLetGo, BudgetLetsGo
<1>3. CASE SetupFails(a) \/ Refuse(a)
  <2>1. \E l : l \notin {"decide", "fork"} /\ Finish(a, l)
    BY <1>3 DEF SetupFails, Refuse, GiveUp, Panics
  <2> QED BY <1>3, <2>1, BudgetFinish DEF SetupFails, Refuse
<1>4. CASE Streams(a)
  BY <1>4, BudgetFrame DEF Streams, Goto, kernelVars, TypeInv, TypeOK
<1>5. CASE SubmitLife(a) \/ SubmitMetrics(a)
  BY <1>3, <1>5, BudgetFrame DEF SubmitLife, SubmitMetrics, Goto, kernelVars, TypeInv, TypeOK
<1>6. CASE Insert(a)
  <2>1. \E l : l \notin {"decide", "fork"} /\ Finish(a, l)
    BY <1>6 DEF Insert
  <2> QED BY <1>6, <2>1, BudgetFinish DEF Insert, kernelVars
<1> QED BY <1>1, <1>2, <1>3, <1>4, <1>5, <1>6 DEF StartStep

(* The entry the handler takes brings its account with it. *)
LEMMA BudgetRecv ==
  ASSUME TypeInv, BudgetInv, HandlerRecv
  PROVE  BudgetInv'
<1> DEFINE i == registry[Head(restartQ).name]
<1>1. Handler \in Actors
  BY DEF Actors
<1>2. CASE i = None
  BY <1>1, <1>2, BudgetFrame DEF HandlerRecv, Goto, kernelVars, TypeInv, TypeOK
<1>3. CASE i # None
  <2>1. job'[Handler].pol = info[i].pol /\ job'[Handler].inst = i /\ pc'[Handler] = "decide"
          /\ info' = info /\ forks' = forks
    BY <1>1, <1>3 DEF HandlerRecv, Goto, kernelVars, TypeInv, TypeOK
  <2>2. AccountKept(Handler)'
    BY <2>1 DEF AccountKept
  <2>3. \A b \in Actors \ {Handler} : pc'[b] = pc[b] /\ job'[b] = job[b]
    BY <1>3 DEF HandlerRecv, Goto, TypeInv, TypeOK
  <2> QED BY <1>1, <2>1, <2>2, <2>3, BudgetOneActor
<1> QED BY <1>2, <1>3

(* respawn's answer leaves what it spent with the handler. *)
LEMMA BudgetDecide ==
  ASSUME TypeInv, BudgetInv, HandlerDecide
  PROVE  BudgetInv'
<1>1. Handler \in Actors /\ pc[Handler] = "decide" /\ info' = info /\ forks' = forks
  BY DEF Actors, HandlerDecide, kernelVars
<1>2. job[Handler].pol = info[job[Handler].inst].pol
  BY <1>1 DEF BudgetInv, AccountKept
<1>3. \A b \in Actors \ {Handler} : pc'[b] = pc[b] /\ job'[b] = job[b]
  BY DEF HandlerDecide, Goto, TypeInv, TypeOK
<1>4. AccountKept(Handler)'
  <2>1. CASE Respawns(job[Handler].pol)
    <3>1. /\ job' = [job EXCEPT ![Handler].pol = Spent(job[Handler].pol)]
          /\ pc'[Handler] = "fork"
      BY <1>1, <2>1 DEF HandlerDecide, Goto, TypeInv, TypeOK
    <3>2. job'[Handler].pol = Spent(job[Handler].pol) /\ job'[Handler].inst = job[Handler].inst
      BY <1>1, <3>1 DEF TypeInv, TypeOK, Job
    <3> QED BY <1>1, <1>2, <2>1, <3>1, <3>2 DEF AccountKept
  <2>2. CASE ~Respawns(job[Handler].pol)
    BY <1>1, <2>2 DEF HandlerDecide, Goto, AccountKept, TypeInv, TypeOK
  <2> QED BY <2>1, <2>2
<1> QED BY <1>1, <1>3, <1>4, BudgetOneActor

(* Every step keeps the accounts. *)
LEMMA BudgetNext ==
  ASSUME TypeInv, BudgetInv, [Next]_vars
  PROVE  BudgetInv'
<1>1. ASSUME NEW c \in Clients, Command(c) PROVE BudgetInv'
  <2>1. c \in Actors
    BY DEF Actors
  <2>2. CASE \E n \in Names, pol \in Policies : StartCheck(c, n, pol)
    <3>1. pc'[c] = "fork" /\ job'[c].inst = None /\ info' = info /\ forks' = forks
      BY <2>1, <2>2 DEF StartCheck, Goto, kernelVars, TypeInv, TypeOK
    <3>2. AccountKept(c)'
      BY <3>1 DEF AccountKept
    <3>3. \A b \in Actors \ {c} : pc'[b] = pc[b] /\ job'[b] = job[b]
      BY <2>2 DEF StartCheck, Goto, TypeInv, TypeOK
    <3> QED BY <2>1, <3>1, <3>2, <3>3, BudgetOneActor
  <2>3. CASE \E n \in Names : StopRemove(c, n)
    BY <2>1, <2>3, BudgetFrame DEF StopRemove, Goto, kernelVars, TypeInv, TypeOK
  <2>4. CASE ShutdownBegin(c)
    BY <2>1, <2>4, BudgetFrame DEF ShutdownBegin, Goto, kernelVars, TypeInv, TypeOK
  <2> QED BY <1>1, <2>2, <2>3, <2>4 DEF Command
<1>2. ASSUME NEW c \in Clients, ClientStep(c) PROVE BudgetInv'
  <2>1. c \in Actors
    BY DEF Actors
  <2>2. CASE StopTasks(c) \/ StopKill(c) \/ ShutdownExit(c) \/ \E n \in Names : SweepKill(c, n)
    BY <2>1, <2>2, BudgetFrame
    DEF StopTasks, StopKill, ShutdownExit, SweepKill, Panics, Finish, Goto, kernelVars, TypeInv,
        TypeOK
  <2> QED BY <1>2, <2>1, <2>2, BudgetStartStep DEF ClientStep
<1>3. CASE HandlerStep
  <2>1. Handler \in Actors
    BY DEF Actors
  <2>2. CASE HandlerForget
    BY <2>1, <2>2, BudgetFrame DEF HandlerForget, Panics, Finish, Goto, kernelVars, TypeInv, TypeOK
  <2> QED BY <1>3, <2>1, <2>2, BudgetRecv, BudgetDecide, BudgetStartStep DEF HandlerStep
<1>4. CASE Coordinators
  BY <1>4, BudgetFrame
  DEF Coordinators, LifeSpawn, LifeHandle, MetricsSpawn, MetricsHandle, kernelVars, actorVars
<1>5. ASSUME NEW i \in Instances, Monitor(i) \/ MetricsTick(i) \/ ChildExit(i)
      PROVE  BudgetInv'
  BY <1>5, BudgetFrame
  DEF Monitor, MonitorFails, MonitorReap, MonitorSend, MetricsTick, ChildExit,
      kernelVars, actorVars
<1>6. CASE UNCHANGED vars
  BY <1>6, BudgetFrame DEF vars, kernelVars, actorVars
<1>7. CASE LogPoisoned
  BY <1>7, BudgetFrame DEF LogPoisoned, kernelVars, actorVars
<1> QED BY <1>1, <1>2, <1>3, <1>4, <1>5, <1>6, <1>7 DEF Next

(* A restart chain never outlives its policy: None allows one process, and *)
(* Capped(k) at most k, however stops, restarts and failures interleave.   *)
THEOREM RestartBudgetHolds == Spec => []RestartBudget
<1>1. Init => BudgetInv
  BY DEF Init, BudgetInv, AccountKept, Born, NoJob
<1>2. TypeInv /\ BudgetInv /\ [Next]_vars => BudgetInv'
  BY BudgetNext
<1>3. TypeInv /\ BudgetInv => RestartBudget
  BY BudgetInvImplies
<1> QED BY <1>1, <1>2, <1>3, TypeInvariant, PTL DEF Spec
=============================================================================
