-------------------------------- MODULE Locks --------------------------------
(***************************************************************************)
(* The two mutexes of the daemon, TaskRegistry's and LogManager's, the     *)
(* orders in which its tasks take them (src/src/threads.rs,                *)
(* src/src/core/device.rs), and the worker threads they block.             *)
(*                                                                         *)
(* A task here is one poll of a tokio task: what it does from one await to *)
(* the next.  No await lies between the operations of a poll, so it keeps  *)
(* its worker thread while it waits for a mutex.  A critical section in    *)
(* which nothing else is locked is one step; one with another inside is    *)
(* a step for each lock.                                                   *)
(***************************************************************************)
EXTENDS Naturals, FiniteSets

CONSTANTS
  Tasks,
  Role,      \* what each task does: a function from Tasks to Roles
  Pid,       \* the pid it is about: a function from Tasks
  Workers,   \* worker threads of the runtime
  Free       \* nobody

(* start and restart: a submit, and what follows when it is refused;       *)
(* giveUp: a metrics task without an entry, or a monitor with an error;    *)
(* report: a log reader with an error; registry, log: the coordinators'    *)
(* add_handle and kill_tasks_by_pid, an entry pushed to the log.           *)
Roles == {"start", "restart", "giveUp", "report", "registry", "log"}

ASSUME LocksAssumption ==
  /\ Role \in [Tasks -> Roles]
  /\ DOMAIN Pid = Tasks
  /\ Workers \in Nat
  /\ IsFiniteSet(Tasks)
  /\ Free \notin Tasks

VARIABLES
  at,        \* where each task is
  registry,  \* the task that holds the task registry's mutex, or Free
  log,       \* the task that holds the log's mutex, or Free
  known      \* pids that have a task in the registry

vars == <<at, registry, log, known>>

(* Where a poll begins; "clear" is the kill_tasks_by_pid after a refusal.  *)
Entry == [r \in Roles |->
            CASE r \in {"start", "restart"} -> "submit"
              [] r = "giveUp"               -> "complain"
              [] OTHER                      -> r]
Label == {"ready", "submit", "refused", "clear", "complain", "complained",
          "report", "registry", "log", "done"}

(* Whoever holds a mutex is at the one place where it is held, and back.   *)
TypeOK ==
  /\ at \in [Tasks -> Label]
  /\ registry \in Tasks \cup {Free}
  /\ log \in Tasks \cup {Free}
  /\ known \subseteq {Pid[t] : t \in Tasks}
  /\ \A t \in Tasks : (registry = t) <=> (at[t] = "refused")
  /\ \A t \in Tasks : (log = t) <=> (at[t] = "complained")

Init ==
  /\ at = [t \in Tasks |-> "ready"]
  /\ registry = Free
  /\ log = Free
  /\ known = {}

-----------------------------------------------------------------------------
(* The tasks that occupy a worker thread. *)
Busy == {t \in Tasks : at[t] \notin {"ready", "done"}}

Goto(t, l) == at' = [at EXCEPT ![t] = l]

(* An idle worker polls a task. *)
Schedule(t) ==
  /\ at[t] = "ready" /\ Cardinality(Busy) < Workers
  /\ Goto(t, Entry[Role[t]])
  /\ UNCHANGED <<registry, log, known>>

(* submit_metrics_task and submit_process_monitoring_task: a new pid is    *)
(* registered; a known one is refused, with the registry still locked.     *)
Submit(t) ==
  /\ at[t] = "submit" /\ registry = Free
  /\ IF Pid[t] \in known
     THEN registry' = t /\ Goto(t, "refused") /\ UNCHANGED known
     ELSE known' = known \cup {Pid[t]} /\ Goto(t, "done") /\ UNCHANGED registry
  /\ UNCHANGED log

(* Slip: kill_tasks_by_pid is called with the registry still locked. *)
RefuseInside(t) ==
  /\ at[t] = "refused" /\ log = Free
  /\ Goto(t, IF Role[t] = "restart" THEN "complain" ELSE "clear")
  /\ UNCHANGED <<registry, log, known>>

(* The refusal is logged, then both are unlocked.  start goes on to        *)
(* kill_tasks_by_pid; the restart handler first locks the log for an entry *)
(* of its own.                                                             *)
Refuse(t) ==
  /\ at[t] = "refused" /\ log = Free
  /\ registry' = Free
  /\ Goto(t, IF Role[t] = "restart" THEN "complain" ELSE "clear")
  /\ UNCHANGED <<log, known>>

(* An entry is pushed to the log, which stays locked.                      *)
Complain(t) ==
  /\ at[t] = "complain" /\ log = Free
  /\ log' = t
  /\ Goto(t, "complained")
  /\ UNCHANGED <<registry, known>>

(* update_status, or the restart handler's kill_tasks_by_pid, and the end  *)
(* of the scope that locked the log.                                       *)
Clear(t) ==
  /\ at[t] = "complained" /\ registry = Free
  /\ log' = Free
  /\ Goto(t, "done")
  /\ UNCHANGED <<registry, known>>

(* Slip: the error is logged first, and the log stays locked. *)
ReportNests(t) ==
  /\ at[t] = "report" /\ log = Free
  /\ log' = t
  /\ Goto(t, "complained")
  /\ UNCHANGED <<registry, known>>

(* logging_coordinator's reader: update_status, and unlocks. *)
Report(t) ==
  /\ at[t] = "report" /\ registry = Free
  /\ Goto(t, "log")
  /\ UNCHANGED <<registry, log, known>>

(* add_handle, or kill_tasks_by_pid. *)
UseRegistry(t) ==
  /\ at[t] \in {"registry", "clear"} /\ registry = Free
  /\ Goto(t, "done")
  /\ UNCHANGED <<registry, log, known>>

UseLog(t) ==
  /\ at[t] = "log" /\ log = Free
  /\ Goto(t, "done")
  /\ UNCHANGED <<registry, log, known>>

-----------------------------------------------------------------------------
Step(t) ==
  \/ Submit(t)
  \/ Refuse(t)
  \/ Complain(t)
  \/ Clear(t)
  \/ Report(t)
  \/ UseRegistry(t)
  \/ UseLog(t)

Next == \E t \in Tasks : Schedule(t) \/ Step(t)

Spec == Init /\ [][Next]_vars

(* The runtime polls what is ready while it has a worker, and a thread goes *)
(* on when the mutex it waits for is free.  Tasks are finitely many and do  *)
(* finitely many steps: none can be overtaken for ever.                    *)
Fairness == \A t \in Tasks : WF_vars(Schedule(t)) /\ WF_vars(Step(t))

FairSpec == Spec /\ Fairness
=============================================================================
