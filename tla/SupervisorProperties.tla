------------------------ MODULE SupervisorProperties ------------------------
(***************************************************************************)
(* What the daemon of Supervisor promises, and what the repository says of *)
(* it that the code does not keep.                                         *)
(***************************************************************************)
EXTENDS Supervisor

Born == 1..forks
Registered(i) == \E n \in Names : registry[n] = i

(* Somebody will act on the instance: it is listed, or an actor holds it. *)
Managed(i) == Registered(i) \/ \E a \in Actors : job[a].inst = i

HandlerAlive == pc[Handler] \notin {"dead", "panicked"}

(* A kill_runtime clears every handle: it only runs on the way out. *)
ShuttingDown == daemon # "up" \/ \E c \in Clients : pc[c] = "sweep"

-----------------------------------------------------------------------------
(* Safety.                                                                 *)

(* A restart chain never outlives the policy its first process was started *)
(* with: with None, or Capped(0), that process is the only one, and with   *)
(* Capped(k) there are at most k.  The budget travels through the registry *)
(* entry, the handler's local copy and the new entry (task.rs, respawn).   *)
RestartBudget ==
  \A i \in Born :
    LET pol == info[info[i].root].pol IN
      \/ pol.kind = "infinite"
      \/ info[i].gen = 1
      \/ pol.kind = "capped" /\ info[i].gen <= pol.left

(* At most one of the registry's names, the client handlers and the        *)
(* restart handler owns a process: two never stop or respawn the same one. *)
OneOwner ==
  \A i \in Born :
    /\ \A n, m \in Names : registry[n] = i /\ registry[m] = i => n = m
    /\ \A a, b \in Actors : job[a].inst = i /\ job[b].inst = i => a = b
    /\ Registered(i) => \A a \in Actors : job[a].inst # i

(* A listed process has a live monitor, or its monitor has done its work,  *)
(* or has failed by itself: no command or restart for another process ever *)
(* aborts it, although the task registry is keyed by pids that the kernel  *)
(* gives away again.                                                       *)
RegisteredIsWatched ==
  \A i \in Born : Registered(i) /\ ~ShuttingDown => life[i].st \notin {"none", "aborted"}

(* The duplicate test of submit_metrics_task never fires after the one of  *)
(* submit_process_monitoring_task passed, although another client's submit *)
(* may come between the two.                                               *)
MetricsNeverRefused ==
  \A a \in Actors :
    pc[a] = "submitMetrics" => ~HasTask(metrics, info[job[a].inst].pid)

(* The instance keeps its state, and its tasks are not aborted. *)
Spared(i) ==
  /\ proc'[i] = proc[i]
  /\ life'[i].st = "aborted" => life[i].st = "aborted"
  /\ metrics'[i].st = "aborted" => metrics[i].st = "aborted"

HitsOnlyItsOwn ==
  \A a \in Actors :
    pc'[a] # pc[a] /\ pc[a] \notin {"idle", "sweep"} =>
      \A i \in Born \ {job[a].inst} :
        life[i].st # "none" /\ proc[i] # "reaped" => Spared(i)

(* Signals and aborts are addressed by pid, and a pid changes hands as     *)
(* soon as a monitor has reaped its process.  Still, a stop, a failed start *)
(* or a restart never kills a watched process other than its own, nor      *)
(* aborts the tasks of one that is not reaped.                             *)
PidHitsTarget == [][HitsOnlyItsOwn]_vars

(* The ways in which the code forgets a running process: an insert over    *)
(* its entry; the restart handler serving another process's request under  *)
(* the same name (it takes this one's entry and never kills it, or its     *)
(* second remove deletes it); a failure right after the fork, before       *)
(* anybody has the pid; and a poisoned log, at which a stop panics between *)
(* the remove and the kill, and a failing restart before its kill.         *)
Overwritten(i) == \E a \in Actors : pc[a] = "insert" /\ registry[job[a].name] = i
TakenForAnother(i) ==
  /\ pc[Handler] \in {"fork", "forget"}
  /\ job[Handler].inst = i \/ registry[job[Handler].name] = i
LostAtFork(i) == IOErrors /\ \E a \in Actors : pc[a] = "forked" /\ job[a].inst = i
LostToPoison(i) ==
  /\ poisoned
  /\ \/ \E c \in Clients : pc[c] = "stopTasks" /\ job[c].inst = i
     \/ pc[Handler] \in {"setup", "submitMetrics"} /\ job[Handler].inst = i

(* A running process drops out of management in these ways only.  So every *)
(* other failure of a start or a restart kills the child it forked, and a  *)
(* stop kills what it took, wherever other commands interrupt them.        *)
NoOtherOrphan ==
  [][\A i \in Born :
       proc'[i] = "alive" /\ Managed(i) /\ ~Managed(i)' /\ daemon' = "up" =>
         Overwritten(i) \/ TakenForAnother(i) \/ LostAtFork(i) \/ LostToPoison(i)]_vars

-----------------------------------------------------------------------------
(* Liveness, under FairSpec: as long as the two mutexes do not cross (see   *)
(* the fairness there).                                                    *)

(* A listed process that has died does not stay listed: its entry is taken *)
(* out (and replaced, when its policy says so), whatever commands race with *)
(* the restart, unless its monitor gave up on an error or panicked over a  *)
(* poisoned log, or the restart handler is gone, or the daemon.  (So it    *)
(* says nothing of what happens once a restart has failed.)                *)
ExitHandled ==
  \A i \in Instances :
    (Registered(i) /\ proc[i] = "zombie")
      ~> \/ ~Registered(i)
         \/ life[i].st = "failed" \/ (poisoned /\ life[i].st = "panicked")
         \/ ~HandlerAlive \/ daemon # "up"

(* The metrics task of a process that was reaped ends, although the abort  *)
(* that is meant for it may come before its handle is registered, unless   *)
(* another process is listed under the name, whose metrics it then takes   *)
(* for its own process's.                                                  *)
MetricsEnds ==
  \A i \in Instances :
    (metrics[i].st = "running" /\ proc[i] = "reaped")
      ~> \/ metrics[i].st # "running" \/ daemon # "up"
         \/ registry[info[i].name] \notin {None, i}

-----------------------------------------------------------------------------
(* What the repository says and the code does not keep.                    *)

(* device.rs:313 asserts by unwrap() that the process a request names is   *)
(* still registered when the request is served.                            *)
RequestFindsEntry == pc[Handler] # "panicked"

(* device.rs:75-78: "A process tagged with name: {} exists" is meant to    *)
(* keep a name to one process.                                             *)
OneLiveProcessPerName ==
  \A i, j \in Born :
    /\ i # j /\ proc[i] = "alive" /\ proc[j] = "alive"
    /\ life[i].st # "none" /\ life[j].st # "none"
    => info[i].name # info[j].name

(* config.rs:529: "Shutdown the daemon, thus terminating all managed       *)
(* processes": none that is still listed survives the daemon.              *)
ShutdownTerminatesAll ==
  daemon = "exited" =>
    \A n \in Names : registry[n] # None => proc[registry[n]] # "alive"
=============================================================================
