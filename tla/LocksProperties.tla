--------------------------- MODULE LocksProperties ---------------------------
(***************************************************************************)
(* When the daemon's tasks block each other for ever.                      *)
(***************************************************************************)
EXTENDS Locks

WaitsForRegistry(t) ==
  at[t] \in {"submit", "complained", "report", "registry", "clear"} /\ registry # Free
WaitsForLog(t) == at[t] \in {"refused", "complain", "log"} /\ log # Free

(* Every worker thread that has a task is blocked, and there is one. *)
Stuck == Busy # {} /\ \A t \in Busy : WaitsForRegistry(t) \/ WaitsForLog(t)

(* A refused submit has the registry and waits for the log; a task that    *)
(* gives up, or the restart handler after a refusal, has the log and waits *)
(* for the registry.                                                       *)
Crossed ==
  /\ registry # Free /\ log # Free
  /\ at[registry] = "refused"
  /\ at[log] = "complained"

(* The only deadlock of the daemon is the crossing of a refused submit     *)
(* with a task that gives up: the two mutexes are taken in both orders     *)
(* there and nowhere else.  It takes two worker threads and two processes  *)
(* (or restarts) in trouble at once, one of them under a pid that had a    *)
(* task before.                                                            *)
OnlyCrossing ==
  /\ Stuck => Crossed
  /\ Crossed =>
       /\ Workers > 1 /\ registry # log
       /\ Role[registry] \in {"start", "restart"} /\ Pid[registry] \in known
       /\ Role[log] \in {"giveUp", "restart"}

(* Unless such a crossing happens, every task that is ready is polled and  *)
(* gets through, whatever the others hold meanwhile.                       *)
TasksEnd == \A t \in Tasks : at[t] = "ready" ~> at[t] = "done" \/ Crossed
=============================================================================
