------------------------------- MODULE MCLocks -------------------------------
(***************************************************************************)
(* A small instance of Locks for TLC: two submits of one pid and a restart *)
(* of it, so that any of them may be refused, and one task of each other   *)
(* role.                                                                   *)
(***************************************************************************)
EXTENDS LocksProperties

MCTasks == {"start1", "start2", "restart", "metrics", "reader", "coordinator", "push"}
MCRole ==
  [t \in MCTasks |->
     CASE t \in {"start1", "start2"} -> "start"
       [] t = "restart"     -> "restart"
       [] t = "metrics"     -> "giveUp"
       [] t = "reader"      -> "report"
       [] t = "coordinator" -> "registry"
       [] t = "push"        -> "log"]
MCPid == [t \in MCTasks |-> 1]
=============================================================================
