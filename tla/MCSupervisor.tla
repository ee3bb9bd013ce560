---------------------------- MODULE MCSupervisor ----------------------------
(***************************************************************************)
(* Small instances of Supervisor for TLC.                                  *)
(***************************************************************************)
EXTENDS SupervisorRefinement, TLC

CONSTANTS MaxRestarts   \* largest Capped budget a client asks for

MCPolicies == {[kind |-> "capped", left |-> MaxRestarts]}

(* Names, clients and pids are interchangeable: only equality is tested. *)
Symmetry == Permutations(Names) \cup Permutations(Clients) \cup Permutations(Pids)

(* Symmetry is not sound for liveness.  Instead, where liveness is checked, *)
(* the first process has a fixed pid: a behaviour in which it has another  *)
(* differs from one of these by a permutation of the pids.                 *)
FirstPid == MaxForks > 0 => info[1].pid \in {Nil, CHOOSE p \in Pids : TRUE}
=============================================================================
