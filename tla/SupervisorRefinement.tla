------------------------- MODULE SupervisorRefinement -------------------------
(***************************************************************************)
(* Supervisor implements RestartChains: what an entry of the registry, a   *)
(* handler's locals, a task's state or a queued request means there.       *)
(***************************************************************************)
EXTENDS SupervisorProperties

(* A chain has the name and the policy of its first process. *)
NoTerms == [name |-> Nil, pol |-> NoPolicy]
TermsOf(c) ==
  IF info[c].root = c THEN [name |-> info[c].name, pol |-> info[c].pol] ELSE NoTerms

(* A monitor that reaped its process has noticed the exit, which is open   *)
(* until the handler has received the request.                             *)
Requested(i) == \E k \in 1..Len(restartQ) : restartQ[k].inst = i
ExitOf(i) ==
  IF life[i].st = "reaped" \/ Requested(i) THEN "noticed"
  ELSE IF life[i].st \in {"sent", "panicked"} THEN "settled"
  ELSE "unnoticed"

(* A chain is where its last process is: in the registry, or in the locals *)
(* of a handler, or nowhere.                                               *)
ChainListed(c) == \E n \in Names : registry[n] # None /\ info[registry[n]].root = c
ChainHeld(c, labels) ==
  \E a \in Actors : job[a].inst # None /\ pc[a] \in labels /\ info[job[a].inst].root = c
Starting == {"forked", "setup", "submitMetrics", "insert"}
Serving  == {"decide", "fork", "forget"}
Stopping == {"stopTasks", "stopKill"}
StatusOf(c) ==
  IF info[c].root # c THEN "none"
  ELSE IF ChainListed(c) THEN "listed"
  ELSE IF ChainHeld(c, Starting) THEN "starting"
  ELSE IF ChainHeld(c, Serving) THEN "serving"
  ELSE IF ChainHeld(c, Stopping) THEN "stopping"
  ELSE "closed"

chainBar  == [i \in Instances |-> info[i].root]
exitBar   == [i \in Instances |-> ExitOf(i)]
termsBar  == [c \in Instances |-> TermsOf(c)]
statusBar == [c \in Instances |-> StatusOf(c)]

Chains == INSTANCE RestartChains WITH
  Processes <- Instances,
  chain  <- chainBar,
  exit   <- exitBar,
  terms  <- termsBar,
  status <- statusBar

(* Supervision as RestartChains has it: each restart answers one noticed   *)
(* exit of its name and each exit is settled once, whatever stops, starts  *)
(* and failures come between the exit, the request and the restart; a      *)
(* chain has one holder at a time, never more processes than its policy    *)
(* allows, and is not revived once it was let go.                          *)
KeepsChains == Chains!Spec
=============================================================================
