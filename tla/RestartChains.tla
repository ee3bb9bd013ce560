---------------------------- MODULE RestartChains ----------------------------
(***************************************************************************)
(* What supervision promises, without the registry, the tasks, the pids,   *)
(* the queues and the handlers' locals: the processes of a start command   *)
(* and of the restarts after it form one chain; a restart answers one exit *)
(* that was noticed under the chain's name, and no exit is answered twice; *)
(* a chain that was let go is never taken up again.                        *)
(***************************************************************************)
EXTENDS Naturals, FiniteSets

CONSTANTS
  Processes,  \* a chain is named after its first process
  Policies,   \* restart policies: records with fields kind and left
  Names,
  NoTerms     \* the terms of a chain that has not begun

VARIABLES
  chain,   \* the chain of each process, or 0
  exit,    \* each process: "unnoticed", then "noticed", then "settled"
  terms,   \* each chain's name and policy, fixed when it begins
  status   \* where each chain is

vars == <<chain, exit, terms, status>>

Status == {"none", "starting", "listed", "serving", "stopping", "closed"}

Members(c) == {i \in Processes : chain[i] = c}

(* One more process is within what the chain's policy allows. *)
InBudget(c) ==
  LET pol == terms[c].pol IN
  pol.kind = "infinite" \/ (pol.kind = "capped" /\ Cardinality(Members(c)) < pol.left)

(* c goes to a new place, and the chains in gone are let go. *)
Move(c, place, gone) ==
  status' = [d \in Processes |->
               IF d = c THEN place ELSE IF d \in gone THEN "closed" ELSE status[d]]

(* The other chain that is listed under c's name, if any. *)
Rival(c) ==
  {d \in Processes \ {c} : status[d] = "listed" /\ terms[d].name = terms[c].name}

Init ==
  /\ chain = [i \in Processes |-> 0]
  /\ exit = [i \in Processes |-> "unnoticed"]
  /\ terms = [i \in Processes |-> NoTerms]
  /\ status = [i \in Processes |-> "none"]

-----------------------------------------------------------------------------
(* A start command forks a process. *)
Begin(c) ==
  /\ status[c] = "none" /\ chain[c] = 0
  /\ chain' = [chain EXCEPT ![c] = c]
  /\ \E n \in Names, pol \in Policies : terms' = [terms EXCEPT ![c] = [name |-> n, pol |-> pol]]
  /\ Move(c, "starting", {})
  /\ UNCHANGED exit

(* A restart forks the chain's next process. *)
Extend(c, i) ==
  /\ status[c] = "serving" /\ InBudget(c)
  /\ chain[i] = 0
  /\ chain' = [chain EXCEPT ![i] = c]
  /\ Move(c, "starting", {})
  /\ UNCHANGED <<exit, terms>>

(* The process is set up and listed, in place of any other of its name. *)
List(c) ==
  /\ status[c] = "starting"
  /\ Move(c, "listed", Rival(c))
  /\ UNCHANGED <<chain, exit, terms>>

(* A stop command takes the chain off the list. *)
Stop(c) ==
  /\ status[c] = "listed"
  /\ Move(c, "stopping", {})
  /\ UNCHANGED <<chain, exit, terms>>

(* The exit of a process is noticed. *)
Notice(i) ==
  /\ chain[i] # 0 /\ exit[i] = "unnoticed"
  /\ exit' = [exit EXCEPT ![i] = "noticed"]
  /\ UNCHANGED <<chain, terms, status>>

(* The handler answers an exit: it takes up whichever chain is listed      *)
(* under the name by then.                                                 *)
Answer(i, c) ==
  /\ exit[i] = "noticed" /\ status[c] = "listed"
  /\ terms[c].name = terms[chain[i]].name
  /\ exit' = [exit EXCEPT ![i] = "settled"]
  /\ Move(c, "serving", {})
  /\ UNCHANGED <<chain, terms>>

(* A noticed exit to which there is no answer: nothing is listed under the *)
(* name, or there is no handler any more.                                  *)
Lose(i) ==
  /\ exit[i] = "noticed"
  /\ exit' = [exit EXCEPT ![i] = "settled"]
  /\ UNCHANGED <<chain, terms, status>>

(* A start fails, a stop is done, a policy allows no restart: the chain is *)
(* let go, in the last case with whatever is listed under its name.        *)
LetGo(c) ==
  /\ status[c] \in {"starting", "serving", "stopping"}
  /\ \/ Move(c, "closed", {})
     \/ status[c] = "serving" /\ Move(c, "closed", Rival(c))
  /\ UNCHANGED <<chain, exit, terms>>

Next ==
  \/ \E c \in Processes : Begin(c) \/ List(c) \/ Stop(c) \/ LetGo(c)
  \/ \E c, i \in Processes : Extend(c, i) \/ Answer(i, c)
  \/ \E i \in Processes : Notice(i) \/ Lose(i)

Spec == Init /\ [][Next]_vars
=============================================================================
