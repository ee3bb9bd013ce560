---------------------- MODULE SupervisorRefinementProofs ----------------------
(***************************************************************************)
(* Proof that Supervisor implements RestartChains, for every value of the  *)
(* constants.                                                              *)
(***************************************************************************)
EXTENDS SupervisorRefinement, SupervisorOwners, FiniteSetTheorems

(* Each forked process belongs to a chain that begins with a process of its *)
(* name; no other instance belongs to one.                                  *)
Line(i) ==
  IF i \in Born
  THEN /\ info[i].root \in Born
       /\ info[info[i].root].root = info[i].root
       /\ info[info[i].root].name = info[i].name
  ELSE info[i].root = 0

LineOf(c) == {j \in Instances : info[j].root = c}

(* Of a chain's processes only the last is listed or held: there is one at *)
(* most, and its position is the length of the chain.                      *)
LastOfLine(i) ==
  /\ \A j \in Born : Managed(j) /\ info[j].root = info[i].root => j = i
  /\ Cardinality(LineOf(info[i].root)) = info[i].gen

LineInv ==
  /\ \A i \in Instances : Line(i)
  /\ \A i \in Born : Managed(i) => LastOfLine(i)

(* Processes are listed and held under their own names, and who holds one  *)
(* is at work on it.                                                       *)
Placed(a) ==
  /\ job[a].inst # None =>
       /\ pc[a] \in Starting \cup Serving \cup Stopping
       /\ job[a].name = info[job[a].inst].name
  /\ pc[a] = "fork" /\ job[a].inst = None => job[a].pol \in Policies

PlaceInv ==
  /\ \A n \in Names : registry[n] # None => info[registry[n]].name = n
  /\ \A a \in Actors : Placed(a)

(* A queued request is the only one of a monitor that has sent it. *)
QueueInv ==
  \A k \in 1..Len(restartQ) :
    /\ life[restartQ[k].inst].st = "sent"
    /\ restartQ[k].name = info[restartQ[k].inst].name
    /\ \A m \in 1..Len(restartQ) : restartQ[m].inst = restartQ[k].inst => m = k

ChainInv == LineInv /\ PlaceInv /\ QueueInv

-----------------------------------------------------------------------------
(* What a chain's status is, from where its last process is.               *)

At(n, c)    == registry[n] # None /\ info[registry[n]].root = c
Holds(a, c) == job[a].inst # None /\ info[job[a].inst].root = c

(* An entry's chain is listed. *)
LEMMA ListedStatus ==
  \A n \in Names, c \in Instances : TypeInv /\ LineInv /\ At(n, c) => StatusOf(c) = "listed"
<1> SUFFICES ASSUME NEW n \in Names, NEW c \in Instances, TypeInv, LineInv, At(n, c)
             PROVE  StatusOf(c) = "listed"
  OBVIOUS
<1>1. registry[n] \in Born
  BY SupervisorAssumption DEF At, TypeInv, RegistryOK, None, Born, TypeOK
<1>2. \A i \in Born : i \in Instances
  BY BornType DEF Born
<1>3. info[c].root = c
  BY <1>1, <1>2 DEF LineInv, Line, At
<1> QED BY <1>3 DEF StatusOf, ChainListed, At

(* Whoever holds a process holds its chain. *)
LEMMA HeldStatus ==
  \A a \in Actors, c \in Instances :
    TypeInv /\ OneOwner /\ LineInv /\ PlaceInv /\ Holds(a, c) =>
      StatusOf(c) = IF pc[a] \in Starting THEN "starting"
                    ELSE IF pc[a] \in Serving THEN "serving" ELSE "stopping"
<1> SUFFICES ASSUME NEW a \in Actors, NEW c \in Instances,
                    TypeInv, OneOwner, LineInv, PlaceInv, Holds(a, c)
             PROVE  StatusOf(c) = IF pc[a] \in Starting THEN "starting"
                                  ELSE IF pc[a] \in Serving THEN "serving" ELSE "stopping"
  OBVIOUS
<1> DEFINE k == job[a].inst
<1>1. /\ \A b \in Actors : job[b].inst # None => job[b].inst \in Born
      /\ \A n \in Names : registry[n] # None => registry[n] \in Born
  BY SupervisorAssumption DEF TypeInv, JobOK, RegistryOK, None, Born, TypeOK
<1>2. \A i \in Born : i \in Instances
  BY BornType DEF Born
<1>3. k \in Born /\ info[k].root = c /\ info[c].root = c
  BY <1>1, <1>2 DEF LineInv, Line, Holds
<1>4. \A j \in Born : Managed(j) /\ info[j].root = c => j = k
  BY <1>3 DEF LineInv, LastOfLine, Managed
<1>5. ~ChainListed(c)
  <2> SUFFICES ASSUME NEW n \in Names, registry[n] # None, info[registry[n]].root = c
               PROVE  FALSE
    BY DEF ChainListed
  <2>1. registry[n] = k
    BY <1>1, <1>4 DEF Managed, Registered
  <2> QED BY <2>1, <1>3 DEF OneOwner, Registered
<1>6. ASSUME NEW L PROVE ChainHeld(c, L) <=> pc[a] \in L
  <2>1. \A b \in Actors : job[b].inst # None /\ info[job[b].inst].root = c => b = a
    BY <1>1, <1>3, <1>4 DEF Managed, OneOwner
  <2> QED BY <2>1 DEF ChainHeld, Holds
<1>7. pc[a] \in Starting \cup Serving \cup Stopping
  BY DEF PlaceInv, Placed, Holds
<1> QED BY <1>3, <1>5, <1>6, <1>7 DEF StatusOf

(* A chain none of whose processes is listed or held is closed. *)
Abandoned(c) ==
  info[c].root = c /\ \A i \in Born : info[i].root = c => ~Managed(i)

LEMMA ClosedStatus ==
  \A c \in Instances : TypeInv /\ Abandoned(c) => StatusOf(c) = "closed"
<1> SUFFICES ASSUME NEW c \in Instances, TypeInv, Abandoned(c)
             PROVE  StatusOf(c) = "closed"
  OBVIOUS
<1>1. /\ \A b \in Actors : job[b].inst # None => job[b].inst \in Born
      /\ \A n \in Names : registry[n] # None => registry[n] \in Born
  BY SupervisorAssumption DEF TypeInv, JobOK, RegistryOK, None, Born, TypeOK
<1>2. ~ChainListed(c)
  BY <1>1 DEF ChainListed, Managed, Registered, Abandoned
<1>3. ASSUME NEW L PROVE ~ChainHeld(c, L)
  BY <1>1 DEF ChainHeld, Managed, Abandoned
<1> QED BY <1>2, <1>3 DEF StatusOf, Abandoned

(* The same of the next state. *)
LEMMA NextStatus ==
  ASSUME TypeInv', OneOwner', LineInv', PlaceInv', NEW d \in Instances
  PROVE  /\ \A m \in Names : At(m, d)' => StatusOf(d)' = "listed"
         /\ \A b \in Actors : Holds(b, d)' =>
              StatusOf(d)' = IF pc'[b] \in Starting THEN "starting"
                             ELSE IF pc'[b] \in Serving THEN "serving" ELSE "stopping"
<1>1. (\A n \in Names, c \in Instances :
         TypeInv /\ LineInv /\ At(n, c) => StatusOf(c) = "listed")'
  BY ListedStatus, PTL
<1>2. (\A a \in Actors, c \in Instances :
         TypeInv /\ OneOwner /\ LineInv /\ PlaceInv /\ Holds(a, c) =>
           StatusOf(c) = IF pc[a] \in Starting THEN "starting"
                         ELSE IF pc[a] \in Serving THEN "serving" ELSE "stopping")'
  BY HeldStatus, PTL
<1> QED BY <1>1, <1>2

LEMMA NextClosed ==
  ASSUME TypeInv', NEW d \in Instances, Abandoned(d)'
  PROVE  StatusOf(d)' = "closed"
<1>1. (\A c \in Instances : TypeInv /\ Abandoned(c) => StatusOf(c) = "closed")'
  BY ClosedStatus, PTL
<1> QED BY <1>1

-----------------------------------------------------------------------------
(* What a step leaves alone. *)

SamePlace(a) ==
  /\ pc'[a] \in Starting <=> pc[a] \in Starting
  /\ pc'[a] \in Serving <=> pc[a] \in Serving
  /\ pc'[a] \in Stopping <=> pc[a] \in Stopping

(* A chain whose processes stay where they are keeps its status. *)
LEMMA StatusKept ==
  ASSUME NEW d \in Instances, info'[d].root = info[d].root,
         \A n \in Names : At(n, d)' <=> At(n, d),
         \A a \in Actors : (Holds(a, d)' <=> Holds(a, d)) /\ (Holds(a, d) => SamePlace(a))
  PROVE  StatusOf(d)' = StatusOf(d)
<1>1. ChainListed(d)' <=> ChainListed(d)
  BY DEF ChainListed, At
<1>2. /\ ChainHeld(d, Starting)' <=> ChainHeld(d, Starting)
      /\ ChainHeld(d, Serving)' <=> ChainHeld(d, Serving)
      /\ ChainHeld(d, Stopping)' <=> ChainHeld(d, Stopping)
  BY DEF ChainHeld, Holds, SamePlace
<1> QED BY <1>1, <1>2 DEF StatusOf

(* The statuses after a step are those of a move. *)
LEMMA MoveIs ==
  ASSUME NEW c \in Instances, NEW place, NEW gone,
         \A d \in Instances :
           StatusOf(d)' = IF d = c THEN place ELSE IF d \in gone THEN "closed" ELSE StatusOf(d)
  PROVE  Chains!Move(c, place, gone)
  BY DEF Chains!Move, statusBar

(* A step that forks nothing keeps the chains and their terms. *)
LEMMA LinesKept ==
  ASSUME info' = info
  PROVE  UNCHANGED <<chainBar, termsBar>>
  BY DEF chainBar, termsBar, TermsOf

(* No exit is noticed or settled. *)
Open == {"none", "queued", "watching", "failed", "aborted"}
ExitsKept ==
  /\ restartQ' = restartQ
  /\ \A i \in Instances : life'[i].st = life[i].st \/ {life[i].st, life'[i].st} \subseteq Open

LEMMA ExitsKeptBar ==
  ASSUME ExitsKept
  PROVE  exitBar' = exitBar
<1>1. \A i \in Instances : Requested(i)' <=> Requested(i)
  BY DEF ExitsKept, Requested
<1>2. \A i \in Instances : ExitOf(i)' = ExitOf(i)
  BY <1>1 DEF ExitsKept, ExitOf, Open
<1> QED BY <1>2 DEF exitBar

(* Nobody takes a process, lets one go, or goes on to another part of its  *)
(* work on one.                                                            *)
PlacesKept ==
  /\ UNCHANGED <<info, registry>>
  /\ \A a \in Actors :
       job'[a].inst = job[a].inst /\ (job[a].inst # None => SamePlace(a))

LEMMA PlacesKeptBar ==
  ASSUME PlacesKept
  PROVE  UNCHANGED <<chainBar, termsBar, statusBar>>
<1>1. ASSUME NEW d \in Instances PROVE StatusOf(d)' = StatusOf(d)
  BY StatusKept DEF PlacesKept, At, Holds
<1> QED BY <1>1, LinesKept DEF PlacesKept, statusBar

-----------------------------------------------------------------------------
(* What each change of hands is in RestartChains. *)

SimInv == TypeInv /\ OneOwner /\ BudgetInv /\ ChainInv

(* The actor's process and its chain. *)
LEMMA HeldFacts ==
  ASSUME SimInv, NEW a \in Actors, job[a].inst # None
  PROVE  /\ job[a].inst \in Born /\ job[a].inst \in Instances
         /\ info[job[a].inst].root \in Born /\ info[job[a].inst].root \in Instances
         /\ info[info[job[a].inst].root].root = info[job[a].inst].root
         /\ info[info[job[a].inst].root].name = job[a].name
         /\ \A i \in Born : Managed(i) /\ info[i].root = info[job[a].inst].root => i = job[a].inst
         /\ \A n \in Names : registry[n] # job[a].inst
         /\ \A b \in Actors : job[b].inst = job[a].inst => b = a
<1>1. job[a].inst \in Born
  BY SupervisorAssumption DEF SimInv, TypeInv, JobOK, None, Born, TypeOK
<1>2. \A i \in Born : i \in Instances
  BY BornType DEF Born, SimInv
<1>3. Line(job[a].inst) /\ LastOfLine(job[a].inst) /\ Placed(a)
  BY <1>1, <1>2 DEF SimInv, ChainInv, LineInv, PlaceInv, Managed
<1>4. /\ \A n \in Names : registry[n] # job[a].inst
      /\ \A b \in Actors : job[b].inst = job[a].inst => b = a
  BY <1>1 DEF SimInv, OneOwner, Registered
<1> QED BY <1>1, <1>2, <1>3, <1>4 DEF Line, LastOfLine, Placed

(* The entry under a name, and its chain. *)
LEMMA EntryFacts ==
  ASSUME SimInv, NEW n \in Names, registry[n] # None
  PROVE  /\ registry[n] \in Born /\ registry[n] \in Instances
         /\ info[registry[n]].root \in Born /\ info[registry[n]].root \in Instances
         /\ info[info[registry[n]].root].root = info[registry[n]].root
         /\ info[info[registry[n]].root].name = n
         /\ \A i \in Born : Managed(i) /\ info[i].root = info[registry[n]].root => i = registry[n]
         /\ \A m \in Names : registry[m] = registry[n] => m = n
         /\ \A b \in Actors : job[b].inst # registry[n]
<1>1. registry[n] \in Born
  BY SupervisorAssumption DEF SimInv, TypeInv, RegistryOK, None, Born, TypeOK
<1>2. \A i \in Born : i \in Instances
  BY BornType DEF Born, SimInv
<1>3. Line(registry[n]) /\ LastOfLine(registry[n]) /\ info[registry[n]].name = n
  BY <1>1, <1>2 DEF SimInv, ChainInv, LineInv, PlaceInv, Managed, Registered
<1>4. /\ \A m \in Names : registry[m] = registry[n] => m = n
      /\ \A b \in Actors : job[b].inst # registry[n]
  BY <1>1 DEF SimInv, OneOwner, Registered
<1> QED BY <1>1, <1>2, <1>3, <1>4 DEF Line, LastOfLine

(* The chain that is listed under the name of a held process is its rival. *)
LEMMA RivalIs ==
  ASSUME SimInv, NEW a \in Actors, NEW c \in Instances, Holds(a, c), job[a].name \in Names
  PROVE  \A d \in Instances : d \in Chains!Rival(c) <=> At(job[a].name, d)
<1> DEFINE n == job[a].name
<1>1. info[c].root = c /\ info[c].name = n
  BY HeldFacts DEF Holds
<1>2. termsBar[c].name = n
  BY <1>1 DEF termsBar, TermsOf
<1>3. ASSUME NEW d \in Instances \ {c}, StatusOf(d) = "listed", termsBar[d].name = n
      PROVE  At(n, d)
  <2>1. PICK m \in Names : At(m, d)
    BY <1>3 DEF StatusOf, ChainListed, At
  <2>2. info[d].root = d /\ info[d].name = m
    BY <2>1, EntryFacts DEF At
  <2>3. m = n
    BY <1>3, <2>2 DEF termsBar, TermsOf
  <2> QED BY <2>1, <2>3
<1>4. ASSUME NEW d \in Instances, At(n, d)
      PROVE  d # c /\ StatusOf(d) = "listed" /\ termsBar[d].name = n
  <2>1. /\ registry[n] # None /\ info[registry[n]].root = d
        /\ info[d].root = d /\ info[d].name = n
        /\ \A i \in Born : Managed(i) /\ info[i].root = d => i = registry[n]
        /\ \A b \in Actors : job[b].inst # registry[n]
    BY <1>4, EntryFacts DEF At
  <2>2. d # c
    BY <2>1, HeldFacts DEF Managed, Holds
  <2>3. StatusOf(d) = "listed"
    BY <1>4, ListedStatus DEF SimInv, ChainInv
  <2> QED BY <2>1, <2>2, <2>3 DEF termsBar, TermsOf
<1>5. \A d \in Instances : d \in Chains!Rival(c) <=>
        d # c /\ StatusOf(d) = "listed" /\ termsBar[d].name = n
  BY <1>2 DEF Chains!Rival, statusBar
<1> QED BY <1>3, <1>4, <1>5

(* An actor gives up, or is done with a stop. *)
LEMMA SimRelease ==
  ASSUME SimInv, SimInv', NEW a \in Actors, job[a].inst # None, job'[a].inst = None,
         \A b \in Actors \ {a} : job'[b].inst = job[b].inst /\ SamePlace(b),
         UNCHANGED <<info, forks, registry, exitBar>>
  PROVE  \E c \in Instances : Chains!LetGo(c)
<1>1. PICK k \in Instances, c \in Instances : k = job[a].inst /\ c = info[k].root
  BY HeldFacts
<1>2. /\ k \in Born /\ info[c].root = c /\ Holds(a, c)
      /\ \A i \in Born : Managed(i) /\ info[i].root = c => i = k
      /\ \A n \in Names : registry[n] # k
      /\ \A b \in Actors : job[b].inst = k => b = a
  BY <1>1, HeldFacts DEF Holds
<1>3. statusBar[c] \in {"starting", "serving", "stopping"}
  BY <1>2, HeldStatus DEF SimInv, ChainInv, statusBar
<1>4. StatusOf(c)' = "closed"
  <2>1. ASSUME NEW i \in Born', info'[i].root = c, Managed(i)' PROVE FALSE
    <3>1. i \in Born /\ i # None /\ info[i].root = c
      BY <2>1, SupervisorAssumption DEF Born, None, SimInv, TypeInv, TypeOK
    <3>2. Registered(i) \/ \E b \in Actors \ {a} : job[b].inst = i
      BY <2>1, <3>1 DEF Managed, Registered
    <3>3. Managed(i)
      BY <3>2 DEF Managed
    <3> QED BY <1>2, <3>1, <3>2, <3>3 DEF Registered
  <2>2. Abandoned(c)'
    BY <1>2, <2>1 DEF Abandoned
  <2> QED BY <2>2, NextClosed DEF SimInv
<1>5. ASSUME NEW d \in Instances, d # c PROVE StatusOf(d)' = StatusOf(d)
  <2>1. \A n \in Names : At(n, d)' <=> At(n, d)
    BY DEF At
  <2>2. \A b \in Actors : (Holds(b, d)' <=> Holds(b, d)) /\ (Holds(b, d) => SamePlace(b))
    BY <1>1, <1>5 DEF Holds
  <2> QED BY <2>1, <2>2, StatusKept
<1>6. Chains!Move(c, "closed", {})
  <2>1. \A d \in Instances :
          StatusOf(d)' = IF d = c THEN "closed" ELSE IF d \in {} THEN "closed" ELSE StatusOf(d)
    BY <1>4, <1>5
  <2> QED BY <2>1, MoveIs
<1> QED BY <1>3, <1>6, LinesKept DEF Chains!LetGo

(* What is listed is let go when its entry is taken out or replaced. *)
LEMMA EntryLost ==
  ASSUME SimInv, SimInv', NEW a \in Actors, NEW n \in Names, NEW d \in Instances, At(n, d),
         job'[a].inst = None, \A b \in Actors \ {a} : job'[b].inst = job[b].inst,
         registry'[n] = None \/ (registry'[n] = job[a].inst /\ ~Holds(a, d)),
         \A m \in Names \ {n} : registry'[m] = registry[m],
         UNCHANGED <<info, forks>>
  PROVE  StatusOf(d)' = "closed"
<1>1. PICK r \in Instances : r = registry[n]
  BY EntryFacts DEF At
<1>2. /\ r \in Born /\ info[d].root = d /\ info[r].root = d
      /\ \A i \in Born : Managed(i) /\ info[i].root = d => i = r
      /\ \A m \in Names : registry[m] = r => m = n
      /\ \A b \in Actors : job[b].inst # r
  BY <1>1, EntryFacts DEF At
<1>3. ASSUME NEW i \in Born', Managed(i)', info'[i].root = d PROVE FALSE
  <2>1. i \in Born /\ i # None /\ info[i].root = d
    BY <1>3, SupervisorAssumption DEF Born, None, SimInv, TypeInv, TypeOK
  <2>2. CASE Registered(i)'
    <3>1. PICK m \in Names : registry'[m] = i
      BY <2>2 DEF Registered
    <3>2. CASE m = n
      BY <2>1, <3>1, <3>2 DEF Holds
    <3>3. CASE m # n
      <4>1. registry[m] = i
        BY <3>1, <3>3
      <4> QED BY <1>2, <2>1, <3>3, <4>1 DEF Managed, Registered
    <3> QED BY <3>2, <3>3
  <2>3. CASE \E b \in Actors : job'[b].inst = i
    <3>1. PICK b \in Actors : job[b].inst = i
      BY <2>1, <2>3
    <3> QED BY <1>2, <2>1, <3>1 DEF Managed
  <2> QED BY <1>3, <2>2, <2>3 DEF Managed
<1>4. Abandoned(d)'
  BY <1>2, <1>3 DEF Abandoned
<1> QED BY <1>4, NextClosed DEF SimInv

(* No restart: the chain is let go, and the second remove takes what is     *)
(* listed under its name by then.                                          *)
LEMMA SimForget ==
  ASSUME SimInv, SimInv', NEW a \in Actors, job[a].inst # None, job'[a].inst = None,
         NEW n \in Names, n = job[a].name, pc[a] \in Serving,
         \A b \in Actors \ {a} : job'[b].inst = job[b].inst /\ SamePlace(b),
         registry' = [registry EXCEPT ![n] = None],
         UNCHANGED <<info, forks, exitBar>>
  PROVE  \E c \in Instances : Chains!LetGo(c)
<1>1. PICK k \in Instances, c \in Instances : k = job[a].inst /\ c = info[k].root
  BY HeldFacts
<1>2. /\ k \in Born /\ info[c].root = c /\ Holds(a, c)
      /\ \A i \in Born : Managed(i) /\ info[i].root = c => i = k
      /\ \A m \in Names : registry[m] # k
      /\ \A b \in Actors : job[b].inst = k => b = a
  BY <1>1, HeldFacts DEF Holds
<1>3. \A m \in Names : registry'[m] = IF m = n THEN None ELSE registry[m]
  BY DEF SimInv, TypeInv, TypeOK
<1>4. statusBar[c] = "serving"
  <2>1. pc[a] \notin Starting
    BY DEF Starting, Serving
  <2> QED BY <1>2, <2>1, HeldStatus DEF SimInv, ChainInv, statusBar
<1>5. StatusOf(c)' = "closed"
  <2>1. ASSUME NEW i \in Born', info'[i].root = c, Managed(i)' PROVE FALSE
    <3>1. i \in Born /\ i # None /\ info[i].root = c
      BY <2>1, SupervisorAssumption DEF Born, None, SimInv, TypeInv, TypeOK
    <3>2. Registered(i) \/ \E b \in Actors \ {a} : job[b].inst = i
      BY <1>3, <2>1, <3>1 DEF Managed, Registered
    <3>3. Managed(i)
      BY <3>2 DEF Managed
    <3> QED BY <1>2, <3>1, <3>2, <3>3 DEF Registered
  <2>2. Abandoned(c)'
    BY <1>2, <2>1 DEF Abandoned
  <2> QED BY <2>2, NextClosed DEF SimInv
<1>6. ASSUME NEW d \in Instances, At(n, d) PROVE StatusOf(d)' = "closed"
  BY <1>3, <1>6, EntryLost
<1>7. ASSUME NEW d \in Instances, d # c, ~At(n, d) PROVE StatusOf(d)' = StatusOf(d)
  <2>1. \A m \in Names : At(m, d)' <=> At(m, d)
    BY <1>3, <1>7 DEF At
  <2>2. \A b \in Actors : (Holds(b, d)' <=> Holds(b, d)) /\ (Holds(b, d) => SamePlace(b))
    BY <1>1, <1>7 DEF Holds
  <2> QED BY <2>1, <2>2, StatusKept
<1>8. Chains!Move(c, "closed", Chains!Rival(c))
  <2>1. \A d \in Instances : d \in Chains!Rival(c) <=> At(n, d)
    BY <1>2, RivalIs
  <2>2. \A d \in Instances :
          StatusOf(d)' = IF d = c THEN "closed"
                         ELSE IF d \in Chains!Rival(c) THEN "closed" ELSE StatusOf(d)
    BY <1>5, <1>6, <1>7, <2>1
  <2> QED BY <2>2, MoveIs
<1> QED BY <1>4, <1>8, LinesKept DEF Chains!LetGo

(* An insert lists the chain and lets go whatever was listed in its place. *)
LEMMA SimInsert ==
  ASSUME SimInv, SimInv', NEW a \in Actors, job[a].inst # None, job'[a].inst = None,
         NEW n \in Names, n = job[a].name, pc[a] \in Starting,
         \A b \in Actors \ {a} : job'[b].inst = job[b].inst /\ SamePlace(b),
         registry' = [registry EXCEPT ![n] = job[a].inst],
         UNCHANGED <<info, forks, exitBar>>
  PROVE  \E c \in Instances : Chains!List(c)
<1>1. PICK k \in Instances, c \in Instances : k = job[a].inst /\ c = info[k].root
  BY HeldFacts
<1>2. Holds(a, c) /\ k # None
  BY <1>1 DEF Holds
<1>3. \A m \in Names : registry'[m] = IF m = n THEN k ELSE registry[m]
  BY <1>1 DEF SimInv, TypeInv, TypeOK
<1>4. statusBar[c] = "starting"
  BY <1>2, HeldStatus DEF SimInv, ChainInv, statusBar
<1>5. StatusOf(c)' = "listed"
  <2>1. At(n, c)'
    BY <1>1, <1>2, <1>3 DEF At
  <2> QED BY <2>1, NextStatus DEF SimInv, ChainInv
<1>6. \A d \in Instances : d \in Chains!Rival(c) <=> At(n, d)
  BY <1>2, RivalIs
<1>7. ASSUME NEW d \in Instances, d # c, At(n, d) PROVE StatusOf(d)' = "closed"
  <2>1. ~Holds(a, d)
    BY <1>1, <1>7 DEF Holds
  <2> QED BY <1>1, <1>3, <1>7, <2>1, EntryLost
<1>8. ASSUME NEW d \in Instances, d # c, ~At(n, d) PROVE StatusOf(d)' = StatusOf(d)
  <2>1. \A m \in Names : At(m, d)' <=> At(m, d)
    BY <1>1, <1>3, <1>8 DEF At
  <2>2. \A b \in Actors : (Holds(b, d)' <=> Holds(b, d)) /\ (Holds(b, d) => SamePlace(b))
    BY <1>1, <1>8 DEF Holds
  <2> QED BY <2>1, <2>2, StatusKept
<1>9. Chains!Move(c, "listed", Chains!Rival(c))
  <2>1. \A d \in Instances :
          StatusOf(d)' = IF d = c THEN "listed"
                         ELSE IF d \in Chains!Rival(c) THEN "closed" ELSE StatusOf(d)
    BY <1>5, <1>6, <1>7, <1>8
  <2> QED BY <2>1, MoveIs
<1> QED BY <1>4, <1>9, LinesKept DEF Chains!List

(* A DashMap remove takes the chain off the list. *)
LEMMA SimTake ==
  ASSUME SimInv, SimInv', NEW a \in Actors, NEW n \in Names, NEW c \in Instances, At(n, c),
         job[a].inst = None, job'[a].inst = registry[n],
         \A b \in Actors \ {a} : job'[b].inst = job[b].inst /\ SamePlace(b),
         registry' = [registry EXCEPT ![n] = None],
         UNCHANGED <<info, forks>>, NEW place,
         place = IF pc'[a] \in Starting THEN "starting"
                 ELSE IF pc'[a] \in Serving THEN "serving" ELSE "stopping"
  PROVE  statusBar[c] = "listed" /\ termsBar[c].name = n /\ Chains!Move(c, place, {})
<1>0. \A m \in Names : registry'[m] = IF m = n THEN None ELSE registry[m]
  BY DEF SimInv, TypeInv, TypeOK
<1>1. registry[n] # None /\ info[registry[n]].root = c /\ info[c].root = c /\ info[c].name = n
  BY EntryFacts DEF At
<1>2. StatusOf(c) = "listed"
  BY ListedStatus DEF SimInv, ChainInv
<1>3. StatusOf(c)' = place
  <2>1. Holds(a, c)'
    BY <1>1 DEF Holds
  <2> QED BY <2>1, NextStatus DEF SimInv, ChainInv
<1>4. ASSUME NEW d \in Instances, d # c PROVE StatusOf(d)' = StatusOf(d)
  <2>1. \A m \in Names : At(m, d)' <=> At(m, d)
    BY <1>0, <1>1, <1>4 DEF At
  <2>2. \A b \in Actors : (Holds(b, d)' <=> Holds(b, d)) /\ (Holds(b, d) => SamePlace(b))
    BY <1>1, <1>4 DEF Holds
  <2> QED BY <2>1, <2>2, StatusKept
<1>5. Chains!Move(c, place, {})
  <2>1. \A d \in Instances :
          StatusOf(d)' = IF d = c THEN place ELSE IF d \in {} THEN "closed" ELSE StatusOf(d)
    BY <1>3, <1>4
  <2> QED BY <2>1, MoveIs
<1> QED BY <1>1, <1>2, <1>5 DEF statusBar, termsBar, TermsOf
(* Both modules count with the same operator. *)
LEMMA SameCardinality == \A S : Chains!Cardinality(S) = Cardinality(S)
  BY DEF Chains!Cardinality, Cardinality

(* A fork begins a chain, or adds a process to the one the forker serves.  *)
LEMMA ForkFacts ==
  ASSUME SimInv, NEW a \in Actors, NEW p \in Pids, Fork(a, p)
  PROVE  \E i \in Instances :
           /\ i = forks + 1 /\ i \notin Born /\ i # None /\ Born' = Born \cup {i}
           /\ info[i].root = 0
           /\ info'[i] = [name |-> job[a].name, pid |-> p, pol |-> job[a].pol,
                 root |-> IF job[a].inst = None THEN i ELSE info[job[a].inst].root,
                 gen  |-> IF job[a].inst = None THEN 1 ELSE info[job[a].inst].gen + 1]
           /\ \A j \in Instances \ {i} : info'[j] = info[j]
           /\ job'[a].inst = i /\ job'[a].name = job[a].name
           /\ \A b \in Actors \ {a} : job'[b] = job[b] /\ pc'[b] = pc[b]
           /\ pc[a] = "fork" /\ pc'[a] = "forked" /\ job[a].name \in Names
           /\ UNCHANGED <<registry, life, restartQ>>
<1>1. PICK i \in Nat : i = forks + 1
  BY DEF SimInv, TypeInv, TypeOK
<1>2. forks \in 0..MaxForks /\ MaxForks \in Nat /\ forks < MaxForks /\ forks' = i
  BY <1>1, SupervisorAssumption DEF Fork, SimInv, TypeInv, TypeOK
<1>3. i \in Instances /\ i \notin Born /\ i # None /\ Born' = Born \cup {i}
  BY <1>1, <1>2 DEF Instances, Born, None
<1>4. info[i].root = 0
  BY <1>3 DEF SimInv, ChainInv, LineInv, Line
<1>5. /\ pc[a] = "fork" /\ pc' = [pc EXCEPT ![a] = "forked"]
      /\ job' = [job EXCEPT ![a].inst = i]
      /\ UNCHANGED <<registry, life, restartQ>>
  BY <1>1 DEF Fork, Goto, taskVars
<1>6. /\ pc'[a] = "forked" /\ job'[a].inst = i /\ job'[a].name = job[a].name
      /\ \A b \in Actors \ {a} : job'[b] = job[b] /\ pc'[b] = pc[b]
  BY <1>5 DEF SimInv, TypeInv, TypeOK, Job
<1>7. /\ info'[i] = [name |-> job[a].name, pid |-> p, pol |-> job[a].pol,
                 root |-> IF job[a].inst = None THEN i ELSE info[job[a].inst].root,
                 gen  |-> IF job[a].inst = None THEN 1 ELSE info[job[a].inst].gen + 1]
      /\ \A j \in Instances \ {i} : info'[j] = info[j]
  BY <1>1, <1>3 DEF Fork, SimInv, TypeInv, TypeOK
<1>8. job[a].name \in Names
  BY <1>5 DEF SimInv, TypeInv, JobOK, StartLabel
<1> QED BY <1>1, <1>3, <1>4, <1>5, <1>6, <1>7, <1>8

(* Nobody has a process that is not forked. *)
LEMMA UnbornFacts ==
  ASSUME SimInv, NEW i, i \notin Born, i # None
  PROVE  /\ \A n \in Names : registry[n] # i
         /\ \A b \in Actors : job[b].inst # i
         /\ \A j \in Instances : info[j].root # i
<1>1. /\ \A b \in Actors : job[b].inst # None => job[b].inst \in Born
      /\ \A n \in Names : registry[n] # None => registry[n] \in Born
  BY SupervisorAssumption DEF SimInv, TypeInv, JobOK, RegistryOK, None, Born, TypeOK
<1>2. \A j \in Instances : Line(j)
  BY DEF SimInv, ChainInv, LineInv
<1> QED BY <1>1, <1>2 DEF Line, None

LEMMA SimFork ==
  ASSUME SimInv, SimInv', NEW a \in Actors, NEW p \in Pids, Fork(a, p)
  PROVE  \/ \E c \in Instances : Chains!Begin(c)
         \/ \E c, i \in Instances : Chains!Extend(c, i)
<1>1. PICK i \in Instances :
           /\ i = forks + 1 /\ i \notin Born /\ i # None /\ Born' = Born \cup {i}
           /\ info[i].root = 0
           /\ info'[i] = [name |-> job[a].name, pid |-> p, pol |-> job[a].pol,
                 root |-> IF job[a].inst = None THEN i ELSE info[job[a].inst].root,
                 gen  |-> IF job[a].inst = None THEN 1 ELSE info[job[a].inst].gen + 1]
           /\ \A j \in Instances \ {i} : info'[j] = info[j]
           /\ job'[a].inst = i /\ job'[a].name = job[a].name
           /\ \A b \in Actors \ {a} : job'[b] = job[b] /\ pc'[b] = pc[b]
           /\ pc[a] = "fork" /\ pc'[a] = "forked" /\ job[a].name \in Names
           /\ UNCHANGED <<registry, life, restartQ>>
  BY ForkFacts
<1>2. /\ \A n \in Names : registry[n] # i
      /\ \A b \in Actors : job[b].inst # i
      /\ \A j \in Instances : info[j].root # i
  BY <1>1, UnbornFacts
<1>3. exitBar' = exitBar
  BY <1>1, ExitsKeptBar DEF ExitsKept
<1>4. chainBar[i] = 0 /\ chainBar' = [chainBar EXCEPT ![i] = info'[i].root]
  BY <1>1 DEF chainBar
<1>5. statusBar[i] = "none"
  BY <1>1 DEF statusBar, StatusOf, None
<1>6. \A n \in Names : registry[n] # None => registry[n] \in Instances
  BY EntryFacts
<1>7. \A b \in Actors : job[b].inst # None => job[b].inst \in Instances
  BY HeldFacts
<1>8. ASSUME NEW c \in Instances, info'[i].root = c, info'[c].root = c,
             job[a].inst # None => info[job[a].inst].root = c
      PROVE  Chains!Move(c, "starting", {})
  <2>1. StatusOf(c)' = "starting"
    <3>1. Holds(a, c)'
      BY <1>1, <1>8 DEF Holds
    <3>2. pc'[a] \in Starting
      BY <1>1 DEF Starting
    <3> QED BY <3>1, <3>2, NextStatus DEF SimInv, ChainInv
  <2>2. ASSUME NEW d \in Instances \ {c, i} PROVE StatusOf(d)' = StatusOf(d)
    <3>1. \A n \in Names : At(n, d)' <=> At(n, d)
      BY <1>1, <1>2, <1>6 DEF At
    <3>2. ASSUME NEW b \in Actors \ {a} PROVE (Holds(b, d)' <=> Holds(b, d)) /\ SamePlace(b)
      <4>1. job'[b] = job[b] /\ pc'[b] = pc[b]
        BY <1>1
      <4>2. job[b].inst # None => info'[job[b].inst] = info[job[b].inst]
        BY <1>1, <1>2, <1>7
      <4> QED BY <4>1, <4>2 DEF Holds, SamePlace
    <3>3. ~Holds(a, d)' /\ ~Holds(a, d)
      BY <1>1, <1>8 DEF Holds
    <3> QED BY <1>1, <3>1, <3>2, <3>3, StatusKept
  <2>3. i # c => StatusOf(i)' = StatusOf(i)
    BY <1>1, <1>8 DEF StatusOf, None
  <2>4. \A d \in Instances :
          StatusOf(d)' = IF d = c THEN "starting" ELSE IF d \in {} THEN "closed" ELSE StatusOf(d)
    BY <2>1, <2>2, <2>3
  <2> QED BY <2>4, MoveIs
<1>9. CASE job[a].inst = None
  <2>1. info'[i].root = i
    BY <1>1, <1>9
  <2>2. Chains!Move(i, "starting", {})
    BY <1>8, <1>9, <2>1
  <2>3. job[a].pol \in Policies
    BY <1>1, <1>9 DEF SimInv, ChainInv, PlaceInv, Placed
  <2>4. termsBar' = [termsBar EXCEPT ![i] = [name |-> job[a].name, pol |-> job[a].pol]]
    <3>1. TermsOf(i)' = [name |-> job[a].name, pol |-> job[a].pol]
      BY <1>1, <2>1 DEF TermsOf
    <3>2. \A d \in Instances \ {i} : TermsOf(d)' = TermsOf(d)
      BY <1>1 DEF TermsOf
    <3> QED BY <3>1, <3>2 DEF termsBar
  <2>5. chainBar' = [chainBar EXCEPT ![i] = i]
    BY <1>4, <2>1
  <2>6. Chains!Begin(i)
    BY <1>1, <1>3, <1>4, <1>5, <2>2, <2>3, <2>4, <2>5 DEF Chains!Begin
  <2> QED BY <2>6
<1>10. CASE job[a].inst # None
  <2>1. PICK k \in Instances, c \in Instances : k = job[a].inst /\ c = info[k].root
    BY <1>10, HeldFacts
  <2>2. k \in Born /\ c \in Born /\ info[c].root = c /\ Holds(a, c)
    BY <1>10, <2>1, HeldFacts DEF Holds
  <2>3. info'[i].root = c /\ info'[c].root = c /\ c # i
    BY <1>1, <1>10, <2>1, <2>2
  <2>4. Chains!Move(c, "starting", {})
    BY <1>8, <2>1, <2>3
  <2>5. statusBar[c] = "serving"
    <3>1. pc[a] \notin Starting /\ pc[a] \in Serving
      BY <1>1 DEF Starting, Serving
    <3> QED BY <2>2, <3>1, HeldStatus DEF SimInv, ChainInv, statusBar
  <2>6. Chains!InBudget(c)
    <3>1. Chains!Members(c) = LineOf(c)
      BY DEF Chains!Members, LineOf, chainBar
    <3>2. Cardinality(LineOf(c)) = info[k].gen
      BY <2>1, <2>2 DEF SimInv, ChainInv, LineInv, LastOfLine, Managed
    <3>3. ChainBalanced(k) /\ Respawns(info[k].pol)
      BY <1>1, <1>10, <2>1, <2>2 DEF SimInv, BudgetInv, AccountKept
    <3>4. termsBar[c].pol = info[c].pol
      BY <2>2 DEF termsBar, TermsOf
    <3>5. info[k].pol \in Policy /\ info[c].pol \in Policy
      BY <2>1 DEF SimInv, TypeInv, TypeOK, Info
    <3>6. \/ info[c].pol.kind = "infinite"
          \/ info[c].pol.kind = "capped" /\ info[k].gen < info[c].pol.left
      BY <2>1, <3>3, <3>5 DEF ChainBalanced, Respawns, Policy
    <3>7. Chains!Cardinality(Chains!Members(c)) = info[k].gen
      BY <3>1, <3>2, SameCardinality
    <3> QED BY <3>4, <3>6, <3>7 DEF Chains!InBudget
  <2>7. termsBar' = termsBar
    <3>1. TermsOf(i)' = TermsOf(i)
      BY <1>1, <2>3 DEF TermsOf, None
    <3>2. \A d \in Instances \ {i} : TermsOf(d)' = TermsOf(d)
      BY <1>1 DEF TermsOf
    <3> QED BY <3>1, <3>2 DEF termsBar
  <2>8. chainBar' = [chainBar EXCEPT ![i] = c]
    BY <1>4, <2>3
  <2>9. Chains!Extend(c, i)
    BY <1>3, <1>4, <2>4, <2>5, <2>6, <2>7, <2>8 DEF Chains!Extend
  <2> QED BY <2>9
<1> QED BY <1>9, <1>10

-----------------------------------------------------------------------------
(* What happens to exits.                                                  *)

(* Aborting a pid's tasks notices and settles no exit. *)
LEMMA KillExits ==
  ASSUME TypeOK, NEW p, KillTasksByPid(p), restartQ' = restartQ
  PROVE  ExitsKept
<1>1. \A t \in LifeTask : Cancelled(t, AwaitsLife).st = t.st
                         \/ {t.st, Cancelled(t, AwaitsLife).st} \subseteq Open
  BY DEF LifeTask, Cancelled, AwaitsLife, Open
<1> QED BY <1>1 DEF KillTasksByPid, TypeOK, LifeTask, ExitsKept

(* A queued exit is noticed. *)
LEMMA QueuedFacts ==
  ASSUME SimInv, NEW k \in 1..Len(restartQ)
  PROVE  /\ restartQ[k].inst \in Born /\ restartQ[k].inst \in Instances
         /\ restartQ[k].name \in Names
         /\ ExitOf(restartQ[k].inst) = "noticed"
         /\ termsBar[chainBar[restartQ[k].inst]].name = restartQ[k].name
<1>1. restartQ[k].inst \in Instances /\ restartQ[k].name \in Names
  <2>1. restartQ[k] \in [name : Names, inst : Instances]
    BY ElementOfSeq DEF SimInv, TypeInv, TypeOK
  <2> QED BY <2>1
<1>2. life[restartQ[k].inst].st = "sent" /\ restartQ[k].name = info[restartQ[k].inst].name
  BY DEF SimInv, ChainInv, QueueInv
<1>3. restartQ[k].inst \in Born
  BY <1>1, <1>2 DEF SimInv, TypeInv, BornOK, Born
<1>4. PICK r \in Instances : r = info[restartQ[k].inst].root
  BY <1>1, <1>3, BornType DEF SimInv, ChainInv, LineInv, Line, Born
<1>5. info[r].root = r /\ info[r].name = restartQ[k].name
  BY <1>1, <1>2, <1>3, <1>4 DEF SimInv, ChainInv, LineInv, Line
<1>6. termsBar[chainBar[restartQ[k].inst]].name = restartQ[k].name
  BY <1>1, <1>4, <1>5 DEF termsBar, chainBar, TermsOf
<1>7. ExitOf(restartQ[k].inst) = "noticed"
  BY DEF ExitOf, Requested
<1> QED BY <1>1, <1>3, <1>6, <1>7

(* No request is queued of a monitor that has not sent it. *)
LEMMA NotRequested ==
  ASSUME SimInv, NEW i, life[i].st # "sent"
  PROVE  ~Requested(i)
  BY DEF SimInv, ChainInv, QueueInv, Requested

LEMMA SimReap ==
  ASSUME SimInv, NEW i \in Instances, MonitorReap(i)
  PROVE  Chains!Notice(i)
<1>1. /\ life[i].st = "watching" /\ restartQ' = restartQ
      /\ \A j \in Instances : life'[j].st = IF j = i THEN "reaped" ELSE life[j].st
  BY LifeMoves DEF MonitorReap, SimInv, TypeInv
<1>2. chainBar[i] # 0
  <2>1. i \in Born
    BY <1>1 DEF SimInv, TypeInv, BornOK, Born
  <2> QED BY <2>1 DEF chainBar, SimInv, ChainInv, LineInv, Line, Born
<1>3. exitBar[i] = "unnoticed"
  BY <1>1, NotRequested DEF exitBar, ExitOf
<1>4. exitBar' = [exitBar EXCEPT ![i] = "noticed"]
  <2>1. ExitOf(i)' = "noticed"
    BY <1>1 DEF ExitOf
  <2>2. \A j \in Instances \ {i} : ExitOf(j)' = ExitOf(j)
    BY <1>1 DEF ExitOf, Requested
  <2> QED BY <2>1, <2>2 DEF exitBar
<1>5. UNCHANGED <<chainBar, termsBar, statusBar>>
  BY PlacesKeptBar DEF MonitorReap, PlacesKept, SamePlace, actorVars
<1> QED BY <1>2, <1>3, <1>4, <1>5 DEF Chains!Notice

LEMMA SimSend ==
  ASSUME SimInv, NEW i \in Instances, MonitorSend(i)
  PROVE  UNCHANGED Chains!vars \/ Chains!Lose(i)
<1> DEFINE lost == poisoned \/ pc[Handler] \in {"dead", "panicked"}
<1>1. life[i].st = "reaped" /\ ~Requested(i)
  BY NotRequested DEF MonitorSend
<1>2. UNCHANGED <<chainBar, termsBar, statusBar>>
  BY PlacesKeptBar DEF MonitorSend, PlacesKept, SamePlace, actorVars, kernelVars
<1>3. CASE lost
  <2>1. /\ restartQ' = restartQ
        /\ \A j \in Instances : life'[j].st = IF j = i THEN "panicked" ELSE life[j].st
    BY <1>3, LifeMoves DEF MonitorSend, SimInv, TypeInv
  <2>2. ExitOf(i) = "noticed" /\ ExitOf(i)' = "settled"
    BY <1>1, <2>1 DEF ExitOf, Requested
  <2>3. \A j \in Instances \ {i} : ExitOf(j)' = ExitOf(j)
    BY <2>1 DEF ExitOf, Requested
  <2>4. exitBar[i] = "noticed" /\ exitBar' = [exitBar EXCEPT ![i] = "settled"]
    BY <2>2, <2>3 DEF exitBar
  <2> QED BY <1>2, <2>4 DEF Chains!Lose
<1>4. CASE ~lost
  <2> DEFINE r == [name |-> info[i].name, inst |-> i]
  <2>1. /\ restartQ' = Append(restartQ, r)
        /\ \A j \in Instances : life'[j].st = IF j = i THEN "sent" ELSE life[j].st
    BY <1>4, LifeMoves DEF MonitorSend, SimInv, TypeInv
  <2>2. /\ Len(restartQ') = Len(restartQ) + 1 /\ Len(restartQ) \in Nat
        /\ \A k \in 1..Len(restartQ) : restartQ'[k] = restartQ[k]
        /\ restartQ'[Len(restartQ) + 1] = r
    BY <2>1 DEF SimInv, TypeInv, TypeOK
  <2>3. r.inst = i
    OBVIOUS
  <2> HIDE DEF r
  <2>4. Requested(i)'
    BY <2>2, <2>3 DEF Requested
  <2>5. \A j \in Instances \ {i} : Requested(j)' <=> Requested(j)
    BY <2>2, <2>3 DEF Requested
  <2>6. \A j \in Instances : ExitOf(j)' = ExitOf(j)
    BY <1>1, <2>1, <2>4, <2>5 DEF ExitOf
  <2> QED BY <1>2, <2>6 DEF Chains!vars, exitBar
<1> QED BY <1>3, <1>4

(* The request at the head of the queue is received. *)
LEMMA SimReceived ==
  ASSUME SimInv, restartQ # <<>>, restartQ' = Tail(restartQ), life' = life,
         NEW k, k = Head(restartQ).inst
  PROVE  /\ k \in Instances /\ exitBar[k] = "noticed"
         /\ exitBar' = [exitBar EXCEPT ![k] = "settled"]
<1>1. /\ Len(restartQ) \in Nat /\ 1 \in 1..Len(restartQ) /\ Head(restartQ) = restartQ[1]
      /\ Len(restartQ') = Len(restartQ) - 1
      /\ \A m \in 1..(Len(restartQ) - 1) : restartQ'[m] = restartQ[m + 1]
  BY HeadTailProperties DEF SimInv, TypeInv, TypeOK
<1>2. k = restartQ[1].inst /\ k \in Instances /\ ExitOf(k) = "noticed"
  BY <1>1, QueuedFacts
<1>3. life[k].st = "sent" /\ \A m \in 1..Len(restartQ) : restartQ[m].inst = k => m = 1
  BY <1>1, <1>2 DEF SimInv, ChainInv, QueueInv
<1>4. ~Requested(k)'
  BY <1>1, <1>3 DEF Requested
<1>5. \A j \in Instances \ {k} : Requested(j)' <=> Requested(j)
  <2> SUFFICES ASSUME NEW j \in Instances \ {k} PROVE Requested(j)' <=> Requested(j)
    OBVIOUS
  <2>1. ASSUME NEW m \in 1..Len(restartQ), restartQ[m].inst = j PROVE Requested(j)'
    <3>1. m # 1 /\ m - 1 \in 1..Len(restartQ') /\ restartQ'[m - 1] = restartQ[m]
      BY <1>1, <1>2, <2>1
    <3> QED BY <2>1, <3>1 DEF Requested
  <2>2. ASSUME NEW m \in 1..Len(restartQ'), restartQ'[m].inst = j PROVE Requested(j)
    <3>1. m + 1 \in 1..Len(restartQ) /\ restartQ'[m] = restartQ[m + 1]
      BY <1>1
    <3> QED BY <2>2, <3>1 DEF Requested
  <2> QED BY <2>1, <2>2 DEF Requested
<1>6. ExitOf(k)' = "settled" /\ \A j \in Instances \ {k} : ExitOf(j)' = ExitOf(j)
  BY <1>3, <1>4, <1>5 DEF ExitOf
<1> QED BY <1>2, <1>6 DEF exitBar

LEMMA SimRecv ==
  ASSUME SimInv, SimInv', HandlerRecv
  PROVE  \/ \E i \in Instances : Chains!Lose(i)
         \/ \E c, i \in Instances : Chains!Answer(i, c)
<1>1. PICK k \in Instances, n \in Names :
        /\ k = Head(restartQ).inst /\ n = Head(restartQ).name
        /\ termsBar[chainBar[k]].name = n
  <2>1. 1 \in 1..Len(restartQ) /\ Head(restartQ) = restartQ[1]
    BY HeadTailProperties DEF HandlerRecv, SimInv, TypeInv, TypeOK
  <2> QED BY <2>1, QueuedFacts
<1>2. exitBar[k] = "noticed" /\ exitBar' = [exitBar EXCEPT ![k] = "settled"]
  BY <1>1, SimReceived DEF HandlerRecv, taskVars
<1>3. Handler \in Actors /\ pc[Handler] = "recv" /\ UNCHANGED <<info, forks>>
  BY DEF HandlerRecv, Actors, kernelVars
<1>4. job[Handler].inst = None
  BY <1>3 DEF SimInv, ChainInv, PlaceInv, Placed, Starting, Serving, Stopping
<1>5. CASE registry[n] = None
  <2>1. UNCHANGED <<registry, job>> /\ pc' = [pc EXCEPT ![Handler] = "panicked"]
    BY <1>1, <1>5 DEF HandlerRecv, Goto
  <2>2. PlacesKept
    BY <1>3, <1>4, <2>1 DEF PlacesKept, SamePlace, SimInv, TypeInv, TypeOK
  <2> QED BY <1>2, <2>2, PlacesKeptBar DEF Chains!Lose
<1>6. CASE registry[n] # None
  <2>1. PICK c \in Instances : At(n, c)
    BY <1>6, EntryFacts DEF At
  <2>2. /\ registry' = [registry EXCEPT ![n] = None]
        /\ job'[Handler].inst = registry[n] /\ pc'[Handler] = "decide"
        /\ \A b \in Actors \ {Handler} : job'[b] = job[b] /\ pc'[b] = pc[b]
    BY <1>1, <1>3, <1>6 DEF HandlerRecv, Goto, SimInv, TypeInv, TypeOK
  <2>3. pc'[Handler] \notin Starting /\ pc'[Handler] \in Serving
    BY <2>2 DEF Starting, Serving
  <2>4. \A b \in Actors \ {Handler} : job'[b].inst = job[b].inst /\ SamePlace(b)
    BY <2>2 DEF SamePlace
  <2>5. statusBar[c] = "listed" /\ termsBar[c].name = n /\ Chains!Move(c, "serving", {})
    BY <1>3, <1>4, <2>1, <2>2, <2>3, <2>4, SimTake
  <2>6. Chains!Answer(k, c)
    BY <1>1, <1>2, <1>3, <2>5, LinesKept DEF Chains!Answer
  <2> QED BY <2>6
<1> QED BY <1>5, <1>6

LEMMA SimStop ==
  ASSUME SimInv, SimInv', NEW a \in Clients, NEW n \in Names, StopRemove(a, n)
  PROVE  \E c \in Instances : Chains!Stop(c)
<1>1. a \in Actors /\ UNCHANGED <<info, forks>>
  BY DEF StopRemove, Actors, kernelVars
<1>2. job[a].inst = None
  BY <1>1 DEF StopRemove, SimInv, ChainInv, PlaceInv, Placed, Starting, Serving, Stopping
<1>3. PICK c \in Instances : At(n, c)
  BY EntryFacts DEF At, StopRemove
<1>4. /\ registry' = [registry EXCEPT ![n] = None]
      /\ job'[a].inst = registry[n] /\ pc'[a] = "stopTasks"
      /\ \A b \in Actors \ {a} : job'[b] = job[b] /\ pc'[b] = pc[b]
  BY <1>1 DEF StopRemove, Goto, SimInv, TypeInv, TypeOK
<1>5. pc'[a] \notin Starting /\ pc'[a] \notin Serving
  BY <1>4 DEF Starting, Serving
<1>6. \A b \in Actors \ {a} : job'[b].inst = job[b].inst /\ SamePlace(b)
  BY <1>4 DEF SamePlace
<1>7. statusBar[c] = "listed" /\ Chains!Move(c, "stopping", {})
  BY <1>1, <1>2, <1>3, <1>4, <1>5, <1>6, SimTake
<1>8. exitBar' = exitBar
  BY ExitsKeptBar DEF StopRemove, ExitsKept, taskVars
<1>9. Chains!Stop(c)
  BY <1>1, <1>7, <1>8, LinesKept DEF Chains!Stop
<1> QED BY <1>9

-----------------------------------------------------------------------------
(* Every step of Supervisor is one of RestartChains, or none.              *)

Step == [Chains!Next]_(Chains!vars)

LEMMA Quiet ==
  ASSUME PlacesKept, ExitsKept
  PROVE  Step
  BY PlacesKeptBar, ExitsKeptBar DEF Step, Chains!vars

(* The forms that a step of RestartChains takes here. *)
LEMMA IsStep ==
  ASSUME \/ \E c \in Instances : Chains!Begin(c) \/ Chains!List(c) \/ Chains!Stop(c) \/ Chains!LetGo(c)
         \/ \E c, i \in Instances : Chains!Extend(c, i) \/ Chains!Answer(i, c)
         \/ \E i \in Instances : Chains!Notice(i) \/ Chains!Lose(i)
         \/ UNCHANGED Chains!vars
  PROVE  Step
  BY DEF Step, Chains!Next

(* An error return: the actor lets go of its process, if it has one. *)
LEMMA SimGiveUp ==
  ASSUME SimInv, SimInv', NEW a \in Actors, NEW l, Finish(a, l),
         ~(l \in Starting \cup Serving \cup Stopping), ExitsKept,
         UNCHANGED <<info, forks, registry>>
  PROVE  Step
<1>1. /\ job'[a].inst = None
      /\ \A b \in Actors \ {a} : job'[b].inst = job[b].inst /\ SamePlace(b)
  BY DEF Finish, Goto, NoJob, SamePlace, SimInv, TypeInv, TypeOK
<1>2. CASE job[a].inst = None
  <2>1. PlacesKept
    BY <1>1, <1>2 DEF PlacesKept
  <2> QED BY <2>1, Quiet
<1>3. CASE job[a].inst # None
  <2>1. \E c \in Instances : Chains!LetGo(c)
    BY <1>1, <1>3, ExitsKeptBar, SimRelease
  <2> QED BY <2>1, IsStep
<1> QED BY <1>2, <1>3

(* Where a handler is when it is not at work on a process. *)
LEMMA RestLabels ==
  \A l \in {"idle", "recv", "dead", "panicked"} : ~(l \in Starting \cup Serving \cup Stopping)
  BY DEF Starting, Serving, Stopping

LEMMA SimLetsGo ==
  ASSUME SimInv, SimInv', NEW a \in Actors, LetsGo(a)
  PROVE  Step
<1>1. PICK l \in {"idle", "dead", "panicked"} : Finish(a, l)
  BY DEF LetsGo
<1>2. ExitsKept /\ UNCHANGED <<info, forks, registry>>
  BY DEF LetsGo, ExitsKept, kernelVars, taskVars
<1> QED BY <1>1, <1>2, RestLabels, SimGiveUp

LEMMA SimRefuse ==
  ASSUME SimInv, SimInv', NEW a \in Actors, Refuse(a)
  PROVE  Step
<1>1. CASE LogPanics(a)
  BY <1>1, GoingLetsGo, SimLetsGo DEF Refuse, kernelVars, taskVars
<1>2. CASE ~LogPanics(a)
  <2>1. ExitsKept
    BY <1>2, KillExits DEF Refuse, SimInv, TypeInv
  <2>2. PICK l \in {"idle", "dead"} : Finish(a, l)
    BY <1>2 DEF Refuse, GiveUp
  <2>3. UNCHANGED <<info, forks, registry>>
    BY <1>2 DEF Refuse
  <2> QED BY <2>1, <2>2, <2>3, RestLabels, SimGiveUp
<1> QED BY <1>1, <1>2

LEMMA SimStartStep ==
  ASSUME SimInv, SimInv', NEW a \in Actors, StartStep(a)
  PROVE  Step
<1>1. CASE \E p \in Pids : Fork(a, p)
  BY <1>1, SimFork, IsStep
<1>2. CASE ForkFails(a) \/ StreamsFail(a)
  BY <1>2, FailuresLetGo, SimLetsGo
<1>6. CASE SetupFails(a)
  <2>1. PICK l \in {"idle", "dead", "panicked"} : Finish(a, l)
    BY <1>6 DEF SetupFails, GiveUp, Panics
  <2>2. ExitsKept /\ UNCHANGED <<info, forks, registry>>
    BY <1>6 DEF SetupFails, ExitsKept, taskVars
  <2> QED BY <2>1, <2>2, RestLabels, SimGiveUp
<1>7. CASE Streams(a)
  <2>1. ExitsKept
    BY <1>7 DEF Streams, ExitsKept, taskVars
  <2>2. PlacesKept
    BY <1>7 DEF Streams, Goto, PlacesKept, SamePlace, Starting, Serving, Stopping, kernelVars,
       SimInv, TypeInv, TypeOK
  <2> QED BY <2>1, <2>2, Quiet
<1>3. CASE SubmitLife(a)
  <2> DEFINE i == job[a].inst
  <2>1. CASE HasTask(life, info[i].pid)
    BY <1>3, <2>1, SimRefuse DEF SubmitLife
  <2>2. CASE ~HasTask(life, info[i].pid)
    <3>1. i \in Instances /\ i # None
      <4>1. job[a].inst \in Born
        BY <1>3 DEF SubmitLife, SimInv, TypeInv, JobOK, Born
      <4> QED BY <4>1, BornType DEF SimInv, Born, None
    <3>2. life[i].st = "none"
      BY <2>2, <3>1 DEF HasTask
    <3>3. \A j \in Instances : life'[j].st = IF j = i THEN "queued" ELSE life[j].st
      BY <1>3, <2>2, <3>1, LifeMoves DEF SubmitLife, SimInv, TypeInv
    <3>4. ExitsKept
      BY <1>3, <2>2, <3>2, <3>3 DEF SubmitLife, ExitsKept, Open
    <3>5. PlacesKept
      BY <1>3, <2>2 DEF SubmitLife, Goto, PlacesKept, SamePlace, Starting, Serving, Stopping,
         kernelVars, SimInv, TypeInv, TypeOK
    <3> QED BY <3>4, <3>5, Quiet
  <2> QED BY <2>1, <2>2
<1>4. CASE SubmitMetrics(a)
  <2> DEFINE i == job[a].inst
  <2>1. CASE HasTask(metrics, info[i].pid)
    BY <1>4, <2>1, SimRefuse DEF SubmitMetrics
  <2>2. CASE ~HasTask(metrics, info[i].pid)
    <3>1. ExitsKept
      BY <1>4, <2>2 DEF SubmitMetrics, ExitsKept
    <3>2. PlacesKept
      BY <1>4, <2>2 DEF SubmitMetrics, Goto, PlacesKept, SamePlace, Starting, Serving, Stopping,
         kernelVars, SimInv, TypeInv, TypeOK
    <3> QED BY <3>1, <3>2, Quiet
  <2> QED BY <2>1, <2>2
<1>5. CASE Insert(a)
  <2>1. PICK n \in Names : n = job[a].name
    BY <1>5 DEF Insert, SimInv, TypeInv, JobOK, StartLabel
  <2>2. job[a].inst \in 1..forks
    BY <1>5 DEF Insert, SimInv, TypeInv, JobOK
  <2>3. job[a].inst # None
    BY <2>2 DEF None
  <2>4. /\ job'[a].inst = None /\ pc[a] \in Starting
        /\ \A b \in Actors \ {a} : job'[b].inst = job[b].inst /\ SamePlace(b)
    BY <1>5 DEF Insert, Finish, Goto, NoJob, SamePlace, Starting, SimInv, TypeInv, TypeOK
  <2>5. registry' = [registry EXCEPT ![n] = job[a].inst] /\ UNCHANGED <<info, forks>>
    BY <1>5, <2>1 DEF Insert, kernelVars
  <2>6. exitBar' = exitBar
    BY <1>5, ExitsKeptBar DEF Insert, ExitsKept, taskVars
  <2>7. \E c \in Instances : Chains!List(c)
    BY <2>1, <2>3, <2>4, <2>5, <2>6, SimInsert
  <2> QED BY <2>7, IsStep
<1> QED BY <1>1, <1>2, <1>3, <1>4, <1>5, <1>6, <1>7 DEF StartStep

LEMMA SimCommand ==
  ASSUME SimInv, SimInv', NEW a \in Clients, Command(a)
  PROVE  Step
<1>0. a \in Actors
  BY DEF Actors
<1>1. CASE \E n \in Names, pol \in Policies : StartCheck(a, n, pol)
  <2>1. pc[a] = "idle" /\ UNCHANGED <<info, registry, restartQ, life>>
    BY <1>1 DEF StartCheck, kernelVars, taskVars
  <2>2. job[a].inst = None
    BY <1>0, <2>1 DEF SimInv, ChainInv, PlaceInv, Placed, Starting, Serving, Stopping
  <2>3. /\ job'[a].inst = None
        /\ \A b \in Actors \ {a} : job'[b] = job[b] /\ pc'[b] = pc[b]
    BY <1>0, <1>1 DEF StartCheck, Goto, SimInv, TypeInv, TypeOK
  <2>4. PlacesKept
    BY <2>1, <2>2, <2>3 DEF PlacesKept, SamePlace
  <2> QED BY <2>1, <2>4, Quiet DEF ExitsKept
<1>2. CASE \E n \in Names : StopRemove(a, n)
  BY <1>2, SimStop, IsStep
<1>3. CASE ShutdownBegin(a)
  <2>1. /\ UNCHANGED <<info, registry, restartQ, job>> /\ pc[a] = "idle"
        /\ \A b \in Actors \ {a} : pc'[b] = pc[b]
    BY <1>3 DEF ShutdownBegin, Goto, kernelVars, SimInv, TypeInv, TypeOK
  <2>2. job[a].inst = None
    BY <1>0, <2>1 DEF SimInv, ChainInv, PlaceInv, Placed, Starting, Serving, Stopping
  <2>3. PlacesKept
    BY <2>1, <2>2 DEF PlacesKept, SamePlace
  <2>4. ExitsKept
    <3>1. \A t \in LifeTask : [Cancelled(t, AwaitsLife) EXCEPT !.handle = FALSE].st = t.st
            \/ {t.st, [Cancelled(t, AwaitsLife) EXCEPT !.handle = FALSE].st} \subseteq Open
      BY DEF LifeTask, Cancelled, AwaitsLife, Open
    <3> QED BY <1>3, <2>1, <3>1 DEF ShutdownBegin, SimInv, TypeInv, TypeOK, LifeTask, ExitsKept
  <2> QED BY <2>3, <2>4, Quiet
<1> QED BY <1>1, <1>2, <1>3 DEF Command

LEMMA SimClientStep ==
  ASSUME SimInv, SimInv', NEW a \in Clients, ClientStep(a)
  PROVE  Step
<1>0. a \in Actors
  BY DEF Actors
<1>1. CASE StartStep(a)
  BY <1>0, <1>1, SimStartStep
<1>2. CASE StopTasks(a) /\ ~poisoned
  <2>1. ExitsKept
    BY <1>2, KillExits DEF StopTasks, SimInv, TypeInv
  <2>2. PlacesKept
    BY <1>2 DEF StopTasks, Goto, PlacesKept, SamePlace, Starting, Serving, Stopping, kernelVars,
       SimInv, TypeInv, TypeOK
  <2> QED BY <2>1, <2>2, Quiet
<1>5. CASE StopTasks(a) /\ poisoned
  BY <1>0, <1>5, GoingLetsGo, SimLetsGo DEF StopTasks, kernelVars, taskVars
<1>3. CASE StopKill(a) \/ ShutdownExit(a)
  <2>1. ExitsKept
    BY <1>3 DEF StopKill, ShutdownExit, ExitsKept, taskVars
  <2> QED BY <1>0, <1>3, <2>1, RestLabels, SimGiveUp DEF StopKill, ShutdownExit, kernelVars
<1>4. CASE \E n \in Names : SweepKill(a, n)
  BY <1>4, Quiet DEF SweepKill, PlacesKept, SamePlace, ExitsKept, taskVars
<1> QED BY <1>1, <1>2, <1>3, <1>4, <1>5 DEF ClientStep

LEMMA SimHandlerStep ==
  ASSUME SimInv, SimInv', HandlerStep
  PROVE  Step
<1>0. Handler \in Actors
  BY DEF Actors
<1>1. CASE HandlerRecv
  BY <1>1, SimRecv, IsStep
<1>2. CASE HandlerDecide
  <2>1. ExitsKept
    BY <1>2, KillExits DEF HandlerDecide, SimInv, TypeInv
  <2>2. \A b \in Actors : job'[b].inst = job[b].inst
    <3>1. CASE job' = job
      BY <3>1
    <3>2. CASE job' = [job EXCEPT ![Handler].pol = Spent(job[Handler].pol)]
      BY <3>2 DEF SimInv, TypeInv, TypeOK, Job
    <3> QED BY <1>2, <3>1, <3>2 DEF HandlerDecide
  <2>3. \A b \in Actors : SamePlace(b)
    BY <1>2 DEF HandlerDecide, Goto, SamePlace, Starting, Serving, Stopping,
       SimInv, TypeInv, TypeOK
  <2>4. PlacesKept
    BY <1>2, <2>2, <2>3 DEF HandlerDecide, PlacesKept, kernelVars
  <2> QED BY <2>1, <2>4, Quiet
<1>3. CASE HandlerForget /\ ~poisoned
  <2>1. PICK n \in Names : n = job[Handler].name
    BY <1>0, <1>3 DEF HandlerForget, SimInv, TypeInv, JobOK
  <2>2. job[Handler].inst \in 1..forks
    BY <1>0, <1>3 DEF HandlerForget, SimInv, TypeInv, JobOK
  <2>3. job[Handler].inst # None
    BY <2>2 DEF None
  <2>4. /\ job'[Handler].inst = None /\ pc[Handler] \in Serving
        /\ \A b \in Actors \ {Handler} : job'[b].inst = job[b].inst /\ SamePlace(b)
    BY <1>0, <1>3
    DEF HandlerForget, Finish, Goto, NoJob, SamePlace, Serving, SimInv, TypeInv, TypeOK
  <2>5. registry' = [registry EXCEPT ![n] = None] /\ UNCHANGED <<info, forks>>
    BY <1>3, <2>1 DEF HandlerForget, kernelVars
  <2>6. exitBar' = exitBar
    BY <1>3, ExitsKeptBar DEF HandlerForget, ExitsKept, taskVars
  <2>7. \E c \in Instances : Chains!LetGo(c)
    BY <1>0, <2>1, <2>3, <2>4, <2>5, <2>6, SimForget
  <2> QED BY <2>7, IsStep
<1>4. CASE StartStep(Handler)
  BY <1>0, <1>4, SimStartStep
<1>5. CASE HandlerForget /\ poisoned
  BY <1>0, <1>5, GoingLetsGo, SimLetsGo DEF HandlerForget
<1> QED BY <1>1, <1>2, <1>3, <1>4, <1>5 DEF HandlerStep

LEMMA SimTasks ==
  ASSUME SimInv, SimInv',
         \/ Coordinators
         \/ \E i \in Instances : Monitor(i) \/ MetricsTick(i) \/ ChildExit(i)
         \/ LogPoisoned
  PROVE  Step
<1>1. CASE LifeSpawn
  <2>1. Head(reviveQ) \in Instances
    BY <1>1, HeadTailProperties DEF LifeSpawn, SimInv, TypeInv, TypeOK
  <2>2. \A j \in Instances :
          life'[j].st = IF j = Head(reviveQ) THEN "watching" ELSE life[j].st
    <3>1. life' = [life EXCEPT ![Head(reviveQ)].st = "watching"] /\ TypeOK
      BY <1>1 DEF LifeSpawn, SimInv, TypeInv
    <3> QED BY <2>1, <3>1, LifeMoves
  <2>3. ExitsKept
    BY <1>1, <2>2 DEF LifeSpawn, ExitsKept, Open
  <2> QED BY <1>1, <2>3, Quiet DEF LifeSpawn, PlacesKept, SamePlace, kernelVars, actorVars
<1>2. CASE LifeHandle
  <2>1. \A j \in Instances : life'[j].st = life[j].st
    BY <1>2, HandlesMove DEF LifeHandle, SimInv, TypeInv
  <2> QED BY <1>2, <2>1, Quiet
      DEF LifeHandle, ExitsKept, PlacesKept, SamePlace, kernelVars, actorVars
<1>3. CASE MetricsSpawn \/ MetricsHandle
  BY <1>3, Quiet
  DEF MetricsSpawn, MetricsHandle, ExitsKept, PlacesKept, SamePlace, kernelVars, actorVars
<1>4. ASSUME NEW i \in Instances, MonitorFails(i) PROVE Step
  <2>1. \A j \in Instances : life'[j].st = IF j = i THEN "failed" ELSE life[j].st
    <3>1. life' = [life EXCEPT ![i].st = "failed"] /\ TypeOK
      BY <1>4 DEF MonitorFails, SimInv, TypeInv
    <3> QED BY <3>1, LifeMoves
  <2>2. ExitsKept
    BY <1>4, <2>1 DEF MonitorFails, ExitsKept, Open
  <2> QED BY <1>4, <2>2, Quiet DEF MonitorFails, PlacesKept, SamePlace, kernelVars, actorVars
<1>5. ASSUME NEW i \in Instances, MetricsTick(i) \/ ChildExit(i) PROVE Step
  BY <1>5, Quiet
  DEF MetricsTick, ChildExit, ExitsKept, PlacesKept, SamePlace, kernelVars, taskVars, actorVars
<1>6. CASE LogPoisoned
  BY <1>6, Quiet
  DEF LogPoisoned, ExitsKept, PlacesKept, SamePlace, kernelVars, taskVars, actorVars
<1> QED BY <1>1, <1>2, <1>3, <1>4, <1>5, <1>6, SimReap, SimSend, IsStep DEF Coordinators, Monitor

LEMMA SimNext ==
  ASSUME SimInv, SimInv', [Next]_vars
  PROVE  Step
<1>1. CASE UNCHANGED vars
  BY <1>1, Quiet
  DEF vars, ExitsKept, PlacesKept, SamePlace, kernelVars, taskVars, actorVars
<1> QED BY <1>1, SimCommand, SimClientStep, SimHandlerStep, SimTasks DEF Next

-----------------------------------------------------------------------------
(* ChainInv is inductive.                                                  *)

(* A step without a fork lists and holds nothing new. *)
NothingNew ==
  /\ UNCHANGED <<info, forks>>
  /\ \A n \in Names : registry'[n] # None => Managed(registry'[n])
  /\ \A a \in Actors : job'[a].inst # None => Managed(job'[a].inst)

LEMMA LineFrame ==
  ASSUME TypeInv, LineInv, NothingNew
  PROVE  LineInv'
<1>1. \A i \in Born : i # None
  BY SupervisorAssumption DEF TypeInv, TypeOK, Born, None
<1>2. ASSUME NEW i \in Born, Managed(i)' PROVE Managed(i)
  BY <1>1, <1>2 DEF NothingNew, Managed, Registered
<1>3. Born' = Born /\ info' = info
  BY DEF NothingNew, Born
<1>4. \A i \in Instances : Line(i)'
  BY <1>3 DEF LineInv, Line
<1>5. ASSUME NEW i \in Born, Managed(i)' PROVE LastOfLine(i)'
  <2>1. LastOfLine(i)
    BY <1>2, <1>5 DEF LineInv
  <2> QED BY <1>2, <1>3, <2>1 DEF LastOfLine, LineOf
<1> QED BY <1>3, <1>4, <1>5 DEF LineInv

LEMMA LineFork ==
  ASSUME SimInv, NEW a \in Actors, NEW p \in Pids, Fork(a, p)
  PROVE  LineInv'
<1>1. PICK i \in Instances :
           /\ i = forks + 1 /\ i \notin Born /\ i # None /\ Born' = Born \cup {i}
           /\ info[i].root = 0
           /\ info'[i] = [name |-> job[a].name, pid |-> p, pol |-> job[a].pol,
                 root |-> IF job[a].inst = None THEN i ELSE info[job[a].inst].root,
                 gen  |-> IF job[a].inst = None THEN 1 ELSE info[job[a].inst].gen + 1]
           /\ \A j \in Instances \ {i} : info'[j] = info[j]
           /\ job'[a].inst = i /\ job'[a].name = job[a].name
           /\ \A b \in Actors \ {a} : job'[b] = job[b] /\ pc'[b] = pc[b]
           /\ pc[a] = "fork" /\ pc'[a] = "forked" /\ job[a].name \in Names
           /\ UNCHANGED <<registry, life, restartQ>>
  BY ForkFacts
<1>2. /\ \A n \in Names : registry[n] # i
      /\ \A b \in Actors : job[b].inst # i
      /\ \A j \in Instances : info[j].root # i
  BY <1>1, UnbornFacts
<1>3. \A j \in Born : j \in Instances /\ j # None
  BY BornType, SupervisorAssumption DEF SimInv, TypeInv, TypeOK, Born, None
<1>4. \A j \in Instances : Line(j)
  BY DEF SimInv, ChainInv, LineInv
<1>5. job[a].inst # None =>
        /\ job[a].inst \in Born /\ info[job[a].inst].root \in Born
        /\ info[info[job[a].inst].root].root = info[job[a].inst].root
        /\ info[info[job[a].inst].root].name = job[a].name
        /\ \A j \in Born : Managed(j) /\ info[j].root = info[job[a].inst].root => j = job[a].inst
        /\ \A n \in Names : registry[n] # job[a].inst
        /\ \A b \in Actors : job[b].inst = job[a].inst => b = a
        /\ LastOfLine(job[a].inst)
  <2>1. job[a].inst # None /\ job[a].inst \in Born => LastOfLine(job[a].inst)
    BY DEF SimInv, ChainInv, LineInv, Managed
  <2> QED BY <2>1, HeldFacts
<1>6. ASSUME NEW j \in Instances PROVE Line(j)'
  <2>1. CASE j = i
    <3>1. CASE job[a].inst = None
      <4>1. info'[i].root = i
        BY <1>1, <3>1
      <4> QED BY <1>1, <2>1, <4>1 DEF Line
    <3>2. CASE job[a].inst # None
      <4>1. PICK c \in Instances : c = info[job[a].inst].root
        BY <1>3, <1>5, <3>2
      <4>2. /\ c \in Born' /\ c # i /\ info'[c] = info[c] /\ info[c].root = c
            /\ info[c].name = job[a].name
        BY <1>1, <1>5, <3>2, <4>1
      <4>3. info'[i].root = c /\ info'[i].name = job[a].name
        BY <1>1, <3>2, <4>1
      <4> QED BY <1>1, <2>1, <4>2, <4>3 DEF Line
    <3> QED BY <3>1, <3>2
  <2>2. CASE j # i /\ j \in Born
    <3>1. PICK c \in Instances : c = info[j].root
      BY <1>3, <1>4, <2>2 DEF Line
    <3>2. c \in Born /\ info[c].root = c /\ info[c].name = info[j].name
      BY <1>4, <2>2, <3>1 DEF Line
    <3>3. info'[j] = info[j] /\ info'[c] = info[c] /\ c \in Born' /\ j \in Born'
      BY <1>1, <2>2, <3>2
    <3> QED BY <3>1, <3>2, <3>3 DEF Line
  <2>3. CASE j # i /\ j \notin Born
    BY <1>1, <1>4, <2>3 DEF Line
  <2> QED BY <2>1, <2>2, <2>3
<1>7. ASSUME NEW j \in Born, Managed(j)' PROVE Managed(j) /\ j # i /\ j # job[a].inst
  <2>1. j # i
    BY <1>1
  <2>2. Registered(j) \/ \E b \in Actors \ {a} : job[b].inst = j
    BY <1>1, <1>7, <2>1 DEF Managed, Registered
  <2>3. j # job[a].inst
    BY <1>3, <1>5, <2>2 DEF Registered
  <2> QED BY <2>1, <2>2, <2>3 DEF Managed
<1>8. ASSUME NEW j \in Born, Managed(j)' PROVE info'[j].root # info'[i].root
  <2>1. info'[j] = info[j] /\ Managed(j) /\ j # job[a].inst /\ j \in Instances
    BY <1>1, <1>3, <1>7, <1>8
  <2> QED BY <1>1, <1>2, <1>5, <2>1
<1>9. ASSUME NEW j \in Born, Managed(j)' PROVE LastOfLine(j)'
  <2>1. LastOfLine(j) /\ info'[j] = info[j] /\ j \in Instances
    BY <1>1, <1>3, <1>7, <1>9 DEF SimInv, ChainInv, LineInv
  <2>2. ASSUME NEW k \in Born', Managed(k)', info'[k].root = info'[j].root PROVE k = j
    <3>1. k \in Born
      BY <1>1, <1>8, <1>9, <2>2
    <3>2. Managed(k) /\ info'[k] = info[k]
      BY <1>1, <1>3, <1>7, <2>2, <3>1
    <3> QED BY <2>1, <2>2, <3>1, <3>2 DEF LastOfLine
  <2>3. PICK r \in Instances : r = info[j].root /\ r # 0
    BY <1>3, <1>4, <2>1 DEF Line, None
  <2>4. LineOf(r)' = LineOf(r)
    <3>1. info'[i].root # r /\ info[i].root # r
      BY <1>1, <1>8, <1>9, <2>1, <2>3
    <3> QED BY <1>1, <3>1 DEF LineOf
  <2>5. LineOf(info[j].root)' = LineOf(r)' /\ LineOf(info[j].root) = LineOf(r)
    BY <2>1, <2>3 DEF LineOf
  <2>6. Cardinality(LineOf(info[j].root)') = info'[j].gen
    BY <2>1, <2>4, <2>5 DEF LastOfLine
  <2> QED BY <2>2, <2>6 DEF LastOfLine
<1>10. LastOfLine(i)'
  <2>1. \A k \in Born' : Managed(k)' /\ info'[k].root = info'[i].root => k = i
    BY <1>1, <1>8
  <2>2. CASE job[a].inst = None
    <3>1. info'[i].root = i /\ info'[i].gen = 1
      BY <1>1, <2>2
    <3>2. LineOf(info[i].root)' = {i}
      <4>1. \A j \in Instances : info'[j].root = i <=> j = i
        BY <1>1, <1>2, <3>1
      <4> QED BY <3>1, <4>1 DEF LineOf
    <3>3. Cardinality(LineOf(info[i].root)') = info'[i].gen
      BY <3>1, <3>2, FS_Singleton
    <3> QED BY <2>1, <3>3 DEF LastOfLine
  <2>3. CASE job[a].inst # None
    <3>1. PICK c \in Instances : c = info[job[a].inst].root
      BY <1>3, <1>5, <2>3
    <3>2. info'[i].root = c /\ info'[i].gen = info[job[a].inst].gen + 1
      BY <1>1, <2>3, <3>1
    <3>3. Cardinality(LineOf(c)) = info[job[a].inst].gen
      BY <1>5, <2>3, <3>1 DEF LastOfLine
    <3>4. LineOf(info[i].root)' = LineOf(c) \cup {i}
      <4>1. \A j \in Instances : info'[j].root = c <=> j = i \/ info[j].root = c
        BY <1>1, <3>2
      <4> QED BY <3>2, <4>1 DEF LineOf
    <3>5. i \notin LineOf(c)
      <4>1. c # 0
        BY <1>3, <1>5, <2>3, <3>1 DEF None
      <4> QED BY <1>1, <4>1 DEF LineOf
    <3>6. IsFiniteSet(LineOf(c))
      <4>1. IsFiniteSet(Instances)
        BY FS_Interval, SupervisorAssumption DEF Instances
      <4>2. LineOf(c) \in SUBSET Instances
        BY DEF LineOf
      <4> QED BY <4>1, <4>2, FS_Subset
    <3>7. Cardinality(LineOf(info[i].root)') = info'[i].gen
      BY <3>2, <3>3, <3>4, <3>5, <3>6, FS_AddElement
    <3> QED BY <2>1, <3>7 DEF LastOfLine
  <2> QED BY <2>2, <2>3
<1> QED BY <1>1, <1>6, <1>9, <1>10 DEF LineInv

(* A step that changes the place of one actor only, or of none, and what   *)
(* that actor lists.                                                       *)
LEMMA PlaceFrame ==
  ASSUME PlaceInv, NEW a \in Actors, Placed(a)',
         \A b \in Actors \ {a} : job'[b] = job[b] /\ pc'[b] = pc[b],
         \A n \in Names : registry'[n] # None => info[registry'[n]].name = n,
         info' = info
  PROVE  PlaceInv'
<1>1. ASSUME NEW b \in Actors \ {a} PROVE Placed(b)'
  BY DEF PlaceInv, Placed
<1> QED BY <1>1 DEF PlaceInv

(* What a step that is not a fork must show, of one actor. *)
OneActor(a) ==
  /\ UNCHANGED <<info, forks>>
  /\ \A b \in Actors \ {a} : job'[b] = job[b] /\ pc'[b] = pc[b]
  /\ job'[a].inst # None => Managed(job'[a].inst)
  /\ \A n \in Names : registry'[n] # None =>
       registry'[n] = registry[n] \/ (n = job[a].name /\ registry'[n] = job[a].inst)

LEMMA OneActorKeeps ==
  ASSUME SimInv, NEW a \in Actors, OneActor(a), Placed(a)'
  PROVE  LineInv' /\ PlaceInv'
<1>1. NothingNew
  <2>1. \A b \in Actors \ {a} : job'[b].inst # None => Managed(job'[b].inst)
    BY DEF OneActor, Managed
  <2>2. \A n \in Names : registry'[n] # None => Managed(registry'[n])
    BY DEF OneActor, Managed, Registered
  <2> QED BY <2>1, <2>2 DEF NothingNew, OneActor
<1>2. LineInv'
  BY <1>1, LineFrame DEF SimInv, ChainInv
<1>3. \A n \in Names : registry'[n] # None => info[registry'[n]].name = n
  BY DEF OneActor, SimInv, ChainInv, PlaceInv, Placed
<1>4. PlaceInv'
  BY <1>3, PlaceFrame DEF OneActor, SimInv, ChainInv
<1> QED BY <1>2, <1>4

(* An error return, and the end of every handler. *)
LEMMA FinishKeeps ==
  ASSUME SimInv, NEW a \in Actors, NEW l, Finish(a, l),
         l \in {"idle", "recv", "dead", "panicked"},
         UNCHANGED <<info, forks>>,
         \A n \in Names : registry'[n] # None =>
           registry'[n] = registry[n] \/ (n = job[a].name /\ registry'[n] = job[a].inst)
  PROVE  LineInv' /\ PlaceInv'
<1>1. /\ job'[a].inst = None /\ pc'[a] = l
      /\ \A b \in Actors \ {a} : job'[b] = job[b] /\ pc'[b] = pc[b]
  BY DEF Finish, Goto, NoJob, SimInv, TypeInv, TypeOK
<1>2. OneActor(a)
  BY <1>1 DEF OneActor
<1>3. Placed(a)'
  BY <1>1 DEF Placed
<1> QED BY <1>2, <1>3, OneActorKeeps

LEMMA LetsGoKeeps ==
  ASSUME SimInv, NEW a \in Actors, LetsGo(a)
  PROVE  LineInv' /\ PlaceInv'
<1>1. PICK l \in {"idle", "dead", "panicked"} : Finish(a, l)
  BY DEF LetsGo
<1>2. UNCHANGED <<info, forks, registry>>
  BY DEF LetsGo, kernelVars
<1> QED BY <1>1, <1>2, FinishKeeps

(* An actor goes on to the next part of its work. *)
LEMMA GotoKeeps ==
  ASSUME SimInv, NEW a \in Actors, NEW l, Goto(a, l), l # "fork",
         l \in Starting \cup Serving \cup Stopping, UNCHANGED <<info, forks, registry, job>>
  PROVE  LineInv' /\ PlaceInv'
<1>1. pc'[a] = l /\ \A b \in Actors \ {a} : pc'[b] = pc[b]
  BY DEF Goto, SimInv, TypeInv, TypeOK
<1>2. OneActor(a)
  BY <1>1 DEF OneActor, Managed
<1>3. Placed(a)'
  BY <1>1 DEF Placed, SimInv, ChainInv, PlaceInv
<1> QED BY <1>2, <1>3, OneActorKeeps

(* An actor takes up the entry under a name. *)
LEMMA TakeKeeps ==
  ASSUME SimInv, NEW a \in Actors, NEW n \in Names, registry[n] # None, NEW l, Goto(a, l),
         l # "fork", l \in Starting \cup Serving \cup Stopping,
         job' = [job EXCEPT ![a] = [name |-> n, pol |-> info[registry[n]].pol, inst |-> registry[n]]],
         registry' = [registry EXCEPT ![n] = None], UNCHANGED <<info, forks>>
  PROVE  LineInv' /\ PlaceInv'
<1>1. /\ pc'[a] = l /\ job'[a].inst = registry[n] /\ job'[a].name = n
      /\ \A b \in Actors \ {a} : job'[b] = job[b] /\ pc'[b] = pc[b]
      /\ \A m \in Names : registry'[m] # None => registry'[m] = registry[m]
  BY DEF Goto, SimInv, TypeInv, TypeOK
<1>2. OneActor(a)
  BY <1>1 DEF OneActor, Managed, Registered
<1>3. Placed(a)'
  BY <1>1 DEF Placed, SimInv, ChainInv, PlaceInv
<1> QED BY <1>2, <1>3, OneActorKeeps

(* No actor moves. *)
LEMMA IdleKeeps ==
  ASSUME SimInv, UNCHANGED <<info, forks, registry, pc, job>>
  PROVE  LineInv' /\ PlaceInv'
<1>1. NothingNew
  BY DEF NothingNew, Managed, Registered
<1> QED BY <1>1, LineFrame DEF SimInv, ChainInv, PlaceInv, Placed

LEMMA ForkKeeps ==
  ASSUME SimInv, NEW a \in Actors, NEW p \in Pids, Fork(a, p)
  PROVE  LineInv' /\ PlaceInv'
<1>1. PICK i \in Instances :
           /\ i = forks + 1 /\ i \notin Born /\ i # None /\ Born' = Born \cup {i}
           /\ info[i].root = 0
           /\ info'[i] = [name |-> job[a].name, pid |-> p, pol |-> job[a].pol,
                 root |-> IF job[a].inst = None THEN i ELSE info[job[a].inst].root,
                 gen  |-> IF job[a].inst = None THEN 1 ELSE info[job[a].inst].gen + 1]
           /\ \A j \in Instances \ {i} : info'[j] = info[j]
           /\ job'[a].inst = i /\ job'[a].name = job[a].name
           /\ \A b \in Actors \ {a} : job'[b] = job[b] /\ pc'[b] = pc[b]
           /\ pc[a] = "fork" /\ pc'[a] = "forked" /\ job[a].name \in Names
           /\ UNCHANGED <<registry, life, restartQ>>
  BY ForkFacts
<1>2. /\ \A n \in Names : registry[n] # i
      /\ \A b \in Actors : job[b].inst # i
  BY <1>1, UnbornFacts
<1>3. /\ \A n \in Names : registry[n] # None => info'[registry[n]] = info[registry[n]]
      /\ \A b \in Actors : job[b].inst # None => info'[job[b].inst] = info[job[b].inst]
  BY <1>1, <1>2, HeldFacts, EntryFacts
<1>4. Placed(a)'
  BY <1>1 DEF Placed, Starting
<1>5. ASSUME NEW b \in Actors \ {a} PROVE Placed(b)'
  <2>1. Placed(b) /\ job'[b] = job[b] /\ pc'[b] = pc[b]
    BY <1>1 DEF SimInv, ChainInv, PlaceInv
  <2> QED BY <1>3, <2>1 DEF Placed
<1>6. \A n \in Names : registry'[n] # None => info'[registry'[n]].name = n
  BY <1>1, <1>3 DEF SimInv, ChainInv, PlaceInv
<1> QED BY <1>4, <1>5, <1>6, LineFork DEF PlaceInv

LEMMA PlaceNext ==
  ASSUME SimInv, [Next]_vars
  PROVE  LineInv' /\ PlaceInv'
<1>1. ASSUME NEW a \in Actors, StartStep(a) PROVE LineInv' /\ PlaceInv'
  <2>1. CASE \E p \in Pids : Fork(a, p)
    BY <2>1, ForkKeeps
  <2>2. CASE SetupFails(a) \/ Refuse(a)
    <3>1. PICK l \in {"idle", "dead", "panicked"} : Finish(a, l)
      BY <2>2 DEF SetupFails, Refuse, GiveUp, Panics
    <3>2. UNCHANGED <<info, forks, registry>>
      BY <2>2 DEF SetupFails, Refuse
    <3> QED BY <3>1, <3>2, FinishKeeps
  <2>5. CASE ForkFails(a) \/ StreamsFail(a)
    BY <2>5, FailuresLetGo, LetsGoKeeps
  <2>6. CASE Streams(a)
    <3>1. "setup" \in Starting /\ "setup" # "fork"
      BY DEF Starting
    <3> QED BY <2>6, <3>1, GotoKeeps DEF Streams, kernelVars
  <2>3. CASE (SubmitLife(a) \/ SubmitMetrics(a)) /\ ~Refuse(a)
    <3>1. PICK l \in {"submitMetrics", "insert"} : Goto(a, l)
      BY <2>3 DEF SubmitLife, SubmitMetrics
    <3>2. UNCHANGED <<info, forks, registry, job>>
      BY <2>3 DEF SubmitLife, SubmitMetrics, kernelVars
    <3>3. l \in Starting /\ l # "fork"
      BY DEF Starting
    <3> QED BY <3>1, <3>2, <3>3, GotoKeeps
  <2>4. CASE Insert(a)
    <3>1. PICK l \in {"idle", "recv"} : Finish(a, l)
      BY <2>4 DEF Insert
    <3>2. UNCHANGED <<info, forks>> /\ registry' = [registry EXCEPT ![job[a].name] = job[a].inst]
      BY <2>4 DEF Insert, kernelVars
    <3>3. \A n \in Names : registry'[n] # None =>
            registry'[n] = registry[n] \/ (n = job[a].name /\ registry'[n] = job[a].inst)
      BY <3>2 DEF SimInv, TypeInv, TypeOK
    <3> QED BY <3>1, <3>2, <3>3, FinishKeeps
  <2> QED BY <1>1, <2>1, <2>2, <2>3, <2>4, <2>5, <2>6 DEF StartStep
<1>2. ASSUME NEW a \in Clients, Command(a) PROVE LineInv' /\ PlaceInv'
  <2>0. a \in Actors
    BY DEF Actors
  <2>1. CASE \E n \in Names, pol \in Policies : StartCheck(a, n, pol)
    <3>1. /\ job'[a].inst = None /\ job'[a].pol \in Policies
          /\ \A b \in Actors \ {a} : job'[b] = job[b] /\ pc'[b] = pc[b]
      BY <2>0, <2>1 DEF StartCheck, Goto, SimInv, TypeInv, TypeOK
    <3>2. OneActor(a)
      BY <2>1, <3>1 DEF StartCheck, OneActor, kernelVars
    <3>3. Placed(a)'
      BY <3>1 DEF Placed
    <3> QED BY <2>0, <3>2, <3>3, OneActorKeeps
  <2>2. CASE \E n \in Names : StopRemove(a, n)
    <3>1. "stopTasks" \in Stopping /\ "stopTasks" # "fork"
      BY DEF Stopping
    <3> QED BY <2>0, <2>2, <3>1, TakeKeeps DEF StopRemove, kernelVars
  <2>3. CASE ShutdownBegin(a)
    <3>1. /\ UNCHANGED <<info, forks, registry, job>> /\ pc[a] = "idle" /\ pc'[a] = "sweep"
          /\ \A b \in Actors \ {a} : pc'[b] = pc[b]
      BY <2>0, <2>3 DEF ShutdownBegin, Goto, kernelVars, SimInv, TypeInv, TypeOK
    <3>2. job[a].inst = None
      BY <2>0, <3>1 DEF SimInv, ChainInv, PlaceInv, Placed, Starting, Serving, Stopping
    <3>3. OneActor(a) /\ Placed(a)'
      BY <3>1, <3>2 DEF OneActor, Placed
    <3> QED BY <2>0, <3>3, OneActorKeeps
  <2> QED BY <1>2, <2>1, <2>2, <2>3 DEF Command
<1>3. ASSUME NEW a \in Clients, ClientStep(a) PROVE LineInv' /\ PlaceInv'
  <2>0. a \in Actors
    BY DEF Actors
  <2>1. CASE StopTasks(a) /\ ~poisoned
    <3>1. "stopKill" \in Stopping /\ "stopKill" # "fork"
      BY DEF Stopping
    <3> QED BY <2>0, <2>1, <3>1, GotoKeeps DEF StopTasks, kernelVars
  <2>2. CASE StopKill(a) \/ ShutdownExit(a)
    <3>1. Finish(a, "idle") /\ UNCHANGED <<info, forks, registry>>
      BY <2>2 DEF StopKill, ShutdownExit, kernelVars
    <3> QED BY <2>0, <3>1, FinishKeeps
  <2>3. CASE \E n \in Names : SweepKill(a, n)
    BY <2>3, IdleKeeps DEF SweepKill
  <2>4. CASE StopTasks(a) /\ poisoned
    BY <2>0, <2>4, GoingLetsGo, LetsGoKeeps DEF StopTasks, kernelVars, taskVars
  <2> QED BY <1>1, <1>3, <2>0, <2>1, <2>2, <2>3, <2>4 DEF ClientStep
<1>4. CASE HandlerStep
  <2>0. Handler \in Actors
    BY DEF Actors
  <2>1. CASE HandlerRecv
    <3>1. PICK n \in Names : n = Head(restartQ).name
      <4>1. 1 \in 1..Len(restartQ) /\ Head(restartQ) = restartQ[1]
        BY <2>1, HeadTailProperties DEF HandlerRecv, SimInv, TypeInv, TypeOK
      <4> QED BY <4>1, QueuedFacts
    <3>2. CASE registry[n] = None
      <4>1. UNCHANGED <<info, forks, registry, job>> /\ pc[Handler] = "recv"
              /\ pc' = [pc EXCEPT ![Handler] = "panicked"]
        BY <2>1, <3>1, <3>2 DEF HandlerRecv, Goto, kernelVars
      <4>2. pc'[Handler] = "panicked" /\ \A b \in Actors \ {Handler} : pc'[b] = pc[b]
        BY <2>0, <4>1 DEF SimInv, TypeInv, TypeOK
      <4>3. job[Handler].inst = None
        BY <2>0, <4>1 DEF SimInv, ChainInv, PlaceInv, Placed, Starting, Serving, Stopping
      <4>4. OneActor(Handler) /\ Placed(Handler)'
        BY <4>1, <4>2, <4>3 DEF OneActor, Placed
      <4> QED BY <2>0, <4>4, OneActorKeeps
    <3>3. CASE registry[n] # None
      <4>1. "decide" \in Serving /\ "decide" # "fork"
        BY DEF Serving
      <4>2. /\ Goto(Handler, "decide") /\ UNCHANGED <<info, forks>>
            /\ registry' = [registry EXCEPT ![n] = None]
            /\ job' = [job EXCEPT ![Handler] =
                  [name |-> n, pol |-> info[registry[n]].pol, inst |-> registry[n]]]
        BY <2>1, <3>1, <3>3 DEF HandlerRecv, kernelVars
      <4> QED BY <2>0, <3>3, <4>1, <4>2, TakeKeeps
    <3> QED BY <3>2, <3>3
  <2>2. CASE HandlerDecide
    <3>1. /\ pc[Handler] = "decide" /\ pc'[Handler] \in {"fork", "forget"}
          /\ \A b \in Actors \ {Handler} : job'[b] = job[b] /\ pc'[b] = pc[b]
          /\ UNCHANGED <<info, forks, registry>>
      BY <2>0, <2>2 DEF HandlerDecide, Goto, kernelVars, SimInv, TypeInv, TypeOK
    <3>2. job'[Handler].inst = job[Handler].inst /\ job'[Handler].name = job[Handler].name
      <4>1. CASE job' = job
        BY <4>1
      <4>2. CASE job' = [job EXCEPT ![Handler].pol = Spent(job[Handler].pol)]
        BY <2>0, <4>2 DEF SimInv, TypeInv, TypeOK, Job
      <4> QED BY <2>2, <4>1, <4>2 DEF HandlerDecide
    <3>3. job[Handler].inst # None
      <4>1. job[Handler].inst \in 1..forks
        BY <2>0, <3>1 DEF SimInv, TypeInv, JobOK
      <4> QED BY <4>1 DEF None
    <3>4. OneActor(Handler)
      BY <2>0, <3>1, <3>2 DEF OneActor, Managed
    <3>5. Placed(Handler)'
      BY <2>0, <3>1, <3>2, <3>3 DEF Placed, Serving, SimInv, ChainInv, PlaceInv
    <3> QED BY <2>0, <3>4, <3>5, OneActorKeeps
  <2>3. CASE HandlerForget /\ ~poisoned
    <3>1. Finish(Handler, "recv") /\ UNCHANGED <<info, forks>>
            /\ registry' = [registry EXCEPT ![job[Handler].name] = None]
      BY <2>3 DEF HandlerForget, kernelVars
    <3>2. \A n \in Names : registry'[n] # None => registry'[n] = registry[n]
      BY <3>1 DEF SimInv, TypeInv, TypeOK
    <3> QED BY <2>0, <3>1, <3>2, FinishKeeps
  <2>4. CASE HandlerForget /\ poisoned
    BY <2>0, <2>4, GoingLetsGo, LetsGoKeeps DEF HandlerForget
  <2> QED BY <1>1, <1>4, <2>0, <2>1, <2>2, <2>3, <2>4 DEF HandlerStep
<1>5. CASE Coordinators
  BY <1>5, IdleKeeps
  DEF Coordinators, LifeSpawn, LifeHandle, MetricsSpawn, MetricsHandle, kernelVars, actorVars
<1>6. ASSUME NEW i \in Instances, Monitor(i) \/ MetricsTick(i) \/ ChildExit(i)
      PROVE  LineInv' /\ PlaceInv'
  BY <1>6, IdleKeeps
  DEF Monitor, MonitorFails, MonitorReap, MonitorSend, MetricsTick, ChildExit, kernelVars, actorVars
<1>7. CASE LogPoisoned \/ UNCHANGED vars
  BY <1>7, IdleKeeps DEF LogPoisoned, vars, kernelVars, actorVars
<1> QED BY <1>2, <1>3, <1>4, <1>5, <1>6, <1>7 DEF Next

(* Most steps leave the queue and the requests' senders as they are. *)
LEMMA QueueFrame ==
  ASSUME SimInv, restartQ' = restartQ,
         \A j \in Instances : life[j].st = "sent" => life'[j].st = "sent",
         \A j \in Born : info'[j] = info[j]
  PROVE  QueueInv'
<1> SUFFICES ASSUME NEW k \in 1..Len(restartQ)
             PROVE  /\ life'[restartQ[k].inst].st = "sent"
                    /\ restartQ[k].name = info'[restartQ[k].inst].name
                    /\ \A m \in 1..Len(restartQ) : restartQ[m].inst = restartQ[k].inst => m = k
  BY DEF QueueInv
<1> QED BY QueuedFacts DEF SimInv, ChainInv, QueueInv

(* What keeps a chain's exits as they are keeps the queue. *)
LEMMA ExitsKeepQueue ==
  ASSUME SimInv, ExitsKept, info' = info
  PROVE  QueueInv'
BY QueueFrame DEF ExitsKept, Open

LEMMA QueueSend ==
  ASSUME SimInv, NEW i \in Instances, MonitorSend(i)
  PROVE  QueueInv'
<1> DEFINE lost == poisoned \/ pc[Handler] \in {"dead", "panicked"}
<1>1. life[i].st = "reaped" /\ ~Requested(i) /\ info' = info
  BY NotRequested DEF MonitorSend, kernelVars
<1>2. CASE lost
  <2>1. restartQ' = restartQ /\ life' = [life EXCEPT ![i].st = "panicked"] /\ TypeOK
    BY <1>2 DEF MonitorSend, SimInv, TypeInv
  <2>2. \A j \in Instances : life[j].st = "sent" => life'[j].st = "sent"
    BY <1>1, <2>1, LifeMoves
  <2> QED BY <1>1, <2>1, <2>2, QueueFrame
<1>3. CASE ~lost
  <2> DEFINE r == [name |-> info[i].name, inst |-> i]
  <2>1. restartQ' = Append(restartQ, r) /\ life' = [life EXCEPT ![i].st = "sent"] /\ TypeOK
    BY <1>3 DEF MonitorSend, SimInv, TypeInv
  <2>2. \A j \in Instances : life'[j].st = IF j = i THEN "sent" ELSE life[j].st
    BY <2>1, LifeMoves
  <2>3. /\ Len(restartQ') = Len(restartQ) + 1 /\ Len(restartQ) \in Nat
        /\ \A k \in 1..Len(restartQ) : restartQ'[k] = restartQ[k]
        /\ restartQ'[Len(restartQ) + 1] = r
    BY <2>1 DEF SimInv, TypeInv, TypeOK
  <2>4. r.inst = i /\ r.name = info[i].name
    OBVIOUS
  <2> HIDE DEF r
  <2>5. \A k \in 1..Len(restartQ) :
          /\ restartQ[k].inst \in Instances /\ restartQ[k].inst # i
          /\ life[restartQ[k].inst].st = "sent" /\ restartQ[k].name = info[restartQ[k].inst].name
    BY <1>1, QueuedFacts DEF Requested, SimInv, ChainInv, QueueInv
  <2>6. ASSUME NEW k \in 1..Len(restartQ')
        PROVE  life'[restartQ'[k].inst].st = "sent" /\ restartQ'[k].name = info'[restartQ'[k].inst].name
    BY <1>1, <2>2, <2>3, <2>4, <2>5, <2>6
  <2>7. ASSUME NEW k \in 1..Len(restartQ'), NEW m \in 1..Len(restartQ'),
               restartQ'[m].inst = restartQ'[k].inst
        PROVE  m = k
    <3>1. CASE k \in 1..Len(restartQ) /\ m \in 1..Len(restartQ)
      BY <2>3, <2>7, <3>1 DEF SimInv, ChainInv, QueueInv
    <3>2. CASE k = Len(restartQ) + 1 /\ m \in 1..Len(restartQ)
      BY <2>3, <2>4, <2>5, <2>7, <3>2
    <3>3. CASE m = Len(restartQ) + 1 /\ k \in 1..Len(restartQ)
      BY <2>3, <2>4, <2>5, <2>7, <3>3
    <3> QED BY <2>3, <3>1, <3>2, <3>3
  <2> QED BY <2>6, <2>7 DEF QueueInv
<1> QED BY <1>2, <1>3

LEMMA QueueRecv ==
  ASSUME SimInv, HandlerRecv
  PROVE  QueueInv'
<1>1. /\ Len(restartQ) \in Nat /\ Len(restartQ') = Len(restartQ) - 1
      /\ \A m \in 1..(Len(restartQ) - 1) : restartQ'[m] = restartQ[m + 1]
      /\ UNCHANGED <<life, info>>
  BY HeadTailProperties DEF HandlerRecv, kernelVars, taskVars, SimInv, TypeInv, TypeOK
<1>2. ASSUME NEW k \in 1..Len(restartQ')
      PROVE  k + 1 \in 1..Len(restartQ) /\ restartQ'[k] = restartQ[k + 1]
  BY <1>1
<1>3. ASSUME NEW k \in 1..Len(restartQ'), NEW m \in 1..Len(restartQ'),
             restartQ'[m].inst = restartQ'[k].inst
      PROVE  m = k
  <2>1. m + 1 = k + 1
    BY <1>2, <1>3 DEF SimInv, ChainInv, QueueInv
  <2> QED BY <1>1, <2>1
<1>4. ASSUME NEW k \in 1..Len(restartQ')
      PROVE  life'[restartQ'[k].inst].st = "sent" /\ restartQ'[k].name = info'[restartQ'[k].inst].name
  BY <1>1, <1>2 DEF SimInv, ChainInv, QueueInv
<1> QED BY <1>3, <1>4 DEF QueueInv

LEMMA QueueNext ==
  ASSUME SimInv, [Next]_vars
  PROVE  QueueInv'
<1>1. ASSUME NEW a \in Actors, StartStep(a) PROVE QueueInv'
  <2>1. CASE \E p \in Pids : Fork(a, p)
    <3>1. UNCHANGED <<life, restartQ>> /\ \A j \in Born : info'[j] = info[j]
      BY <2>1, ForkFacts, BornType DEF Born, SimInv
    <3> QED BY <3>1, QueueFrame
  <2>2. CASE Refuse(a)
    <3>1. CASE LogPanics(a)
      BY <2>2, <3>1, QueueFrame DEF Refuse
    <3>2. CASE ~LogPanics(a)
      BY <2>2, <3>2, KillExits, ExitsKeepQueue DEF Refuse, SimInv, TypeInv
    <3> QED BY <3>1, <3>2
  <2>5. CASE ForkFails(a) \/ Streams(a) \/ StreamsFail(a) \/ SetupFails(a)
    BY <2>5, QueueFrame
    DEF ForkFails, Streams, StreamsFail, SetupFails, kernelVars, taskVars
  <2>3. CASE SubmitMetrics(a) \/ Insert(a)
    BY <2>2, <2>3, QueueFrame DEF SubmitMetrics, Insert, kernelVars, taskVars
  <2>4. CASE SubmitLife(a) /\ ~Refuse(a)
    <3> DEFINE i == job[a].inst
    <3>1. UNCHANGED <<info, restartQ>> /\ life' = [life EXCEPT ![i].st = "queued"] /\ TypeOK
          /\ ~HasTask(life, info[i].pid)
      BY <2>4 DEF SubmitLife, kernelVars, SimInv, TypeInv
    <3>2. i \in Instances
      <4>1. i \in Born
        BY <2>4 DEF SubmitLife, SimInv, TypeInv, JobOK, Born
      <4> QED BY <4>1, BornType DEF SimInv, Born
    <3>3. life[i].st = "none"
      BY <3>1, <3>2 DEF HasTask
    <3> HIDE DEF i
    <3>4. \A j \in Instances : life'[j].st = IF j = i THEN "queued" ELSE life[j].st
      BY <3>1, <3>2, LifeMoves
    <3> QED BY <3>1, <3>3, <3>4, QueueFrame
  <2> QED BY <1>1, <2>1, <2>2, <2>3, <2>4, <2>5 DEF StartStep
<1>2. ASSUME NEW a \in Clients, Command(a) PROVE QueueInv'
  <2>1. CASE ShutdownBegin(a)
    <3>1. \A t \in LifeTask :
            t.st = "sent" => [Cancelled(t, AwaitsLife) EXCEPT !.handle = FALSE].st = "sent"
      BY DEF LifeTask, Cancelled, AwaitsLife
    <3>2. \A j \in Instances : life[j].st = "sent" => life'[j].st = "sent"
      BY <2>1, <3>1 DEF ShutdownBegin, SimInv, TypeInv, TypeOK, LifeTask
    <3> QED BY <2>1, <3>2, QueueFrame DEF ShutdownBegin, kernelVars
  <2>2. CASE ~ShutdownBegin(a)
    BY <1>2, <2>2, QueueFrame DEF Command, StartCheck, StopRemove, kernelVars, taskVars
  <2> QED BY <2>1, <2>2
<1>3. ASSUME NEW a \in Clients, ClientStep(a) PROVE QueueInv'
  <2>0. a \in Actors
    BY DEF Actors
  <2>1. CASE StopTasks(a) /\ ~poisoned
    BY <2>1, KillExits, ExitsKeepQueue DEF StopTasks, kernelVars, SimInv, TypeInv
  <2>2. CASE StopKill(a) \/ ShutdownExit(a) \/ \E n \in Names : SweepKill(a, n)
    BY <2>2, QueueFrame DEF StopKill, ShutdownExit, SweepKill, kernelVars, taskVars
  <2>3. CASE StopTasks(a) /\ poisoned
    BY <2>3, QueueFrame DEF StopTasks, kernelVars
  <2> QED BY <1>1, <1>3, <2>0, <2>1, <2>2, <2>3 DEF ClientStep
<1>4. CASE HandlerStep
  <2>0. Handler \in Actors
    BY DEF Actors
  <2>1. CASE HandlerDecide
    BY <2>1, KillExits, ExitsKeepQueue DEF HandlerDecide, kernelVars, SimInv, TypeInv
  <2>2. CASE HandlerForget
    BY <2>2, QueueFrame DEF HandlerForget, kernelVars, taskVars
  <2> QED BY <1>1, <1>4, <2>0, <2>1, <2>2, QueueRecv DEF HandlerStep
<1>5. CASE LifeSpawn
  <2>1. Head(reviveQ) \in Instances /\ life[Head(reviveQ)].st = "queued" /\ TypeOK
    BY <1>5, HeadTailProperties DEF LifeSpawn, SimInv, TypeInv, TypeOK
  <2>2. life' = [life EXCEPT ![Head(reviveQ)].st = "watching"] /\ UNCHANGED <<info, restartQ>>
    BY <1>5 DEF LifeSpawn, kernelVars
  <2>3. \A j \in Instances : life[j].st = "sent" => life'[j].st = "sent"
    BY <2>1, <2>2, LifeMoves
  <2> QED BY <2>2, <2>3, QueueFrame
<1>6. CASE LifeHandle \/ MetricsSpawn \/ MetricsHandle
  <2>1. \A j \in Instances : life[j].st = "sent" => life'[j].st = "sent"
    <3>1. CASE LifeHandle
      <4>1. life' = [life EXCEPT ![Head(reviveQ)].handle = TRUE] /\ TypeOK
        BY <3>1 DEF LifeHandle, SimInv, TypeInv
      <4> QED BY <4>1, HandlesMove
    <3> QED BY <1>6, <3>1 DEF MetricsSpawn, MetricsHandle
  <2> QED BY <1>6, <2>1, QueueFrame DEF LifeHandle, MetricsSpawn, MetricsHandle, kernelVars
<1>7. ASSUME NEW i \in Instances, MonitorFails(i) \/ MonitorReap(i) PROVE QueueInv'
  <2>1. PICK st \in {"failed", "reaped"} : life' = [life EXCEPT ![i].st = st]
    BY <1>7 DEF MonitorFails, MonitorReap
  <2>2. TypeOK /\ life[i].st = "watching" /\ UNCHANGED <<info, restartQ>>
    BY <1>7 DEF MonitorFails, MonitorReap, kernelVars, SimInv, TypeInv
  <2>3. \A j \in Instances : life[j].st = "sent" => life'[j].st = "sent"
    BY <2>1, <2>2, LifeMoves
  <2> QED BY <2>2, <2>3, QueueFrame
<1>8. ASSUME NEW i \in Instances, MetricsTick(i) \/ ChildExit(i) PROVE QueueInv'
  BY <1>8, QueueFrame DEF MetricsTick, ChildExit, kernelVars, taskVars
<1>9. CASE LogPoisoned \/ UNCHANGED vars
  BY <1>9, QueueFrame DEF LogPoisoned, vars, kernelVars, taskVars
<1> QED BY <1>2, <1>3, <1>4, <1>5, <1>6, <1>7, <1>8, <1>9, QueueSend
    DEF Next, Coordinators, Monitor

-----------------------------------------------------------------------------
LEMMA SimInit ==
  ASSUME Init
  PROVE  ChainInv /\ Chains!Init
<1>1. ChainInv
  BY DEF Init, ChainInv, LineInv, Line, PlaceInv, Placed, QueueInv, Born, NoJob
<1>2. \A i \in Instances : info[i].root = 0 /\ i # 0
  BY SupervisorAssumption DEF Init, Instances
<1>3. chainBar = [i \in Instances |-> 0]
  BY <1>2 DEF chainBar
<1>4. exitBar = [i \in Instances |-> "unnoticed"]
  BY DEF Init, exitBar, ExitOf, Requested
<1>5. termsBar = [i \in Instances |-> NoTerms] /\ statusBar = [i \in Instances |-> "none"]
  BY <1>2 DEF termsBar, TermsOf, statusBar, StatusOf
<1> QED BY <1>1, <1>3, <1>4, <1>5 DEF Chains!Init

(* Of a chain only its last process is listed or held, under the chain's   *)
(* name, and a process whose exit is to be answered has one request.       *)
THEOREM ChainInvariant == Spec => []SimInv
<1>1. Init => OneOwner /\ BudgetInv
  BY DEF Init, OneOwner, BudgetInv, AccountKept, Born, NoJob
<1>2. Init => ChainInv
  BY SimInit
<1>3. TypeInv /\ OneOwner /\ BudgetInv /\ ChainInv /\ [Next]_vars
        => OneOwner' /\ BudgetInv' /\ ChainInv'
  BY OwnerNext, BudgetNext, PlaceNext, QueueNext DEF SimInv, ChainInv
<1> QED BY <1>1, <1>2, <1>3, TypeInvariant, PTL DEF Spec, SimInv

(* Supervisor implements RestartChains: whatever interleaves, every restart *)
(* answers one noticed exit of its name, no exit is answered twice, and a  *)
(* chain has one holder at a time and stays in its budget.                 *)
THEOREM KeepsChainsHolds == Spec => KeepsChains
<1>1. Init => Chains!Init
  BY SimInit
<1>2. SimInv /\ SimInv' /\ [Next]_vars => [Chains!Next]_(Chains!vars)
  BY SimNext DEF Step
<1> QED BY <1>1, <1>2, ChainInvariant, PTL DEF Spec, KeepsChains, Chains!Spec
=============================================================================
