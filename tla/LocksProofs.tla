----------------------------- MODULE LocksProofs -----------------------------
(***************************************************************************)
(* Proof that the daemon's tasks block each other for ever in one way      *)
(* only, for any number of tasks, pids and worker threads.                 *)
(***************************************************************************)
EXTENDS LocksProperties, FiniteSetTheorems, TLAPS

(* Which tasks come to the places where two mutexes are involved. *)
PlaceOK ==
  \A t \in Tasks :
    /\ at[t] \in {"submit", "refused"} => Role[t] \in {"start", "restart"}
    /\ at[t] = "refused" => Pid[t] \in known
    /\ at[t] \in {"complain", "complained"} => Role[t] \in {"giveUp", "restart"}

(* A task keeps its worker until its poll is over. *)
WorkersOK == Cardinality(Busy) <= Workers

LocksInv == TypeOK /\ PlaceOK /\ WorkersOK

LEMMA BusyFinite == IsFiniteSet(Busy) /\ Cardinality(Busy) \in Nat
  BY LocksAssumption, FS_Subset, FS_CardinalityType DEF Busy

(* A task that is not scheduled takes no worker. *)
LEMMA WorkersKept ==
  ASSUME LocksInv, Busy' \subseteq Busy
  PROVE  WorkersOK'
<1>1. Cardinality(Busy') <= Cardinality(Busy) /\ Cardinality(Busy') \in Nat
  BY BusyFinite, FS_Subset, FS_CardinalityType
<1> QED BY <1>1, BusyFinite, LocksAssumption DEF LocksInv, WorkersOK

LEMMA LocksInit == Init => LocksInv
<1> SUFFICES ASSUME Init PROVE LocksInv
  OBVIOUS
<1>1. TypeOK /\ PlaceOK
  BY LocksAssumption DEF Init, TypeOK, PlaceOK, Label
<1>2. Busy = {}
  BY DEF Init, Busy
<1> QED BY <1>1, <1>2, FS_EmptySet, LocksAssumption DEF LocksInv, WorkersOK

(* A worker takes up a task at the beginning of its poll. *)
LEMMA LocksSchedule ==
  ASSUME LocksInv, NEW t \in Tasks, Schedule(t)
  PROVE  LocksInv'
<1>1. at' = [at EXCEPT ![t] = Entry[Role[t]]] /\ Role[t] \in Roles
  BY LocksAssumption DEF Schedule, Goto
<1>2. /\ Entry[Role[t]] \in {"submit", "complain", "report", "registry", "log"}
      /\ Entry[Role[t]] = "submit" => Role[t] \in {"start", "restart"}
      /\ Entry[Role[t]] = "complain" => Role[t] = "giveUp"
  BY <1>1 DEF Entry, Roles
<1>3. TypeOK' /\ PlaceOK'
  BY <1>1, <1>2 DEF LocksInv, TypeOK, PlaceOK, Label, Schedule
<1>4. Busy' = Busy \cup {t} /\ t \notin Busy
  BY <1>1, <1>2 DEF LocksInv, TypeOK, Busy, Schedule
<1>5. Cardinality(Busy') = Cardinality(Busy) + 1
  BY <1>4, BusyFinite, FS_AddElement
<1>6. WorkersOK'
  BY <1>5, BusyFinite, LocksAssumption DEF Schedule, WorkersOK
<1> QED BY <1>3, <1>6 DEF LocksInv

(* A task that has a worker goes on. *)
LEMMA LocksStep ==
  ASSUME LocksInv, NEW t \in Tasks, Step(t)
  PROVE  LocksInv'
<1>1. CASE Submit(t)
  <2>1. TypeOK' /\ PlaceOK'
    BY <1>1, LocksAssumption DEF Submit, Goto, LocksInv, TypeOK, PlaceOK, Label
  <2>2. Busy' \subseteq Busy
    BY <1>1 DEF Submit, Goto, LocksInv, TypeOK, Busy
  <2> QED BY <2>1, <2>2, WorkersKept DEF LocksInv
<1>2. CASE Refuse(t)
  <2>1. TypeOK' /\ PlaceOK'
    BY <1>2, LocksAssumption DEF Refuse, Goto, LocksInv, TypeOK, PlaceOK, Label
  <2>2. Busy' \subseteq Busy
    BY <1>2 DEF Refuse, Goto, LocksInv, TypeOK, Busy
  <2> QED BY <2>1, <2>2, WorkersKept DEF LocksInv
<1>3. CASE Complain(t)
  <2>1. TypeOK' /\ PlaceOK'
    BY <1>3, LocksAssumption DEF Complain, Goto, LocksInv, TypeOK, PlaceOK, Label
  <2>2. Busy' \subseteq Busy
    BY <1>3 DEF Complain, Goto, LocksInv, TypeOK, Busy
  <2> QED BY <2>1, <2>2, WorkersKept DEF LocksInv
<1>4. CASE Clear(t)
  <2>1. TypeOK' /\ PlaceOK'
    BY <1>4, LocksAssumption DEF Clear, Goto, LocksInv, TypeOK, PlaceOK, Label
  <2>2. Busy' \subseteq Busy
    BY <1>4 DEF Clear, Goto, LocksInv, TypeOK, Busy
  <2> QED BY <2>1, <2>2, WorkersKept DEF LocksInv
<1>5. CASE Report(t) \/ UseRegistry(t) \/ UseLog(t)
  <2>1. TypeOK' /\ PlaceOK'
    BY <1>5 DEF Report, UseRegistry, UseLog, Goto, LocksInv, TypeOK, PlaceOK, Label
  <2>2. Busy' \subseteq Busy
    BY <1>5 DEF Report, UseRegistry, UseLog, Goto, LocksInv, TypeOK, Busy
  <2> QED BY <2>1, <2>2, WorkersKept DEF LocksInv
<1> QED BY <1>1, <1>2, <1>3, <1>4, <1>5 DEF Step

LEMMA LocksNext == LocksInv /\ [Next]_vars => LocksInv'
<1> SUFFICES ASSUME LocksInv, [Next]_vars PROVE LocksInv'
  OBVIOUS
<1>1. CASE UNCHANGED vars
  BY <1>1 DEF vars, LocksInv, TypeOK, PlaceOK, WorkersOK, Busy
<1>2. CASE Next
  BY <1>2, LocksSchedule, LocksStep DEF Next
<1> QED BY <1>1, <1>2

-----------------------------------------------------------------------------
(* Follow the waiting: somebody busy waits for a mutex, whose holder is    *)
(* busy and so waits for the other mutex, whose holder waits for the first. *)
LEMMA StuckIsCrossed ==
  ASSUME LocksInv, Stuck
  PROVE  Crossed
<1>1. \A t \in Tasks : registry = t => WaitsForLog(t)
  <2>1. ASSUME NEW t \in Tasks, registry = t
        PROVE  WaitsForLog(t)
    <3>1. at[t] = "refused" /\ t \in Busy
      BY <2>1 DEF LocksInv, TypeOK, Busy
    <3> QED BY <3>1 DEF Stuck, WaitsForRegistry
  <2> QED BY <2>1
<1>2. \A t \in Tasks : log = t => WaitsForRegistry(t)
  <2>1. ASSUME NEW t \in Tasks, log = t
        PROVE  WaitsForRegistry(t)
    <3>1. at[t] = "complained" /\ t \in Busy
      BY <2>1 DEF LocksInv, TypeOK, Busy
    <3> QED BY <3>1 DEF Stuck, WaitsForLog
  <2> QED BY <2>1
<1>3. registry # Free \/ log # Free
  BY DEF Stuck, WaitsForRegistry, WaitsForLog
<1>4. registry # Free /\ log # Free
  BY <1>1, <1>2, <1>3 DEF LocksInv, TypeOK, WaitsForRegistry, WaitsForLog
<1> QED BY <1>4 DEF LocksInv, TypeOK, Crossed

(* Who crosses, and that they have a worker each. *)
LEMMA CrossedBy ==
  ASSUME LocksInv, Crossed
  PROVE  /\ Workers > 1 /\ registry # log
         /\ Role[registry] \in {"start", "restart"} /\ Pid[registry] \in known
         /\ Role[log] \in {"giveUp", "restart"}
<1>1. registry \in Tasks /\ log \in Tasks /\ registry # log
  BY DEF LocksInv, TypeOK, Crossed
<1>2. {registry, log} \subseteq Busy
  BY <1>1 DEF Crossed, Busy
<1>3. Cardinality({registry, log}) = 2
  <2>1. IsFiniteSet({registry}) /\ Cardinality({registry}) = 1
    BY FS_Singleton
  <2>2. {registry, log} = {registry} \cup {log} /\ log \notin {registry}
    BY <1>1
  <2> QED BY <2>1, <2>2, FS_AddElement
<1>4. 2 <= Cardinality(Busy)
  BY <1>2, <1>3, BusyFinite, FS_Subset
<1>5. Workers > 1
  BY <1>4, BusyFinite, LocksAssumption DEF LocksInv, WorkersOK
<1> QED BY <1>1, <1>5 DEF LocksInv, PlaceOK, Crossed

-----------------------------------------------------------------------------
(* threads.rs and device.rs: each mutex is held by the task that is at the *)
(* place where it is held.                                                 *)
THEOREM LocksTypeCorrect == Spec => []TypeOK
<1>1. LocksInv => TypeOK
  BY DEF LocksInv
<1> QED BY LocksInit, LocksNext, <1>1, PTL DEF Spec

(* For any number of tasks, pids and threads: the daemon's only deadlock is *)
(* the crossing of a refused submit with a task that gives up.             *)
THEOREM OnlyCrossingHolds == Spec => []OnlyCrossing
<1>1. LocksInv => OnlyCrossing
  BY StuckIsCrossed, CrossedBy DEF OnlyCrossing
<1> QED BY LocksInit, LocksNext, <1>1, PTL DEF Spec
=============================================================================
