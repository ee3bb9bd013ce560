--------------------------- MODULE LogStreamProofs ---------------------------
(***************************************************************************)
(* Proofs about the log files and the ring buffer, for any number of       *)
(* streams and files, any lengths of lines and any capacity.               *)
(***************************************************************************)
EXTENDS LogStreamProperties, SequenceTheorems, FiniteSetTheorems, TLAPS

(* No line is taken that was not sent; the mutex is held exactly by a      *)
(* reader that truncates, and it truncates because its counter is over the *)
(* limit.                                                                  *)
ReaderOK(s) ==
  /\ Len(pipe[s]) <= sent[s]
  /\ reader[s] \in {"none", "opened"} => Len(pipe[s]) = sent[s]
  /\ reader[s] \in Trimming => lock = s /\ size[s] > MaxLen
  /\ lock = s => reader[s] \in Trimming

TypeInv == TypeOK /\ \A s \in Streams : ReaderOK(s)

-----------------------------------------------------------------------------
(* What the steps do to the sequences.                                     *)

(* The cells of a line of n that a write gets into the file: m of them. *)
LEMMA CellsWritten ==
  ASSUME NEW s \in Streams, NEW l \in Nat, NEW n \in Nat, NEW m \in 1..n
  PROVE  LET new == SubSeq([k \in 1..n |-> [stream |-> s, line |-> l, at |-> k]], 1, m) IN
         /\ new \in Seq(Cell)
         /\ Len(new) = m
         /\ \A i \in 1..m : new[i] = [stream |-> s, line |-> l, at |-> i]
<1> DEFINE cells == [k \in 1..n |-> [stream |-> s, line |-> l, at |-> k]]
<1>1. \A i \in 1..m : cells[i] \in Cell
  BY DEF Cell
<1>2. \A i \in 1..m : cells[i] = [stream |-> s, line |-> l, at |-> i]
  OBVIOUS
<1> HIDE DEF cells
<1>3. /\ SubSeq(cells, 1, m) \in Seq(Cell)
      /\ Len(SubSeq(cells, 1, m)) = m
      /\ \A i \in 1..m : SubSeq(cells, 1, m)[i] = cells[i]
  BY <1>1, SubSeqProperties
<1> QED BY <1>2, <1>3 DEF cells

(* A line leaves the pipe. *)
LEMMA LineTaken ==
  ASSUME TypeInv, NEW s \in Streams, pipe[s] # <<>>, sent' = sent,
         pipe' = [pipe EXCEPT ![s] = Tail(@)]
  PROVE  /\ pipe' \in [Streams -> Seq(Lengths)]
         /\ \A t \in Streams \ {s} : pipe'[t] = pipe[t] /\ Taken(t)' = Taken(t)
         /\ Len(pipe'[s]) <= sent[s]
         /\ Taken(s) \in Nat /\ Taken(s)' = Taken(s) + 1
         /\ Head(pipe[s]) \in Nat \ {0}
<1>1. pipe[s] \in Seq(Lengths) /\ sent[s] \in Nat /\ Len(pipe[s]) <= sent[s]
  BY DEF TypeInv, TypeOK, ReaderOK
<1>2. /\ Head(pipe[s]) \in Lengths /\ Tail(pipe[s]) \in Seq(Lengths)
      /\ Len(Tail(pipe[s])) = Len(pipe[s]) - 1 /\ Len(pipe[s]) \in Nat
  BY <1>1, HeadTailProperties, LenProperties
<1>3. /\ pipe' \in [Streams -> Seq(Lengths)]
      /\ pipe'[s] = Tail(pipe[s])
      /\ \A t \in Streams \ {s} : pipe'[t] = pipe[t]
  BY <1>2 DEF TypeInv, TypeOK
<1>4. \A t \in Streams \ {s} : Taken(t)' = Taken(t)
  BY <1>3 DEF Taken
<1>5. /\ Len(pipe'[s]) <= sent[s]
      /\ Taken(s) \in Nat /\ Taken(s)' = Taken(s) + 1
  BY <1>1, <1>2, <1>3 DEF Taken
<1> QED BY <1>2, <1>3, <1>4, <1>5, LogStreamAssumption

(* Write puts m of the line's n cells at the end of the file, and counts n. *)
LEMMA WriteEffect ==
  ASSUME TypeInv, NEW s \in Streams, Write(s)
  PROVE  \E n \in Nat \ {0}, m \in Nat \ {0}, new \in Seq(Cell) :
           /\ m <= n /\ Len(new) = m
           /\ \A i \in 1..m : new[i] = [stream |-> s, line |-> Taken(s) + 1, at |-> i]
           /\ file' = [file EXCEPT ![FileOf[s]] = @ \o new]
           /\ size' = [size EXCEPT ![s] = @ + n]
<1> DEFINE n == Head(pipe[s])
           cells == [k \in 1..n |-> [stream |-> s, line |-> Taken(s) + 1, at |-> k]]
<1>1. Taken(s) \in Nat /\ n \in Nat \ {0}
  BY LineTaken DEF Write, processVars
<1>2. PICK m \in 1..n : file' = [file EXCEPT ![FileOf[s]] = @ \o SubSeq(cells, 1, m)]
  <2>1. \E m \in (IF IOErrors THEN 1..n ELSE {n}) :
          file' = [file EXCEPT ![FileOf[s]] = @ \o SubSeq(cells, 1, m)]
    BY Zenon DEF Write
  <2>2. (IF IOErrors THEN 1..n ELSE {n}) \subseteq 1..n
    <3> HIDE DEF n
    <3> QED BY <1>1
  <2> HIDE DEF n, cells
  <2> QED BY <2>1, <2>2, Zenon
<1>3. size' = [size EXCEPT ![s] = @ + n]
  BY DEF Write
<1> DEFINE new == SubSeq(cells, 1, m)
<1>4. file' = [file EXCEPT ![FileOf[s]] = @ \o new]
  <2> HIDE DEF cells
  <2> QED BY <1>2
<1>5. m \in 1..n /\ n \in Nat /\ Taken(s) + 1 \in Nat
  BY <1>1
<1>6. /\ new \in Seq(Cell) /\ Len(new) = m
      /\ \A i \in 1..m : new[i] = [stream |-> s, line |-> Taken(s) + 1, at |-> i]
  <2> HIDE DEF n
  <2> QED BY <1>5, CellsWritten, ZenonT(30)
<1> HIDE DEF n, cells, new
<1>7. m \in Nat \ {0} /\ m <= n
  BY <1>5
<1> QED BY <1>1, <1>3, <1>4, <1>6, <1>7

(* Push drops the oldest entry of a full buffer, and no other. *)
LEMMA PushEffect ==
  ASSUME TypeInv, NEW e \in Entry, Push(e)
  PROVE  /\ ring' \in Seq(Entry)
         /\ Len(ring) \in Nat /\ Len(ring') \in Nat \ {0}
         /\ ring'[Len(ring')] = e
         /\ Len(ring) <= RingSize => Len(ring') <= RingSize
         /\ \E d \in {0, 1} :
              /\ Len(ring') = Len(ring) + 1 - d
              /\ \A i \in 1..Len(ring') - 1 : ring'[i] = ring[i + d]
<1> DEFINE all == Append(ring, e)
<1>1. ring \in Seq(Entry) /\ RingSize \in Nat \ {0}
  BY LogStreamAssumption DEF TypeInv, TypeOK
<1>2. /\ all \in Seq(Entry) /\ all # <<>> /\ Len(ring) \in Nat
      /\ Len(all) = Len(ring) + 1 /\ all[Len(ring) + 1] = e
      /\ \A i \in 1..Len(ring) : all[i] = ring[i]
  BY <1>1, AppendProperties, LenProperties
<1>3. ring' = IF Len(all) > RingSize THEN Tail(all) ELSE all
  BY DEF Push
<1> HIDE DEF all
<1>4. /\ Tail(all) \in Seq(Entry) /\ Len(Tail(all)) = Len(ring)
      /\ \A i \in 1..Len(ring) : Tail(all)[i] = all[i + 1]
  BY <1>2, HeadTailProperties
<1>5. CASE Len(all) > RingSize
  <2>1. ring' = Tail(all) /\ Len(ring) >= 1
    BY <1>1, <1>2, <1>3, <1>5
  <2>2. \A i \in 1..Len(ring') - 1 : ring'[i] = ring[i + 1]
    BY <2>1, <1>2, <1>4
  <2> QED BY <2>1, <2>2, <1>1, <1>2, <1>4
<1>6. CASE ~(Len(all) > RingSize)
  BY <1>1, <1>2, <1>3, <1>6
<1> QED BY <1>5, <1>6

(* What a truncation reads back is the end of the file. *)
LEMMA KeptIsSuffix ==
  ASSUME TypeInv, NEW s \in Streams, TrimRead(s)
  PROVE  LET old == file[FileOf[s]]
             new == kept'[s]
         IN
         /\ old \in Seq(Cell) /\ new \in Seq(Cell)
         /\ kept' = [kept EXCEPT ![s] = new]
         /\ \E k \in Nat :
              /\ k >= size[s] - MaxLen
              /\ Len(new) = IF k <= Len(old) THEN Len(old) - k ELSE 0
              /\ \A i \in 1..Len(new) : new[i] = old[k + i]
<1> DEFINE old == file[FileOf[s]]
           k == size[s] - MaxLen \div 4
<1>1. old \in Seq(Cell) /\ size[s] \in Nat /\ size[s] > MaxLen /\ MaxLen \in Nat
  BY LogStreamAssumption DEF TypeInv, TypeOK, ReaderOK, TrimRead, Trimming
<1>2. MaxLen \div 4 \in Nat /\ MaxLen \div 4 <= MaxLen
  BY <1>1
<1>3. k \in Nat /\ k >= size[s] - MaxLen
  BY <1>1, <1>2
<1>4. Len(old) \in Nat /\ \A i \in k + 1..Len(old) : old[i] \in Cell
  BY <1>1, <1>3, ElementOfSeq, LenProperties
<1>5. kept'[s] = SubSeq(old, k + 1, Len(old)) /\ kept' = [kept EXCEPT ![s] = kept'[s]]
  BY DEF TrimRead, TypeInv, TypeOK
<1> HIDE DEF k, old
<1>6. /\ kept'[s] \in Seq(Cell)
      /\ Len(kept'[s]) = IF k + 1 <= Len(old) THEN Len(old) - (k + 1) + 1 ELSE 0
      /\ \A i \in 1..Len(old) - (k + 1) + 1 : kept'[s][i] = old[(k + 1) + i - 1]
  BY <1>3, <1>4, <1>5, SubSeqProperties
<1>7. /\ Len(kept'[s]) = IF k <= Len(old) THEN Len(old) - k ELSE 0
      /\ \A i \in 1..Len(kept'[s]) : kept'[s][i] = old[k + i]
  BY <1>3, <1>4, <1>6
<1> QED BY <1>1, <1>3, <1>5, <1>6, <1>7 DEF old

-----------------------------------------------------------------------------
(* Types.                                                                  *)

LEMMA TypeInit == Init => TypeInv
<1> SUFFICES ASSUME Init PROVE TypeInv
  OBVIOUS
<1>1. <<>> \in Seq(Lengths) /\ <<>> \in Seq(Cell) /\ <<>> \in Seq(Entry) /\ Len(<<>>) = 0
  BY EmptySeq
<1>2. TypeOK
  BY <1>1 DEF Init, TypeOK, ReaderState
<1>3. ASSUME NEW s \in Streams PROVE ReaderOK(s)
  <2>1. lock # s /\ reader[s] = "none" /\ pipe[s] = <<>> /\ sent[s] = 0
    BY LogStreamAssumption DEF Init
  <2> QED BY <1>1, <2>1 DEF ReaderOK, Trimming
<1> QED BY <1>2, <1>3 DEF TypeInv

(* A line that is sent is in the pipe. *)
LEMMA TypeProduce ==
  ASSUME TypeInv, NEW s \in Streams, NEW n \in Lengths, Produce(s, n)
  PROVE  /\ TypeInv'
         /\ \A t \in Streams : Taken(t)' = Taken(t)
<1>1. pipe[s] \in Seq(Lengths) /\ sent[s] \in Nat /\ Len(pipe[s]) <= sent[s]
  BY DEF TypeInv, TypeOK, ReaderOK
<1>2. /\ Append(pipe[s], n) \in Seq(Lengths) /\ Len(pipe[s]) \in Nat
      /\ Len(Append(pipe[s], n)) = Len(pipe[s]) + 1
  BY <1>1, AppendProperties, LenProperties
<1>3. /\ pipe'[s] = Append(pipe[s], n) /\ sent'[s] = sent[s] + 1
      /\ \A t \in Streams \ {s} : pipe'[t] = pipe[t] /\ sent'[t] = sent[t]
  BY DEF Produce, TypeInv, TypeOK
<1>4. TypeOK'
  BY <1>2, <1>3 DEF Produce, TypeInv, TypeOK, readerVars, logVars
<1>5. \A t \in Streams : ReaderOK(t)'
  BY <1>1, <1>2, <1>3 DEF Produce, TypeInv, ReaderOK, readerVars, logVars
<1>6. Taken(s)' = Taken(s) /\ \A t \in Streams \ {s} : Taken(t)' = Taken(t)
  <2>1. sent'[s] - Len(pipe'[s]) = sent[s] - Len(pipe[s])
    BY <1>1, <1>2, <1>3
  <2>2. \A t \in Streams \ {s} : sent'[t] - Len(pipe'[t]) = sent[t] - Len(pipe[t])
    BY <1>3
  <2> QED BY <2>1, <2>2 DEF Taken
<1> QED BY <1>4, <1>5, <1>6 DEF TypeInv

(* A reader that does not truncate moves on, and its pipe stays as it is. *)
LEMMA ReaderMoves ==
  ASSUME TypeInv, NEW s \in Streams, NEW l, reader' = [reader EXCEPT ![s] = l],
         pipe' = pipe, sent' = sent, lock' = lock,
         \A t \in Streams \ {s} : size'[t] = size[t],
         reader[s] \notin Trimming, l \notin Trimming,
         l \in {"none", "opened"} => reader[s] \in {"none", "opened"}
  PROVE  \A t \in Streams : ReaderOK(t)'
<1>1. reader'[s] = l /\ \A t \in Streams \ {s} : reader'[t] = reader[t]
  BY DEF TypeInv, TypeOK
<1>2. \A t \in Streams \ {s} : ReaderOK(t)'
  BY <1>1 DEF TypeInv, ReaderOK
<1>3. ReaderOK(s)'
  BY <1>1 DEF TypeInv, ReaderOK
<1> QED BY <1>2, <1>3

(* Steps that move a reader, or touch its counter, and nothing else. *)
LEMMA TypeReader ==
  ASSUME TypeInv, NEW s \in Streams,
         Open(s) \/ Spawn(s) \/ Abort(s) \/ Cancel(s) \/ EndOfStream(s) \/ PushPoisoned(s)
  PROVE  TypeInv'
<1>1. FileOf[s] \in Files /\ file[FileOf[s]] \in Seq(Cell) /\ Len(file[FileOf[s]]) \in Nat
  BY LogStreamAssumption, LenProperties DEF TypeInv, TypeOK
<1>2. /\ reader' \in [Streams -> ReaderState] /\ size' \in [Streams -> Nat]
      /\ abort' \in [Streams -> BOOLEAN]
  BY <1>1 DEF Open, Spawn, Abort, Cancel, EndOfStream, PushPoisoned, Goto, TypeInv, TypeOK,
              ReaderState, Finished
<1>4. UNCHANGED <<daemon, sent, source, pipe, file, kept, lock, poisoned, ring, logged>>
  BY DEF Open, Spawn, Abort, Cancel, EndOfStream, PushPoisoned, processVars, logVars
<1>5. TypeOK'
  BY <1>2, <1>4 DEF TypeInv, TypeOK
<1>3. \A t \in Streams : ReaderOK(t)'
  <2>1. CASE Abort(s)
    BY <1>4, <2>1 DEF Abort, TypeInv, ReaderOK
  <2>2. CASE ~Abort(s)
    <3>1. PICK l : /\ reader' = [reader EXCEPT ![s] = l]
                   /\ reader[s] \in {"none", "opened", "await", "push"}
                   /\ l \in {"opened", "await", "aborted", "done", "report"}
                   /\ l = "opened" => reader[s] = "none"
      BY <2>2 DEF Open, Spawn, Cancel, EndOfStream, PushPoisoned, Goto
    <3>2. \A t \in Streams \ {s} : size'[t] = size[t]
      BY DEF Open, Spawn, Abort, Cancel, EndOfStream, PushPoisoned, TypeInv, TypeOK
    <3> QED BY <1>4, <3>1, <3>2, ReaderMoves DEF Trimming
  <2> QED BY <2>1, <2>2
<1> QED BY <1>3, <1>5 DEF TypeInv

(* Steps that take a line off the pipe. *)
LEMMA TypeTake ==
  ASSUME TypeInv, NEW s \in Streams, Write(s) \/ WriteFails(s)
  PROVE  TypeInv'
<1>1. pipe[s] # <<>> /\ sent' = sent /\ pipe' = [pipe EXCEPT ![s] = Tail(@)]
  BY DEF Write, WriteFails, processVars
<1>2. /\ pipe' \in [Streams -> Seq(Lengths)] /\ Len(pipe'[s]) <= sent[s]
      /\ \A t \in Streams \ {s} : pipe'[t] = pipe[t]
  BY <1>1, LineTaken
<1>3. size' \in [Streams -> Nat] /\ file' \in [Files -> Seq(Cell)]
  <2>1. CASE WriteFails(s)
    BY <2>1 DEF WriteFails, TypeInv, TypeOK
  <2>2. CASE Write(s)
    <3>1. PICK n \in Nat \ {0}, new \in Seq(Cell) :
            /\ file' = [file EXCEPT ![FileOf[s]] = @ \o new]
            /\ size' = [size EXCEPT ![s] = @ + n]
      BY <2>2, WriteEffect
    <3>2. FileOf[s] \in Files /\ file[FileOf[s]] \o new \in Seq(Cell)
      BY LogStreamAssumption, ConcatProperties DEF TypeInv, TypeOK
    <3>3. size' \in [Streams -> Nat]
      BY <3>1 DEF TypeInv, TypeOK
    <3>4. file' \in [Files -> Seq(Cell)]
      BY <3>1, <3>2 DEF TypeInv, TypeOK
    <3> QED BY <3>3, <3>4
  <2> QED BY <2>1, <2>2
<1>4. reader' = [reader EXCEPT ![s] = reader'[s]] /\ reader'[s] \in {"push", "report"}
  BY DEF Write, WriteFails, Goto, TypeInv, TypeOK
<1>5. TypeOK'
  <2>1. reader' \in [Streams -> ReaderState]
    BY <1>4 DEF TypeInv, TypeOK, ReaderState
  <2>2. UNCHANGED <<daemon, sent, source, abort, kept, lock, poisoned, ring, logged>>
    BY DEF Write, WriteFails, processVars, logVars
  <2> QED BY <1>2, <1>3, <2>1, <2>2 DEF TypeInv, TypeOK
<1>6. reader[s] = "await"
  BY DEF Write, WriteFails
<1>7. \A t \in Streams : ReaderOK(t)'
  <2>1. lock' = lock /\ \A t \in Streams \ {s} : reader'[t] = reader[t] /\ size'[t] = size[t]
    <3>1. lock' = lock /\ \A t \in Streams \ {s} : reader'[t] = reader[t]
      BY <1>4 DEF Write, WriteFails, logVars, TypeInv, TypeOK
    <3>2. \A t \in Streams \ {s} : size'[t] = size[t]
      BY DEF Write, WriteFails, TypeInv, TypeOK
    <3> QED BY <3>1, <3>2
  <2> QED BY <1>1, <1>2, <1>4, <1>6, <2>1 DEF TypeInv, ReaderOK, Trimming
<1> QED BY <1>5, <1>7 DEF TypeInv

(* Steps that hold the mutex on the ring buffer while they push. *)
LEMMA TypePush ==
  ASSUME TypeInv, ManagerLog \/ \E s \in Streams : PushLine(s) \/ Report(s)
  PROVE  TypeInv'
<1>1. CASE ManagerLog
  <2>1. ring' \in Seq(Entry)
    <3>1. [stream |-> Nil, line |-> logged + 1] \in Entry
      BY DEF Entry, TypeInv, TypeOK
    <3> QED BY <1>1, <3>1, PushEffect DEF ManagerLog
  <2>2. TypeOK'
    BY <1>1, <2>1 DEF ManagerLog, TypeInv, TypeOK, processVars, readerVars
  <2>3. \A t \in Streams : ReaderOK(t)'
    BY <1>1 DEF ManagerLog, TypeInv, ReaderOK, processVars, readerVars
  <2> QED BY <2>2, <2>3 DEF TypeInv
<1>2. ASSUME NEW s \in Streams, PushLine(s) PROVE TypeInv'
  <2>1. Taken(s) \in Nat
    <3>1. pipe[s] \in Seq(Lengths) /\ sent[s] \in Nat /\ Len(pipe[s]) <= sent[s]
      BY DEF TypeInv, TypeOK, ReaderOK
    <3> QED BY <3>1, LenProperties DEF Taken
  <2>2. ring' \in Seq(Entry)
    <3>1. [stream |-> s, line |-> Taken(s)] \in Entry
      BY <2>1 DEF Entry
    <3> QED BY <1>2, <3>1, PushEffect DEF PushLine
  <2>3. TypeOK'
    <3>1. reader' \in [Streams -> ReaderState] /\ lock' \in Streams \cup {Nil}
      BY <1>2 DEF PushLine, Goto, TypeInv, TypeOK, ReaderState, Trimming
    <3>2. UNCHANGED <<daemon, sent, source, pipe, file, abort, size, kept, poisoned, logged>>
      BY <1>2 DEF PushLine, processVars
    <3> QED BY <2>2, <3>1, <3>2 DEF TypeInv, TypeOK
  <2>4. \A t \in Streams : ReaderOK(t)'
    BY <1>2, LogStreamAssumption
    DEF PushLine, Goto, TypeInv, TypeOK, ReaderOK, Trimming, processVars
  <2> QED BY <2>3, <2>4 DEF TypeInv
<1>3. ASSUME NEW s \in Streams, Report(s) PROVE TypeInv'
  <2>1. ring' \in Seq(Entry) /\ logged' \in Nat
    <3>1. CASE poisoned
      BY <1>3, <3>1 DEF Report, TypeInv, TypeOK
    <3>2. CASE ~poisoned
      <4>1. [stream |-> Nil, line |-> logged + 1] \in Entry /\ logged + 1 \in Nat
        BY DEF Entry, TypeInv, TypeOK
      <4>2. Push([stream |-> Nil, line |-> logged + 1]) /\ logged' = logged + 1
        BY <1>3, <3>2 DEF Report
      <4> QED BY <4>1, <4>2, PushEffect
    <3> QED BY <3>1, <3>2
  <2>2. daemon' \in {"up", "aborted"}
    BY <1>3 DEF Report, Panic, TypeInv, TypeOK
  <2>3. PICK l \in {"failed", "panicked"} : reader' = [reader EXCEPT ![s] = l]
    BY <1>3 DEF Report, Goto
  <2>4. reader[s] = "report" /\ UNCHANGED <<sent, source, pipe, file, abort, size, kept, lock, poisoned>>
    BY <1>3 DEF Report, processVars
  <2>5. reader' \in [Streams -> ReaderState]
    BY <2>3 DEF TypeInv, TypeOK, ReaderState, Finished
  <2>6. TypeOK'
    BY <2>1, <2>2, <2>4, <2>5 DEF TypeInv, TypeOK
  <2>7. \A t \in Streams : ReaderOK(t)'
    BY <2>3, <2>4, ReaderMoves DEF Trimming
  <2> QED BY <2>6, <2>7 DEF TypeInv
<1> QED BY <1>1, <1>2, <1>3

(* The steps of a truncation. *)
LEMMA TypeTrim ==
  ASSUME TypeInv, NEW s \in Streams, Trim(s) \/ TrimFails(s)
  PROVE  TypeInv'
<1>1. FileOf[s] \in Files /\ <<>> \in Seq(Cell)
  BY LogStreamAssumption, EmptySeq
<1>2. CASE TrimRead(s)
  <2>1. kept' \in [Streams -> Seq(Cell)]
    BY <1>2, KeptIsSuffix DEF TypeInv, TypeOK
  <2> QED BY <1>2, <2>1
      DEF TrimRead, Goto, TypeInv, TypeOK, ReaderOK, ReaderState, Trimming, processVars, logVars
<1>3. CASE TrimClear(s)
  BY <1>1, <1>3
  DEF TrimClear, Goto, TypeInv, TypeOK, ReaderOK, ReaderState, Trimming, processVars, logVars
<1>4. CASE TrimRewrite(s)
  <2>1. file[FileOf[s]] \o kept[s] \in Seq(Cell)
    BY <1>1, ConcatProperties DEF TypeInv, TypeOK
  <2> QED BY <1>1, <1>4, <2>1, LogStreamAssumption
      DEF TrimRewrite, Goto, TypeInv, TypeOK, ReaderOK, ReaderState, Trimming, processVars
<1>5. CASE TrimFails(s)
  BY <1>1, <1>5, LogStreamAssumption
  DEF TrimFails, Panic, Goto, TypeInv, TypeOK, ReaderOK, ReaderState, Trimming, Finished, processVars
<1> QED BY <1>2, <1>3, <1>4, <1>5 DEF Trim

LEMMA TypeNext ==
  ASSUME TypeInv, [Next]_vars
  PROVE  TypeInv'
<1>1. ASSUME NEW s \in Streams, Start(s) \/ Process(s) \/ Abort(s) PROVE TypeInv'
  <2>1. CASE Close(s)
    BY <2>1 DEF Close, TypeInv, TypeOK, ReaderOK, readerVars, logVars
  <2> QED BY <1>1, <2>1, TypeProduce, TypeReader DEF Start, Process
<1>2. ASSUME NEW s \in Streams, Reader(s) \/ WriteFails(s) \/ TrimFails(s) PROVE TypeInv'
  BY <1>2, TypeReader, TypeTake, TypePush, TypeTrim DEF Reader
<1>3. CASE UNCHANGED vars
  BY <1>3 DEF vars, TypeInv, TypeOK, ReaderOK, processVars, readerVars, logVars
<1> QED BY <1>1, <1>2, <1>3, TypePush DEF Next

LEMMA TypeInvariant == Spec => []TypeInv
BY TypeInit, TypeNext, PTL DEF Spec

(* The types, whatever fails; and the mutex is always held by the reader   *)
(* that truncates, if any.                                                 *)
THEOREM LogTypeCorrect == Spec => []TypeOK
<1>1. TypeInv => TypeOK
  BY DEF TypeInv
<1> QED BY <1>1, TypeInvariant, PTL

-----------------------------------------------------------------------------
(* No cell is written twice.                                               *)

(* How many lines each stream's reader has taken off its pipe. *)
taken == [s \in Streams |-> Taken(s)]

LEMMA TakenType == TypeInv => taken \in [Streams -> Nat]
<1> SUFFICES ASSUME TypeInv, NEW s \in Streams PROVE Taken(s) \in Nat
  BY DEF taken
<1>1. pipe[s] \in Seq(Lengths) /\ sent[s] \in Nat /\ Len(pipe[s]) <= sent[s]
  BY DEF TypeInv, TypeOK, ReaderOK
<1> QED BY <1>1, LenProperties DEF Taken

(* Only a reader that awaits a line takes one. *)
LEMMA TakenStep ==
  ASSUME TypeInv, [Next]_vars
  PROVE  \/ taken' = taken
         \/ \E s \in Streams : /\ Write(s) \/ WriteFails(s)
                               /\ taken' = [taken EXCEPT ![s] = @ + 1]
<1>1. ASSUME sent' = sent, pipe' = pipe PROVE taken' = taken
  BY <1>1 DEF taken, Taken
<1>2. ASSUME NEW s \in Streams, NEW n \in Lengths, Produce(s, n) PROVE taken' = taken
  BY <1>2, TypeProduce DEF taken
<1>3. ASSUME NEW s \in Streams, Write(s) \/ WriteFails(s)
      PROVE  taken' = [taken EXCEPT ![s] = @ + 1]
  <2>1. pipe[s] # <<>> /\ sent' = sent /\ pipe' = [pipe EXCEPT ![s] = Tail(@)]
    BY <1>3 DEF Write, WriteFails, processVars
  <2>2. Taken(s)' = Taken(s) + 1 /\ \A t \in Streams \ {s} : Taken(t)' = Taken(t)
    BY <2>1, LineTaken
  <2> QED BY <2>2 DEF taken
<1>4. ASSUME ~ \E s \in Streams : Write(s) \/ WriteFails(s) \/ \E n \in Lengths : Produce(s, n)
      PROVE  sent' = sent /\ pipe' = pipe
  BY <1>4 DEF Next, Start, Process, Reader, Trim, ManagerLog, Open, Spawn, Close, Abort, Cancel,
     EndOfStream, PushLine, PushPoisoned, TrimRead, TrimClear, TrimRewrite, TrimFails, Report,
     vars, processVars
<1> QED BY <1>1, <1>2, <1>3, <1>4

(* All cells are of lines that were taken. *)
Old(q, t) == \A i \in DOMAIN q : q[i].line <= t[q[i].stream]

Distinct(q) == \A i, j \in DOMAIN q : i # j => q[i] # q[j]
Apart(p, q) == \A i \in DOMAIN p, j \in DOMAIN q : p[i] # q[j]

(* A line that is taken only adds to them. *)
LEMMA OldLater ==
  ASSUME NEW q \in Seq(Cell), NEW t \in [Streams -> Nat], NEW u \in [Streams -> Nat],
         \A s \in Streams : t[s] <= u[s], Old(q, t)
  PROVE  Old(q, u)
<1> SUFFICES ASSUME NEW i \in DOMAIN q PROVE q[i].line <= u[q[i].stream]
  BY DEF Old
<1>1. q[i] \in Cell
  BY ElementOfSeq, LenProperties
<1>2. q[i].stream \in Streams /\ q[i].line \in Nat
  BY <1>1 DEF Cell
<1>3. q[i].line <= t[q[i].stream]
  BY DEF Old
<1> QED BY <1>2, <1>3

LEMMA ConcatCells ==
  ASSUME NEW p \in Seq(Cell), NEW q \in Seq(Cell)
  PROVE  /\ \A t : Old(p, t) /\ Old(q, t) => Old(p \o q, t)
         /\ Distinct(p) /\ Distinct(q) /\ Apart(p, q) => Distinct(p \o q)
         /\ \A k : Apart(k, p) /\ Apart(k, q) => Apart(k, p \o q)
<1> DEFINE pq == p \o q
<1>1. /\ DOMAIN p = 1..Len(p) /\ DOMAIN q = 1..Len(q) /\ DOMAIN pq = 1..Len(p) + Len(q)
      /\ Len(p) \in Nat /\ Len(q) \in Nat
      /\ \A i \in 1..Len(p) + Len(q) : pq[i] = IF i <= Len(p) THEN p[i] ELSE q[i - Len(p)]
  BY ConcatProperties, LenProperties
<1> HIDE DEF pq
<1>2. \A i \in DOMAIN pq : \/ i \in DOMAIN p /\ pq[i] = p[i]
                           \/ i - Len(p) \in DOMAIN q /\ pq[i] = q[i - Len(p)]
  <2> TAKE i \in DOMAIN pq
  <2>1. i \in 1..Len(p) + Len(q) /\ pq[i] = IF i <= Len(p) THEN p[i] ELSE q[i - Len(p)]
    BY <1>1
  <2>2. CASE i <= Len(p)
    <3>1. i \in 1..Len(p)
      BY <1>1, <2>1, <2>2
    <3> QED BY <1>1, <2>1, <2>2, <3>1
  <2>3. CASE ~(i <= Len(p))
    <3>1. i - Len(p) \in 1..Len(q)
      BY <1>1, <2>1, <2>3
    <3> QED BY <1>1, <2>1, <2>3, <3>1
  <2> QED BY <2>2, <2>3
<1>3. \A t : Old(p, t) /\ Old(q, t) => Old(pq, t)
  BY <1>2 DEF Old
<1>4. ASSUME Distinct(p), Distinct(q), Apart(p, q) PROVE Distinct(pq)
  BY <1>1, <1>2, <1>4 DEF Distinct, Apart
<1>5. \A k : Apart(k, p) /\ Apart(k, q) => Apart(k, pq)
  BY <1>2 DEF Apart
<1> QED BY <1>3, <1>4, <1>5 DEF pq

(* The cells of the line that is taken next are new. *)
LEMMA NewCells ==
  ASSUME NEW t \in [Streams -> Nat], NEW s \in Streams, NEW new \in Seq(Cell),
         \A i \in 1..Len(new) : new[i] = [stream |-> s, line |-> t[s] + 1, at |-> i]
  PROVE  /\ Distinct(new)
         /\ Old(new, [t EXCEPT ![s] = @ + 1])
         /\ \A p \in Seq(Cell) : Old(p, t) => Apart(p, new)
<1>1. DOMAIN new = 1..Len(new)
  BY LenProperties
<1>2. \A i \in DOMAIN new : new[i].stream = s /\ new[i].line = t[s] + 1 /\ new[i].at = i
  BY <1>1
<1>3. Distinct(new) /\ Old(new, [t EXCEPT ![s] = @ + 1])
  BY <1>2 DEF Distinct, Old
<1>4. ASSUME NEW p \in Seq(Cell), Old(p, t), NEW i \in DOMAIN p, NEW j \in DOMAIN new, p[i] = new[j]
      PROVE  FALSE
  <2>1. p[i].line <= t[p[i].stream] /\ p[i].stream = s /\ p[i].line = t[s] + 1
    BY <1>2, <1>4 DEF Old
  <2> QED BY <2>1
<1> QED BY <1>3, <1>4 DEF Apart

(* A reader that truncates has read back old cells, each once; when it has *)
(* cleared the file, what is written there meanwhile is not among them.    *)
CellsInv ==
  /\ \A f \in Files : Old(file[f], taken) /\ Distinct(file[f])
  /\ \A s \in Streams :
       /\ reader[s] \in {"clear", "rewrite"} => Old(kept[s], taken) /\ Distinct(kept[s])
       /\ reader[s] = "rewrite" => Apart(kept[s], file[FileOf[s]])

(* No file changes, and nobody truncates. *)
LEMMA CellsFrame ==
  ASSUME TypeInv, CellsInv, taken' \in [Streams -> Nat],
         \A s \in Streams : taken[s] <= taken'[s],
         file' = file, kept' = kept,
         \A s \in Streams : reader'[s] \in {"clear", "rewrite"} => reader'[s] = reader[s]
  PROVE  CellsInv'
<1>1. taken \in [Streams -> Nat] /\ taken' \in [Streams -> Nat]
  BY TakenType
<1>2. \A f \in Files : Old(file[f], taken')
  BY <1>1, OldLater DEF CellsInv, TypeInv, TypeOK
<1>3. \A s \in Streams : reader[s] \in {"clear", "rewrite"} => Old(kept[s], taken')
  BY <1>1, OldLater DEF CellsInv, TypeInv, TypeOK
<1> QED BY <1>2, <1>3 DEF CellsInv

(* A line is written while a reader of the same file may truncate it. *)
LEMMA CellsWrite ==
  ASSUME TypeInv, CellsInv, NEW s \in Streams, Write(s),
         taken' = [taken EXCEPT ![s] = @ + 1]
  PROVE  CellsInv'
<1>1. /\ taken \in [Streams -> Nat] /\ taken' \in [Streams -> Nat]
      /\ \A t \in Streams : taken[t] <= taken'[t]
  BY TakenType
<1>2. PICK new \in Seq(Cell) :
        /\ \A i \in 1..Len(new) : new[i] = [stream |-> s, line |-> Taken(s) + 1, at |-> i]
        /\ file' = [file EXCEPT ![FileOf[s]] = @ \o new]
  BY WriteEffect
<1> DEFINE g == FileOf[s]
<1>3. g \in Files /\ file'[g] = file[g] \o new /\ \A f \in Files \ {g} : file'[f] = file[f]
  BY <1>2, LogStreamAssumption DEF TypeInv, TypeOK
<1>4. taken[s] = Taken(s)
  BY DEF taken
<1>5. /\ Distinct(new) /\ Old(new, taken')
      /\ \A p \in Seq(Cell) : Old(p, taken) => Apart(p, new)
  BY <1>1, <1>2, <1>4, NewCells
<1>6. ASSUME NEW f \in Files PROVE Old(file'[f], taken') /\ Distinct(file'[f])
  <2>1. file[f] \in Seq(Cell) /\ Old(file[f], taken) /\ Distinct(file[f])
    BY DEF CellsInv, TypeInv, TypeOK
  <2>2. Old(file[f], taken') /\ Apart(file[f], new)
    BY <1>1, <1>5, <2>1, OldLater
  <2> QED BY <1>3, <1>5, <2>1, <2>2, ConcatCells
<1>7. ASSUME NEW t \in Streams, reader'[t] \in {"clear", "rewrite"}
      PROVE  /\ Old(kept'[t], taken') /\ Distinct(kept'[t])
             /\ reader'[t] = "rewrite" => Apart(kept'[t], file'[FileOf[t]])
  <2>1. reader[t] = reader'[t] /\ kept'[t] = kept[t]
    BY <1>7 DEF Write, Goto, TypeInv, TypeOK
  <2>2. kept[t] \in Seq(Cell) /\ Old(kept[t], taken) /\ Distinct(kept[t])
    BY <1>7, <2>1 DEF CellsInv, TypeInv, TypeOK
  <2>3. Old(kept[t], taken') /\ Apart(kept[t], new)
    BY <1>1, <1>5, <2>2, OldLater
  <2>4. ASSUME reader[t] = "rewrite" PROVE Apart(kept[t], file'[FileOf[t]])
    <3>1. Apart(kept[t], file[FileOf[t]]) /\ FileOf[t] \in Files
      BY <2>4, LogStreamAssumption DEF CellsInv
    <3>2. file[g] \in Seq(Cell)
      BY <1>3 DEF TypeInv, TypeOK
    <3> QED BY <1>3, <2>3, <3>1, <3>2, ConcatCells
  <2> QED BY <2>1, <2>2, <2>3, <2>4
<1> QED BY <1>6, <1>7 DEF CellsInv

(* A truncation reads, clears and rewrites: nobody else does at the time. *)
LEMMA CellsTrim ==
  ASSUME TypeInv, CellsInv, NEW s \in Streams, Trim(s) \/ TrimFails(s),
         taken' = taken
  PROVE  CellsInv'
<1> DEFINE g == FileOf[s]
<1>1. g \in Files /\ \A f \in Files : file[f] \in Seq(Cell)
  BY LogStreamAssumption DEF TypeInv, TypeOK
<1>2. reader[s] \in Trimming
  BY DEF Trim, TrimRead, TrimClear, TrimRewrite, TrimFails, Trimming
<1>3. \A t \in Streams \ {s} : reader[t] \notin Trimming
  BY <1>2 DEF TypeInv, ReaderOK
<1>4. \A t \in Streams \ {s} : reader'[t] \notin Trimming
  BY <1>3 DEF Trim, TrimRead, TrimClear, TrimRewrite, TrimFails, Goto, TypeInv, TypeOK
<1>5. CASE TrimRead(s)
  <2> DEFINE old == file[g]
             new == kept'[s]
  <2>1. reader'[s] = "clear" /\ file' = file
    BY <1>5 DEF TrimRead, Goto, TypeInv, TypeOK
  <2>2. PICK k \in Nat : \A i \in 1..Len(new) : new[i] = old[k + i] /\ k + i \in 1..Len(old)
    <3>1. PICK k \in Nat : /\ Len(new) = IF k <= Len(old) THEN Len(old) - k ELSE 0
                          /\ \A i \in 1..Len(new) : new[i] = old[k + i]
      BY <1>5, KeptIsSuffix
    <3>2. Len(old) \in Nat
      BY <1>1, LenProperties
    <3>3. ASSUME NEW i \in 1..Len(new) PROVE k + i \in 1..Len(old)
      <4> HIDE DEF old, new
      <4> QED BY <3>1, <3>2
    <3> QED BY <3>1, <3>3
  <2>3. DOMAIN new = 1..Len(new) /\ DOMAIN old = 1..Len(old) /\ Len(new) \in Nat
    <3>1. old \in Seq(Cell) /\ new \in Seq(Cell)
      BY <1>5, KeptIsSuffix
    <3> QED BY <3>1, LenProperties
  <2>4. Old(old, taken) /\ Distinct(old)
    BY <1>1 DEF CellsInv
  <2> HIDE DEF old, new
  <2>5. Old(new, taken)
    BY <2>2, <2>3, <2>4 DEF Old
  <2>6. Distinct(new)
    BY <2>2, <2>3, <2>4 DEF Distinct
  <2> QED BY <1>4, <2>1, <2>5, <2>6 DEF CellsInv, Trimming, new
<1>6. CASE TrimClear(s)
  <2>1. /\ reader[s] = "clear" /\ reader'[s] = "rewrite" /\ kept' = kept
        /\ file'[g] = <<>> /\ \A f \in Files \ {g} : file'[f] = file[f]
    BY <1>1, <1>6 DEF TrimClear, Goto, TypeInv, TypeOK
  <2>2. DOMAIN <<>> = {}
    OBVIOUS
  <2>3. Old(<<>>, taken) /\ Distinct(<<>>) /\ \A k : Apart(k, <<>>)
    BY <2>2 DEF Old, Distinct, Apart
  <2> QED BY <1>4, <2>1, <2>3 DEF CellsInv, Trimming
<1>7. CASE TrimRewrite(s)
  <2>1. /\ reader[s] = "rewrite" /\ reader'[s] = "await"
        /\ file'[g] = file[g] \o kept[s] /\ \A f \in Files \ {g} : file'[f] = file[f]
    BY <1>1, <1>7 DEF TrimRewrite, Goto, TypeInv, TypeOK
  <2>2. /\ kept[s] \in Seq(Cell) /\ Old(kept[s], taken) /\ Distinct(kept[s])
        /\ Apart(kept[s], file[g])
    BY <2>1 DEF CellsInv, TypeInv, TypeOK
  <2>3. Apart(file[g], kept[s])
    BY <2>2 DEF Apart
  <2>4. Old(file'[g], taken) /\ Distinct(file'[g])
    BY <1>1, <2>1, <2>2, <2>3, ConcatCells DEF CellsInv
  <2> QED BY <1>4, <2>1, <2>4 DEF CellsInv, Trimming
<1>8. CASE TrimFails(s)
  <2>1. file' = file /\ reader'[s] = "panicked"
    BY <1>8 DEF TrimFails, Goto, TypeInv, TypeOK
  <2> QED BY <1>4, <2>1 DEF CellsInv, Trimming
<1> QED BY <1>5, <1>6, <1>7, <1>8 DEF Trim

LEMMA CellsNext ==
  ASSUME TypeInv, CellsInv, [Next]_vars
  PROVE  CellsInv'
<1>1. /\ taken \in [Streams -> Nat] /\ taken' \in [Streams -> Nat]
      /\ \A s \in Streams : taken[s] <= taken'[s]
  BY TakenType, TakenStep
<1>3. ASSUME NEW s \in Streams, Write(s) PROVE CellsInv'
  <2>1. Taken(s)' = Taken(s) + 1 /\ \A t \in Streams \ {s} : Taken(t)' = Taken(t)
    BY <1>3, LineTaken DEF Write, processVars
  <2>2. taken' = [taken EXCEPT ![s] = @ + 1]
    BY <2>1 DEF taken
  <2> QED BY <1>3, <2>2, CellsWrite
<1>2. ASSUME NEW s \in Streams, Trim(s) \/ TrimFails(s) PROVE CellsInv'
  <2>1. taken' = taken
    BY <1>2 DEF Trim, TrimRead, TrimClear, TrimRewrite, TrimFails, processVars, taken, Taken
  <2> QED BY <1>2, <2>1, CellsTrim
<1> DEFINE Frame == /\ file' = file /\ kept' = kept
                    /\ \A s \in Streams :
                         reader'[s] \in {"clear", "rewrite"} => reader'[s] = reader[s]
<1>4. ASSUME NEW s \in Streams, Start(s) \/ Process(s) \/ Abort(s) PROVE Frame
  BY <1>4 DEF Start, Process, Produce, Open, Spawn, Close, Abort, Goto, TypeInv, TypeOK, readerVars
<1>5. ASSUME NEW s \in Streams, Cancel(s) \/ EndOfStream(s) \/ WriteFails(s) PROVE Frame
  BY <1>5 DEF Cancel, EndOfStream, WriteFails, Goto, TypeInv, TypeOK
<1>6. ASSUME NEW s \in Streams, PushLine(s) \/ PushPoisoned(s) \/ Report(s) PROVE Frame
  BY <1>6 DEF PushLine, PushPoisoned, Report, Goto, TypeInv, TypeOK
<1>7. ASSUME ManagerLog PROVE Frame
  BY <1>7 DEF ManagerLog, readerVars
<1>8. ASSUME UNCHANGED vars PROVE Frame
  BY <1>8 DEF vars, readerVars
<1>9. Frame => CellsInv'
  BY <1>1, CellsFrame
<1> HIDE DEF Frame
<1> QED BY <1>2, <1>3, <1>4, <1>5, <1>6, <1>7, <1>8, <1>9 DEF Next, Reader

LEMMA CellsInvariant == Spec => []CellsInv
<1>1. Init => CellsInv
  BY DEF Init, CellsInv, Old, Distinct
<1>2. TypeInv /\ CellsInv /\ [Next]_vars => CellsInv'
  BY CellsNext
<1> QED BY <1>1, <1>2, TypeInvariant, PTL DEF Spec

(* No piece of a line comes back twice, although the files are written     *)
(* outside the mutex, by more than one reader, while one of them truncates. *)
THEOREM NothingTwiceHolds == Spec => []NothingTwice
<1>1. CellsInv => NothingTwice
  BY DEF CellsInv, Distinct, NothingTwice
<1> QED BY <1>1, CellsInvariant, PTL

-----------------------------------------------------------------------------
(* The order of the lines in a file that only one reader has opened.       *)

Alone(q, s) == \A i \in DOMAIN q : q[i].stream = s
Sorted(q)   == \A i, j \in DOMAIN q : i < j => Before(q[i], q[j])

(* Its only writer has read back sorted cells of its own, and finds the    *)
(* file it cleared as it left it.                                          *)
OrderOK(s) ==
  /\ Alone(file[FileOf[s]], s) /\ Sorted(file[FileOf[s]])
  /\ reader[s] \in {"clear", "rewrite"} => Alone(kept[s], s) /\ Sorted(kept[s])
  /\ reader[s] = "rewrite" => file[FileOf[s]] = <<>>

OrderInv == \A s \in Streams : First(s) => OrderOK(s)

(* The cells of a new line come after those of the lines before. *)
LEMMA SortedAppend ==
  ASSUME NEW p \in Seq(Cell), NEW q \in Seq(Cell), NEW s \in Streams, NEW l \in Nat,
         Alone(p, s), Sorted(p), \A i \in DOMAIN p : p[i].line <= l,
         \A i \in 1..Len(q) : q[i] = [stream |-> s, line |-> l + 1, at |-> i]
  PROVE  Alone(p \o q, s) /\ Sorted(p \o q)
<1> DEFINE pq == p \o q
<1>1. /\ DOMAIN p = 1..Len(p) /\ DOMAIN q = 1..Len(q) /\ DOMAIN pq = 1..Len(p) + Len(q)
      /\ Len(p) \in Nat /\ Len(q) \in Nat
      /\ \A i \in 1..Len(p) + Len(q) : pq[i] = IF i <= Len(p) THEN p[i] ELSE q[i - Len(p)]
  BY ConcatProperties, LenProperties
<1> HIDE DEF pq
<1>2. \A i \in DOMAIN pq :
        /\ i <= Len(p) => i \in DOMAIN p /\ pq[i] = p[i]
        /\ i > Len(p) => pq[i] = [stream |-> s, line |-> l + 1, at |-> i - Len(p)]
  <2> TAKE i \in DOMAIN pq
  <2>1. i \in 1..Len(p) + Len(q) /\ pq[i] = IF i <= Len(p) THEN p[i] ELSE q[i - Len(p)]
    BY <1>1
  <2>2. ASSUME i > Len(p) PROVE pq[i] = [stream |-> s, line |-> l + 1, at |-> i - Len(p)]
    <3>1. i - Len(p) \in 1..Len(q) /\ ~(i <= Len(p))
      BY <1>1, <2>1, <2>2
    <3> QED BY <2>1, <3>1
  <2>3. ASSUME i <= Len(p) PROVE i \in DOMAIN p /\ pq[i] = p[i]
    BY <1>1, <2>1, <2>3
  <2> QED BY <2>2, <2>3
<1>3. \A i \in DOMAIN pq : i \in Nat /\ (i <= Len(p) \/ i > Len(p))
  BY <1>1
<1>4. Alone(pq, s)
  BY <1>2, <1>3 DEF Alone
<1>5. ASSUME NEW i \in DOMAIN pq, NEW j \in DOMAIN pq, i < j PROVE Before(pq[i], pq[j])
  <2>1. CASE j <= Len(p)
    <3>1. i <= Len(p)
      BY <1>1, <1>3, <1>5, <2>1
    <3> QED BY <1>2, <1>5, <2>1, <3>1 DEF Sorted
  <2>2. CASE j > Len(p) /\ i > Len(p)
    <3>1. /\ pq[i].line = pq[j].line /\ pq[i].at = i - Len(p) /\ pq[j].at = j - Len(p)
      BY <1>2, <2>2
    <3>2. i - Len(p) < j - Len(p)
      BY <1>1, <1>3, <1>5
    <3> QED BY <3>1, <3>2 DEF Before
  <2>3. CASE j > Len(p) /\ i <= Len(p)
    <3>1. i \in DOMAIN p /\ pq[i] = p[i] /\ pq[j].line = l + 1
      BY <1>2, <2>3
    <3>2. p[i] \in Cell
      BY <3>1, ElementOfSeq, <1>1
    <3>3. pq[i].line \in Nat /\ pq[i].line <= l
      BY <3>1, <3>2 DEF Cell
    <3> QED BY <3>1, <3>3 DEF Before
  <2> QED BY <1>3, <2>1, <2>2, <2>3
<1> QED BY <1>4, <1>5 DEF Sorted, pq

(* No reader forgets that it has opened its file. *)
LEMMA FirstBefore ==
  ASSUME TypeInv, [Next]_vars, NEW s \in Streams, First(s)'
  PROVE  First(s)
<1>1. \A t \in Streams : reader'[t] = "none" => reader[t] = "none"
  <2>1. ASSUME NEW t \in Streams,
               \/ Start(t) \/ Cancel(t) \/ EndOfStream(t) \/ Write(t) \/ WriteFails(t) \/ PushLine(t)
               \/ PushPoisoned(t) \/ Trim(t) \/ TrimFails(t) \/ Report(t)
        PROVE  \E l \in ReaderState \ {"none"} : reader' = [reader EXCEPT ![t] = l]
    BY <2>1 DEF Start, Open, Spawn, Cancel, EndOfStream, Write, WriteFails, PushLine, PushPoisoned,
       Trim, TrimRead, TrimClear, TrimRewrite, TrimFails, Report, Goto, ReaderState, Trimming, Finished
  <2>2. ASSUME ManagerLog \/ UNCHANGED vars \/ \E t \in Streams : Process(t) \/ Abort(t)
        PROVE  reader' = reader
    BY <2>2 DEF ManagerLog, Process, Produce, Close, Abort, vars, readerVars
  <2> QED BY <2>1, <2>2 DEF Next, Reader, TypeInv, TypeOK
<1> QED BY <1>1 DEF First

(* What the file and the truncating reader hold is left as it was. *)
LEMMA OrderFrame ==
  ASSUME NEW s \in Streams, OrderOK(s),
         file'[FileOf[s]] = file[FileOf[s]], kept'[s] = kept[s],
         reader'[s] \in {"clear", "rewrite"} => reader'[s] = reader[s]
  PROVE  OrderOK(s)'
  BY DEF OrderOK

LEMMA OrderWrite ==
  ASSUME TypeInv, CellsInv, OrderInv, NEW s \in Streams, Write(s)
  PROVE  OrderInv'
<1>5. [Next]_vars /\ reader[s] # "none"
  BY DEF Next, Reader, Write
<1>1. PICK new \in Seq(Cell) :
        /\ \A i \in 1..Len(new) : new[i] = [stream |-> s, line |-> Taken(s) + 1, at |-> i]
        /\ file' = [file EXCEPT ![FileOf[s]] = @ \o new]
  BY WriteEffect
<1>2. /\ reader'[s] = "push" /\ kept' = kept
      /\ \A t \in Streams \ {s} : reader'[t] = reader[t]
  BY DEF Write, Goto, TypeInv, TypeOK
<1>3. ASSUME First(s) PROVE OrderOK(s)'
  <2> DEFINE p == file[FileOf[s]]
  <2>1. FileOf[s] \in Files /\ p \in Seq(Cell)
    BY LogStreamAssumption DEF TypeInv, TypeOK
  <2>2. taken[s] = Taken(s) /\ Taken(s) \in Nat
    BY TakenType DEF taken
  <2>3. Alone(p, s) /\ Sorted(p) /\ Old(p, taken)
    BY <1>3, <2>1 DEF OrderInv, OrderOK, CellsInv
  <2>4. file'[FileOf[s]] = p \o new
    BY <1>1, <2>1 DEF TypeInv, TypeOK
  <2> HIDE DEF p
  <2>5. \A i \in DOMAIN p : p[i].line <= Taken(s)
    BY <2>2, <2>3 DEF Old, Alone
  <2>6. Alone(p \o new, s) /\ Sorted(p \o new)
    BY <1>1, <2>1, <2>2, <2>3, <2>5, SortedAppend
  <2> QED BY <1>2, <2>4, <2>6 DEF OrderOK
<1>4. ASSUME NEW t \in Streams \ {s}, First(t) PROVE OrderOK(t)'
  <2>1. FileOf[t] # FileOf[s] /\ FileOf[t] \in Files
    BY <1>4, <1>5, LogStreamAssumption DEF First
  <2>2. file'[FileOf[t]] = file[FileOf[t]]
    BY <1>1, <2>1 DEF TypeInv, TypeOK
  <2> QED BY <1>2, <1>4, <2>2, OrderFrame DEF OrderInv
<1> QED BY <1>3, <1>4, <1>5, FirstBefore DEF OrderInv

LEMMA OrderTrim ==
  ASSUME TypeInv, OrderInv, NEW s \in Streams, Trim(s)
  PROVE  OrderInv'
<1>5. [Next]_vars /\ reader[s] # "none"
  BY DEF Next, Reader, Trim, TrimRead, TrimClear, TrimRewrite
<1>1. /\ \A t \in Streams \ {s} : reader'[t] = reader[t] /\ kept'[t] = kept[t]
      /\ \A f \in Files \ {FileOf[s]} : file'[f] = file[f]
      /\ FileOf[s] \in Files /\ file[FileOf[s]] \in Seq(Cell)
  BY LogStreamAssumption DEF Trim, TrimRead, TrimClear, TrimRewrite, Goto, TypeInv, TypeOK
<1>2. ASSUME NEW t \in Streams \ {s}, First(t) PROVE OrderOK(t)'
  <2>1. FileOf[t] # FileOf[s] /\ FileOf[t] \in Files
    BY <1>2, <1>5, LogStreamAssumption DEF First
  <2> QED BY <1>1, <1>2, <2>1, OrderFrame DEF OrderInv
<1>3. ASSUME First(s) PROVE OrderOK(s)'
  <2> DEFINE old == file[FileOf[s]]
             new == kept'[s]
  <2>1. OrderOK(s)
    BY <1>3 DEF OrderInv
  <2>2. CASE TrimRead(s)
    <3>1. reader'[s] = "clear" /\ file' = file
      BY <2>2 DEF TrimRead, Goto, TypeInv, TypeOK
    <3>2. PICK k \in Nat : /\ Len(new) = IF k <= Len(old) THEN Len(old) - k ELSE 0
                          /\ \A i \in 1..Len(new) : new[i] = old[k + i]
      BY <2>2, KeptIsSuffix
    <3>3. new \in Seq(Cell)
      BY <2>2, KeptIsSuffix
    <3>4. /\ DOMAIN new = 1..Len(new) /\ DOMAIN old = 1..Len(old)
          /\ Len(new) \in Nat /\ Len(old) \in Nat
      BY <1>1, <3>3, LenProperties
    <3>5. Alone(old, s) /\ Sorted(old)
      BY <2>1 DEF OrderOK
    <3> HIDE DEF old, new
    <3>6. \A i \in DOMAIN new : new[i] = old[k + i] /\ k + i \in DOMAIN old /\ i \in Nat
      BY <3>2, <3>4
    <3>7. Alone(new, s)
      BY <3>5, <3>6 DEF Alone
    <3>8. ASSUME NEW i \in DOMAIN new, NEW j \in DOMAIN new, i < j PROVE Before(new[i], new[j])
      <4>1. k + i < k + j
        BY <3>6, <3>8
      <4> QED BY <3>5, <3>6, <3>8, <4>1 DEF Sorted
    <3> QED BY <2>1, <3>1, <3>7, <3>8 DEF OrderOK, Sorted, new
  <2>3. CASE TrimClear(s)
    <3>1. /\ reader[s] = "clear" /\ kept' = kept /\ file'[FileOf[s]] = <<>>
      BY <1>1, <2>3 DEF TrimClear, TypeInv, TypeOK
    <3>2. DOMAIN <<>> = {}
      OBVIOUS
    <3>3. Alone(<<>>, s) /\ Sorted(<<>>)
      BY <3>2 DEF Alone, Sorted
    <3> QED BY <2>1, <3>1, <3>3 DEF OrderOK
  <2>4. CASE TrimRewrite(s)
    <3>1. /\ reader[s] = "rewrite" /\ reader'[s] = "await"
          /\ file'[FileOf[s]] = old \o kept[s] /\ kept[s] \in Seq(Cell)
      BY <1>1, <2>4 DEF TrimRewrite, Goto, TypeInv, TypeOK
    <3>2. old = <<>> /\ Alone(kept[s], s) /\ Sorted(kept[s])
      BY <2>1, <3>1 DEF OrderOK
    <3>3. file'[FileOf[s]] = kept[s]
      BY <3>1, <3>2, ConcatEmptySeq
    <3> QED BY <3>1, <3>2, <3>3 DEF OrderOK
  <2> QED BY <2>2, <2>3, <2>4 DEF Trim
<1> QED BY <1>2, <1>3, <1>5, FirstBefore DEF OrderInv

LEMMA OrderNext ==
  ASSUME TypeInv, CellsInv, OrderInv, [Next]_vars
  PROVE  OrderInv'
<1> DEFINE Frame ==
      /\ file' = file
      /\ \A s \in Streams : reader'[s] \in {"clear", "rewrite"} =>
           reader'[s] = reader[s] /\ kept'[s] = kept[s]
<1>1. ASSUME NEW s \in Streams, Start(s) \/ Process(s) \/ Abort(s) PROVE Frame
  BY <1>1 DEF Start, Process, Produce, Open, Spawn, Close, Abort, Goto, TypeInv, TypeOK, readerVars
<1>2. ASSUME NEW s \in Streams, Cancel(s) \/ EndOfStream(s) \/ WriteFails(s) \/ TrimFails(s)
      PROVE  Frame
  BY <1>2 DEF Cancel, EndOfStream, WriteFails, TrimFails, Goto, TypeInv, TypeOK
<1>3. ASSUME NEW s \in Streams, PushLine(s) \/ PushPoisoned(s) \/ Report(s) PROVE Frame
  BY <1>3 DEF PushLine, PushPoisoned, Report, Goto, TypeInv, TypeOK
<1>4. ASSUME ManagerLog \/ UNCHANGED vars PROVE Frame
  BY <1>4 DEF ManagerLog, readerVars, vars
<1>5. Frame => OrderInv'
  BY FirstBefore DEF OrderInv, OrderOK
<1>6. ASSUME NEW s \in Streams, Write(s) \/ Trim(s) PROVE OrderInv'
  BY <1>6, OrderWrite, OrderTrim
<1> HIDE DEF Frame
<1> QED BY <1>1, <1>2, <1>3, <1>4, <1>5, <1>6 DEF Next, Reader

(* Truncations leave the lines of a file in order, at whatever size the    *)
(* reader believes the file to be when it seeks.                           *)
THEOREM InOrderHolds == Spec => []InOrder
<1>1. Init => OrderInv
  <2> SUFFICES ASSUME Init, NEW s \in Streams PROVE OrderOK(s)
    BY DEF OrderInv
  <2>1. FileOf[s] \in Files /\ DOMAIN <<>> = {}
    BY LogStreamAssumption
  <2> QED BY <2>1 DEF Init, OrderOK, Alone, Sorted
<1>2. TypeInv /\ CellsInv /\ OrderInv /\ [Next]_vars => OrderInv'
  BY OrderNext
<1>3. OrderInv => InOrder
  BY DEF OrderInv, OrderOK, Sorted, InOrder
<1> QED BY <1>1, <1>2, <1>3, TypeInvariant, CellsInvariant, PTL DEF Spec

-----------------------------------------------------------------------------
(* The ring buffer.                                                        *)

(* A stream has entries only once its reader runs; while its reader has a  *)
(* line in hand, the newest is of the line before.                         *)
InHand ==
  \A i \in DOMAIN ring :
    LET s == ring[i].stream IN
    s # Nil =>
      /\ reader[s] \notin {"none", "opened"}
      /\ Newest(i) /\ reader[s] = "push" => ring[i].line + 1 = Taken(s)

RingInv == RingLatest /\ InHand

LEMMA RingType ==
  ASSUME TypeInv
  PROVE  /\ DOMAIN ring = 1..Len(ring) /\ Len(ring) \in Nat
         /\ \A i \in DOMAIN ring : ring[i].stream \in Streams \cup {Nil} /\ ring[i].line \in Nat
<1>1. ring \in Seq(Entry)
  BY DEF TypeInv, TypeOK
<1>2. DOMAIN ring = 1..Len(ring) /\ Len(ring) \in Nat /\ \A i \in 1..Len(ring) : ring[i] \in Entry
  BY <1>1, LenProperties, ElementOfSeq
<1> QED BY <1>2 DEF Entry

LEMMA TakenIs == \A s \in Streams : /\ taken[s] = sent[s] - Len(pipe[s])
                                    /\ taken'[s] = sent'[s] - Len(pipe'[s])
  BY DEF taken, Taken

(* Nothing is pushed, and a reader that comes to hold a line took the one  *)
(* after its latest entry.                                                 *)
LEMMA RingFrame ==
  ASSUME TypeInv, RingInv, ring' = ring, logged' = logged,
         taken \in [Streams -> Nat], taken' \in [Streams -> Nat],
         \A s \in Streams :
           /\ reader[s] \notin {"none", "opened"} => reader'[s] \notin {"none", "opened"}
           /\ reader'[s] \in {"await", "done"} \cup Trimming =>
                \/ reader[s] \in {"none", "opened"}
                \/ reader[s] \in {"await"} \cup Trimming /\ taken'[s] = taken[s]
                \/ reader'[s] = reader[s] /\ taken'[s] = taken[s]
           /\ reader'[s] = "push" =>
                \/ reader[s] = "push" /\ taken'[s] = taken[s]
                \/ reader[s] = "await" /\ taken'[s] = taken[s] + 1
  PROVE  RingInv'
<1>1. \A i \in DOMAIN ring : Newest(i)' <=> Newest(i)
  BY DEF Newest
<1>2. ASSUME NEW i \in DOMAIN ring, NEW s \in Streams, ring[i].stream = s
      PROVE  /\ reader'[s] \notin {"none", "opened"}
             /\ Newest(i) /\ reader'[s] \in {"await", "done"} \cup Trimming =>
                  ring[i].line = taken'[s]
             /\ Newest(i) /\ reader'[s] = "push" => ring[i].line + 1 = taken'[s]
  <2>1. s # Nil /\ ring[i].line \in Nat
    BY RingType, LogStreamAssumption
  <2>2. /\ reader[s] \notin {"none", "opened"}
        /\ Newest(i) /\ reader[s] = "push" => ring[i].line + 1 = taken[s]
        /\ Newest(i) /\ reader[s] \in {"await", "done"} \cup Trimming => ring[i].line = taken[s]
    BY <1>2, <2>1, TakenIs DEF RingInv, RingLatest, InHand, Taken
  <2> QED BY <2>1, <2>2
<1>3. \A i \in DOMAIN ring : ring[i].stream # Nil => ring[i].stream \in Streams
  BY RingType
<1>4. InHand'
  BY <1>1, <1>2, <1>3, TakenIs DEF InHand, Taken
<1>5. RingLatest'
  BY <1>1, <1>2, <1>3, TakenIs DEF RingInv, RingLatest, Taken
<1> QED BY <1>4, <1>5 DEF RingInv

(* A new entry is the next one of its stream, or of the daemon; the oldest *)
(* entry may go.                                                           *)
LEMMA RingPush ==
  ASSUME TypeInv, RingInv, NEW e \in Entry, Push(e), taken' = taken,
         IF e.stream = Nil
         THEN e.line = logged + 1 /\ logged' = logged + 1
         ELSE /\ e.line = taken[e.stream] /\ logged' = logged
              /\ reader[e.stream] = "push" /\ reader'[e.stream] \in {"await", "read"},
         \A s \in Streams \ {e.stream} : reader'[s] \in {reader[s], "failed"}
  PROVE  RingInv'
<1> DEFINE n == Len(ring')
<1>1. /\ n \in Nat \ {0} /\ n <= RingSize /\ ring'[n] = e /\ DOMAIN ring' = 1..n
      /\ DOMAIN ring = 1..Len(ring) /\ Len(ring) \in Nat
  <2>1. ring' \in Seq(Entry)
    BY PushEffect
  <2>2. DOMAIN ring' = 1..n
    BY <2>1, LenProperties
  <2> QED BY <2>2, PushEffect, RingType DEF RingInv, RingLatest
<1>2. PICK d \in {0, 1} : n = Len(ring) + 1 - d /\ \A i \in 1..n - 1 : ring'[i] = ring[i + d]
  BY PushEffect
<1>3. \A i \in 1..n - 1 : i + d \in DOMAIN ring /\ ring'[i] = ring[i + d]
  BY <1>1, <1>2
<1>4. ASSUME NEW i \in 1..n - 1, NEW j \in i + 1..n,
             \A k \in i + 1..j - 1 : ring'[k].stream # ring'[i].stream
      PROVE  \A k \in i + d + 1..j + d - 1 : ring[k].stream # ring[i + d].stream
  <2> TAKE k \in i + d + 1..j + d - 1
  <2>1. k - d \in i + 1..j - 1 /\ k - d \in 1..n - 1 /\ (k - d) + d = k
    BY <1>1, <1>2
  <2>2. ring'[k - d] = ring[k] /\ ring'[i] = ring[i + d]
    BY <1>3, <2>1
  <2> QED BY <1>4, <2>1, <2>2
<1>5. ASSUME NEW i \in 1..n - 1, \A k \in i + 1..n - 1 : ring'[k].stream # ring'[i].stream
      PROVE  Newest(i + d)
  <2>1. n \in i + 1..n /\ n + d - 1 = Len(ring)
    BY <1>1, <1>2
  <2>2. \A k \in i + d + 1..Len(ring) : ring[k].stream # ring[i + d].stream
    BY <1>4, <1>5, <2>1
  <2> QED BY <2>2 DEF Newest
<1>6. ASSUME NEW i \in 1..n - 1, ring'[i].stream = e.stream, Newest(i + d)
      PROVE  e.line = ring'[i].line + 1
  <2>1. ring[i + d].stream = e.stream /\ ring[i + d] = ring'[i] /\ i + d \in DOMAIN ring
    BY <1>3, <1>6
  <2>2. CASE e.stream = Nil
    BY <1>6, <2>1, <2>2 DEF RingInv, RingLatest
  <2>3. CASE e.stream # Nil
    <3>1. e.stream \in Streams
      BY <2>3 DEF Entry
    <3> QED BY <1>6, <2>1, <2>3, <3>1, TakenIs DEF RingInv, InHand, Taken
  <2> QED BY <2>2, <2>3
<1>7. ASSUME NEW i \in 1..n, NEW j \in i + 1..n, ring'[j].stream = ring'[i].stream,
             \A k \in i + 1..j - 1 : ring'[k].stream # ring'[i].stream
      PROVE  ring'[j].line = ring'[i].line + 1
  <2>1. i \in 1..n - 1
    BY <1>1
  <2>2. CASE j = n
    <3>1. Newest(i + d)
      BY <1>5, <1>7, <2>1, <2>2
    <3> QED BY <1>1, <1>6, <1>7, <2>1, <2>2, <3>1
  <2>3. CASE j # n
    <3>1. j \in 1..n - 1 /\ j + d \in (i + d) + 1..Len(ring)
      BY <1>1, <1>2, <2>1, <2>3
    <3>2. /\ i + d \in DOMAIN ring /\ ring'[i] = ring[i + d] /\ ring'[j] = ring[j + d]
      BY <1>3, <2>1, <3>1
    <3>3. \A k \in i + d + 1..j + d - 1 : ring[k].stream # ring[i + d].stream
      <4> HIDE DEF n
      <4> QED BY <1>4, <1>7, <2>1
    <3> QED BY <1>7, <3>1, <3>2, <3>3 DEF RingInv, RingLatest
  <2> QED BY <2>2, <2>3
<1>8. ASSUME NEW i \in 1..n, NEW s \in Streams, ring'[i].stream = s
      PROVE  /\ reader'[s] \notin {"none", "opened"}
             /\ Newest(i)' /\ reader'[s] \in {"await", "done"} \cup Trimming =>
                  ring'[i].line = taken[s]
             /\ Newest(i)' /\ reader'[s] = "push" => ring'[i].line + 1 = taken[s]
  <2>1. s # Nil
    BY LogStreamAssumption
  <2>2. CASE i = n
    <3>1. e.stream = s
      BY <1>1, <1>8, <2>2
    <3> QED BY <1>1, <2>1, <2>2, <3>1
  <2>3. CASE i # n
    <3>1. i \in 1..n - 1 /\ n \in i + 1..n
      BY <1>1, <2>3
    <3>2. i + d \in DOMAIN ring /\ ring'[i] = ring[i + d] /\ ring[i + d].stream = s
      BY <1>3, <1>8, <3>1
    <3>3. Newest(i)' => e.stream # s /\ Newest(i + d)
      <4> SUFFICES ASSUME Newest(i)' PROVE e.stream # s /\ Newest(i + d)
        OBVIOUS
      <4>1. \A k \in i + 1..n : ring'[k].stream # ring'[i].stream
        BY DEF Newest
      <4>2. \A k \in i + 1..n - 1 : k \in i + 1..n
        BY <1>1
      <4> QED BY <1>1, <1>5, <1>8, <3>1, <4>1, <4>2
    <3>4. reader[s] \notin {"none", "opened"}
      BY <2>1, <3>2 DEF RingInv, InHand
    <3>5. Newest(i + d) =>
            /\ reader[s] = "push" => ring'[i].line + 1 = taken[s]
            /\ reader[s] \in {"await", "done"} \cup Trimming => ring'[i].line = taken[s]
      BY <2>1, <3>2, TakenIs DEF RingInv, InHand, RingLatest, Taken
    <3>6. CASE e.stream = s
      BY <2>1, <3>3, <3>6
    <3>7. CASE e.stream # s
      <4>1. reader'[s] \in {reader[s], "failed"}
        BY <3>7
      <4> QED BY <3>3, <3>4, <3>5, <4>1 DEF Trimming
    <3> QED BY <3>6, <3>7
  <2> QED BY <2>2, <2>3
<1>9. ASSUME NEW i \in 1..n, ring'[i].stream = Nil, Newest(i)' PROVE ring'[i].line = logged'
  <2>1. CASE i = n
    BY <1>1, <1>9, <2>1
  <2>2. CASE i # n
    <3>1. i \in 1..n - 1 /\ n \in i + 1..n
      BY <1>1, <2>2
    <3>2. \A k \in i + 1..n : ring'[k].stream # ring'[i].stream
      BY <1>9 DEF Newest
    <3>3. \A k \in i + 1..n - 1 : k \in i + 1..n
      BY <1>1
    <3>4. Newest(i + d) /\ e.stream # Nil
      BY <1>1, <1>5, <1>9, <3>1, <3>2, <3>3
    <3> QED BY <1>3, <1>9, <3>1, <3>4 DEF RingInv, RingLatest
  <2> QED BY <2>1, <2>2
<1>10. \A i \in 1..n : ring'[i].stream \in Streams \cup {Nil}
  <2>1. ring' \in Seq(Entry)
    BY PushEffect
  <2>2. \A i \in 1..n : ring'[i] \in Entry
    BY <2>1, ElementOfSeq
  <2> QED BY <2>2 DEF Entry
<1> HIDE DEF n
<1>11. InHand'
  BY <1>1, <1>8, <1>10, TakenIs DEF InHand, Taken
<1>12. RingLatest'
  BY <1>1, <1>7, <1>8, <1>9, <1>10, TakenIs DEF RingLatest, Taken, n
<1> QED BY <1>11, <1>12 DEF RingInv

LEMMA RingNext ==
  ASSUME TypeInv, RingInv, [Next]_vars
  PROVE  RingInv'
<1>1. /\ taken \in [Streams -> Nat] /\ taken' \in [Streams -> Nat]
  BY TakenType, TakenStep
<1>2. ASSUME sent' = sent, pipe' = pipe PROVE taken' = taken
  BY <1>2 DEF taken, Taken
<1>3. ASSUME NEW s \in Streams, Start(s) \/ Close(s) \/ Abort(s) \/ Cancel(s) \/ EndOfStream(s)
                                 \/ PushPoisoned(s) \/ Trim(s) \/ TrimFails(s)
      PROVE  RingInv'
  <2>1. taken' = taken
    BY <1>2, <1>3 DEF Start, Open, Spawn, Close, Abort, Cancel, EndOfStream, PushPoisoned, Trim,
       TrimRead, TrimClear, TrimRewrite, TrimFails, processVars
  <2>2. ring' = ring /\ logged' = logged
    BY <1>3 DEF Start, Open, Spawn, Close, Abort, Cancel, EndOfStream, PushPoisoned, Trim,
       TrimRead, TrimClear, TrimRewrite, TrimFails, logVars
  <2>3. \A t \in Streams \ {s} : reader'[t] = reader[t]
    BY <1>3 DEF Start, Open, Spawn, Close, Abort, Cancel, EndOfStream, PushPoisoned, Trim,
       TrimRead, TrimClear, TrimRewrite, TrimFails, Goto, readerVars, TypeInv, TypeOK
  <2>4. \/ reader'[s] = reader[s]
        \/ reader[s] = "none" /\ reader'[s] = "opened"
        \/ reader[s] = "opened" /\ reader'[s] = "await"
        \/ reader[s] \in {"await"} \cup Trimming
             /\ reader'[s] \in {"await", "done", "aborted", "panicked"} \cup Trimming
        \/ reader[s] = "push" /\ reader'[s] = "report"
    BY <1>3 DEF Start, Open, Spawn, Close, Abort, Cancel, EndOfStream, PushPoisoned, Trim,
       TrimRead, TrimClear, TrimRewrite, TrimFails, Goto, Trimming, readerVars, TypeInv, TypeOK
  <2> QED BY <1>1, <2>1, <2>2, <2>3, <2>4, RingFrame DEF Trimming
<1>4. ASSUME NEW s \in Streams, NEW k \in Lengths, Produce(s, k) PROVE RingInv'
  <2>1. taken' = taken
    BY <1>4, TypeProduce DEF taken
  <2> QED BY <1>1, <1>4, <2>1, RingFrame DEF Produce, readerVars, logVars
<1>5. ASSUME NEW s \in Streams, Write(s) \/ WriteFails(s) PROVE RingInv'
  <2>1. pipe[s] # <<>> /\ sent' = sent /\ pipe' = [pipe EXCEPT ![s] = Tail(@)]
    BY <1>5 DEF Write, WriteFails, processVars
  <2>2. Taken(s)' = Taken(s) + 1 /\ \A t \in Streams \ {s} : Taken(t)' = Taken(t)
    BY <2>1, LineTaken
  <2>3. taken'[s] = taken[s] + 1 /\ \A t \in Streams \ {s} : taken'[t] = taken[t]
    BY <2>2 DEF taken
  <2>4. /\ reader[s] = "await" /\ reader'[s] \in {"push", "report"}
        /\ \A t \in Streams \ {s} : reader'[t] = reader[t]
        /\ ring' = ring /\ logged' = logged
    BY <1>5 DEF Write, WriteFails, Goto, logVars, TypeInv, TypeOK
  <2> QED BY <1>1, <2>3, <2>4, RingFrame DEF Trimming
<1>6. ASSUME NEW s \in Streams, PushLine(s) PROVE RingInv'
  <2> DEFINE e == [stream |-> s, line |-> Taken(s)]
  <2>1. taken' = taken /\ taken[s] = Taken(s)
    BY <1>2, <1>6 DEF PushLine, processVars, taken
  <2>2. e \in Entry /\ e.stream = s /\ e.line = taken[s] /\ s # Nil
    BY <1>1, <2>1, LogStreamAssumption DEF Entry
  <2>3. Push(e)
    BY <1>6 DEF PushLine
  <2>4. /\ reader[s] = "push" /\ reader'[s] \in {"await", "read"} /\ logged' = logged
        /\ \A t \in Streams \ {s} : reader'[t] = reader[t]
    BY <1>6 DEF PushLine, Goto, TypeInv, TypeOK
  <2> HIDE DEF e
  <2> QED BY <2>1, <2>2, <2>3, <2>4, RingPush
<1>7. ASSUME ManagerLog \/ \E s \in Streams : Report(s) /\ ~poisoned PROVE RingInv'
  <2> DEFINE e == [stream |-> Nil, line |-> logged + 1]
  <2>1. taken' = taken
    BY <1>2, <1>7 DEF ManagerLog, Report, processVars
  <2>2. e \in Entry /\ e.stream = Nil /\ e.line = logged + 1
    BY DEF Entry, TypeInv, TypeOK
  <2>3. Push(e) /\ logged' = logged + 1
    BY <1>7 DEF ManagerLog, Report
  <2>4. \A t \in Streams : reader'[t] \in {reader[t], "failed"}
    BY <1>7 DEF ManagerLog, Report, Goto, readerVars, TypeInv, TypeOK
  <2> HIDE DEF e
  <2> QED BY <2>1, <2>2, <2>3, <2>4, RingPush
<1>8. ASSUME NEW s \in Streams, Report(s), poisoned PROVE RingInv'
  <2>1. taken' = taken
    BY <1>2, <1>8 DEF Report, processVars
  <2>2. /\ reader[s] = "report" /\ reader'[s] = "panicked" /\ ring' = ring /\ logged' = logged
        /\ \A t \in Streams \ {s} : reader'[t] = reader[t]
    BY <1>8 DEF Report, Goto, TypeInv, TypeOK
  <2> QED BY <1>1, <2>1, <2>2, RingFrame DEF Trimming
<1>9. CASE UNCHANGED vars
  <2>1. taken' = taken
    BY <1>2, <1>9 DEF vars, processVars
  <2> QED BY <1>1, <1>9, <2>1, RingFrame DEF vars, readerVars, logVars
<1> QED BY <1>3, <1>4, <1>5, <1>6, <1>7, <1>8, <1>9 DEF Next, Process, Reader

(* The ring buffer is gapless for each stream and for the daemon, although *)
(* readers push long after they have written, and lose their turns.        *)
THEOREM RingLatestHolds == Spec => []RingLatest
<1>1. Init => RingInv
  <2> SUFFICES ASSUME Init PROVE RingInv
    OBVIOUS
  <2>1. DOMAIN ring = {} /\ Len(ring) <= RingSize
    BY LogStreamAssumption DEF Init
  <2> QED BY <2>1 DEF RingInv, RingLatest, InHand
<1>2. TypeInv /\ RingInv /\ [Next]_vars => RingInv'
  BY RingNext
<1>3. RingInv => RingLatest
  BY DEF RingInv
<1> QED BY <1>1, <1>2, <1>3, TypeInvariant, PTL DEF Spec

-----------------------------------------------------------------------------
(* Sums over a finite set, as cardinalities: Pieces(S, w) has w[s] members *)
(* for each s of S.                                                        *)
Pieces(S, w) == UNION {{s} \X (1..w[s]) : s \in S}
Total(S, w)  == Cardinality(Pieces(S, w))

LEMMA PiecesOfOne ==
  ASSUME NEW s, NEW n \in Nat
  PROVE  IsFiniteSet({s} \X (1..n)) /\ Cardinality({s} \X (1..n)) = n
<1>1. IsFiniteSet({s}) /\ Cardinality({s}) = 1
  BY FS_Singleton
<1>2. IsFiniteSet(1..n) /\ Cardinality(1..n) = n
  BY FS_Interval
<1> DEFINE A == {s}
           B == 1..n
<1> HIDE DEF A, B
<1>3. IsFiniteSet(A \X B) /\ Cardinality(A \X B) = Cardinality(A) * Cardinality(B)
  BY <1>1, <1>2, FS_Product DEF A, B
<1>4. Cardinality(A) * Cardinality(B) = n
  BY <1>1, <1>2 DEF A, B
<1> QED BY <1>3, <1>4 DEF A, B

LEMMA TotalType ==
  ASSUME NEW S, IsFiniteSet(S), NEW w, \A s \in S : w[s] \in Nat
  PROVE  IsFiniteSet(Pieces(S, w)) /\ Total(S, w) \in Nat
<1> DEFINE Parts == {{s} \X (1..w[s]) : s \in S}
           part == [s \in S |-> {s} \X (1..w[s])]
<1>1. part \in Surjection(S, Parts)
  BY DEF Surjection
<1>2. IsFiniteSet(Parts)
  BY <1>1, FS_Surjection
<1>3. ASSUME NEW T \in Parts PROVE IsFiniteSet(T)
  <2>1. PICK s \in S : T = {s} \X (1..w[s])
    OBVIOUS
  <2>2. w[s] \in Nat
    OBVIOUS
  <2> QED BY <2>1, <2>2, PiecesOfOne
<1>4. IsFiniteSet(UNION Parts)
  BY <1>2, <1>3, FS_UNION
<1> QED BY <1>4, FS_CardinalityType DEF Pieces, Total

LEMMA TotalSplit ==
  ASSUME NEW S, IsFiniteSet(S), NEW w, \A s \in S : w[s] \in Nat, NEW s \in S
  PROVE  Total(S, w) = Total(S \ {s}, w) + w[s]
<1> DEFINE A == Pieces(S \ {s}, w)
           B == {s} \X (1..w[s])
<1>1. Pieces(S, w) = A \cup B /\ A \cap B = {}
  BY DEF Pieces
<1>2. IsFiniteSet(A) /\ Cardinality(A) \in Nat
  <2>1. IsFiniteSet(S \ {s})
    BY FS_RemoveElement
  <2> QED BY <2>1, TotalType DEF Total
<1>3. IsFiniteSet(B) /\ Cardinality(B) = w[s]
  BY PiecesOfOne
<1> HIDE DEF A, B
<1>4. Cardinality(A \cup B) = Cardinality(A) + Cardinality(B) - Cardinality({})
  BY <1>1, <1>2, <1>3, FS_Union
<1> QED BY <1>1, <1>2, <1>3, <1>4, FS_EmptySet DEF Total, A

LEMMA TotalMono ==
  ASSUME NEW S, NEW T, IsFiniteSet(T), S \subseteq T, NEW w, NEW v,
         \A s \in T : v[s] \in Nat, \A s \in S : w[s] \in Nat /\ w[s] <= v[s]
  PROVE  IsFiniteSet(S) /\ Total(S, w) \in Nat /\ Total(T, v) \in Nat /\ Total(S, w) <= Total(T, v)
<1>1. IsFiniteSet(S)
  BY FS_Subset
<1>2. Pieces(S, w) \subseteq Pieces(T, v)
  <2> SUFFICES ASSUME NEW s \in S PROVE {s} \X (1..w[s]) \subseteq {s} \X (1..v[s])
    BY DEF Pieces
  <2> QED OBVIOUS
<1>3. IsFiniteSet(Pieces(T, v))
  BY TotalType
<1> QED BY <1>1, <1>2, <1>3, TotalType, FS_Subset DEF Total

(* One weight grows by n, and none shrinks. *)
LEMMA TotalGrows ==
  ASSUME NEW S, IsFiniteSet(S), NEW w, NEW v, NEW s \in S, NEW n \in Nat,
         \A t \in S : w[t] \in Nat /\ v[t] \in Nat /\ w[t] <= v[t], w[s] + n <= v[s]
  PROVE  Total(S, w) + n <= Total(S, v)
<1>1. Total(S, w) = Total(S \ {s}, w) + w[s] /\ Total(S, v) = Total(S \ {s}, v) + v[s]
  BY TotalSplit
<1>2. IsFiniteSet(S \ {s})
  BY FS_RemoveElement
<1>3. /\ Total(S \ {s}, w) \in Nat /\ Total(S \ {s}, v) \in Nat
      /\ Total(S \ {s}, w) <= Total(S \ {s}, v)
  BY <1>2, TotalMono
<1> QED BY <1>1, <1>3

LEMMA TotalBound ==
  ASSUME NEW S, IsFiniteSet(S), NEW w, NEW m \in Nat, \A s \in S : w[s] \in Nat /\ w[s] <= m
  PROVE  Total(S, w) <= m * Cardinality(S) /\ Total(S, w) \in Nat /\ Cardinality(S) \in Nat
<1>1. Pieces(S, w) \subseteq S \X (1..m)
  <2> SUFFICES ASSUME NEW s \in S PROVE {s} \X (1..w[s]) \subseteq S \X (1..m)
    BY DEF Pieces
  <2> QED OBVIOUS
<1>2. IsFiniteSet(1..m) /\ Cardinality(1..m) = m
  BY FS_Interval
<1>3. IsFiniteSet(S \X (1..m)) /\ Cardinality(S \X (1..m)) = Cardinality(S) * m
  BY <1>2, FS_Product
<1>4. Total(S, w) <= Cardinality(S) * m
  BY <1>1, <1>3, FS_Subset DEF Total
<1> QED BY <1>4, TotalType, FS_CardinalityType

-----------------------------------------------------------------------------
(* The length of a file.                                                   *)

Opened(f) == {s \in Streams : FileOf[s] = f /\ reader[s] # "none"}

AtRest == {"opened", "await", "done", "aborted"}

(* What a reader may have contributed to the length of its file: between   *)
(* two lines no more than the limit, since it truncates whenever its       *)
(* counter is above; with a line in hand no more than it has counted.      *)
Share == [s \in Streams |->
            IF reader[s] \in AtRest /\ size[s] > MaxLen THEN MaxLen ELSE size[s]]

(* No file is longer than the shares of its readers together; and what a   *)
(* truncation leaves is not longer than the shares of the others and the   *)
(* limit.                                                                  *)
CapOK(f) ==
  /\ IsFiniteSet(Opened(f))
  /\ Len(file[f]) <= Total(Opened(f), Share)
  /\ \A s \in Opened(f) :
       /\ reader[s] = "clear" =>
            Len(kept[s]) <= Total(Opened(f) \ {s}, Share) + MaxLen
       /\ reader[s] = "rewrite" =>
            Len(file[f]) + Len(kept[s]) <= Total(Opened(f) \ {s}, Share) + MaxLen

CapInv == \A f \in Files : CapOK(f)

LEMMA CapTypes ==
  ASSUME TypeInv
  PROVE  /\ Share \in [Streams -> Nat] /\ MaxLen \in Nat
         /\ \A f \in Files : file[f] \in Seq(Cell) /\ Len(file[f]) \in Nat
         /\ \A s \in Streams : kept[s] \in Seq(Cell) /\ Len(kept[s]) \in Nat /\ FileOf[s] \in Files
<1>1. MaxLen \in Nat /\ \A s \in Streams : FileOf[s] \in Files
  BY LogStreamAssumption
<1>2. Share \in [Streams -> Nat]
  BY <1>1 DEF Share, TypeInv, TypeOK
<1> QED BY <1>1, <1>2, LenProperties DEF TypeInv, TypeOK

(* What fits beside a total still fits when the total has grown. *)
LEMMA FitsBeside ==
  ASSUME NEW a \in Nat, NEW k \in Nat, NEW b \in Nat, NEW c \in Nat, NEW limit \in Nat,
         a + k <= b + limit, b <= c
  PROVE  a + k <= c + limit
OBVIOUS

LEMMA StillFits ==
  ASSUME NEW a \in Nat, NEW k \in Nat, NEW b \in Nat, NEW c \in Nat, NEW limit \in Nat,
         NEW m \in Nat, NEW n \in Nat, a + k <= b + limit, b + n <= c, m <= n,
         NEW d, d = a + m
  PROVE  d + k <= c + limit
OBVIOUS

(* The file stays as it is and no share in it shrinks; readers may join.   *)
LEMMA CapFrame ==
  ASSUME TypeInv, NEW f \in Files, CapOK(f), Share' \in [Streams -> Nat],
         Opened(f) \subseteq Opened(f)', IsFiniteSet(Opened(f)'),
         \A s \in Opened(f) : Share[s] <= Share'[s],
         file'[f] = file[f],
         \A s \in Opened(f)' : reader'[s] \in {"clear", "rewrite"} =>
           s \in Opened(f) /\ reader'[s] = reader[s] /\ kept'[s] = kept[s]
  PROVE  CapOK(f)'
<1> DEFINE S == Opened(f)
           T == Opened(f)'
<1>1. S \subseteq Streams /\ T \subseteq Streams
  BY DEF Opened
<1>2. \A s \in S : Share[s] \in Nat
  BY <1>1, CapTypes
<1>3. \A s \in T : Share'[s] \in Nat
  BY <1>1
<1> HIDE DEF S, T
<1>4. Total(S, Share) \in Nat /\ Total(T, Share') \in Nat /\ Total(S, Share) <= Total(T, Share')
  BY <1>2, <1>3, TotalMono DEF S, T
<1>5. ASSUME NEW s \in S
      PROVE  /\ Total(S \ {s}, Share) \in Nat /\ Total(T \ {s}, Share') \in Nat
             /\ Total(S \ {s}, Share) <= Total(T \ {s}, Share')
  <2>1. IsFiniteSet(T \ {s}) /\ S \ {s} \subseteq T \ {s}
    BY FS_RemoveElement DEF S, T
  <2>2. /\ \A t \in S \ {s} : Share[t] \in Nat /\ Share[t] <= Share'[t]
        /\ \A t \in T \ {s} : Share'[t] \in Nat
    BY <1>2, <1>3 DEF S
  <2> QED BY <2>1, <2>2, TotalMono
<1>6. Len(file'[f]) <= Total(T, Share')
  BY <1>4, CapTypes DEF CapOK, S
<1>7. ASSUME NEW s \in T
      PROVE  /\ reader'[s] = "clear" =>
                  Len(kept'[s]) <= Total(T \ {s}, Share') + MaxLen
             /\ reader'[s] = "rewrite" =>
                  Len(file'[f]) + Len(kept'[s]) <= Total(T \ {s}, Share') + MaxLen
  <2> SUFFICES ASSUME reader'[s] \in {"clear", "rewrite"}
               PROVE  /\ reader'[s] = "clear" =>
                           Len(kept'[s]) <= Total(T \ {s}, Share') + MaxLen
                      /\ reader'[s] = "rewrite" =>
                           Len(file'[f]) + Len(kept'[s]) <= Total(T \ {s}, Share') + MaxLen
    OBVIOUS
  <2>1. s \in S /\ s \in Streams /\ reader[s] = reader'[s] /\ kept'[s] = kept[s]
    BY <1>1 DEF S, T
  <2>2. /\ reader[s] = "clear" => Len(kept[s]) <= Total(S \ {s}, Share) + MaxLen
        /\ reader[s] = "rewrite" =>
             Len(file[f]) + Len(kept[s]) <= Total(S \ {s}, Share) + MaxLen
    BY <2>1 DEF CapOK, S
  <2>3. Len(kept[s]) \in Nat /\ Len(file[f]) \in Nat /\ MaxLen \in Nat
    BY <2>1, CapTypes
  <2>4. /\ Total(S \ {s}, Share) \in Nat /\ Total(T \ {s}, Share') \in Nat
        /\ Total(S \ {s}, Share) <= Total(T \ {s}, Share')
    BY <1>5, <2>1
  <2>5. ASSUME reader[s] = "clear" PROVE Len(kept[s]) <= Total(T \ {s}, Share') + MaxLen
    BY <2>2, <2>3, <2>4, <2>5
  <2>6. ASSUME reader[s] = "rewrite"
        PROVE  Len(file[f]) + Len(kept[s]) <= Total(T \ {s}, Share') + MaxLen
    <3>1. Len(file[f]) + Len(kept[s]) <= Total(S \ {s}, Share) + MaxLen
      BY <2>2, <2>6
    <3> QED BY <2>3, <2>4, <3>1, FitsBeside
  <2> QED BY <2>1, <2>5, <2>6
<1> QED BY <1>6, <1>7 DEF CapOK, S, T

(* Nobody truncates, no file changes, and shares only grow. *)
LEMMA CapQuiet ==
  ASSUME TypeInv, CapInv, Share' \in [Streams -> Nat], file' = file,
         NEW s \in Streams,
         \A t \in Streams \ {s} : reader'[t] = reader[t] /\ size'[t] = size[t] /\ kept'[t] = kept[t],
         reader'[s] \notin {"none", "clear", "rewrite"},
         reader[s] # "none" => Share[s] <= Share'[s]
  PROVE  CapInv'
<1> SUFFICES ASSUME NEW f \in Files PROVE CapOK(f)'
  BY DEF CapInv
<1>1. Opened(f) \subseteq Opened(f)' /\ Opened(f)' \subseteq Opened(f) \cup {s}
  BY DEF Opened
<1>2. IsFiniteSet(Opened(f)')
  <2>1. IsFiniteSet(Opened(f) \cup {s})
    BY FS_AddElement DEF CapInv, CapOK
  <2> QED BY <1>1, <2>1, FS_Subset
<1>3. \A t \in Streams \ {s} : Share'[t] = Share[t]
  BY DEF Share
<1>4. \A t \in Opened(f) : Share[t] <= Share'[t]
  BY <1>3, CapTypes DEF Opened
<1>5. \A t \in Opened(f)' : reader'[t] \in {"clear", "rewrite"} =>
        t \in Opened(f) /\ reader'[t] = reader[t] /\ kept'[t] = kept[t]
  BY <1>1 DEF Opened
<1> QED BY <1>1, <1>2, <1>4, <1>5, CapFrame DEF CapInv

(* A line adds at most its length to the file, and its length to the share *)
(* of its reader.                                                          *)
LEMMA CapWrite ==
  ASSUME TypeInv, CapInv, Share' \in [Streams -> Nat], NEW s \in Streams, Write(s)
  PROVE  CapInv'
<1>1. PICK n \in Nat \ {0}, m \in Nat \ {0}, new \in Seq(Cell) :
        /\ m <= n /\ Len(new) = m
        /\ file' = [file EXCEPT ![FileOf[s]] = @ \o new]
        /\ size' = [size EXCEPT ![s] = @ + n]
  BY WriteEffect
<1>2. /\ reader[s] = "await" /\ reader'[s] = "push" /\ kept' = kept
      /\ \A t \in Streams \ {s} : reader'[t] = reader[t]
  BY DEF Write, Goto, TypeInv, TypeOK
<1>3. /\ \A t \in Streams \ {s} : Share'[t] = Share[t]
      /\ Share[s] + n <= Share'[s]
  <2>1. size[s] \in Nat /\ MaxLen \in Nat /\ size'[s] = size[s] + n
        /\ \A t \in Streams \ {s} : size'[t] = size[t]
    BY <1>1, CapTypes DEF TypeInv, TypeOK
  <2>2. Share'[s] = size[s] + n
    BY <1>2, <2>1 DEF Share, AtRest
  <2>3. Share[s] = IF size[s] > MaxLen THEN MaxLen ELSE size[s]
    BY <1>2 DEF Share, AtRest
  <2>4. \A t \in Streams \ {s} : Share'[t] = Share[t]
    BY <1>2, <2>1 DEF Share
  <2> QED BY <2>1, <2>2, <2>3, <2>4
<1>4. \A f \in Files : Opened(f)' = Opened(f)
  BY <1>2 DEF Opened
<1> SUFFICES ASSUME NEW f \in Files PROVE CapOK(f)'
  BY DEF CapInv
<1>5. \A t \in Streams : Share[t] \in Nat /\ Share'[t] \in Nat /\ Share[t] <= Share'[t]
  <2>1. \A t \in Streams : Share[t] \in Nat /\ Share'[t] \in Nat
    BY CapTypes
  <2>2. Share[s] <= Share'[s]
    BY <1>1, <1>3, <2>1
  <2>3. \A t \in Streams \ {s} : Share[t] <= Share'[t]
    BY <1>3, <2>1
  <2> QED BY <2>1, <2>2, <2>3
<1> DEFINE S == Opened(f)
<1>6. S \subseteq Streams /\ IsFiniteSet(S)
  BY DEF Opened, CapInv, CapOK
<1>7. CASE f # FileOf[s]
  <2>1. file'[f] = file[f]
    BY <1>1, <1>7 DEF TypeInv, TypeOK
  <2>2. \A t \in S : t # s
    BY <1>7 DEF Opened
  <2> QED BY <1>2, <1>4, <1>5, <1>6, <2>1, <2>2, CapFrame DEF CapInv
<1>8. CASE f = FileOf[s]
  <2>1. s \in S
    BY <1>2, <1>8 DEF Opened
  <2>2. Len(file'[f]) = Len(file[f]) + m /\ Len(file[f]) \in Nat
    <3>1. file'[f] = file[f] \o new
      BY <1>1, <1>8 DEF TypeInv, TypeOK
    <3>2. file[f] \in Seq(Cell) /\ Len(file[f]) \in Nat
      BY CapTypes
    <3>3. Len(file[f] \o new) = Len(file[f]) + Len(new)
      BY <3>2, ConcatProperties
    <3> QED BY <1>1, <3>1, <3>2, <3>3
  <2>3. Total(S, Share) + n <= Total(S, Share') /\ Total(S, Share) \in Nat /\ Total(S, Share') \in Nat
    BY <1>3, <1>5, <1>6, <2>1, TotalGrows, TotalType
  <2>4. Len(file[f]) <= Total(S, Share)
    BY DEF CapInv, CapOK
  <2>5. ASSUME NEW t \in S, reader'[t] \in {"clear", "rewrite"}
        PROVE  /\ t # s /\ reader[t] = reader'[t]
               /\ Total(S \ {t}, Share) + n <= Total(S \ {t}, Share')
               /\ Total(S \ {t}, Share) \in Nat /\ Total(S \ {t}, Share') \in Nat
               /\ Len(kept[t]) \in Nat /\ MaxLen \in Nat
    <3>1. t # s /\ reader[t] = reader'[t]
      BY <1>2, <1>6, <2>5
    <3>2. s \in S \ {t} /\ IsFiniteSet(S \ {t})
      BY <1>6, <2>1, <3>1, FS_RemoveElement
    <3>3. \A u \in S \ {t} : Share[u] \in Nat /\ Share'[u] \in Nat /\ Share[u] <= Share'[u]
      BY <1>5, <1>6
    <3>4. /\ Total(S \ {t}, Share) + n <= Total(S \ {t}, Share')
          /\ Total(S \ {t}, Share) \in Nat /\ Total(S \ {t}, Share') \in Nat
      BY <1>3, <3>2, <3>3, TotalGrows, TotalType
    <3> QED BY <1>6, <3>1, <3>4, CapTypes
  <2>6. ASSUME NEW t \in S, reader'[t] = "clear"
        PROVE  Len(kept[t]) <= Total(S \ {t}, Share') + MaxLen
    <3>1. Len(kept[t]) <= Total(S \ {t}, Share) + MaxLen
      BY <2>5, <2>6 DEF CapInv, CapOK
    <3> QED BY <2>5, <2>6, <3>1
  <2>7. ASSUME NEW t \in S, reader'[t] = "rewrite"
        PROVE  Len(file'[f]) + Len(kept[t]) <= Total(S \ {t}, Share') + MaxLen
    <3>1. Len(file[f]) + Len(kept[t]) <= Total(S \ {t}, Share) + MaxLen
      BY <2>5, <2>7 DEF CapInv, CapOK
    <3>2. /\ Total(S \ {t}, Share) + n <= Total(S \ {t}, Share')
          /\ Total(S \ {t}, Share) \in Nat /\ Total(S \ {t}, Share') \in Nat
          /\ Len(kept[t]) \in Nat /\ MaxLen \in Nat
      BY <2>5, <2>7
    <3>3. m \in Nat /\ n \in Nat /\ m <= n
      BY <1>1
    <3> HIDE DEF S
    <3> QED BY <2>2, <3>1, <3>2, <3>3, StillFits
  <2>8. Len(file'[f]) <= Total(S, Share')
    BY <1>1, <2>2, <2>3, <2>4
  <2> QED BY <1>2, <1>4, <1>6, <2>6, <2>7, <2>8 DEF CapOK
<1> QED BY <1>7, <1>8

(* A truncation keeps less than its reader has counted, and counts no      *)
(* more than the limit for it; the rest of the file is what others wrote.  *)
LEMMA CapTrim ==
  ASSUME TypeInv, CapInv, Share' \in [Streams -> Nat], NEW s \in Streams, Trim(s)
  PROVE  CapInv'
<1> DEFINE g == FileOf[s]
<1>1. /\ reader[s] \in Trimming /\ reader'[s] \in {"clear", "rewrite", "await"} /\ size' = size
      /\ \A t \in Streams \ {s} : reader'[t] = reader[t] /\ kept'[t] = kept[t]
  BY DEF Trim, TrimRead, TrimClear, TrimRewrite, Goto, Trimming, TypeInv, TypeOK
<1>2. size[s] > MaxLen /\ \A t \in Streams \ {s} : reader[t] \notin Trimming
  BY <1>1 DEF TypeInv, ReaderOK
<1>3. \A f \in Files : Opened(f)' = Opened(f)
  BY <1>1 DEF Opened, Trimming
<1>4. \A t \in Streams \ {s} : Share'[t] = Share[t]
  BY <1>1 DEF Share
<1>5. Share[s] = size[s] /\ Share'[s] = IF reader'[s] = "await" THEN MaxLen ELSE size[s]
  BY <1>1, <1>2 DEF Share, AtRest, Trimming
<1>6. \A f \in Files \ {g} : file'[f] = file[f]
  BY DEF Trim, TrimRead, TrimClear, TrimRewrite, TypeInv, TypeOK
<1> SUFFICES ASSUME NEW f \in Files PROVE CapOK(f)'
  BY DEF CapInv
<1> DEFINE S == Opened(f)
           rest == Total(S \ {s}, Share)
<1>7. S \subseteq Streams /\ IsFiniteSet(S) /\ \A t \in S : Share[t] \in Nat /\ Share'[t] \in Nat
  BY CapTypes DEF Opened, CapInv, CapOK
<1>8. CASE f # g
  <2>1. \A t \in S : t # s
    BY <1>8 DEF Opened
  <2>2. \A t \in S : Share[t] <= Share'[t]
    BY <1>4, <1>7, <2>1
  <2> QED BY <1>1, <1>3, <1>6, <1>7, <1>8, <2>1, <2>2, CapFrame DEF CapInv
<1>9. CASE f = g
  <2>1. s \in S
    BY <1>1, <1>9 DEF Opened, Trimming
  <2>2. IsFiniteSet(S \ {s}) /\ \A t \in S \ {s} : Share[t] \in Nat /\ Share'[t] = Share[t]
    BY <1>4, <1>7, FS_RemoveElement
  <2>3. rest \in Nat /\ Total(S \ {s}, Share') \in Nat
    BY <2>2, TotalType
  <2>4. Total(S \ {s}, Share') = rest
    <3>1. rest <= Total(S \ {s}, Share') /\ Total(S \ {s}, Share') <= rest
      BY <2>2, TotalMono
    <3> QED BY <2>3, <3>1
  <2>5. Total(S, Share) = rest + size[s] /\ Total(S, Share') = rest + Share'[s]
    BY <1>5, <1>7, <2>1, <2>4, TotalSplit
  <2>6. /\ Len(file[f]) \in Nat /\ Len(kept[s]) \in Nat /\ MaxLen \in Nat /\ size[s] \in Nat
        /\ Len(file[f]) <= Total(S, Share)
    BY CapTypes DEF CapInv, CapOK, TypeInv, TypeOK
  <2> HIDE DEF rest
  <2>7. CASE TrimRead(s)
    <3>1. reader'[s] = "clear" /\ file' = file
      BY <2>7 DEF TrimRead, Goto, TypeInv, TypeOK
    <3>2. PICK k \in Nat : /\ k >= size[s] - MaxLen
                          /\ Len(kept'[s]) = IF k <= Len(file[f]) THEN Len(file[f]) - k ELSE 0
      BY <1>9, <2>7, KeptIsSuffix
    <3>3. Len(kept'[s]) <= rest + MaxLen
      BY <2>3, <2>5, <2>6, <3>2
    <3>4. Len(file'[f]) <= Total(S, Share')
      BY <1>5, <2>5, <2>6, <3>1
    <3> QED BY <1>1, <1>2, <1>3, <1>7, <2>4, <3>1, <3>3, <3>4 DEF CapOK, Trimming
  <2>8. CASE TrimClear(s)
    <3>1. /\ reader[s] = "clear" /\ reader'[s] = "rewrite" /\ kept' = kept
          /\ file'[f] = <<>>
      BY <1>9, <2>8 DEF TrimClear, Goto, TypeInv, TypeOK
    <3>2. Len(file'[f]) = 0
      BY <3>1, EmptySeq
    <3>3. Len(kept[s]) <= rest + MaxLen
      BY <2>1, <3>1 DEF CapInv, CapOK, rest
    <3>4. Len(file'[f]) <= Total(S, Share')
      BY <1>5, <2>3, <2>5, <2>6, <3>1, <3>2
    <3>5. Len(file'[f]) + Len(kept'[s]) <= rest + MaxLen
      BY <2>6, <3>1, <3>2, <3>3
    <3> QED BY <1>1, <1>2, <1>3, <1>7, <2>4, <3>1, <3>4, <3>5 DEF CapOK, Trimming
  <2>9. CASE TrimRewrite(s)
    <3>1. /\ reader[s] = "rewrite" /\ reader'[s] = "await"
          /\ file'[f] = file[f] \o kept[s]
      BY <1>9, <2>9 DEF TrimRewrite, Goto, TypeInv, TypeOK
    <3>2. Len(file'[f]) = Len(file[f]) + Len(kept[s])
      BY <3>1, CapTypes, ConcatProperties
    <3>3. Len(file[f]) + Len(kept[s]) <= rest + MaxLen
      BY <2>1, <3>1 DEF CapInv, CapOK, rest
    <3>4. Len(file'[f]) <= Total(S, Share')
      BY <1>5, <2>3, <2>5, <2>6, <3>1, <3>2, <3>3
    <3> QED BY <1>1, <1>2, <1>3, <1>7, <3>1, <3>4 DEF CapOK, Trimming
  <2> QED BY <2>7, <2>8, <2>9 DEF Trim
<1> QED BY <1>8, <1>9

LEMMA CapNext ==
  ASSUME TypeInv, CapInv, [Next]_vars
  PROVE  CapInv'
<1>1. Share' \in [Streams -> Nat]
  <2>1. size' \in [Streams -> Nat] /\ MaxLen \in Nat
    BY TypeNext, CapTypes DEF TypeInv, TypeOK
  <2> QED BY <2>1 DEF Share
<1>2. ASSUME reader' = reader, size' = size, file' = file, kept' = kept PROVE CapInv'
  <2> SUFFICES ASSUME NEW f \in Files PROVE CapOK(f)'
    BY DEF CapInv
  <2>1. Opened(f)' = Opened(f) /\ Share' = Share
    BY <1>2 DEF Opened, Share
  <2>2. \A s \in Opened(f) : Share[s] <= Share'[s]
    BY <2>1, CapTypes DEF Opened
  <2> QED BY <1>1, <1>2, <2>1, <2>2, CapFrame DEF CapInv, CapOK
<1>3. ASSUME NEW s \in Streams, file' = file,
             \A t \in Streams \ {s} : reader'[t] = reader[t] /\ size'[t] = size[t] /\ kept'[t] = kept[t],
             reader'[s] \notin {"none", "clear", "rewrite"},
             reader[s] # "none" => size'[s] = size[s],
             reader[s] # "none" /\ reader'[s] \in AtRest => reader[s] \in AtRest \/ size[s] <= MaxLen
      PROVE  CapInv'
  <2>1. size[s] \in Nat /\ MaxLen \in Nat
    BY CapTypes DEF TypeInv, TypeOK
  <2>2. reader[s] # "none" => Share[s] <= Share'[s]
    BY <1>3, <2>1 DEF Share
  <2> QED BY <1>1, <1>3, <2>2, CapQuiet
<1>4. CASE UNCHANGED vars \/ ManagerLog
  BY <1>2, <1>4 DEF vars, ManagerLog, readerVars
<1>5. ASSUME NEW s \in Streams, Process(s) \/ Abort(s) PROVE CapInv'
  BY <1>2, <1>5 DEF Process, Produce, Close, Abort, readerVars
<1>6. ASSUME NEW s \in Streams, Start(s) \/ Cancel(s) \/ EndOfStream(s) PROVE CapInv'
  <2>1. /\ file' = file
        /\ \A t \in Streams \ {s} : reader'[t] = reader[t] /\ size'[t] = size[t] /\ kept'[t] = kept[t]
        /\ reader'[s] \notin {"none", "clear", "rewrite"}
        /\ reader[s] \in AtRest \/ reader[s] = "none"
        /\ reader[s] # "none" => size'[s] = size[s]
    BY <1>6 DEF Start, Open, Spawn, Cancel, EndOfStream, Goto, AtRest, TypeInv, TypeOK
  <2> QED BY <1>3, <2>1
<1>7. ASSUME NEW s \in Streams, WriteFails(s) \/ PushPoisoned(s) \/ Report(s) \/ TrimFails(s)
      PROVE  CapInv'
  <2>1. /\ file' = file /\ size' = size
        /\ \A t \in Streams \ {s} : reader'[t] = reader[t] /\ kept'[t] = kept[t]
        /\ reader'[s] \in {"report", "failed", "panicked"}
    BY <1>7 DEF WriteFails, PushPoisoned, Report, TrimFails, Goto, TypeInv, TypeOK
  <2> QED BY <1>3, <2>1 DEF AtRest
<1>8. ASSUME NEW s \in Streams, PushLine(s) PROVE CapInv'
  <2>1. /\ file' = file /\ size' = size /\ kept' = kept
        /\ \A t \in Streams \ {s} : reader'[t] = reader[t]
        /\ reader'[s] = IF size[s] <= MaxLen THEN "await" ELSE "read"
    BY <1>8 DEF PushLine, Goto, TypeInv, TypeOK
  <2> QED BY <1>3, <2>1 DEF AtRest
<1>9. ASSUME NEW s \in Streams, Write(s) \/ Trim(s) PROVE CapInv'
  BY <1>1, <1>9, CapWrite, CapTrim
<1> QED BY <1>4, <1>5, <1>6, <1>7, <1>8, <1>9 DEF Next, Reader

(* A file is within the limit for each of its readers, however many share  *)
(* it and however their writes and truncations interleave: what a reader   *)
(* saves and writes back was counted by it, or written by another.         *)
THEOREM FileCappedHolds == Spec => []FileCapped
<1>1. Init => CapInv
  <2> SUFFICES ASSUME Init, NEW f \in Files PROVE CapOK(f)
    BY DEF CapInv
  <2>1. Opened(f) = {} /\ IsFiniteSet({}) /\ file[f] = <<>>
    BY FS_EmptySet DEF Init, Opened
  <2>2. Total({}, Share) \in Nat
    BY <2>1, TotalType
  <2>3. Len(file[f]) = 0
    BY <2>1, EmptySeq
  <2> QED BY <2>1, <2>2, <2>3 DEF CapOK
<1>2. TypeInv /\ CapInv /\ [Next]_vars => CapInv'
  BY CapNext
<1>3. TypeInv /\ CapInv => FileCapped
  <2> SUFFICES ASSUME TypeInv, CapInv, NEW f \in Files,
                      \A s \in Opened(f) : reader[s] \in AtRest
               PROVE  Len(file[f]) <= MaxLen * Cardinality(Opened(f))
    BY DEF FileCapped, Opened, AtRest
  <2>1. MaxLen \in Nat /\ Len(file[f]) \in Nat /\ IsFiniteSet(Opened(f))
    BY CapTypes DEF CapInv, CapOK
  <2>2. \A s \in Opened(f) : Share[s] \in Nat /\ Share[s] <= MaxLen
    <3> SUFFICES ASSUME NEW s \in Opened(f) PROVE Share[s] \in Nat /\ Share[s] <= MaxLen
      OBVIOUS
    <3>1. s \in Streams /\ reader[s] \in AtRest
      BY DEF Opened
    <3>2. size[s] \in Nat /\ Share[s] = IF size[s] > MaxLen THEN MaxLen ELSE size[s]
      BY <3>1 DEF Share, TypeInv, TypeOK
    <3> QED BY <2>1, <3>2
  <2>3. /\ Total(Opened(f), Share) <= MaxLen * Cardinality(Opened(f))
        /\ Total(Opened(f), Share) \in Nat /\ Cardinality(Opened(f)) \in Nat
    BY <2>1, <2>2, TotalBound
  <2>4. Len(file[f]) <= Total(Opened(f), Share)
    BY DEF CapInv, CapOK
  <2> DEFINE x == MaxLen * Cardinality(Opened(f))
  <2>5. x \in Nat
    BY <2>1, <2>3
  <2> HIDE DEF x
  <2>6. Len(file[f]) <= x
    BY <2>1, <2>3, <2>4, <2>5 DEF x
  <2> QED BY <2>6 DEF x
<1> QED BY <1>1, <1>2, <1>3, TypeInvariant, PTL DEF Spec
=============================================================================
