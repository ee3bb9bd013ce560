------------------------ MODULE LogStreamProperties -------------------------
(***************************************************************************)
(* What the log files and the ring buffer of LogStream promise.            *)
(***************************************************************************)
EXTENDS LogStream, FiniteSets

(* No other reader ever opens the stream's file. *)
Sole(s) == \A t \in Streams : FileOf[t] = FileOf[s] => t = s

-----------------------------------------------------------------------------
(* Between two lines, a file is within the limit for each reader that has  *)
(* opened it, although the counters that trigger its truncation are never  *)
(* corrected, neither for what another reader wrote nor for what a         *)
(* truncation cut off.                                                     *)
FileCapped ==
  \A f \in Files :
    LET opened == {s \in Streams : FileOf[s] = f /\ reader[s] # "none"} IN
    (\A s \in opened : reader[s] \in {"opened", "await", "done", "aborted"})
      => Len(file[f]) <= MaxLen * Cardinality(opened)

(* No piece of a line comes back twice: a truncation saves what it read    *)
(* before it clears the file, and another reader of the same file (of a    *)
(* later run of the same name) may write in between, but not truncate.     *)
NothingTwice ==
  \A f \in Files : \A i, j \in DOMAIN file[f] : i # j => file[f][i] # file[f][j]

(* No other reader has opened the stream's file so far. *)
First(s) == \A t \in Streams \ {s} : FileOf[t] = FileOf[s] => reader[t] = "none"

Before(x, y) == x.line < y.line \/ (x.line = y.line /\ x.at < y.at)

(* Until a later run of the same name opens it, a file has the lines of    *)
(* its process in order, each piece after those before it: a truncation    *)
(* cuts off what is old and puts the rest back where a later line follows  *)
(* it.  (With two readers a line that one writes between the other's clear *)
(* and rewrite ends up ahead of what was kept.)                            *)
InOrder ==
  \A s \in Streams :
    LET f == file[FileOf[s]] IN
    First(s) => \A i, j \in DOMAIN f : i < j => Before(f[i], f[j])

(* No later entry of the ring buffer is from the same stream, or from the  *)
(* daemon, as this one.                                                    *)
Newest(i) == \A k \in i + 1..Len(ring) : ring[k].stream # ring[i].stream

(* The ring buffer holds the latest lines of each stream, and the latest   *)
(* entries of the daemon, in order and without a gap: evicting the oldest  *)
(* entry never takes a newer one of somebody else.                         *)
RingLatest ==
  /\ Len(ring) <= RingSize
  /\ \A i \in DOMAIN ring :
       LET s == ring[i].stream IN
       /\ \A j \in i + 1..Len(ring) :
            ring[j].stream = s /\ (\A k \in i + 1..j - 1 : ring[k].stream # s)
              => ring[j].line = ring[i].line + 1
       /\ Newest(i) /\ s = Nil => ring[i].line = logged
       /\ Newest(i) /\ s # Nil /\ reader[s] \in {"await", "done"} \cup Trimming =>
            ring[i].line = Taken(s)

(* Whoever waits for the ring buffer gets it: a line that is in the pipe   *)
(* is taken out, unless the reader is aborted, or an I/O error or a        *)
(* poisoned mutex ended it (or the two mutexes cross: module Locks).       *)
PipeDrained ==
  \A s \in Streams :
    (pipe[s] # <<>> /\ reader[s] \notin {"none", "opened"}) ~>
      (pipe[s] = <<>> \/ reader[s] \in Finished \/ daemon # "up")

-----------------------------------------------------------------------------
(* What the repository says and the code does not keep.                    *)

(* logging.rs:33: "all logging by each process would go to a seperate      *)
(* file": a line that was just written there, without an error, is in it   *)
(* until a later line follows; at least its end, when it was truncated.    *)
LastLineInFile ==
  \A s \in Streams :
    LET f == file[FileOf[s]] IN
    Sole(s) /\ reader[s] = "await" /\ Taken(s) > 0 =>
      f # <<>> /\ f[Len(f)].line = Taken(s)
=============================================================================
