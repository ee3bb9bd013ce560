----------------------------- MODULE LogStream ------------------------------
(***************************************************************************)
(* The output of managed processes: the reader task of each stream         *)
(* (src/src/threads.rs, async_truncate_stream_to_file), the log files and  *)
(* their truncation, and the ring buffer of recent entries                 *)
(* (src/src/core/logging.rs).                                              *)
(*                                                                         *)
(* A file is a sequence of cells, each a piece of a line; sizes are counted *)
(* in cells.  Files are written outside the ring buffer's mutex and        *)
(* truncated inside it.                                                    *)
(***************************************************************************)
EXTENDS Naturals, Sequences

CONSTANTS
  Streams,      \* output streams of processes, one reader task each
  Files,        \* log files
  FileOf,       \* the file of each stream: equal for two runs of one name
  Lengths,      \* lengths of lines, in cells
  MaxLen,       \* fmax_size: a file longer than this is truncated
  RingSize,     \* capacity of LogManager.glv
  MaxLines,     \* bound: lines written to each stream
  MaxLogs,      \* bound: entries the daemon itself logs
  PanicAborts,  \* TRUE: Cargo's release profile, a panic aborts the daemon
  IOErrors,     \* TRUE: reads, writes and truncations may fail
  Nil           \* no stream; in the ring, the daemon itself

ASSUME LogStreamAssumption ==
  /\ FileOf \in [Streams -> Files]
  /\ Lengths \subseteq Nat \ {0}
  /\ MaxLines \in [Streams -> Nat]
  /\ {MaxLen, MaxLogs} \subseteq Nat
  /\ RingSize \in Nat \ {0}
  /\ {PanicAborts, IOErrors} \subseteq BOOLEAN
  /\ Nil \notin Streams

VARIABLES
  daemon,    \* "up" or "aborted"
  sent,      \* lines the process has written to the stream
  source,    \* "open" until the process closes its end of the pipe
  pipe,      \* lengths of the lines in the pipe, unread
  file,      \* cells [stream, line, at] of each log file
  reader,    \* where the reader task is
  abort,     \* abort was called on the reader's join handle
  size,      \* curr_size of the reader
  kept,      \* what a truncation has read back
  lock,      \* holder of the mutex on the LogManager
  poisoned,  \* its holder has panicked
  ring,      \* LogManager.glv, newest last
  logged     \* entries the daemon itself has pushed

processVars == <<sent, source>>
readerVars  == <<reader, abort, size, kept>>
logVars     == <<lock, poisoned, ring, logged>>
vars == <<daemon, processVars, pipe, file, readerVars, logVars>>

Trimming == {"read", "clear", "rewrite"}
Finished == {"done", "aborted", "failed", "panicked"}
ReaderState == {"none", "opened", "await", "push", "report"} \cup Trimming \cup Finished

Cell  == [stream : Streams, line : Nat, at : Nat]
Entry == [stream : Streams \cup {Nil}, line : Nat]

TypeOK ==
  /\ daemon \in {"up", "aborted"}
  /\ sent \in [Streams -> Nat]
  /\ source \in [Streams -> {"open", "closed"}]
  /\ pipe \in [Streams -> Seq(Lengths)]
  /\ file \in [Files -> Seq(Cell)]
  /\ reader \in [Streams -> ReaderState]
  /\ abort \in [Streams -> BOOLEAN]
  /\ size \in [Streams -> Nat]
  /\ kept \in [Streams -> Seq(Cell)]
  /\ lock \in Streams \cup {Nil}
  /\ poisoned \in BOOLEAN
  /\ ring \in Seq(Entry)
  /\ logged \in Nat

Init ==
  /\ daemon = "up"
  /\ sent = [s \in Streams |-> 0]
  /\ source = [s \in Streams |-> "open"]
  /\ pipe = [s \in Streams |-> <<>>]
  /\ file = [f \in Files |-> <<>>]
  /\ reader = [s \in Streams |-> "none"]
  /\ abort = [s \in Streams |-> FALSE]
  /\ size = [s \in Streams |-> 0]
  /\ kept = [s \in Streams |-> <<>>]
  /\ lock = Nil
  /\ poisoned = FALSE
  /\ ring = <<>>
  /\ logged = 0

-----------------------------------------------------------------------------
Goto(s, l) == reader' = [reader EXCEPT ![s] = l]

(* The number of the line the reader took off the pipe last. *)
Taken(s) == sent[s] - Len(pipe[s])

(* Slip: a full buffer refuses the new entry. *)
PushWhenRoom(e) ==
  ring' = IF Len(ring) = RingSize THEN ring ELSE Append(ring, e)

(* LogManager::push: the buffer drops its oldest entry when it is full. *)
Push(e) ==
  LET all == Append(ring, e) IN
  ring' = IF Len(all) > RingSize THEN Tail(all) ELSE all

Panic == daemon' = IF PanicAborts THEN "aborted" ELSE daemon

-----------------------------------------------------------------------------
(* The process, and the tasks that manage it.                              *)

Produce(s, n) ==
  /\ daemon = "up" /\ source[s] = "open" /\ sent[s] < MaxLines[s]
  /\ sent' = [sent EXCEPT ![s] = @ + 1]
  /\ pipe' = [pipe EXCEPT ![s] = Append(@, n)]
  /\ UNCHANGED <<daemon, source, file, readerVars, logVars>>

Close(s) ==
  /\ daemon = "up" /\ source[s] = "open"
  /\ source' = [source EXCEPT ![s] = "closed"]
  /\ UNCHANGED <<daemon, sent, pipe, file, readerVars, logVars>>

(* ProcessLogger::new: the reader's counter starts from the file's length. *)
Open(s) ==
  /\ daemon = "up" /\ reader[s] = "none"
  /\ size' = [size EXCEPT ![s] = Len(file[FileOf[s]])]
  /\ Goto(s, "opened")
  /\ UNCHANGED <<daemon, processVars, pipe, file, abort, kept, logVars>>

(* logging_coordinator spawns the reader. *)
Spawn(s) ==
  /\ daemon = "up" /\ reader[s] = "opened"
  /\ Goto(s, "await")
  /\ UNCHANGED <<daemon, processVars, pipe, file, abort, size, kept, logVars>>

(* kill_tasks_by_pid, when the process is stopped or restarted. *)
Abort(s) ==
  /\ daemon = "up" /\ reader[s] \notin {"none", "opened"} \cup Finished
  /\ ~abort[s]
  /\ abort' = [abort EXCEPT ![s] = TRUE]
  /\ UNCHANGED <<daemon, processVars, pipe, file, reader, size, kept, logVars>>

(* ProcessManager::log, called by the handlers of commands.  They unwrap    *)
(* the lock: a poisoned one is theirs to panic on, and nothing is pushed.  *)
ManagerLog ==
  /\ daemon = "up" /\ lock = Nil /\ ~poisoned /\ logged < MaxLogs
  /\ Push([stream |-> Nil, line |-> logged + 1])
  /\ logged' = logged + 1
  /\ UNCHANGED <<daemon, processVars, pipe, file, readerVars, lock, poisoned>>

-----------------------------------------------------------------------------
(* The reader.                                                             *)

(* The abort is seen when the task next yields: while lines are ready it    *)
(* may go on.                                                              *)
Cancel(s) ==
  /\ daemon = "up" /\ reader[s] = "await" /\ abort[s]
  /\ Goto(s, "aborted")
  /\ UNCHANGED <<daemon, processVars, pipe, file, abort, size, kept, logVars>>

EndOfStream(s) ==
  /\ daemon = "up" /\ reader[s] = "await" /\ pipe[s] = <<>> /\ source[s] = "closed"
  /\ Goto(s, "done")
  /\ UNCHANGED <<daemon, processVars, pipe, file, abort, size, kept, logVars>>

(* next_line, then File::write in append mode.  The result of write is only *)
(* tested for an error: a short write counts in full.                      *)
Write(s) ==
  LET n == Head(pipe[s])
      cells == [k \in 1..n |-> [stream |-> s, line |-> Taken(s) + 1, at |-> k]]
  IN
  /\ daemon = "up" /\ reader[s] = "await" /\ pipe[s] # <<>>
  /\ pipe' = [pipe EXCEPT ![s] = Tail(@)]
  /\ \E m \in (IF IOErrors THEN 1..n ELSE {n}) :
       file' = [file EXCEPT ![FileOf[s]] = @ \o SubSeq(cells, 1, m)]
  /\ size' = [size EXCEPT ![s] = @ + n]
  /\ Goto(s, "push")
  /\ UNCHANGED <<daemon, processVars, abort, kept, logVars>>

WriteFails(s) ==
  /\ daemon = "up" /\ reader[s] = "await" /\ pipe[s] # <<>> /\ IOErrors
  /\ pipe' = [pipe EXCEPT ![s] = Tail(@)]
  /\ Goto(s, "report")
  /\ UNCHANGED <<daemon, processVars, file, abort, size, kept, logVars>>

(* Slip: the mutex is released before the file is truncated. *)
PushLineUnlocked(s) ==
  /\ daemon = "up" /\ reader[s] = "push" /\ lock = Nil /\ ~poisoned
  /\ Push([stream |-> s, line |-> Taken(s)])
  /\ Goto(s, IF size[s] <= MaxLen THEN "await" ELSE "read")
  /\ UNCHANGED <<daemon, processVars, pipe, file, abort, size, kept, lock, poisoned, logged>>

(* The entry goes to the ring buffer; truncate_file returns at once while  *)
(* the counter is within the limit, and otherwise runs under the same lock. *)
PushLine(s) ==
  /\ daemon = "up" /\ reader[s] = "push" /\ lock = Nil /\ ~poisoned
  /\ Push([stream |-> s, line |-> Taken(s)])
  /\ IF size[s] <= MaxLen
     THEN Goto(s, "await") /\ UNCHANGED lock
     ELSE Goto(s, "read") /\ lock' = s
  /\ UNCHANGED <<daemon, processVars, pipe, file, abort, size, kept, poisoned, logged>>

PushPoisoned(s) ==
  /\ daemon = "up" /\ reader[s] = "push" /\ lock = Nil /\ poisoned
  /\ Goto(s, "report")
  /\ UNCHANGED <<daemon, processVars, pipe, file, abort, size, kept, logVars>>

(* Seek to a quarter of the limit before the counted end; read to the end. *)
TrimRead(s) ==
  /\ daemon = "up" /\ reader[s] = "read"
  /\ LET old == file[FileOf[s]] IN
     kept' = [kept EXCEPT ![s] = SubSeq(old, size[s] - MaxLen \div 4 + 1, Len(old))]
  /\ Goto(s, "clear")
  /\ UNCHANGED <<daemon, processVars, pipe, file, abort, size, logVars>>

(* Slip: the counter is corrected by what the file loses, and forgets that  *)
(* another reader may have written since this one read.                    *)
TrimClearCorrects(s) ==
  /\ daemon = "up" /\ reader[s] = "clear"
  /\ size' = [size EXCEPT ![s] = @ - (Len(file[FileOf[s]]) - Len(kept[s]))]
  /\ file' = [file EXCEPT ![FileOf[s]] = <<>>]
  /\ Goto(s, "rewrite")
  /\ UNCHANGED <<daemon, processVars, pipe, abort, kept, logVars>>

(* Slip: the position is set back but the length is not. *)
TrimClearSeeks(s) ==
  /\ daemon = "up" /\ reader[s] = "clear"
  /\ Goto(s, "rewrite")
  /\ UNCHANGED <<daemon, processVars, pipe, file, abort, size, kept, logVars>>

(* set_len(0) *)
TrimClear(s) ==
  /\ daemon = "up" /\ reader[s] = "clear"
  /\ file' = [file EXCEPT ![FileOf[s]] = <<>>]
  /\ Goto(s, "rewrite")
  /\ UNCHANGED <<daemon, processVars, pipe, abort, size, kept, logVars>>

(* Slip: the guard outlives the loop's body. *)
TrimRewriteHolding(s) ==
  /\ daemon = "up" /\ reader[s] = "rewrite"
  /\ file' = [file EXCEPT ![FileOf[s]] = @ \o kept[s]]
  /\ kept' = [kept EXCEPT ![s] = <<>>]
  /\ Goto(s, "await")
  /\ UNCHANGED <<daemon, processVars, pipe, abort, size, logVars>>

(* write_all, in append mode; then the guard is dropped.  The counter keeps *)
(* its value.                                                              *)
TrimRewrite(s) ==
  /\ daemon = "up" /\ reader[s] = "rewrite"
  /\ file' = [file EXCEPT ![FileOf[s]] = @ \o kept[s]]
  /\ kept' = [kept EXCEPT ![s] = <<>>]
  /\ lock' = Nil
  /\ Goto(s, "await")
  /\ UNCHANGED <<daemon, processVars, pipe, abort, size, poisoned, ring, logged>>

(* A failed truncation panics with the mutex held. *)
TrimFails(s) ==
  /\ daemon = "up" /\ reader[s] \in Trimming /\ IOErrors
  /\ Panic
  /\ Goto(s, "panicked")
  /\ kept' = [kept EXCEPT ![s] = <<>>]
  /\ lock' = Nil
  /\ poisoned' = TRUE
  /\ UNCHANGED <<processVars, pipe, file, abort, size, ring, logged>>

(* The spawned task logs the error of its stream function, and unwraps. *)
Report(s) ==
  /\ daemon = "up" /\ reader[s] = "report" /\ lock = Nil
  /\ IF poisoned
     THEN /\ Panic
          /\ Goto(s, "panicked")
          /\ UNCHANGED <<ring, logged>>
     ELSE /\ Push([stream |-> Nil, line |-> logged + 1])
          /\ logged' = logged + 1
          /\ Goto(s, "failed")
          /\ UNCHANGED daemon
  /\ UNCHANGED <<processVars, pipe, file, abort, size, kept, lock, poisoned>>

-----------------------------------------------------------------------------
Start(s)   == Open(s) \/ Spawn(s)
Process(s) == (\E n \in Lengths : Produce(s, n)) \/ Close(s)
Trim(s)    == TrimRead(s) \/ TrimClear(s) \/ TrimRewrite(s)

(* What the scheduler obliges the reader to do: calls need not fail. *)
Reader(s) ==
  \/ Cancel(s) \/ EndOfStream(s) \/ Write(s)
  \/ PushLine(s) \/ PushPoisoned(s) \/ Trim(s) \/ Report(s)

Next ==
  \/ ManagerLog
  \/ \E s \in Streams :
       \/ Start(s) \/ Process(s) \/ Abort(s)
       \/ Reader(s) \/ WriteFails(s) \/ TrimFails(s)

Spec == Init /\ [][Next]_vars

(* tokio polls a reader whose pipe is readable.  The mutex is held for a   *)
(* truncation and then released, but std's Mutex is not fair: a reader gets *)
(* it if it keeps becoming free.  Other holders release it, too: that none  *)
(* of them waits for the task registry's mutex for ever is assumed (module *)
(* Locks: its state Crossed breaks this).                                  *)
Fairness ==
  \A s \in Streams :
    /\ WF_vars(Reader(s))
    /\ SF_vars(PushLine(s) \/ PushPoisoned(s) \/ Report(s))

FairSpec == Spec /\ Fairness
=============================================================================
