----------------------------- MODULE MCLogStream ----------------------------
(***************************************************************************)
(* Small instances of LogStream for TLC.                                   *)
(***************************************************************************)
EXTENDS LogStreamProperties

CONSTANTS
  theFile,    \* the file of all streams: runs of one name share it
  long,       \* the stream that has LongLines lines; the others have one
  LongLines

MCFileOf   == [s \in Streams |-> theFile]
MCMaxLines == [s \in Streams |-> IF s = long THEN LongLines ELSE 1]
=============================================================================
