------------------------------ MODULE MCDaemon ------------------------------
(***************************************************************************)
(* Small instances of Daemon for TLC.  Clients are interchangeable, so one *)
(* assignment of a bag of commands to them stands for all.                 *)
(***************************************************************************)
EXTENDS DaemonProperties

CONSTANTS c1, c2, c3

Line(k1, k2, k3) ==
  [c \in Clients |-> CASE c = c1 -> k1 [] c = c2 -> k2 [] c = c3 -> k3]

(* Two shutdowns and the client that starts a successor in between; two     *)
(* clients that may each start a daemon, and one that reinitialises it.    *)
MCCommandLines ==
  {Line("start", "shutdown", "shutdown"), Line("start", "start", "force")}
=============================================================================
