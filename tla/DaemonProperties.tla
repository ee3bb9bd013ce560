-------------------------- MODULE DaemonProperties --------------------------
(***************************************************************************)
(* What client and daemon promise each other.                              *)
(***************************************************************************)
EXTENDS Daemon

(* The shutdown commands that daemon d has begun to carry out. *)
Told(d) == {c \in Clients : conn[c] = d /\ cmd[c] = "shutdown" /\ ran[c] > 0}

(* The listener awaits room in the channel that only itself empties. *)
Stuck(d) == d # NoDaemon /\ state[d] = "fatal" /\ chan[d] # 0

(* The client holds a connection to a daemon. *)
Connected(c) == pc[c] \in {"send", "read"}

-----------------------------------------------------------------------------
(* However many clients start daemons at once, one that runs can be reached *)
(* at the socket, unless it was told to shut down, or an older daemon was  *)
(* told so twice: the second time it removes the socket of its successor.  *)
ReachableUnlessTold ==
  \A d \in Daemons :
    state[d] \in Running /\ sock # d =>
      \/ Told(d) # {}
      \/ \E e \in Daemons \ {d} : Cardinality(Told(e)) > 1

(* Trying again after a failed connection never repeats a command: it is   *)
(* carried out at most once, not at all if the client found no daemon, and *)
(* once if the client has an answer.                                       *)
RanOnce ==
  \A c \in Clients :
    /\ ran[c] <= 1
    /\ pc[c] = "refused" => ran[c] = 0
    /\ pc[c] = "answered" => ran[c] = 1

(* A client that has connected ends, with an answer or the end of its      *)
(* connection, although the daemon may exit or be told to at any moment;   *)
(* unless the listener waits for itself.                                   *)
ClientEnds ==
  \A c \in Clients : Connected(c) ~> (~Connected(c) \/ Stuck(conn[c]))

(* A daemon that is told to shut down or to reinitialise exits, whatever    *)
(* other commands it is still working on; unless the listener waits for    *)
(* itself.                                                                 *)
ToldExits ==
  \A d \in Daemons :
    (\E c \in Clients : conn[c] = d /\ handler[c] \in {"sweep", "notify"}) ~>
      (state[d] = "exited" \/ Stuck(d))

-----------------------------------------------------------------------------
(* What the repository says and the code does not keep.                    *)

(* utils.rs:47: "Please note that at this stage, it is most likely running *)
(* and can be connected at" the socket: the second connection fails only   *)
(* while a daemon runs, or is about to.                                    *)
RunningAtThisStage ==
  [][\A c \in Clients : ReconnectFails(c) =>
       \E d \in Daemons : state[d] \in Running \cup {"starting"}]_vars
=============================================================================
