------------------------------- MODULE Daemon -------------------------------
(***************************************************************************)
(* The client's connection to the daemon and the daemon's life             *)
(* (src/src/utils.rs): finding the socket, starting a daemon when nobody   *)
(* listens, binding, accepting, the handler of each connection, and the    *)
(* shutdown channel of capacity one.                                       *)
(*                                                                         *)
(* A client is one run of the program with one command.  What start, stop  *)
(* and stop_all do to processes is module Supervisor's.                    *)
(***************************************************************************)
EXTENDS Naturals, FiniteSets

CONSTANTS
  Clients,       \* runs of the client
  Daemons,       \* daemons that may come to exist, at most so many
  CommandLines,  \* what the clients may be run with
  AcceptErrors,  \* TRUE: accept may fail for good
  IOErrors,      \* TRUE: fork, daemonize and the runtime's start may fail
  PanicAborts,   \* TRUE: Cargo's release profile, a panic aborts the daemon
  NoDaemon

(* Start and Init; Init --force; Shutdown; and the others. *)
Commands == {"start", "force", "shutdown", "query"}

ASSUME DaemonAssumption ==
  /\ CommandLines \subseteq [Clients -> Commands]
  /\ IsFiniteSet(Clients)
  /\ Daemons # {}
  /\ {AcceptErrors, IOErrors, PanicAborts} \subseteq BOOLEAN
  /\ NoDaemon \notin Daemons

VARIABLES
  state,    \* of each daemon's listener
  chan,     \* messages in each daemon's shutdown channel
  sock,     \* the daemon that bound the socket file, if there is one
  pc,       \* where each client is
  cmd,      \* the command each client was run with
  conn,     \* the daemon each client is connected to
  handler,  \* where the daemon's handler of the client's connection is
  replied,  \* the handler has written its answer
  ran       \* history: how often each client's command was carried out

daemonVars     == <<state, chan, sock>>
clientVars     == <<pc, cmd, conn>>
connectionVars == <<handler, replied, ran>>
vars == <<daemonVars, clientVars, connectionVars>>

Running     == {"select", "accept", "fatal"}
DaemonState == {"none", "starting", "exited"} \cup Running
ClientLabel == {"connect", "split", "reconnect", "send", "read",
                "answered", "refused", "cut"}
Working     == {"sweep", "notify", "reply"}
HandlerState == {"none", "backlog", "accepted", "closed"} \cup Working

(* should_daemonize: Start and Init; of the queries, none. *)
Daemonizable == {"start", "force"}

TypeOK ==
  /\ state \in [Daemons -> DaemonState]
  /\ chan \in [Daemons -> 0..1]
  /\ sock \in Daemons \cup {NoDaemon}
  /\ pc \in [Clients -> ClientLabel]
  /\ cmd \in [Clients -> Commands]
  /\ conn \in [Clients -> Daemons \cup {NoDaemon}]
  /\ handler \in [Clients -> HandlerState]
  /\ replied \in [Clients -> BOOLEAN]
  /\ ran \in [Clients -> Nat]

(* The first client finds a daemon that runs, or none.  Which one it is does *)
(* not matter.                                                             *)
Init ==
  /\ sock \in {NoDaemon, CHOOSE d \in Daemons : TRUE}
  /\ state = [d \in Daemons |-> IF d = sock THEN "select" ELSE "none"]
  /\ chan = [d \in Daemons |-> 0]
  /\ pc = [c \in Clients |-> "connect"]
  /\ cmd \in CommandLines
  /\ conn = [c \in Clients |-> NoDaemon]
  /\ handler = [c \in Clients |-> "none"]
  /\ replied = [c \in Clients |-> FALSE]
  /\ ran = [c \in Clients |-> 0]

-----------------------------------------------------------------------------
Goto(c, l)   == pc' = [pc EXCEPT ![c] = l]
Become(d, s) == state' = [state EXCEPT ![d] = s]
Handle(c, h) == handler' = [handler EXCEPT ![c] = h]

(* Somebody accepts connections at the socket file. *)
Home == sock # NoDaemon /\ state[sock] \in Running

-----------------------------------------------------------------------------
(* The client (entry, split, send_task).                                   *)

Connect(c) ==
  /\ pc[c] \in {"connect", "reconnect"} /\ Home
  /\ conn' = [conn EXCEPT ![c] = sock]
  /\ Handle(c, "backlog")
  /\ Goto(c, "send")
  /\ UNCHANGED <<daemonVars, cmd, replied, ran>>

NobodyHome(c) ==
  /\ pc[c] = "connect" /\ ~Home
  /\ Goto(c, IF cmd[c] \in Daemonizable THEN "split" ELSE "refused")
  /\ UNCHANGED <<daemonVars, cmd, conn, connectionVars>>

Split(c) ==
  /\ pc[c] = "split"
  /\ \E d \in Daemons : state[d] = "none" /\ Become(d, "starting")
  /\ Goto(c, "reconnect")
  /\ UNCHANGED <<chan, sock, cmd, conn, connectionVars>>

(* A failed fork is ignored; it fails when no more daemons may exist.  *)
SplitFails(c) ==
  /\ pc[c] = "split"
  /\ IOErrors \/ \A d \in Daemons : state[d] # "none"
  /\ Goto(c, "reconnect")
  /\ UNCHANGED <<daemonVars, cmd, conn, connectionVars>>

(* After its 50 ms, which may be too few, the client tries once more. *)
ReconnectFails(c) ==
  /\ pc[c] = "reconnect" /\ ~Home
  /\ Goto(c, "refused")
  /\ UNCHANGED <<daemonVars, cmd, conn, connectionVars>>

(* Slip: the client's half is left open, and the daemon reads on. *)
SendUnclosed(c) ==
  /\ pc[c] = "send"
  /\ IF state[conn[c]] \in Running
     THEN Goto(c, "read") /\ Handle(c, "unclosed")
     ELSE Goto(c, "cut") /\ UNCHANGED handler
  /\ UNCHANGED <<daemonVars, cmd, conn, replied, ran>>

(* The command is written and the client's half of the connection closed. *)
Send(c) ==
  /\ pc[c] = "send"
  /\ Goto(c, IF state[conn[c]] \in Running THEN "read" ELSE "cut")
  /\ UNCHANGED <<daemonVars, cmd, conn, connectionVars>>

ReadReply(c) ==
  /\ pc[c] = "read" /\ replied[c]
  /\ Goto(c, "answered")
  /\ UNCHANGED <<daemonVars, cmd, conn, connectionVars>>

(* Slip: a lost answer makes the client connect and send again. *)
ReadEOFRetries(c) ==
  /\ pc[c] = "read" /\ ~replied[c]
  /\ state[conn[c]] \notin Running \/ handler[c] = "closed"
  /\ Goto(c, "reconnect")
  /\ UNCHANGED <<daemonVars, cmd, conn, connectionVars>>

(* The end of the stream, or a reset, without an answer. *)
ReadEOF(c) ==
  /\ pc[c] = "read" /\ ~replied[c]
  /\ state[conn[c]] \notin Running \/ handler[c] = "closed"
  /\ Goto(c, "cut")
  /\ UNCHANGED <<daemonVars, cmd, conn, connectionVars>>

-----------------------------------------------------------------------------
(* The daemon's start and its listener (split, daemon_init,                *)
(* daemon_listener).                                                       *)

(* Slip: the file is unlinked first, so that a stale one is no obstacle. *)
BindUnlinks(d) ==
  /\ state[d] = "starting"
  /\ sock' = d /\ Become(d, "select")
  /\ UNCHANGED <<chan, clientVars, connectionVars>>

(* bind fails when the file exists, whoever made it; the error is unwrapped. *)
Bind(d) ==
  /\ state[d] = "starting"
  /\ IF sock = NoDaemon
     THEN sock' = d /\ Become(d, "select")
     ELSE Become(d, "exited") /\ UNCHANGED sock
  /\ UNCHANGED <<chan, clientVars, connectionVars>>

BindFails(d) ==
  /\ state[d] = "starting" /\ IOErrors
  /\ Become(d, "exited")
  /\ UNCHANGED <<chan, sock, clientVars, connectionVars>>

(* select! is biased: the channel is polled before each accept. *)
Poll(d) ==
  /\ state[d] = "select" /\ chan[d] = 0
  /\ Become(d, "accept")
  /\ UNCHANGED <<chan, sock, clientVars, connectionVars>>

Wake(d) ==
  /\ state[d] = "accept" /\ chan[d] # 0
  /\ Become(d, "select")
  /\ UNCHANGED <<chan, sock, clientVars, connectionVars>>

Accept(d) ==
  /\ state[d] = "accept"
  /\ \E c \in Clients : conn[c] = d /\ handler[c] = "backlog" /\ Handle(c, "accepted")
  /\ Become(d, "select")
  /\ UNCHANGED <<chan, sock, clientVars, replied, ran>>

(* handle_connect_errcase runs in the listener itself.  Its errors that are *)
(* only logged change nothing.                                             *)
AcceptError(d) ==
  /\ state[d] = "accept" /\ AcceptErrors
  /\ Become(d, "fatal")
  /\ UNCHANGED <<chan, sock, clientVars, connectionVars>>

FatalSend(d) ==
  /\ state[d] = "fatal" /\ chan[d] = 0
  /\ chan' = [chan EXCEPT ![d] = 1]
  /\ Become(d, "select")
  /\ UNCHANGED <<sock, clientVars, connectionVars>>

(* Slip: the listener lets the handlers finish before it exits. *)
ExitWhenIdle(d) ==
  /\ state[d] = "select" /\ chan[d] # 0
  /\ \A c \in Clients : conn[c] = d => handler[c] \notin {"accepted"} \cup Working
  /\ Become(d, "exited")
  /\ UNCHANGED <<chan, sock, clientVars, connectionVars>>

(* process::exit, with every handler that is still at work. *)
Exit(d) ==
  /\ state[d] = "select" /\ chan[d] # 0
  /\ Become(d, "exited")
  /\ UNCHANGED <<chan, sock, clientVars, connectionVars>>

(* A handler or another task panics: see Supervisor. *)
Crash(d) ==
  /\ state[d] \in Running /\ PanicAborts
  /\ Become(d, "exited")
  /\ UNCHANGED <<chan, sock, clientVars, connectionVars>>

-----------------------------------------------------------------------------
(* The handler of one connection (handle_incoming, handle_system_cmd).     *)

(* Shutdown removes the socket file, whoever bound it, before stop_all. *)
ReadCommand(c) ==
  /\ handler[c] = "accepted" /\ state[conn[c]] \in Running /\ pc[c] = "read"
  /\ ran' = [ran EXCEPT ![c] = @ + 1]
  /\ sock' = IF cmd[c] = "shutdown" THEN NoDaemon ELSE sock
  /\ Handle(c, IF cmd[c] \in {"force", "shutdown"} THEN "sweep" ELSE "reply")
  /\ UNCHANGED <<state, chan, clientVars, replied>>

(* stop_all *)
Sweep(c) ==
  /\ handler[c] = "sweep" /\ state[conn[c]] \in Running
  /\ Handle(c, "notify")
  /\ UNCHANGED <<daemonVars, clientVars, replied, ran>>

(* Slip: a channel without a limit. *)
NotifyUnbounded(c) ==
  /\ handler[c] = "notify" /\ state[conn[c]] \in Running
  /\ chan' = [chan EXCEPT ![conn[c]] = @ + 1]
  /\ Handle(c, "reply")
  /\ UNCHANGED <<state, sock, clientVars, replied, ran>>

(* shutdown.send(()).await on channel(1) *)
Notify(c) ==
  /\ handler[c] = "notify" /\ state[conn[c]] \in Running /\ chan[conn[c]] = 0
  /\ chan' = [chan EXCEPT ![conn[c]] = 1]
  /\ Handle(c, "reply")
  /\ UNCHANGED <<state, sock, clientVars, replied, ran>>

(* The stream is dropped with the handler; its shutdown is never awaited. *)
Reply(c) ==
  /\ handler[c] = "reply" /\ state[conn[c]] \in Running
  /\ replied' = [replied EXCEPT ![c] = TRUE]
  /\ Handle(c, "closed")
  /\ UNCHANGED <<daemonVars, clientVars, ran>>

-----------------------------------------------------------------------------
Client(c) ==
  \/ Connect(c) \/ NobodyHome(c) \/ Split(c) \/ SplitFails(c)
  \/ ReconnectFails(c) \/ Send(c) \/ ReadReply(c) \/ ReadEOF(c)

Listener(d) == Bind(d) \/ Poll(d) \/ Wake(d) \/ Accept(d) \/ FatalSend(d) \/ Exit(d)
Fault(d)    == BindFails(d) \/ AcceptError(d) \/ Crash(d)
Handler(c)  == ReadCommand(c) \/ Sweep(c) \/ Notify(c) \/ Reply(c)

Next ==
  \/ \E d \in Daemons : Listener(d) \/ Fault(d)
  \/ \E c \in Clients : Client(c) \/ Handler(c)

Spec == Init /\ [][Next]_vars

(* The kernel runs the processes that it has begun to, and tokio polls the *)
(* listener and each handler that can go on.  Nobody has to run a client.  *)
(* As each of them takes finitely many steps, it is enough that one of     *)
(* them goes on.                                                           *)
Progress ==
  \/ \E d \in Daemons : Listener(d)
  \/ \E c \in Clients : Handler(c) \/ (pc[c] # "connect" /\ Client(c))

FairSpec == Spec /\ WF_vars(Progress)
=============================================================================
