---------------------------- MODULE DaemonProofs ----------------------------
(***************************************************************************)
(* Proofs about Daemon, for any clients, command lines and daemons.        *)
(***************************************************************************)
EXTENDS DaemonProperties, FiniteSetTheorems, TLAPS

(* utils.rs: every variable keeps its type; in particular the shutdown      *)
(* channel never holds more than one message.                              *)
THEOREM DaemonTypeCorrect == Spec => []TypeOK
<1>1. Init => TypeOK
  BY DaemonAssumption DEF DaemonAssumption, Init, TypeOK, DaemonState, Running,
     ClientLabel, HandlerState, Working
<1>2. TypeOK /\ [Next]_vars => TypeOK'
  <2> SUFFICES ASSUME TypeOK, [Next]_vars PROVE TypeOK'
    OBVIOUS
  <2> USE DEF TypeOK, DaemonState, Running, ClientLabel, HandlerState, Working
  <2>1. ASSUME NEW d \in Daemons, Listener(d) PROVE TypeOK'
    <3>1. CASE Bind(d)
      BY <3>1 DEF Bind, Become, clientVars, connectionVars
    <3>2. CASE Poll(d) \/ Wake(d) \/ Exit(d)
      BY <3>2 DEF Poll, Wake, Exit, Become, clientVars, connectionVars
    <3>3. CASE Accept(d)
      BY <3>3 DEF Accept, Become, Handle, clientVars
    <3>4. CASE FatalSend(d)
      BY <3>4 DEF FatalSend, Become, clientVars, connectionVars
    <3> QED BY <2>1, <3>1, <3>2, <3>3, <3>4 DEF Listener
  <2>2. ASSUME NEW d \in Daemons, Fault(d) PROVE TypeOK'
    BY <2>2 DEF Fault, BindFails, AcceptError, Crash, Become, clientVars, connectionVars
  <2>3. ASSUME NEW c \in Clients, Client(c) PROVE TypeOK'
    <3>1. CASE Connect(c)
      BY <3>1 DEF Connect, Home, Goto, Handle, daemonVars
    <3>2. CASE NobodyHome(c) \/ SplitFails(c) \/ ReconnectFails(c)
      BY <3>2 DEF NobodyHome, SplitFails, ReconnectFails, Goto, daemonVars, connectionVars
    <3>3. CASE Split(c)
      BY <3>3 DEF Split, Become, Goto, connectionVars
    <3>4. CASE Send(c) \/ ReadReply(c) \/ ReadEOF(c)
      BY <3>4 DEF Send, ReadReply, ReadEOF, Goto, daemonVars, connectionVars
    <3> QED BY <2>3, <3>1, <3>2, <3>3, <3>4 DEF Client
  <2>4. ASSUME NEW c \in Clients, Handler(c) PROVE TypeOK'
    <3>1. CASE ReadCommand(c)
      BY <3>1 DEF ReadCommand, Handle, clientVars
    <3>2. CASE Sweep(c) \/ Reply(c)
      BY <3>2 DEF Sweep, Reply, Handle, daemonVars, clientVars
    <3>3. CASE Notify(c)
      <4>1. chan' \in [Daemons -> 0..1]
        BY <3>3, 1 \in 0..1 DEF Notify
      <4>2. handler' \in [Clients -> HandlerState]
        BY <3>3 DEF Notify, Handle
      <4> QED BY <3>3, <4>1, <4>2 DEF Notify, clientVars
    <3> QED BY <2>4, <3>1, <3>2, <3>3 DEF Handler
  <2>5. CASE UNCHANGED vars
    BY <2>5 DEF vars, daemonVars, clientVars, connectionVars
  <2> QED BY <2>1, <2>2, <2>3, <2>4, <2>5 DEF Next
<1> QED BY <1>1, <1>2, PTL DEF Spec

-----------------------------------------------------------------------------
(* A handler has carried out its command when it is at work, and answers    *)
(* last; a client has a handler once it is connected.                      *)
HandlerOK ==
  \A c \in Clients :
    /\ ran[c] = IF handler[c] \in {"none", "backlog", "accepted"} THEN 0 ELSE 1
    /\ replied[c] => handler[c] = "closed"
    /\ pc[c] \in {"connect", "split", "reconnect", "refused"} => handler[c] = "none"
    /\ pc[c] = "answered" => replied[c]
    /\ handler[c] # "none" => conn[c] \in Daemons

(* Every step of clients, listeners and handlers keeps HandlerOK. *)
LEMMA HandlerStep ==
  ASSUME TypeOK, HandlerOK, [Next]_vars
  PROVE  HandlerOK'
<1> USE DEF TypeOK, HandlerOK
<1>1. ASSUME NEW d \in Daemons, Listener(d) \/ Fault(d) PROVE HandlerOK'
  <2>1. CASE Accept(d)
    BY <2>1 DEF Accept, Handle, clientVars
  <2>2. CASE UNCHANGED <<clientVars, connectionVars>>
    BY <2>2 DEF clientVars, connectionVars
  <2> QED BY <1>1, <2>1, <2>2 DEF Listener, Fault, Bind, Poll, Wake, FatalSend, Exit,
             BindFails, AcceptError, Crash
<1>2. ASSUME NEW c \in Clients, Client(c) PROVE HandlerOK'
  <2>1. CASE Connect(c)
    BY <2>1 DEF Connect, Home, Goto, Handle
  <2>2. CASE NobodyHome(c) \/ Split(c) \/ SplitFails(c) \/ ReconnectFails(c)
    BY <2>2 DEF NobodyHome, Split, SplitFails, ReconnectFails, Goto, connectionVars
  <2>3. CASE Send(c) \/ ReadReply(c) \/ ReadEOF(c)
    BY <2>3 DEF Send, ReadReply, ReadEOF, Goto, connectionVars
  <2> QED BY <1>2, <2>1, <2>2, <2>3 DEF Client
<1>3. ASSUME NEW c \in Clients, Handler(c) PROVE HandlerOK'
  <2>1. CASE ReadCommand(c)
    BY <2>1 DEF ReadCommand, Handle, clientVars
  <2>2. CASE Sweep(c) \/ Notify(c)
    BY <2>2 DEF Sweep, Notify, Handle, clientVars
  <2>3. CASE Reply(c)
    BY <2>3 DEF Reply, Handle, clientVars
  <2> QED BY <1>3, <2>1, <2>2, <2>3 DEF Handler
<1>4. CASE UNCHANGED vars
  BY <1>4 DEF vars, clientVars, connectionVars
<1> QED BY <1>1, <1>2, <1>3, <1>4 DEF Next

(* entry and send_task: connecting again never repeats a command, a client  *)
(* that found no daemon has run none, and one with an answer has run its.  *)
THEOREM RanOnceHolds == Spec => []RanOnce
<1>1. Init => HandlerOK
  BY DEF Init, HandlerOK
<1>2. TypeOK /\ HandlerOK /\ [Next]_vars => HandlerOK'
  BY HandlerStep
<1>3. HandlerOK => RanOnce
  BY DEF HandlerOK, RanOnce
<1> QED BY <1>1, <1>2, <1>3, DaemonTypeCorrect, PTL DEF Spec

-----------------------------------------------------------------------------
(* Commands are never taken back, and a connection stays with its daemon.  *)
LEMMA ToldGrows ==
  ASSUME TypeOK, HandlerOK, [Next]_vars, NEW d \in Daemons
  PROVE  Told(d) \subseteq Told(d)'
<1> USE DEF TypeOK, HandlerOK, Told
<1>1. ASSUME NEW e \in Daemons, Listener(e) \/ Fault(e) PROVE Told(d) \subseteq Told(d)'
  BY <1>1 DEF Listener, Fault, Bind, Poll, Wake, Accept, FatalSend, Exit, BindFails,
     AcceptError, Crash, clientVars, connectionVars
<1>2. ASSUME NEW c \in Clients, Client(c) PROVE Told(d) \subseteq Told(d)'
  <2>1. CASE Connect(c)
    BY <2>1 DEF Connect
  <2> QED BY <1>2, <2>1 DEF Client, NobodyHome, Split, SplitFails, ReconnectFails, Send,
             ReadReply, ReadEOF, connectionVars
<1>3. ASSUME NEW c \in Clients, Handler(c) PROVE Told(d) \subseteq Told(d)'
  BY <1>3 DEF Handler, ReadCommand, Sweep, Notify, Reply, clientVars
<1>4. CASE UNCHANGED vars
  BY <1>4 DEF vars, clientVars, connectionVars
<1> QED BY <1>1, <1>2, <1>3, <1>4 DEF Next

(* There are finitely many clients, so finitely many commands. *)
LEMMA ToldFinite ==
  ASSUME NEW d PROVE IsFiniteSet(Told(d)) /\ Cardinality(Told(d)) \in Nat
BY DaemonAssumption, FS_Subset, FS_CardinalityType DEF DaemonAssumption, Told

(* A set with two members has more than one. *)
LEMMA MoreThanOne ==
  ASSUME NEW S, IsFiniteSet(S), NEW b \in S, NEW c \in S, b # c
  PROVE  Cardinality(S) > 1
<1>1. Cardinality(S) # 0
  BY FS_EmptySet
<1>2. Cardinality(S) # 1
  BY FS_Singleton
<1> QED BY <1>1, <1>2, FS_CardinalityType

(* A daemon that was told twice stays so. *)
LEMMA TwiceStays ==
  ASSUME TypeOK, HandlerOK, [Next]_vars, NEW d \in Daemons, Cardinality(Told(d)) > 1
  PROVE  Cardinality(Told(d)') > 1
<1>1. IsFiniteSet(Told(d)')
  BY DaemonAssumption, FS_Subset DEF DaemonAssumption, Told
<1>2. /\ Cardinality(Told(d)) \in Nat
      /\ Cardinality(Told(d)') \in Nat
      /\ Cardinality(Told(d)) <= Cardinality(Told(d)')
  BY <1>1, ToldGrows, ToldFinite, FS_Subset, FS_CardinalityType
<1> QED BY <1>2

(* What keeps a daemon without the socket reachable or accounted for.  *)
Accounted(d) ==
  \/ Told(d) # {}
  \/ \E e \in Daemons \ {d} : Cardinality(Told(e)) > 1

(* What accounts for a lost socket is never undone. *)
LEMMA AccountedStays ==
  ASSUME TypeOK, HandlerOK, [Next]_vars, NEW d \in Daemons, Accounted(d)
  PROVE  Accounted(d)'
<1>1. CASE Told(d) # {}
  BY <1>1, ToldGrows DEF Accounted
<1>2. ASSUME NEW e \in Daemons \ {d}, Cardinality(Told(e)) > 1 PROVE Accounted(d)'
  BY <1>2, TwiceStays DEF Accounted
<1> QED BY <1>1, <1>2 DEF Accounted

(* A daemon loses its socket to a shutdown of its own, or of a daemon that   *)
(* had lost the socket before: which was accounted for, so this is at least *)
(* the second command, or the account passes on.                           *)
LEMMA ReachableStep ==
  ASSUME TypeOK, HandlerOK, ReachableUnlessTold, [Next]_vars
  PROVE  ReachableUnlessTold'
<1> SUFFICES ASSUME NEW d \in Daemons, state'[d] \in Running, sock' # d
             PROVE  Accounted(d)'
  BY DEF ReachableUnlessTold, Accounted
<1>1. CASE state[d] \in Running /\ sock # d
  BY <1>1, AccountedStays DEF ReachableUnlessTold, Accounted
<1>2. CASE state[d] \in Running /\ sock = d
  <2>1. PICK c \in Clients : ReadCommand(c) /\ cmd[c] = "shutdown"
    <3>1. sock' # sock
      BY <1>2
    <3>2. ASSUME NEW e \in Daemons, Bind(e) PROVE FALSE
      BY <1>2, <3>1, <3>2, DaemonAssumption DEF Bind, DaemonAssumption
    <3> QED BY <3>1, <3>2 DEF Next, Listener, Fault, Client, Handler, Poll, Wake, Accept,
               FatalSend, Exit, BindFails, AcceptError, Crash, Connect, NobodyHome, Split,
               SplitFails, ReconnectFails, Send, ReadReply, ReadEOF, ReadCommand, Sweep,
               Notify, Reply, daemonVars, vars
  <2>2. PICK e \in Daemons : /\ state[e] \in Running /\ e = conn[c]
                             /\ c \notin Told(e) /\ c \in Told(e)'
    <3>1. pc[c] = "read" /\ handler[c] = "accepted" /\ state[conn[c]] \in Running
      BY <2>1 DEF ReadCommand
    <3>2. conn[c] \in Daemons /\ ran[c] = 0
      BY <3>1 DEF HandlerOK
    <3>3. ran'[c] = 1 /\ cmd' = cmd /\ conn' = conn
      BY <2>1, <3>2 DEF ReadCommand, clientVars, TypeOK
    <3> QED BY <2>1, <3>1, <3>2, <3>3 DEF Told
  <2>3. CASE e = d
    BY <2>2, <2>3 DEF Accounted
  <2>4. CASE e # d
    <3>1. Accounted(e)
      BY <1>2, <2>2, <2>4 DEF ReachableUnlessTold, Accounted
    <3>2. ASSUME NEW b \in Told(e) PROVE Accounted(d)'
      <4>1. b \in Told(e)' /\ b # c
        BY <2>2, <3>2, ToldGrows
      <4>2. Cardinality(Told(e)') > 1
        <5>1. IsFiniteSet(Told(e)')
          BY DaemonAssumption, FS_Subset DEF DaemonAssumption, Told
        <5> QED BY <2>2, <4>1, <5>1, MoreThanOne
      <4> QED BY <2>4, <4>2 DEF Accounted
    <3>3. ASSUME NEW x \in Daemons \ {e}, Cardinality(Told(x)) > 1
          PROVE  Accounted(d)'
      <4>1. CASE x # d
        BY <3>3, <4>1, TwiceStays DEF Accounted
      <4>2. CASE x = d
        <5>1. Told(d) # {}
          BY <3>3, <4>2, FS_EmptySet
        <5> QED BY <5>1, ToldGrows DEF Accounted
      <4> QED BY <4>1, <4>2
    <3> QED BY <3>1, <3>2, <3>3 DEF Accounted
  <2> QED BY <2>3, <2>4
<1>3. CASE state[d] \notin Running
  <2>1. ASSUME NEW e \in Daemons, Listener(e) \/ Fault(e), e # d PROVE FALSE
    BY <1>3, <2>1 DEF Listener, Fault, Bind, Poll, Wake, Accept, FatalSend, Exit, BindFails,
       AcceptError, Crash, Become, TypeOK
  <2>2. ASSUME NEW c \in Clients, Client(c) \/ Handler(c) PROVE FALSE
    <3>1. CASE Split(c)
      BY <1>3, <3>1 DEF Split, Become, Running, TypeOK
    <3> QED BY <1>3, <2>2, <3>1 DEF Client, Handler, Connect, NobodyHome, SplitFails,
               ReconnectFails, Send, ReadReply, ReadEOF, ReadCommand, Sweep, Notify,
               Reply, daemonVars
  <2>3. CASE Listener(d) \/ Fault(d)
    BY <1>3, <2>3 DEF Listener, Fault, Bind, Poll, Wake, Accept, FatalSend, Exit, BindFails,
       AcceptError, Crash, Become, Running, TypeOK
  <2> QED BY <1>3, <2>1, <2>2, <2>3 DEF Next, vars, daemonVars
<1> QED BY <1>1, <1>2, <1>3

(* daemon_init, handle_system_cmd: a running daemon can be reached at the   *)
(* socket, unless it was told to shut down or an older one was told twice. *)
THEOREM ReachableUnlessToldHolds == Spec => []ReachableUnlessTold
<1>1. Init => HandlerOK /\ ReachableUnlessTold
  BY DEF Init, HandlerOK, ReachableUnlessTold, Running
<1>2. TypeOK /\ HandlerOK /\ ReachableUnlessTold /\ [Next]_vars
        => (HandlerOK /\ ReachableUnlessTold)'
  BY HandlerStep, ReachableStep
<1> QED BY <1>1, <1>2, DaemonTypeCorrect, PTL DEF Spec
=============================================================================
