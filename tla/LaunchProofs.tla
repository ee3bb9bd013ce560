---------------------------- MODULE LaunchProofs ----------------------------
(***************************************************************************)
(* Proofs about Launch, for any clients and any requests.                  *)
(***************************************************************************)
EXTENDS LaunchProperties, SequenceTheorems, TLAPS

-----------------------------------------------------------------------------
(* The conversions of config.rs and linux.rs.                              *)

(* The cgroup's values are percentages and amounts of memory, whatever the *)
(* texts of the request: what does not parse never gets through.           *)
LEMMA LimitsType ==
  ASSUME NEW r \in Request
  PROVE  Cgroup(LimitsOf(r)) \in Limits
<1> DEFINE ty == [cpu : Priorities, mem : Memory]
<1>1. \A p : ResourcesFromProfile(p) \in ty
  BY DEF ResourcesFromProfile, DefaultLimits, Priorities, Memory, Unlimited
<1>2. ASSUME NEW limits \in ty, NEW res, res.cpu \in Option(Priorities), res.mem \in Option(Memory)
      PROVE  Overridden(limits, res) \in ty
  BY <1>2 DEF Overridden, Given, Option
<1>3. ASSUME r \in CliRequest PROVE LimitsOf(r) \in ty
  <2>1. r.via = "cli" /\ r.resources.cpu \in Option(Priorities) \cup {Garbage}
        /\ r.resources.mem \in Option(Memory) \cup {Garbage}
    BY <1>3 DEF CliRequest
  <2>2. ParsedCpu(r.resources.cpu) \in Option(Priorities) /\ Parsed(r.resources.mem) \in Option(Memory)
    BY <2>1 DEF ParsedCpu, Parsed, Option, Priorities
  <2> DEFINE opt == [cpu |-> ParsedCpu(r.resources.cpu), mem |-> Parsed(r.resources.mem)]
  <2>3. LimitsOf(r) = Overridden(ResourcesFromProfile(r.resources.profile), opt)
    BY <2>1 DEF LimitsOf, LimitsFromArgs
  <2>4. opt.cpu \in Option(Priorities) /\ opt.mem \in Option(Memory)
    BY <2>2
  <2> HIDE DEF opt
  <2> QED BY <1>1, <1>2, <2>3, <2>4
<1>4. ASSUME r \in TomlRequest PROVE LimitsOf(r) \in ty
  <2>1. r.via # "cli" /\ r.resources.cpu \in Option(Priorities)
        /\ r.resources.mem \in Option(Memory)
    BY <1>4 DEF TomlRequest
  <2>2. DefaultLimits \in ty
    BY DEF DefaultLimits, Priorities, Memory, Unlimited
  <2>3. LimitsFromToml(r) \in ty
    BY <1>1, <1>2, <2>1, <2>2 DEF LimitsFromToml
  <2> QED BY <2>1, <2>3 DEF LimitsOf
<1>5. LimitsOf(r) \in ty
  BY <1>3, <1>4 DEF Request
<1>6. \A p \in Priorities : CpuQuota(p) \in {Unlimited} \cup 1..100
  BY DEF CpuQuota, Priorities, Unlimited
<1> QED BY <1>5, <1>6 DEF Cgroup, Limits

(* A policy names fields of SecurityPolicy, and a filter calls. *)
LEMMA FilterType ==
  ASSUME NEW r \in Request
  PROVE  Filter(PolicyOf(r)) \in SUBSET Calls
<1>1. \A f \in Flags : Rules(f) \subseteq Calls
  BY DEF Flags, Rules, Calls, Network, FsWrite, FsRead, Open, ProcCreation, ProcControl,
     Clone, Ipc, FileIpc, System
<1>2. \A p \in Profiles : SecurityFromProfile[p] \subseteq Flags
  BY DEF SecurityFromProfile, DefaultPolicy, Profiles, Flags
<1>3. Given(r.profile, "Default") \in Profiles
  BY DEF Request, CliRequest, TomlRequest, Given, Option, Profiles
<1>4. PolicyOf(r) \subseteq Flags
  BY <1>2, <1>3 DEF PolicyOf, PolicyFromArgs, PolicyFromToml, CliOn, TomlKeys
<1> QED BY <1>1, <1>4 DEF Filter

(* A policy is what its request asks for, by whatever way it came, but for *)
(* no_fs.                                                                  *)
LEMMA PolicyIsAsked ==
  ASSUME NEW r \in Request
  PROVE  PolicyOf(r) = Asked(r) \ {"no_fs"}
<1> DEFINE base == SecurityFromProfile[Given(r.profile, "Default")]
<1>1. base = Described(r.profile) \cup {"no_sysman"}
  <2>1. CASE r.profile = NotGiven
    BY <2>1, ConfinementAssumption
    DEF ConfinementAssumption, Described, SecurityFromProfile, DefaultPolicy, Given, Profiles
  <2>2. CASE r.profile \in Profiles
    BY <2>2, ConfinementAssumption
    DEF ConfinementAssumption, Described, SecurityFromProfile, DefaultPolicy, Given, Profiles
  <2> QED BY <2>1, <2>2 DEF Request, CliRequest, TomlRequest, Option
<1>2. base \subseteq Flags \ {"no_fs"}
  <2>1. Given(r.profile, "Default") \in Profiles
    BY DEF Request, CliRequest, TomlRequest, Given, Option, Profiles
  <2> QED BY <2>1 DEF SecurityFromProfile, DefaultPolicy, Profiles, Flags
<1> HIDE DEF base
<1>3. Asked(r) = {f \in Flags : f \in r.on \/ (f \notin r.off /\ f \in base)}
  BY <1>1 DEF Asked
<1>4. CASE r \in CliRequest
  <2>1. PolicyOf(r) = (base \cup (r.on \cap CliOn)) \ (r.off \cap CliOff)
    BY <1>4 DEF CliRequest, PolicyOf, PolicyFromArgs, base
  <2>2. r.on \subseteq Flags \ {"no_fs", "no_sysman"} /\ r.off \subseteq {"no_sysman"}
    BY <1>4 DEF CliRequest, CliOn, CliOff
  <2> QED BY <1>2, <1>3, <2>1, <2>2 DEF CliOn, CliOff
<1>5. CASE r \in TomlRequest
  <2>1. PolicyOf(r) = (base \cup (r.on \cap TomlKeys)) \ (r.off \cap TomlKeys)
    BY <1>5 DEF TomlRequest, PolicyOf, PolicyFromToml, base
  <2>2. r.on \subseteq Flags /\ r.off \subseteq Flags /\ r.on \cap r.off = {}
    BY <1>5 DEF TomlRequest
  <2> QED BY <1>2, <1>3, <2>1, <2>2 DEF TomlKeys
<1> QED BY <1>4, <1>5 DEF Request

(* The filter denies what was asked for, but for the two restrictions that *)
(* are not enforced, and nothing else; it leaves execve and read alone.    *)
LEMMA FilterConfines ==
  ASSUME NEW r \in Request
  PROVE  /\ Forbidden(r) \subseteq Filter(PolicyOf(r))
         /\ Filter(PolicyOf(r)) \subseteq UNION {Rules(f) : f \in Asked(r) \ {"no_fs"}}
         /\ {"execve", "read"} \cap Filter(PolicyOf(r)) = {}
<1>1. Filter(PolicyOf(r)) = UNION {Rules(f) : f \in Asked(r) \ {"no_fs"}}
  BY PolicyIsAsked DEF Filter
<1>2. Asked(r) \subseteq Flags
  BY DEF Asked
<1>3. \A f \in Flags \ Unenforced : Denies(f) \subseteq Rules(f)
  BY DEF Unenforced, Denies, Flags, Rules, Network, FsWrite, ProcCreation, ProcControl, Clone, Ipc,
     FileIpc, System
<1>4. \A f \in Flags \ {"no_fs"} : {"execve", "read"} \cap Rules(f) = {}
  BY DEF Flags, Rules, Network, FsWrite, Open, ProcCreation, ProcControl, Clone, Ipc, FileIpc, System
<1>5. Forbidden(r) \subseteq UNION {Rules(f) : f \in Asked(r) \ {"no_fs"}}
  BY <1>2, <1>3 DEF Forbidden, Enforced, Unenforced
<1> QED BY <1>1, <1>2, <1>4, <1>5

(* config.rs, test_cli_and_toml_equivalence: the two ways agree. *)
LEMMA SamePolicy ==
  ASSUME NEW r \in CliRequest
  PROVE  PolicyOf(r) = PolicyFromToml(AsToml(r))
<1>1. r.via = "cli" /\ r.on \subseteq CliOn /\ r.off \subseteq CliOff
  BY DEF CliRequest
<1>2. AsToml(r).profile = r.profile /\ AsToml(r).on = r.on /\ AsToml(r).off = r.off
  BY DEF AsToml, CliRequest
<1>3. CliOn \subseteq TomlKeys /\ CliOff \subseteq TomlKeys
  BY DEF CliOn, CliOff, TomlKeys, Flags
<1>4. r.on \cap CliOn = r.on \cap TomlKeys /\ r.off \cap CliOff = r.off \cap TomlKeys
  BY <1>1, <1>3
<1> QED BY <1>1, <1>2, <1>4 DEF PolicyOf, PolicyFromArgs, PolicyFromToml

LEMMA SameLimits ==
  ASSUME NEW r \in CliRequest,
         r.resources = NoResources \/ r.resources.profile # NotGiven,
         r.resources.cpu # "Lowest",
         Garbage \notin {r.resources.cpu, r.resources.mem}
  PROVE  LimitsOf(r) = LimitsFromToml(AsToml(r))
<1>1. AsToml(r).resources = r.resources /\ r.via = "cli"
  BY DEF AsToml, CliRequest
<1>2. ParsedCpu(r.resources.cpu) = r.resources.cpu /\ Parsed(r.resources.mem) = r.resources.mem
  BY DEF ParsedCpu, Parsed
<1>3. LimitsOf(r) = Overridden(ResourcesFromProfile(r.resources.profile), r.resources)
  BY <1>1, <1>2 DEF LimitsOf, LimitsFromArgs, Overridden
<1>4. CASE r.resources = NoResources
  <2>1. ResourcesFromProfile(NotGiven) = DefaultLimits
    BY ConfinementAssumption DEF ConfinementAssumption, ResourcesFromProfile, ResourceProfiles
  <2>2. Overridden(DefaultLimits, NoResources) = DefaultLimits
    BY DEF Overridden, NoResources, Given, DefaultLimits
  <2> QED BY <1>1, <1>3, <1>4, <2>1, <2>2 DEF LimitsFromToml, NoResources
<1>5. CASE r.resources # NoResources
  BY <1>1, <1>3, <1>5 DEF LimitsFromToml, Given
<1> QED BY <1>4, <1>5

-----------------------------------------------------------------------------
(* The inductive invariant: for each client, how far its handler is says   *)
(* who holds its connection, what was answered and what its child may be.  *)

Says(s, a) == \E i \in 1..Len(s) : s[i] = a

InSetup(c) == child[c] \in {"redirect", "chdir", "cgroup", "filter", "exec"}

Coherent(c) ==
  /\ handler[c] \in {"idle", "accepted", "piped"} => child[c] = "none" /\ replies[c] = <<>>
  /\ handler[c] # "idle" => request[c] \in Requests[c]
  /\ child[c] \in {"exec", "running"} => filter[c] = Filter(PolicyOf(request[c]))
  /\ child[c] \in {"filter", "exec", "running"} => cgroup[c] = Cgroup(LimitsOf(request[c]))
  /\ daemon = "up" /\ handler[c] \notin {"idle", "done"} => Daemon \in conn[c]
  /\ InSetup(c) => c \in conn[c]
  /\ c \in registered => \/ handler[c] = "started"
                         \/ handler[c] = "done" /\ Says(replies[c], "started")
  /\ handler[c] \in {"forked", "setup", "started"} \/ Says(replies[c], "started") => child[c] # "none"
  /\ PanicAborts /\ child[c] = "copy" => Says(replies[c], "error")

LaunchInv == TypeOK /\ \A c \in Clients : Coherent(c)

LEMMA SaysAppend ==
  ASSUME NEW s \in Seq(Answer), NEW a \in Answer
  PROVE  /\ Append(s, a) \in Seq(Answer)
         /\ \A b : Says(Append(s, a), b) <=> Says(s, b) \/ a = b
  BY DEF Says

LEMMA StageNames ==
  /\ ChildState = {"none", "running", "copy", "dead", "redirect", "chdir", "cgroup", "filter", "exec"}
  /\ {Stages[i] : i \in 1..4} = {"redirect", "chdir", "cgroup", "filter"}
  /\ Stages[1] = "redirect"
<1>1. {Stages[i] : i \in 1..5} = {"redirect", "chdir", "cgroup", "filter", "exec"}
  BY DEF Stages
<1>2. {Stages[i] : i \in 1..4} = {"redirect", "chdir", "cgroup", "filter"}
  BY DEF Stages
<1> QED BY <1>1, <1>2 DEF ChildState, Stages

Holders == [Clients -> SUBSET Procs]

(* Sharing and closing descriptors: who holds what afterwards. *)
LEMMA InheritedIs ==
  ASSUME NEW h \in Holders, NEW c \in Clients
  PROVE  /\ Inherited(h, c) \in Holders
         /\ \A d \in Clients : h[d] \subseteq Inherited(h, c)[d]
         /\ Daemon \in h[c] => c \in Inherited(h, c)[c]
  BY DEF Inherited, Holders, Procs

LEMMA ReleasedIs ==
  ASSUME NEW h \in Holders, NEW p
  PROVE  /\ Released(h, p) \in Holders
         /\ \A d \in Clients : Released(h, p)[d] = h[d] \ {p}
  BY DEF Released, Holders

LEMMA DroppedIs ==
  ASSUME NEW h \in Holders, NEW c \in Clients, NEW p
  PROVE  /\ Dropped(h, c, p) \in Holders
         /\ \A d \in Clients : Dropped(h, c, p)[d] = IF d = c THEN h[d] \ {p} ELSE h[d]
  BY DEF Dropped, Holders

LEMMA LaunchInit == Init => LaunchInv
<1> SUFFICES ASSUME Init PROVE LaunchInv
  OBVIOUS
<1>1. TypeOK
  <2>1. replies \in [Clients -> Seq(Answer)]
    <3>1. <<>> \in Seq(Answer)
      OBVIOUS
    <3> QED BY <3>1 DEF Init
  <2>2. conn \in Holders /\ wr \in Holders /\ rd \in Holders
    BY DEF Init, Holders
  <2>3. /\ handler \in [Clients -> HandlerState] /\ child \in [Clients -> ChildState]
        /\ reader \in [Clients -> {"none", "reading", "ended"}] /\ filter \in [Clients -> SUBSET Calls]
    BY StageNames DEF Init, HandlerState
  <2>4. request \in [Clients -> Request \cup {NotGiven}]
    BY DEF Init
  <2>5. cgroup \in [Clients -> Limits \cup {NotGiven}]
    BY DEF Init
  <2> QED BY <2>1, <2>2, <2>3, <2>4, <2>5 DEF Init, TypeOK, Holders
<1>2. \A a : ~Says(<<>>, a)
  BY DEF Says
<1>3. ASSUME NEW c \in Clients PROVE Coherent(c)
  BY <1>2, StageNames DEF Init, Coherent, InSetup
<1> QED BY <1>1, <1>3 DEF LaunchInv

LEMMA LaunchStep == LaunchInv /\ [Next]_vars => LaunchInv'
<1> SUFFICES ASSUME LaunchInv, [Next]_vars PROVE LaunchInv'
  OBVIOUS
<1> USE LaunchAssumption DEF LaunchAssumption
<1>t. TypeOK
  BY DEF LaunchInv
<1>c. \A d \in Clients : Coherent(d)
  BY DEF LaunchInv
<1>k. /\ handler \in [Clients -> HandlerState]
      /\ child \in [Clients -> ChildState]
      /\ registered \subseteq Clients
      /\ DOMAIN replies = Clients /\ DOMAIN request = Clients /\ DOMAIN filter = Clients /\ DOMAIN cgroup = Clients
  BY <1>t DEF TypeOK
<1>h. conn \in Holders /\ wr \in Holders /\ rd \in Holders
  BY <1>t DEF TypeOK, Holders
<1>r. replies \in [Clients -> Seq(Answer)]
  BY <1>t DEF TypeOK
<1>s. ASSUME NEW c \in Clients, NEW a \in Answer, replies' = [replies EXCEPT ![c] = Append(@, a)]
      PROVE  /\ replies' \in [Clients -> Seq(Answer)]
             /\ \A d \in Clients : \A b : Says(replies'[d], b) <=> Says(replies[d], b) \/ (d = c /\ a = b)
  <2>1. Append(replies[c], a) \in Seq(Answer)
        /\ \A b : Says(Append(replies[c], a), b) <=> Says(replies[c], b) \/ a = b
    BY <1>r, SaysAppend
  <2>2. \A d \in Clients : replies'[d] = IF d = c THEN Append(replies[c], a) ELSE replies[d]
    BY <1>s, <1>k
  <2>3. replies' \in [Clients -> Seq(Answer)]
    BY <1>s, <1>r, <2>1
  <2>4. ASSUME NEW d \in Clients, NEW b
        PROVE  Says(replies'[d], b) <=> Says(replies[d], b) \/ (d = c /\ a = b)
    <3>1. CASE d = c
      BY <2>1, <2>2, <3>1
    <3>2. CASE d # c
      BY <2>2, <3>2
    <3> QED BY <3>1, <3>2
  <2> QED BY <2>3, <2>4
<1>1. ASSUME NEW c \in Clients, Accept(c) PROVE LaunchInv'
  <2>h. conn' \in Holders /\ wr' \in Holders /\ rd' \in Holders
    BY <1>1, <1>h DEF Accept, Holders, Procs
  <2>1. TypeOK'
    BY <1>1, <1>t, <2>h, StageNames DEF Holders, TypeOK, Accept, Goto, HandlerState, fds
  <2>2. ASSUME NEW d \in Clients PROVE Coherent(d)'
    <3>1. PICK r \in Requests[c] : request' = [request EXCEPT ![c] = r]
      BY <1>1 DEF Accept
    <3>2. /\ handler[c] = "idle" /\ handler' = [handler EXCEPT ![c] = "accepted"]
          /\ conn' = [conn EXCEPT ![c] = {Daemon}]
          /\ UNCHANGED <<daemon, child, filter, cgroup, replies, registered>>
      BY <1>1 DEF Accept, Goto
    <3>3. DOMAIN conn = Clients
      BY <1>h DEF Holders
    <3> QED BY <3>1, <3>2, <3>3, <1>c, <1>k DEF Coherent, InSetup
  <2> QED BY <2>1, <2>2 DEF LaunchInv
<1>2. ASSUME NEW c \in Clients, HandlerStep(c) PROVE LaunchInv'
  <2>1. CASE Pipe(c)
    <3>h. conn' \in Holders /\ wr' \in Holders /\ rd' \in Holders
      BY <2>1, <1>h DEF Pipe, Holders, Procs
    <3>1. TypeOK'
      BY <2>1, <1>t, <3>h, StageNames DEF Holders, TypeOK, Pipe, Goto, HandlerState, fds
    <3>2. ASSUME NEW d \in Clients PROVE Coherent(d)'
      BY <2>1, <1>c, <1>k, <1>h DEF Pipe, Goto, fds, Coherent, InSetup
    <3> QED BY <3>1, <3>2 DEF LaunchInv
  <2>2. CASE Fork(c)
    <3>h. conn' \in Holders /\ wr' \in Holders /\ rd' \in Holders
      BY <2>2, <1>h, InheritedIs DEF Fork
    <3>g. /\ \A d \in Clients : conn[d] \subseteq conn'[d]
          /\ Daemon \in conn[c] => c \in conn'[c]
      BY <2>2, <1>h, InheritedIs DEF Fork
    <3>u. /\ daemon = "up" /\ handler[c] = "piped" /\ handler' = [handler EXCEPT ![c] = "forked"]
          /\ child' = [child EXCEPT ![c] = "redirect"]
          /\ UNCHANGED <<daemon, request, filter, cgroup, replies, registered, reader>>
      BY <2>2, StageNames DEF Fork, Goto
    <3>1. TypeOK'
      BY <3>u, <1>t, <3>h, StageNames DEF Holders, TypeOK, HandlerState
    <3>2. ASSUME NEW d \in Clients PROVE Coherent(d)'
      BY <3>g, <3>u, <1>c, <1>k DEF Coherent, InSetup
    <3> QED BY <3>1, <3>2 DEF LaunchInv
  <2>3. CASE SpawnFails(c)
    <3>h. conn' \in Holders /\ wr' \in Holders /\ rd' \in Holders
      BY <2>3, <1>h, ReleasedIs, DroppedIs DEF SpawnFails, fds
    <3>1. TypeOK'
      BY <2>3, <1>t, <3>h, StageNames DEF Holders, TypeOK, SpawnFails, Goto, HandlerState, fds
    <3>2. ASSUME NEW d \in Clients PROVE Coherent(d)'
      BY <2>3, <1>c, <1>k, <1>h DEF SpawnFails, Goto, fds, Coherent, InSetup
    <3> QED BY <3>1, <3>2 DEF LaunchInv
  <2>4. CASE ForkReturns(c)
    <3>h. conn' \in Holders /\ wr' \in Holders /\ rd' \in Holders
      BY <2>4, <1>h, ReleasedIs, DroppedIs DEF ForkReturns, fds
    <3>1. TypeOK'
      BY <2>4, <1>t, <3>h, StageNames DEF Holders, TypeOK, ForkReturns, Goto, HandlerState, fds
    <3>2. ASSUME NEW d \in Clients PROVE Coherent(d)'
      BY <2>4, <1>c, <1>k, <1>h DEF ForkReturns, Goto, fds, Coherent, InSetup
    <3> QED BY <3>1, <3>2 DEF LaunchInv
  <2>5. CASE StreamPanics(c)
    <3>h. conn' \in Holders /\ wr' \in Holders /\ rd' \in Holders
      BY <2>5, <1>h, ReleasedIs, DroppedIs DEF StreamPanics, ReleaseAll, fds
    <3>c. IF PanicAborts
          THEN daemon' = "aborted" /\ conn' = Released(conn, Daemon) /\ handler' = handler
          ELSE daemon' = daemon /\ conn' = Dropped(conn, c, Daemon)
               /\ handler' = [handler EXCEPT ![c] = "done"]
      BY <2>5 DEF StreamPanics, ReleaseAll, Goto
    <3>u. handler[c] = "forked" /\ UNCHANGED <<request, child, filter, cgroup, replies, registered>>
      BY <2>5 DEF StreamPanics
    <3>r. reader' = reader \/ reader' = [d \in Clients |-> IF reader[d] = "reading" THEN "ended" ELSE reader[d]]
      BY <2>5 DEF StreamPanics
    <3>1. TypeOK'
      <4>1. reader' \in [Clients -> {"none", "reading", "ended"}]
        BY <3>r, <1>t DEF TypeOK
      <4>2. daemon' \in {"up", "aborted"} /\ handler' \in [Clients -> HandlerState]
        BY <3>c, <1>t DEF TypeOK, HandlerState
      <4> QED BY <4>1, <4>2, <3>u, <3>h, <1>t DEF TypeOK, Holders
    <3>2. ASSUME NEW d \in Clients PROVE Coherent(d)'
      <4>1. \A p \in Procs : p # Daemon => (p \in conn'[d] <=> p \in conn[d])
        BY <3>c, <1>h DEF Released, Dropped, Holders
      <4>2. d # c /\ ~PanicAborts => conn'[d] = conn[d]
        BY <3>c, <1>h DEF Dropped, Holders
      <4> QED BY <3>c, <3>u, <1>c, <1>k, <4>1, <4>2 DEF Coherent, InSetup, Procs
    <3> QED BY <3>1, <3>2 DEF LaunchInv
  <2>6. CASE Register(c)
    <3>h. conn' \in Holders /\ wr' \in Holders /\ rd' \in Holders
      BY <2>6, <1>h, ReleasedIs, DroppedIs DEF Register, fds
    <3>1. TypeOK'
      BY <2>6, <1>t, <3>h, StageNames DEF Holders, TypeOK, Register, Goto, HandlerState, fds
    <3>2. ASSUME NEW d \in Clients PROVE Coherent(d)'
      BY <2>6, <1>c, <1>k, <1>h DEF Register, Goto, fds, Coherent, InSetup
    <3> QED BY <3>1, <3>2 DEF LaunchInv
  <2>7. CASE RegisterFails(c)
    <3>h. conn' \in Holders /\ wr' \in Holders /\ rd' \in Holders
      BY <2>7, <1>h, ReleasedIs, DroppedIs DEF RegisterFails, Kill, fds
    <3>1. TypeOK'
      BY <2>7, <1>t, <3>h, StageNames DEF Holders, TypeOK, RegisterFails, Kill, Goto, HandlerState, fds
    <3>g. \A d \in Clients : conn'[d] = conn[d] \ {c}
      BY <2>7, <1>h, ReleasedIs DEF RegisterFails
    <3>u. /\ handler[c] = "setup" /\ handler' = [handler EXCEPT ![c] = "refused"]
          /\ child' = [child EXCEPT ![c] = IF @ = "none" THEN @ ELSE "dead"]
          /\ UNCHANGED <<daemon, request, filter, cgroup, replies, registered>>
      BY <2>7 DEF RegisterFails, Kill, Goto
    <3>2. ASSUME NEW d \in Clients PROVE Coherent(d)'
      BY <3>g, <3>u, <1>c, <1>k DEF Coherent, InSetup
    <3> QED BY <3>1, <3>2 DEF LaunchInv
  <2>8. CASE Reply(c)
    <3> DEFINE a == IF handler[c] = "started" THEN "started" ELSE "error"
    <3>0. replies' = [replies EXCEPT ![c] = Append(@, a)] /\ a \in Answer
      BY <2>8 DEF Reply, Answer
    <3>a. a = "started" <=> handler[c] = "started"
      OBVIOUS
    <3> HIDE DEF a
    <3>s. /\ replies' \in [Clients -> Seq(Answer)]
          /\ \A d \in Clients : \A b : Says(replies'[d], b) <=> Says(replies[d], b) \/ (d = c /\ a = b)
      BY <3>0, <1>s
    <3>p. /\ handler[c] \in {"started", "refused"} /\ handler' = [handler EXCEPT ![c] = "done"]
          /\ conn' = Dropped(conn, c, Daemon)
          /\ UNCHANGED <<daemon, request, child, filter, cgroup, wr, rd, registered, reader>>
      BY <2>8 DEF Reply, Goto
    <3>h. conn' \in Holders
      BY <3>p, <1>h, DroppedIs
    <3>1. TypeOK'
      BY <3>p, <1>t, <3>s, <3>h, StageNames DEF TypeOK, Holders, HandlerState
    <3>2. ASSUME NEW d \in Clients PROVE Coherent(d)'
      <4>1. conn'[d] = IF d = c THEN conn[d] \ {Daemon} ELSE conn[d]
        <5>1. Dropped(conn, c, Daemon)[d] = IF d = c THEN conn[d] \ {Daemon} ELSE conn[d]
          BY <1>h DEF Dropped, Holders
        <5> QED BY <3>p, <5>1
      <4>2. CASE d = c
        <5>1. \A b : Says(replies'[c], b) <=> Says(replies[c], b) \/ a = b
          BY <3>s
        <5> QED BY <3>p, <1>c, <1>k, <3>a, <4>1, <4>2, <5>1 DEF Coherent, InSetup
      <4>3. CASE d # c
        BY <3>p, <3>0, <1>c, <1>k, <4>1, <4>3 DEF Coherent, InSetup
      <4> QED BY <4>2, <4>3
    <3> QED BY <3>1, <3>2 DEF LaunchInv
  <2> QED BY <1>2, <2>1, <2>2, <2>3, <2>4, <2>5, <2>6, <2>7, <2>8 DEF HandlerStep
<1>3. ASSUME NEW c \in Clients, ChildStep(c) PROVE LaunchInv'
  <2>1. CASE SetupStep(c)
    <3>0. PICK i \in 1..4 :
            /\ child[c] = Stages[i]
            /\ child' = [child EXCEPT ![c] = Stages[i + 1]]
            /\ cgroup' = IF Stages[i] = "cgroup"
                         THEN [cgroup EXCEPT ![c] = Cgroup(LimitsOf(request[c]))] ELSE cgroup
            /\ filter' = IF Stages[i] = "filter"
                         THEN [filter EXCEPT ![c] = Filter(PolicyOf(request[c]))] ELSE filter
            /\ UNCHANGED <<daemon, handler, request, fds, replies, registered, reader>>
      BY <2>1 DEF SetupStep
    <3>1. request[c] \in Request
      <4>1. child[c] # "none"
        BY <3>0, StageNames
      <4> QED BY <4>1, <1>c DEF Coherent, Request
    <3>2. Stages[i + 1] \in {"chdir", "cgroup", "filter", "exec"}
          /\ (Stages[i + 1] = "exec" <=> Stages[i] = "filter")
          /\ (Stages[i + 1] = "filter" <=> Stages[i] = "cgroup")
          /\ Stages[i] \in {"redirect", "chdir", "cgroup", "filter"}
      BY DEF Stages
    <3>3. TypeOK'
      BY <3>0, <1>t, <3>1, <3>2, StageNames, LimitsType, FilterType DEF TypeOK, fds
    <3>4. ASSUME NEW d \in Clients PROVE Coherent(d)'
      <4>1. /\ child'[d] = IF d = c THEN Stages[i + 1] ELSE child[d]
            /\ d # c => filter'[d] = filter[d]
            /\ Stages[i] = "filter" => filter'[c] = Filter(PolicyOf(request[c]))
            /\ d # c \/ Stages[i] # "cgroup" => cgroup'[d] = cgroup[d]
            /\ Stages[i] = "cgroup" => cgroup'[c] = Cgroup(LimitsOf(request[c]))
        BY <3>0, <1>k
      <4>2. /\ UNCHANGED <<daemon, handler, request, conn, replies, registered>>
            /\ child[c] = Stages[i]
        BY <3>0 DEF fds
      <4> QED BY <4>1, <4>2, <1>c, <3>2 DEF Coherent, InSetup
    <3> QED BY <3>3, <3>4 DEF LaunchInv
  <2>2. CASE SetupFails(c)
    <3>0. /\ child[c] \in {"redirect", "chdir", "cgroup", "filter"}
          /\ child' = [child EXCEPT ![c] = "copy"] /\ conn' = Dropped(conn, c, c)
          /\ UNCHANGED <<daemon, handler, request, filter, cgroup, registered, reader>>
          /\ replies' = [replies EXCEPT ![c] = Append(@, "error")]
      BY <2>2, StageNames DEF SetupFails
    <3>s. /\ replies' \in [Clients -> Seq(Answer)]
          /\ \A d \in Clients : \A b : Says(replies'[d], b) <=> Says(replies[d], b) \/ (d = c /\ "error" = b)
      <4>1. "error" \in Answer
        BY DEF Answer
      <4> QED BY <3>0, <4>1, <1>s
    <3>h. conn' \in Holders /\ wr' \in Holders /\ rd' \in Holders
      BY <2>2, <1>h, DroppedIs DEF SetupFails
    <3>1. TypeOK'
      BY <3>0, <1>t, <3>s, <3>h, StageNames DEF TypeOK, Holders
    <3>2. ASSUME NEW d \in Clients PROVE Coherent(d)'
      <4>1. conn'[d] = IF d = c THEN conn[d] \ {c} ELSE conn[d]
        <5>1. Dropped(conn, c, c)[d] = IF d = c THEN conn[d] \ {c} ELSE conn[d]
          BY <1>h DEF Dropped, Holders
        <5> QED BY <3>0, <5>1
      <4>2. CASE d = c
        <5>1. \A b : Says(replies'[c], b) <=> Says(replies[c], b) \/ "error" = b
          BY <3>s
        <5> QED BY <3>0, <1>c, <1>k, <4>1, <4>2, <5>1 DEF Coherent, InSetup
      <4>3. CASE d # c
        BY <3>0, <1>c, <1>k, <4>1, <4>3 DEF Coherent, InSetup
      <4> QED BY <4>2, <4>3
    <3> QED BY <3>1, <3>2 DEF LaunchInv
  <2>3. CASE Exec(c)
    <3>h. conn' \in Holders /\ wr' \in Holders /\ rd' \in Holders
      BY <2>3, <1>h, ReleasedIs, DroppedIs DEF Exec, fds
    <3>1. TypeOK'
      BY <2>3, <1>t, <3>h, StageNames DEF Holders, TypeOK, Exec, Goto, HandlerState, fds
    <3>g. \A d \in Clients : conn'[d] = conn[d] \ {c}
      BY <2>3, <1>h, ReleasedIs DEF Exec
    <3>u. /\ child[c] = "exec" /\ child' = [child EXCEPT ![c] = "running"]
          /\ UNCHANGED <<daemon, handler, request, filter, cgroup, replies, registered>>
      BY <2>3 DEF Exec
    <3>2. ASSUME NEW d \in Clients PROVE Coherent(d)'
      BY <3>g, <3>u, <1>c, <1>k DEF Coherent, InSetup
    <3> QED BY <3>1, <3>2 DEF LaunchInv
  <2>4. CASE ExecFails(c)
    <3>h. conn' \in Holders /\ wr' \in Holders /\ rd' \in Holders
      BY <2>4, <1>h, ReleasedIs, DroppedIs DEF ExecFails, ReleaseAll, fds
    <3>1. TypeOK'
      BY <2>4, <1>t, <3>h, StageNames DEF Holders, TypeOK, ExecFails, ReleaseAll, Goto, HandlerState, fds
    <3>c. conn' = Released(conn, c) \/ conn' = Dropped(conn, c, c)
      BY <2>4 DEF ExecFails, ReleaseAll
    <3>g. \A d \in Clients : d # c => conn[d] \ {c} \subseteq conn'[d]
      BY <3>c, <1>h DEF Released, Dropped, Holders
    <3>e. Daemon \in conn[c] => Daemon \in conn'[c]
      BY <3>c, <1>h DEF Released, Dropped, Holders
    <3>u. /\ child[c] = "exec"
          /\ child' = [child EXCEPT ![c] = IF PanicAborts THEN "dead" ELSE "copy"]
          /\ UNCHANGED <<daemon, handler, request, filter, cgroup, replies, registered>>
      BY <2>4 DEF ExecFails
    <3>2. ASSUME NEW d \in Clients PROVE Coherent(d)'
      BY <3>g, <3>e, <3>u, <1>c, <1>k DEF Coherent, InSetup
    <3> QED BY <3>1, <3>2 DEF LaunchInv
  <2> QED BY <1>3, <2>1, <2>2, <2>3, <2>4 DEF ChildStep
<1>4. ASSUME NEW c \in Clients, ChildExit(c) PROVE LaunchInv'
  <2>h. conn' \in Holders /\ wr' \in Holders /\ rd' \in Holders
    BY <1>4, <1>h, ReleasedIs, DroppedIs DEF ChildExit, ReleaseAll, fds
  <2>1. TypeOK'
    BY <1>4, <1>t, <2>h, StageNames DEF Holders, TypeOK, ChildExit, ReleaseAll, Goto, HandlerState, fds
  <2>g. \A d \in Clients : conn'[d] = conn[d] \ {c}
    BY <1>4, <1>h, ReleasedIs DEF ChildExit, ReleaseAll
  <2>u. /\ child[c] = "running" /\ child' = [child EXCEPT ![c] = "dead"]
        /\ UNCHANGED <<daemon, handler, request, filter, cgroup, replies, registered>>
    BY <1>4 DEF ChildExit
  <2>2. ASSUME NEW d \in Clients PROVE Coherent(d)'
    BY <2>g, <2>u, <1>c, <1>k DEF Coherent, InSetup
  <2> QED BY <2>1, <2>2 DEF LaunchInv
<1>5. ASSUME NEW c \in Clients, Stop(c) PROVE LaunchInv'
  <2>h. conn' \in Holders /\ wr' \in Holders /\ rd' \in Holders
    BY <1>5, <1>h, ReleasedIs, DroppedIs DEF Stop, Kill, AbortReader, fds
  <2>1. TypeOK'
    BY <1>5, <1>t, <2>h, StageNames DEF Holders, TypeOK, Stop, Kill, AbortReader, Goto, HandlerState, fds
  <2>g. \A d \in Clients : conn'[d] = conn[d] \ {c}
    BY <1>5, <1>h, ReleasedIs DEF Stop
  <2>u. /\ child' = [child EXCEPT ![c] = IF @ = "none" THEN @ ELSE "dead"]
        /\ registered' = registered \ {c}
        /\ UNCHANGED <<daemon, handler, request, filter, cgroup, replies>>
    BY <1>5 DEF Stop, Kill
  <2>2. ASSUME NEW d \in Clients PROVE Coherent(d)'
    BY <2>g, <2>u, <1>c, <1>k DEF Coherent, InSetup
  <2> QED BY <2>1, <2>2 DEF LaunchInv
<1>6. ASSUME NEW c \in Clients, Reap(c) \/ ReaderEof(c) PROVE LaunchInv'
  <2>h. conn' \in Holders /\ wr' \in Holders /\ rd' \in Holders
    BY <1>6, <1>h, ReleasedIs, DroppedIs DEF Reap, ReaderEof, AbortReader, fds
  <2>1. TypeOK'
    BY <1>6, <1>t, <2>h, StageNames DEF Holders, TypeOK, Reap, ReaderEof, AbortReader, Goto, HandlerState, fds
  <2>2. ASSUME NEW d \in Clients PROVE Coherent(d)'
    BY <1>6, <1>c, <1>k, <1>h DEF Reap, ReaderEof, AbortReader, Goto, fds, Coherent, InSetup
  <2> QED BY <2>1, <2>2 DEF LaunchInv
<1>7. CASE UNCHANGED vars
  BY <1>7 DEF vars, fds, LaunchInv, TypeOK, Coherent, InSetup
<1> QED BY <1>1, <1>2, <1>3, <1>4, <1>5, <1>6, <1>7 DEF Next

(* TypeOK and Coherent hold in every reachable state. *)
LEMMA LaunchInvariant == Spec => []LaunchInv
  BY LaunchInit, LaunchStep, PTL DEF Spec

(* Every variable keeps its type; in particular the cgroup never gets a    *)
(* value that was not parsed (config.rs, From<&ResourceArgs>).             *)
THEOREM LaunchTypeCorrect == Spec => []TypeOK
  BY LaunchInvariant, PTL DEF LaunchInv

(* A command runs under a filter that denies it what its request forbids,  *)
(* for every profile with every set of switches, but for no_fs and         *)
(* no_thread, and nothing that its request does not ask for (linux.rs,     *)
(* 338-368).                                                               *)
THEOREM ConfinedHolds == Spec => []Confined
<1>1. LaunchInv => Confined
  <2> SUFFICES ASSUME LaunchInv, NEW c \in Clients, child[c] = "running"
               PROVE  /\ Forbidden(request[c]) \subseteq filter[c]
                      /\ filter[c] \subseteq UNION {Rules(f) : f \in Asked(request[c]) \ {"no_fs"}}
                      /\ {"execve", "read"} \cap filter[c] = {}
    BY DEF Confined
  <2>1. Coherent(c)
    BY DEF LaunchInv
  <2>2. request[c] \in Request /\ filter[c] = Filter(PolicyOf(request[c]))
    BY <2>1, LaunchAssumption DEF Coherent, LaunchAssumption
  <2> QED BY <2>2, FilterConfines
<1> QED BY <1>1, LaunchInvariant, PTL

(* The same request on the command line and in TOML makes the same child,  *)
(* outside the cases that SameEitherWay names (config.rs).                 *)
THEOREM SameEitherWayHolds == Spec => []SameEitherWay
<1>1. LaunchInv => SameEitherWay
  <2> SUFFICES ASSUME LaunchInv, NEW c \in Clients, child[c] = "running", request[c].via = "cli"
               PROVE  /\ filter[c] = Filter(PolicyFromToml(AsToml(request[c])))
                      /\ (/\ request[c].resources = NoResources \/ request[c].resources.profile # NotGiven
                          /\ request[c].resources.cpu # "Lowest"
                          /\ Garbage \notin {request[c].resources.cpu, request[c].resources.mem})
                         => cgroup[c] = Cgroup(LimitsFromToml(AsToml(request[c])))
    BY DEF SameEitherWay
  <2>1. Coherent(c)
    BY DEF LaunchInv
  <2>2. request[c] \in Request
    BY <2>1, LaunchAssumption DEF Coherent, LaunchAssumption
  <2>3. request[c] \in CliRequest
    BY <2>2 DEF Request, TomlRequest
  <2>4. filter[c] = Filter(PolicyOf(request[c])) /\ cgroup[c] = Cgroup(LimitsOf(request[c]))
    BY <2>1 DEF Coherent
  <2> QED BY <2>3, <2>4, SamePolicy, SameLimits
<1> QED BY <1>1, LaunchInvariant, PTL

(* A single plain answer can be relied on (utils.rs, reply; linux.rs,      *)
(* create_child_exec_context_from_config).                                 *)
THEOREM AnswerIsTrueHolds == Spec => []AnswerIsTrue
<1>1. LaunchInv => AnswerIsTrue
  <2> SUFFICES ASSUME LaunchInv, PanicAborts, NEW c \in Clients, Closed(c)
               PROVE  /\ replies[c] = <<"started">> => child[c] \in {"running", "dead"}
                      /\ replies[c] = <<"error">> /\ daemon = "up" => c \notin registered
    BY DEF AnswerIsTrue
  <2>1. Coherent(c) /\ child[c] \in ChildState
    BY DEF LaunchInv, TypeOK
  <2>2. replies[c] = <<"started">> => Says(replies[c], "started") /\ ~Says(replies[c], "error")
    BY DEF Says
  <2>3. replies[c] = <<"error">> => ~Says(replies[c], "started")
    BY DEF Says
  <2> QED BY <2>1, <2>2, <2>3, StageNames DEF Coherent, InSetup, Closed
<1> QED BY <1>1, LaunchInvariant, PTL

(* A child gets out of reach only when its parent fails right after the     *)
(* fork, whatever else fails on the way (device.rs, start; linux.rs,       *)
(* 299-300).                                                               *)
THEOREM NoStrayHolds == Spec => NoStray
<1> DEFINE Reached == \A c \in Clients : Stray(c)' => Stray(c) \/ handler[c] = "forked"
<1>1. LaunchInv /\ [Next]_vars => [Reached]_vars
  <2> SUFFICES ASSUME LaunchInv, Next, NEW c \in Clients, Stray(c)', ~Stray(c)
               PROVE  handler[c] = "forked"
    OBVIOUS
  <2> DEFINE past == {"started", "refused", "done"}
  <2>1. PICK d \in Clients :
          \/ Accept(d) \/ HandlerStep(d) \/ ChildStep(d) \/ ChildExit(d)
          \/ Stop(d) \/ Reap(d) \/ ReaderEof(d)
    BY DEF Next
  <2>2. /\ child \in [Clients -> ChildState] /\ handler \in [Clients -> HandlerState]
        /\ handler[c] \in {"idle", "accepted", "piped"} => child[c] = "none"
    BY DEF LaunchInv, TypeOK, Coherent
  <2>3. CASE Accept(d) \/ Pipe(d) \/ Fork(d) \/ ForkReturns(d)
    BY <2>2, <2>3 DEF Accept, Pipe, Fork, ForkReturns, Goto, Stray, Alive
  <2>4. CASE SpawnFails(d) \/ StreamPanics(d)
    BY <2>2, <2>4 DEF SpawnFails, StreamPanics, Goto, Stray, Alive
  <2>5. CASE Register(d) \/ RegisterFails(d) \/ Reply(d)
    BY <2>2, <2>5 DEF Register, RegisterFails, Reply, Kill, Goto, Stray, Alive
  <2>6. CASE ChildStep(d)
    <3>1. child[d] \notin {"none", "dead"} /\ UNCHANGED <<handler, registered>>
      BY <2>6, StageNames DEF ChildStep, SetupStep, SetupFails, Exec, ExecFails
    <3>2. \A e \in Clients \ {d} : child'[e] = child[e]
      BY <2>2, <2>6 DEF ChildStep, SetupStep, SetupFails, Exec, ExecFails
    <3> QED BY <3>1, <3>2 DEF Stray, Alive
  <2>7. CASE ChildExit(d) \/ Stop(d) \/ Reap(d) \/ ReaderEof(d)
    BY <2>2, <2>7 DEF ChildExit, Stop, Reap, ReaderEof, Kill, Stray, Alive
  <2> QED BY <2>1, <2>3, <2>4, <2>5, <2>6, <2>7 DEF HandlerStep
<1> HIDE DEF Reached
<1>2. Spec => [][Reached]_vars
  BY <1>1, LaunchInvariant, PTL DEF Spec
<1> QED BY <1>2 DEF NoStray, Reached
=============================================================================
