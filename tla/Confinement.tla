----------------------------- MODULE Confinement -----------------------------
(***************************************************************************)
(* What a start request asks for its child and what the child is given:    *)
(* the conversions of src/src/config.rs from the command line and from a   *)
(* TOML file, and the seccomp filter and cgroup limits that                *)
(* src/src/core/platform/linux.rs makes of the result.  Pure operators;    *)
(* module Launch applies them in the child.                                *)
(***************************************************************************)
EXTENDS Integers

CONSTANTS
  IsRoot,    \* TRUE: the daemon's effective user is root
  NotGiven,  \* an option or a TOML key that is absent
  Garbage    \* a text that does not parse

(* A SecurityPolicy is the set of its fields that are true. *)
Flags    == {"no_net", "no_fs", "read_only_fs", "no_process", "no_thread",
             "no_ipc", "no_sysman"}
Profiles == {"Default", "Isolated", "ReadOnly", "Sandboxed", "Custom"}

(* A ResourceLimits; memory in MiB. *)
Priorities == {"Max", "VeryHigh", "High", "Normal", "Low", "VeryLow", "Lowest"}
Unlimited  == -1
ResourceProfiles == {"Light", "Worker", "Service", "Custom"}

ASSUME ConfinementAssumption ==
  NotGiven \notin Profiles \cup ResourceProfiles \cup Priorities

(* What the user writes.  on and off are the switches of the command line  *)
(* or the TOML keys set to true and to false; resources is a [resources]   *)
(* table or the corresponding options.                                     *)
NoResources == [profile |-> NotGiven, cpu |-> NotGiven, mem |-> NotGiven]
Plain(via) == [via |-> via, profile |-> NotGiven, on |-> {}, off |-> {},
                resources |-> NoResources]

(* The command line has no switch for no_fs, and one switch to turn a      *)
(* restriction off: --allow-sysman.  A TOML text that does not parse is an *)
(* error, so nothing is started.                                           *)
CliOn  == Flags \ {"no_fs", "no_sysman"}
CliOff == {"no_sysman"}

Memory == Nat \cup {Unlimited}
Option(values) == values \cup {NotGiven}
CliRequest ==
  [via : {"cli"}, profile : Option(Profiles), on : SUBSET CliOn, off : SUBSET CliOff,
   resources : [profile : Option(ResourceProfiles), cpu : Option(Priorities) \cup {Garbage},
                mem : Option(Memory) \cup {Garbage}]]
TomlRequest ==
  {r \in [via : {"toml"}, profile : Option(Profiles), on : SUBSET Flags, off : SUBSET Flags,
          resources : [profile : Option(ResourceProfiles), cpu : Option(Priorities),
                       mem : Option(Memory)]] : r.on \cap r.off = {}}
Request == CliRequest \cup TomlRequest

Given(value, default) == IF value = NotGiven THEN default ELSE value

-----------------------------------------------------------------------------
(* SecurityPolicy: profiles and overrides.                                 *)

DefaultPolicy == {"no_sysman"}

SecurityFromProfile ==
  [p \in Profiles |->
     DefaultPolicy \cup
       CASE p = "Isolated"  -> {"no_net", "no_process", "no_ipc"}
         [] p = "ReadOnly"  -> {"read_only_fs"}
         [] p = "Sandboxed" -> {"no_net", "read_only_fs", "no_process",
                                "no_thread", "no_ipc"}
         [] OTHER           -> {}]

(* Slip: a switch counts only when no profile is given. *)
PolicyProfileWins(r) ==
  IF r.profile = NotGiven
  THEN (DefaultPolicy \cup (r.on \cap CliOn)) \ (r.off \cap CliOff)
  ELSE SecurityFromProfile[r.profile]

(* From<&SecurityArgs> for SecurityPolicy *)
PolicyFromArgs(r) ==
  (SecurityFromProfile[Given(r.profile, "Default")] \cup (r.on \cap CliOn))
    \ (r.off \cap CliOff)

(* Deserialize for SecurityPolicy; the key no_fs is read and not used. *)
TomlKeys == Flags \ {"no_fs"}
PolicyFromToml(r) ==
  (SecurityFromProfile[Given(r.profile, "Default")] \cup (r.on \cap TomlKeys))
    \ (r.off \cap TomlKeys)

PolicyOf(r) == IF r.via = "cli" THEN PolicyFromArgs(r) ELSE PolicyFromToml(r)

-----------------------------------------------------------------------------
(* ResourceLimits.  fd_limit is carried along and used nowhere.            *)

DefaultLimits == [cpu |-> "Normal", mem |-> Unlimited]

ResourcesFromProfile(p) ==
  CASE p = "Light"   -> [cpu |-> "Low",    mem |-> 100]
    [] p = "Worker"  -> [cpu |-> "Normal", mem |-> 500]
    [] p = "Service" -> [cpu |-> "High",   mem |-> 1024]
    [] OTHER         -> DefaultLimits

Overridden(limits, res) ==
  [cpu |-> Given(res.cpu, limits.cpu), mem |-> Given(res.mem, limits.mem)]

(* Slip: the text is taken as it is. *)
ParsedAsIs(text) == text

(* From<&ResourceArgs>: a text that does not parse is passed over, and     *)
(* CPUPriority::from_str reads "lowest" as Low.                            *)
Parsed(text) == IF text = Garbage THEN NotGiven ELSE text
ParsedCpu(text) == IF text = "Lowest" THEN "Low" ELSE Parsed(text)

(* Slip: an option counts only when no profile is given. *)
LimitsProfileWins(r) ==
  IF r.resources.profile = NotGiven
  THEN Overridden(DefaultLimits, [cpu |-> ParsedCpu(r.resources.cpu), mem |-> Parsed(r.resources.mem)])
  ELSE ResourcesFromProfile(r.resources.profile)

LimitsFromArgs(r) ==
  Overridden(ResourcesFromProfile(r.resources.profile),
             [cpu |-> ParsedCpu(r.resources.cpu), mem |-> Parsed(r.resources.mem)])

(* Without a [resources] table the Default, and in a table without a       *)
(* profile the profile that is #[default]: Worker.                         *)
LimitsFromToml(r) ==
  IF r.resources = NoResources
  THEN DefaultLimits
  ELSE Overridden(ResourcesFromProfile(Given(r.resources.profile, "Worker")), r.resources)

LimitsOf(r) == IF r.via = "cli" THEN LimitsFromArgs(r) ELSE LimitsFromToml(r)

-----------------------------------------------------------------------------
(* The cgroup that is created under the child's name.                      *)

(* CPU quota in percent of one CPU. *)
CpuQuota(priority) ==
  IF IsRoot
  THEN CASE priority \in {"Max", "Normal"} -> Unlimited
         [] priority = "VeryHigh" -> 90
         [] priority = "High"     -> 75
         [] priority = "Low"      -> 50
         [] priority = "VeryLow"  -> 25
         [] priority = "Lowest"   -> 10
  ELSE CASE priority \in {"Max", "VeryHigh", "High"} -> 75
         [] priority = "Normal"   -> 50
         [] priority = "Low"      -> 30
         [] priority = "VeryLow"  -> 15
         [] priority = "Lowest"   -> 5

Cgroup(limits) == [quota |-> CpuQuota(limits.cpu), mem |-> limits.mem]

-----------------------------------------------------------------------------
(* The seccomp filter.  One name stands for the calls of consts.rs that    *)
(* are in the same lists; open and openat are split by access mode, clone  *)
(* by whether its flags are exactly 0x10000.                               *)

Open         == {"openRead", "openWrite"}
Clone        == {"clone", "cloneBare"}
Network      == {"socket", "sethostname"}
FsWrite      == {"rename", "mknod", "write"}  \* mknod: also unlink; write: also pwrite64
FsRead       == {"read"}
ProcCreation == {"fork"} \cup Clone           \* fork: also clone3, prctl, unshare
ProcControl  == {"ptrace"}
Ipc          == {"shmget"}
FileIpc      == {"mknod"} \cup Open
System       == {"reboot", "sethostname"}
Calls        == Network \cup FsWrite \cup FsRead \cup Open \cup ProcCreation
                  \cup ProcControl \cup Ipc \cup System \cup {"execve"}

(* What the rules of seccomp_<f> deny.  A rule without a condition takes   *)
(* the place of the conditional ones for the same call, so seccomp_no_proc *)
(* denies clone whatever its flags.                                        *)
Rules(f) ==
  CASE f = "no_net"       -> Network
    [] f = "no_fs"        -> FsWrite \cup FsRead \cup Open
    [] f = "read_only_fs" -> FsWrite \cup {"openWrite"}
    [] f = "no_process"   -> ProcCreation \cup ProcControl
    [] f = "no_thread"    -> {"cloneBare"}
    [] f = "no_ipc"       -> Ipc \cup FileIpc
    [] f = "no_sysman"    -> System

(* The calls the loaded filter answers with EPERM; no_fs comes before      *)
(* read_only_fs, whose rules are then left out.                            *)
Filter(policy) ==
  UNION {Rules(f) : f \in IF "no_fs" \in policy THEN policy \ {"read_only_fs"} ELSE policy}
=============================================================================
