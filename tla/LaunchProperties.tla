--------------------------- MODULE LaunchProperties ---------------------------
(***************************************************************************)
(* What a start command promises to its client and to its child.           *)
(***************************************************************************)
EXTENDS Launch

(* The client reads to the end of the connection. *)
Closed(c) == handler[c] # "idle" /\ conn[c] = {}

Alive(c) == child[c] \notin {"none", "dead"}

-----------------------------------------------------------------------------
(* Confinement.                                                            *)

(* What the documentation of the profiles (config.rs, SecurityProfile) and *)
(* of the fields asks for: an explicit setting, else the profile's.        *)
Described(p) ==
  CASE p = "Isolated"  -> {"no_net", "no_process", "no_ipc"}
    [] p = "ReadOnly"  -> {"read_only_fs"}
    [] p = "Sandboxed" -> {"no_net", "read_only_fs", "no_process", "no_thread", "no_ipc"}
    [] OTHER           -> {}
Asked(r) ==
  {f \in Flags : \/ f \in r.on
                 \/ f \notin r.off /\ (f = "no_sysman" \/ f \in Described(r.profile))}

(* Two restrictions that may be asked for and are not enforced: no_fs,     *)
(* documented at config.rs:344, is read from TOML and never applied        *)
(* (404-424), nor has it a switch; and the rule of no_thread (linux.rs:875) *)
(* matches no call that creates a thread.                                  *)
Unenforced == {"no_fs", "no_thread"}
Enforced(r) == Asked(r) \ Unenforced

(* The calls such a child must not be able to make, whatever their         *)
(* arguments.                                                              *)
Denies(f) ==
  CASE f = "no_net"       -> {"socket"}
    [] f = "read_only_fs" -> {"rename", "mknod", "openWrite"}
    [] f = "no_process"   -> {"fork", "clone", "ptrace"}
    [] f = "no_ipc"       -> {"shmget", "mknod"}
    [] f = "no_sysman"    -> {"reboot", "sethostname"}
Forbidden(r) == UNION {Denies(f) : f \in Enforced(r)}

(* By the time a command runs, the kernel denies it what its request asked *)
(* to forbid, by a profile or by a switch, on the command line or in TOML, *)
(* but for no_fs and no_thread, which are not enforced; it denies nothing  *)
(* that only a restriction turned off, or never asked for, would forbid;   *)
(* so whatever was asked, the command can exec, and read what it has open. *)
Confined ==
  \A c \in Clients :
    child[c] = "running" =>
      /\ Forbidden(request[c]) \subseteq filter[c]
      /\ filter[c] \subseteq UNION {Rules(f) : f \in Asked(request[c]) \ {"no_fs"}}
      /\ {"execve", "read"} \cap filter[c] = {}

(* The TOML file that says what a command line says. *)
AsToml(r) == [r EXCEPT !.via = "toml"]

(* A child gets the same filter and the same cgroup limits whether it was  *)
(* asked for on the command line or in TOML (config.rs, test_cli_and_toml_ *)
(* equivalence), except for the three cases in which the code differs: a   *)
(* [resources] table without a profile means Worker, "lowest" is read as   *)
(* Low, and a TOML text that does not parse is an error.                   *)
SameEitherWay ==
  \A c \in Clients :
    LET r == request[c]
        res == r.resources IN
    child[c] = "running" /\ r.via = "cli" =>
      /\ filter[c] = Filter(PolicyFromToml(AsToml(r)))
      /\ (/\ res = NoResources \/ res.profile # NotGiven
          /\ res.cpu # "Lowest" /\ Garbage \notin {res.cpu, res.mem})
         => cgroup[c] = Cgroup(LimitsFromToml(AsToml(r)))

-----------------------------------------------------------------------------
(* What the client is told.                                                *)

(* In the release build, a client that reads one plain answer can rely on  *)
(* it: after "started", the set-up of its child is over and did not end in *)
(* a copy of the daemon; after an error, nothing is registered.  Both rest *)
(* on who still holds the connection: the child does until exec, so the    *)
(* client's read cannot end while the set-up may still fail.               *)
AnswerIsTrue ==
  PanicAborts =>
    \A c \in Clients :
      Closed(c) =>
        /\ replies[c] = <<"started">> => child[c] \in {"running", "dead"}
        /\ replies[c] = <<"error">> /\ daemon = "up" => c \notin registered

(* A child, be it the command, a set-up or a copy of the daemon, that is   *)
(* there with its handler past the fork and that no stop can reach.        *)
Stray(c) ==
  Alive(c) /\ handler[c] \in {"started", "refused", "done"} /\ c \notin registered

(* Whatever fails on the way, in the daemon or in the child, a child gets  *)
(* out of reach in one way only: the parent fails right after the fork,    *)
(* when it makes streams of the pipes, and returns or panics without a     *)
(* kill.                                                                   *)
NoStray ==
  [][\A c \in Clients : Stray(c)' => Stray(c) \/ handler[c] = "forked"]_vars

(* Every client gets to the end of its answer, unless a copy of the daemon *)
(* that another client's failed start left behind holds its connection     *)
(* (and, like all liveness here, unless the mutexes cross: module Locks).  *)
AnswerEnds ==
  \A c \in Clients :
    handler[c] # "idle" ~>
      \/ conn[c] = {}
      \/ \E d \in Clients \ {c} : child[d] = "copy" /\ d \in conn[c]

(* The log readers of a dead child end, unless another child was forked    *)
(* while the daemon had the write ends open, and lives (or the mutexes     *)
(* cross: module Locks).                                                   *)
ReadersEnd ==
  \A c \in Clients :
    reader[c] = "reading" /\ child[c] = "dead" ~>
      \/ reader[c] # "reading"
      \/ \E d \in Clients \ {c} : d \in wr[c] /\ Alive(d)
=============================================================================
