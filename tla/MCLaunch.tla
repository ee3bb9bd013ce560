------------------------------- MODULE MCLaunch -------------------------------
(***************************************************************************)
(* Small instances of Launch for TLC.                                      *)
(***************************************************************************)
EXTENDS LaunchProperties

CONSTANTS c1, c2

Limited(p, cpu, mem) == [profile |-> p, cpu |-> cpu, mem |-> mem]

(* Between them: a profile alone, a profile with switches and overrides of *)
(* both kinds, from both sources, and resources of both kinds.             *)
Asked1 ==
  {[Plain("cli") EXCEPT !.profile = "Isolated", !.on = {"read_only_fs"},
                        !.off = {"no_sysman"}, !.resources = Limited("Light", "High", 64)],
   [Plain("toml") EXCEPT !.profile = "Sandboxed", !.on = {"no_fs"}, !.off = {"no_process"},
                         !.resources = Limited(NotGiven, "Max", NotGiven)]}
Asked2 ==
  {[Plain("cli") EXCEPT !.profile = "Sandboxed", !.resources = Limited(NotGiven, "Lowest", Garbage)]}

(* One client asks for one of two things, the others for a third. *)
MCRequests == [c \in Clients |-> IF c = c1 THEN Asked1 ELSE Asked2]
=============================================================================
