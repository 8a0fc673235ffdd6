---------------------------- MODULE LifecycleMC ----------------------------
(* Two runs on one host, for TLC: on a kernel without TCX both are to      *)
(* change the host; or one of them is, on either kernel, beside one that   *)
(* is not.                                                                 *)
EXTENDS Lifecycle

CONSTANTS a1, a2

MCAgents == {a1, a2}
MCSetups ==
  {[asked |-> MCAgents, tcx |-> FALSE], [asked |-> {a1}, tcx |-> TRUE],
   [asked |-> {a1}, tcx |-> FALSE]}
=============================================================================
