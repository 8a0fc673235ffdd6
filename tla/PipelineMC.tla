----------------------------- MODULE PipelineMC -----------------------------
(***************************************************************************)
(* An instance of EventPipeline for TLC: one-bit bytes and two-byte words, *)
(* a destination and, as its byte swap, the address AllowIP is called for. *)
(* The image of the CIDR has the destination, the CIDR itself has not.     *)
(***************************************************************************)
EXTENDS EventPipeline

V4(b1, b2) ==
  [family |-> 4, bits |-> [p \in Positions(4) |-> <<b1, b2>>[p[2]]]]
MCMappedPrefix ==
  [p \in {1} \X (1 .. WordBytes) \X (1 .. ByteBits) |-> p[2] - 1]
MCDests == {V4(0, 1)}
MCGrants == {V4(1, 0)}
MCCidrs == {[addr |-> V4(1, 0), len |-> 1]}

(* Every mode; the sudo watch with a local policy, so that the API and the *)
(* many interleavings of two kinds of events do not multiply.              *)
MCPolicies ==
  {[mode |-> "UNSPECIFIED", watchSudo |-> TRUE, local |-> TRUE,
    cidrs |-> {}],
   [mode |-> "MONITOR", watchSudo |-> FALSE, local |-> FALSE,
    cidrs |-> {}],
   [mode |-> "ENFORCE", watchSudo |-> FALSE, local |-> FALSE,
    cidrs |-> MCCidrs]}
=============================================================================
