----------------------------- MODULE FirewallMC -----------------------------
(* Instance of Firewall for TLC: one-bit bytes and two-byte words keep the *)
(* byte swap visible.  The destinations are an IPv4 address that the swap  *)
(* changes, one that it does not, and an IPv6 address.                     *)
EXTENDS Firewall

V4(b1, b2) ==
  [family |-> 4, bits |-> [p \in Positions(4) |-> <<b1, b2>>[p[2]]]]
V6(b1, b2, b3, b4) ==
  [family |-> 6,
   bits |-> [p \in Positions(6) |-> <<<<b1, b2>>, <<b3, b4>>>>[p[1]][p[2]]]]

MCMappedPrefix ==
  [p \in {1} \X (1 .. WordBytes) \X (1 .. ByteBits) |-> p[2] - 1]
MCPolicies ==
  [mode : {"MONITOR", "ENFORCE", "UNSPECIFIED"}, watchSudo : BOOLEAN]
MCDests == {V4(0, 1), V4(1, 1), V6(1, 0, 1, 1)}
MCCidrs == {[addr |-> V4(0, 1), len |-> 1], [addr |-> V6(1, 0, 1, 1), len |-> 3]}
=============================================================================
