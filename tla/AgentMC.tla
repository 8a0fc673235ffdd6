------------------------------ MODULE AgentMC ------------------------------
(***************************************************************************)
(* Instances of Agent for TLC.  One-bit bytes and two-byte words, as in    *)
(* FirewallMC.  The names: "a" is listed, "x.b" is allowed by a glob only, *)
(* and "d.b" is allowed by that glob and denied.  The upstream's address   *)
(* is its own byte swap, as 8.8.8.8 is.                                    *)
(***************************************************************************)
EXTENDS Agent, TLC

V4(b1, b2) ==
  [family |-> 4, bits |-> [p \in Positions(4) |-> <<b1, b2>>[p[2]]]]
V6(b1, b2, b3, b4) ==
  [family |-> 6,
   bits |-> [p \in Positions(6) |-> <<<<b1, b2>>, <<b3, b4>>>>[p[1]][p[2]]]]

MCMappedPrefix ==
  [p \in {1} \X (1 .. WordBytes) \X (1 .. ByteBits) |-> p[2] - 1]
MCLower == [l \in {"D"} |-> "d"]
MCDefaultHosts == <<<<"a">>>>

MCUpstream == V4(1, 1)
MCSockets == {V6(1, 1, 0, 0)}
GlobName == {<<"x", "b">>}
ListedName == {<<"a">>}
DeniedName == {<<"d", "b">>}
DeniedOrNone == DeniedName \cup {NoName}
ListedAndDenied == ListedName \cup DeniedName
ZoneOf(n) ==
  CASE n = <<"a">> -> {{V4(0, 1)}}
    [] n = <<"x", "b">> -> {{V6(0, 1, 1, 0)}, {}}
    [] n = <<"d", "b">> -> {{V6(1, 0, 1, 1)}}
MCZone == [n \in Names |-> ZoneOf(n)]
MCDests ==
  {V4(0, 1), V4(1, 0), V4(1, 1), V6(1, 0, 1, 1), V6(1, 1, 0, 0)}
UpstreamCidr == [addr |-> MCUpstream, len |-> 2]
MCCidrs == {UpstreamCidr}

Policy(mode, gha, cidrs) ==
  [mode |-> mode, requireBpf |-> FALSE, watchSudo |-> FALSE,
   disableSudo |-> FALSE, auto |-> FALSE, gha |-> gha, local |-> TRUE,
   allowedHosts |-> <<<<"a">>, <<"**", "b">>>>,
   deniedHosts |-> <<<<"D", "b">>>>, cidrs |-> cidrs]

HandlerSymmetry == Permutations(Handlers)

(* Queries against every mode; the upstream is reachable.                  *)
DnsPolicies ==
  {Policy(m, FALSE, {UpstreamCidr}) : m \in {"MONITOR", "ENFORCE"}}

(* The ways Start and Close can go: what may fail, what is mandatory, and  *)
(* whether there is an API to upload to.                                   *)
LifePolicies ==
  {[Policy("MONITOR", FALSE, {}) EXCEPT !.disableSudo = TRUE],
   [Policy("ENFORCE", TRUE, {}) EXCEPT !.watchSudo = TRUE, !.local = FALSE],
   [Policy("UNSPECIFIED", FALSE, {}) EXCEPT !.requireBpf = TRUE]}

(* Enforcing, with the upstream on the list.                               *)
EnforcePolicies == {Policy("ENFORCE", FALSE, {UpstreamCidr})}

(* Enforcing without the upstream on the list, and with the DNAT rules.    *)
ForwardPolicies ==
  {Policy("ENFORCE", FALSE, {}), Policy("MONITOR", TRUE, {})}
=============================================================================
