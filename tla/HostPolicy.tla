----------------------------- MODULE HostPolicy -----------------------------
(***************************************************************************)
(* Host patterns and the decision on a host name: internal/policy/host.go  *)
(* and the merge of GitHub's default hosts (internal/githubhosts).         *)
(*                                                                         *)
(* A name is the sequence strings.Split(name, ".") gives: "a.b" is         *)
(* <<"a", "b">>, the empty string <<"">>, and a trailing dot an empty last *)
(* label.  A label is only told apart from other labels, from "*", "**"    *)
(* and "", and from its lower-case form.                                   *)
(***************************************************************************)
EXTENDS Naturals, Sequences

CONSTANTS
  Lower,        \* lower-case form of the labels that have an upper-case one
  DefaultHosts  \* githubhosts.DefaultHosts, a sequence of patterns

(* A lower-case form has no upper-case letter left, and a label that has   *)
(* one does not become empty.                                              *)
ASSUME LowerAssumption ==
  \A l \in DOMAIN Lower :
    l # "" /\ Lower[l] # "" /\ Lower[l] \notin DOMAIN Lower

ASSUME DefaultsAssumption == DefaultHosts \in Seq(Seq(STRING))

EmptyName == <<"">>

TrimSuffixDot(name) ==
  IF Len(name) > 1 /\ name[Len(name)] = "" THEN SubSeq(name, 1, Len(name) - 1)
  ELSE name
ToLower(name) ==
  [i \in DOMAIN name |->
     IF name[i] \in DOMAIN Lower THEN Lower[name[i]] ELSE name[i]]
Normal(name) == ToLower(TrimSuffixDot(name))

(* A slip: "**" that is not last looks at one position only.               *)
matchLabelsNoAdvance(pat, host) ==
  LET m[i \in 1 .. Len(pat) + 1] ==
        [j \in 1 .. Len(host) + 1 |->
           \/ i > Len(pat) /\ j > Len(host)
           \/ /\ i <= Len(pat) /\ j <= Len(host)
              /\ \/ pat[i] = "**" /\ (i = Len(pat) \/ m[i + 1][j])
                 \/ pat[i] \in {"*", host[j]} \ {"**"} /\ m[i + 1][j + 1]]
  IN  m[1][1]

(* m[i][j]: do the pattern's labels from i on match the host's from j on.  *)
matchLabels(pat, host) ==
  LET m[i \in 1 .. Len(pat) + 1] ==
        [j \in 1 .. Len(host) + 1 |->
           \/ i > Len(pat) /\ j > Len(host)
           \/ /\ i <= Len(pat) /\ j <= Len(host)
              /\ \/ /\ pat[i] = "**"
                    /\ i = Len(pat) \/ \E k \in j .. Len(host) : m[i + 1][k]
                 \/ /\ pat[i] # "**"
                    /\ pat[i] \in {"*", host[j]}
                    /\ m[i + 1][j + 1]]
  IN  m[1][1]

(* A slip: the pattern is compared as it was written.                      *)
MatchHostCaseSensitive(pattern, host) ==
  LET p == TrimSuffixDot(pattern)
      h == Normal(host)
  IN  p # EmptyName /\ h # EmptyName /\ matchLabels(p, h)

MatchHost(pattern, host) ==
  LET p == Normal(pattern)
      h == Normal(host)
  IN  p # EmptyName /\ h # EmptyName /\ matchLabels(p, h)

MatchesAny(patterns, host) ==
  \E i \in DOMAIN patterns : MatchHost(patterns[i], host)

(* A slip: the allowed list is looked at first.                            *)
EvaluateHostAllowFirst(allowed, denied, host) ==
  IF MatchesAny(allowed, host) THEN [Allow |-> TRUE, Rule |-> "allowedHosts"]
  ELSE IF MatchesAny(denied, host)
       THEN [Allow |-> FALSE, Rule |-> "deniedHosts"]
  ELSE [Allow |-> FALSE, Rule |-> "default"]

EvaluateHost(allowed, denied, host) ==
  IF MatchesAny(denied, host) THEN [Allow |-> FALSE, Rule |-> "deniedHosts"]
  ELSE IF MatchesAny(allowed, host)
       THEN [Allow |-> TRUE, Rule |-> "allowedHosts"]
  ELSE [Allow |-> FALSE, Rule |-> "default"]

(* A slip: the defaults replace the policy's own list.                     *)
MergeAllowedReplaces(auto, allowed) == IF auto THEN DefaultHosts ELSE allowed

(* out[n]: what the loop has kept of the first n patterns.                 *)
MergeAllowed(auto, allowed) ==
  LET all == DefaultHosts \o allowed
      out[n \in 0 .. Len(all)] ==
        IF n = 0 THEN <<>>
        ELSE LET seen == out[n - 1]
             IN  IF \E i \in DOMAIN seen : seen[i] = all[n] THEN seen
                 ELSE Append(seen, all[n])
  IN  IF auto THEN out[Len(all)] ELSE allowed

(* strings.ContainsAny(h, "*")                                             *)
IsGlob(pattern) == \E i \in DOMAIN pattern : pattern[i] \in {"*", "**"}
=============================================================================
