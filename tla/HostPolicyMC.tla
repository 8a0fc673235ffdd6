---------------------------- MODULE HostPolicyMC ----------------------------
(***************************************************************************)
(* All patterns and all host names of up to MaxLabels labels, built one    *)
(* label at a time, and lists of allowed and denied patterns, built one    *)
(* pattern at a time from the names at hand.                               *)
(***************************************************************************)
EXTENDS HostPolicy

CONSTANTS
  Labels,     \* labels a host name is made of
  MaxLabels,  \* bound on the labels of a name and of a pattern
  MaxRules,   \* bound on allowed plus denied patterns
  RuleLabels  \* bound on the labels of a pattern in those lists

VARIABLES pat, host, allowed, denied
hpVars == <<pat, host, allowed, denied>>

MCLower == [l \in {"A"} |-> "a"]
MCDefaultHosts == <<<<"b">>, <<"**", "b">>>>
Wildcards == {"*", "**"}

Init ==
  /\ pat = <<>>
  /\ host = <<>>
  /\ allowed = <<>>
  /\ denied = <<>>

NoRules == allowed = <<>> /\ denied = <<>>

AddPatternLabel ==
  /\ Len(pat) < IF NoRules THEN MaxLabels ELSE RuleLabels
  /\ \E l \in Labels \cup Wildcards : pat' = Append(pat, l)
  /\ UNCHANGED <<host, allowed, denied>>

AddHostLabel ==
  /\ Len(host) < MaxLabels
  /\ \E l \in Labels : host' = Append(host, l)
  /\ UNCHANGED <<pat, allowed, denied>>

(* Rules are added once the host is named, and the pattern starts afresh.  *)
RuleRoom ==
  /\ Len(allowed) + Len(denied) < MaxRules
  /\ host # <<>> /\ Len(pat) \in 1 .. RuleLabels
AddAllowed ==
  /\ RuleRoom
  /\ allowed' = Append(allowed, pat)
  /\ pat' = <<>>
  /\ UNCHANGED <<host, denied>>
AddDenied ==
  /\ RuleRoom
  /\ denied' = Append(denied, pat)
  /\ pat' = <<>>
  /\ UNCHANGED <<host, allowed>>

Next ==
  \/ AddPatternLabel
  \/ NoRules /\ AddHostLabel
  \/ AddAllowed
  \/ AddDenied
Spec == Init /\ [][Next]_hpVars

-----------------------------------------------------------------------------
(***************************************************************************)
(* What a pattern denotes, said without an algorithm: the host's labels    *)
(* are cut into as many consecutive runs as the pattern has labels, and    *)
(* each label accepts its run.  cut[i] is where run i ends.  "**" accepts  *)
(* a run of at least wide[i] labels.                                       *)
(***************************************************************************)
Denotes(p, h, wide) ==
  \E cut \in [0 .. Len(p) -> 0 .. Len(h)] :
    /\ cut[0] = 0
    /\ cut[Len(p)] = Len(h)
    /\ \A i \in 1 .. Len(p) :
         IF p[i] = "**"
         THEN cut[i] >= cut[i - 1] + wide[i]
         ELSE /\ cut[i] = cut[i - 1] + 1
              /\ p[i] \in {"*", h[cut[i]]}

Complete == pat # <<>> /\ host # <<>>
Proper(name) == Normal(name) # EmptyName

(* MatchHost finds a match exactly when there is one, whatever the number  *)
(* and place of the wildcards: the search of matchLabels neither misses a  *)
(* way to advance past "**" nor accepts too early.  A last "**" takes one  *)
(* label or more, any other "**" may take none.                            *)
MatchIsExact ==
  Complete =>
    LET p == Normal(pat)
        h == Normal(host)
    IN  MatchHost(pat, host) <=>
          /\ Proper(pat) /\ Proper(host)
          /\ Denotes(p, h, [i \in 1 .. Len(p) |-> IF i = Len(p) THEN 1 ELSE 0])

(* The semantics host.go documents: "** matches one or more DNS labels",   *)
(* wherever it stands.                                                     *)
StarStarTakesOneOrMore ==
  Complete /\ Proper(pat) /\ Proper(host) =>
    LET p == Normal(pat)
        h == Normal(host)
    IN  MatchHost(pat, host) <=> Denotes(p, h, [i \in 1 .. Len(p) |-> 1])

Spellings(name) ==
  {name, ToLower(name)} \cup
    (IF name[Len(name)] = "" THEN {} ELSE {Append(name, "")})

(* Decisions do not depend on the case of either side or on one trailing   *)
(* dot: the proxy sees names as clients spell them.                        *)
SpellingIsIrrelevant ==
  Complete =>
    \A p \in Spellings(pat), h \in Spellings(host) :
      MatchHost(p, h) <=> MatchHost(pat, host)

Decision == EvaluateHost(allowed, denied, host)

(* EvaluateHost over the whole history of a policy: a host a denied        *)
(* pattern matches stays denied whatever is allowed later, and a new       *)
(* denied pattern never allows anything.                                   *)
DenialIsFinal ==
  [][/\ MatchesAny(denied, host) /\ host' = host => ~ Decision'.Allow
     /\ denied' # denied => (Decision'.Allow => Decision.Allow)]_hpVars

(* Merging the default hosts loses no pattern of the policy, adds exactly  *)
(* the defaults, and lists no pattern twice.                               *)
MergeKeepsBoth ==
  LET merged == MergeAllowed(TRUE, allowed)
      all == {merged[i] : i \in DOMAIN merged}
  IN  /\ all = {DefaultHosts[i] : i \in DOMAIN DefaultHosts}
                 \cup {allowed[i] : i \in DOMAIN allowed}
      /\ \A i, j \in DOMAIN merged : merged[i] = merged[j] => i = j
=============================================================================
