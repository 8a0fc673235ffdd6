SPECIFICATION Spec
CONSTANTS
  Lower <- MCLower
  DefaultHosts <- MCDefaultHosts
  Labels = {"a", "A", ""}
  MaxLabels = 4
  MaxRules = 2
  RuleLabels = 1
INVARIANTS
  MatchIsExact
  SpellingIsIrrelevant
  MergeKeepsBoth
PROPERTY
  DenialIsFinal
CHECK_DEADLOCK FALSE
