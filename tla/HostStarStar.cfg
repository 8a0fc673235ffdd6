SPECIFICATION Spec
CONSTANTS
  Lower <- MCLower
  DefaultHosts <- MCDefaultHosts
  Labels = {"a", "A", ""}
  MaxLabels = 4
  MaxRules = 0
  RuleLabels = 1
INVARIANT
  StarStarTakesOneOrMore
CHECK_DEADLOCK FALSE
