SPECIFICATION Spec
CONSTANTS
  a1 = a1
  a2 = a2
  Agents <- MCAgents
  Setups <- MCSetups
  MaxFaults = 0
INVARIANT LogIsExclusive
