SPECIFICATION FwSpec
CONSTANTS
  ByteBits = 1
  WordBytes = 2
  V6Words = 2
  LittleEndian = TRUE
  MaxEntries = 2
  MappedPrefix <- MCMappedPrefix
  Policies <- MCPolicies
  Dests <- MCDests
  Cidrs <- MCCidrs
INVARIANTS
  FwTypeOK
  AllOrNothing
  HooksHaveObjects
  MonitorNeverDrops
  EnforceDropsUnlisted
  LookupMatchesImages
PROPERTIES
  GrantsPersist
  AttachSettles
