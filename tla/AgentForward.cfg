SPECIFICATION Spec
CONSTANTS
  ByteBits = 1
  WordBytes = 2
  V6Words = 2
  LittleEndian = TRUE
  MaxEntries = 2
  MappedPrefix <- MCMappedPrefix
  Lower <- MCLower
  DefaultHosts <- MCDefaultHosts
  Policies <- ForwardPolicies
  Dests <- MCDests
  Cidrs <- MCCidrs
  Handlers = {h1}
  Names <- GlobName
  Queries <- GlobName
  Zone <- MCZone
  Upstream <- MCUpstream
  Sockets <- MCSockets
  StaleFiles = {}
INVARIANT
  ForwardsReachUpstream
