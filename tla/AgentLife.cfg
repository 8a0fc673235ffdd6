SPECIFICATION Spec
CONSTANTS
  ByteBits = 1
  WordBytes = 2
  V6Words = 2
  LittleEndian = TRUE
  MaxEntries = 2
  MappedPrefix <- MCMappedPrefix
  Lower <- MCLower
  DefaultHosts <- MCDefaultHosts
  Policies <- LifePolicies
  Dests <- MCDests
  Cidrs <- MCCidrs
  Handlers = {}
  Names <- ListedName
  Queries <- ListedName
  Zone <- MCZone
  Upstream <- MCUpstream
  Sockets <- MCSockets
  StaleFiles = {"ready", "failure"}
INVARIANTS
  TypeOK
  ReadyIsHonest
  NothingLeftBehind
  ExitZeroIsClean
  SentinelsAreExclusive
PROPERTY
  StartReturns
