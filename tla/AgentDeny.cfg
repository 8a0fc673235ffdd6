SPECIFICATION Spec
CONSTANTS
  ByteBits = 1
  WordBytes = 2
  V6Words = 2
  LittleEndian = TRUE
  MaxEntries = 1
  MappedPrefix <- MCMappedPrefix
  Lower <- MCLower
  DefaultHosts <- MCDefaultHosts
  Policies <- DnsPolicies
  Dests <- MCDests
  Cidrs <- MCCidrs
  Handlers = {h1}
  Names <- ListedAndDenied
  Queries <- DeniedOrNone
  Zone <- MCZone
  Upstream <- MCUpstream
  Sockets = {}
  StaleFiles = {}
INVARIANTS
  DnsTypeOK
  DeniedNeverDelivered
  DeliveredIsLogged
  GrantsHaveReasons
PROPERTIES
  FirewallBehaviour
  QueriesEnd
  StopCompletes
