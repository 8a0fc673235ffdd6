SPECIFICATION Spec
CONSTANTS
  ByteBits = 1
  WordBytes = 2
  V6Words = 2
  LittleEndian = TRUE
  MaxEntries = 2
  MappedPrefix <- MCMappedPrefix
  Policies <- MCPolicies
  Dests <- MCDests
  Cidrs <- MCCidrs
  Attempts = 3
  Codes = {204, 422, 503}
  Grants <- MCGrants
  Procs = {1}
  RingMax = 1
  ChanMax = 1
  TTL = 1
  SeenMax = 1
  MaxEvents = 3
  MaxApiEvents = 1
  MaxTime = 1
INVARIANTS
  PipeTypeOK
  VerdictsAreLogged
  LogAgreesWithGrants
  UploadCoversRun
  RetriesAreJustified
PROPERTIES
  ImplementsLossyLog
  EventsSettle
  SignalEndsRun
