\* A source answers a pre-Capella block with a post-Capella slot.
SPECIFICATION Spec
CONSTANTS
  SlotsPerHistoricalRoot = 2
  ParisBlock = 3
  ShanghaiTime = 9
  CancunTime = 13
  CapellaSlot = 4
  DenebSlot = 6
  GenesisTime = 1
  SecondsPerSlot = 2
  ElectraSlot = 8
  PowHeader <- MCPowHeader
  BlockRootAt <- MCBlockRootAt
  Callers = {c1}
  Sources = {"honest", "portal"}
  Timely = {"honest", "portal"}
  MaxSources = 2
  Requests <- MCRequests
  Answers <- MCAnswers
  Snapshots <- NoneAndTwo
  AlteredAssets <- NoAlteredAssets
  Headers <- MCHeaders
  AskedNumbers = {3}
INVARIANTS
  HonestSourceSuffices
CHECK_DEADLOCK FALSE
