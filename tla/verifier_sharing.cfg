\* Two callers share one Verifier while its snapshot is replaced under them.
SPECIFICATION Spec
CONSTANTS
  SlotsPerHistoricalRoot = 2
  ParisBlock = 3
  ShanghaiTime = 9
  CancunTime = 13
  CapellaSlot = 4
  DenebSlot = 6
  GenesisTime = 1
  SecondsPerSlot = 2
  ElectraSlot = 8
  PowHeader <- MCPowHeader
  BlockRootAt <- MCBlockRootAt
  Callers = {c1, c2}
  Sources = {"honest", "portal", "era1"}
  Timely = {"honest", "portal", "era1"}
  MaxSources = 2
  Requests <- MCRequests
  Answers <- MCAnswers
  Snapshots <- NoneAndTwo
  AlteredAssets <- NoAlteredAssets
  Headers <- MCHeaders
  AskedNumbers = {5}
INVARIANTS
  SnapshotJustifiesVerdict
  HonestSourceSuffices
PROPERTIES
  ImplementsAuthentication
SYMMETRY CallersAreAlike
