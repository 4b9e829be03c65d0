\* One caller; every way to build a Verifier from two kinds of source, with
\* intact or altered assets, checked or not.
SPECIFICATION Spec
CONSTANTS
  SlotsPerHistoricalRoot = 2
  ParisBlock = 3
  ShanghaiTime = 9
  CancunTime = 13
  CapellaSlot = 4
  DenebSlot = 6
  GenesisTime = 1
  SecondsPerSlot = 2
  ElectraSlot = 8
  PowHeader <- MCPowHeader
  BlockRootAt <- MCBlockRootAt
  Callers = {c1}
  Sources = {"honest", "rogue"}
  Timely = {"honest"}
  MaxSources = 2
  Requests <- MCRequests
  Answers <- MCAnswers
  Snapshots <- MCSnapshots
  AlteredAssets <- MCAlteredAssets
  Headers <- MCHeaders
  AskedNumbers = {1, 3, 4, 5, 7}
INVARIANTS
  TypeOK
  OnlyCanonicalBlocks
  AuthPathIsTheEra
PROPERTIES
  OnlyASilentSourceHoldsACall
\* A Verifier whose assets were altered is never built: build panics.
CHECK_DEADLOCK FALSE
