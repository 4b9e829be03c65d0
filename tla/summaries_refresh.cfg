\* Two tasks refresh one snapshot while rollovers pass.
SPECIFICATION RefreshSpec
CONSTANTS
  SlotsPerHistoricalRoot = 2
  ParisBlock = 3
  ShanghaiTime = 9
  CancunTime = 13
  CapellaSlot = 4
  DenebSlot = 6
  GenesisTime = 1
  SecondsPerSlot = 2
  ElectraSlot = 8
  PowHeader <- MCPowHeader
  BlockRootAt <- MCBlockRootAt
  SlotsPerEpoch = 1
  HistoricalRootBoundary = 2
  Refreshers = {"a", "b"}
  Skews <- MCSkews
  StartTime = 9
  MaxTime = 17
  Ticks = {4}
  Careless = TRUE
INVARIANTS
  RefreshTypeOK
  RefreshedErasVerify
PROPERTIES
  OnlyTheOvertakenGoBack
  EndedErasGetCovered
  EveryRefreshEnds
