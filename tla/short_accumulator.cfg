\* The accumulator of the last, partial epoch is filed under another index.
SPECIFICATION RpcSpec
CONSTANTS
  SlotsPerHistoricalRoot = 2
  ParisBlock = 3
  ShanghaiTime = 9
  CancunTime = 13
  CapellaSlot = 4
  DenebSlot = 6
  GenesisTime = 1
  SecondsPerSlot = 2
  ElectraSlot = 8
  PowHeader <- MCPowHeader
  BlockRootAt <- MCBlockRootAt
  Numbers = {0, 1, 2, 3, 4, 5, 6, 7, 8}
  RawBlocks <- MCRawBlocks
  Accumulators <- MCAccumulators
  BeaconBlocks <- MCBeaconBlocks
  Provider = "documented"
INVARIANTS
  WrongEpochIsAnError
