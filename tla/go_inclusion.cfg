\* A Go process with the default settings asks about inclusion.
SPECIFICATION BindSpec
CONSTANTS
  SlotsPerHistoricalRoot = 2
  ParisBlock = 3
  ShanghaiTime = 9
  CancunTime = 13
  CapellaSlot = 4
  DenebSlot = 6
  GenesisTime = 1
  SecondsPerSlot = 2
  ElectraSlot = 8
  PowHeader <- MCPowHeader
  BlockRootAt <- MCBlockRootAt
  Languages = {"go"}
  Threads = {"t1"}
  Addresses = {1}
  Payloads <- MCPayloads
  Bodies <- MCBodies
  TrieKeys <- MCTrieKeys
  Values <- MCValues
  Askers = {"t1"}
  RawReceipts <- MCRawReceipts
  CgoCheck = TRUE
  EmbeddedAssets <- MCEmbedded
INVARIANTS
  ProvenValuesAreIncluded
\* A panic in Go aborts the process.
CHECK_DEADLOCK FALSE
