\* A Rust process decodes receipts behind which there are other bytes.
SPECIFICATION BindSpec
CONSTANTS
  SlotsPerHistoricalRoot = 2
  ParisBlock = 3
  ShanghaiTime = 9
  CancunTime = 13
  CapellaSlot = 4
  DenebSlot = 6
  GenesisTime = 1
  SecondsPerSlot = 2
  ElectraSlot = 8
  PowHeader <- MCPowHeader
  BlockRootAt <- MCBlockRootAt
  Languages = {"rust"}
  Threads = {"t1"}
  Addresses = {1}
  Payloads <- MCPayloads
  Bodies <- MCBodies
  TrieKeys <- MCTrieKeys
  Values <- MCValues
  Askers = {"t1"}
  RawReceipts <- MCRawReceipts
  CgoCheck = FALSE
  EmbeddedAssets <- MCEmbedded
INVARIANTS
  DecodedReceiptsRoundTrip
