\* Two threads call eth-historian from each language; Go with cgocheck=0.
SPECIFICATION BindSpec
CONSTANTS
  SlotsPerHistoricalRoot = 2
  ParisBlock = 3
  ShanghaiTime = 9
  CancunTime = 13
  CapellaSlot = 4
  DenebSlot = 6
  GenesisTime = 1
  SecondsPerSlot = 2
  ElectraSlot = 8
  PowHeader <- MCPowHeader
  BlockRootAt <- MCBlockRootAt
  Languages = {"rust", "go", "python", "ts"}
  Threads = {"t1", "t2"}
  Addresses = {1, 2}
  Payloads <- MCPayloads
  Bodies <- MCBodies
  TrieKeys <- MCTrieKeys
  Values <- MCValues
  Askers = {"t1"}
  RawReceipts <- MCRawReceipts
  CgoCheck = FALSE
  EmbeddedAssets <- MCEmbedded
INVARIANTS
  BindTypeOK
  EveryStringHasOneOwner
  InclusionIsOfTheChain
  ProvenValuesAreIncluded
  
  FingerprintsOfAWorkingBuild
  RoundTripLosesOnlyATail
PROPERTIES
  EveryBindingCallEnds
\* A panic in Go aborts the process.
CHECK_DEADLOCK FALSE
