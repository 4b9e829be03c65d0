--------------------------- MODULE CanonicalChain ---------------------------
(***************************************************************************)
(* The history that eth-historian authenticates, and the commitments to it *)
(* that the crate trusts: the pre-merge epoch roots, the frozen            *)
(* `historical_roots` and the live `historical_summaries`.                 *)
(*                                                                         *)
(* Hashes are modelled under collision resistance: a hash is the value it  *)
(* hashes.  A header stands for its own hash_slow(), and the root of an    *)
(* SSZ tree is a record of the leaves it commits to, each with its         *)
(* generalized index.  `tag` is whatever else distinguishes two trees.     *)
(***************************************************************************)
EXTENDS Integers

CONSTANTS
  SlotsPerHistoricalRoot, \* SLOTS_PER_HISTORICAL_ROOT: 8192 on mainnet
  ParisBlock,             \* MAINNET_PARIS_BLOCK: number of the first PoS block
  ShanghaiTime,           \* MAINNET_SHANGHAI_TIMESTAMP
  CancunTime,             \* MAINNET_CANCUN_TIMESTAMP
  CapellaSlot,            \* CAPELLA_FORK_EPOCH * SLOTS_PER_EPOCH
  DenebSlot,              \* DENEB_FORK_EPOCH * SLOTS_PER_EPOCH
  PowHeader,              \* block number -> canonical header, before Paris
  BlockRootAt             \* slot -> entry of the canonical block_roots (an
                          \* empty slot repeats the entry before it)

(* What the rest of the development needs of mainnet's numbers: an epoch is
   not empty, Capella began on a historical-root boundary
   (6,209,536 = 758 * 8192), so no summary straddles the fork, and the chain
   has a block for every number before Paris. *)
ASSUME MainnetNumbers ==
  /\ SlotsPerHistoricalRoot \in Nat \ {0}
  /\ ParisBlock \in Nat
  /\ ShanghaiTime \in Nat
  /\ CancunTime \in Nat
  /\ ShanghaiTime <= CancunTime
  /\ CapellaSlot \in Nat
  /\ DenebSlot \in Nat
  /\ CapellaSlot % SlotsPerHistoricalRoot = 0
  /\ DOMAIN PowHeader = 0 .. ParisBlock - 1
  /\ \A slot \in DOMAIN BlockRootAt : slot \in Nat

(* Blocks are grouped in epochs and slots in eras of the same length. *)
Era(n)    == n \div SlotsPerHistoricalRoot
Offset(n) == n % SlotsPerHistoricalRoot

Tree(tag, leaves) == [tag |-> tag, leaves |-> leaves]

(* Where an execution payload's block_hash sits in its beacon block: the
   payload grew past 16 fields in Deneb. *)
BellatrixGindex == 3228
DenebGindex     == 6444

BeaconBlock(tag, header, gindex) == Tree(tag, {<<gindex, header>>})

Slots == DOMAIN BlockRootAt

EraSlots(era) ==
  {s \in Slots : Era(s) = era}

(* Lists are sets of <<position, value>> pairs: the (block_hash, total
   difficulty) records of an EpochAccumulator, of which the last pre-merge
   epoch has fewer, and the block_roots of an era. *)
EpochRecords(epoch) ==
  {<<Offset(n), PowHeader[n]>> : n \in {m \in DOMAIN PowHeader : Era(m) = epoch}}

EraRoots(era) == {<<Offset(s), BlockRootAt[s]>> : s \in EraSlots(era)}

(* A phase-0 HistoricalBatch: the block_roots of an era, and the state_roots
   beside them, for which the slot of the state they were taken from stands. *)
EraBatch(era) ==
  [block_roots |-> EraRoots(era), state_roots |-> (era + 1) * SlotsPerHistoricalRoot]

(* Roots of those lists.  The hash of an epoch's record i is the left child of
   entry i in the data half of a depth-15 tree; a HistoricalBatch has its
   block_roots as the left half of a depth-14 tree; the block_summary_root of
   a HistoricalSummary is the depth-13 tree of block_roots alone. *)
EpochRoot(records) ==
  Tree(0, {<<4 * SlotsPerHistoricalRoot + 2 * r[1], r[2]>> : r \in records})

BatchRoot(batch) ==
  Tree(batch.state_roots, {<<2 * SlotsPerHistoricalRoot + r[1], r[2]>> : r \in batch.block_roots})

SummaryRoot(roots) ==
  Tree(0, {<<SlotsPerHistoricalRoot + r[1], r[2]>> : r \in roots})

(* merge_macc.bin and historical_roots.ssz as trin published them. *)
CanonicalAssets ==
  [epochs |-> [e \in {Era(n) : n \in DOMAIN PowHeader} |-> EpochRoot(EpochRecords(e))],
   roots  |-> [i \in 0 .. Era(CapellaSlot) - 1 |-> BatchRoot(EraBatch(i))]]

(* The historical_summaries list of a finalized BeaconState that has rolled
   over n times since Capella. *)
SummariesUpTo(n) ==
  [i \in 0 .. n - 1 |-> SummaryRoot(EraRoots(Era(CapellaSlot) + i))]

(* The trust root of post-Capella verification is out of band: callers supply
   the historical_summaries of a finalized beacon state. *)
Finalized(snapshot) ==
  \A i \in DOMAIN snapshot : snapshot[i] = SummaryRoot(EraRoots(Era(CapellaSlot) + i))

-----------------------------------------------------------------------------
(* The four eras of AuthPath, by where the canonical chain commits a block. *)

AuthPaths == {"HistoricalHashes", "HistoricalRoots",
              "HistoricalSummariesCapella", "HistoricalSummariesDeneb"}

ProposedAt(header, gindex, slots) ==
  \E s \in slots : <<gindex, header>> \in BlockRootAt[s].leaves

CanonicalIn(path, header) ==
  CASE path = "HistoricalHashes" ->
         \E n \in DOMAIN PowHeader : PowHeader[n] = header
    [] path = "HistoricalRoots" ->
         ProposedAt(header, BellatrixGindex, {s \in Slots : s < CapellaSlot})
    [] path = "HistoricalSummariesCapella" ->
         ProposedAt(header, BellatrixGindex, {s \in Slots : s >= CapellaSlot})
    [] path = "HistoricalSummariesDeneb" ->
         ProposedAt(header, DenebGindex, {s \in Slots : s >= CapellaSlot})

Canonical(header) == \E path \in AuthPaths : CanonicalIn(path, header)

=============================================================================
