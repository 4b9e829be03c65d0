------------------------- MODULE ProofConstruction --------------------------
(***************************************************************************)
(* How a HeaderWithProof is built: construct_pre_merge_proof over an       *)
(* EpochAccumulator, the four build_*_proof functions over a beacon block  *)
(* and the block_roots of its era, and the slot arithmetic that finds the  *)
(* beacon block of an execution block.                                     *)
(***************************************************************************)
EXTENDS HeaderValidator

CONSTANTS GenesisTime,    \* MAINNET_BEACON_GENESIS_TIMESTAMP
          SecondsPerSlot, \* MAINNET_SECONDS_PER_SLOT
          ElectraSlot     \* ELECTRA_FORK_EPOCH * SLOTS_PER_EPOCH

(* On mainnet an execution fork's timestamp is that of its consensus fork's
   first slot: 1_681_338_455 = 1_606_824_023 + 12 * 6_209_536, and likewise
   1_710_338_135 for Deneb. *)
ASSUME SlotClock ==
  /\ GenesisTime \in Nat
  /\ SecondsPerSlot \in Nat \ {0}
  /\ ElectraSlot \in Nat
  /\ CapellaSlot <= DenebSlot /\ DenebSlot <= ElectraSlot
  /\ ShanghaiTime = GenesisTime + CapellaSlot * SecondsPerSlot
  /\ CancunTime = GenesisTime + DenebSlot * SecondsPerSlot

(* What consensus makes of the chain's headers.  A mined block has its number
   and is from before Shanghai.  A payload has a later number, the time of the
   slot at which it was proposed (process_execution_payload) and its place in
   the blocks of that slot's fork, of which none has a second one; what an
   empty slot repeats is that entry. *)
ASSUME ChainHeaders ==
  /\ \A n \in DOMAIN PowHeader :
       /\ PowHeader[n].number = n
       /\ PowHeader[n].timestamp \in Nat
       /\ PowHeader[n].timestamp < ShanghaiTime
  /\ \A s \in Slots :
       LET block == BlockRootAt[s]
       IN  block = Tree(block.tag, block.leaves) /\ \A leaf, other \in block.leaves : leaf = other
  /\ \A s \in Slots : \A leaf \in BlockRootAt[s].leaves :
       /\ leaf[2].number \in Nat
       /\ leaf[2].number >= ParisBlock
       /\ \E slot \in Slots :
            /\ slot <= s
            /\ BlockRootAt[slot] = BlockRootAt[s]
            /\ leaf[2].timestamp = GenesisTime + slot * SecondsPerSlot
            /\ leaf[1] = IF slot >= DenebSlot THEN DenebGindex ELSE BellatrixGindex

(* slot_for_execution_timestamp, for a timestamp that is not before genesis. *)
SlotForExecutionTimestamp(time) == (time - GenesisTime) \div SecondsPerSlot

(* The mutated form takes the first slot of a fork for the last of the one
   before it. *)
ForkForSlot_Late(slot) ==
  CASE slot > ElectraSlot -> "Electra"
    [] slot <= ElectraSlot /\ slot > DenebSlot -> "Deneb"
    [] slot <= DenebSlot /\ slot > CapellaSlot -> "Capella"
    [] slot <= CapellaSlot -> "Bellatrix"

(* fork_for_slot: the consensus fork active at a slot. *)
ForkForSlot(slot) ==
  CASE slot >= ElectraSlot -> "Electra"
    [] slot < ElectraSlot /\ slot >= DenebSlot -> "Deneb"
    [] slot < DenebSlot /\ slot >= CapellaSlot -> "Capella"
    [] slot < CapellaSlot -> "Bellatrix"

PreMergeProof(header, records) ==
  [variant |-> "HistoricalHashes",
   path    |-> Branch(15, EpochRoot(records),
                      4 * SlotsPerHistoricalRoot + 2 * Offset(header.number))]

(* A proof that the block at `slot` is in a tree of its era's block_roots. *)
BeaconProof(variant, path, block, execPath, slot) ==
  [variant |-> variant, path |-> path, beaconRoot |-> block, execPath |-> execPath, slot |-> slot]

HistoricalRootsProof(slot, batch, block) ==
  BeaconProof("HistoricalRoots",
              Branch(14, BatchRoot(batch), 2 * SlotsPerHistoricalRoot + Offset(slot)),
              block, Branch(11, block, BellatrixGindex), slot)

CapellaProof(slot, roots, block) ==
  BeaconProof("HistoricalSummariesCapella",
              Branch(13, SummaryRoot(roots), SlotsPerHistoricalRoot + Offset(slot)),
              block, Branch(11, block, BellatrixGindex), slot)

DenebProof(slot, roots, block) ==
  BeaconProof("HistoricalSummariesDeneb",
              Branch(13, SummaryRoot(roots), SlotsPerHistoricalRoot + Offset(slot)),
              block, Branch(12, block, DenebGindex), slot)

(* The dispatch on the fork that the fetched beacon block decoded under: from
   Capella on, of the batch only the block_roots are used. *)
PostMergeProof(fork, slot, batch, block) ==
  CASE fork = "Bellatrix" -> HistoricalRootsProof(slot, batch, block)
    [] fork = "Capella" -> CapellaProof(slot, batch.block_roots, block)
    [] fork \in {"Deneb", "Electra"} -> DenebProof(slot, batch.block_roots, block)

(* What a source that holds the canonical chain answers for a header. *)
CanonicalProof(header) ==
  IF ~IsParisActive(header.number)
  THEN PreMergeProof(header, EpochRecords(Era(header.number)))
  ELSE LET slot == SlotForExecutionTimestamp(header.timestamp)
       IN  PostMergeProof(ForkForSlot(slot), slot, EraBatch(Era(slot)), BlockRootAt[slot])

=============================================================================
