---------------------------- MODULE MCArchiveRpc ----------------------------
(***************************************************************************)
(* An execution node, an epoch directory and a beacon node whose answers   *)
(* are the canonical ones of MCChain, or not.                              *)
(***************************************************************************)
EXTENDS ArchiveRpc, MCChain

Block(header) == [tag |-> "Block", header |-> header]

(* The node may answer with the block, another one, one whose timestamp is not
   of its number's era or before genesis, or not at all; it has no block 8. *)
MCRawBlocks ==
  [n \in 0 .. 8 |->
     IF n = 8 THEN {[tag |-> "Null"]}
     ELSE {Block(CanonicalHeader(n)), Block(CanonicalHeader((n + 3) % 8)),
           Block(Header(n, TimeOf(6), "forged")), Block(Header(n, 0, "forged")),
           [tag |-> "Null"], [tag |-> "Err"], [tag |-> "Malformed"], [tag |-> "Oversized"]}]

(* Files may be under the wrong index, or hold a block that was never mined. *)
NeverMined == {<<0, MCPowHeader[0]>>, <<1, Header(1, TimeOf(6), "forged")>>}
MCAccumulators == [e \in 0 .. 1 |-> {EpochRecords(0), EpochRecords(1), NeverMined}]

(* The fork of each slot's beacon block on this chain. *)
ForkAt(slot) == CASE slot < 4 -> "Bellatrix" [] slot \in {4, 5} -> "Capella"
                  [] slot >= 6 /\ slot < ElectraSlot -> "Deneb"
                  [] slot >= ElectraSlot -> "Electra"
Signed(slot) == [tag |-> "Block", fork |-> ForkAt(slot), root |-> BlockRootAt[slot]]

(* The node has the slot's block, or answers with its neighbour's. *)
MCBeaconBlocks ==
  [s \in 0 .. 8 |-> {[tag |-> "Err"], Signed(s), Signed((s + 1) % 9)}]

=============================================================================
