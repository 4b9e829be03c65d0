-------------------------- MODULE HeaderValidator ---------------------------
(***************************************************************************)
(* src/header_validator.rs, the SSZ codec of HeaderWithProof and the fork  *)
(* predicates: pure functions from a header with its proof, the embedded   *)
(* assets and a HistoricalSummaries snapshot to a verdict.                 *)
(*                                                                         *)
(* A Merkle branch is the siblings along the path to one position of one  *)
(* tree, whatever that tree holds there, with its length; bytes that fit   *)
(* at two positions are represented at either.                             *)
(***************************************************************************)
EXTENDS CanonicalChain

Branch(len, tree, index) ==
  [len      |-> len,
   siblings |-> Tree(tree.tag, {l \in tree.leaves : l[1] # index}),
   index    |-> index]

JunkRoot == Tree(-1, {})

(* merkle_root_from_branch: what the siblings and the leaf hash to. *)
RootFromBranch(leaf, branch) ==
  Tree(branch.siblings.tag, branch.siblings.leaves \cup {<<branch.index, leaf>>})

(* verify_merkle_proof: the branch has that length, is one of that position,
   and folds over the leaf to `root`. *)
VerifyMerkleProof(leaf, branch, depth, index, root) ==
  /\ branch.len = depth
  /\ branch.index = index
  /\ RootFromBranch(leaf, branch) = root

IsParisActive(number)   == number >= ParisBlock
IsShanghaiActive(time)  == time >= ShanghaiTime
IsCancunActive(time)    == time >= CancunTime

-----------------------------------------------------------------------------
(* The wire format.  BlockHeaderProof is encoded without a tag, so decoding
   chooses the variant from the header; all four are fixed-size containers. *)

WireSize == [HistoricalHashes           |-> 15 * 32,
             HistoricalRoots            |-> (14 + 1 + 11) * 32 + 8,
             HistoricalSummariesCapella |-> (13 + 1 + 11) * 32 + 8,
             HistoricalSummariesDeneb   |-> (13 + 1 + 12) * 32 + 8,
             Unreadable                 |-> 0]

ProofVariant(header) ==
  IF IsCancunActive(header.timestamp)        THEN "HistoricalSummariesDeneb"
  ELSE IF IsShanghaiActive(header.timestamp) THEN "HistoricalSummariesCapella"
  ELSE IF IsParisActive(header.number)       THEN "HistoricalRoots"
  ELSE "HistoricalHashes"

(* HistoricalRoots and HistoricalSummariesDeneb have the same size, so each
   decodes as the other: every hash lands in another field, the slot does not. *)
Misread(variant, proof) ==
  [variant    |-> variant,
   path       |-> Branch(IF variant = "HistoricalRoots" THEN 14 ELSE 13, JunkRoot, 0),
   beaconRoot |-> JunkRoot,
   execPath   |-> Branch(IF variant = "HistoricalRoots" THEN 11 ELSE 12, JunkRoot, 0),
   slot       |-> proof.slot]

Decodable(bytes) ==
  WireSize[bytes.proof.variant] = WireSize[ProofVariant(bytes.header)]

FromSszBytes(bytes) ==
  IF bytes.proof.variant = ProofVariant(bytes.header)
  THEN bytes
  ELSE [header |-> bytes.header, proof |-> Misread(ProofVariant(bytes.header), bytes.proof)]

-----------------------------------------------------------------------------
(* The verdict.  "summary" means that everything up to the read of the
   HistoricalSummaries lock has passed; "panic" is an out-of-bounds index. *)

VerifyPreMergeHeader(assets, header, proof) ==
  IF /\ ~IsParisActive(header.number)
     /\ VerifyMerkleProof(header, proof.path, 15,
          4 * SlotsPerHistoricalRoot + 2 * Offset(header.number),
          assets.epochs[Era(header.number)])
  THEN "ok" ELSE "failed"

(* Without the execution proof the header is not bound to the beacon block. *)
VerifyExecutionBlockProof_Unbound(header, proof, gindex) ==
  proof.execPath.len \in {11, 12}

VerifyExecutionBlockProof(header, proof, gindex) ==
  VerifyMerkleProof(header, proof.execPath, proof.execPath.len, gindex, proof.beaconRoot)

VerifyHistoricalRootsBeaconBlockProof(assets, proof) ==
  LET era == Era(proof.slot)
  IN  IF era \notin DOMAIN assets.roots THEN "panic"
      ELSE IF VerifyMerkleProof(proof.beaconRoot, proof.path, 14,
                2 * SlotsPerHistoricalRoot + Offset(proof.slot),
                assets.roots[era])
           THEN "ok" ELSE "failed"

VerifyMergeToCapellaHeader(assets, header, proof) ==
  IF /\ IsParisActive(header.number)
     /\ ~IsShanghaiActive(header.timestamp)
     /\ VerifyExecutionBlockProof(header, proof, BellatrixGindex)
  THEN VerifyHistoricalRootsBeaconBlockProof(assets, proof)
  ELSE "failed"

(* historical_summary_index is None before Capella: refused before the lock. *)
AwaitSummary(proof) == IF proof.slot >= CapellaSlot THEN "summary" ELSE "failed"

VerifyCapellaToDenebHeader(header, proof) ==
  IF /\ IsShanghaiActive(header.timestamp)
     /\ ~IsCancunActive(header.timestamp)
     /\ VerifyExecutionBlockProof(header, proof, BellatrixGindex)
  THEN AwaitSummary(proof) ELSE "failed"

VerifyPostDenebHeader(header, proof) ==
  IF /\ IsCancunActive(header.timestamp)
     /\ VerifyExecutionBlockProof(header, proof, DenebGindex)
  THEN AwaitSummary(proof) ELSE "failed"

ValidateHeaderWithProof(assets, header, proof) ==
  CASE proof.variant = "HistoricalHashes" -> VerifyPreMergeHeader(assets, header, proof)
    [] proof.variant = "HistoricalRoots"  -> VerifyMergeToCapellaHeader(assets, header, proof)
    [] proof.variant = "HistoricalSummariesCapella" -> VerifyCapellaToDenebHeader(header, proof)
    [] proof.variant = "HistoricalSummariesDeneb"   -> VerifyPostDenebHeader(header, proof)

HistoricalSummaryIndex(slot) == Era(slot - CapellaSlot)

(* get_historical_summary and the proof check that follows it, once the read
   lock is held. *)
VerifyHistoricalSummariesBeaconBlockProof(summaries, proof) ==
  /\ HistoricalSummaryIndex(proof.slot) \in DOMAIN summaries
  /\ VerifyMerkleProof(proof.beaconRoot, proof.path, 13,
       SlotsPerHistoricalRoot + Offset(proof.slot),
       summaries[HistoricalSummaryIndex(proof.slot)])

=============================================================================
