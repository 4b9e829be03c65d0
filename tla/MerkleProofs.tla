---------------------------- MODULE MerkleProofs -----------------------------
(***************************************************************************)
(* From the builders of the four kinds of proof to the check of each, with *)
(* the hashes computed.  One behaviour: a builder runs for one subject and *)
(* puts its result in a vector of fixed length, where a wrong length is a  *)
(* panic; then a verifier judges a claim about the same tree, which may be *)
(* another leaf, the path of another position, or another index.           *)
(***************************************************************************)
EXTENDS ConsensusContainers

CONSTANT EraDepth   \* SLOTS_PER_HISTORICAL_ROOT = 2^EraDepth, 13 on mainnet

ASSUME EraDepthIsNat == EraDepth \in Nat \ {0}

VARIABLES subject,  \* what the proof is about
          pc,       \* "build", "built", "panic" or "judged"
          proof,    \* what the builder made
          claim     \* the leaf, path and index last judged

vars == <<subject, pc, proof, claim>>

SlotsPerHistoricalRoot == 2^EraDepth

Offsets == 0..(SlotsPerHistoricalRoot - 1)

(* Blocks and states of a fork; a slot of a phase-0 batch or of the
   block_roots behind a HistoricalSummary; a block of a pre-merge epoch, of
   which the last is not full. *)
Subjects ==
  [kind : {"block"}, fork : Forks]
  \cup [kind : {"state"}, fork : {"Electra"}]
  \cup [kind : {"batch", "summary"}, offset : Offsets]
  \cup {s \in [kind : {"epoch"}, offset : Offsets, len : 1..SlotsPerHistoricalRoot] :
          s.offset < s.len}

Claim(leaf, path, index) == [leaf |-> leaf, path |-> path, index |-> index]
NoClaim == Claim(ZeroLeaf, <<>>, 0)

-----------------------------------------------------------------------------
(* The trees of an era.  FixedVectors of roots are full; EpochAccumulator is
   a list, whose length is mixed into its root. *)

BlockRootsOf == [i \in 1..SlotsPerHistoricalRoot |-> Leaf(<<"block_root", i>>)]

StateRootsOf == [i \in 1..SlotsPerHistoricalRoot |-> Leaf(<<"state_root", i>>)]

BlockSummaryRoot == TreeHashRoot(BlockRootsOf, EraDepth)

HistoricalBatchRoot == Hash(BlockSummaryRoot, TreeHashRoot(StateRootsOf, EraDepth))

(* HistoricalBatch::build_block_root_proof *)
BuildBlockRootProof(offset) ==
  Append(BuildMerkleProofForIndex(BlockRootsOf, offset), TreeHashRoot(StateRootsOf, EraDepth))

BlockHash(i)  == Leaf(<<"block_hash", i>>)
Difficulty(i) == Leaf(<<"total_difficulty", i>>)

RecordLeaves(len) == [i \in 1..len |-> Hash(BlockHash(i), Difficulty(i))]

EpochAccumulatorRoot(len) == Hash(TreeHashRoot(RecordLeaves(len), EraDepth), Leaf(<<"len", len>>))

(* construct_pre_merge_proof, once the header matches its record. *)
ConstructPreMergeProof(offset, len) ==
  <<Difficulty(offset + 1)>>
  \o GenerateProof(Create(RecordLeaves(len), EraDepth), offset, EraDepth).proof
  \o <<Leaf(<<"len", len>>)>>

-----------------------------------------------------------------------------
(* The lengths of the FixedVector types. *)

FixedLength(s) ==
  CASE s.kind = "block" -> IF s.fork \in {"Bellatrix", "Capella"} THEN 11 ELSE 12
    [] s.kind = "state"   -> 6
    [] s.kind = "batch"   -> EraDepth + 1
    [] s.kind = "summary" -> EraDepth
    [] s.kind = "epoch"   -> EraDepth + 2

Init ==
  /\ subject \in Subjects
  /\ pc = "build"
  /\ proof = <<>>
  /\ claim = NoClaim

(* FixedVector::new(path).expect(..) *)
Produce(path) ==
  /\ pc = "build"
  /\ IF Len(path) = FixedLength(subject)
     THEN pc' = "built" /\ proof' = path
     ELSE pc' = "panic" /\ UNCHANGED proof
  /\ UNCHANGED <<subject, claim>>

BuildBlock   == subject.kind = "block" /\ Produce(BuildExecutionBlockHashProof(subject.fork))
BuildState   == subject.kind = "state" /\ Produce(BuildHistoricalSummariesProof(subject.fork))
BuildBatch   == subject.kind = "batch" /\ Produce(BuildBlockRootProof(subject.offset))
BuildSummary ==
  subject.kind = "summary" /\ Produce(BuildMerkleProofForIndex(BlockRootsOf, subject.offset))
BuildEpoch   ==
  subject.kind = "epoch" /\ Produce(ConstructPreMergeProof(subject.offset, subject.len))

(* The five checks, each with its own generalized index; the fourth is not
   made in this repository, which only publishes the index. *)
VerifyPreMergeHeader(c, len) ==
  VerifyMerkleProof(c.leaf, c.path, EraDepth + 2,
                    4 * SlotsPerHistoricalRoot + 2 * c.index, EpochAccumulatorRoot(len))

VerifyBellatrixToDenebExecutionBlockProof(c, fork) ==
  VerifyMerkleProof(c.leaf, c.path, Len(c.path), 3228, BeaconBlockRoot[fork])

VerifyPostDenebExecutionBlockProof(c, fork) ==
  VerifyMerkleProof(c.leaf, c.path, Len(c.path), 6444, BeaconBlockRoot[fork])

HistoricalSummariesGindex == 91

VerifyHistoricalSummaries(c, fork) ==
  VerifyMerkleProof(c.leaf, c.path, 6, HistoricalSummariesGindex, BeaconStateRoot[fork])

VerifyHistoricalRootsBeaconBlockProof(c) ==
  VerifyMerkleProof(c.leaf, c.path, EraDepth + 1,
                    2 * SlotsPerHistoricalRoot + c.index, HistoricalBatchRoot)

VerifyHistoricalSummariesBeaconBlockProof(c) ==
  VerifyMerkleProof(c.leaf, c.path, EraDepth, SlotsPerHistoricalRoot + c.index,
                    BlockSummaryRoot)

Accepts(s, c) ==
  CASE s.kind = "epoch"   -> VerifyPreMergeHeader(c, s.len)
    [] s.kind = "batch"   -> VerifyHistoricalRootsBeaconBlockProof(c)
    [] s.kind = "summary" -> VerifyHistoricalSummariesBeaconBlockProof(c)
    [] s.kind = "state"   -> VerifyHistoricalSummaries(c, s.fork)
    [] s.kind = "block"   -> IF s.fork \in {"Bellatrix", "Capella"}
                             THEN VerifyBellatrixToDenebExecutionBlockProof(c, s.fork)
                             ELSE VerifyPostDenebExecutionBlockProof(c, s.fork)

-----------------------------------------------------------------------------
(* Claims: every leaf of the tree, every path of that length through it. *)

Positions(s) ==
  CASE s.kind = "block" -> DOMAIN ExecutionPayload(s.fork)
    [] s.kind = "state" -> DOMAIN BeaconState(s.fork)
    [] s.kind = "epoch" -> 1..s.len
    [] s.kind \in {"batch", "summary"} -> DOMAIN BlockRootsOf

LeafAt(s, i) ==
  CASE s.kind = "block" -> PayloadRoots(ExecutionPayload(s.fork))[i]
    [] s.kind = "state" -> StateRoots(BeaconState(s.fork))[i]
    [] s.kind = "epoch" -> BlockHash(i)
    [] s.kind \in {"batch", "summary"} -> BlockRootsOf[i]

PathTo(s, i) ==
  CASE s.kind = "block" ->
         BuildMerkleProofForIndex(PayloadRoots(ExecutionPayload(s.fork)), i - 1)
         \o BuildExecutionPayloadProof(s.fork) \o BuildBodyRootProof(s.fork)
    [] s.kind = "state" -> BuildMerkleProofForIndex(StateRoots(BeaconState(s.fork)), i - 1)
    [] s.kind = "epoch" -> ConstructPreMergeProof(i - 1, s.len)
    [] s.kind = "batch" -> BuildBlockRootProof(i - 1)
    [] s.kind = "summary" -> BuildMerkleProofForIndex(BlockRootsOf, i - 1)

(* A proof brings its own slot, and a header its number, so that the index is
   any; the index of a field is in the code. *)
Indices(s) == IF s.kind \in {"block", "state"} THEN {0} ELSE Offsets

Judge ==
  /\ pc = "built"
  /\ \E i, j \in Positions(subject), index \in Indices(subject) :
       claim' = Claim(LeafAt(subject, i), PathTo(subject, j), index)
  /\ pc' = "judged"
  /\ UNCHANGED <<subject, proof>>

Finished == pc \in {"judged", "panic"} /\ UNCHANGED vars

Next ==
  \/ BuildBlock \/ BuildState \/ BuildBatch \/ BuildSummary \/ BuildEpoch
  \/ Judge \/ Finished

Spec == Init /\ [][Next]_vars

-----------------------------------------------------------------------------
(* Properties. *)

(* The leaf that a verifier should accept at an index, if there is one. *)
RightLeaf(s, index) ==
  CASE s.kind = "block" -> {FieldRoot("payload", "block_hash")}
    [] s.kind = "state" -> {FieldRoot("state", "historical_summaries")}
    [] s.kind = "epoch" -> {BlockHash(i) : i \in {index + 1} \cap 1..s.len}
    [] s.kind \in {"batch", "summary"} -> {BlockRootsOf[index + 1]}

Builds(kinds) ==
  subject.kind \in kinds =>
    /\ pc # "panic"
    /\ pc = "built" =>
         LET index == IF subject.kind \in {"block", "state"} THEN 0 ELSE subject.offset
         IN  \A leaf \in RightLeaf(subject, index) : Accepts(subject, Claim(leaf, proof, index))

(* The proof of a block hash (build_execution_block_hash_proof) and the proof
   of historical_summaries fit the vectors they are put in and fold to the
   root of the container at 3228, 6444 and 91, for every fork: the leaves that
   a builder spells out are those of the struct, in its order. *)
FieldProofsFold == Builds({"block", "state"})

(* The proof of a block root in its era and of a header in its epoch, full or
   not, fold to the root that is embedded or snapshotted: what MerkleTree
   builds is what tree_hash derives. *)
EraProofsFold == Builds({"batch", "summary", "epoch"})

(* Whatever leaf, path and index are presented, a verifier accepts only the
   leaf that its tree has at that index; in particular not the parent_hash of
   a payload, which is also a header's hash, and no block of another slot. *)
OnlyTheRightLeaf ==
  pc = "judged" /\ Accepts(subject, claim) => claim.leaf \in RightLeaf(subject, claim.index)

=============================================================================
