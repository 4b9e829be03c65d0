---------------------- MODULE ProofConstruction_proof -----------------------
(***************************************************************************)
(* Soundness of the header validator, for every chain: an accepted proof   *)
(* exhibits the commitment of the canonical chain that its variant names.  *)
(* Completeness, for every chain: the proof that a faithful source builds  *)
(* for a canonical header decodes as itself and is accepted, from Shanghai *)
(* on by every finalized snapshot that reaches the era of its slot.        *)
(*                                                                         *)
(* The argument.  For soundness: a position of a tree holds one record,    *)
(* and the root in the assets or in the snapshot is that of the chain.     *)
(* For completeness: the four places that name a fork agree, the number    *)
(* and the timestamp of a header (validator, decoder), the slot of its     *)
(* timestamp (source), and the shape of the block proposed there (chain).  *)
(* A quotient is bounded from both sides by QuotientBound.                 *)
(***************************************************************************)
EXTENDS ProofConstruction, TLAPS

-----------------------------------------------------------------------------
(* Soundness of the validator. *)

(* A quotient reaches n exactly when the dividend reaches n divisors. *)
LEMMA QuotientBound ==
  ASSUME NEW x \in Nat, NEW d \in Nat \ {0}, NEW n \in Nat
  PROVE  x \div d \in Nat /\ (x \div d >= n <=> x >= n * d)
<1> DEFINE q == x \div d
           r == x % d
<1>1. q \in Nat /\ r \in 0 .. d - 1 /\ x = d * q + r
  OBVIOUS
<1> HIDE DEF q, r
<1>2. CASE q >= n
  <2>1. d * q >= d * n
    BY <1>1, <1>2
  <2> QED
    BY <1>1, <1>2, <2>1 DEF q
<1>3. CASE q < n
  <2>1. d * (q + 1) <= d * n
    BY <1>1, <1>3
  <2>2. d * (q + 1) = d * q + d
    BY <1>1
  <2>3. x < n * d
    BY <1>1, <2>1, <2>2
  <2> QED
    BY <1>1, <1>3, <2>3 DEF q
<1> QED
  BY <1>1, <1>2, <1>3

(* A slot is in an era before Capella's exactly when it is before Capella,
   because Capella began on an era boundary. *)
LEMMA EraBoundary ==
  ASSUME NEW s \in Nat
  PROVE  Era(s) < Era(CapellaSlot) <=> s < CapellaSlot
BY MainnetNumbers DEF Era

(* Eras are natural numbers. *)
LEMMA EraType ==
  ASSUME NEW s \in Nat
  PROVE  Era(s) \in Nat
BY MainnetNumbers DEF Era

(* What the trees of the three accumulators hold is what was put in them. *)
LEMMA EpochLeaves ==
  ASSUME NEW epoch, NEW index, NEW leaf,
         <<index, leaf>> \in EpochRoot(EpochRecords(epoch)).leaves
  PROVE  \E n \in DOMAIN PowHeader : PowHeader[n] = leaf
BY DEF EpochRoot, EpochRecords, Tree

(* A phase-0 batch root holds the block_roots of its era and nothing else. *)
LEMMA BatchLeaves ==
  ASSUME NEW era, NEW index, NEW leaf,
         <<index, leaf>> \in BatchRoot(EraBatch(era)).leaves
  PROVE  \E s \in Slots : Era(s) = era /\ BlockRootAt[s] = leaf
BY DEF BatchRoot, EraBatch, EraRoots, EraSlots, Tree

(* A block_summary_root holds the block_roots of its era and nothing else. *)
LEMMA SummaryLeaves ==
  ASSUME NEW era, NEW index, NEW leaf,
         <<index, leaf>> \in SummaryRoot(EraRoots(era)).leaves
  PROVE  \E s \in Slots : Era(s) = era /\ BlockRootAt[s] = leaf
BY DEF SummaryRoot, EraRoots, EraSlots, Tree

(* A leaf over which a branch folds to a root is under that root: a tree that
   holds another leaf there has another root, whatever the siblings. *)
LEMMA FoldsToItsLeaf ==
  ASSUME NEW leaf, NEW branch, NEW depth, NEW index, NEW root,
         VerifyMerkleProof(leaf, branch, depth, index, root)
  PROVE  <<index, leaf>> \in root.leaves
BY DEF VerifyMerkleProof, RootFromBranch, Tree

(* An accepted execution proof shows the header in the beacon block. *)
LEMMA ExecutionProofBinds ==
  ASSUME NEW header, NEW proof, NEW gindex,
         VerifyExecutionBlockProof(header, proof, gindex)
  PROVE  <<gindex, header>> \in proof.beaconRoot.leaves
BY FoldsToItsLeaf DEF VerifyExecutionBlockProof

-----------------------------------------------------------------------------

(* A header accepted by verify_pre_merge_header is the canonical block of its
   number's epoch: a proof cannot point it at another record. *)
THEOREM PreMergeSound ==
  ASSUME NEW header, NEW proof, header.number \in Nat,
         VerifyPreMergeHeader(CanonicalAssets, header, proof) = "ok"
  PROVE  CanonicalIn("HistoricalHashes", header)
<1> DEFINE index == 4 * SlotsPerHistoricalRoot + 2 * Offset(header.number)
<1>1. header.number \in DOMAIN PowHeader
  BY MainnetNumbers DEF VerifyPreMergeHeader, IsParisActive
<1>2. CanonicalAssets.epochs[Era(header.number)] = EpochRoot(EpochRecords(Era(header.number)))
  BY <1>1 DEF CanonicalAssets
<1>3. <<index, header>> \in EpochRoot(EpochRecords(Era(header.number))).leaves
  BY <1>2, FoldsToItsLeaf DEF VerifyPreMergeHeader
<1>4. \E n \in DOMAIN PowHeader : PowHeader[n] = header
  BY <1>3, EpochLeaves
<1> QED
  BY <1>4 DEF CanonicalIn

(* A header accepted by verify_merge_to_capella_header was proposed, in a
   Bellatrix payload, at a slot before Capella. *)
THEOREM MergeToCapellaSound ==
  ASSUME NEW header, NEW proof, proof.slot \in Nat,
         VerifyMergeToCapellaHeader(CanonicalAssets, header, proof) = "ok"
  PROVE  CanonicalIn("HistoricalRoots", header)
<1> DEFINE era == Era(proof.slot)
<1>1. /\ <<BellatrixGindex, header>> \in proof.beaconRoot.leaves
      /\ VerifyHistoricalRootsBeaconBlockProof(CanonicalAssets, proof) = "ok"
  BY ExecutionProofBinds DEF VerifyMergeToCapellaHeader
<1>2. era \in 0 .. Era(CapellaSlot) - 1
  BY <1>1 DEF VerifyHistoricalRootsBeaconBlockProof, CanonicalAssets
<1>3. CanonicalAssets.roots[era] = BatchRoot(EraBatch(era))
  BY <1>2 DEF CanonicalAssets
<1>4. <<2 * SlotsPerHistoricalRoot + Offset(proof.slot), proof.beaconRoot>>
        \in BatchRoot(EraBatch(era)).leaves
  BY <1>1, <1>2, <1>3, FoldsToItsLeaf DEF VerifyHistoricalRootsBeaconBlockProof, CanonicalAssets
<1>5. PICK s \in Slots : Era(s) = era /\ BlockRootAt[s] = proof.beaconRoot
  BY <1>4, BatchLeaves
<1>6. s < CapellaSlot
  <2>1. s \in Nat /\ Era(CapellaSlot) \in Nat
    BY MainnetNumbers, EraType DEF Slots
  <2>2. Era(s) < Era(CapellaSlot)
    BY <1>2, <1>5, <2>1
  <2> QED
    BY <2>1, <2>2, EraBoundary
<1>7. ProposedAt(header, BellatrixGindex, {t \in Slots : t < CapellaSlot})
  BY <1>1, <1>5, <1>6 DEF ProposedAt
<1> QED
  BY <1>7 DEF CanonicalIn

(* A beacon block that a finalized summary vouches for, with the header bound
   to it, was proposed at a slot from Capella on. *)
THEOREM SummarySound ==
  ASSUME NEW snapshot, Finalized(snapshot), DOMAIN snapshot \subseteq Nat,
         NEW header, NEW proof, NEW gindex,
         <<gindex, header>> \in proof.beaconRoot.leaves,
         VerifyHistoricalSummariesBeaconBlockProof(snapshot, proof)
  PROVE  ProposedAt(header, gindex, {s \in Slots : s >= CapellaSlot})
<1> DEFINE i == HistoricalSummaryIndex(proof.slot)
<1>1. i \in Nat /\ snapshot[i] = SummaryRoot(EraRoots(Era(CapellaSlot) + i))
  BY DEF Finalized, VerifyHistoricalSummariesBeaconBlockProof
<1>2. <<SlotsPerHistoricalRoot + Offset(proof.slot), proof.beaconRoot>>
        \in SummaryRoot(EraRoots(Era(CapellaSlot) + i)).leaves
  BY <1>1, FoldsToItsLeaf DEF VerifyHistoricalSummariesBeaconBlockProof
<1>3. PICK s \in Slots : Era(s) = Era(CapellaSlot) + i /\ BlockRootAt[s] = proof.beaconRoot
  BY <1>2, SummaryLeaves
<1>4. s >= CapellaSlot
  <2>1. s \in Nat /\ CapellaSlot \in Nat /\ Era(CapellaSlot) \in Nat
    BY MainnetNumbers, EraType DEF Slots
  <2>2. ~(Era(s) < Era(CapellaSlot))
    BY <1>1, <1>3, <2>1
  <2> QED
    BY <2>1, <2>2, EraBoundary
<1> QED
  BY <1>3, <1>4 DEF ProposedAt

-----------------------------------------------------------------------------
(* Completeness of the construction. *)

(* A multiple divides without a remainder. *)
LEMMA ExactQuotient ==
  ASSUME NEW q \in Nat, NEW d \in Nat \ {0}
  PROVE  (q * d) \div d = q
<1> DEFINE x == q * d
<1>1. x \in Nat
  OBVIOUS
<1>2. (q + 1) * d = q * d + d
  OBVIOUS
<1>3. /\ x \div d \in Nat
      /\ x \div d >= q <=> x >= q * d
      /\ x \div d >= q + 1 <=> x >= (q + 1) * d
  BY <1>1, QuotientBound
<1> QED
  BY <1>1, <1>2, <1>3

(* What is divided without a remainder is a multiple. *)
LEMMA DividesExactly ==
  ASSUME NEW x \in Nat, NEW d \in Nat \ {0}
  PROVE  x % d = 0 => x = (x \div d) * d
<1> DEFINE q == x \div d
           r == x % d
<1>1. q \in Nat /\ r \in 0 .. d - 1 /\ x = d * q + r
  OBVIOUS
<1> HIDE DEF q, r
<1>2. r = 0 => x = q * d
  BY <1>1
<1> QED
  BY <1>2 DEF q, r

-----------------------------------------------------------------------------
(* Branches of trees that hold one leaf at a position. *)

(* The siblings of a position and its leaf are the tree. *)
LEMMA BranchFolds ==
  ASSUME NEW tag, NEW leaves, NEW index, NEW leaf, NEW len,
         <<index, leaf>> \in leaves,
         \A other \in leaves : other[1] = index => other = <<index, leaf>>
  PROVE  VerifyMerkleProof(leaf, Branch(len, Tree(tag, leaves), index), len, index, Tree(tag, leaves))
<1>1. {l \in leaves : l[1] # index} \cup {<<index, leaf>>} = leaves
  OBVIOUS
<1> QED
  BY <1>1 DEF VerifyMerkleProof, RootFromBranch, Branch, Tree

(* A list has one value at a position. *)
IsList(pairs) ==
  \A p, q \in pairs : p = <<p[1], p[2]>> /\ p[1] \in Nat /\ (p[1] = q[1] => p = q)

(* The tree of a list of which entry i is at base + width * i. *)
LEMMA ListBranchFolds ==
  ASSUME NEW pairs, IsList(pairs), NEW i, NEW value, <<i, value>> \in pairs,
         NEW base \in Nat, NEW width \in {1, 2}, NEW tag, NEW len
  PROVE  LET leaves == {<<base + width * r[1], r[2]>> : r \in pairs}
             index  == base + width * i
         IN  VerifyMerkleProof(value, Branch(len, Tree(tag, leaves), index), len, index, Tree(tag, leaves))
<1> DEFINE leaves == {<<base + width * r[1], r[2]>> : r \in pairs}
           index  == base + width * i
<1>1. <<index, value>> \in leaves
  OBVIOUS
<1>2. ASSUME NEW r \in pairs, base + width * r[1] = index
      PROVE  <<base + width * r[1], r[2]>> = <<index, value>>
  <2>1. i \in Nat /\ r[1] \in Nat
    BY DEF IsList
  <2>2. r[1] = i
    BY <1>2, <2>1
  <2>3. r = <<i, value>>
    BY <2>2 DEF IsList
  <2> QED
    BY <2>3
<1>3. \A other \in leaves : other[1] = index => other = <<index, value>>
  BY <1>2
<1> HIDE DEF leaves, index
<1> QED
  BY <1>1, <1>3, BranchFolds DEF leaves, index

(* Offsets within one era or epoch tell numbers apart. *)
LEMMA OffsetsDiffer ==
  ASSUME NEW m \in Nat, NEW n \in Nat, Era(m) = Era(n), Offset(m) = Offset(n)
  PROVE  m = n /\ Offset(n) \in Nat
<1>1. SlotsPerHistoricalRoot \in Nat \ {0}
  BY MainnetNumbers
<1>2. ASSUME NEW x \in Nat
      PROVE  x = SlotsPerHistoricalRoot * Era(x) + Offset(x) /\ Offset(x) \in Nat
  BY <1>1, <1>2 DEF Era, Offset
<1> QED
  BY <1>2

(* The records of an epoch and the block_roots of an era are lists. *)
LEMMA EraIsList == ASSUME NEW era PROVE IsList(EraRoots(era))
<1>1. \A s \in EraSlots(era) : s \in Nat /\ Era(s) = era /\ Offset(s) \in Nat
  BY MainnetNumbers, OffsetsDiffer DEF EraSlots, Slots
<1>2. \A s, t \in EraSlots(era) : Offset(s) = Offset(t) => s = t
  BY <1>1, OffsetsDiffer
<1> QED
  BY <1>1, <1>2 DEF IsList, EraRoots

LEMMA EpochIsList == ASSUME NEW epoch PROVE IsList(EpochRecords(epoch))
<1> DEFINE numbers == {m \in DOMAIN PowHeader : Era(m) = epoch}
<1>1. \A n \in numbers : n \in Nat /\ Era(n) = epoch /\ Offset(n) \in Nat
  BY MainnetNumbers, OffsetsDiffer
<1>2. \A m, n \in numbers : Offset(m) = Offset(n) => m = n
  BY <1>1, OffsetsDiffer
<1> QED
  BY <1>1, <1>2 DEF IsList, EpochRecords

(* The branch of each record is one of its epoch's root. *)
LEMMA EpochBranchFolds ==
  ASSUME NEW n \in DOMAIN PowHeader
  PROVE  LET root  == EpochRoot(EpochRecords(Era(n)))
             index == 4 * SlotsPerHistoricalRoot + 2 * Offset(n)
         IN  VerifyMerkleProof(PowHeader[n], Branch(15, root, index), 15, index, root)
<1> DEFINE records == EpochRecords(Era(n))
           base == 4 * SlotsPerHistoricalRoot
<1>1. <<Offset(n), PowHeader[n]>> \in records /\ IsList(records)
  BY EpochIsList DEF EpochRecords
<1>2. base \in Nat
  BY MainnetNumbers
<1> HIDE DEF records, base
<1>3. LET leaves == {<<base + 2 * r[1], r[2]>> : r \in records}
          index  == base + 2 * Offset(n)
      IN  VerifyMerkleProof(PowHeader[n], Branch(15, Tree(0, leaves), index), 15, index, Tree(0, leaves))
  BY <1>1, <1>2, ListBranchFolds
<1> QED
  BY <1>3 DEF EpochRoot, records, base

(* The branches of each slot's block are ones of its era's roots. *)
LEMMA EraBranchesFold ==
  ASSUME NEW slot \in Slots
  PROVE  LET block == BlockRootAt[slot]
             batch == BatchRoot(EraBatch(Era(slot)))
             left  == 2 * SlotsPerHistoricalRoot + Offset(slot)
             root  == SummaryRoot(EraRoots(Era(slot)))
             index == SlotsPerHistoricalRoot + Offset(slot)
         IN  /\ VerifyMerkleProof(block, Branch(14, batch, left), 14, left, batch)
             /\ VerifyMerkleProof(block, Branch(13, root, index), 13, index, root)
<1> DEFINE roots == EraRoots(Era(slot))
           block == BlockRootAt[slot]
           d     == SlotsPerHistoricalRoot
           i     == Offset(slot)
<1>1. <<i, block>> \in roots /\ IsList(roots)
  BY EraIsList DEF EraRoots, EraSlots
<1>2. d \in Nat /\ 2 * d \in Nat /\ i \in Nat /\ \A r \in roots : r[1] \in Nat
  BY <1>1, MainnetNumbers DEF IsList
<1> HIDE DEF roots, block, d, i
<1>3. ASSUME NEW base \in Nat, NEW tag, NEW len
      PROVE  LET leaves == {<<base + r[1], r[2]>> : r \in roots}
             IN  VerifyMerkleProof(block, Branch(len, Tree(tag, leaves), base + i), len, base + i, Tree(tag, leaves))
  <2> DEFINE leaves == {<<base + r[1], r[2]>> : r \in roots}
  <2>1. leaves = {<<base + 1 * r[1], r[2]>> : r \in roots} /\ base + i = base + 1 * i
    BY <1>2
  <2> HIDE DEF leaves
  <2> QED
    BY <1>1, <2>1, ListBranchFolds DEF leaves
<1> QED
  BY <1>2, <1>3 DEF BatchRoot, EraBatch, SummaryRoot, roots, block, d, i

(* The branch of the header of a proposed block is one of that block's root. *)
LEMMA ExecutionBranchFolds ==
  ASSUME NEW slot \in Slots, NEW header, NEW gindex, NEW len,
         <<gindex, header>> \in BlockRootAt[slot].leaves
  PROVE  LET block == BlockRootAt[slot]
         IN  VerifyMerkleProof(header, Branch(len, block, gindex), len, gindex, block)
<1> DEFINE block == BlockRootAt[slot]
<1>1. /\ block = Tree(block.tag, block.leaves)
      /\ \A other \in block.leaves : other = <<gindex, header>>
  BY ChainHeaders
<1> HIDE DEF block
<1> QED
  BY <1>1, BranchFolds DEF block

-----------------------------------------------------------------------------
(* Slots. *)

(* The slot of a timestamp is from a fork on exactly when the timestamp is. *)
LEMMA SlotOfFork ==
  ASSUME NEW time \in Nat, time >= GenesisTime
  PROVE  LET slot == SlotForExecutionTimestamp(time)
         IN  /\ slot \in Nat
             /\ slot >= CapellaSlot <=> IsShanghaiActive(time)
             /\ slot >= DenebSlot <=> IsCancunActive(time)
<1> DEFINE slot == SlotForExecutionTimestamp(time)
           x    == time - GenesisTime
<1>1. x \in Nat /\ CapellaSlot \in Nat /\ DenebSlot \in Nat /\ GenesisTime \in Nat
  BY SlotClock, MainnetNumbers
<1>2. slot = x \div SecondsPerSlot /\ SecondsPerSlot \in Nat \ {0}
  BY SlotClock DEF SlotForExecutionTimestamp
<1> HIDE DEF x, slot
<1>3. /\ slot \in Nat
      /\ slot >= CapellaSlot <=> x >= CapellaSlot * SecondsPerSlot
      /\ slot >= DenebSlot <=> x >= DenebSlot * SecondsPerSlot
  BY <1>1, <1>2, QuotientBound
<1>4. /\ x >= CapellaSlot * SecondsPerSlot <=> time >= ShanghaiTime
      /\ x >= DenebSlot * SecondsPerSlot <=> time >= CancunTime
  <2>1. CapellaSlot * SecondsPerSlot \in Nat /\ DenebSlot * SecondsPerSlot \in Nat
    BY <1>1, <1>2
  <2> QED
    BY <1>1, <2>1, SlotClock DEF x
<1> QED
  BY <1>3, <1>4 DEF IsShanghaiActive, IsCancunActive, slot

(* The timestamp of a slot leads back to it. *)
LEMMA SlotOfItsTime ==
  ASSUME NEW slot \in Nat
  PROVE  /\ GenesisTime + slot * SecondsPerSlot \in Nat
         /\ GenesisTime + slot * SecondsPerSlot >= GenesisTime
         /\ SlotForExecutionTimestamp(GenesisTime + slot * SecondsPerSlot) = slot
<1> DEFINE x == slot * SecondsPerSlot
<1>1. GenesisTime \in Nat /\ SecondsPerSlot \in Nat \ {0} /\ x \in Nat
  BY SlotClock
<1>2. x \div SecondsPerSlot = slot
  BY <1>1, ExactQuotient
<1> HIDE DEF x
<1>3. (GenesisTime + x) - GenesisTime = x
  BY <1>1
<1> QED
  BY <1>1, <1>2, <1>3 DEF SlotForExecutionTimestamp, x

(* From Capella on, summaries are counted from Capella's era. *)
LEMMA SummaryIndexOfSlot ==
  ASSUME NEW slot \in Nat, slot >= CapellaSlot
  PROVE  /\ HistoricalSummaryIndex(slot) \in Nat
         /\ Era(slot) = Era(CapellaSlot) + HistoricalSummaryIndex(slot)
<1> DEFINE d == SlotsPerHistoricalRoot
           c == Era(CapellaSlot)
           x == slot - CapellaSlot
           i == x \div d
<1>1. d \in Nat \ {0} /\ CapellaSlot \in Nat /\ CapellaSlot % d = 0 /\ x \in Nat
  BY MainnetNumbers
<1>2. c \in Nat /\ CapellaSlot = c * d
  <2>1. c \in Nat
    BY <1>1, EraType
  <2>2. CapellaSlot = (CapellaSlot \div d) * d
    BY <1>1, DividesExactly
  <2> QED
    BY <2>1, <2>2 DEF Era
<1>3. i \in Nat /\ x >= i * d /\ ~(x >= (i + 1) * d)
  BY <1>1, QuotientBound
<1> HIDE DEF c, i
<1>4. /\ slot >= (c + i) * d
      /\ ~(slot >= (c + i + 1) * d)
  <2>1. /\ (c + i) * d = c * d + i * d
        /\ (c + i + 1) * d = c * d + (i + 1) * d
    BY <1>1, <1>2, <1>3
  <2>2. i * d \in Nat /\ (i + 1) * d \in Nat /\ c * d \in Nat
    BY <1>1, <1>2, <1>3
  <2> QED
    BY <1>1, <1>2, <1>3, <2>1, <2>2
<1>5. /\ slot \div d \in Nat
      /\ slot \div d >= c + i <=> slot >= (c + i) * d
      /\ slot \div d >= c + i + 1 <=> slot >= (c + i + 1) * d
  BY <1>1, <1>2, <1>3, QuotientBound
<1>6. slot \div d = c + i
  BY <1>2, <1>3, <1>4, <1>5
<1> QED
  BY <1>3, <1>6 DEF c, i, Era, HistoricalSummaryIndex

-----------------------------------------------------------------------------
(* What the builders make for a slot. *)

(* The fork of a slot, by the two boundaries that proofs distinguish. *)
LEMMA ForkOfSlot ==
  ASSUME NEW slot \in Nat
  PROVE  /\ slot < CapellaSlot => ForkForSlot(slot) = "Bellatrix"
         /\ slot >= CapellaSlot /\ slot < DenebSlot => ForkForSlot(slot) = "Capella"
         /\ slot >= DenebSlot => ForkForSlot(slot) \in {"Deneb", "Electra"}
<1>0. /\ CapellaSlot \in Nat /\ DenebSlot \in Nat /\ ElectraSlot \in Nat
      /\ CapellaSlot <= DenebSlot /\ DenebSlot <= ElectraSlot
  BY SlotClock, MainnetNumbers
<1>1. CASE slot >= ElectraSlot
  BY <1>0, <1>1 DEF ForkForSlot
<1>2. CASE slot < ElectraSlot /\ slot >= DenebSlot
  BY <1>0, <1>2 DEF ForkForSlot
<1>3. CASE slot < DenebSlot /\ slot >= CapellaSlot
  BY <1>0, <1>3 DEF ForkForSlot
<1>4. CASE slot < CapellaSlot
  BY <1>0, <1>4 DEF ForkForSlot
<1> QED
  BY <1>0, <1>1, <1>2, <1>3, <1>4

(* The proof for a slot, dispatched on its fork: its variant, its depths, and
   where in the beacon block it shows the header. *)
LEMMA ProofOfSlot ==
  ASSUME NEW slot \in Nat, NEW batch, NEW block
  PROVE  LET proof  == PostMergeProof(ForkForSlot(slot), slot, batch, block)
             index  == SlotsPerHistoricalRoot + Offset(slot)
         IN  /\ proof.slot = slot /\ proof.beaconRoot = block
             /\ slot < CapellaSlot => proof = HistoricalRootsProof(slot, batch, block)
             /\ slot >= CapellaSlot /\ slot < DenebSlot => proof = CapellaProof(slot, batch.block_roots, block)
             /\ slot >= DenebSlot => proof = DenebProof(slot, batch.block_roots, block)
             /\ slot >= CapellaSlot => proof.path = Branch(13, SummaryRoot(batch.block_roots), index)
<1>0. CapellaSlot \in Nat /\ DenebSlot \in Nat /\ CapellaSlot <= DenebSlot
  BY SlotClock, MainnetNumbers
<1>1. CASE slot < CapellaSlot
  <2>1. ForkForSlot(slot) = "Bellatrix"
    BY <1>1, ForkOfSlot
  <2> QED
    BY <1>0, <1>1, <2>1 DEF PostMergeProof, HistoricalRootsProof, BeaconProof
<1>2. CASE slot >= CapellaSlot /\ slot < DenebSlot
  <2>1. ForkForSlot(slot) = "Capella"
    BY <1>2, ForkOfSlot
  <2> QED
    BY <1>0, <1>2, <2>1 DEF PostMergeProof, CapellaProof, BeaconProof
<1>3. CASE slot >= DenebSlot
  <2>1. ForkForSlot(slot) \in {"Deneb", "Electra"}
    BY <1>3, ForkOfSlot
  <2> QED
    BY <1>0, <1>3, <2>1 DEF PostMergeProof, DenebProof, BeaconProof
<1> QED
  BY <1>0, <1>1, <1>2, <1>3

(* A snapshot whose summary of the era, if it has one, is the chain's accepts
   the proof of every slot of that era exactly if it has one. *)
LEMMA SummaryProofVerifies ==
  ASSUME NEW snapshot, NEW slot \in Slots, slot >= CapellaSlot,
         LET i == HistoricalSummaryIndex(slot)
         IN  i \in DOMAIN snapshot => snapshot[i] = SummaryRoot(EraRoots(Era(slot)))
  PROVE  VerifyHistoricalSummariesBeaconBlockProof(snapshot,
           PostMergeProof(ForkForSlot(slot), slot, EraBatch(Era(slot)), BlockRootAt[slot]))
         <=> HistoricalSummaryIndex(slot) \in DOMAIN snapshot
<1> DEFINE root  == SummaryRoot(EraRoots(Era(slot)))
           index == SlotsPerHistoricalRoot + Offset(slot)
           proof == PostMergeProof(ForkForSlot(slot), slot, EraBatch(Era(slot)), BlockRootAt[slot])
<1>1. slot \in Nat
  BY MainnetNumbers DEF Slots
<1>2. /\ proof.slot = slot /\ proof.beaconRoot = BlockRootAt[slot]
      /\ proof.path = Branch(13, root, index)
  BY <1>1, ProofOfSlot DEF EraBatch
<1>3. VerifyMerkleProof(BlockRootAt[slot], Branch(13, root, index), 13, index, root)
  BY EraBranchesFold
<1>4. HistoricalSummaryIndex(slot) \in DOMAIN snapshot => snapshot[HistoricalSummaryIndex(slot)] = root
  OBVIOUS
<1> HIDE DEF proof, root
<1> QED
  BY <1>2, <1>3, <1>4 DEF VerifyHistoricalSummariesBeaconBlockProof, proof

-----------------------------------------------------------------------------
(* Canonical headers. *)

Mined(header) ==
  /\ header.number \in DOMAIN PowHeader
  /\ PowHeader[header.number] = header
  /\ header.timestamp \in Nat
  /\ ~IsShanghaiActive(header.timestamp)

GindexOfSlot(slot) == IF slot >= DenebSlot THEN DenebGindex ELSE BellatrixGindex

(* The slot of its timestamp is the one at which the header was proposed. *)
Proposed(header) ==
  LET slot == SlotForExecutionTimestamp(header.timestamp)
  IN  /\ header.number \in Nat /\ IsParisActive(header.number)
      /\ header.timestamp \in Nat /\ header.timestamp >= GenesisTime
      /\ slot \in Slots
      /\ <<GindexOfSlot(slot), header>> \in BlockRootAt[slot].leaves

(* Whatever slot repeats a block, the block was proposed at or before it, at
   the slot of its header's timestamp. *)
LEMMA ProposedBySlot ==
  ASSUME NEW header, NEW gindex, NEW s \in Slots, <<gindex, header>> \in BlockRootAt[s].leaves
  PROVE  /\ Proposed(header)
         /\ SlotForExecutionTimestamp(header.timestamp) <= s
<1> DEFINE leaf == <<gindex, header>>
<1>1. PICK slot \in Slots :
        /\ slot <= s
        /\ BlockRootAt[slot] = BlockRootAt[s]
        /\ header.timestamp = GenesisTime + slot * SecondsPerSlot
        /\ gindex = GindexOfSlot(slot)
  BY ChainHeaders DEF GindexOfSlot
<1>2. header.number \in Nat /\ header.number >= ParisBlock
  BY ChainHeaders
<1>3. slot \in Nat
  BY MainnetNumbers DEF Slots
<1>4. /\ header.timestamp \in Nat /\ header.timestamp >= GenesisTime
      /\ SlotForExecutionTimestamp(header.timestamp) = slot
  BY <1>1, <1>3, SlotOfItsTime
<1> QED
  BY <1>1, <1>2, <1>4 DEF Proposed, IsParisActive

(* There are two kinds of canonical headers. *)
LEMMA CanonicalKinds ==
  ASSUME NEW header, Canonical(header)
  PROVE  Mined(header) \/ Proposed(header)
<1>1. CASE CanonicalIn("HistoricalHashes", header)
  <2>1. PICK n \in DOMAIN PowHeader : PowHeader[n] = header
    BY <1>1 DEF CanonicalIn
  <2> QED
    BY <2>1, ChainHeaders, MainnetNumbers DEF Mined, IsShanghaiActive
<1>2. CASE \E gindex \in {BellatrixGindex, DenebGindex} : ProposedAt(header, gindex, Slots)
  BY <1>2, ProposedBySlot DEF ProposedAt
<1>3. \A path \in AuthPaths \ {"HistoricalHashes"} :
        CanonicalIn(path, header) =>
          \E gindex \in {BellatrixGindex, DenebGindex} : ProposedAt(header, gindex, Slots)
  BY DEF CanonicalIn, ProposedAt, AuthPaths
<1> QED
  BY <1>1, <1>2, <1>3 DEF Canonical, AuthPaths

(* Number and timestamp tell the two kinds and the eras apart. *)
LEMMA VariantOfKinds ==
  ASSUME NEW header
  PROVE  /\ Mined(header) =>
              /\ header.number \in Nat /\ ~IsParisActive(header.number)
              /\ ProofVariant(header) = "HistoricalHashes"
         /\ Proposed(header) =>
              LET slot == SlotForExecutionTimestamp(header.timestamp)
              IN  /\ slot \in Nat
                  /\ slot >= CapellaSlot <=> IsShanghaiActive(header.timestamp)
                  /\ slot >= DenebSlot <=> IsCancunActive(header.timestamp)
                  /\ ProofVariant(header) = IF slot < CapellaSlot THEN "HistoricalRoots"
                                            ELSE IF slot < DenebSlot THEN "HistoricalSummariesCapella"
                                            ELSE "HistoricalSummariesDeneb"
<1>0. /\ ParisBlock \in Nat /\ ShanghaiTime \in Nat /\ CancunTime \in Nat /\ ShanghaiTime <= CancunTime
      /\ CapellaSlot \in Nat /\ DenebSlot \in Nat /\ CapellaSlot <= DenebSlot
  BY MainnetNumbers, SlotClock
<1>1. ASSUME Mined(header)
      PROVE  /\ header.number \in Nat /\ ~IsParisActive(header.number)
             /\ ProofVariant(header) = "HistoricalHashes"
  <2>1. header.number \in 0 .. ParisBlock - 1
    BY <1>1, MainnetNumbers DEF Mined
  <2>2. header.number \in Nat /\ ~IsParisActive(header.number)
    BY <1>0, <2>1 DEF IsParisActive
  <2>3. ~IsCancunActive(header.timestamp)
    BY <1>0, <1>1 DEF Mined, IsShanghaiActive, IsCancunActive
  <2> QED
    BY <1>1, <2>2, <2>3 DEF Mined, ProofVariant
<1>2. ASSUME Proposed(header)
      PROVE  LET slot == SlotForExecutionTimestamp(header.timestamp)
             IN  /\ slot \in Nat
                 /\ slot >= CapellaSlot <=> IsShanghaiActive(header.timestamp)
                 /\ slot >= DenebSlot <=> IsCancunActive(header.timestamp)
                 /\ ProofVariant(header) = IF slot < CapellaSlot THEN "HistoricalRoots"
                                           ELSE IF slot < DenebSlot THEN "HistoricalSummariesCapella"
                                           ELSE "HistoricalSummariesDeneb"
  <2> DEFINE slot == SlotForExecutionTimestamp(header.timestamp)
  <2>1. /\ slot \in Nat
        /\ slot >= CapellaSlot <=> IsShanghaiActive(header.timestamp)
        /\ slot >= DenebSlot <=> IsCancunActive(header.timestamp)
    BY <1>2, SlotOfFork DEF Proposed
  <2> HIDE DEF slot
  <2> QED
    BY <1>0, <1>2, <2>1 DEF ProofVariant, Proposed, slot
<1> QED
  BY <1>1, <1>2

-----------------------------------------------------------------------------
(* What a faithful source builds is accepted. *)

(* The proof of a mined header, from the whole list of its epoch's records. *)
LEMMA MinedAccepted ==
  ASSUME NEW header, Mined(header)
  PROVE  /\ CanonicalProof(header).variant = "HistoricalHashes"
         /\ ValidateHeaderWithProof(CanonicalAssets, header, CanonicalProof(header)) = "ok"
<1> DEFINE epoch == Era(header.number)
           root  == EpochRoot(EpochRecords(epoch))
           index == 4 * SlotsPerHistoricalRoot + 2 * Offset(header.number)
           proof == CanonicalProof(header)
<1>1. ~IsParisActive(header.number)
  BY VariantOfKinds
<1>2. proof.variant = "HistoricalHashes" /\ proof.path = Branch(15, root, index)
  BY <1>1 DEF CanonicalProof, PreMergeProof
<1>3. VerifyMerkleProof(header, Branch(15, root, index), 15, index, root)
  BY EpochBranchFolds DEF Mined
<1>4. CanonicalAssets.epochs[epoch] = root
  BY DEF Mined, CanonicalAssets
<1> HIDE DEF proof, root
<1>5. VerifyPreMergeHeader(CanonicalAssets, header, proof) = "ok"
  BY <1>1, <1>2, <1>3, <1>4 DEF VerifyPreMergeHeader
<1> QED
  BY <1>2, <1>5 DEF ValidateHeaderWithProof, proof

(* The proof of a proposed header, from the block and the block_roots of the
   slot of its timestamp. *)
LEMMA ProposedAccepted ==
  ASSUME NEW header, Proposed(header)
  PROVE  LET slot  == SlotForExecutionTimestamp(header.timestamp)
             proof == CanonicalProof(header)
         IN  /\ proof = PostMergeProof(ForkForSlot(slot), slot, EraBatch(Era(slot)), BlockRootAt[slot])
             /\ proof.variant = ProofVariant(header)
             /\ ValidateHeaderWithProof(CanonicalAssets, header, proof)
                  = IF slot >= CapellaSlot THEN "summary" ELSE "ok"
<1> DEFINE slot  == SlotForExecutionTimestamp(header.timestamp)
           proof == CanonicalProof(header)
           batch == EraBatch(Era(slot))
           roots == batch.block_roots
           block == BlockRootAt[slot]
           index == 2 * SlotsPerHistoricalRoot + Offset(slot)
<1>0. CapellaSlot \in Nat /\ DenebSlot \in Nat /\ CapellaSlot <= DenebSlot
  BY SlotClock, MainnetNumbers
<1>1. /\ IsParisActive(header.number)
      /\ slot \in Slots /\ slot \in Nat
      /\ slot >= CapellaSlot <=> IsShanghaiActive(header.timestamp)
      /\ slot >= DenebSlot <=> IsCancunActive(header.timestamp)
      /\ <<GindexOfSlot(slot), header>> \in block.leaves
      /\ ProofVariant(header) = IF slot < CapellaSlot THEN "HistoricalRoots"
                                ELSE IF slot < DenebSlot THEN "HistoricalSummariesCapella"
                                ELSE "HistoricalSummariesDeneb"
  BY VariantOfKinds DEF Proposed
<1>2. proof = PostMergeProof(ForkForSlot(slot), slot, batch, block)
  BY <1>1 DEF CanonicalProof
<1>3. /\ slot < CapellaSlot => proof = HistoricalRootsProof(slot, batch, block)
      /\ slot >= CapellaSlot /\ slot < DenebSlot => proof = CapellaProof(slot, roots, block)
      /\ slot >= DenebSlot => proof = DenebProof(slot, roots, block)
  BY <1>1, <1>2, ProofOfSlot
<1>4. slot < CapellaSlot =>
        /\ Era(slot) \in DOMAIN CanonicalAssets.roots
        /\ CanonicalAssets.roots[Era(slot)] = BatchRoot(batch)
  <2> SUFFICES ASSUME slot < CapellaSlot
               PROVE  /\ Era(slot) \in DOMAIN CanonicalAssets.roots
                      /\ CanonicalAssets.roots[Era(slot)] = BatchRoot(batch)
    OBVIOUS
  <2>1. Era(slot) \in 0 .. Era(CapellaSlot) - 1
    <3>1. Era(slot) \in Nat /\ Era(CapellaSlot) \in Nat /\ Era(slot) < Era(CapellaSlot)
      BY <1>0, <1>1, EraType, EraBoundary
    <3> QED
      BY <3>1
  <2>2. CanonicalAssets.roots = [i \in 0 .. Era(CapellaSlot) - 1 |-> BatchRoot(EraBatch(i))]
    BY DEF CanonicalAssets
  <2> HIDE DEF slot
  <2> QED
    BY <2>1, <2>2
<1>5. VerifyMerkleProof(block, Branch(14, BatchRoot(batch), index), 14, index, BatchRoot(batch))
  BY <1>1, EraBranchesFold
<1>6. ASSUME NEW len
      PROVE  VerifyMerkleProof(header, Branch(len, block, GindexOfSlot(slot)), len, GindexOfSlot(slot), block)
  BY <1>1, ExecutionBranchFolds
<1> HIDE DEF proof, slot, roots, block, batch
<1>7. CASE slot < CapellaSlot
  <2>1. proof = HistoricalRootsProof(slot, batch, block)
    BY <1>3, <1>7
  <2>2. GindexOfSlot(slot) = BellatrixGindex
    BY <1>0, <1>1, <1>7 DEF GindexOfSlot
  <2>3. /\ proof.variant = "HistoricalRoots" /\ proof.slot = slot /\ proof.beaconRoot = block
        /\ proof.path = Branch(14, BatchRoot(batch), index)
        /\ proof.execPath = Branch(11, block, BellatrixGindex) /\ proof.execPath.len = 11
    BY <2>1 DEF HistoricalRootsProof, BeaconProof, Branch
  <2>4. VerifyExecutionBlockProof(header, proof, BellatrixGindex)
    BY <1>6, <2>2, <2>3 DEF VerifyExecutionBlockProof
  <2>5. VerifyHistoricalRootsBeaconBlockProof(CanonicalAssets, proof) = "ok"
    BY <1>4, <1>5, <1>7, <2>3 DEF VerifyHistoricalRootsBeaconBlockProof
  <2>6. ValidateHeaderWithProof(CanonicalAssets, header, proof) = "ok"
    BY <1>0, <1>1, <1>7, <2>3, <2>4, <2>5 DEF ValidateHeaderWithProof, VerifyMergeToCapellaHeader
  <2> QED
    BY <1>0, <1>1, <1>2, <1>7, <2>3, <2>6 DEF slot, proof, batch, block
<1>8. CASE slot >= CapellaSlot /\ slot < DenebSlot
  <2>1. proof = CapellaProof(slot, roots, block)
    BY <1>3, <1>8
  <2>2. GindexOfSlot(slot) = BellatrixGindex
    BY <1>0, <1>1, <1>8 DEF GindexOfSlot
  <2>3. /\ proof.variant = "HistoricalSummariesCapella" /\ proof.slot = slot /\ proof.beaconRoot = block
        /\ proof.execPath = Branch(11, block, BellatrixGindex) /\ proof.execPath.len = 11
    BY <2>1 DEF CapellaProof, BeaconProof, Branch
  <2>4. VerifyExecutionBlockProof(header, proof, BellatrixGindex)
    BY <1>6, <2>2, <2>3 DEF VerifyExecutionBlockProof
  <2>5. ValidateHeaderWithProof(CanonicalAssets, header, proof) = "summary"
    BY <1>0, <1>1, <1>8, <2>3, <2>4 DEF ValidateHeaderWithProof, VerifyCapellaToDenebHeader, AwaitSummary
  <2> QED
    BY <1>0, <1>1, <1>2, <1>8, <2>3, <2>5 DEF slot, proof, batch, block
<1>9. CASE slot >= DenebSlot
  <2>1. proof = DenebProof(slot, roots, block)
    BY <1>3, <1>9
  <2>2. GindexOfSlot(slot) = DenebGindex
    BY <1>9 DEF GindexOfSlot
  <2>3. /\ proof.variant = "HistoricalSummariesDeneb" /\ proof.slot = slot /\ proof.beaconRoot = block
        /\ proof.execPath = Branch(12, block, DenebGindex) /\ proof.execPath.len = 12
    BY <2>1 DEF DenebProof, BeaconProof, Branch
  <2>4. VerifyExecutionBlockProof(header, proof, DenebGindex)
    BY <1>6, <2>2, <2>3 DEF VerifyExecutionBlockProof
  <2>5. ValidateHeaderWithProof(CanonicalAssets, header, proof) = "summary"
    BY <1>0, <1>1, <1>9, <2>3, <2>4 DEF ValidateHeaderWithProof, VerifyPostDenebHeader, AwaitSummary
  <2> QED
    BY <1>0, <1>1, <1>2, <1>9, <2>3, <2>5 DEF slot, proof, batch, block
<1> QED
  BY <1>0, <1>1, <1>7, <1>8, <1>9

(* Completeness of the header validator: the proof that a faithful source
   builds for a canonical header decodes as itself; before Shanghai it is
   accepted, and from Shanghai on a finalized snapshot accepts it exactly if it
   has a summary of the era of the header's slot. *)
THEOREM CanonicalProofAccepted ==
  ASSUME NEW hwp, Canonical(hwp.header), hwp.proof = CanonicalProof(hwp.header)
  PROVE  LET slot == SlotForExecutionTimestamp(hwp.header.timestamp)
         IN  /\ Decodable(hwp) /\ FromSszBytes(hwp) = hwp
             /\ ValidateHeaderWithProof(CanonicalAssets, hwp.header, hwp.proof)
                  = IF IsShanghaiActive(hwp.header.timestamp) THEN "summary" ELSE "ok"
             /\ IsShanghaiActive(hwp.header.timestamp) =>
                  \A snapshot : Finalized(snapshot) =>
                    (VerifyHistoricalSummariesBeaconBlockProof(snapshot, hwp.proof)
                       <=> HistoricalSummaryIndex(slot) \in DOMAIN snapshot)
<1> DEFINE header == hwp.header
           proof  == hwp.proof
           slot   == SlotForExecutionTimestamp(header.timestamp)
<1>1. CASE Mined(header)
  <2>1. ~IsShanghaiActive(header.timestamp)
    BY <1>1 DEF Mined
  <2>2. /\ proof.variant = ProofVariant(header)
        /\ ValidateHeaderWithProof(CanonicalAssets, header, proof) = "ok"
    BY <1>1, MinedAccepted, VariantOfKinds
  <2> QED
    BY <2>1, <2>2 DEF Decodable, FromSszBytes
<1>2. CASE Proposed(header)
  <2>1. /\ proof = PostMergeProof(ForkForSlot(slot), slot, EraBatch(Era(slot)), BlockRootAt[slot])
        /\ proof.variant = ProofVariant(header)
        /\ ValidateHeaderWithProof(CanonicalAssets, header, proof)
             = IF slot >= CapellaSlot THEN "summary" ELSE "ok"
    BY <1>2, ProposedAccepted
  <2>2. slot \in Slots /\ slot \in Nat /\ (slot >= CapellaSlot <=> IsShanghaiActive(header.timestamp))
    BY <1>2, VariantOfKinds DEF Proposed
  <2>3. ASSUME IsShanghaiActive(header.timestamp), NEW snapshot, Finalized(snapshot)
        PROVE  VerifyHistoricalSummariesBeaconBlockProof(snapshot, proof)
                 <=> HistoricalSummaryIndex(slot) \in DOMAIN snapshot
    <3>1. Era(slot) = Era(CapellaSlot) + HistoricalSummaryIndex(slot)
      BY <2>2, <2>3, SummaryIndexOfSlot
    <3>2. HistoricalSummaryIndex(slot) \in DOMAIN snapshot =>
            snapshot[HistoricalSummaryIndex(slot)] = SummaryRoot(EraRoots(Era(slot)))
      BY <2>3, <3>1 DEF Finalized
    <3> HIDE DEF slot
    <3> QED
      BY <2>1, <2>2, <2>3, <3>2, SummaryProofVerifies
  <2>4. Decodable(hwp) /\ FromSszBytes(hwp) = hwp
    BY <2>1 DEF Decodable, FromSszBytes
  <2>5. ValidateHeaderWithProof(CanonicalAssets, header, proof)
          = IF IsShanghaiActive(header.timestamp) THEN "summary" ELSE "ok"
    BY <2>1, <2>2
  <2> HIDE DEF proof, slot
  <2> QED
    BY <2>3, <2>4, <2>5 DEF proof, slot
<1> QED
  BY <1>1, <1>2, CanonicalKinds

=============================================================================
