-------------------------- MODULE MerkleProofs_proof -------------------------
(***************************************************************************)
(* The proofs of MerkleProofs, for every EraDepth: what the builders make  *)
(* is accepted, and whatever leaf and path of the fixed length are         *)
(* presented, only the right leaf is.                                      *)
(***************************************************************************)
EXTENDS MerkleProofs, MerkleTree_proof

-----------------------------------------------------------------------------
(* Generalized indices: the bits that turn a climb through several trees, one
   above the other, are those of the index in each. *)

(* Shifting twice is shifting by the sum. *)
LEMMA ShiftTwice ==
  ASSUME NEW g \in Nat, NEW m \in Nat, NEW k \in Nat
  PROVE  (g \div 2^m) \div 2^k = g \div 2^(m + k)
<1>. DEFINE h == g \div 2^m
            P == {i \in Nat : h \div 2^i = g \div 2^(m + i)}
<1>1. h \in Nat
  BY ShiftStep
<1>2. 0 \in P
  <2>1. m + 0 = m
    OBVIOUS
  <2>2. h \div 2^0 = h
    BY <1>1, ShiftZero
  <2>. QED  BY <2>1, <2>2
<1>3. ASSUME NEW i \in Nat, i \in P
      PROVE  i + 1 \in P
  <2>1. h \div 2^i = g \div 2^(m + i)
    BY <1>3
  <2>2. h \div 2^(i + 1) = (h \div 2^i) \div 2
    <3>. HIDE DEF h
    <3>. QED  BY <1>1, ShiftStep
  <2>3. g \div 2^((m + i) + 1) = (g \div 2^(m + i)) \div 2
    BY ShiftStep
  <2>4. (m + i) + 1 = m + (i + 1)
    OBVIOUS
  <2>5. h \div 2^(i + 1) = g \div 2^(m + (i + 1))
    <3>. HIDE DEF h
    <3>. QED  BY <2>1, <2>2, <2>3, <2>4, Zenon
  <2>. QED  BY <2>5
<1>4. k \in P
  <2>. HIDE DEF P
  <2>. QED  BY <1>2, <1>3, SetInduction
<1>. QED  BY <1>4

(* The rounds of merkle_root_from_branch for a generalized index. *)
Rounds(root, branch, g, n) ==
  \A i \in 1..n : root[i] = IF IthBit(g, i - 1) = 1 THEN Hash(branch[i], root[i - 1])
                            ELSE Hash(root[i - 1], branch[i])

(* The rounds from `from` on are a climb in the tree whose index the bits of
   the generalized index hold there. *)
LEMMA RoundsClimb ==
  ASSUME NEW root, NEW branch, NEW g \in Nat, NEW n \in Nat, Rounds(root, branch, g, n),
         NEW from \in Nat, NEW depth \in Nat, from + depth <= n,
         NEW c \in Nat, NEW index \in Nat, g \div 2^from = Gindex(c, depth, index)
  PROVE  Climbs(root, branch, index, depth, from)
<1>. SUFFICES ASSUME NEW k \in 0..(depth - 1)
              PROVE  root[from + k + 1] = IF IthBit(index, k) = 1
                                          THEN Hash(branch[from + k + 1], root[from + k])
                                          ELSE Hash(root[from + k], branch[from + k + 1])
  BY DEF Climbs
<1>1. /\ k \in Nat /\ from + k + 1 \in 1..n /\ (from + k + 1) - 1 = from + k
      /\ from + k \in Nat
  OBVIOUS
<1>2. root[from + k + 1] = IF IthBit(g, from + k) = 1
                           THEN Hash(branch[from + k + 1], root[from + k])
                           ELSE Hash(root[from + k], branch[from + k + 1])
  BY <1>1 DEF Rounds
<1>3. IthBit(g, from + k) = IthBit(Gindex(c, depth, index), k)
  <2>1. (g \div 2^from) \div 2^k = g \div 2^(from + k)
    BY <1>1, ShiftTwice
  <2>2. IthBit(g \div 2^from, k) = IthBit(g, from + k)
    BY <2>1, Zenon DEF IthBit
  <2>. QED  BY <2>2, Zenon
<1>4. IthBit(Gindex(c, depth, index), k) = IthBit(index, k)
  BY BitOfSum
<1>. QED  BY <1>2, <1>3, <1>4, Zenon

(* A round whose bit is 0 has the node on the left. *)
LEMMA RoundOnTheLeft ==
  ASSUME NEW root, NEW branch, NEW g \in Nat, NEW n \in Nat, Rounds(root, branch, g, n),
         NEW i \in 0..(n - 1), IthBit(g, i) = 0
  PROVE  root[i + 1] = Hash(root[i], branch[i + 1])
<1>1. i + 1 \in 1..n /\ (i + 1) - 1 = i
  OBVIOUS
<1>2. root[i + 1] = IF IthBit(g, i) = 1 THEN Hash(branch[i + 1], root[i])
                    ELSE Hash(root[i], branch[i + 1])
  BY <1>1 DEF Rounds
<1>. QED  BY <1>2

(* A climb from a leaf. *)
ClimbFrom(root, leaf, branch, g, n) == root[0] = leaf /\ Rounds(root, branch, g, n)

(* verify_merkle_proof accepts if, and only if, the climb ends in the root. *)
LEMMA VerifyUnfolds ==
  ASSUME NEW leaf, NEW branch, NEW n \in Nat, Len(branch) = n, NEW g
  PROVE  \E root : /\ ClimbFrom(root, leaf, branch, g, n)
                   /\ \A top : VerifyMerkleProof(leaf, branch, n, g, top) <=> root[n] = top
<1>1. PICK root : /\ root[0] = leaf
                  /\ Rounds(root, branch, g, Len(branch))
                  /\ MerkleRootFromBranch(leaf, branch, g) = root[Len(branch)]
  BY MerkleRootUnfolds DEF Rounds
<1>2. \A top : VerifyMerkleProof(leaf, branch, n, g, top) <=> root[n] = top
  BY <1>1 DEF VerifyMerkleProof
<1>. QED  BY <1>1, <1>2 DEF ClimbFrom

(* The rounds from `from` to `to` end in the root of a tree if, and only if,
   they started at the leaf below the index and met its siblings. *)
AcceptsBetween(root, branch, leaves, depth, index, from, to) ==
  root[to] = TreeHashRoot(leaves, depth)
    <=> root[from] = LeafBelow(leaves, index) /\ HoldsSiblings(branch, leaves, index, depth, from)

(* They do, when the bits of the generalized index are those of the index. *)
LEMMA RoundsAccept ==
  ASSUME NEW root, NEW branch, NEW g \in Nat, NEW n \in Nat, Rounds(root, branch, g, n),
         NEW leaves, NEW depth \in Nat, NEW c \in Nat, NEW index \in 0..(2^depth - 1),
         NEW from \in Nat, NEW to \in 0..n, to = from + depth,
         g \div 2^from = Gindex(c, depth, index)
  PROVE  AcceptsBetween(root, branch, leaves, depth, index, from, to)
<1>1. index \in Nat /\ from + depth <= n
  BY PowerPositive
<1>2. Climbs(root, branch, index, depth, from)
  BY <1>1, RoundsClimb, Zenon
<1>3. ASSUME root[from + depth] = TreeHashRoot(leaves, depth)
      PROVE  root[from] = LeafBelow(leaves, index) /\ HoldsSiblings(branch, leaves, index, depth, from)
  BY <1>2, <1>3, OnlySiblingsLeadToTheRoot
<1>4. ASSUME root[from] = LeafBelow(leaves, index), HoldsSiblings(branch, leaves, index, depth, from)
      PROVE  root[from + depth] = TreeHashRoot(leaves, depth)
  BY <1>2, <1>4, SiblingsLeadToTheRoot
<1>. QED  BY <1>3, <1>4, Zenon DEF AcceptsBetween

(* The bits from the depth of a tree on are those of the multiple. *)
LEMMA BitAbove ==
  ASSUME NEW c \in Nat, NEW depth \in Nat, NEW index \in 0..(2^depth - 1)
  PROVE  Gindex(c, depth, index) \div 2^depth = c
<1>1. index \in Nat /\ 2^depth \in Nat /\ depth \in 0..depth /\ depth - depth = 0
  BY PowerPositive
<1>2. Gindex(c, depth, index) \div 2^depth = Gindex(c, depth - depth, index \div 2^depth)
  BY <1>1, ShiftedSum
<1>3. index \div 2^depth \in 0..(2^(depth - depth) - 1)
  BY <1>1, ShiftBound
<1>4. 2^(depth - depth) = 1
  <2>1. 2^0 = 1
    OBVIOUS
  <2>. QED  BY <1>1, <2>1
<1>5. index \div 2^depth = 0
  BY <1>3, <1>4
<1>6. c * 1 + 0 = c
  OBVIOUS
<1>. QED  BY <1>2, <1>4, <1>5, <1>6, Zenon DEF Gindex

-----------------------------------------------------------------------------
(* The proofs of an era. *)

(* A list of roots as long as the tree has leaves: the depth the builder
   derives is that of the tree, and every index has its leaf. *)
LEMMA FullList ==
  ASSUME NEW depth \in Nat, NEW leaves, leaves = [i \in 1..2^depth |-> leaves[i]],
         NEW index \in 0..(2^depth - 1)
  PROVE  /\ IsBranch(BuildMerkleProofForIndex(leaves, index), depth)
         /\ HoldsSiblings(BuildMerkleProofForIndex(leaves, index), leaves, index, depth, 0)
         /\ LeafBelow(leaves, index) = leaves[index + 1]
<1>1. 2^depth \in Nat
  BY PowerPositive
<1>2. Len(leaves) = 2^depth
  BY <1>1, IsSequence
<1>3. DepthFor(Len(leaves)) = depth
  BY <1>2, DepthForPower
<1>4. LeafBelow(leaves, index) = leaves[index + 1]
  BY <1>1, <1>2 DEF LeafBelow
<1>. QED  BY <1>3, <1>4, BuildsSiblings

(* A tree alone: accepted is the leaf at the index with its siblings. *)
LEMMA VerifyInTree ==
  ASSUME NEW leaf, NEW branch, NEW leaves, NEW depth \in Nat, Len(branch) = depth,
         NEW c \in Nat, NEW index \in 0..(2^depth - 1)
  PROVE  VerifyMerkleProof(leaf, branch, depth, Gindex(c, depth, index), TreeHashRoot(leaves, depth))
           <=> leaf = LeafBelow(leaves, index) /\ HoldsSiblings(branch, leaves, index, depth, 0)
<1>. DEFINE g == Gindex(c, depth, index)
            top == TreeHashRoot(leaves, depth)
<1>1. index \in Nat
  BY PowerPositive
<1>2. g \in Nat
  BY <1>1, GindexType
<1>3. PICK root : /\ ClimbFrom(root, leaf, branch, g, depth)
                  /\ VerifyMerkleProof(leaf, branch, depth, g, top) <=> root[depth] = top
  <2>. HIDE DEF g, top
  <2>. QED  BY VerifyUnfolds
<1>4. g \div 2^0 = g
  BY <1>2, ShiftZero
<1>5. Rounds(root, branch, g, depth) /\ root[0] = leaf
  BY <1>3, Zenon DEF ClimbFrom
<1>6. AcceptsBetween(root, branch, leaves, depth, index, 0, depth)
  <2>1. g \div 2^0 = Gindex(c, depth, index) /\ depth = 0 + depth /\ depth \in 0..depth
    BY <1>4
  <2>. HIDE DEF g
  <2>. QED  BY <1>2, <1>5, <2>1, RoundsAccept
<1>. QED  BY <1>3, <1>5, <1>6, Zenon DEF AcceptsBetween

(* A round whose bit is 0 ends in the hash of two nodes if, and only if, it
   started at the one and met the other. *)
LEMMA RoundAccepts ==
  ASSUME NEW root, NEW branch, NEW g \in Nat, NEW n \in Nat, Rounds(root, branch, g, n),
         NEW i \in 0..(n - 1), NEW j, j = i + 1, IthBit(g, i) = 0, NEW left, NEW right
  PROVE  root[j] = Hash(left, right) <=> root[i] = left /\ branch[j] = right
<1>1. root[j] = Hash(root[i], branch[j])
  BY RoundOnTheLeft
<1>2. ASSUME Hash(root[i], branch[j]) = Hash(left, right)
      PROVE  root[i] = left /\ branch[j] = right
  BY <1>2, HashInjective
<1>. QED  BY <1>1, <1>2, Zenon

(* A tree to the left of a node: accepted is the leaf at the index with its
   siblings and that node. *)
LEMMA VerifyInLeftTree ==
  ASSUME NEW leaf, NEW branch, NEW leaves, NEW depth \in Nat, Len(branch) = depth + 1,
         NEW index \in 0..(2^depth - 1), NEW right
  PROVE  VerifyMerkleProof(leaf, branch, depth + 1, Gindex(2, depth, index),
                           Hash(TreeHashRoot(leaves, depth), right))
           <=> /\ leaf = LeafBelow(leaves, index)
               /\ HoldsSiblings(branch, leaves, index, depth, 0)
               /\ branch[depth + 1] = right
<1>. DEFINE g == Gindex(2, depth, index)
            top == Hash(TreeHashRoot(leaves, depth), right)
<1>1. index \in Nat /\ depth + 1 \in Nat
  BY PowerPositive
<1>2. g \in Nat
  BY <1>1, GindexType
<1>3. PICK root : /\ ClimbFrom(root, leaf, branch, g, depth + 1)
                  /\ VerifyMerkleProof(leaf, branch, depth + 1, g, top) <=> root[depth + 1] = top
  <2>. HIDE DEF g, top
  <2>. QED  BY <1>1, VerifyUnfolds
<1>4. Rounds(root, branch, g, depth + 1) /\ root[0] = leaf
  BY <1>3, Zenon DEF ClimbFrom
<1>5. AcceptsBetween(root, branch, leaves, depth, index, 0, depth)
  <2>1. g \div 2^0 = g
    BY <1>2, ShiftZero
  <2>2. g \div 2^0 = Gindex(2, depth, index) /\ depth = 0 + depth /\ depth \in 0..(depth + 1)
    BY <2>1
  <2>. HIDE DEF g
  <2>. QED  BY <1>1, <1>2, <1>4, <2>2, RoundsAccept
<1>6. IthBit(g, depth) = 0
  <2>1. g \div 2^depth = 2
    BY BitAbove
  <2>. HIDE DEF g
  <2>. QED  BY <2>1 DEF IthBit
<1>7. root[depth + 1] = top
        <=> root[depth] = TreeHashRoot(leaves, depth) /\ branch[depth + 1] = right
  <2>1. depth \in 0..((depth + 1) - 1)
    OBVIOUS
  <2>. HIDE DEF g
  <2>. QED  BY <1>1, <1>2, <1>4, <1>6, <2>1, RoundAccepts
<1>. QED  BY <1>3, <1>4, <1>5, <1>7, Zenon DEF AcceptsBetween

(* The same above a first pair, of which the leaf is the left half: the hash
   of the pair is the leaf at the index. *)
AcceptsPair(leaf, branch, leaves, right, depth, n, g, index) ==
  VerifyMerkleProof(leaf, branch, n, g, Hash(TreeHashRoot(leaves, depth), right))
    <=> /\ Hash(leaf, branch[1]) = LeafBelow(leaves, index)
        /\ HoldsSiblings(branch, leaves, index, depth, 1)
        /\ branch[n] = right

(* So it is for a generalized index whose lowest bit is that of the half. *)
LEMMA VerifyPairInLeftTree ==
  ASSUME NEW leaf, NEW branch, NEW leaves, NEW right, NEW depth \in Nat, NEW n \in Nat,
         NEW g \in Nat, NEW index \in 0..(2^depth - 1),
         n = depth + 2, Len(branch) = n, g = 2 * Gindex(2, depth, index)
  PROVE  AcceptsPair(leaf, branch, leaves, right, depth, n, g, index)
<1>. DEFINE top == Hash(TreeHashRoot(leaves, depth), right)
            h == Gindex(2, depth, index)
<1>1. index \in Nat /\ depth + 1 \in Nat
  BY PowerPositive
<1>2. h \in Nat /\ g = 2 * h
  BY <1>1, GindexType
<1>3. PICK root : /\ ClimbFrom(root, leaf, branch, g, n)
                  /\ VerifyMerkleProof(leaf, branch, n, g, top) <=> root[n] = top
  <2>. HIDE DEF top
  <2>. QED  BY <1>1, VerifyUnfolds
<1>4. Rounds(root, branch, g, n) /\ root[0] = leaf
  BY <1>3, Zenon DEF ClimbFrom
<1>5. g \div 2^0 = g /\ g \div 2^1 = h
  <2>1. g \div 2^0 = g
    BY ShiftZero
  <2>2. g \div 2^(0 + 1) = (g \div 2^0) \div 2
    BY ShiftStep
  <2>. HIDE DEF h
  <2>3. g \div 2 = h
    BY <1>2
  <2>. QED  BY <2>1, <2>2, <2>3
<1>6. AcceptsBetween(root, branch, leaves, depth, index, 1, depth + 1)
  <2>1. g \div 2^1 = Gindex(2, depth, index) /\ depth + 1 = 1 + depth
        /\ depth + 1 \in 0..(n) /\ 1 \in Nat
    BY <1>5
  <2>. QED  BY <1>1, <1>4, <2>1, RoundsAccept
<1>7. IthBit(g, 0) = 0
  <2>. HIDE DEF h
  <2>1. g % 2 = 0
    BY <1>2
  <2>. QED  BY <1>5, <2>1, Zenon DEF IthBit
<1>8. IthBit(g, depth + 1) = 0
  <2>1. h \div 2^depth = 2
    BY BitAbove
  <2>2. (g \div 2^1) \div 2^depth = g \div 2^(1 + depth)
    <3>1. 1 \in Nat
      OBVIOUS
    <3>. QED  BY <3>1, ShiftTwice, Zenon
  <2>3. g \div 2^(depth + 1) = 2
    <3>1. 1 + depth = depth + 1
      OBVIOUS
    <3>. HIDE DEF h
    <3>. QED  BY <1>5, <2>1, <2>2, <3>1, Zenon
  <2>. QED  BY <2>3 DEF IthBit
<1>9. root[n] = top
        <=> root[depth + 1] = TreeHashRoot(leaves, depth) /\ branch[n] = right
  <2>1. depth + 1 \in 0..((n) - 1) /\ n = (depth + 1) + 1
    OBVIOUS
  <2>. QED  BY <1>1, <1>4, <1>8, <2>1, RoundAccepts
<1>10. root[1] = Hash(leaf, branch[1])
  <2>1. 0 \in 0..((n) - 1) /\ 0 + 1 = 1
    OBVIOUS
  <2>2. root[0 + 1] = Hash(root[0], branch[0 + 1])
    BY <1>1, <1>4, <1>7, <2>1, RoundOnTheLeft
  <2>. QED  BY <1>4, <2>1, <2>2, Zenon
<1>. QED  BY <1>3, <1>6, <1>9, <1>10, Zenon DEF AcceptsBetween, AcceptsPair

(* The trees of an era have the depth EraDepth, and an index below it. *)
LEMMA EraTypes ==
  ASSUME NEW index \in Offsets
  PROVE  /\ EraDepth \in Nat
         /\ index \in 0..(2^EraDepth - 1)
         /\ index \in Nat
         /\ 2^EraDepth \in Nat
         /\ SlotsPerHistoricalRoot = 2^EraDepth
BY EraDepthIsNat, PowerPositive DEF Offsets, SlotsPerHistoricalRoot

(* The block roots of an era fill their tree. *)
LEMMA BlockRootsFill ==
  ASSUME NEW index \in Offsets
  PROVE  /\ IsBranch(BuildMerkleProofForIndex(BlockRootsOf, index), EraDepth)
         /\ HoldsSiblings(BuildMerkleProofForIndex(BlockRootsOf, index), BlockRootsOf, index, EraDepth, 0)
         /\ LeafBelow(BlockRootsOf, index) = BlockRootsOf[index + 1]
<1>1. BlockRootsOf = [i \in 1..2^EraDepth |-> BlockRootsOf[i]]
  BY DEF BlockRootsOf, SlotsPerHistoricalRoot
<1>. QED  BY <1>1, EraTypes, FullList

(* HistoricalSummaries: accepted is the block root at the index with its
   siblings, and nothing else. *)
LEMMA SummaryAccepts ==
  ASSUME NEW leaf, NEW path, NEW index \in Offsets
  PROVE  VerifyHistoricalSummariesBeaconBlockProof(Claim(leaf, path, index))
           <=> /\ Len(path) = EraDepth
               /\ leaf = BlockRootsOf[index + 1]
               /\ HoldsSiblings(path, BlockRootsOf, index, EraDepth, 0)
<1>. DEFINE g == Gindex(1, EraDepth, index)
            accepted == VerifyMerkleProof(leaf, path, EraDepth, g, BlockSummaryRoot)
<1>1. VerifyHistoricalSummariesBeaconBlockProof(Claim(leaf, path, index)) <=> accepted
  <2>1. SlotsPerHistoricalRoot + index = g
    BY EraTypes DEF Gindex
  <2>2. VerifyHistoricalSummariesBeaconBlockProof(Claim(leaf, path, index))
          <=> VerifyMerkleProof(leaf, path, EraDepth, SlotsPerHistoricalRoot + index, BlockSummaryRoot)
    BY DEF VerifyHistoricalSummariesBeaconBlockProof, Claim
  <2>. HIDE DEF g
  <2>. QED  BY <2>1, <2>2, Zenon
<1>2. accepted => Len(path) = EraDepth
  BY DEF VerifyMerkleProof
<1>3. ASSUME Len(path) = EraDepth
      PROVE  accepted <=> /\ leaf = LeafBelow(BlockRootsOf, index)
                          /\ HoldsSiblings(path, BlockRootsOf, index, EraDepth, 0)
  <2>1. 1 \in Nat /\ EraDepth \in Nat /\ index \in 0..(2^EraDepth - 1)
    BY EraTypes
  <2>. QED  BY <1>3, <2>1, VerifyInTree DEF BlockSummaryRoot
<1>. HIDE DEF accepted
<1>. QED  BY <1>1, <1>2, <1>3, BlockRootsFill

(* HistoricalBatch: accepted is the block root at the index with its siblings
   and the root of the state roots, and nothing else. *)
LEMMA BatchAccepts ==
  ASSUME NEW leaf, NEW path, NEW index \in Offsets
  PROVE  VerifyHistoricalRootsBeaconBlockProof(Claim(leaf, path, index))
           <=> /\ Len(path) = EraDepth + 1
               /\ leaf = BlockRootsOf[index + 1]
               /\ HoldsSiblings(path, BlockRootsOf, index, EraDepth, 0)
               /\ path[EraDepth + 1] = TreeHashRoot(StateRootsOf, EraDepth)
<1>. DEFINE g == Gindex(2, EraDepth, index)
            accepted == VerifyMerkleProof(leaf, path, EraDepth + 1, g, HistoricalBatchRoot)
<1>1. VerifyHistoricalRootsBeaconBlockProof(Claim(leaf, path, index)) <=> accepted
  <2>1. 2 * SlotsPerHistoricalRoot + index = g
    BY EraTypes DEF Gindex
  <2>2. VerifyHistoricalRootsBeaconBlockProof(Claim(leaf, path, index))
          <=> VerifyMerkleProof(leaf, path, EraDepth + 1, 2 * SlotsPerHistoricalRoot + index,
                                HistoricalBatchRoot)
    BY DEF VerifyHistoricalRootsBeaconBlockProof, Claim
  <2>. HIDE DEF g
  <2>. QED  BY <2>1, <2>2, Zenon
<1>2. accepted => Len(path) = EraDepth + 1
  BY DEF VerifyMerkleProof
<1>3. ASSUME Len(path) = EraDepth + 1
      PROVE  accepted <=> /\ leaf = LeafBelow(BlockRootsOf, index)
                          /\ HoldsSiblings(path, BlockRootsOf, index, EraDepth, 0)
                          /\ path[EraDepth + 1] = TreeHashRoot(StateRootsOf, EraDepth)
  <2>1. EraDepth \in Nat /\ index \in 0..(2^EraDepth - 1)
    BY EraTypes
  <2>. QED  BY <1>3, <2>1, VerifyInLeftTree DEF HistoricalBatchRoot, BlockSummaryRoot
<1>. HIDE DEF accepted
<1>. QED  BY <1>1, <1>2, <1>3, BlockRootsFill, Zenon

(* EpochAccumulator: accepted is a hash that makes a record with the first
   node of the path, with the siblings of that record and the length. *)
LEMMA EpochAccepts ==
  ASSUME NEW leaf, NEW path, NEW index \in Offsets, NEW len
  PROVE  VerifyPreMergeHeader(Claim(leaf, path, index), len)
           <=> /\ Len(path) = EraDepth + 2
               /\ Hash(leaf, path[1]) = LeafBelow(RecordLeaves(len), index)
               /\ HoldsSiblings(path, RecordLeaves(len), index, EraDepth, 1)
               /\ path[EraDepth + 2] = Leaf(<<"len", len>>)
<1>. DEFINE g == 4 * SlotsPerHistoricalRoot + 2 * index
            accepted == VerifyMerkleProof(leaf, path, EraDepth + 2, g, EpochAccumulatorRoot(len))
<1>1. VerifyPreMergeHeader(Claim(leaf, path, index), len) <=> accepted
  BY DEF VerifyPreMergeHeader, Claim
<1>2. g \in Nat /\ g = 2 * Gindex(2, EraDepth, index)
  BY EraTypes DEF Gindex
<1>3. accepted => Len(path) = EraDepth + 2
  BY DEF VerifyMerkleProof
<1>4. ASSUME Len(path) = EraDepth + 2
      PROVE  accepted <=> /\ Hash(leaf, path[1]) = LeafBelow(RecordLeaves(len), index)
                          /\ HoldsSiblings(path, RecordLeaves(len), index, EraDepth, 1)
                          /\ path[EraDepth + 2] = Leaf(<<"len", len>>)
  <2>1. EraDepth \in Nat /\ index \in 0..(2^EraDepth - 1) /\ EraDepth + 2 \in Nat
    BY EraTypes
  <2>. HIDE DEF g
  <2>2. AcceptsPair(leaf, path, RecordLeaves(len), Leaf(<<"len", len>>), EraDepth, EraDepth + 2,
                    g, index)
    BY <1>2, <1>4, <2>1, VerifyPairInLeftTree
  <2>. QED  BY <2>2, Zenon DEF AcceptsPair, EpochAccumulatorRoot
<1>. HIDE DEF accepted
<1>. QED  BY <1>1, <1>3, <1>4, Zenon

(* The siblings in a branch are those in a longer branch that holds it. *)
LEMMA SiblingsInside ==
  ASSUME NEW p, NEW q, NEW leaves, NEW index, NEW depth \in Nat, NEW from \in Nat,
         HoldsSiblings(p, leaves, index, depth, 0), \A i \in 1..depth : q[from + i] = p[i]
  PROVE  HoldsSiblings(q, leaves, index, depth, from)
<1>. SUFFICES ASSUME NEW k \in 0..(depth - 1)
              PROVE  q[from + k + 1] = Levels(leaves, depth)[k][1 + Sibling(index \div 2^k)]
  BY DEF HoldsSiblings
<1>. DEFINE sibling == Levels(leaves, depth)[k][1 + Sibling(index \div 2^k)]
<1>1. k + 1 \in 1..depth /\ from + k + 1 = from + (k + 1) /\ 0 + k + 1 = k + 1
  OBVIOUS
<1>2. p[0 + k + 1] = sibling
  BY Zenon DEF HoldsSiblings
<1>. HIDE DEF sibling
<1>3. p[k + 1] = sibling
  BY <1>1, <1>2, Zenon
<1>. QED  BY <1>1, <1>3 DEF sibling

(* The records of an epoch: one below each index of its blocks, none below
   another. *)
LEMMA RecordBelow ==
  ASSUME NEW len \in 1..SlotsPerHistoricalRoot, NEW index \in Offsets
  PROVE  /\ Len(RecordLeaves(len)) = len
         /\ LeafBelow(RecordLeaves(len), index)
              = IF index < len THEN Hash(BlockHash(index + 1), Difficulty(index + 1)) ELSE ZeroLeaf
<1>1. len \in Nat /\ index \in Nat
  BY EraTypes
<1>2. RecordLeaves(len) = [i \in 1..len |-> RecordLeaves(len)[i]]
  BY DEF RecordLeaves
<1>3. Len(RecordLeaves(len)) = len
  BY <1>1, <1>2, IsSequence
<1>4. CASE index < len
  <2>1. index + 1 \in 1..len /\ index + 1 <= len
    BY <1>1, <1>4
  <2>2. RecordLeaves(len)[index + 1] = Hash(BlockHash(index + 1), Difficulty(index + 1))
    BY <2>1 DEF RecordLeaves
  <2>. QED  BY <1>3, <1>4, <2>1, <2>2, Zenon DEF LeafBelow
<1>5. CASE ~ (index < len)
  <2>1. ~ (index + 1 <= len)
    BY <1>1, <1>5
  <2>. QED  BY <1>3, <1>5, <2>1, Zenon DEF LeafBelow
<1>. QED  BY <1>4, <1>5

EraKinds == {"batch", "summary", "epoch"}

(* Whatever leaf and path are presented for an index of an era or an epoch, a
   verifier accepts only the leaf at that index; beyond the blocks of an epoch
   it accepts none. *)
THEOREM EraAcceptsOnlyTheRightLeaf ==
  ASSUME NEW s \in Subjects, s.kind \in EraKinds, NEW index \in Offsets, NEW leaf, NEW path,
         Accepts(s, Claim(leaf, path, index))
  PROVE  leaf \in RightLeaf(s, index)
<1>1. CASE s.kind = "summary"
  <2>1. VerifyHistoricalSummariesBeaconBlockProof(Claim(leaf, path, index))
    BY <1>1 DEF Accepts
  <2>2. leaf = BlockRootsOf[index + 1]
    BY <2>1, SummaryAccepts
  <2>. QED  BY <1>1, <2>2 DEF RightLeaf
<1>2. CASE s.kind = "batch"
  <2>1. VerifyHistoricalRootsBeaconBlockProof(Claim(leaf, path, index))
    BY <1>2 DEF Accepts
  <2>2. leaf = BlockRootsOf[index + 1]
    BY <2>1, BatchAccepts
  <2>. QED  BY <1>2, <2>2 DEF RightLeaf
<1>3. CASE s.kind = "epoch"
  <2>1. VerifyPreMergeHeader(Claim(leaf, path, index), s.len)
    BY <1>3 DEF Accepts
  <2>2. Hash(leaf, path[1]) = LeafBelow(RecordLeaves(s.len), index)
    BY <2>1, EpochAccepts
  <2>3. s.len \in 1..SlotsPerHistoricalRoot
    BY <1>3 DEF Subjects
  <2>4. CASE index < s.len
    <3>1. Hash(leaf, path[1]) = Hash(BlockHash(index + 1), Difficulty(index + 1))
      BY <2>2, <2>3, <2>4, RecordBelow
    <3>2. leaf = BlockHash(index + 1)
      BY <3>1, HashInjective
    <3>3. index + 1 \in {index + 1} \cap 1..s.len
      BY <2>3, <2>4, EraTypes
    <3>4. leaf \in {BlockHash(i) : i \in {index + 1} \cap 1..s.len}
      BY <3>2, <3>3, Zenon
    <3>. QED  BY <1>3, <3>4 DEF RightLeaf
  <2>5. CASE ~ (index < s.len)
    <3>1. Hash(leaf, path[1]) = ZeroLeaf
      BY <2>2, <2>3, <2>5, RecordBelow
    <3>2. Hash(leaf, path[1]) # ZeroLeaf
      BY DEF Hash, ZeroLeaf, Leaf
    <3>. QED  BY <3>1, <3>2
  <2>. QED  BY <2>4, <2>5
<1>. QED  BY <1>1, <1>2, <1>3 DEF EraKinds

(* The path of a builder for a subject of an era. *)
EraPath(s) ==
  CASE s.kind = "batch"   -> BuildBlockRootProof(s.offset)
    [] s.kind = "summary" -> BuildMerkleProofForIndex(BlockRootsOf, s.offset)
    [] s.kind = "epoch"   -> ConstructPreMergeProof(s.offset, s.len)

(* construct_pre_merge_proof: the difficulty, the siblings of the record and
   the length. *)
LEMMA PreMergeProofHolds ==
  ASSUME NEW len \in 1..SlotsPerHistoricalRoot, NEW offset \in Offsets
  PROVE  LET path == ConstructPreMergeProof(offset, len)
         IN  /\ Len(path) = EraDepth + 2
             /\ path[1] = Difficulty(offset + 1)
             /\ HoldsSiblings(path, RecordLeaves(len), offset, EraDepth, 1)
             /\ path[EraDepth + 2] = Leaf(<<"len", len>>)
<1>. DEFINE first  == <<Difficulty(offset + 1)>>
            branch == GenerateProof(Create(RecordLeaves(len), EraDepth), offset, EraDepth).proof
            last   == <<Leaf(<<"len", len>>)>>
            path   == (first \o branch) \o last
<1>1. ConstructPreMergeProof(offset, len) = path
  BY Zenon DEF ConstructPreMergeProof
<1>2. IsBranch(first, 1) /\ first[1] = Difficulty(offset + 1)
      /\ IsBranch(last, 1) /\ last[1] = Leaf(<<"len", len>>)
  BY SingleBranch
<1>3. IsBranch(branch, EraDepth) /\ HoldsSiblings(branch, RecordLeaves(len), offset, EraDepth, 0)
  <2>1. EraDepth \in Nat /\ offset \in 0..(2^EraDepth - 1) /\ len \in Nat /\ len <= 2^EraDepth
        /\ Len(RecordLeaves(len)) = len
    BY EraTypes, RecordBelow
  <2>. QED  BY <2>1, GeneratesSiblings
<1>. HIDE DEF first, branch, last
<1>4. EraDepth \in Nat /\ 1 + EraDepth \in Nat /\ 1 \in Nat
      /\ 1 \in 1..1 /\ 1 \in 1..(1 + EraDepth) /\ (1 + EraDepth) + 1 = EraDepth + 2
  BY EraTypes
<1>5. Joins(first \o branch, first, 1, branch, EraDepth)
  BY <1>2, <1>3, <1>4, ConcatBranches
<1>6. Joins(path, first \o branch, 1 + EraDepth, last, 1)
  <2>1. IsBranch(first \o branch, 1 + EraDepth)
    BY <1>5 DEF Joins
  <2>. QED  BY <1>2, <1>4, <2>1, ConcatBranches
<1>. HIDE DEF path
<1>7. path[1] = Difficulty(offset + 1)
  BY <1>2, <1>4, <1>5, <1>6 DEF Joins
<1>8. path[(1 + EraDepth) + 1] = Leaf(<<"len", len>>)
  BY <1>2, <1>4, <1>6 DEF Joins
<1>9. HoldsSiblings(path, RecordLeaves(len), offset, EraDepth, 1)
  <2>1. ASSUME NEW i \in 1..EraDepth
        PROVE  path[1 + i] = branch[i]
    <3>1. 1 + i \in 1..(1 + EraDepth)
      BY <1>4
    <3>. QED  BY <1>5, <1>6, <3>1 DEF Joins
  <2>. QED  BY <1>3, <1>4, <2>1, SiblingsInside
<1>10. Len(path) = (1 + EraDepth) + 1
  BY <1>6 DEF Joins
<1>. QED  BY <1>1, <1>4, <1>7, <1>8, <1>9, <1>10, Zenon

(* build_block_root_proof: the siblings of the block root and the root of the
   state roots. *)
LEMMA BlockRootProofHolds ==
  ASSUME NEW offset \in Offsets
  PROVE  LET path == BuildBlockRootProof(offset)
         IN  /\ Len(path) = EraDepth + 1
             /\ HoldsSiblings(path, BlockRootsOf, offset, EraDepth, 0)
             /\ path[EraDepth + 1] = TreeHashRoot(StateRootsOf, EraDepth)
<1>. DEFINE branch == BuildMerkleProofForIndex(BlockRootsOf, offset)
            other  == TreeHashRoot(StateRootsOf, EraDepth)
            path   == Append(branch, other)
<1>1. BuildBlockRootProof(offset) = path
  BY Zenon DEF BuildBlockRootProof
<1>2. IsBranch(branch, EraDepth) /\ HoldsSiblings(branch, BlockRootsOf, offset, EraDepth, 0)
  BY BlockRootsFill
<1>3. EraDepth \in Nat /\ EraDepth + 1 \in Nat /\ 0 \in Nat
  BY EraTypes
<1>. HIDE DEF branch, other
<1>4. /\ Len(path) = EraDepth + 1
      /\ \A i \in 1..EraDepth : path[i] = branch[i]
      /\ path[EraDepth + 1] = other
  BY <1>2, <1>3, AppendToBranch
<1>. HIDE DEF path
<1>5. HoldsSiblings(path, BlockRootsOf, offset, EraDepth, 0)
  <2>1. ASSUME NEW i \in 1..EraDepth
        PROVE  path[0 + i] = branch[i]
    BY <1>3, <1>4
  <2>. QED  BY <1>2, <1>3, <2>1, SiblingsInside
<1>. QED  BY <1>1, <1>4, <1>5, Zenon DEF other

(* Every proof of an era or an epoch has the length of its vector, and is
   accepted for its leaf. *)
THEOREM EraProofsAreAccepted ==
  ASSUME NEW s \in Subjects, s.kind \in EraKinds
  PROVE  /\ Len(EraPath(s)) = FixedLength(s)
         /\ s.offset \in Offsets
         /\ \A leaf \in RightLeaf(s, s.offset) : Accepts(s, Claim(leaf, EraPath(s), s.offset))
<1>1. s.offset \in Offsets
  BY DEF Subjects, EraKinds
<1>. DEFINE path == EraPath(s)
<1>2. CASE s.kind = "summary"
  <2>1. path = BuildMerkleProofForIndex(BlockRootsOf, s.offset)
    BY <1>2 DEF EraPath
  <2>2. IsBranch(path, EraDepth) /\ HoldsSiblings(path, BlockRootsOf, s.offset, EraDepth, 0)
    <3>. HIDE DEF path
    <3>. QED  BY <1>1, <2>1, BlockRootsFill
  <2>. HIDE DEF path
  <2>3. Len(path) = EraDepth
    BY <1>1, <2>2, EraTypes, IsSequence DEF IsBranch
  <2>4. VerifyHistoricalSummariesBeaconBlockProof(Claim(BlockRootsOf[s.offset + 1], path, s.offset))
    BY <1>1, <2>2, <2>3, SummaryAccepts
  <2>5. RightLeaf(s, s.offset) = {BlockRootsOf[s.offset + 1]}
    BY <1>2 DEF RightLeaf
  <2>6. FixedLength(s) = EraDepth
    BY <1>2 DEF FixedLength
  <2>7. \A c : VerifyHistoricalSummariesBeaconBlockProof(c) => Accepts(s, c)
    BY <1>2 DEF Accepts
  <2>. QED  BY <1>1, <2>3, <2>4, <2>5, <2>6, <2>7 DEF path
<1>3. CASE s.kind = "batch"
  <2>1. path = BuildBlockRootProof(s.offset)
    BY <1>3 DEF EraPath
  <2>. HIDE DEF path
  <2>2. /\ Len(path) = EraDepth + 1
        /\ HoldsSiblings(path, BlockRootsOf, s.offset, EraDepth, 0)
        /\ path[EraDepth + 1] = TreeHashRoot(StateRootsOf, EraDepth)
    BY <1>1, <2>1, BlockRootProofHolds
  <2>4. VerifyHistoricalRootsBeaconBlockProof(Claim(BlockRootsOf[s.offset + 1], path, s.offset))
    BY <1>1, <2>2, BatchAccepts
  <2>5. RightLeaf(s, s.offset) = {BlockRootsOf[s.offset + 1]}
    BY <1>3 DEF RightLeaf
  <2>6. FixedLength(s) = EraDepth + 1
    BY <1>3 DEF FixedLength
  <2>7. \A c : VerifyHistoricalRootsBeaconBlockProof(c) => Accepts(s, c)
    BY <1>3 DEF Accepts
  <2>. QED  BY <1>1, <2>2, <2>4, <2>5, <2>6, <2>7 DEF path
<1>4. CASE s.kind = "epoch"
  <2>1. path = ConstructPreMergeProof(s.offset, s.len)
    BY <1>4 DEF EraPath
  <2>2. s.len \in 1..SlotsPerHistoricalRoot /\ s.offset < s.len
    BY <1>4 DEF Subjects
  <2>. HIDE DEF path
  <2>3. /\ Len(path) = EraDepth + 2
        /\ path[1] = Difficulty(s.offset + 1)
        /\ HoldsSiblings(path, RecordLeaves(s.len), s.offset, EraDepth, 1)
        /\ path[EraDepth + 2] = Leaf(<<"len", s.len>>)
    BY <1>1, <2>1, <2>2, PreMergeProofHolds
  <2>4. Hash(BlockHash(s.offset + 1), path[1]) = LeafBelow(RecordLeaves(s.len), s.offset)
    BY <1>1, <2>2, <2>3, RecordBelow
  <2>5. VerifyPreMergeHeader(Claim(BlockHash(s.offset + 1), path, s.offset), s.len)
    BY <1>1, <2>3, <2>4, EpochAccepts
  <2>6. \A leaf \in RightLeaf(s, s.offset) : leaf = BlockHash(s.offset + 1)
    <3>1. RightLeaf(s, s.offset) = {BlockHash(i) : i \in {s.offset + 1} \cap 1..s.len}
      BY <1>4 DEF RightLeaf
    <3>. QED  BY <3>1
  <2>7. FixedLength(s) = EraDepth + 2
    BY <1>4 DEF FixedLength
  <2>8. \A c : VerifyPreMergeHeader(c, s.len) => Accepts(s, c)
    BY <1>4 DEF Accepts
  <2>. QED  BY <1>1, <2>3, <2>5, <2>6, <2>7, <2>8 DEF path
<1>. QED  BY <1>2, <1>3, <1>4 DEF EraKinds

-----------------------------------------------------------------------------
(* The proofs of one field of a container. *)

(* The sizes of the trees of the containers. *)
LEMMA Powers ==
  2^2 = 4 /\ 2^3 = 8 /\ 2^4 = 16 /\ 2^5 = 32 /\ 2^6 = 64
<1>1. 2^(1 + 1) = 2 * 2^1 /\ 2^(2 + 1) = 2 * 2^2 /\ 2^(3 + 1) = 2 * 2^3
      /\ 2^(4 + 1) = 2 * 2^4 /\ 2^(5 + 1) = 2 * 2^5
  BY PowerStep
<1>. QED  BY <1>1

(* The generalized index of the block hash: field 12 of the payload, which is
   field 9 of the body, which is field 4 of the block. *)
LEMMA BlockHashGindex ==
  ASSUME NEW depth \in Nat, NEW g \in Nat, 12 \in 0..(2^depth - 1), g = Gindex(201, depth, 12)
  PROVE  /\ g \div 2^0 = Gindex(201, depth, 12)
         /\ g \div 2^depth = Gindex(12, 4, 9)
         /\ g \div 2^(depth + 4) = Gindex(1, 3, 4)
<1>1. g \div 2^0 = Gindex(201, depth, 12)
  BY ShiftZero
<1>2. g \div 2^depth = 201
  <2>1. 201 \in Nat
    OBVIOUS
  <2>. QED  BY <2>1, BitAbove, Zenon
<1>3. Gindex(12, 4, 9) = 201 /\ Gindex(1, 3, 4) = 12
  BY Powers DEF Gindex
<1>4. g \div 2^(depth + 4) = 12
  <2>1. 4 \in Nat
    OBVIOUS
  <2>2. \A k \in Nat : (g \div 2^depth) \div 2^k = g \div 2^(depth + k)
    BY ShiftTwice, Zenon
  <2>3. 201 \div 2^4 = 12
    <3>1. 201 \div 16 = 12
      OBVIOUS
    <3>. QED  BY <3>1, Powers, Zenon
  <2>4. (g \div 2^depth) \div 2^4 = g \div 2^(depth + 4)
    BY <2>1, <2>2, Zenon
  <2>. QED  BY <1>2, <2>3, <2>4, Zenon
<1>. QED  BY <1>1, <1>2, <1>3, <1>4, Zenon

(* Three trees, one above the other: accepted is the leaf of the lowest with
   the siblings in each. *)
AcceptsInStack(leaf, branch, low, middle, high, depth, n, g) ==
  VerifyMerkleProof(leaf, branch, n, g, TreeHashRoot(high, 3))
    <=> /\ leaf = LeafBelow(low, 12)
        /\ HoldsSiblings(branch, low, 12, depth, 0)
        /\ HoldsSiblings(branch, middle, 9, 4, depth)
        /\ HoldsSiblings(branch, high, 4, 3, depth + 4)

(* So it is for the generalized index of the block hash. *)
LEMMA VerifyInStack ==
  ASSUME NEW leaf, NEW branch, NEW low, NEW middle, NEW high, NEW depth \in Nat,
         NEW n \in Nat, NEW g \in Nat, n = depth + 7, Len(branch) = n,
         12 \in 0..(2^depth - 1), g = Gindex(201, depth, 12),
         LeafBelow(middle, 9) = TreeHashRoot(low, depth),
         LeafBelow(high, 4) = TreeHashRoot(middle, 4)
  PROVE  AcceptsInStack(leaf, branch, low, middle, high, depth, n, g)
<1>1. PICK root : /\ ClimbFrom(root, leaf, branch, g, n)
                  /\ VerifyMerkleProof(leaf, branch, n, g, TreeHashRoot(high, 3))
                       <=> root[n] = TreeHashRoot(high, 3)
  BY VerifyUnfolds
<1>2. Rounds(root, branch, g, n) /\ root[0] = leaf
  BY <1>1, Zenon DEF ClimbFrom
<1>3. /\ 9 \in 0..(2^4 - 1) /\ 4 \in 0..(2^3 - 1)
      /\ 3 \in Nat /\ 4 \in Nat /\ 201 \in Nat /\ 12 \in Nat /\ 1 \in Nat
      /\ depth \in 0..n /\ depth + 4 \in 0..n /\ n \in 0..n /\ 0 \in Nat /\ depth + 4 \in Nat
      /\ depth = 0 + depth /\ n = (depth + 4) + 3
  BY Powers
<1>4. /\ g \div 2^0 = Gindex(201, depth, 12)
      /\ g \div 2^depth = Gindex(12, 4, 9)
      /\ g \div 2^(depth + 4) = Gindex(1, 3, 4)
  BY BlockHashGindex
<1>5. AcceptsBetween(root, branch, low, depth, 12, 0, depth)
  <2>. DEFINE c == 201
  <2>1. c \in Nat /\ g \div 2^0 = Gindex(c, depth, 12)
    BY <1>4
  <2>2. 0 \in Nat /\ depth \in 0..n /\ depth = 0 + depth
    BY <1>3
  <2>. HIDE DEF c
  <2>. QED  BY <1>2, <2>1, <2>2, RoundsAccept, Zenon
<1>6. AcceptsBetween(root, branch, middle, 4, 9, depth, depth + 4)
  <2>. DEFINE c == 12
  <2>1. c \in Nat /\ g \div 2^depth = Gindex(c, 4, 9)
    BY <1>4
  <2>2. 4 \in Nat /\ 9 \in 0..(2^4 - 1) /\ depth + 4 \in 0..n
    BY <1>3
  <2>. HIDE DEF c
  <2>. QED  BY <1>2, <2>1, <2>2, RoundsAccept, Zenon
<1>7. AcceptsBetween(root, branch, high, 3, 4, depth + 4, n)
  <2>1. 1 \in Nat /\ g \div 2^(depth + 4) = Gindex(1, 3, 4)
    BY <1>4
  <2>2. 3 \in Nat /\ 4 \in 0..(2^3 - 1) /\ n \in 0..n /\ depth + 4 \in Nat /\ n = (depth + 4) + 3
    BY <1>3
  <2>. QED  BY <1>2, <2>1, <2>2, RoundsAccept, Zenon
<1>. QED  BY <1>1, <1>2, <1>5, <1>6, <1>7, Zenon DEF AcceptsBetween, AcceptsInStack

-----------------------------------------------------------------------------
(* The fields of the containers, in the structs and in the builders.  Lists of
   names are branches, too. *)

(* A field that some forks do not have adds nothing. *)
LEMMA NothingMore ==
  ASSUME NEW m \in Nat, NEW p, IsBranch(p, m)
  PROVE  p \o <<>> = p
<1>1. PICK S : p \in Seq(S)
  BY IsSequence DEF IsBranch
<1>. QED  BY <1>1, ConcatEmptySeq

(* A list that begins as another one does. *)
Extends(q, p, m, n) == IsBranch(q, n) /\ \A i \in 1..m : q[i] = p[i]

(* Pushing a field is adding a list of one. *)
LEMMA OneMore ==
  ASSUME NEW m \in Nat, NEW n \in Nat, n = m + 1, NEW p, IsBranch(p, m), NEW x
  PROVE  Append(p, x) = p \o <<x>> /\ Extends(Append(p, x), p, m, n)
<1>. DEFINE one == <<x>>
            q == Append(p, x)
            r == p \o one
<1>1. IsBranch(one, 1) /\ one[1] = x
  BY SingleBranch
<1>2. /\ IsBranch(q, n)
      /\ \A i \in 1..m : q[i] = p[i]
      /\ q[n] = x
  BY AppendToBranch
<1>. HIDE DEF one
<1>3. Joins(r, p, m, one, 1)
  BY <1>1, ConcatBranches
<1>. HIDE DEF q, r
<1>4. \A i \in 1..n : q[i] = r[i]
  <2>. TAKE i \in 1..n
  <2>1. CASE i \in 1..m
    BY <1>2, <1>3, <2>1 DEF Joins
  <2>2. CASE i = n
    <3>1. 1 \in 1..1
      OBVIOUS
    <3>2. r[n] = one[1]
      BY <1>3, <3>1 DEF Joins
    <3>. QED  BY <1>1, <1>2, <2>2, <3>2
  <2>. QED  BY <2>1, <2>2
<1>5. IsBranch(r, n)
  BY <1>3 DEF Joins
<1>6. q = r
  BY <1>2, <1>4, <1>5 DEF IsBranch
<1>7. Extends(q, p, m, n)
  BY <1>2 DEF Extends
<1>. QED  BY <1>6, <1>7, Zenon DEF q, r, one

(* What a list continued holds. *)
LEMMA Continued ==
  ASSUME NEW m \in Nat, NEW n \in Nat, NEW k \in Nat, k = m + n,
         NEW p, NEW q, IsBranch(p, m), IsBranch(q, n)
  PROVE  Extends(p \o q, p, m, k)
<1>1. Joins(p \o q, p, m, q, n)
  BY ConcatBranches
<1>. QED  BY <1>1 DEF Joins, Extends

(* The fields that every payload has. *)
PayloadNames ==
  <<"parent_hash", "fee_recipient", "state_root", "receipts_root", "logs_bloom",
    "prev_randao", "block_number", "gas_limit", "gas_used", "timestamp",
    "extra_data", "base_fee_per_gas", "block_hash", "transactions">>

PayloadFields(fork) == IF fork = "Bellatrix" THEN 14 ELSE IF fork = "Capella" THEN 15 ELSE 17

(* The struct and the builder list the same fields, of which the thirteenth is
   the block hash. *)
LEMMA PayloadNamesAgree ==
  ASSUME NEW fork \in Forks
  PROVE  /\ IsBranch(ExecutionPayload(fork), PayloadFields(fork))
         /\ ExecutionPayload(fork)[13] = "block_hash"
         /\ BlockHashLeaves(fork) = PayloadRoots(ExecutionPayload(fork))
<1>. DEFINE p == PayloadNames
            capella == Append(p, "withdrawals")
            blobs == <<"blob_gas_used", "excess_blob_gas">>
            deneb == capella \o blobs
<1>1. IsBranch(p, 14) /\ p[13] = "block_hash"
  <2>1. p[13] = "block_hash"
    BY DEF PayloadNames
  <2>2. p = [i \in 1..14 |-> p[i]]
    BY DEF PayloadNames
  <2>. QED  BY <2>1, <2>2, Zenon DEF IsBranch
<1>2. IsBranch(blobs, 2)
  BY DEF IsBranch
<1>. HIDE DEF p, blobs
<1>3. capella = p \o <<"withdrawals">> /\ IsBranch(capella, 15) /\ capella[13] = "block_hash"
  <2>1. 14 \in Nat /\ 15 \in Nat /\ 15 = 14 + 1
    OBVIOUS
  <2>2. capella = p \o <<"withdrawals">> /\ Extends(capella, p, 14, 15)
    BY <1>1, <2>1, OneMore
  <2>. HIDE DEF capella
  <2>3. capella[13] = "block_hash"
    <3>1. 13 \in 1..14
      OBVIOUS
    <3>. QED  BY <1>1, <2>2, <3>1, Zenon DEF Extends
  <2>. QED  BY <2>2, <2>3 DEF Extends
<1>. HIDE DEF capella
<1>4. IsBranch(deneb, 17) /\ deneb[13] = "block_hash"
  <2>1. 15 \in Nat /\ 2 \in Nat /\ 17 \in Nat /\ 17 = 15 + 2
    OBVIOUS
  <2>2. Extends(deneb, capella, 15, 17)
    BY <1>2, <1>3, <2>1, Continued
  <2>. HIDE DEF deneb
  <2>3. deneb[13] = capella[13]
    <3>1. 13 \in 1..15
      OBVIOUS
    <3>. QED  BY <2>2, <3>1, Zenon DEF Extends
  <2>. QED  BY <1>3, <2>2, <2>3, Zenon DEF Extends
<1>5. p \o <<>> = p /\ capella \o <<>> = capella
  BY <1>1, <1>3, NothingMore
<1>6. ExecutionPayload(fork) = (p \o Only({"Capella", "Deneb", "Electra"}, fork, <<"withdrawals">>))
                               \o Only({"Deneb", "Electra"}, fork, blobs)
  BY Zenon DEF ExecutionPayload, PayloadNames, p, blobs
<1>7. BlockHashLeaves(fork) = PayloadRoots([Bellatrix |-> p, Capella |-> capella,
                                            Deneb |-> deneb, Electra |-> deneb][fork])
  BY Zenon DEF BlockHashLeaves, PayloadNames, p, capella, blobs
<1>. HIDE DEF deneb
<1>8. CASE fork = "Bellatrix"
  <2>1. ExecutionPayload(fork) = p
    BY <1>5, <1>6, <1>8 DEF Only
  <2>2. BlockHashLeaves(fork) = PayloadRoots(p)
    BY <1>7, <1>8
  <2>. QED  BY <1>1, <1>8, <2>1, <2>2 DEF PayloadFields
<1>9. CASE fork = "Capella"
  <2>1. ExecutionPayload(fork) = capella
    BY <1>3, <1>5, <1>6, <1>9 DEF Only
  <2>2. BlockHashLeaves(fork) = PayloadRoots(capella)
    BY <1>7, <1>9
  <2>. QED  BY <1>3, <1>9, <2>1, <2>2 DEF PayloadFields
<1>10. CASE fork \in {"Deneb", "Electra"}
  <2>1. ExecutionPayload(fork) = deneb
    BY <1>3, <1>6, <1>10 DEF Only, deneb
  <2>2. BlockHashLeaves(fork) = PayloadRoots(deneb)
    BY <1>7, <1>10
  <2>. QED  BY <1>4, <1>10, <2>1, <2>2 DEF PayloadFields
<1>. QED  BY <1>8, <1>9, <1>10 DEF Forks

(* The fields that every body has. *)
BodyNames ==
  <<"randao_reveal", "eth1_data", "graffiti", "proposer_slashings",
    "attester_slashings", "attestations", "deposits", "voluntary_exits",
    "sync_aggregate", "execution_payload">>

BodyFields(fork) ==
  IF fork = "Bellatrix" THEN 10
  ELSE IF fork = "Capella" THEN 11
  ELSE IF fork = "Deneb" THEN 12 ELSE 13

(* The struct and the builder list the same fields, of which the tenth is the
   payload. *)
LEMMA BodyNamesAgree ==
  ASSUME NEW fork \in Forks
  PROVE  /\ IsBranch(BeaconBlockBody(fork), BodyFields(fork))
         /\ BeaconBlockBody(fork)[10] = "execution_payload"
         /\ ExecutionPayloadLeaves(fork) = BodyRoots(fork, BeaconBlockBody(fork))
<1>. DEFINE b == BodyNames
            capella == Append(b, "bls_to_execution_changes")
            deneb   == Append(capella, "blob_kzg_commitments")
            electra == Append(deneb, "execution_requests")
<1>1. IsBranch(b, 10) /\ b[10] = "execution_payload"
  <2>1. b[10] = "execution_payload"
    BY DEF BodyNames
  <2>2. b = [i \in 1..10 |-> b[i]]
    BY DEF BodyNames
  <2>. QED  BY <2>1, <2>2, Zenon DEF IsBranch
<1>. HIDE DEF b
<1>0. /\ 10 \in Nat /\ 11 \in Nat /\ 12 \in Nat /\ 13 \in Nat
      /\ 11 = 10 + 1 /\ 12 = 11 + 1 /\ 13 = 12 + 1
      /\ 10 \in 1..10 /\ 10 \in 1..11 /\ 10 \in 1..12
  OBVIOUS
<1>2. /\ capella = b \o <<"bls_to_execution_changes">>
      /\ IsBranch(capella, 11) /\ capella[10] = "execution_payload"
  <2>1. capella = b \o <<"bls_to_execution_changes">> /\ Extends(capella, b, 10, 11)
    BY <1>0, <1>1, OneMore
  <2>. QED  BY <1>0, <1>1, <2>1, Zenon DEF Extends
<1>. HIDE DEF capella
<1>3. /\ deneb = capella \o <<"blob_kzg_commitments">>
      /\ IsBranch(deneb, 12) /\ deneb[10] = "execution_payload"
  <2>1. deneb = capella \o <<"blob_kzg_commitments">> /\ Extends(deneb, capella, 11, 12)
    BY <1>0, <1>2, OneMore
  <2>. QED  BY <1>0, <1>2, <2>1, Zenon DEF Extends
<1>. HIDE DEF deneb
<1>4. /\ electra = deneb \o <<"execution_requests">>
      /\ IsBranch(electra, 13) /\ electra[10] = "execution_payload"
  <2>1. electra = deneb \o <<"execution_requests">> /\ Extends(electra, deneb, 12, 13)
    BY <1>0, <1>3, OneMore
  <2>. QED  BY <1>0, <1>3, <2>1, Zenon DEF Extends
<1>. HIDE DEF electra
<1>5. b \o <<>> = b /\ capella \o <<>> = capella /\ deneb \o <<>> = deneb
  BY <1>1, <1>2, <1>3, NothingMore
<1>6. BeaconBlockBody(fork)
        = ((b \o Only({"Capella", "Deneb", "Electra"}, fork, <<"bls_to_execution_changes">>))
             \o Only({"Deneb", "Electra"}, fork, <<"blob_kzg_commitments">>))
             \o Only({"Electra"}, fork, <<"execution_requests">>)
  BY Zenon DEF BeaconBlockBody, BodyNames, b
<1>7. ExecutionPayloadLeaves(fork)
        = BodyRoots(fork, [Bellatrix |-> b, Capella |-> capella,
                           Deneb |-> deneb, Electra |-> electra][fork])
  BY Zenon DEF ExecutionPayloadLeaves, BodyNames, b, capella, deneb, electra
<1>8. CASE fork = "Bellatrix"
  <2>1. BeaconBlockBody(fork) = b
    BY <1>5, <1>6, <1>8 DEF Only
  <2>2. ExecutionPayloadLeaves(fork) = BodyRoots(fork, b)
    BY <1>7, <1>8
  <2>. QED  BY <1>1, <1>8, <2>1, <2>2 DEF BodyFields
<1>9. CASE fork = "Capella"
  <2>1. BeaconBlockBody(fork) = capella
    BY <1>2, <1>5, <1>6, <1>9 DEF Only
  <2>2. ExecutionPayloadLeaves(fork) = BodyRoots(fork, capella)
    BY <1>7, <1>9
  <2>. QED  BY <1>2, <1>9, <2>1, <2>2 DEF BodyFields
<1>10. CASE fork = "Deneb"
  <2>1. BeaconBlockBody(fork) = deneb
    BY <1>2, <1>3, <1>5, <1>6, <1>10 DEF Only
  <2>2. ExecutionPayloadLeaves(fork) = BodyRoots(fork, deneb)
    BY <1>7, <1>10
  <2>. QED  BY <1>3, <1>10, <2>1, <2>2 DEF BodyFields
<1>11. CASE fork = "Electra"
  <2>1. BeaconBlockBody(fork) = electra
    BY <1>2, <1>3, <1>4, <1>6, <1>11 DEF Only
  <2>2. ExecutionPayloadLeaves(fork) = BodyRoots(fork, electra)
    BY <1>7, <1>11
  <2>. QED  BY <1>4, <1>11, <2>1, <2>2 DEF BodyFields
<1>. QED  BY <1>8, <1>9, <1>10, <1>11 DEF Forks

(* The fields of an Electra state: those of Bellatrix, of which Capella added
   three, and those that Electra added. *)
BellatrixStateNames ==
  <<"genesis_time", "genesis_validators_root", "slot", "fork", "latest_block_header",
    "block_roots", "state_roots", "historical_roots", "eth1_data", "eth1_data_votes",
    "eth1_deposit_index", "validators", "balances", "randao_mixes", "slashings",
    "previous_epoch_participation", "current_epoch_participation", "justification_bits",
    "previous_justified_checkpoint", "current_justified_checkpoint",
    "finalized_checkpoint", "inactivity_scores", "current_sync_committee",
    "next_sync_committee", "latest_execution_payload_header">>

CapellaStateNames ==
  <<"genesis_time", "genesis_validators_root", "slot", "fork",
    "latest_block_header", "block_roots", "state_roots", "historical_roots",
    "eth1_data", "eth1_data_votes", "eth1_deposit_index", "validators",
    "balances", "randao_mixes", "slashings", "previous_epoch_participation",
    "current_epoch_participation", "justification_bits",
    "previous_justified_checkpoint", "current_justified_checkpoint",
    "finalized_checkpoint", "inactivity_scores", "current_sync_committee",
    "next_sync_committee", "latest_execution_payload_header",
    "next_withdrawal_index", "next_withdrawal_validator_index",
    "historical_summaries">>

ElectraStateNames ==
  <<"deposit_requests_start_index", "deposit_balance_to_consume",
    "exit_balance_to_consume", "earliest_exit_epoch",
    "consolidation_balance_to_consume", "earliest_consolidation_epoch",
    "pending_deposits", "pending_partial_withdrawals", "pending_consolidations">>

(* The struct and the builder list the same fields, of which the twenty-eighth
   is historical_summaries. *)
LEMMA StateNamesAgree ==
  /\ IsBranch(BeaconState("Electra"), 37)
  /\ BeaconState("Electra")[28] = "historical_summaries"
  /\ HistoricalSummariesLeaves("Electra") = StateRoots(BeaconState("Electra"))
<1>. DEFINE b == BellatrixStateNames
            c == CapellaStateNames
            e == ElectraStateNames
            more == <<"next_withdrawal_index", "next_withdrawal_validator_index",
                      "historical_summaries">>
<1>1. IsBranch(b, 25)
  BY DEF BellatrixStateNames, IsBranch
<1>2. IsBranch(c, 28) /\ c[28] = "historical_summaries"
  <2>1. c[28] = "historical_summaries"
    BY DEF CapellaStateNames
  <2>2. c = [i \in 1..28 |-> c[i]]
    BY DEF CapellaStateNames
  <2>. QED  BY <2>1, <2>2, Zenon DEF IsBranch
<1>3. IsBranch(e, 9)
  BY DEF ElectraStateNames, IsBranch
<1>4. IsBranch(more, 3)
  BY DEF IsBranch
<1>5. \A i \in 1..25 : c[i] = b[i]
  BY DEF BellatrixStateNames, CapellaStateNames
<1>6. \A i \in 1..3 : c[25 + i] = more[i]
  BY DEF CapellaStateNames
<1>7. BeaconState("Electra") = (b \o more) \o e
  BY DEF BeaconState, BellatrixStateNames, ElectraStateNames, Only
<1>8. HistoricalSummariesLeaves("Electra") = StateRoots(c \o e)
  <2>. DEFINE lists == [Deneb |-> c, Electra |-> c \o e]
  <2>1. HistoricalSummariesLeaves("Electra") = StateRoots(lists["Electra"])
    BY Zenon DEF HistoricalSummariesLeaves, CapellaStateNames, ElectraStateNames
  <2>. HIDE DEF c, e
  <2>2. lists["Electra"] = c \o e
    OBVIOUS
  <2>. HIDE DEF lists
  <2>. QED  BY <2>1, <2>2, Zenon
<1>. HIDE DEF b, c, e, more
<1>9. b \o more = c
  <2>1. Joins(b \o more, b, 25, more, 3)
    BY <1>1, <1>4, ConcatBranches
  <2>. DEFINE d == b \o more
  <2>. HIDE DEF d
  <2>2. IsBranch(d, 28) /\ (\A i \in 1..25 : d[i] = b[i]) /\ (\A i \in 1..3 : d[25 + i] = more[i])
    <3>1. 25 + 3 = 28
      OBVIOUS
    <3>2. IsBranch(d, 25 + 3) /\ (\A i \in 1..25 : d[i] = b[i]) /\ (\A i \in 1..3 : d[25 + i] = more[i])
      BY <2>1, Zenon DEF Joins, d
    <3>. QED  BY <3>1, <3>2, Zenon
  <2>3. \A i \in 1..28 : d[i] = c[i]
    <3>. TAKE i \in 1..28
    <3>1. CASE i \in 1..25
      BY <1>5, <2>2, <3>1
    <3>2. CASE i \in 26..28
      <4>1. i - 25 \in 1..3 /\ 25 + (i - 25) = i
        BY <3>2
      <4>. QED  BY <1>6, <2>2, <4>1
    <3>. QED  BY <3>1, <3>2
  <2>4. d = c
    BY <1>2, <2>2, <2>3 DEF IsBranch
  <2>. QED  BY <2>4 DEF d
<1>10. IsBranch(c \o e, 37) /\ (c \o e)[28] = c[28]
  <2>1. 28 \in Nat /\ 9 \in Nat /\ 37 \in Nat /\ 37 = 28 + 9 /\ 28 \in 1..28
    OBVIOUS
  <2>2. Extends(c \o e, c, 28, 37)
    BY <1>2, <1>3, <2>1, Continued
  <2>. QED  BY <2>1, <2>2, Zenon DEF Extends
<1>. QED  BY <1>2, <1>7, <1>8, <1>9, <1>10, Zenon

(* A container: its tree is the smallest that has room for its fields, each
   of which is the leaf at its index. *)
IsTreeOf(leaves, depth) ==
  /\ ContainerRoot(leaves) = TreeHashRoot(leaves, depth)
  /\ DepthFor(Len(leaves)) = depth

(* It is. *)
LEMMA ContainerTree ==
  ASSUME NEW n \in Nat, NEW leaves, IsBranch(leaves, n),
         NEW depth \in 0..n, 2^depth >= n, depth = 0 \/ 2^(depth - 1) < n
  PROVE  /\ IsTreeOf(leaves, depth)
         /\ \A index \in 0..(n - 1) : LeafBelow(leaves, index) = leaves[index + 1]
<1>1. Len(leaves) = n
  BY IsSequence DEF IsBranch
<1>2. DepthFor(n) = depth
  BY DepthForIs
<1>3. IsTreeOf(leaves, depth)
  BY <1>1, <1>2, Zenon DEF IsTreeOf, ContainerRoot
<1>4. ASSUME NEW index \in 0..(n - 1)
      PROVE  LeafBelow(leaves, index) = leaves[index + 1]
  BY <1>1 DEF LeafBelow
<1>. QED  BY <1>3, <1>4

PayloadDepth(fork) == IF fork \in {"Bellatrix", "Capella"} THEN 4 ELSE 5

(* The payload: up to sixteen fields until Capella, up to 32 since Deneb. *)
LEMMA PayloadTree ==
  ASSUME NEW fork \in Forks
  PROVE  LET low == PayloadRoots(ExecutionPayload(fork))
         IN  /\ IsTreeOf(low, PayloadDepth(fork))
             /\ PayloadRoot[fork] = TreeHashRoot(low, PayloadDepth(fork))
             /\ LeafBelow(low, 12) = FieldRoot("payload", "block_hash")
             /\ PayloadDepth(fork) \in Nat
             /\ 12 \in 0..(2^PayloadDepth(fork) - 1)
<1>. DEFINE names == ExecutionPayload(fork)
            low   == PayloadRoots(names)
            n     == PayloadFields(fork)
            depth == PayloadDepth(fork)
<1>1. /\ n \in Nat /\ depth \in 0..n /\ 2^depth >= n /\ 2^(depth - 1) < n
      /\ depth \in Nat /\ 12 \in 0..(2^depth - 1) /\ 12 \in 0..(n - 1) /\ 13 \in 1..n
  <2>1. CASE fork = "Bellatrix"
    BY <2>1, Powers DEF PayloadFields, PayloadDepth
  <2>2. CASE fork = "Capella"
    BY <2>2, Powers DEF PayloadFields, PayloadDepth
  <2>3. CASE fork = "Deneb" \/ fork = "Electra"
    BY <2>3, Powers DEF PayloadFields, PayloadDepth
  <2>. QED  BY <2>1, <2>2, <2>3 DEF Forks
<1>2. IsBranch(names, n) /\ names[13] = "block_hash"
  BY PayloadNamesAgree
<1>. HIDE DEF names, n, depth
<1>3. IsBranch(low, n) /\ low[13] = FieldRoot("payload", "block_hash")
  <2>1. DOMAIN names = 1..n
    BY <1>2 DEF IsBranch
  <2>2. low = [i \in 1..n |-> FieldRoot("payload", names[i])]
    BY <2>1, Zenon DEF PayloadRoots
  <2>. HIDE DEF low
  <2>. QED  BY <1>1, <1>2, <2>2 DEF IsBranch
<1>4. PayloadRoot[fork] = ContainerRoot(low)
  BY DEF PayloadRoot, names
<1>. HIDE DEF low
<1>5. IsTreeOf(low, depth) /\ \A index \in 0..(n - 1) : LeafBelow(low, index) = low[index + 1]
  BY <1>1, <1>3, ContainerTree
<1>6. LeafBelow(low, 12) = low[13]
  BY <1>1, <1>5
<1>. QED  BY <1>1, <1>3, <1>4, <1>5, <1>6, Zenon DEF low, names, depth, IsTreeOf

(* The body. *)
LEMMA BodyTree ==
  ASSUME NEW fork \in Forks
  PROVE  LET middle == BodyRoots(fork, BeaconBlockBody(fork))
         IN  /\ IsTreeOf(middle, 4)
             /\ BodyRoot[fork] = TreeHashRoot(middle, 4)
             /\ LeafBelow(middle, 9) = PayloadRoot[fork]
<1>. DEFINE names  == BeaconBlockBody(fork)
            middle == BodyRoots(fork, names)
            n      == BodyFields(fork)
<1>1. n \in Nat /\ 4 \in 0..n /\ 2^4 >= n /\ 2^(4 - 1) < n /\ 9 \in 0..(n - 1) /\ 10 \in 1..n
  <2>1. 4 - 1 = 3
    OBVIOUS
  <2>. QED  BY <2>1, Powers DEF BodyFields, Forks
<1>2. IsBranch(names, n) /\ names[10] = "execution_payload"
  BY BodyNamesAgree
<1>. HIDE DEF names, n
<1>3. IsBranch(middle, n) /\ middle[10] = PayloadRoot[fork]
  <2>1. DOMAIN names = 1..n
    BY <1>2 DEF IsBranch
  <2>2. middle = [i \in 1..n |-> IF names[i] = "execution_payload" THEN PayloadRoot[fork]
                                 ELSE FieldRoot("body", names[i])]
    BY <2>1, Zenon DEF BodyRoots
  <2>. HIDE DEF middle
  <2>. QED  BY <1>1, <1>2, <2>2 DEF IsBranch
<1>4. BodyRoot[fork] = ContainerRoot(middle)
  BY DEF BodyRoot, names
<1>. HIDE DEF middle
<1>5. IsTreeOf(middle, 4) /\ \A index \in 0..(n - 1) : LeafBelow(middle, index) = middle[index + 1]
  BY <1>1, <1>3, ContainerTree
<1>6. LeafBelow(middle, 9) = middle[10]
  BY <1>1, <1>5
<1>. QED  BY <1>3, <1>4, <1>5, <1>6, Zenon DEF middle, names, IsTreeOf

(* The block. *)
LEMMA BlockTree ==
  ASSUME NEW fork \in Forks
  PROVE  LET high == BlockRoots(fork, BeaconBlock(fork))
         IN  /\ IsTreeOf(high, 3)
             /\ BeaconBlockRoot[fork] = TreeHashRoot(high, 3)
             /\ LeafBelow(high, 4) = BodyRoot[fork]
             /\ BodyRootLeaves(fork) = high
<1>. DEFINE names == BeaconBlock(fork)
            high  == BlockRoots(fork, names)
<1>1. /\ 5 \in Nat /\ 3 \in 0..5 /\ 2^3 >= 5 /\ 2^(3 - 1) < 5 /\ 4 \in 0..(5 - 1) /\ 5 \in 1..5
      /\ 4 + 1 = 5
  <2>1. 3 - 1 = 2
    OBVIOUS
  <2>. QED  BY <2>1, Powers
<1>2. names = [i \in 1..5 |-> names[i]] /\ names[5] = "body" /\ DOMAIN names = 1..5
  BY DEF BeaconBlock
<1>3. BodyRootLeaves(fork) = high
  BY Zenon DEF BodyRootLeaves, BeaconBlock
<1>. HIDE DEF names
<1>4. IsBranch(high, 5) /\ high[5] = BodyRoot[fork]
  <2>1. high = [i \in 1..5 |-> IF names[i] = "body" THEN BodyRoot[fork]
                               ELSE FieldRoot("block", names[i])]
    BY <1>2, Zenon DEF BlockRoots
  <2>. HIDE DEF high
  <2>. QED  BY <1>1, <1>2, <2>1 DEF IsBranch
<1>5. BeaconBlockRoot[fork] = ContainerRoot(high)
  BY DEF BeaconBlockRoot, names
<1>. HIDE DEF high
<1>6. IsTreeOf(high, 3) /\ \A index \in 0..(5 - 1) : LeafBelow(high, index) = high[index + 1]
  BY <1>1, <1>4, ContainerTree
<1>7. LeafBelow(high, 4) = high[5]
  BY <1>1, <1>6
<1>. QED  BY <1>3, <1>4, <1>5, <1>6, <1>7, Zenon DEF high, names, IsTreeOf

(* The state. *)
LEMMA StateTree ==
  LET state == StateRoots(BeaconState("Electra"))
  IN  /\ IsTreeOf(state, 6)
      /\ BeaconStateRoot["Electra"] = TreeHashRoot(state, 6)
      /\ LeafBelow(state, 27) = FieldRoot("state", "historical_summaries")
<1>. DEFINE names == BeaconState("Electra")
            state == StateRoots(names)
<1>1. /\ 37 \in Nat /\ 6 \in 0..37 /\ 2^6 >= 37 /\ 2^(6 - 1) < 37 /\ 27 \in 0..(37 - 1)
      /\ 28 \in 1..37 /\ 27 + 1 = 28
  <2>1. 6 - 1 = 5
    OBVIOUS
  <2>. QED  BY <2>1, Powers
<1>2. IsBranch(names, 37) /\ names[28] = "historical_summaries"
  BY StateNamesAgree
<1>. HIDE DEF names
<1>3. IsBranch(state, 37) /\ state[28] = FieldRoot("state", "historical_summaries")
  <2>1. DOMAIN names = 1..37
    BY <1>2 DEF IsBranch
  <2>2. state = [i \in 1..37 |-> FieldRoot("state", names[i])]
    BY <2>1, Zenon DEF StateRoots
  <2>. HIDE DEF state
  <2>. QED  BY <1>1, <1>2, <2>2 DEF IsBranch
<1>4. BeaconStateRoot["Electra"] = ContainerRoot(state)
  BY DEF BeaconStateRoot, names, Forks
<1>. HIDE DEF state
<1>5. IsTreeOf(state, 6) /\ \A index \in 0..(37 - 1) : LeafBelow(state, index) = state[index + 1]
  BY <1>1, <1>3, ContainerTree
<1>6. LeafBelow(state, 27) = state[28]
  BY <1>1, <1>5
<1>. QED  BY <1>3, <1>4, <1>5, <1>6, Zenon DEF state, names, IsTreeOf

(* The path of a block hash holds its siblings in the payload, those of the
   payload in the body and those of the body in the block. *)
BlockSiblings(fork, path) ==
  /\ HoldsSiblings(path, PayloadRoots(ExecutionPayload(fork)), 12, PayloadDepth(fork), 0)
  /\ HoldsSiblings(path, BodyRoots(fork, BeaconBlockBody(fork)), 9, 4, PayloadDepth(fork))
  /\ HoldsSiblings(path, BlockRoots(fork, BeaconBlock(fork)), 4, 3, PayloadDepth(fork) + 4)

(* Its length, 11 until Capella and 12 since, is the depth of the three trees. *)
LEMMA BlockLength ==
  ASSUME NEW s \in Subjects, s.kind = "block"
  PROVE  s.fork \in Forks /\ FixedLength(s) = PayloadDepth(s.fork) + 7
<1>1. s.fork \in Forks
  BY DEF Subjects
<1>2. FixedLength(s) = IF s.fork \in {"Bellatrix", "Capella"} THEN 11 ELSE 12
  BY DEF FixedLength
<1>. QED  BY <1>1, <1>2 DEF PayloadDepth

(* The two constants in the code are the generalized indices of the block hash
   for the two sizes of a payload. *)
LEMMA BlockAcceptsAt ==
  ASSUME NEW s \in Subjects, s.kind = "block", NEW leaf, NEW path, NEW index,
         NEW n \in Nat, n = PayloadDepth(s.fork) + 7, Len(path) = n
  PROVE  \E g \in Nat :
           /\ g = Gindex(201, PayloadDepth(s.fork), 12)
           /\ Accepts(s, Claim(leaf, path, index))
                <=> VerifyMerkleProof(leaf, path, n, g, BeaconBlockRoot[s.fork])
<1>. DEFINE c == Claim(leaf, path, index)
<1>1. c.leaf = leaf /\ c.path = path
  BY DEF Claim
<1>. HIDE DEF c
<1>2. CASE s.fork \in {"Bellatrix", "Capella"}
  <2>1. 3228 \in Nat /\ 3228 = Gindex(201, PayloadDepth(s.fork), 12)
    BY <1>2, Powers DEF Gindex, PayloadDepth
  <2>2. Accepts(s, c) <=> VerifyBellatrixToDenebExecutionBlockProof(c, s.fork)
    BY <1>2 DEF Accepts
  <2>3. VerifyBellatrixToDenebExecutionBlockProof(c, s.fork)
          <=> VerifyMerkleProof(leaf, path, n, 3228, BeaconBlockRoot[s.fork])
    BY <1>1 DEF VerifyBellatrixToDenebExecutionBlockProof
  <2>. QED  BY <2>1, <2>2, <2>3 DEF c
<1>3. CASE s.fork \notin {"Bellatrix", "Capella"}
  <2>1. 6444 \in Nat /\ 6444 = Gindex(201, PayloadDepth(s.fork), 12)
    BY <1>3, Powers DEF Gindex, PayloadDepth
  <2>2. Accepts(s, c) <=> VerifyPostDenebExecutionBlockProof(c, s.fork)
    BY <1>3 DEF Accepts
  <2>3. VerifyPostDenebExecutionBlockProof(c, s.fork)
          <=> VerifyMerkleProof(leaf, path, n, 6444, BeaconBlockRoot[s.fork])
    BY <1>1 DEF VerifyPostDenebExecutionBlockProof
  <2>. QED  BY <2>1, <2>2, <2>3 DEF c
<1>. QED  BY <1>2, <1>3, Zenon

(* ExecutionBlockProof: of the paths of the fixed length, accepted is the block
   hash with its siblings, and nothing else. *)
LEMMA BlockAccepts ==
  ASSUME NEW s \in Subjects, s.kind = "block", NEW leaf, NEW path, NEW index,
         Len(path) = FixedLength(s)
  PROVE  Accepts(s, Claim(leaf, path, index))
           <=> leaf = FieldRoot("payload", "block_hash") /\ BlockSiblings(s.fork, path)
<1>. DEFINE fork   == s.fork
            depth  == PayloadDepth(fork)
            low    == PayloadRoots(ExecutionPayload(fork))
            middle == BodyRoots(fork, BeaconBlockBody(fork))
            high   == BlockRoots(fork, BeaconBlock(fork))
            n      == depth + 7
<1>1. fork \in Forks /\ Len(path) = n
  BY BlockLength
<1>2. /\ depth \in Nat
      /\ 12 \in 0..(2^depth - 1)
      /\ LeafBelow(low, 12) = FieldRoot("payload", "block_hash")
      /\ PayloadRoot[fork] = TreeHashRoot(low, depth)
  BY <1>1, PayloadTree
<1>3. n \in Nat
  <2>. HIDE DEF depth
  <2>. QED  BY <1>2
<1>4. LeafBelow(middle, 9) = PayloadRoot[fork] /\ BodyRoot[fork] = TreeHashRoot(middle, 4)
  BY <1>1, BodyTree
<1>5. LeafBelow(high, 4) = BodyRoot[fork] /\ BeaconBlockRoot[fork] = TreeHashRoot(high, 3)
  BY <1>1, BlockTree
<1>6. PICK g \in Nat : /\ g = Gindex(201, depth, 12)
                       /\ Accepts(s, Claim(leaf, path, index))
                            <=> VerifyMerkleProof(leaf, path, n, g, BeaconBlockRoot[fork])
  <2>1. \E g \in Nat : /\ g = Gindex(201, PayloadDepth(s.fork), 12)
                       /\ Accepts(s, Claim(leaf, path, index))
                            <=> VerifyMerkleProof(leaf, path, n, g, BeaconBlockRoot[s.fork])
    BY <1>1, <1>3, BlockAcceptsAt, Zenon
  <2>. QED  BY <2>1, Zenon
<1>7. BlockSiblings(fork, path) <=> /\ HoldsSiblings(path, low, 12, depth, 0)
                                    /\ HoldsSiblings(path, middle, 9, 4, depth)
                                    /\ HoldsSiblings(path, high, 4, 3, depth + 4)
  BY Zenon DEF BlockSiblings
<1>8. n = depth + 7
  OBVIOUS
<1>. HIDE DEF low, middle, high, depth, n
<1>9. LeafBelow(middle, 9) = TreeHashRoot(low, depth) /\ LeafBelow(high, 4) = TreeHashRoot(middle, 4)
  BY <1>2, <1>4, <1>5, Zenon
<1>10. AcceptsInStack(leaf, path, low, middle, high, depth, n, g)
  BY <1>1, <1>2, <1>3, <1>6, <1>8, <1>9, VerifyInStack
<1>11. Accepts(s, Claim(leaf, path, index))
         <=> leaf = FieldRoot("payload", "block_hash") /\ BlockSiblings(fork, path)
  <2>. HIDE DEF fork
  <2>. QED  BY <1>2, <1>5, <1>6, <1>7, <1>10, Zenon DEF AcceptsInStack
<1>. QED  BY <1>11, Zenon

(* Historical summaries: 91 is the generalized index of field 27 of a state;
   accepted is that field with its siblings, and nothing else. *)
LEMMA StateAccepts ==
  ASSUME NEW s \in Subjects, s.kind = "state", NEW leaf, NEW path, NEW index, Len(path) = 6
  PROVE  Accepts(s, Claim(leaf, path, index))
           <=> /\ leaf = FieldRoot("state", "historical_summaries")
               /\ HoldsSiblings(path, StateRoots(BeaconState("Electra")), 27, 6, 0)
<1>. DEFINE c     == Claim(leaf, path, index)
            state == StateRoots(BeaconState("Electra"))
            g     == Gindex(1, 6, 27)
<1>1. c.leaf = leaf /\ c.path = path
  BY DEF Claim
<1>2. s.fork = "Electra"
  BY DEF Subjects
<1>3. g = 91 /\ 27 \in 0..(2^6 - 1) /\ 6 \in Nat /\ 1 \in Nat
  BY Powers DEF Gindex
<1>4. /\ BeaconStateRoot["Electra"] = TreeHashRoot(state, 6)
      /\ LeafBelow(state, 27) = FieldRoot("state", "historical_summaries")
  BY StateTree
<1>. HIDE DEF c, state
<1>5. Accepts(s, c) <=> VerifyHistoricalSummaries(c, s.fork)
  BY DEF Accepts
<1>6. VerifyHistoricalSummaries(c, "Electra")
        <=> VerifyMerkleProof(leaf, path, 6, 91, BeaconStateRoot["Electra"])
  BY <1>1, Zenon DEF VerifyHistoricalSummaries, HistoricalSummariesGindex
<1>7. VerifyMerkleProof(leaf, path, 6, Gindex(1, 6, 27), TreeHashRoot(state, 6))
        <=> leaf = LeafBelow(state, 27) /\ HoldsSiblings(path, state, 27, 6, 0)
  <2>1. ASSUME NEW d \in Nat, d = 6, NEW k, k = 27
        PROVE  VerifyMerkleProof(leaf, path, d, Gindex(1, d, k), TreeHashRoot(state, d))
                 <=> leaf = LeafBelow(state, k) /\ HoldsSiblings(path, state, k, d, 0)
    <3>1. Len(path) = d /\ k \in 0..(2^d - 1) /\ 1 \in Nat
      BY <1>3, <2>1
    <3>. QED  BY <3>1, VerifyInTree
  <2>. QED  BY <1>3, <2>1, Zenon
<1>. HIDE DEF g
<1>. QED  BY <1>2, <1>3, <1>4, <1>5, <1>6, <1>7, Zenon DEF c, state, g

(* The path of a leaf of the payload through the three trees: the siblings of
   the leaf, then those of the payload and those of the body. *)
PathThroughBlock(fork, index) ==
  (BuildMerkleProofForIndex(PayloadRoots(ExecutionPayload(fork)), index)
     \o BuildExecutionPayloadProof(fork)) \o BuildBodyRootProof(fork)

(* It has the length of the vector for the fork; that of the block hash holds
   the siblings that a verifier asks for. *)
LEMMA PathThroughBlockHolds ==
  ASSUME NEW fork \in Forks, NEW index
  PROVE  /\ Len(PathThroughBlock(fork, index)) = PayloadDepth(fork) + 7
         /\ index = 12 => BlockSiblings(fork, PathThroughBlock(fork, index))
<1>. DEFINE depth  == PayloadDepth(fork)
            low    == PayloadRoots(ExecutionPayload(fork))
            middle == BodyRoots(fork, BeaconBlockBody(fork))
            high   == BlockRoots(fork, BeaconBlock(fork))
            p      == BuildMerkleProofForIndex(low, index)
            q      == BuildMerkleProofForIndex(middle, 9)
            r      == BuildMerkleProofForIndex(high, 4)
            path   == (p \o q) \o r
<1>1. PathThroughBlock(fork, index) = path
  <2>1. BuildExecutionPayloadProof(fork) = q
    <3>1. ExecutionPayloadLeaves(fork) = middle
      BY BodyNamesAgree
    <3>. QED  BY <3>1, Zenon DEF BuildExecutionPayloadProof
  <2>2. BuildBodyRootProof(fork) = r
    <3>1. BodyRootLeaves(fork) = high
      BY BlockTree
    <3>. QED  BY <3>1, Zenon DEF BuildBodyRootProof
  <2>. QED  BY <2>1, <2>2, Zenon DEF PathThroughBlock
<1>2. BlockSiblings(fork, path) <=> /\ HoldsSiblings(path, low, 12, depth, 0)
                                    /\ HoldsSiblings(path, middle, 9, 4, depth)
                                    /\ HoldsSiblings(path, high, 4, 3, depth + 4)
  BY Zenon DEF BlockSiblings
<1>3. /\ DepthFor(Len(low)) = depth /\ DepthFor(Len(middle)) = 4 /\ DepthFor(Len(high)) = 3
      /\ depth \in Nat
  BY PayloadTree, BodyTree, BlockTree DEF IsTreeOf
<1>. HIDE DEF depth, low, middle, high
<1>4. IsBranch(p, depth) /\ HoldsSiblings(p, low, index, depth, 0)
  BY <1>3, BuildsSiblings
<1>5. IsBranch(q, 4) /\ HoldsSiblings(q, middle, 9, 4, 0)
  <2>1. 4 \in Nat
    OBVIOUS
  <2>. QED  BY <1>3, <2>1, BuildsSiblings, Zenon
<1>6. IsBranch(r, 3) /\ HoldsSiblings(r, high, 4, 3, 0)
  <2>1. 3 \in Nat
    OBVIOUS
  <2>. QED  BY <1>3, <2>1, BuildsSiblings, Zenon
<1>. HIDE DEF p, q, r
<1>7. depth + 4 \in Nat /\ 3 \in Nat /\ 4 \in Nat /\ 0 \in Nat /\ (depth + 4) + 3 = depth + 7
  BY <1>3
<1>8. Joins(p \o q, p, depth, q, 4)
  BY <1>3, <1>4, <1>5, <1>7, ConcatBranches, Zenon
<1>9. Joins(path, p \o q, depth + 4, r, 3)
  <2>1. IsBranch(p \o q, depth + 4)
    BY <1>8, Zenon DEF Joins
  <2>. QED  BY <1>6, <1>7, <2>1, ConcatBranches, Zenon
<1>. HIDE DEF path
<1>10. Len(path) = depth + 7
  BY <1>7, <1>9, Zenon DEF Joins
<1>11. HoldsSiblings(path, low, index, depth, 0)
  <2>1. ASSUME NEW i \in 1..depth
        PROVE  path[0 + i] = p[i]
    <3>1. i \in 1..(depth + 4) /\ 0 + i = i
      BY <1>3
    <3>2. path[i] = (p \o q)[i] /\ (p \o q)[i] = p[i]
      BY <1>8, <1>9, <3>1, Zenon DEF Joins
    <3>. QED  BY <3>1, <3>2, Zenon
  <2>. QED  BY <1>3, <1>4, <1>7, <2>1, SiblingsInside, Zenon
<1>12. HoldsSiblings(path, middle, 9, 4, depth)
  <2>1. ASSUME NEW i \in 1..4
        PROVE  path[depth + i] = q[i]
    <3>1. depth + i \in 1..(depth + 4)
      BY <1>3
    <3>2. path[depth + i] = (p \o q)[depth + i] /\ (p \o q)[depth + i] = q[i]
      BY <1>8, <1>9, <3>1, Zenon DEF Joins
    <3>. QED  BY <3>2, Zenon
  <2>. QED  BY <1>3, <1>5, <1>7, <2>1, SiblingsInside
<1>13. HoldsSiblings(path, high, 4, 3, depth + 4)
  <2>1. \A i \in 1..3 : path[(depth + 4) + i] = r[i]
    BY <1>9, Zenon DEF Joins
  <2>. QED  BY <1>6, <1>7, <2>1, SiblingsInside, Zenon
<1>14. index = 12 => BlockSiblings(fork, path)
  BY <1>2, <1>11, <1>12, <1>13, Zenon
<1>. QED  BY <1>1, <1>10, <1>14, Zenon DEF depth

(* The path of a leaf of the state has the length of its vector; that of
   historical_summaries holds the siblings that a verifier asks for. *)
LEMMA PathInState ==
  ASSUME NEW index
  PROVE  LET state == StateRoots(BeaconState("Electra"))
             path  == BuildMerkleProofForIndex(state, index)
         IN  Len(path) = 6 /\ HoldsSiblings(path, state, index, 6, 0)
<1>. DEFINE state == StateRoots(BeaconState("Electra"))
            path  == BuildMerkleProofForIndex(state, index)
<1>1. DepthFor(Len(state)) = 6 /\ 6 \in Nat
  BY StateTree DEF IsTreeOf
<1>. HIDE DEF state
<1>2. IsBranch(path, 6) /\ HoldsSiblings(path, state, index, 6, 0)
  BY <1>1, BuildsSiblings, Zenon
<1>. HIDE DEF path
<1>3. Len(path) = 6
  BY <1>1, <1>2, IsSequence DEF IsBranch
<1>. QED  BY <1>2, <1>3, Zenon DEF path, state

FieldKinds == {"block", "state"}

(* The path of a builder for a field of a block or of a state. *)
FieldPath(s) ==
  CASE s.kind = "block" -> BuildExecutionBlockHashProof(s.fork)
    [] s.kind = "state" -> BuildHistoricalSummariesProof(s.fork)

(* For every fork, the proof of a block hash and that of historical_summaries
   have the length of their vectors, and are accepted for their field: the
   leaves that the builders spell out are those of the structs. *)
THEOREM FieldProofsAreAccepted ==
  ASSUME NEW s \in Subjects, s.kind \in FieldKinds, NEW index
  PROVE  /\ Len(FieldPath(s)) = FixedLength(s)
         /\ \A leaf \in RightLeaf(s, index) : Accepts(s, Claim(leaf, FieldPath(s), index))
<1>. DEFINE path == FieldPath(s)
<1>1. CASE s.kind = "block"
  <2>1. s.fork \in Forks /\ FixedLength(s) = PayloadDepth(s.fork) + 7
    BY <1>1, BlockLength
  <2>2. path = PathThroughBlock(s.fork, 12)
    <3>1. path = BuildExecutionBlockHashProof(s.fork)
      BY <1>1 DEF FieldPath
    <3>2. BlockHashLeaves(s.fork) = PayloadRoots(ExecutionPayload(s.fork))
      BY <2>1, PayloadNamesAgree
    <3>. HIDE DEF path
    <3>. QED  BY <3>1, <3>2, Zenon DEF BuildExecutionBlockHashProof, BuildBlockHashProof,
                                       PathThroughBlock
  <2>. HIDE DEF path
  <2>3. Len(path) = PayloadDepth(s.fork) + 7 /\ BlockSiblings(s.fork, path)
    BY <2>1, <2>2, PathThroughBlockHolds, Zenon
  <2>4. Len(path) = FixedLength(s)
    BY <2>1, <2>3, Zenon
  <2>5. Accepts(s, Claim(FieldRoot("payload", "block_hash"), path, index))
    BY <1>1, <2>3, <2>4, BlockAccepts, Zenon
  <2>6. RightLeaf(s, index) = {FieldRoot("payload", "block_hash")}
    BY <1>1 DEF RightLeaf
  <2>. QED  BY <2>4, <2>5, <2>6, Zenon DEF path
<1>2. CASE s.kind = "state"
  <2>1. s.fork = "Electra"
    BY <1>2 DEF Subjects
  <2>2. path = BuildMerkleProofForIndex(StateRoots(BeaconState("Electra")), 27)
    <3>1. path = BuildHistoricalSummariesProof("Electra")
      BY <1>2, <2>1 DEF FieldPath
    <3>2. HistoricalSummariesLeaves("Electra") = StateRoots(BeaconState("Electra"))
      BY StateNamesAgree
    <3>. HIDE DEF path
    <3>. QED  BY <3>1, <3>2, Zenon DEF BuildHistoricalSummariesProof
  <2>. HIDE DEF path
  <2>3. Len(path) = 6 /\ HoldsSiblings(path, StateRoots(BeaconState("Electra")), 27, 6, 0)
    BY <2>2, PathInState, Zenon
  <2>4. FixedLength(s) = 6
    BY <1>2 DEF FixedLength
  <2>5. Accepts(s, Claim(FieldRoot("state", "historical_summaries"), path, index))
    BY <1>2, <2>3, StateAccepts, Zenon
  <2>6. RightLeaf(s, index) = {FieldRoot("state", "historical_summaries")}
    BY <1>2 DEF RightLeaf
  <2>. QED  BY <2>3, <2>4, <2>5, <2>6, Zenon DEF path
<1>. QED  BY <1>1, <1>2 DEF FieldKinds

(* Whatever leaf is presented with a path of the fixed length, a verifier of a
   block or of a state accepts only the field at the index in the code. *)
THEOREM FieldsAcceptOnlyTheRightLeaf ==
  ASSUME NEW s \in Subjects, s.kind \in FieldKinds, NEW index, NEW leaf, NEW path,
         Len(path) = FixedLength(s), Accepts(s, Claim(leaf, path, index))
  PROVE  leaf \in RightLeaf(s, index)
<1>1. CASE s.kind = "block"
  <2>1. leaf = FieldRoot("payload", "block_hash")
    BY <1>1, BlockAccepts
  <2>2. RightLeaf(s, index) = {FieldRoot("payload", "block_hash")}
    BY <1>1 DEF RightLeaf
  <2>. QED  BY <2>1, <2>2, Zenon
<1>2. CASE s.kind = "state"
  <2>1. FixedLength(s) = 6
    BY <1>2 DEF FixedLength
  <2>2. leaf = FieldRoot("state", "historical_summaries")
    BY <1>2, <2>1, StateAccepts
  <2>3. RightLeaf(s, index) = {FieldRoot("state", "historical_summaries")}
    BY <1>2 DEF RightLeaf
  <2>. QED  BY <2>2, <2>3, Zenon
<1>. QED  BY <1>1, <1>2 DEF FieldKinds

-----------------------------------------------------------------------------
(* Every behaviour of MerkleProofs. *)

BuilderPath(s) == IF s.kind \in EraKinds THEN EraPath(s) ELSE FieldPath(s)

(* A claim about a subject, as the types of the proofs force it: any index for
   an era, a path of the fixed length for a field. *)
WellFormed(s, c) ==
  /\ c = Claim(c.leaf, c.path, c.index)
  /\ c.index \in Indices(s)
  /\ s.kind \in FieldKinds => Len(c.path) = FixedLength(s)

(* The inductive invariant: no builder has panicked, what was built is the path
   of the builder of that kind, and what was judged is such a claim. *)
IndInv ==
  /\ subject \in Subjects
  /\ pc \in {"build", "built", "judged"}
  /\ pc = "built" => proof = BuilderPath(subject)
  /\ pc = "judged" => WellFormed(subject, claim)

(* The kinds of the subjects. *)
LEMMA KindsOfSubjects ==
  ASSUME NEW s \in Subjects
  PROVE  \/ s.kind \in FieldKinds /\ s.kind \notin EraKinds
         \/ s.kind \in EraKinds /\ s.kind \notin FieldKinds
BY DEF Subjects, FieldKinds, EraKinds

(* Every builder fills its vector. *)
LEMMA BuilderFits ==
  ASSUME NEW s \in Subjects
  PROVE  Len(BuilderPath(s)) = FixedLength(s)
<1>1. CASE s.kind \in EraKinds
  BY <1>1, EraProofsAreAccepted, Zenon DEF BuilderPath
<1>2. CASE s.kind \in FieldKinds /\ s.kind \notin EraKinds
  BY <1>2, FieldProofsAreAccepted, Zenon DEF BuilderPath
<1>. QED  BY <1>1, <1>2, KindsOfSubjects

(* So does the path of any other leaf of the payload or of the state. *)
LEMMA PathToFits ==
  ASSUME NEW s \in Subjects, s.kind \in FieldKinds, NEW i
  PROVE  Len(PathTo(s, i)) = FixedLength(s)
<1>1. CASE s.kind = "block"
  <2>1. PathTo(s, i) = PathThroughBlock(s.fork, i - 1)
    BY <1>1 DEF PathTo, PathThroughBlock
  <2>. QED  BY <1>1, <2>1, BlockLength, PathThroughBlockHolds
<1>2. CASE s.kind = "state"
  <2>1. s.fork = "Electra"
    BY <1>2 DEF Subjects
  <2>2. PathTo(s, i) = BuildMerkleProofForIndex(StateRoots(BeaconState("Electra")), i - 1)
    BY <1>2, <2>1 DEF PathTo
  <2>3. FixedLength(s) = 6
    BY <1>2 DEF FixedLength
  <2>. QED  BY <2>2, <2>3, PathInState, Zenon
<1>. QED  BY <1>1, <1>2 DEF FieldKinds

(* Initially nothing is built. *)
LEMMA InitIndInv == Init => IndInv
BY DEF Init, IndInv

(* FixedVector::new does not fail on the path of a builder. *)
LEMMA ProduceIndInv ==
  ASSUME IndInv, Produce(BuilderPath(subject))
  PROVE  IndInv'
<1>1. subject \in Subjects /\ Len(BuilderPath(subject)) = FixedLength(subject)
  BY BuilderFits DEF IndInv
<1>2. subject' = subject /\ pc' = "built" /\ proof' = BuilderPath(subject)
  BY <1>1 DEF Produce
<1>. QED  BY <1>1, <1>2 DEF IndInv

(* Every step preserves the invariant. *)
LEMMA NextIndInv == IndInv /\ [Next]_vars => IndInv'
<1>. SUFFICES ASSUME IndInv, [Next]_vars
              PROVE  IndInv'
  OBVIOUS
<1>1. CASE BuildBlock
  <2>1. BuilderPath(subject) = BuildExecutionBlockHashProof(subject.fork)
    BY <1>1 DEF BuildBlock, BuilderPath, FieldPath, EraKinds
  <2>. QED  BY <1>1, <2>1, ProduceIndInv DEF BuildBlock
<1>2. CASE BuildState
  <2>1. BuilderPath(subject) = BuildHistoricalSummariesProof(subject.fork)
    BY <1>2 DEF BuildState, BuilderPath, FieldPath, EraKinds
  <2>. QED  BY <1>2, <2>1, ProduceIndInv DEF BuildState
<1>3. CASE BuildBatch
  <2>1. BuilderPath(subject) = BuildBlockRootProof(subject.offset)
    BY <1>3 DEF BuildBatch, BuilderPath, EraPath, EraKinds
  <2>. QED  BY <1>3, <2>1, ProduceIndInv DEF BuildBatch
<1>4. CASE BuildSummary
  <2>1. BuilderPath(subject) = BuildMerkleProofForIndex(BlockRootsOf, subject.offset)
    BY <1>4 DEF BuildSummary, BuilderPath, EraPath, EraKinds
  <2>. QED  BY <1>4, <2>1, ProduceIndInv DEF BuildSummary
<1>5. CASE BuildEpoch
  <2>1. BuilderPath(subject) = ConstructPreMergeProof(subject.offset, subject.len)
    BY <1>5 DEF BuildEpoch, BuilderPath, EraPath, EraKinds
  <2>. QED  BY <1>5, <2>1, ProduceIndInv DEF BuildEpoch
<1>6. CASE Judge
  <2>1. subject \in Subjects /\ subject' = subject /\ pc' = "judged"
    BY <1>6 DEF Judge, IndInv
  <2>2. PICK i, j \in Positions(subject), index \in Indices(subject) :
          claim' = Claim(LeafAt(subject, i), PathTo(subject, j), index)
    BY <1>6 DEF Judge
  <2>3. /\ claim'.leaf = LeafAt(subject, i)
        /\ claim'.path = PathTo(subject, j)
        /\ claim'.index = index
    BY <2>2 DEF Claim
  <2>4. subject.kind \in FieldKinds => Len(claim'.path) = FixedLength(subject)
    BY <2>1, <2>3, PathToFits
  <2>5. WellFormed(subject, claim')
    BY <2>2, <2>3, <2>4, Zenon DEF WellFormed
  <2>6. WellFormed(subject', claim')
    BY <2>1, <2>5
  <2>. QED  BY <2>1, <2>6 DEF IndInv
<1>7. CASE UNCHANGED vars
  BY <1>7 DEF vars, IndInv
<1>. QED  BY <1>1, <1>2, <1>3, <1>4, <1>5, <1>6, <1>7 DEF Next, Finished

(* IndInv holds in every behaviour. *)
LEMMA Reached == Spec => []IndInv
BY InitIndInv, NextIndInv, PTL DEF Spec

(* Every fork's proofs of a block hash and of historical_summaries fit their
   vectors and fold to the root at the index in the code. *)
THEOREM FieldProofsHold == Spec => []FieldProofsFold
<1>1. IndInv => FieldProofsFold
  <2>. SUFFICES ASSUME IndInv, subject.kind \in {"block", "state"}
                PROVE  /\ pc # "panic"
                       /\ pc = "built" => \A leaf \in RightLeaf(subject, 0) :
                                            Accepts(subject, Claim(leaf, proof, 0))
    BY DEF FieldProofsFold, Builds
  <2>1. subject \in Subjects /\ subject.kind \in FieldKinds /\ subject.kind \notin EraKinds
    BY DEF IndInv, FieldKinds, EraKinds
  <2>2. pc = "built" => proof = FieldPath(subject)
    BY <2>1 DEF IndInv, BuilderPath
  <2>3. \A leaf \in RightLeaf(subject, 0) : Accepts(subject, Claim(leaf, FieldPath(subject), 0))
    BY <2>1, FieldProofsAreAccepted, Zenon
  <2>4. pc # "panic"
    BY DEF IndInv
  <2>. QED  BY <2>2, <2>3, <2>4, Zenon
<1>. QED  BY <1>1, Reached, PTL

(* For every EraDepth, the proof of each block root in its era and of each
   header in its epoch, full or not, fits its vector and folds to the root. *)
THEOREM EraProofsHold == Spec => []EraProofsFold
<1>1. IndInv => EraProofsFold
  <2>. SUFFICES ASSUME IndInv, subject.kind \in {"batch", "summary", "epoch"}
                PROVE  /\ pc # "panic"
                       /\ pc = "built" =>
                            \A leaf \in RightLeaf(subject, subject.offset) :
                              Accepts(subject, Claim(leaf, proof, subject.offset))
    BY DEF EraProofsFold, Builds
  <2>1. subject \in Subjects /\ subject.kind \in EraKinds
    BY DEF IndInv, EraKinds
  <2>2. pc = "built" => proof = EraPath(subject)
    BY <2>1 DEF IndInv, BuilderPath
  <2>3. \A leaf \in RightLeaf(subject, subject.offset) :
          Accepts(subject, Claim(leaf, EraPath(subject), subject.offset))
    BY <2>1, EraProofsAreAccepted, Zenon
  <2>4. pc # "panic"
    BY DEF IndInv
  <2>. QED  BY <2>2, <2>3, <2>4, Zenon
<1>. QED  BY <1>1, Reached, PTL

(* For every EraDepth, whatever leaf, path and index are judged, only the leaf
   that the tree has at that index is accepted. *)
THEOREM OnlyTheRightLeafIsAccepted == Spec => []OnlyTheRightLeaf
<1>1. IndInv => OnlyTheRightLeaf
  <2>. SUFFICES ASSUME IndInv, pc = "judged", Accepts(subject, claim)
                PROVE  claim.leaf \in RightLeaf(subject, claim.index)
    BY DEF OnlyTheRightLeaf
  <2>. DEFINE leaf  == claim.leaf
              path  == claim.path
              index == claim.index
  <2>1. subject \in Subjects /\ WellFormed(subject, claim)
    BY DEF IndInv
  <2>2. claim = Claim(leaf, path, index) /\ index \in Indices(subject)
    BY <2>1 DEF WellFormed
  <2>3. subject.kind \in FieldKinds => Len(path) = FixedLength(subject)
    BY <2>1 DEF WellFormed
  <2>. HIDE DEF leaf, path, index
  <2>4. Accepts(subject, Claim(leaf, path, index))
    BY <2>2, Zenon
  <2>5. CASE subject.kind \in FieldKinds
    BY <2>1, <2>3, <2>4, <2>5, FieldsAcceptOnlyTheRightLeaf, Zenon DEF leaf, index
  <2>6. CASE subject.kind \in EraKinds
    <3>1. index \in Offsets
      BY <2>2, <2>6 DEF Indices, EraKinds
    <3>. QED  BY <2>1, <2>4, <2>6, <3>1, EraAcceptsOnlyTheRightLeaf, Zenon DEF leaf, index
  <2>. QED  BY <2>1, <2>5, <2>6, KindsOfSubjects
<1>. QED  BY <1>1, Reached, PTL

=============================================================================
