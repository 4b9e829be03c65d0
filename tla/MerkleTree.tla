----------------------------- MODULE MerkleTree ------------------------------
(***************************************************************************)
(* src/merkle/proof.rs, the trees of the ssz and rs_merkle crates, and     *)
(* build_merkle_proof_for_index, over symbolic hashes: the hash of two     *)
(* nodes is the pair of them, so that different inputs never collide.      *)
(*                                                                         *)
(* Loops and recursions are functions of the step or of the depth, so that *)
(* they can be reasoned about for every depth.                             *)
(***************************************************************************)
EXTENDS Integers, Sequences

Leaf(value)       == [leaf |-> value]
Hash(left, right) == [left |-> left, right |-> right]

(* ethereum_hashing::ZERO_HASHES: the root of an all-zero tree. *)
ZeroLeaf == Leaf(<<>>)
ZeroHash[depth \in Nat] ==
  IF depth = 0 THEN ZeroLeaf ELSE Hash(ZeroHash[depth - 1], ZeroHash[depth - 1])

(* The mutated form looks at the lowest bit on every level. *)
IthBit_Lowest(index, i) == index % 2

IthBit(index, i) == (index \div 2^i) % 2

-----------------------------------------------------------------------------
(* MerkleTree, right-sparse: a missing right half is one Zero node. *)

ZeroTree(depth) == [kind |-> "Zero", hash |-> ZeroHash[depth], depth |-> depth]

Node(left, right) ==
  [kind |-> "Node", hash |-> Hash(left.hash, right.hash), left |-> left, right |-> right]

(* A slice <<from, to>> stands for the leaves after the first `from` ones, up
   to the one numbered `to`. *)
Slices(n) == {slice \in (0..n) \X (0..n) : slice[1] <= slice[2]}

(* The mutated form splits the leaves in halves whatever the capacity. *)
SplitAt_Halves(slice, depth) == slice[1] + (slice[2] - slice[1] + 1) \div 2

(* Where a slice is cut in two for the subtrees of a tree of that depth. *)
SplitAt(slice, depth) ==
  IF slice[2] - slice[1] <= 2^(depth - 1) THEN slice[2] ELSE slice[1] + 2^(depth - 1)

Create(leaves, depth) ==
  LET tree[d \in 0..depth] ==
        [slice \in Slices(Len(leaves)) |->
           IF slice[1] = slice[2] THEN ZeroTree(d)
           ELSE IF d = 0 THEN [kind |-> "Leaf", hash |-> leaves[slice[1] + 1]]
           ELSE Node(tree[d - 1][<<slice[1], SplitAt(slice, d)>>],
                     tree[d - 1][<<SplitAt(slice, d), slice[2]>>])]
  IN  tree[depth][<<0, Len(leaves)>>]

LeftAndRightBranches(tree) ==
  IF tree.kind = "Zero" THEN <<ZeroTree(tree.depth - 1), ZeroTree(tree.depth - 1)>>
  ELSE <<tree.left, tree.right>>

(* generate_proof, for the depth the tree was created with: otherwise a Leaf
   has no branches and the call panics.  node[k] is current_node after k steps
   down; the siblings are pushed on the way and reversed at the end. *)
GenerateProof(tree, index, depth) ==
  LET node[k \in 0..depth] ==
        IF k = 0 THEN tree
        ELSE LeftAndRightBranches(node[k - 1])[1 + IthBit(index, depth - k)]
  IN  [leaf  |-> node[depth].hash,
       proof |-> [i \in 1..depth |->
                    LeftAndRightBranches(node[depth - i])[2 - IthBit(index, i - 1)].hash]]

(* root[i] is merkle_root after i rounds of the loop. *)
MerkleRootFromBranch(leaf, branch, index) ==
  LET root[i \in 0..Len(branch)] ==
        IF i = 0 THEN leaf
        ELSE IF IthBit(index, i - 1) = 1 THEN Hash(branch[i], root[i - 1])
        ELSE Hash(root[i - 1], branch[i])
  IN  root[Len(branch)]

VerifyMerkleProof(leaf, branch, depth, index, root) ==
  /\ Len(branch) = depth
  /\ MerkleRootFromBranch(leaf, branch, index) = root

-----------------------------------------------------------------------------
(* The trees of the crates are built level by level from padded leaves. *)

Pad(leaves, depth) ==
  [i \in 1..2^depth |-> IF i <= Len(leaves) THEN leaves[i] ELSE ZeroLeaf]

PairUp(level) ==
  [i \in 1..(Len(level) \div 2) |-> Hash(level[2 * i - 1], level[2 * i])]

Levels(leaves, depth) ==
  LET level[k \in 0..depth] ==
        IF k = 0 THEN Pad(leaves, depth) ELSE PairUp(level[k - 1])
  IN  level

(* The depth of the smallest full tree with n leaves. *)
DepthFor(n) == CHOOSE d \in 0..n : 2^d >= n /\ (d = 0 \/ 2^(d - 1) < n)

Sibling(index) == IF index % 2 = 0 THEN index + 1 ELSE index - 1

(* tree_hash: the root of a container, or of a list up to its limit. *)
TreeHashRoot(leaves, depth) == Levels(leaves, depth)[depth][1]

(* The siblings on the way up, read off the levels. *)
BuildMerkleProofForIndex(leaves, index) ==
  LET depth == DepthFor(Len(leaves))
  IN  [k \in 1..depth |-> Levels(leaves, depth)[k - 1][1 + Sibling(index \div 2^(k - 1))]]

=============================================================================
