SPECIFICATION Spec
CONSTANT EraDepth = 3
INVARIANTS FieldProofsFold EraProofsFold OnlyTheRightLeaf
