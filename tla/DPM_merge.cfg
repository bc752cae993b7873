\* DocPosting::merge and proximity_merge of all delta-coded postings with up to 3 positions in 0..4.
CONSTANTS
  Positions <- MCPositions
  MaxTf = 3
  Bits = 5
  Junk <- MCJunk
  Kinds <- MCDeltaKinds
  Modes <- MCBothModes
SPECIFICATION Spec
INVARIANT TypeOK
INVARIANT IteratorDecodes
INVARIANT MergedUnion
PROPERTY Termination
\* A merge returns: its final state has no successor.
CHECK_DEADLOCK FALSE
