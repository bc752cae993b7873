\* DocPosting::merge keeps both copies of a position common to the two inputs.
CONSTANTS
  Positions <- MCPositions
  MaxTf = 3
  Bits = 5
  Junk <- MCJunk
  Kinds <- MCDeltaKinds
  Modes <- MCMergeMode
SPECIFICATION Spec
INVARIANT PositionsStrictlyIncrease
\* A merge returns: its final state has no successor.
CHECK_DEADLOCK FALSE
