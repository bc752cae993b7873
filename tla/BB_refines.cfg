\* BitBuffer over 0..2 words, up to 3 calls: it implements the BitArray contract.
CONSTANTS
  WordLens = {0, 2}
  ByteLens = {8, 15}
  StartOffsets = {0, 64}
  Junk <- MCJunk
  OperandLens = {1, 2}
  Positions <- MCPositions
  RangeStarts <- MCRangeStarts
  Lengths = {0, 1}
  Counts = {0}
  MaxCalls = 3
SPECIFICATION Spec
INVARIANT TypeOK
PROPERTY ImplementsBitArray
\* The calls stop at MaxCalls, or at a failed assert.
CHECK_DEADLOCK FALSE
