\* _near2 on pairs of lists: does it emit every pair of positions within radius?
CONSTANTS
  Ops = {"near"}
  Inputs <- MCInputs
  TagInputs <- MCTagInputs
  Types = {0, 1, 2, 3}
  StopSets <- MCStopSets
  Radii = {0, 1, 2}
  Junk <- MCJunk
  Bits = 4
SPECIFICATION Spec
INVARIANT NearPairsComplete
\* A call that returned has no successor.
CHECK_DEADLOCK FALSE
