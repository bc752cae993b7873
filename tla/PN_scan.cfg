\* _phrase2 on up to three lists and _near2 on pairs of lists, with every radius up to 2, and _tag2 of every type on lists of up to 2 tagged postings.
CONSTANTS
  Ops = {"phrase", "near", "tag"}
  Inputs <- MCInputs
  TagInputs <- MCTagInputs
  Types = {0, 1, 2, 3}
  StopSets <- MCStopSets
  Radii = {0, 1, 2}
  Junk <- MCJunk
  Bits = 4
SPECIFICATION Spec
INVARIANT TypeOK
INVARIANT PhraseMatches
INVARIANT TagFilters
PROPERTY Termination
\* A call that returned has no successor.
CHECK_DEADLOCK FALSE
