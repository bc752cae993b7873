\* The unpacking constructors and findtf on every block of up to 3 records, followed by nothing, by damage after the last record, or by a cut.
CONSTANTS
  Variants <- MCVariants
  Records <- MCRecords
  Tails <- MCTails
  Starts = {0, 1}
  Counts = {1, 2}
  TfMins = {1, 2}
SPECIFICATION Spec
INVARIANT TypeOK
INVARIANT UnpacksRecords
INVARIANT FindTfSelects
PROPERTY Termination
\* A constructor that returned, or stopped at a read past the block, has no successor.
CHECK_DEADLOCK FALSE
