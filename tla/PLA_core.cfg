\* and/or/accrue/merge/andnot over all ascending lists of up to 4 ids in 0..4.
CONSTANTS
  Docids <- MCNarrowDocids
  DocidBits = 4
  MaxLen = 4
  Terms <- MCTerms
  VertTerms <- MCVertTerms
  IdTerm <- MCIdTerm
  Ops <- MCSetOps
SPECIFICATION Spec
INVARIANT TypeOK
INVARIANT ResultComplete
 
PROPERTY Termination
\* Each operator returns: its final state has no successor.
CHECK_DEADLOCK FALSE
