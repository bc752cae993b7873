\* _andnot drops the documents of the first list past the last id of the second.
CONSTANTS
  Docids <- MCNarrowDocids
  DocidBits = 4
  MaxLen = 2
  Terms <- MCTerms
  VertTerms <- MCVertTerms
  IdTerm <- MCIdTerm
  Ops = {"andnot"}
SPECIFICATION Spec
INVARIANT AndNotComplete
\* Each operator returns: its final state has no successor.
CHECK_DEADLOCK FALSE
