------------------------ MODULE MCPostingListAlgebra ------------------------
(***************************************************************************)
(* Model values for PostingListAlgebra.  Document ids are scaled down to  *)
(* DocidBits = 3 or 4: the wrap of `int c = docid1 - docid2` depends only *)
(* on whether two ids are 2^(DocidBits-1) or more apart, so 0..4 is a     *)
(* range without wrap at 4 bits and 0..7 the full unsigned range at 3.    *)
(***************************************************************************)
EXTENDS PostingListAlgebra

MCTerms == {"t", "__ID", "vert:t"}
MCVertTerms == {"vert:t"}
MCIdTerm == "__ID"

\* Ids less than 2^(DocidBits-1) apart for DocidBits = 4: no wrap.
MCNarrowDocids == 0..4
\* The whole unsigned range.
MCWideDocids == 0..7

MCSetOps == {"and", "or", "accrue", "merge", "andnot", "filter"}
=============================================================================
