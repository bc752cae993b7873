---------------------------- MODULE OrderedJoin ----------------------------
(***************************************************************************)
(* The contract of a merge-join operator of PostingList (spec.md,          *)
(* "Boolean/proximity algebra"): given its operands, an operator has a    *)
(* target, the set of [docid, src] entries its set meaning calls for, and *)
(* it produces them in one forward pass in ascending docid order.  The    *)
(* output is only ever extended, and every extension is by the next       *)
(* entries of the target in that order: no entry is skipped, repeated,    *)
(* reordered or taken back.  The operator may return at any point; how    *)
(* much of the target it must have produced by then is the completeness  *)
(* property of the detailed module, which _andnot does not meet.         *)
(***************************************************************************)
EXTENDS Integers, Sequences, SequencesExt, FiniteSets

CONSTANT Entries   \* the [docid, src] entries an operator may produce

VARIABLES
  target,   \* the entries the operator's set meaning calls for
  out,      \* the entries produced so far, in production order
  returned  \* whether the operator has returned to its caller

vars == <<target, out, returned>>

\* The target in the order a merge-join produces it.
Sorted == SetToSortSeq(target, LAMBDA a, b : a.docid < b.docid)

\* The output extended to the first n entries of the sorted target.
ExtendTo(n) == /\ n \in Len(out) .. Cardinality(target)
               /\ out' = SubSeq(Sorted, 1, n)

Init == /\ target \in SUBSET Entries
        /\ out = <<>>
        /\ returned = FALSE

\* One or more further entries are produced.
Produce == /\ ~returned
           /\ \E n \in Len(out) + 1 .. Cardinality(target) : ExtendTo(n)
           /\ UNCHANGED <<target, returned>>

\* The operator returns, possibly handing over a final run of entries at
\* once (the identity and empty-operand returns hand over a whole list).
Return == /\ ~returned
           /\ \E n \in Len(out) .. Cardinality(target) : ExtendTo(n)
           /\ returned' = TRUE
           /\ UNCHANGED target

Next == Produce \/ Return

Spec == Init /\ [][Next]_vars

=============================================================================
