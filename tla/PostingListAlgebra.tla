------------------------- MODULE PostingListAlgebra -------------------------
(***************************************************************************)
(* The two-list merge-join operators of PostingList                        *)
(* (src/db/fts/pix_posting_list.cpp): _and2, _or, _accrue2, merge and      *)
(* _andnot, and the constructor PostingList(pList, dset) that filters a   *)
(* list by a docid_set (dset is given as the docids of the second list,  *)
(* the only thing the constructor asks of it being contains).  Each      *)
(* operator walks two input lists with one iterator each;  *)
(* one step of the model is one iteration of the operator's while loop,   *)
(* and the entry action is the operator's prologue with its early         *)
(* returns.                                                               *)
(*                                                                         *)
(* A DocPosting is abstracted to its document id, the set of input lists  *)
(* whose posting went into it (src), and the name of the scoring function *)
(* that last set its score.  The position-level merge of two postings     *)
(* (DocPosting::merge) is modelled in module DocPostingMerge.             *)
(*                                                                         *)
(* Document ids are unsigned integers of DocidBits bits; the union        *)
(* operators compare them through `int c = docid1 - docid2`, modelled     *)
(* with its wrap-around.                                                  *)
(***************************************************************************)
EXTENDS Integers, Sequences, SequencesExt, FiniteSets

CONSTANTS
  Docids,      \* document ids that may occur in an input list
  DocidBits,   \* width of the unsigned docid (32 in the code)
  MaxLen,      \* longest input list
  Terms,       \* term labels the input lists may carry
  VertTerms,   \* the labels among Terms that begin with "vert:"
  IdTerm,      \* the identity sentinel label "__ID"
  Ops          \* operators called: subset of AllOps

AllOps == {"and", "or", "accrue", "merge", "andnot", "filter"}

ASSUME DocidBits \in Nat \ {0}
ASSUME Docids \subseteq 0..(2^DocidBits - 1)
ASSUME MaxLen \in Nat
ASSUME VertTerms \subseteq Terms /\ IdTerm \in Terms \ VertTerms
ASSUME Ops \subseteq AllOps

VARIABLES
  op,          \* the operator the caller invoked
  fn,          \* the function now executing (_accrue2 may call _and2)
  term1, term2,\* getTerm() of the two inputs
  L1, L2,      \* the two input lists (read-only)
  i1, i2,      \* it1, it2: 1-based iterator positions, Len+1 is end()
  p1, p2,      \* the local DocPosting copies p1 = *it1, p2 = *it2
  result,      \* the output PostingList
  pc           \* "start", "loop", "done" or "crash"

vars == <<op, fn, term1, term2, L1, L2, i1, i2, p1, p2, result, pc>>

ScoreKinds == {"tf", "and2", "accrue1", "accrue2"}
Posting == [docid : Docids, src : SUBSET {1, 2}, score : ScoreKinds]

\* A default-constructed DocPosting, read only where the code reads garbage.
NoPosting == [docid |-> 0, src |-> {}, score |-> "tf"]

\* The ascending, duplicate-free lists the block decoder can hand over.
InputLists(k) ==
  { [j \in 1..Len(s) |-> [docid |-> s[j], src |-> {k}, score |-> "tf"]] :
      s \in {t \in SeqOf(Docids, MaxLen) : IsSorted(t, <)} }

DocsOf(L) == {L[j].docid : j \in 1..Len(L)}
(***************************************************************************)
(* `int c = docid1 - docid2;` with unsigned docids: the difference wraps  *)
(* modulo 2^DocidBits and is then read as a two's complement int.         *)
(***************************************************************************)
AsInt(u) == IF u >= 2^(DocidBits - 1) THEN u - 2^DocidBits ELSE u
Cmp == AsInt((p1.docid - p2.docid) % 2^DocidBits)

Valid1 == i1 <= Len(L1)
Valid2 == i2 <= Len(L2)

\* Mutant: the iterator steps over the next posting.
Advance1_Skip == /\ i1' = i1 + 2
                 /\ p1' = IF i1 + 2 <= Len(L1) THEN L1[i1 + 2] ELSE p1

\* ++itk; if (itk != ek) pk = *itk;
Advance1 == /\ i1' = i1 + 1
            /\ p1' = IF i1 + 1 <= Len(L1) THEN L1[i1 + 1] ELSE p1
Advance2 == /\ i2' = i2 + 1
            /\ p2' = IF i2 + 1 <= Len(L2) THEN L2[i2 + 1] ELSE p2

\* Leave the operator with `result` as the returned list.
Return(r) == /\ result' = r
             /\ pc' = "done"
             /\ UNCHANGED <<op, fn, term1, term2, L1, L2, i1, i2, p1, p2>>

\* Enter the merge loop with pk = *begin() where the list has one.
EnterLoop == /\ pc' = "loop"
             /\ p1' = IF Len(L1) > 0 THEN L1[1] ELSE NoPosting
             /\ p2' = IF Len(L2) > 0 THEN L2[1] ELSE NoPosting
             /\ UNCHANGED <<op, fn, term1, term2, L1, L2, i1, i2, result>>

Init ==
  /\ op \in Ops
  /\ fn = op
  /\ term1 \in Terms /\ term2 \in Terms
  /\ L1 \in InputLists(1) /\ L2 \in InputLists(2)
  \* "__ID" stands for the universal list, which is never empty.
  /\ term1 = IdTerm => L1 # <<>>
  /\ term2 = IdTerm => L2 # <<>>
  /\ i1 = 1 /\ i2 = 1
  /\ p1 = NoPosting /\ p2 = NoPosting
  /\ result = <<>>
  /\ pc = "start"

-----------------------------------------------------------------------------
(* Prologues.                                                              *)

\* _and2: empty operand, then the "__ID" identity, then the loop.
AndEntry ==
  /\ pc = "start" /\ fn = "and"
  /\ \/ /\ Len(L1) = 0 \/ Len(L2) = 0
        /\ Return(result)
     \/ /\ Len(L1) > 0 /\ Len(L2) > 0 /\ term1 = IdTerm
        /\ Return(L2)
     \/ /\ Len(L1) > 0 /\ Len(L2) > 0 /\ term1 # IdTerm /\ term2 = IdTerm
        /\ Return(L1)
     \/ /\ Len(L1) > 0 /\ Len(L2) > 0 /\ term1 # IdTerm /\ term2 # IdTerm
        /\ EnterLoop

\* The prologue shared by _or and _accrue2: an empty operand is returned
\* as the other one, unchanged.
UnionPrologue ==
  \/ /\ Len(L1) = 0
     /\ Return(L2)
  \/ /\ Len(L1) > 0 /\ Len(L2) = 0
     /\ Return(L1)
  \/ /\ Len(L1) > 0 /\ Len(L2) > 0
     /\ EnterLoop

OrEntry ==
  /\ pc = "start" /\ fn = "or"
  /\ UnionPrologue

\* _accrue2: a "vert:" operand turns it into _and2 (the call is the next
\* step); otherwise it is _or's prologue.
AccrueEntry ==
  /\ pc = "start" /\ fn = "accrue"
  /\ \/ /\ term1 \in VertTerms \/ term2 \in VertTerms
        /\ fn' = "and"
        /\ UNCHANGED <<op, term1, term2, L1, L2, i1, i2, p1, p2, result, pc>>
     \/ /\ term1 \notin VertTerms /\ term2 \notin VertTerms
        /\ UnionPrologue

\* merge: no guard; `DocPosting p1 = *it1` on an empty list dereferences
\* begin() of an empty vector, which may crash the process.
MergeEntry ==
  /\ pc = "start" /\ fn = "merge"
  /\ \/ EnterLoop
     \/ /\ Len(L1) = 0 \/ Len(L2) = 0
        /\ pc' = "crash"
        /\ UNCHANGED <<op, fn, term1, term2, L1, L2, i1, i2, p1, p2, result>>

\* _andnot: an empty operand returns an empty result.
AndNotEntry ==
  /\ pc = "start" /\ fn = "andnot"
  /\ \/ /\ Len(L1) = 0 \/ Len(L2) = 0
        /\ Return(result)
     \/ /\ Len(L1) > 0 /\ Len(L2) > 0
        /\ EnterLoop

-----------------------------------------------------------------------------
(* The union loop of _or, _accrue2 and merge: a three-way comparison of   *)
(* the cached docids, c = +1 when it1 is at its end, c = -1 when it2 is.   *)

UnionFns == {"or", "accrue", "merge"}

\* _accrue2 rescores a posting taken from one list with Scorer::_accrue1.
Single(p) == IF fn = "accrue" THEN [p EXCEPT !.score = "accrue1"] ELSE p

\* DocPosting::merge(p1, p2, p) then, in _accrue2, Scorer::_accrue2.
Merged ==
  [docid |-> p1.docid, src |-> p1.src \cup p2.src,
   score |-> IF fn = "accrue" THEN "accrue2" ELSE "tf"]

UnionTakeFirst ==
  /\ pc = "loop" /\ fn \in UnionFns
  /\ Valid1 /\ (~Valid2 \/ Cmp < 0)
  /\ result' = Append(result, Single(p1))
  /\ Advance1
  /\ UNCHANGED <<op, fn, term1, term2, L1, L2, i2, p2, pc>>

UnionTakeSecond ==
  /\ pc = "loop" /\ fn \in UnionFns
  /\ Valid2 /\ (~Valid1 \/ Cmp > 0)
  /\ result' = Append(result, Single(p2))
  /\ Advance2
  /\ UNCHANGED <<op, fn, term1, term2, L1, L2, i1, p1, pc>>

UnionTakeBoth ==
  /\ pc = "loop" /\ fn \in UnionFns
  /\ Valid1 /\ Valid2 /\ Cmp = 0
  /\ result' = Append(result, Merged)
  /\ Advance1 /\ Advance2
  /\ UNCHANGED <<op, fn, term1, term2, L1, L2, pc>>

\* Mutant: the union loop written with && instead of ||.
UnionExit_EitherEnd ==
  /\ pc = "loop" /\ fn \in UnionFns
  /\ ~Valid1 \/ ~Valid2
  /\ Return(result)

UnionExit ==
  /\ pc = "loop" /\ fn \in UnionFns
  /\ ~Valid1 /\ ~Valid2
  /\ Return(result)

-----------------------------------------------------------------------------
(* The intersection loop of _and2, on the unsigned docids.                 *)

AndSkipFirst ==
  /\ pc = "loop" /\ fn = "and"
  /\ Valid1 /\ Valid2 /\ p1.docid < p2.docid
  /\ Advance1
  /\ UNCHANGED <<op, fn, term1, term2, L1, L2, i2, p2, result, pc>>

\* Mutant: the skip of it2 forgets ++it2.
AndSkipSecond_NoAdvance ==
  /\ pc = "loop" /\ fn = "and"
  /\ Valid1 /\ Valid2 /\ p1.docid > p2.docid
  /\ UNCHANGED vars

AndSkipSecond ==
  /\ pc = "loop" /\ fn = "and"
  /\ Valid1 /\ Valid2 /\ p1.docid > p2.docid
  /\ Advance2
  /\ UNCHANGED <<op, fn, term1, term2, L1, L2, i1, p1, result, pc>>

\* DocPosting::merge, then p.setScore(Scorer::_and2(p1, p2, w1, w2)).
AndMatch ==
  /\ pc = "loop" /\ fn = "and"
  /\ Valid1 /\ Valid2 /\ p1.docid = p2.docid
  /\ result' = Append(result, [Merged EXCEPT !.score = "and2"])
  /\ Advance1 /\ Advance2
  /\ UNCHANGED <<op, fn, term1, term2, L1, L2, pc>>

AndExit ==
  /\ pc = "loop" /\ fn = "and"
  /\ ~Valid1 \/ ~Valid2
  /\ Return(result)

-----------------------------------------------------------------------------
(* The loop of _andnot, reading the docids at it1 and it2 directly.       *)

\* Mutant: emits on docid1 <= docid2.
AndNotEmit_LessEq ==
  /\ pc = "loop" /\ fn = "andnot"
  /\ Valid1 /\ Valid2 /\ L1[i1].docid <= L2[i2].docid
  /\ result' = Append(result, L1[i1])
  /\ i1' = i1 + 1
  /\ UNCHANGED <<op, fn, term1, term2, L1, L2, i2, p1, p2, pc>>

AndNotEmit ==
  /\ pc = "loop" /\ fn = "andnot"
  /\ Valid1 /\ Valid2 /\ L1[i1].docid < L2[i2].docid
  /\ result' = Append(result, L1[i1])
  /\ i1' = i1 + 1
  /\ UNCHANGED <<op, fn, term1, term2, L1, L2, i2, p1, p2, pc>>

\* Mutant: the skip of it2 forgets ++it2.
AndNotSkipSecond_NoAdvance ==
  /\ pc = "loop" /\ fn = "andnot"
  /\ Valid1 /\ Valid2 /\ L1[i1].docid > L2[i2].docid
  /\ UNCHANGED vars

AndNotSkipSecond ==
  /\ pc = "loop" /\ fn = "andnot"
  /\ Valid1 /\ Valid2 /\ L1[i1].docid > L2[i2].docid
  /\ i2' = i2 + 1
  /\ UNCHANGED <<op, fn, term1, term2, L1, L2, i1, p1, p2, result, pc>>

AndNotSkipBoth ==
  /\ pc = "loop" /\ fn = "andnot"
  /\ Valid1 /\ Valid2 /\ L1[i1].docid = L2[i2].docid
  /\ i1' = i1 + 1 /\ i2' = i2 + 1
  /\ UNCHANGED <<op, fn, term1, term2, L1, L2, p1, p2, result, pc>>

\* while (it1!=e1 && it2!=e2): the loop ends with the first exhausted list.
AndNotExit ==
  /\ pc = "loop" /\ fn = "andnot"
  /\ ~Valid1 \/ ~Valid2
  /\ Return(result)

-----------------------------------------------------------------------------
(* PostingList(pList, dset): one step per posting of pList, appended    *)
(* when dset.contains its docid.                                          *)

FilterEntry ==
  /\ pc = "start" /\ fn = "filter"
  /\ pc' = "loop"
  /\ UNCHANGED <<op, fn, term1, term2, L1, L2, i1, i2, p1, p2, result>>

FilterStep ==
  /\ pc = "loop" /\ fn = "filter"
  /\ Valid1
  /\ result' = IF L1[i1].docid \in DocsOf(L2) THEN Append(result, L1[i1]) ELSE result
  /\ i1' = i1 + 1
  /\ UNCHANGED <<op, fn, term1, term2, L1, L2, i2, p1, p2, pc>>

FilterExit ==
  /\ pc = "loop" /\ fn = "filter"
  /\ ~Valid1
  /\ Return(result)

-----------------------------------------------------------------------------
Next ==
  \/ AndEntry \/ OrEntry \/ AccrueEntry \/ MergeEntry \/ AndNotEntry
  \/ UnionTakeFirst \/ UnionTakeSecond \/ UnionTakeBoth \/ UnionExit
  \/ AndSkipFirst \/ AndSkipSecond \/ AndMatch \/ AndExit
  \/ AndNotEmit \/ AndNotSkipSecond \/ AndNotSkipBoth \/ AndNotExit
  \/ FilterEntry \/ FilterStep \/ FilterExit

\* The operators run to completion on the calling thread.
Spec == Init /\ [][Next]_vars /\ WF_vars(Next)

-----------------------------------------------------------------------------
(* Properties.                                                             *)

TypeOK ==
  /\ op \in AllOps /\ fn \in AllOps
  /\ term1 \in Terms /\ term2 \in Terms
  /\ i1 \in 1..(Len(L1) + 1) /\ i2 \in 1..(Len(L2) + 1)
  /\ {p1, p2} \subseteq Posting
  /\ result \in Seq(Posting)
  /\ pc \in {"start", "loop", "done", "crash"}

\* What the caller is promised, as [docid, src] entries: a document and
\* the input lists it came from.
Entry(d) == [docid |-> d, src |-> {k \in {1, 2} : d \in DocsOf(IF k = 1 THEN L1 ELSE L2)}]
Shape(L) == {[docid |-> L[j].docid, src |-> L[j].src] : j \in 1..Len(L)}

Expected ==
  LET D1 == DocsOf(L1)
      D2 == DocsOf(L2)
      Meet == IF term1 = IdTerm THEN Shape(L2)
              ELSE IF term2 = IdTerm THEN Shape(L1)
              ELSE {Entry(d) : d \in D1 \cap D2}
  IN CASE op = "and"    -> Meet
       [] op = "accrue" -> IF term1 \in VertTerms \/ term2 \in VertTerms
                           THEN Meet ELSE {Entry(d) : d \in D1 \cup D2}
       [] op \in {"or", "merge"} -> {Entry(d) : d \in D1 \cup D2}
       [] op = "andnot" -> {Entry(d) : d \in D1 \ D2}
       [] op = "filter" -> {[docid |-> d, src |-> {1}] : d \in D1 \cap D2}

(***************************************************************************)
(* Completeness: every document the operator's set meaning calls for is   *)
(* in the returned list: the loops of _and2, _or, _accrue2 and merge run  *)
(* until the right iterators reach their ends.                            *)
(***************************************************************************)
ResultComplete == pc = "done" /\ op # "andnot" => Expected \subseteq Shape(result)

(***************************************************************************)
(* The same for _andnot: every document of the first list that is not in  *)
(* the second is returned, also those past the second list's last id.     *)
(***************************************************************************)
AndNotComplete == pc = "done" /\ op = "andnot" => Expected \subseteq Shape(result)

(***************************************************************************)
(* _accrue2 gives every returned document a single-list score when it is  *)
(* in one list and a combined score when it is in both (unless a "vert:"  *)
(* operand turned it into an intersection).                               *)
(***************************************************************************)
AccrueScoring ==
  (pc = "done" /\ op = "accrue" /\ term1 \notin VertTerms /\ term2 \notin VertTerms)
    => \A j \in 1..Len(result) :
         result[j].score = IF result[j].src = {1, 2} THEN "accrue2" ELSE "accrue1"

(***************************************************************************)
(* Every operator implements the OrderedJoin contract: its target is the  *)
(* set meaning Expected of its operands, and at every step of every loop  *)
(* the output is the start of that target in ascending docid order, only  *)
(* ever extended (the single forward pass with three-way comparison of    *)
(* spec.md; the refresh of p1/p2 after each advance; the early returns    *)
(* handing over a whole list).                                            *)
(***************************************************************************)
Contract == INSTANCE OrderedJoin WITH
  Entries <- [docid : Docids, src : SUBSET {1, 2}],
  target <- Expected,
  out <- [j \in 1..Len(result) |-> [docid |-> result[j].docid, src |-> result[j].src]],
  returned <- (pc = "done")

NoCrash == pc # "crash"

\* Every operator call returns (or crashes): no iteration leaves both
\* iterators where they were.
Termination == <>(pc \in {"done", "crash"})

=============================================================================
