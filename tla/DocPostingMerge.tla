--------------------------- MODULE DocPostingMerge ---------------------------
(***************************************************************************)
(* The position level of a DocPosting (src/db/fts/pix_doc_posting.h and   *)
(* pix_doc_posting.cpp): the uvec layout <<docid, tf, pos, pos, ...>>     *)
(* built by the constructors and init(), the DocPostingIterator that      *)
(* undoes the delta coding with a running sum, and the two position       *)
(* merges DocPosting::merge and DocPosting::proximity_merge.  One step is *)
(* one iteration of a merge loop.                                         *)
(*                                                                         *)
(* The source compares `aa.first <= bb.first` on unsigned values (a       *)
(* leftover of a pair-valued iterator); it is modelled as `aa <= bb`.     *)
(***************************************************************************)
EXTENDS Integers, Sequences, SequencesExt

CONSTANTS
  Positions,   \* positions an input posting may hold
  MaxTf,       \* longest input position list
  Bits,        \* width of unsigned and int (32 in the code)
  Junk,        \* values a read one past the end of uvec may return
  Kinds,       \* constructors that built the inputs
  Modes        \* subset of {"merge", "proximity"}

ASSUME Bits \in Nat \ {0} /\ Positions \subseteq 0..(2^(Bits - 1) - 1)
ASSUME Kinds \subseteq {"deltas", "absolute", "single"}
ASSUME Modes \subseteq {"merge", "proximity"}

Docid == 1   \* both inputs carry it: the callers merge equal docids only

VARIABLES
  mode,        \* which merge was called
  posa, posb,  \* the position lists the two inputs were built from
  ua, ub,      \* a.uvec, b.uvec
  ka, pa,      \* aIt: posIt - (begin + 2), and its pos (= lastPos)
  kb, pb,      \* bIt
  aa, bb,      \* proximity_merge's locals aa, bb
  lastStep,    \* "initial", "A" or "B"
  sep,         \* the running minimum separation, an int
  posv,        \* the merged positions
  result,      \* result.uvec
  sepresult,   \* the unsigned out parameter
  pc           \* "start", "loop", "tailA", "tailB", "done"

vars == <<mode, posa, posb, ua, ub, ka, pa, kb, pb, aa, bb, lastStep, sep,
          posv, result, sepresult, pc>>

Unsigned(x) == x % 2^Bits
AsInt(u) == IF u >= 2^(Bits - 1) THEN u - 2^Bits ELSE u
IntMin == -(2^(Bits - 1))          \* int sep = (1<<31)

\* The strictly increasing position lists an index holds.
PosLists == {s \in SeqOf(Positions, MaxTf) : IsSorted(s, <)}

\* DocPosting::init(docid, posv, takeDeltas)
InitUvec(d, s, takeDeltas) ==
  <<d, Len(s)>> \o
    [i \in 1..Len(s) |-> IF takeDeltas /\ i > 1 THEN Unsigned(s[i] - s[i - 1])
                                                 ELSE s[i]]

\* The uvec each constructor builds for docid d and positions s.
Build(kind, s) ==
  CASE kind = "deltas"   -> InitUvec(Docid, s, TRUE)   \* decoded or merged
    [] kind = "absolute" -> InitUvec(Docid, s, FALSE)  \* DocPosting(docid, posv)
    [] kind = "single"   -> <<Docid, 1, s[1]>>          \* DocPosting(docid, pos)

Inputs(kind) == {s \in PosLists : kind = "single" => Len(s) = 1}

Tf(u) == u[2]

\* *posIt for posIt = begin + 2 + k: past the end of uvec it is garbage.
Cell(u, k) == IF 3 + k <= Len(u) THEN {u[3 + k]} ELSE Junk

Init ==
  /\ mode \in Modes
  /\ \E ka0 \in Kinds, kb0 \in Kinds :
       /\ posa \in Inputs(ka0) /\ posb \in Inputs(kb0)
       /\ ua = Build(ka0, posa) /\ ub = Build(kb0, posb)
  /\ ka = 0 /\ kb = 0 /\ pa = 0 /\ pb = 0 /\ aa = 0 /\ bb = 0
  /\ lastStep = "initial" /\ sep = 0
  /\ posv = <<>> /\ result = <<>> /\ sepresult = 0
  /\ pc = "start"

-----------------------------------------------------------------------------
(* DocPostingIterator.                                                     *)

DoneA == ka = Tf(ua)
DoneB == kb = Tf(ub)

\* Mutant: ++ returns the stored delta without the running sum.
IncA_NoRunningSum == /\ ka' = ka + 1
                     /\ \E v \in Cell(ua, ka + 1) : pa' = v

\* ++posIt; pos = *posIt + lastPos; lastPos = pos;
IncA == /\ ka' = ka + 1
        /\ \E v \in Cell(ua, ka + 1) : pa' = Unsigned(v + pa)
IncB == /\ kb' = kb + 1
        /\ \E v \in Cell(ub, kb + 1) : pb' = Unsigned(v + pb)

\* The separation update `int n = (x - y); if (n < sep) sep = n;`
SepWith(x, y) == IF AsInt(Unsigned(x - y)) < sep THEN AsInt(Unsigned(x - y)) ELSE sep

-----------------------------------------------------------------------------
(* Both merges: the iterators are built (pos = *posIt even when tf = 0),   *)
(* and proximity_merge reads aa = *aIt, bb = *bIt once, before its loop.  *)
Start ==
  /\ pc = "start"
  /\ \E va \in Cell(ua, 0), vb \in Cell(ub, 0) :
       /\ pa' = va /\ pb' = vb
       /\ IF mode = "proximity"
            THEN /\ aa' = va /\ bb' = vb
                 /\ sep' = IntMin
            ELSE UNCHANGED <<aa, bb, sep>>
  /\ pc' = "loop"
  /\ UNCHANGED <<mode, posa, posb, ua, ub, ka, kb, lastStep, posv, result, sepresult>>

\* merge: the loop reads aa = *aIt, bb = *bIt afresh and takes aa on <=.
MergeTakeA ==
  /\ pc = "loop" /\ mode = "merge"
  /\ ~DoneA /\ ~DoneB /\ pa <= pb
  /\ posv' = Append(posv, pa)
  /\ IncA
  /\ UNCHANGED <<mode, posa, posb, ua, ub, kb, pb, aa, bb, lastStep, sep, result, sepresult, pc>>

MergeTakeB ==
  /\ pc = "loop" /\ mode = "merge"
  /\ ~DoneA /\ ~DoneB /\ pa > pb
  /\ posv' = Append(posv, pb)
  /\ IncB
  /\ UNCHANGED <<mode, posa, posb, ua, ub, ka, pa, aa, bb, lastStep, sep, result, sepresult, pc>>

\* proximity_merge: the loop compares and pushes the aa, bb read before it.
ProxTakeA ==
  /\ pc = "loop" /\ mode = "proximity"
  /\ ~DoneA /\ ~DoneB /\ aa <= bb
  /\ sep' = IF lastStep = "B" THEN SepWith(bb, aa) ELSE sep
  /\ lastStep' = "A"
  /\ posv' = Append(posv, aa)
  /\ IncA
  /\ UNCHANGED <<mode, posa, posb, ua, ub, kb, pb, aa, bb, result, sepresult, pc>>

ProxTakeB ==
  /\ pc = "loop" /\ mode = "proximity"
  /\ ~DoneA /\ ~DoneB /\ aa > bb
  /\ sep' = IF lastStep = "A" THEN SepWith(aa, bb) ELSE sep
  /\ lastStep' = "B"
  /\ posv' = Append(posv, bb)
  /\ IncB
  /\ UNCHANGED <<mode, posa, posb, ua, ub, ka, pa, aa, bb, result, sepresult, pc>>

\* Mutant: the loop condition written with || for &&.
LoopExit_BothDone ==
  /\ pc = "loop" /\ DoneA /\ DoneB
  /\ sep' = IF mode = "proximity" /\ ~DoneA /\ lastStep = "B"
              THEN SepWith(bb, aa) ELSE sep
  /\ pc' = "tailA"
  /\ UNCHANGED <<mode, posa, posb, ua, ub, ka, pa, kb, pb, aa, bb, lastStep, posv, result, sepresult>>

\* The loop ends; proximity_merge then measures a's rest against the last b.
LoopExit ==
  /\ pc = "loop" /\ (DoneA \/ DoneB)
  /\ sep' = IF mode = "proximity" /\ ~DoneA /\ lastStep = "B"
              THEN SepWith(bb, aa) ELSE sep
  /\ pc' = "tailA"
  /\ UNCHANGED <<mode, posa, posb, ua, ub, ka, pa, kb, pb, aa, bb, lastStep, posv, result, sepresult>>

\* Mutant: the tail loop of a tests the wrong iterator.
TailAStep_WrongDone ==
  /\ pc = "tailA" /\ ~DoneB
  /\ posv' = Append(posv, pa)
  /\ aa' = pa
  /\ IncA
  /\ UNCHANGED <<mode, posa, posb, ua, ub, kb, pb, bb, lastStep, sep, result, sepresult, pc>>

\* while (!aIt.done()) { aa = *aIt; posv.push_back(aa); ++aIt; }
TailAStep ==
  /\ pc = "tailA" /\ ~DoneA
  /\ posv' = Append(posv, pa)
  /\ aa' = pa
  /\ IncA
  /\ UNCHANGED <<mode, posa, posb, ua, ub, kb, pb, bb, lastStep, sep, result, sepresult, pc>>

TailAExit ==
  /\ pc = "tailA" /\ DoneA
  /\ sep' = IF mode = "proximity" /\ ~DoneB /\ lastStep = "A"
              THEN SepWith(aa, bb) ELSE sep
  /\ pc' = "tailB"
  /\ UNCHANGED <<mode, posa, posb, ua, ub, ka, pa, kb, pb, aa, bb, lastStep, posv, result, sepresult>>

TailBStep ==
  /\ pc = "tailB" /\ ~DoneB
  /\ posv' = Append(posv, pb)
  /\ bb' = pb
  /\ IncB
  /\ UNCHANGED <<mode, posa, posb, ua, ub, ka, pa, aa, lastStep, sep, result, sepresult, pc>>

\* Mutant: the merged positions are stored without delta coding.
TailBExit_Absolute ==
  /\ pc = "tailB" /\ DoneB
  /\ result' = InitUvec(Docid, posv, FALSE)
  /\ sepresult' = IF mode = "proximity" THEN Unsigned(sep) ELSE sepresult
  /\ pc' = "done"
  /\ UNCHANGED <<mode, posa, posb, ua, ub, ka, pa, kb, pb, aa, bb, lastStep, sep, posv>>

\* result.init(a.getDocid(), posv, true); sepresult = sep;
TailBExit ==
  /\ pc = "tailB" /\ DoneB
  /\ result' = InitUvec(Docid, posv, TRUE)
  /\ sepresult' = IF mode = "proximity" THEN Unsigned(sep) ELSE sepresult
  /\ pc' = "done"
  /\ UNCHANGED <<mode, posa, posb, ua, ub, ka, pa, kb, pb, aa, bb, lastStep, sep, posv>>

Next ==
  \/ Start \/ MergeTakeA \/ MergeTakeB \/ ProxTakeA \/ ProxTakeB
  \/ LoopExit \/ TailAStep \/ TailAExit \/ TailBStep \/ TailBExit

\* A merge runs to completion on the calling thread.
Spec == Init /\ [][Next]_vars /\ WF_vars(Next)


-----------------------------------------------------------------------------
(* Properties.                                                             *)

TypeOK ==
  /\ mode \in Modes
  /\ ka \in 0..Tf(ua) /\ kb \in 0..Tf(ub)
  /\ {pa, pb, aa, bb, sepresult} \subseteq 0..(2^Bits - 1)
  /\ lastStep \in {"initial", "A", "B"}
  /\ sep \in IntMin..(2^(Bits - 1) - 1)
  /\ posv \in Seq(0..(2^Bits - 1))
  /\ pc \in {"start", "loop", "tailA", "tailB", "done"}

\* The positions a DocPostingIterator over uvec u yields: a running sum.
Decode(u) ==
  [i \in 1..Tf(u) |-> Unsigned(FoldLeft(LAMBDA x, y : x + y, 0, SubSeq(u, 3, 2 + i)))]

(***************************************************************************)
(* The iterator hands out, at every step of either merge, the absolute    *)
(* position the input posting was built from: its running sum undoes the  *)
(* delta coding its constructor applied.                                  *)
(***************************************************************************)
IteratorDecodes ==
  /\ pc \in {"loop", "tailA"} /\ ~DoneA => pa = posa[ka + 1]
  /\ pc \in {"loop", "tailA", "tailB"} /\ ~DoneB => pb = posb[kb + 1]

(***************************************************************************)
(* The posting DocPosting::merge returns decodes to the sorted union of  *)
(* both position lists, each position of each input once, and its tf is   *)
(* their count.  (proximity_merge returns a separation, not a posting.)   *)
(***************************************************************************)
MergedUnion ==
  mode = "merge" /\ pc = "done" => Decode(result) = SortSeq(posa \o posb, <)

(***************************************************************************)
(* proximity_merge also builds a merged posting (result.init(docid, posv,  *)
(* true)); it too should decode to the sorted union of both inputs.       *)
(***************************************************************************)
ProximityUnion ==
  mode = "proximity" /\ pc = "done" => Decode(result) = SortSeq(posa \o posb, <)

(***************************************************************************)
(* A decoded position list is strictly increasing (pix_doc_posting.h:     *)
(* delta coding assumes it), merged postings included.                    *)
(***************************************************************************)
PositionsStrictlyIncrease ==
  pc = "done" => IsSorted(Decode(result), <)

\* The least distance between a position of a and a position of b.
MinDist ==
  LET D == {IF x >= y THEN x - y ELSE y - x :
              x \in {posa[i] : i \in 1..Len(posa)}, y \in {posb[j] : j \in 1..Len(posb)}}
  IN CHOOSE d \in D : \A e \in D : d <= e

(***************************************************************************)
(* proximity_merge returns in sepresult the least separation between an   *)
(* a-position and an adjacent b-position, when both lists are nonempty.   *)
(***************************************************************************)
MinSeparation ==
  (pc = "done" /\ mode = "proximity" /\ posa # <<>> /\ posb # <<>>)
    => sepresult = MinDist

\* Every merge returns.
Termination == <>(pc = "done")

====
