----------------------------- MODULE PhraseNear ------------------------------
(***************************************************************************)
(* PostingList::_phrase2 and PostingList::_near2 (pix_posting_list.cpp    *)
(* 436-578, 630-750): an N-way merge-join of the lists by docid and, in   *)
(* every docid all of them hold, a scan of the terms' position lists.     *)
(* Term t of the model is pLv[t-1] of the code.  A posting is its docid   *)
(* and its absolute positions; the code reads each position as            *)
(* the .first of *idpv[i], a DocPostingIterator (the tag, .second, is only *)
(* copied into tagv and is left out).  ++ on the last position reads       *)
(* *posIt one past the end of uvec: the iterator's value is then garbage  *)
(* (Junk) plus the last position, in Bits-wide unsigned arithmetic.       *)
(* Scores and the result's term string are left out.                      *)
(***************************************************************************)
EXTENDS Integers, Sequences, SequencesExt, FiniteSets

CONSTANTS
  Ops,       \* a subset of {"phrase", "near", "tag"}
  Inputs,    \* the tuples of PostingLists handed to _phrase2 and _near2
  TagInputs, \* the 1-tuples <<pL>> handed to _tag2; a posting also has .tag
  Types,     \* type arguments of _tag2 (1 title, 2 url, 0 site)
  StopSets,  \* sets of terms t whose term string contains '#'
  Radii,     \* radius arguments of _near2
  Junk,      \* values *posIt may hold one past the end of uvec
  Bits       \* width of unsigned

VARIABLES
  op, lists, stops, radius,
  type,      \* _tag2's type (1 for the other operators)
  posidxv,   \* _phrase2's offset of each term in the phrase
  itv,       \* itv[t]: index of list t's current posting (Len + 1 = end)
  docid,     \* the target docid
  idp,       \* idp[t]: index of the current position of term t's posting
  cur,       \* cur[t]: the value (*idpv[t]).first
  pos, posidx, i, done, match,
  posv,      \* the positions collected for the current docid
  added,     \* addNewDocs
  result,    \* pList: the postings appended, as [docid, posv]
  pc         \* "start", "join", "phrase", "nearFor", "nearAfter", "nearPush", "emit", "tag", "done", "crash"

vars == <<op, lists, stops, radius, type, posidxv, itv, docid, idp, cur, pos, posidx,
          i, done, match, posv, added, result, pc>>

Unsigned(x) == x % 2^Bits

N == Len(lists)
Terms == 1 .. N

\* The for loop that builds posidxv: the first term gets 0 and sets nothing;
\* a term after a '#' term gets the same offset (and its own '#' is not
\* looked at); any other term gets the next offset.
RECURSIVE OffsetsFrom(_, _, _, _, _)
OffsetsFrom(t, n, ss, off, bNextStop) ==
  IF t > n THEN <<>>
  ELSE IF bNextStop THEN <<off>> \o OffsetsFrom(t + 1, n, ss, off, FALSE)
  ELSE <<off + 1>> \o OffsetsFrom(t + 1, n, ss, off + 1, t \in ss)

Offsets(n, ss) == OffsetsFrom(1, n, ss, 0, TRUE)

Post(t) == lists[t][itv[t]]
P(t) == Post(t).pos

\* while (itv[i]!=iendv[i] && (*itv[i]).getDocid() < docid) ++itv[i];
RECURSIVE SkipTo(_, _, _)
SkipTo(t, k, d) ==
  IF k > Len(lists[t]) \/ lists[t][k].docid >= d THEN k ELSE SkipTo(t, k + 1, d)

\* Mutant: the new target docid is not taken on a mismatch.
RECURSIVE JoinFor_KeepTarget(_, _, _)
JoinFor_KeepTarget(t, its, d) ==
  IF t > N THEN [its |-> its, docid |-> d, res |-> "match"]
  ELSE LET k == SkipTo(t, its[t], d)
           its2 == [its EXCEPT ![t] = k]
       IN IF k > Len(lists[t]) THEN [its |-> its2, docid |-> d, res |-> "terminate"]
          ELSE IF lists[t][k].docid > d
               THEN [its |-> its2, docid |-> d, res |-> "mismatch"]
               ELSE JoinFor_KeepTarget(t + 1, its2, d)

\* One pass of the for loop over the lists: "terminate" at a list's end,
\* "mismatch" with the new target at a greater docid, else "match".
RECURSIVE JoinFor(_, _, _)
JoinFor(t, its, d) ==
  IF t > N THEN [its |-> its, docid |-> d, res |-> "match"]
  ELSE LET k == SkipTo(t, its[t], d)
           its2 == [its EXCEPT ![t] = k]
       IN IF k > Len(lists[t]) THEN [its |-> its2, docid |-> d, res |-> "terminate"]
          ELSE IF lists[t][k].docid > d
               THEN [its |-> its2, docid |-> lists[t][k].docid, res |-> "mismatch"]
               ELSE JoinFor(t + 1, its2, d)

\* Mutant: the garbage past the end added without unsigned wrap-around.
NextVals_Unwrapped(t, k) ==
  IF k + 1 <= Len(P(t)) THEN {P(t)[k + 1]} ELSE {P(t)[k] + j : j \in Junk}

\* The values ++ may give term t's iterator at index k: the next position,
\* or past the end *posIt + lastPos with *posIt garbage.
NextVals(t, k) ==
  IF k + 1 <= Len(P(t)) THEN {P(t)[k + 1]} ELSE {Unsigned(P(t)[k] + j) : j \in Junk}

Init ==
  /\ op \in Ops
  /\ lists \in (IF op = "tag" THEN TagInputs ELSE Inputs)
  /\ op = "near" => Len(lists) = 2
  /\ type \in (IF op = "tag" THEN Types ELSE {1})
  /\ stops \in (IF op = "phrase" THEN StopSets ELSE {{}})
  /\ radius \in (IF op = "near" THEN Radii ELSE {0})
  /\ posidxv = <<>> /\ itv = <<>> /\ docid = 0
  /\ idp = <<>> /\ cur = <<>> /\ pos = 0 /\ posidx = 1 /\ i = 1
  /\ done = FALSE /\ match = TRUE /\ posv = <<>> /\ added = FALSE
  /\ result = <<>>
  /\ pc = "start"

(***************************************************************************)
(* _phrase2: if (!pLv.size()) return; the posidxv loop; itv at begin();    *)
(* docid = itv[0]->getDocid().  _near2: return if either list is empty.  *)
(* _tag2: if (pL.size()==0) return; else ipL = pL.begin().               *)
(* An empty first list of _phrase2 makes itv[0]->getDocid() dereference   *)
(* begin() of an empty vector: undefined behaviour, which may crash, or   *)
(* read a garbage docid that is never compared, as the first pass stops   *)
(* at that list's end.                                                    *)
(***************************************************************************)
StartDeref ==
  /\ pc = "start"
  /\ op = "phrase" /\ N > 0 /\ lists[1] = <<>>
  /\ pc' = "crash"
  /\ UNCHANGED <<op, lists, stops, radius, type, posidxv, itv, docid, idp, cur, pos, posidx,
                 i, done, match, posv, added, result>>

Start ==
  /\ pc = "start"
  /\ IF \/ op = "phrase" /\ N = 0
        \/ op = "near" /\ (lists[1] = <<>> \/ lists[2] = <<>>)
        \/ op = "tag" /\ lists[1] = <<>>
     THEN pc' = "done" /\ UNCHANGED <<posidxv, itv, docid>>
     ELSE /\ posidxv' = IF op = "phrase" THEN Offsets(N, stops) ELSE <<>>
          /\ itv' = [t \in Terms |-> 1]
          /\ docid' = IF lists[1] # <<>> THEN lists[1][1].docid ELSE 0
          /\ pc' = IF op = "tag" THEN "tag" ELSE "join"
  /\ UNCHANGED <<op, lists, stops, radius, type, idp, cur, pos, posidx, i, done, match,
                 posv, added, result>>

\* One pass of the outer while (true): the docid join; on a match the
\* iterators of the postings are built and pos = (*idpv[0]).first.
Join ==
  /\ pc = "join"
  /\ LET r == JoinFor(1, itv, docid) IN
       /\ itv' = r.its /\ docid' = r.docid
       /\ IF r.res = "terminate" THEN pc' = "done" /\ UNCHANGED <<idp, cur, pos, posidx, i, done, match, posv, added>>
          ELSE IF r.res = "mismatch" THEN UNCHANGED <<pc, idp, cur, pos, posidx, i, done, match, posv, added>>
          ELSE /\ idp' = [t \in Terms |-> 1]
               /\ cur' = [t \in Terms |-> lists[t][r.its[t]].pos[1]]
               /\ pos' = lists[1][r.its[1]].pos[1]
               /\ posidx' = 1 /\ i' = 1
               /\ done' = FALSE /\ match' = TRUE
               /\ posv' = <<>> /\ added' = FALSE
               /\ pc' = IF op = "phrase" THEN "phrase" ELSE "nearFor"
  /\ UNCHANGED <<op, lists, stops, radius, type, posidxv, result>>

-----------------------------------------------------------------------------
(* _phrase2's position scan.                                              *)

\* while (!done && (*idpv[i]).first < pos + posidxv[i]) ++idpv[i];
RECURSIVE SkipPos(_, _, _)
SkipPos(t, k, target) ==
  IF k > Len(P(t)) \/ P(t)[k] >= target THEN k ELSE SkipPos(t, k + 1, target)

\* Mutant: a mismatch restarts at the term's position, not its phrase start.
RECURSIVE PhraseFor_NoOffset(_, _, _)
PhraseFor_NoOffset(t, ks, p) ==
  IF t > N THEN [ks |-> ks, pos |-> p, res |-> "match"]
  ELSE LET k == SkipPos(t, ks[t], Unsigned(p + posidxv[t]))
           ks2 == [ks EXCEPT ![t] = k]
       IN IF k > Len(P(t)) THEN [ks |-> ks2, pos |-> p, res |-> "done"]
          ELSE IF P(t)[k] # Unsigned(p + posidxv[t])
               THEN [ks |-> ks2, pos |-> P(t)[k], res |-> "mismatch"]
               ELSE PhraseFor_NoOffset(t + 1, ks2, p)

\* One pass of the for loop over the terms: "done" when a term runs out,
\* "mismatch" with pos = first - posidxv[i], else "match".
RECURSIVE PhraseFor(_, _, _)
PhraseFor(t, ks, p) ==
  IF t > N THEN [ks |-> ks, pos |-> p, res |-> "match"]
  ELSE LET k == SkipPos(t, ks[t], Unsigned(p + posidxv[t]))
           ks2 == [ks EXCEPT ![t] = k]
       IN IF k > Len(P(t)) THEN [ks |-> ks2, pos |-> p, res |-> "done"]
          ELSE IF P(t)[k] # Unsigned(p + posidxv[t])
               THEN [ks |-> ks2, pos |-> Unsigned(P(t)[k] - posidxv[t]), res |-> "mismatch"]
               ELSE PhraseFor(t + 1, ks2, p)

\* One pass of the inner while (true).  On a match the aligned positions
\* are pushed and idpv[0] moves on; it is never done there.
PhraseStep ==
  /\ pc = "phrase"
  /\ LET r == PhraseFor(1, idp, pos) IN
       IF r.res = "done"
       THEN /\ idp' = r.ks /\ done' = TRUE /\ pc' = "emit"
            /\ UNCHANGED <<pos, posv, added>>
       ELSE IF r.res = "mismatch"
       THEN /\ idp' = r.ks /\ pos' = r.pos
            /\ UNCHANGED <<done, pc, posv, added>>
       ELSE /\ posv' = posv \o [t \in Terms |-> P(t)[r.ks[t]]]
            /\ added' = TRUE
            /\ idp' = [r.ks EXCEPT ![1] = @ + 1]
            /\ pos' \in NextVals(1, r.ks[1])
            /\ UNCHANGED <<done, pc>>
  /\ UNCHANGED <<op, lists, stops, radius, type, posidxv, itv, docid, cur, posidx, i, match, result>>

-----------------------------------------------------------------------------
(* _near2's position scan.                                                *)

Done(t) == idp[t] > Len(P(t))

\* while (!done && (*idpv[i]).first + radius < pos) ++idpv[i]: the
\* iterators it may leave, as [k, value].
NearAdvance(t) ==
  LET ks == {k \in idp[t] .. Len(P(t)) : Unsigned(P(t)[k] + radius) >= pos} IN
  IF Done(t) \/ Unsigned(cur[t] + radius) >= pos THEN {[k |-> idp[t], v |-> cur[t]]}
  ELSE IF ks # {} THEN {[k |-> Min(ks), v |-> P(t)[Min(ks)]]}
  ELSE {[k |-> Len(P(t)) + 1, v |-> v] : v \in NextVals(t, Len(P(t)))}

\* One pass of the for loop over the two terms (i = 1, 2).
NearFor ==
  /\ pc = "nearFor"
  /\ \E a \in NearAdvance(i) :
       LET v   == a.v
           end == a.k > Len(P(i))
           out == Unsigned(v + radius) < pos \/ v > Unsigned(pos + radius)
       IN /\ idp' = [idp EXCEPT ![i] = a.k]
          /\ cur' = [cur EXCEPT ![i] = v]
          /\ done' = (done \/ end)
          /\ IF end /\ out
             THEN match' = FALSE /\ pc' = "nearAfter" /\ UNCHANGED <<pos, posidx, i>>
             ELSE IF v > Unsigned(pos + radius)
             THEN /\ posidx' = i /\ pos' = v /\ match' = FALSE
                  /\ pc' = "nearAfter" /\ UNCHANGED i
             ELSE IF i = 2 THEN pc' = "nearAfter" /\ UNCHANGED <<pos, posidx, i, match>>
             ELSE i' = i + 1 /\ UNCHANGED <<pos, posidx, match, pc>>
  /\ UNCHANGED <<op, lists, stops, radius, type, posidxv, itv, docid, posv, added, result>>

\* After the for loop: if (match) posidx = posidx ? 0 : 1 and the pairs
\* are pushed; else if (done) break; match = true.
NearAfter ==
  /\ pc = "nearAfter"
  /\ IF match THEN posidx' = 3 - posidx /\ pc' = "nearPush" /\ UNCHANGED <<i, match>>
     ELSE IF done THEN pc' = "emit" /\ UNCHANGED <<posidx, i, match>>
     ELSE i' = 1 /\ match' = TRUE /\ pc' = "nearFor" /\ UNCHANGED posidx
  /\ UNCHANGED <<op, lists, stops, radius, type, posidxv, itv, docid, idp, cur, pos, done,
                 posv, added, result>>

\* One pass of while ((*idpv[posidx]).first <= pos+radius): push both
\* current positions, then ++idpv[posidx], or done and break if it is done.
\* On the loop's exit: if (!done) pos = (*idpv[posidx]).first; if (done)
\* break; match = true.
NearPush ==
  /\ pc = "nearPush"
  /\ IF cur[posidx] <= Unsigned(pos + radius)
     THEN /\ posv' = posv \o <<cur[1], cur[2]>>
          /\ added' = TRUE
          /\ IF ~Done(posidx)
             THEN /\ idp' = [idp EXCEPT ![posidx] = @ + 1]
                  /\ \E v \in NextVals(posidx, idp[posidx]) : cur' = [cur EXCEPT ![posidx] = v]
                  /\ UNCHANGED <<done, pc, pos, i, match>>
             ELSE done' = TRUE /\ pc' = "emit" /\ UNCHANGED <<idp, cur, pos, i, match>>
     ELSE /\ pos' = IF done THEN pos ELSE cur[posidx]
          /\ IF done THEN pc' = "emit" /\ UNCHANGED <<i, match>>
             ELSE i' = 1 /\ match' = TRUE /\ pc' = "nearFor"
          /\ UNCHANGED <<idp, cur, done, posv, added>>
  /\ UNCHANGED <<op, lists, stops, radius, type, posidxv, itv, docid, posidx, result>>

-----------------------------------------------------------------------------
(* _tag2's filter.  The code reads each position's tag as the .second   *)
(* of the iterator's value and compares it with TagScanner's h_title and  *)
(* h_url, here the strings "h_title" and "h_url"; any other tag is        *)
(* "h_body".  The result posting is init(docid, posv, tagv, true): its    *)
(* positions are posv; its tags, the kept ones, and its score, the        *)
(* external Scorer's, are left out.                                       *)

\* The if of the inner for loop: the tag kinds type keeps (site: h_url).
Keeps(t, g) ==
  \/ t = 1 /\ g = "h_title"
  \/ t = 2 /\ g = "h_url"
  \/ t = 0 /\ g = "h_url"

\* Mutant: bool match = false is declared once, before the loop over the
\* postings (added holds it), so it is never reset.
TagDoc_MatchOutside ==
  /\ pc = "tag" /\ itv[1] <= Len(lists[1])
  /\ LET p  == lists[1][itv[1]]
         ks == SelectSeq([k \in DOMAIN p.pos |-> k], LAMBDA k : Keeps(type, p.tag[k]))
     IN /\ added' = (added \/ ks # <<>>)
        /\ result' = IF added' THEN Append(result, [docid |-> p.docid, posv |-> [j \in DOMAIN ks |-> p.pos[ks[j]]]])
                     ELSE result
  /\ itv' = [itv EXCEPT ![1] = @ + 1]
  /\ UNCHANGED <<op, lists, stops, radius, type, posidxv, docid, idp, cur, pos, posidx,
                 i, done, match, posv, pc>>

\* One pass of for (ipL ...): the positions whose tag type keeps, in
\* order; if (match) the posting of them is appended.
TagDoc ==
  /\ pc = "tag" /\ itv[1] <= Len(lists[1])
  /\ LET p  == lists[1][itv[1]]
         ks == SelectSeq([k \in DOMAIN p.pos |-> k], LAMBDA k : Keeps(type, p.tag[k]))
     IN result' = IF ks # <<>> THEN Append(result, [docid |-> p.docid, posv |-> [j \in DOMAIN ks |-> p.pos[ks[j]]]])
                  ELSE result
  /\ itv' = [itv EXCEPT ![1] = @ + 1]
  /\ UNCHANGED <<op, lists, stops, radius, type, posidxv, docid, idp, cur, pos, posidx,
                 i, done, match, posv, added, pc>>

\* The for loop ends at pL.end().
TagEnd ==
  /\ pc = "tag" /\ itv[1] > Len(lists[1])
  /\ pc' = "done"
  /\ UNCHANGED <<op, lists, stops, radius, type, posidxv, itv, docid, idp, cur, pos,
                 posidx, i, done, match, posv, added, result>>

-----------------------------------------------------------------------------

\* if (addNewDocs) pList.append(p); then, done being set, ++itv[0] and
\* docid = (*itv[0]).getDocid() (garbage at the end, never compared).
Emit ==
  /\ pc = "emit"
  /\ result' = IF added THEN Append(result, [docid |-> docid, posv |-> posv]) ELSE result
  /\ itv' = [itv EXCEPT ![1] = @ + 1]
  /\ docid' = IF itv[1] + 1 <= Len(lists[1]) THEN lists[1][itv[1] + 1].docid ELSE 0
  /\ pc' = "join"
  /\ UNCHANGED <<op, lists, stops, radius, type, posidxv, idp, cur, pos, posidx, i, done,
                 match, posv, added>>

Next ==
  \/ Start \/ StartDeref \/ Join \/ PhraseStep \/ NearFor \/ NearAfter \/ NearPush \/ Emit
  \/ TagDoc \/ TagEnd

\* An operator runs to completion on the calling thread.
Spec == Init /\ [][Next]_vars /\ WF_vars(Next)

-----------------------------------------------------------------------------

TypeOK ==
  /\ op \in Ops
  /\ itv \in [Terms -> Nat] \/ itv = <<>>
  /\ pos \in 0 .. 2^Bits - 1 /\ cur \in Seq(0 .. 2^Bits - 1)
  /\ posv \in Seq(0 .. 2^Bits - 1)
  /\ result \in Seq([docid : Nat, posv : Seq(0 .. 2^Bits - 1)])
  /\ pc \in {"start", "join", "phrase", "nearFor", "nearAfter", "nearPush", "emit", "tag", "done", "crash"}

\* The positions of docid d in list t (empty if it has no posting of d).
PosIn(t, d) == UNION {Range(lists[t][k].pos) : k \in {k \in DOMAIN lists[t] : lists[t][k].docid = d}}

\* The docids every list holds, ascending.
CommonDocs == SetToSortSeq({d \in UNION {{lists[1][k].docid : k \in DOMAIN lists[1]}} :
                              \A t \in Terms : \E k \in DOMAIN lists[t] : lists[t][k].docid = d}, <)

\* The start positions of the phrase in d: term t at p + its offset.
PhraseStarts(d) == {p \in PosIn(1, d) : \A t \in Terms : p + posidxv[t] \in PosIn(t, d)}

ExpectedPhrase ==
  LET ds == SelectSeq(CommonDocs, LAMBDA d : PhraseStarts(d) # {})
  IN [j \in DOMAIN ds |->
        [docid |-> ds[j],
         posv  |-> FlattenSeq([q \in DOMAIN SetToSortSeq(PhraseStarts(ds[j]), <) |->
                      [t \in Terms |-> SetToSortSeq(PhraseStarts(ds[j]), <)[q] + posidxv[t]]])]]

(***************************************************************************)
(* Phrase (spec.md 4.4 and 8): _phrase2 returns one posting for each      *)
(* docid all lists hold in which the terms occur at their offsets, in     *)
(* docid order, carrying the aligned positions of every occurrence of the *)
(* phrase in position order.  It breaks if the docid join or the position *)
(* scan skips a candidate, misaligns a term, or stops a document early.   *)
(***************************************************************************)
PhraseMatches == pc = "done" /\ op = "phrase" /\ N > 0 => result = ExpectedPhrase

\* The docids in which the two terms occur within radius of each other.
NearDocIds ==
  SelectSeq(CommonDocs, LAMBDA d : \E a \in PosIn(1, d), b \in PosIn(2, d) :
                                      a - b <= radius /\ b - a <= radius)

(***************************************************************************)
(* Near at the document level (spec.md 4.4 and 8): _near2 returns a       *)
(* posting for exactly the docids both lists hold in which some position  *)
(* of one term lies within radius of one of the other, in docid order.   *)
(***************************************************************************)
NearDocs ==
  pc = "done" /\ op = "near" /\ lists[1] # <<>> /\ lists[2] # <<>> =>
    [j \in DOMAIN result |-> result[j].docid] = NearDocIds

\* The position pairs result[j] carries, and the pairs within radius.
Emitted(j) == {<<result[j].posv[2 * q - 1], result[j].posv[2 * q]>> : q \in 1 .. Len(result[j].posv) \div 2}
InRange(d) == {ab \in PosIn(1, d) \X PosIn(2, d) : ab[1] - ab[2] <= radius /\ ab[2] - ab[1] <= radius}

(***************************************************************************)
(* Near pairs, complete (spec.md 4.4 and 8): for every docid it returns,  *)
(* _near2 emits every pair of a position of the first term and one of     *)
(* the second within radius of each other.                               *)
(***************************************************************************)
NearPairsComplete ==
  pc = "done" /\ op = "near" => \A j \in DOMAIN result : InRange(result[j].docid) \subseteq Emitted(j)

(***************************************************************************)
(* Near pairs, sound (spec.md 4.4): every pair _near2 emits is a position *)
(* of the first term and one of the second within radius of each other.  *)
(***************************************************************************)
NearPairsSound ==
  pc = "done" /\ op = "near" => \A j \in DOMAIN result : Emitted(j) \subseteq InRange(result[j].docid)

\* The positions of posting p whose tag type keeps, in order.
KeptPos(p) == LET ks == {k \in DOMAIN p.pos : Keeps(type, p.tag[k])}
              IN [j \in 1 .. Cardinality(ks) |-> p.pos[SetToSortSeq(ks, <)[j]]]

(***************************************************************************)
(* Tag filter (spec.md 4.4): _tag2 returns, in pL's order, one posting    *)
(* for each posting of pL that has a position of the requested kind, with *)
(* its docid and exactly those positions in order, and nothing for a     *)
(* posting that has none.  It breaks if match outlives a posting, a kept  *)
(* position is lost or reordered, or a posting is skipped.               *)
(***************************************************************************)
TagFilters ==
  pc = "done" /\ op = "tag" =>
    result = SelectSeq([k \in DOMAIN lists[1] |-> [docid |-> lists[1][k].docid, posv |-> KeptPos(lists[1][k])]],
                       LAMBDA r : r.posv # <<>>)

\* Every _phrase2, _near2 and _tag2 call returns (or crashes on the
\* dereference of an empty first list), whatever garbage it reads.
Termination == <>(pc \in {"done", "crash"})

=============================================================================
