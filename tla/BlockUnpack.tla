----------------------------- MODULE BlockUnpack -----------------------------
(***************************************************************************)
(* The PostingList constructors that unpack a compressed index block, and *)
(* PostingList::findtf (pix_posting_list.cpp 73-324, 1122-1208).  A block  *)
(* is a sequence of records, each a 4-byte big-endian length prefix and   *)
(* that many bytes of var-byte coded uvec = [docid, tf, pos...].  recs is *)
(* the sequence of record payloads the block was written from and tail   *)
(* whatever follows them (nothing, a damaged record, garbage).  p is the  *)
(* parser's byte index, one step per pass of its loop.  A read at or past *)
(* the end of the block is undefined behaviour; the model stops there in  *)
(* "overread".                                                             *)
(***************************************************************************)
EXTENDS Integers, Sequences, SequencesExt

CONSTANTS
  Variants,   \* a subset of {"vector", "raw", "bounded", "dedup", "findtf"}
  Records,    \* sequences of record payloads a block is written from
  Tails,      \* byte sequences that may follow the last record
  Starts, Counts, TfMins   \* findtf's start, count and tfmin arguments

VARIABLES
  variant,    \* which constructor (or findtf) runs
  recs, tail, \* the block: Frame(recs) \o tail
  start, count, tfmin,
  p,          \* byte index of the next record
  k,          \* findtf's count of qualifying records
  out,        \* the PostingList's uvec of DocPostings, as their uvecs
  seen,       \* the dedup constructor's docidmap
  pc          \* "unpack", "skip", "collect", "done", "overread"

vars == <<variant, recs, tail, start, count, tfmin, p, k, out, seen, pc>>

\* if (length>1024) break;
RecordCeiling == 1024

\* The layout of the header comment: offset_0 [4] byte length, then the record.
BE4(n) == <<(n \div 2^24) % 256, (n \div 2^16) % 256, (n \div 2^8) % 256, n % 256>>

Frame(rs) == FlattenSeq([j \in DOMAIN rs |-> BE4(Len(rs[j])) \o rs[j]])

block == Frame(recs) \o tail

Byte(i) == block[i + 1]

\* Bytes i .. i+n-1 lie inside the block.
InBlock(i, n) == i + n <= Len(block)

\* length = (a<<24)|(b<<16)|(c<<8)|d
Prefix(i) == Byte(i) * 2^24 + Byte(i + 1) * 2^16 + Byte(i + 2) * 2^8 + Byte(i + 3)

Payload(i, n) == SubSeq(block, i + 1, i + n)

\* Coder::varUncompress: result = (result << 7) | (byte & 0x7f) until a byte
\* without the high bit ends an integer; an unfinished integer is dropped.
RECURSIVE VarDecodeFrom(_, _, _)
VarDecodeFrom(bs, acc, vals) ==
  IF bs = <<>> THEN vals
  ELSE IF Head(bs) >= 128
       THEN VarDecodeFrom(Tail(bs), acc * 128 + (Head(bs) - 128), vals)
       ELSE VarDecodeFrom(Tail(bs), 0, Append(vals, acc * 128 + Head(bs)))

VarDecode(bs) == VarDecodeFrom(bs, 0, <<>>)

\* DocPosting(ifv, offset, length): docid = uvec[0] once uvec holds two values.
DocidOf(u) == IF Len(u) >= 2 THEN u[1] ELSE 0

Init ==
  /\ variant \in Variants
  /\ recs \in Records /\ tail \in Tails
  /\ IF variant = "findtf"
       THEN start \in Starts /\ count \in Counts /\ tfmin \in TfMins
       ELSE start = 0 /\ count = 0 /\ tfmin = 0
  /\ p = 0 /\ k = 0 /\ out = <<>> /\ seen = {}
  /\ pc = IF variant = "findtf" THEN "skip" ELSE "unpack"

Overread == pc' = "overread" /\ UNCHANGED <<p, k, out, seen>>

Fixed == UNCHANGED <<variant, recs, tail, start, count, tfmin>>

-----------------------------------------------------------------------------
(* The constructors.  vector: PostingList(term, cvec) and its Logger twin, *)
(* which loop while p != end and return on a nonzero first prefix byte;   *)
(* raw: PostingList(term, indexBlock, len), while p != end; bounded (the  *)
(* bool variant) and dedup (the int variant): while p < end, break on a   *)
(* length above 1024; dedup keeps the first posting of each docid.        *)

Looping == IF variant \in {"vector", "raw"} THEN p # Len(block) ELSE p < Len(block)

\* a = *p++; b = *p++; c = *p++; d = *p++; past the end of the block.
PrefixPastEnd ==
  /\ pc = "unpack" /\ Looping /\ ~InBlock(p, 4)
  /\ Overread /\ Fixed

\* if (a!=0) return;    // sanity check
SanityStop ==
  /\ pc = "unpack" /\ variant = "vector" /\ Looping /\ InBlock(p, 4)
  /\ Byte(p) # 0
  /\ pc' = "done" /\ UNCHANGED <<p, k, out, seen>> /\ Fixed

\* if (length>1024) break;
CeilingStop ==
  /\ pc = "unpack" /\ variant \in {"bounded", "dedup"} /\ Looping /\ InBlock(p, 4)
  /\ Prefix(p) > RecordCeiling
  /\ pc' = "done" /\ UNCHANGED <<p, k, out, seen>> /\ Fixed

\* Mutant: empty postings are kept in the dedup variant.
Kept_KeepsEmpty(u) == variant = "dedup" => DocidOf(u) \notin seen

\* The posting a record adds: a non-empty one, and in dedup one whose docid
\* docidmap does not hold yet.
Kept(u) == Len(u) > 0 /\ (variant = "dedup" => DocidOf(u) \notin seen)

\* Mutant: p steps one byte too far after each record.
UnpackRecord_SkipsByte ==
  /\ pc = "unpack" /\ Looping /\ InBlock(p, 4)
  /\ ~(variant = "vector" /\ Byte(p) # 0)
  /\ ~(variant \in {"bounded", "dedup"} /\ Prefix(p) > RecordCeiling)
  /\ IF ~InBlock(p + 4, Prefix(p))
       THEN Overread
       ELSE LET dp == VarDecode(Payload(p + 4, Prefix(p))) IN
            /\ out' = IF Kept(dp) THEN Append(out, dp) ELSE out
            /\ seen' = IF variant = "dedup" /\ Kept(dp) THEN seen \cup {DocidOf(dp)} ELSE seen
            /\ p' = p + 5 + Prefix(p)
            /\ UNCHANGED <<k, pc>>
  /\ Fixed

\* DocPosting dp(p, 0, length); if (dp.size() > 0) uvec.push_back(dp);
\* p += length;  (docidmap.put(docid) first in dedup)
UnpackRecord ==
  /\ pc = "unpack" /\ Looping /\ InBlock(p, 4)
  /\ ~(variant = "vector" /\ Byte(p) # 0)
  /\ ~(variant \in {"bounded", "dedup"} /\ Prefix(p) > RecordCeiling)
  /\ IF ~InBlock(p + 4, Prefix(p))
       THEN Overread
       ELSE LET dp == VarDecode(Payload(p + 4, Prefix(p))) IN
            /\ out' = IF Kept(dp) THEN Append(out, dp) ELSE out
            /\ seen' = IF variant = "dedup" /\ Kept(dp) THEN seen \cup {DocidOf(dp)} ELSE seen
            /\ p' = p + 4 + Prefix(p)
            /\ UNCHANGED <<k, pc>>
  /\ Fixed

UnpackExit ==
  /\ pc = "unpack" /\ ~Looping
  /\ pc' = "done" /\ UNCHANGED <<p, k, out, seen>> /\ Fixed

-----------------------------------------------------------------------------
\* findtf decodes each record's docid and tf itself, byte by byte:
\* for (; (*p0)&HIGHBIT; ++p0) {...}  docid <<= 7; docid += (*p0++);

\* The index of the byte that ends the integer starting at i, or the
\* block's length if every byte from i on has the high bit.
RECURSIVE CodewordEnd(_)
CodewordEnd(i) ==
  IF i >= Len(block) THEN Len(block) ELSE IF Byte(i) >= 128 THEN CodewordEnd(i + 1) ELSE i

TfAt(i) == LET e == CodewordEnd(CodewordEnd(i) + 1) IN
           VarDecode(SubSeq(block, CodewordEnd(i) + 2, e + 1))[1]

HeaderInBlock(i) == CodewordEnd(CodewordEnd(i) + 1) < Len(block)

\* while (p<q && k<start): one record skipped; k counts those with tf >= tfmin.
FindSkip ==
  /\ pc = "skip" /\ p < Len(block) /\ k < start
  /\ IF ~InBlock(p, 4) \/ ~HeaderInBlock(p + 4)
       THEN Overread
       ELSE /\ k' = IF TfAt(p + 4) >= tfmin THEN k + 1 ELSE k
            /\ p' = p + 4 + Prefix(p)
            /\ UNCHANGED <<out, seen, pc>>
  /\ Fixed

\* Mutant: the second loop does not restart k.
FindSkipExit_KeepsK ==
  /\ pc = "skip" /\ ~(p < Len(block) /\ k < start)
  /\ pc' = "collect"
  /\ UNCHANGED <<p, k, out, seen>> /\ Fixed

FindSkipExit ==
  /\ pc = "skip" /\ ~(p < Len(block) /\ k < start)
  /\ pc' = "collect" /\ k' = 0
  /\ UNCHANGED <<p, out, seen>> /\ Fixed

\* Mutant: p += len moved inside if (tf>=tfmin).
FindCollect_Stalls ==
  /\ pc = "collect" /\ p < Len(block) /\ k < count
  /\ IF ~InBlock(p, 4) \/ ~HeaderInBlock(p + 4)
       THEN Overread
       ELSE IF TfAt(p + 4) < tfmin
         THEN UNCHANGED <<p, k, out, seen, pc>>
         ELSE IF ~InBlock(p + 4, Prefix(p))
           THEN Overread
           ELSE /\ out' = Append(out, VarDecode(Payload(p + 4, Prefix(p))))
                /\ k' = k + 1
                /\ p' = p + 4 + Prefix(p)
                /\ UNCHANGED <<seen, pc>>
  /\ Fixed

\* while (p<q && k<count): if (tf>=tfmin) { pL.append(DocPosting(p,0,len)); ++k; }
FindCollect ==
  /\ pc = "collect" /\ p < Len(block) /\ k < count
  /\ IF ~InBlock(p, 4) \/ ~HeaderInBlock(p + 4)
       THEN Overread
       ELSE IF TfAt(p + 4) < tfmin
         THEN p' = p + 4 + Prefix(p) /\ UNCHANGED <<k, out, seen, pc>>
         ELSE IF ~InBlock(p + 4, Prefix(p))
           THEN Overread
           ELSE /\ out' = Append(out, VarDecode(Payload(p + 4, Prefix(p))))
                /\ k' = k + 1
                /\ p' = p + 4 + Prefix(p)
                /\ UNCHANGED <<seen, pc>>
  /\ Fixed

FindExit ==
  /\ pc = "collect" /\ ~(p < Len(block) /\ k < count)
  /\ pc' = "done" /\ UNCHANGED <<p, k, out, seen>> /\ Fixed

Next ==
  \/ PrefixPastEnd \/ SanityStop \/ CeilingStop \/ UnpackRecord \/ UnpackExit
  \/ FindSkip \/ FindSkipExit \/ FindCollect \/ FindExit

\* A constructor or findtf runs to completion on the calling thread.
Spec == Init /\ [][Next]_vars /\ WF_vars(Next)

-----------------------------------------------------------------------------

TypeOK ==
  /\ variant \in Variants /\ recs \in Records /\ tail \in Tails
  /\ p \in 0 .. Len(block) /\ k \in Nat
  /\ out \in Seq(Seq(Nat)) /\ seen \subseteq Nat
  /\ pc \in {"unpack", "skip", "collect", "done", "overread"}

\* The postings the records of the block decode to, in block order.
Decoded == [j \in DOMAIN recs |-> VarDecode(recs[j])]

\* The first posting of each docid, in order.
FirstPerDocid(s) ==
  FoldLeft(LAMBDA acc, u : IF \E i \in DOMAIN acc : DocidOf(acc[i]) = DocidOf(u)
                           THEN acc ELSE Append(acc, u),
           <<>>, s)

(***************************************************************************)
(* Unpacking (spec.md 4.4): a constructor that returns holds the non-empty *)
(* postings of the block's records, in block order, and in the dedup      *)
(* variant only the first of each docid; damage after the last record    *)
(* (a nonzero first prefix byte, a length above the ceiling, an empty     *)
(* record) adds nothing.  It breaks if p is advanced wrongly, a check is  *)
(* missing or misplaced, or docidmap is updated for a skipped posting.    *)
(***************************************************************************)
UnpacksRecords ==
  pc = "done" /\ variant # "findtf" =>
    out = IF variant = "dedup"
          THEN FirstPerDocid(SelectSeq(Decoded, LAMBDA u : Len(u) > 0))
          ELSE SelectSeq(Decoded, LAMBDA u : Len(u) > 0)

(***************************************************************************)
(* findtf (spec.md 4.4): of the records whose tf is at least tfmin it     *)
(* skips the first start and returns the next count, as DocPostings.  Its *)
(* two loops share p, and the second restarts k.                         *)
(***************************************************************************)
FindTfSelects ==
  LET q == SelectSeq(Decoded, LAMBDA u : Len(u) >= 2 /\ u[2] >= tfmin)
  IN pc = "done" /\ variant = "findtf" =>
       out = SubSeq(q, start + 1, IF start + count < Len(q) THEN start + count ELSE Len(q))

(***************************************************************************)
(* Corrupt records (spec.md 4.3, 4.4 and 7): every posting a constructor  *)
(* keeps is a whole DocPosting, its docid, its tf and tf positions, as the *)
(* merge-join operators read it.  The code keeps any record that decodes  *)
(* to at least one value (dp.size() > 0), so a damaged record of one      *)
(* value, or with fewer positions than its tf, is handed on.              *)
(***************************************************************************)
PostingsWellFormed ==
  pc = "done" /\ variant # "findtf" =>
    \A j \in DOMAIN out : Len(out[j]) >= 2 /\ Len(out[j]) = 2 + out[j][2]

(***************************************************************************)
(* Truncated or corrupt input (spec.md 7): a parser returns the postings  *)
(* it has so far; it never reads past the end of the block.               *)
(***************************************************************************)
NoOverread == pc # "overread"

\* Every constructor and findtf ends, returning or stopping at a read past
\* the block.
Termination == <>(pc \in {"done", "overread"})

=============================================================================
