---------------------------- MODULE VarByteCodec ----------------------------
(***************************************************************************)
(* The variable-byte codec of PixCodec (src/db/fts/pix_codec.cpp).  An    *)
(* encoder writes one integer per step into the output buffer; the         *)
(* decoder the caller pairs with it then reads the written bytes back.     *)
(*                                                                         *)
(* Encoders (the overloads of PixCodec::varCompress):                      *)
(*   "array"   (cbuf, clen, ubuf, uoffset, ulen)   delta, goto error       *)
(*   "vector"  (cbuf, clen, uvec)                  delta, asserts          *)
(*   "offset"  (cbuf, offset, max_offset, uvec)    plain, asserts          *)
(*   "segment" (cbuf, offset, max_offset, uvec, uvec_offset, uvec_len)     *)
(*   "cvec"    (cvec, vector<uint32_t>)            plain, push_back        *)
(*   "cvec64"  (cvec, vector<uint64_t>)            plain, 9 groups         *)
(* Decoders (PixCodec::varUncompress):                                    *)
(*   "array" (uvec, cbuf, coffset, clen), "iter" (uvec, begin, end),       *)
(*   "cvec" (uvec, cvec, coffset, clen): accumulating, 4 groups;           *)
(*   "cvec64" (vector<uint64_t>, cvec, coffset, clen): plain, 9 groups.    *)
(* "reference" stands for an encoder writing the codewords of the spec,   *)
(* used to check a decoder on its own.                                    *)
(*                                                                         *)
(* An assert that fails aborts the program (pc = "abort").  Integers are  *)
(* kept unbounded: with the inputs below 2^29 and at most maxLen of them  *)
(* no uint32 sum the code forms reaches 2^31, so none wraps.              *)
(***************************************************************************)
EXTENDS Integers, Sequences, SequencesExt, Bitwise

CONSTANTS
  Encoders,    \* encoders called
  Decoders,    \* decoders called
  \* The configurations checked, each a record of
  \*   pairs:   the <<encoder, decoder>> pairings,
  \*   values:  integers an input may hold,    maxLen:  the longest input,
  \*   caps:    output capacities (clen, or max_offset),
  \*   offsets: start offsets of the offset and segment encoders,
  \*   signs:   whether plain char is signed on the target (subset of BOOLEAN).
  Cases

DeltaEncoders == {"array", "vector"}
BoundedEncoders == {"array", "vector", "offset", "segment"}
AccumDecoders == {"array", "iter", "cvec"}

HIGHBIT == 128

VARIABLES
  enc, dec,    \* the pairing under check
  signedChar,  \* the target's char signedness
  input,       \* the integers handed to the encoder
  cap,         \* clen or max_offset
  off0,        \* offset0: the first output index
  i,           \* index of the next input
  lastX,       \* the previous input (delta encoders)
  bytes,       \* the bytes written, from index off0 on
  out,         \* the decoded integers
  pc           \* "encode", "decode", "done" or "abort"

vars == <<enc, dec, signedChar, input, cap, off0, i, lastX, bytes, out, pc>>

(***************************************************************************)
(* The four 7-bit groups a, b, c, d of a 28-bit integer:                  *)
(* (x & 0x0fe00000) >> 21, (x & 0x001fc000) >> 14, (x & 0x3f80) >> 7,    *)
(* x & 0x7f; the 64-bit encoder has nine.  TLC integers are below 2^31, *)
(* so groups 5 to 8 of every modelled value are 0.                        *)
(***************************************************************************)
\* Mutant: the masks keep six bits of a group.
Group_Mask6(x, g) == IF g >= 5 THEN 0 ELSE (x \div 2^(7 * g)) % 64

Group(x, g) == IF g >= 5 THEN 0 ELSE (x \div 2^(7 * g)) % 128

\* The bytes of group g and all lower ones, the last without HIGHBIT.
CodeFrom(x, g) == [k \in 1..(g + 1) |-> IF k <= g THEN Group(x, g + 1 - k) + HIGHBIT
                                             ELSE Group(x, 0)]

\* The if / else if chain: from the highest nonzero group down.
ElseIfCode(x, ngroups) ==
  LET top == {g \in 0..(ngroups - 1) : Group(x, g) # 0}
      hi == IF top = {} THEN 0 ELSE CHOOSE g \in top : \A h \in top : h <= g
  IN CodeFrom(x, hi)

\* The chain of the two delta encoders: four independent ifs, no else.
IfChainCode(x) ==
  (IF Group(x, 3) # 0 THEN CodeFrom(x, 3) ELSE <<>>) \o
  (IF Group(x, 2) # 0 THEN CodeFrom(x, 2) ELSE <<>>) \o
  (IF Group(x, 1) # 0 THEN CodeFrom(x, 1) ELSE <<>>) \o <<Group(x, 0)>>

\* The codeword of the spec: 7-bit groups, most significant first, every
\* byte but the last with its continuation bit.
RECURSIVE RefCode(_)
RefCode(x) ==
  IF x < 128 THEN <<x>>
  ELSE LET r == RefCode(x \div 128)
       IN [k \in 1..Len(r) |-> r[k] | HIGHBIT] \o <<x % 128>>

Offset == off0 + Len(bytes)

Init ==
  /\ \E c \in Cases :
       /\ \E p \in c.pairs : enc = p[1] /\ dec = p[2]
       /\ signedChar \in c.signs
       /\ input \in SeqOf(c.values, c.maxLen)
       /\ cap \in c.caps
       /\ off0 \in IF enc \in {"offset", "segment"} THEN c.offsets ELSE {0}
  /\ enc \in Encoders \cup {"reference"} /\ dec \in Decoders
  \* The reference codewords: of strictly increasing 28-bit inputs only.
  /\ enc = "reference" => /\ IsSorted(input, <)
                          /\ \A k \in DOMAIN input : input[k] > 0
                          /\ \A k \in DOMAIN input : input[k] < 2^28
  /\ i = 1 /\ lastX = 0 /\ bytes = <<>> /\ out = <<>>
  /\ pc = "encode"

-----------------------------------------------------------------------------
(* Encoders: one step per input integer.                                   *)

EncodeUnchanged == UNCHANGED <<enc, dec, signedChar, input, cap, off0, out>>

\* Mutant: lastX is never updated.
DeltaEncodeStep_NoLastX ==
  /\ pc = "encode" /\ enc \in DeltaEncoders /\ i <= Len(input)
  /\ LET x == input[i]
         code == IfChainCode(x - lastX)
     IN \/ /\ ~(lastX < x) \/ x - lastX >= 2^28 \/ Offset + Len(code) > cap
           /\ pc' = "abort"
           /\ UNCHANGED <<i, lastX, bytes>>
        \/ /\ lastX < x /\ x - lastX < 2^28 /\ Offset + Len(code) <= cap
           /\ bytes' = bytes \o code
           /\ i' = i + 1
           /\ UNCHANGED <<pc, lastX>>
  /\ EncodeUnchanged

\* Lines 38-69 and 88-119: assert(lastX < x), assert(delta < 2^28), then
\* each block checked against clen before it is written.
DeltaEncodeStep ==
  /\ pc = "encode" /\ enc \in DeltaEncoders /\ i <= Len(input)
  /\ LET x == input[i]
         code == IfChainCode(x - lastX)
     IN \/ /\ ~(lastX < x) \/ x - lastX >= 2^28 \/ Offset + Len(code) > cap
           /\ pc' = "abort"
           /\ UNCHANGED <<i, lastX, bytes>>
        \/ /\ lastX < x /\ x - lastX < 2^28 /\ Offset + Len(code) <= cap
           /\ bytes' = bytes \o code
           /\ lastX' = x
           /\ i' = i + 1
           /\ UNCHANGED pc
  /\ EncodeUnchanged

\* Lines 132-162 and 177-207: assert(offset + n - 1 <= max_offset) before
\* writing the n bytes of the codeword.
OffsetEncodeStep ==
  /\ pc = "encode" /\ enc \in {"offset", "segment"} /\ i <= Len(input)
  /\ LET x == input[i]
         code == ElseIfCode(x, 4)
     IN \/ /\ x >= 2^28 \/ Offset + Len(code) - 1 > cap
           /\ pc' = "abort"
           /\ UNCHANGED <<i, bytes>>
        \/ /\ x < 2^28 /\ Offset + Len(code) - 1 <= cap
           /\ bytes' = bytes \o code
           /\ i' = i + 1
           /\ UNCHANGED pc
  /\ UNCHANGED lastX
  /\ EncodeUnchanged

\* Mutant: the input index is advanced twice.
CvecEncodeStep_DoubleAdvance ==
  /\ pc = "encode" /\ enc \in {"cvec", "cvec64"} /\ i <= Len(input)
  /\ LET x == input[i]
         ngroups == IF enc = "cvec" THEN 4 ELSE 9
     IN \/ /\ enc = "cvec" /\ x >= 2^28
           /\ pc' = "abort"
           /\ UNCHANGED <<i, bytes>>
        \/ /\ enc = "cvec64" \/ x < 2^28
           /\ bytes' = bytes \o ElseIfCode(x, ngroups)
           /\ i' = i + 2
           /\ UNCHANGED pc
  /\ UNCHANGED lastX
  /\ EncodeUnchanged

\* Lines 217-243 and 254-341: push_back, no capacity.
CvecEncodeStep ==
  /\ pc = "encode" /\ enc \in {"cvec", "cvec64"} /\ i <= Len(input)
  /\ LET x == input[i]
         ngroups == IF enc = "cvec" THEN 4 ELSE 9
     IN \/ /\ enc = "cvec" /\ x >= 2^28
           /\ pc' = "abort"
           /\ UNCHANGED <<i, bytes>>
        \/ /\ enc = "cvec64" \/ x < 2^28
           /\ bytes' = bytes \o ElseIfCode(x, ngroups)
           /\ i' = i + 1
           /\ UNCHANGED pc
  /\ UNCHANGED lastX
  /\ EncodeUnchanged

\* The codewords of the spec for the deltas of an increasing input.
ReferenceEncodeStep ==
  /\ pc = "encode" /\ enc = "reference" /\ i <= Len(input)
  /\ bytes' = bytes \o RefCode(input[i] - lastX)
  /\ lastX' = input[i]
  /\ i' = i + 1
  /\ UNCHANGED pc
  /\ EncodeUnchanged

\* The encoder returns; the caller decodes the bytes it reported.
EncodeDone ==
  /\ pc = "encode" /\ i > Len(input)
  /\ pc' = "decode"
  /\ UNCHANGED <<enc, dec, signedChar, input, cap, off0, i, lastX, bytes, out>>

-----------------------------------------------------------------------------
(* Decoders, as operators over the bytes between coffset and coffset+clen. *)

\* One integer: at most maxg bytes, result = (result << 7) | low bits,
\* ending at the first byte without HIGHBIT.
RECURSIVE ReadInt(_, _, _, _)
ReadInt(s, j, n, maxg) ==
  IF n = maxg \/ j > Len(s) THEN [val |-> 0, next |-> j, shift |-> 0]
  ELSE LET w == s[j]
       IN IF w < HIGHBIT THEN [val |-> w, next |-> j + 1, shift |-> 1]
          ELSE LET r == ReadInt(s, j + 1, n + 1, maxg)
               IN [val |-> (w % 128) * 2^(7 * r.shift) + r.val,
                   next |-> r.next, shift |-> r.shift + 1]

\* Mutant: the decoder pushes result instead of accum += result.
RECURSIVE AccumDecode_NoAccum(_, _, _)
AccumDecode_NoAccum(s, j, accum) ==
  IF j > Len(s) THEN <<>>
  ELSE LET r == ReadInt(s, j, 0, 4)
       IN <<r.val>> \o AccumDecode_NoAccum(s, r.next, accum)

\* Lines 369-382 and 426-439: accum += result after every integer.
RECURSIVE AccumDecode(_, _, _)
AccumDecode(s, j, accum) ==
  IF j > Len(s) THEN <<>>
  ELSE LET r == ReadInt(s, j, 0, 4)
       IN <<accum + r.val>> \o AccumDecode(s, r.next, accum + r.val)

\* Mutant: the 64-bit decoder stops after four bytes, as the 32-bit one.
RECURSIVE PlainDecode_FourGroups(_, _)
PlainDecode_FourGroups(s, j) ==
  IF j > Len(s) THEN <<>>
  ELSE LET r == ReadInt(s, j, 0, 4)
       IN <<r.val>> \o PlainDecode_FourGroups(s, r.next)

\* Lines 459-472: no accumulation, up to 9 bytes.
RECURSIVE PlainDecode(_, _)
PlainDecode(s, j) ==
  IF j > Len(s) THEN <<>>
  ELSE LET r == ReadInt(s, j, 0, 9)
       IN <<r.val>> \o PlainDecode(s, r.next)

(***************************************************************************)
(* Lines 392-405: the inner loop re-reads *it without advancing it, so    *)
(* every byte yields one integer.  A byte without HIGHBIT gives itself;   *)
(* one with HIGHBIT goes round four times, and `result |= w` then ORs in  *)
(* the char w, sign-extended where char is signed.                        *)
(***************************************************************************)
IterByteValue(w) ==
  IF w < HIGHBIT THEN w
  ELSE IF signedChar THEN w - 256
  ELSE LET g == w % 128
       IN ((g * 2^14 + g * 2^7 + g) * 2^7) | w

IterDecode(s) ==
  [k \in 1..Len(s) |-> FoldLeft(LAMBDA acc, w : acc + IterByteValue(w), 0, SubSeq(s, 1, k))]

\* The caller hands over coffset = off0 and clen = the count returned.
Decode ==
  /\ pc = "decode"
  /\ \/ /\ dec \in {"array", "cvec"}
        /\ out' = AccumDecode(bytes, 1, 0)
     \/ /\ dec = "iter"
        /\ out' = IterDecode(bytes)
     \/ /\ dec = "cvec64"
        /\ out' = PlainDecode(bytes, 1)
  /\ pc' = "done"
  /\ UNCHANGED <<enc, dec, signedChar, input, cap, off0, i, lastX, bytes>>

Next ==
  \/ DeltaEncodeStep \/ OffsetEncodeStep \/ CvecEncodeStep \/ ReferenceEncodeStep
  \/ EncodeDone \/ Decode

Spec == Init /\ [][Next]_vars /\ WF_vars(Next)


-----------------------------------------------------------------------------
(* Properties.                                                             *)

TypeOK ==
  /\ enc \in Encoders \cup {"reference"} /\ dec \in Decoders
  /\ i \in 1..(Len(input) + 1)
  /\ bytes \in Seq(0..255)
  /\ out \in Seq(Int)
  /\ pc \in {"encode", "decode", "done", "abort"}

\* The integer the spec's codeword stands for at input index k.
Coded(k) ==
  IF enc \in DeltaEncoders \cup {"reference"}
    THEN input[k] - (IF k = 1 THEN 0 ELSE input[k - 1])
    ELSE input[k]

(***************************************************************************)
(* Every encoder that returns has written exactly the spec's codewords of *)
(* its integers (of the deltas for the delta encoders), one after the     *)
(* other.                                                                 *)
(***************************************************************************)
EncodesReference ==
  pc \in {"decode", "done"} =>
    bytes = FoldLeft(LAMBDA acc, k : acc \o RefCode(Coded(k)), <<>>, [k \in 1..Len(input) |-> k])

(***************************************************************************)
(* decode(encode(x)) = x for every input the encoder accepts, over each   *)
(* encoder / decoder pairing the callers use.                             *)
(***************************************************************************)
RoundTrip == pc = "done" => out = input

(***************************************************************************)
(* An encoder with a capacity never writes at or beyond it: the check     *)
(* before each block fails first.                                          *)
(***************************************************************************)
NoOverrun == enc \in BoundedEncoders => Offset <= cap

====
