--------------------------- MODULE GammaDeltaCodec --------------------------
(***************************************************************************)
(* PixCodec::gammaCompress / deltaCompress (array and vector overloads),   *)
(* gammaUncompress / deltaUncompress (pix_codec.cpp 479-722), and the      *)
(* static bernoulliCompress / bernoulliUnCompress (724-897), which         *)
(* write and read their codes through a BitBuffer (BitWords) over the      *)
(* caller's byte buffer cbuf of clen bytes.  mem is that buffer as 64-bit  *)
(* words (the last one partial when clen is not a multiple of 8); the      *)
(* encoder's BitBuffer sees its first clen >> 3 words.  The encoder takes  *)
(* one step per input integer; the caller then decodes the n >> 3 bytes    *)
(* the encoder reported, as pix_codec_test does, one step per integer.    *)
(***************************************************************************)
EXTENDS Integers, Sequences, SequencesExt, FiniteSetsExt, BitWords

CONSTANTS
  Codecs,   \* a subset of {"gammaArray", "gammaVector", "deltaArray", "deltaVector", "bernoulli"}
  Params,   \* the parameters b given to bernoulliCompress
  Values,   \* the integers an input sequence is made of
  MaxLen,   \* the longest input sequence
  Clens,    \* output buffer capacities in bytes
  Dirty     \* sets of bit indices of cbuf that hold 1 before the call

Gammas == {"gammaArray", "gammaVector"}

\* The overloads that start with bits.clear().
Clearing == {"gammaArray", "deltaArray", "deltaVector"}

VARIABLES
  codec, input, clen,
  b,        \* bernoulliCompress's parameter (0 for the other codecs)
  param,    \* the parameter bernoulliUnCompress reads back (-1: the b = 0 path)
  mem,      \* the caller's buffer cbuf, as words
  i,        \* index of the next input integer
  lastX,    \* the previous input integer
  k,        \* bit index: encoder's write cursor, then decoder's read cursor
  nbits,    \* the bit count the encoder returned
  out,      \* the decoded uvec
  pc        \* "start", "encode", "decode", "done", "failed" (assert), "overread"

vars == <<codec, input, clen, b, param, mem, i, lastX, k, nbits, out, pc>>

\* The bits of cbuf, and the words of the encoder's BitBuffer(cbuf, clen).
MemBits == 8 * clen
buflen == clen \div 8

\* static uint32_t log(uint32_t x): the loop that shifts x down to 0.
RECURSIVE LogLoop(_, _)
LogLoop(x, n) == IF x = 0 THEN n - 1 ELSE LogLoop(x \div 2, n + 1)
Log(x) == LogLoop(x, 0)

\* Bit j of r, r >>= 1 after each: the residue loops.
ResidueOnes(r, len, at) == {at + j : j \in {j \in 0 .. len - 1 : (r \div 2^j) % 2 = 1}}

\* The bits gammaCompress sets for delta at cursor c: lg+1 ones (unary),
\* a 0, then the lg low bits of the residue, least significant first.
GammaOnes(delta, c) ==
  LET lg == Log(delta) IN
  (c .. c + lg) \cup ResidueOnes(delta - 2^lg, lg, c + lg + 2)

GammaLen(delta) == 2 * Log(delta) + 2

\* deltaCompress: gamma code of 1+l, then the l low bits of 1+delta.
DeltaOnes(delta, c) ==
  LET l  == Log(1 + delta)
      ll == Log(1 + l)
  IN (c .. c + ll) \cup ResidueOnes((1 + l) - 2^ll, ll, c + ll + 2)
       \cup ResidueOnes((1 + delta) - 2^l, l, c + 2 * ll + 2)

DeltaLen(delta) ==
  LET l == Log(1 + delta) IN 2 * Log(1 + l) + 2 + l

Init ==
  /\ codec \in Codecs
  /\ input \in UNION {[1 .. n -> Values] : n \in 0 .. MaxLen}
  /\ clen \in Clens
  /\ b \in (IF codec = "bernoulli" THEN Params ELSE {0})
  /\ param = 0
  /\ \E d \in Dirty :
       mem = [w \in 0 .. (clen + 7) \div 8 - 1 |->
                {j \in 0 .. WordBits - 1 : w * WordBits + j \in d /\ w * WordBits + j < 8 * clen}]
  /\ i = 1 /\ lastX = 0 /\ k = 0 /\ nbits = 0 /\ out = <<>>
  /\ pc = "start"

\* Mutant: bits.clear() left out, as in the vector gamma overload.
Start_NoClear ==
  /\ pc = "start" /\ codec # "bernoulli"
  /\ IF input = <<>> THEN pc' = "decode" ELSE pc' = "encode"
  /\ UNCHANGED <<codec, input, clen, b, param, mem, i, lastX, k, nbits, out>>

\* if (ulen==0) return 0;  then bits.clear() in the clearing overloads.
Start ==
  /\ pc = "start" /\ codec # "bernoulli"
  /\ IF input = <<>>
     THEN pc' = "decode" /\ UNCHANGED mem
     ELSE /\ pc' = "encode"
          /\ mem' = IF codec \in Clearing
                    THEN [w \in DOMAIN mem |-> IF w < buflen THEN {} ELSE mem[w]]
                    ELSE mem
  /\ UNCHANGED <<codec, input, clen, b, param, i, lastX, k, nbits, out>>

\* One pass of the encoder loop: assert(lastX < x), then bits.set(p) for
\* every 1 of the codeword; a set beyond the BitBuffer asserts.
EncodeStep ==
  /\ pc = "encode" /\ codec # "bernoulli" /\ i <= Len(input)
  /\ LET x     == input[i]
         ones  == IF codec \in Gammas THEN GammaOnes(x - lastX, k)
                  ELSE DeltaOnes(x - lastX, k)
     IN IF ~(lastX < x) \/ \E p \in ones : WordIndex(p) >= buflen
        THEN pc' = "failed" /\ UNCHANGED <<mem, i, lastX, k>>
        ELSE /\ mem' = FoldSet(LAMBDA p, m : SetBit(m, p), mem, ones)
             /\ k' = k + (IF codec \in Gammas THEN GammaLen(x - lastX)
                          ELSE DeltaLen(x - lastX))
             /\ lastX' = x
             /\ i' = i + 1
             /\ UNCHANGED pc
  /\ UNCHANGED <<codec, input, clen, b, param, nbits, out>>

(***************************************************************************)
(* bernoulliCompress writes through new BitBuffer(cbuf, clen), with no    *)
(* early return and no clear, and computes in uint32_t.  b = 0 leaves a  *)
(* leading 0 bit; b > 0 first writes the header: log(b) ones, a 0 and    *)
(* the log(b) low bits of b - 2^log(b).                                  *)
(*                                                                         *)
(* delta = x - lastX wraps when x <= lastX.  The model keeps the signed   *)
(* difference d: the low bits the code writes of a wrapped value are      *)
(* those of d in two's complement (ResidueOnes of a negative number), a   *)
(* wrapped delta 2^32 + d has log 31, and (delta-1)/b of one is above 6.  *)
(***************************************************************************)

\* lg ones at c, a 0, then the lg low bits of r, least significant first.
LgCode(lg, r, c) == (c .. c + lg - 1) \cup ResidueOnes(r, lg, c + lg + 1)

\* Every bits.set(p) of the code lies in the BitBuffer; else set asserts.
Settable(ones) == \A p \in ones : WordIndex(p) < buflen

SetAll(ones) == mem' = FoldSet(LAMBDA p, m : SetBit(m, p), mem, ones)

BernoulliStart ==
  /\ pc = "start" /\ codec = "bernoulli"
  /\ LET ones == IF b = 0 THEN {} ELSE LgCode(Log(b), b - 2^Log(b), 0) IN
       IF Settable(ones)
       THEN SetAll(ones) /\ k' = (IF b = 0 THEN 1 ELSE 2 * Log(b) + 1) /\ pc' = "encode"
       ELSE pc' = "failed" /\ UNCHANGED <<mem, k>>
  /\ UNCHANGED <<codec, input, clen, b, param, i, lastX, nbits, out>>

\* x - lastX, signed; delta is this modulo 2^32.
Diff(x) == x - lastX

\* q = (delta-1)/b > 6: the gamma fallback.
Fallback(x) == Diff(x) <= 0 \/ (Diff(x) - 1) \div b > 6
Quot(x) == (Diff(x) - 1) \div b

\* The argument of log() for value x, 0 when log() asserts.
LogArg(x) == IF b = 0 THEN (IF Diff(x) < 0 THEN 1 ELSE Diff(x)) ELSE IF Fallback(x) THEN x ELSE b
Lg(x) == IF b = 0 /\ Diff(x) < 0 THEN 31 ELSE Log(LogArg(x))

\* The bits one value sets at c, and the cursor after it: for b = 0 the
\* code of delta; for b > 0 and q > 6 a 0 marker and the code of
\* delta - 2^log(x); else q+1 ones, a 0 and log(b)+1 residue bits.
BernoulliCode(x, c) ==
  LET lg == Lg(x) IN
  CASE b = 0 -> [ones |-> LgCode(lg, IF Diff(x) < 0 THEN Diff(x) ELSE Diff(x) - 2^lg, c),
                 next |-> c + 2 * lg + 1]
    [] Fallback(x) -> [ones |-> LgCode(lg, Diff(x) - 2^lg, c + 1), next |-> c + 2 * lg + 2]
    [] OTHER -> [ones |-> (c .. c + Quot(x)) \cup ResidueOnes(Diff(x) - Quot(x) * b - 1, lg + 1, c + Quot(x) + 2),
                 next |-> c + Quot(x) + lg + 3]

\* One pass of the value loop; log() asserts its argument is not 0.
BernoulliEncodeStep ==
  /\ pc = "encode" /\ codec = "bernoulli" /\ i <= Len(input)
  /\ IF LogArg(input[i]) = 0 \/ ~Settable(BernoulliCode(input[i], k).ones)
     THEN pc' = "failed" /\ UNCHANGED <<mem, i, lastX, k>>
     ELSE LET c == BernoulliCode(input[i], k) IN
            /\ SetAll(c.ones) /\ k' = c.next
            /\ lastX' = input[i] /\ i' = i + 1
            /\ UNCHANGED pc
  /\ UNCHANGED <<codec, input, clen, b, param, nbits, out>>

\* Mutant: the count returned before the padding (as spec.md says of gamma).
EncodeDone_Unpadded ==
  /\ pc = "encode" /\ i > Len(input)
  /\ nbits' = k
  /\ k' = 0 /\ lastX' = 0
  /\ pc' = "decode"
  /\ UNCHANGED <<codec, input, clen, b, param, mem, i, out>>

\* while ((k&7) != 0) k++;  return k;  the caller decodes k >> 3 bytes.
EncodeDone ==
  /\ pc = "encode" /\ i > Len(input)
  /\ nbits' = ((k + 7) \div 8) * 8
  /\ k' = 0 /\ lastX' = 0
  /\ pc' = "decode"
  /\ UNCHANGED <<codec, input, clen, b, param, mem, i, out>>

(***************************************************************************)
(* The decoder: BitBuffer bits(&cbuf[coffset], clen<<3) with clen the     *)
(* n >> 3 bytes; get(pos) asserts pos >> 6 < clen<<3 >> 3.  A read below  *)
(* MemBits reads cbuf; one at or past it reads outside the caller's       *)
(* buffer, which the assert lets through up to 64 * (n >> 3).             *)
(***************************************************************************)
clenDec == nbits \div 8

Bit(p) == GetBit(mem, p)

\* The first 0 at or after p (while (bits.get(++k))), or the first index
\* outside cbuf if the ones run to its end.
RECURSIVE RunEnd(_)
RunEnd(p) == IF p >= MemBits \/ ~Bit(p) THEN p ELSE RunEnd(p + 1)

\* Mutant: the residue read most significant bit first.
Field_MsbFirst(at, len) ==
  LET S == {j \in 0 .. len - 1 : Bit(at + j)} IN SumSet({2^(len - 1 - j) : j \in S})

\* residue = (residue<<1) | get(i) for i from the top index down.
Field(at, len) == LET S == {j \in 0 .. len - 1 : Bit(at + j)} IN SumSet({2^j : j \in S})

\* The first read at or past the end of cbuf: an assert, or a read of
\* memory that is not the caller's.
OutOfBounds(p) ==
  /\ pc' = IF WordIndex(p) >= clenDec THEN "failed" ELSE "overread"
  /\ UNCHANGED <<k, lastX, out>>

\* Record one decoded value and move the cursor.
Emit(value, next) ==
  /\ lastX' = lastX + value
  /\ out' = Append(out, lastX + value)
  /\ k' = next
  /\ UNCHANGED pc

\* while (k < clen<<3) { if (!bits.get(k)) break; ... }  A codeword that
\* ends past cbuf stops the decoder inside it, so k < MemBits here.
DecodeExit ==
  /\ pc = "decode" /\ codec # "bernoulli"
  /\ IF k < 8 * clenDec THEN ~Bit(k) ELSE TRUE
  /\ pc' = "done"
  /\ UNCHANGED <<codec, input, clen, b, param, mem, i, lastX, k, nbits, out>>

\* gammaUncompress, one value: unary lg, then lg residue bits.
GammaDecodeStep ==
  /\ pc = "decode" /\ codec \in Gammas
  /\ k < 8 * clenDec /\ Bit(k)
  /\ LET z  == RunEnd(k + 1)
         lg == z - k - 1
     IN IF z >= MemBits THEN OutOfBounds(z)
        ELSE IF lg > 0 /\ z + lg >= MemBits THEN OutOfBounds(z + lg)
        ELSE Emit(2^lg + Field(z + 1, lg), k + 2 * lg + 2)
  /\ UNCHANGED <<codec, input, clen, b, param, mem, i, nbits>>

\* deltaUncompress, one value: gamma-coded lg+1, then lg residue bits,
\* then accum += base + residue - 1.
DeltaDecodeStep ==
  /\ pc = "decode" /\ codec \in {"deltaArray", "deltaVector"}
  /\ k < 8 * clenDec /\ Bit(k)
  /\ LET z    == RunEnd(k + 1)
         lglg == z - k - 1
         k1   == k + 2 * lglg + 2
         lg   == 2^lglg + Field(z + 1, lglg) - 1
     IN IF z >= MemBits THEN OutOfBounds(z)
        ELSE IF lglg > 0 /\ z + lglg >= MemBits THEN OutOfBounds(z + lglg)
        ELSE IF lg > 0 /\ k1 + lg - 1 >= MemBits THEN OutOfBounds(k1 + lg - 1)
        ELSE Emit(2^lg + Field(k1, lg) - 1, k1 + lg)
  /\ UNCHANGED <<codec, input, clen, b, param, mem, i, nbits>>

(***************************************************************************)
(* bernoulliUnCompress(cbuf, clen, uvec), given the encoder's buffer:     *)
(* new BitBuffer(cbuf, clen), whose get(pos) asserts pos >> 6 < clen >> 3.*)
(* get(0) = 0 takes the b = 0 path; else while (bitset.get(k++)) counts  *)
(* the header's ones and the residue is read from the top index down.    *)
(* Both value loops run while k < getBitCount(), the BitBuffer's offset, *)
(* which this constructor sets to 0: they never run, and uvec is left    *)
(* as it was.                                                             *)
(***************************************************************************)
Readable(p) == WordIndex(p) < buflen

BernoulliDecode ==
  /\ pc = "decode" /\ codec = "bernoulli"
  /\ LET z == RunEnd(0) IN
       CASE ~Readable(0) -> pc' = "failed" /\ UNCHANGED param
         [] ~Bit(0) -> param' = -1 /\ pc' = "done"
         [] ~Readable(z) \/ (z > 0 /\ ~Readable(z + z)) -> pc' = "failed" /\ UNCHANGED param
         [] OTHER -> param' = 2^z + Field(z + 1, z) /\ pc' = "done"
  /\ UNCHANGED <<codec, input, clen, b, mem, i, lastX, k, nbits, out>>

Next ==
  \/ Start \/ EncodeStep \/ EncodeDone
  \/ DecodeExit \/ GammaDecodeStep \/ DeltaDecodeStep
  \/ BernoulliStart \/ BernoulliEncodeStep \/ BernoulliDecode

Spec == Init /\ [][Next]_vars /\ WF_vars(Next)

-----------------------------------------------------------------------------

TypeOK ==
  /\ codec \in Codecs /\ clen \in Clens
  /\ b \in Nat /\ param \in Int
  /\ mem \in [0 .. (clen + 7) \div 8 - 1 -> Word]
  /\ i \in 1 .. Len(input) + 1
  /\ k \in Nat
  /\ nbits \in Nat /\ nbits % 8 = 0
  /\ out \in Seq(Nat)
  /\ pc \in {"start", "encode", "decode", "done", "failed", "overread"}

(***************************************************************************)
(* The codewords as spec.md 4.2 and 5 define them, written independently  *)
(* of the encoder: gamma of d is 1+floor(log2 d) ones, a 0 and the         *)
(* floor(log2 d) bits of d below its leading power of two, least           *)
(* significant first; delta of d is gamma of 1+floor(log2(1+d)) and the   *)
(* bits of 1+d below its leading power of two.  The stream is padded with *)
(* 0 bits to a byte boundary.                                              *)
(***************************************************************************)
FloorLog2(n) == CHOOSE e \in 0 .. 30 : 2^e <= n /\ n < 2^(e + 1)

LowBits(r, len) == [j \in 1 .. len |-> (r \div 2^(j - 1)) % 2]

RefGamma(d) ==
  [j \in 1 .. FloorLog2(d) + 1 |-> 1] \o <<0>> \o LowBits(d - 2^FloorLog2(d), FloorLog2(d))

RefDelta(d) ==
  RefGamma(1 + FloorLog2(1 + d)) \o LowBits(1 + d - 2^FloorLog2(1 + d), FloorLog2(1 + d))

Gaps == [j \in DOMAIN input |-> input[j] - (IF j = 1 THEN 0 ELSE input[j - 1])]

RefStream ==
  LET s == FlattenSeq([j \in DOMAIN input |->
                         IF codec \in Gammas THEN RefGamma(Gaps[j]) ELSE RefDelta(Gaps[j])])
  IN s \o [j \in 1 .. ((8 - (Len(s) % 8)) % 8) |-> 0]

Encoded == pc \in {"decode", "done", "overread"}

Increasing == \A j \in DOMAIN input : Gaps[j] > 0

(***************************************************************************)
(* Round trip (spec.md 6, 8): a gamma or delta decode that returns gives *)
(* back exactly the sequence the encoder took.  It breaks if the encoder *)
(* leaves stale bits of cbuf in its code, if the bit layouts of encoder   *)
(* and decoder differ, or if the decoder misreads the stream's end.      *)
(***************************************************************************)
RoundTrip == pc = "done" /\ codec # "bernoulli" => out = input

(***************************************************************************)
(* Bernoulli round trip (spec.md 8): for any parameter b, decoding the    *)
(* code of a sequence gives the sequence back.                            *)
(***************************************************************************)
BernoulliRoundTrip == pc = "done" /\ codec = "bernoulli" => out = input

(***************************************************************************)
(* Bernoulli parameter (spec.md 4.2): the decoder tells a b = 0 stream by *)
(* its leading 0 bit and otherwise reads back the header's b.             *)
(***************************************************************************)
BernoulliParameter ==
  pc = "done" /\ codec = "bernoulli" => param = IF b = 0 THEN -1 ELSE b

(***************************************************************************)
(* The encoders that clear their buffer write exactly the spec's          *)
(* codewords: the 1 bits of cbuf below the returned bit count are those   *)
(* of the reference stream, and the count is its padded length.  Only     *)
(* strictly increasing input gets that far: any other fails lastX < x.    *)
(***************************************************************************)
EncodesReference ==
  Encoded /\ codec \in Clearing /\ input # <<>> =>
    /\ Increasing
    /\ nbits = Len(RefStream)
    /\ \A p \in 0 .. nbits - 1 : p < MemBits => (Bit(p) <=> RefStream[p + 1] = 1)

(***************************************************************************)
(* Capacity (spec.md 4.2 and 6): an encoder that returns has written its  *)
(* whole code inside its BitBuffer; one that does not fit must fail.  The *)
(* encoders only check the bits they set, so the trailing 0 bits of the   *)
(* last codeword and the padding can lie past the buffer.                 *)
(***************************************************************************)
EncodedWithinCapacity == Encoded => nbits <= buflen * WordBits

=============================================================================
