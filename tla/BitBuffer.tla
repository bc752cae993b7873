------------------------------ MODULE BitBuffer -----------------------------
(***************************************************************************)
(* BitBuffer (pix_bit_buffer.h/.cpp): a bit-addressable view over a        *)
(* caller-owned array of uint64_t words.  ubuf is the words in the view,   *)
(* buflen their number, offset the append cursor and maxoffset the bit     *)
(* capacity.  The caller's memory is not cleared by the constructors, so   *)
(* ubuf starts with whatever words Junk holds.  operand is the BitBuffer   *)
(* s passed to &=, |= and ^=.  Every call is one action; a failed assert   *)
(* aborts the program (failed).  The module is shown to implement the     *)
(* BitArray contract of spec.md 4.1 through a refinement mapping.          *)
(***************************************************************************)
EXTENDS Integers, FiniteSets, BitWords

CONSTANTS
  WordLens,     \* lengths given to BitBuffer(uint64_t*, buflen)
  ByteLens,     \* lengths given to BitBuffer(unsigned char*, buflen[, offset])
  StartOffsets, \* offsets given to BitBuffer(unsigned char*, buflen, offset)
  Junk,         \* contents a word of the caller's memory may start with
  OperandLens,  \* word lengths of the operand buffer s
  Positions, RangeStarts, Lengths, Counts,
  MaxCalls      \* bound on the number of calls in a behaviour

ASSUME Junk \subseteq Word

VARIABLES ubuf, buflen, offset, maxoffset, operand, failed, calls, lastCall,
  cbuf   \* the byte buffer handed to pack(cbuf, clen), as sets of 1-bit indices

vars == <<ubuf, buflen, offset, maxoffset, operand, failed, calls, lastCall, cbuf>>

\* Mutant: the capacity counted in bytes rather than bits.
Construct_ByteBits(words, off) ==
  /\ buflen = words
  /\ offset = off
  /\ maxoffset = words * 8

\* The three constructors: maxoffset = buflen << 6, and the byte ones turn
\* a byte length into a word length with >> 3.
Construct(words, off) ==
  /\ buflen = words
  /\ offset = off
  /\ maxoffset = words * WordBits

Init ==
  /\ \/ \E n \in WordLens : Construct(n, 0)
     \/ \E n \in ByteLens : Construct(n \div 8, 0)
     \/ \E n \in ByteLens, off \in StartOffsets : Construct(n \div 8, off)
  /\ ubuf \in [0 .. buflen - 1 -> Junk]
  /\ operand \in UNION {[0 .. m - 1 -> Junk] : m \in OperandLens}
  /\ failed = FALSE
  /\ cbuf = [j \in 0 .. 8 * buflen - 1 |-> {}]
  /\ calls = 0
  /\ lastCall = <<"none">>

\* One more call, recorded with its arguments in lastCall.
Call(c) == ~failed /\ calls < MaxCalls /\ calls' = calls + 1 /\ lastCall' = c

\* assert(...) failed: the program aborts.
Abort == failed' = TRUE /\ UNCHANGED <<ubuf, buflen, offset, maxoffset, operand, cbuf>>

\* assert(p < buflen) with p = pos >> 6
InView(pos) == WordIndex(pos) < buflen

Store(words) ==
  ubuf' = words /\ UNCHANGED <<buflen, offset, maxoffset, operand, failed, cbuf>>

Get(pos) ==
  /\ Call(<<"get", pos>>)
  /\ IF InView(pos)
     THEN UNCHANGED <<ubuf, buflen, offset, maxoffset, operand, failed, cbuf>>
     ELSE Abort

Set(pos) == Call(<<"set", pos>>) /\ IF InView(pos) THEN Store(SetBit(ubuf, pos)) ELSE Abort

Clear(pos) == Call(<<"clear", pos>>) /\ IF InView(pos) THEN Store(ClearBit(ubuf, pos)) ELSE Abort

Flip(pos) == Call(<<"flip", pos>>) /\ IF InView(pos) THEN Store(FlipBit(ubuf, pos)) ELSE Abort

\* assert(offset < maxoffset); bit ? set(offset++) : clear(offset++);
Append(bit) ==
  /\ Call(<<"append", bit>>)
  /\ IF offset < maxoffset
     THEN /\ ubuf' = IF bit THEN SetBit(ubuf, offset) ELSE ClearBit(ubuf, offset)
          /\ offset' = offset + 1
          /\ UNCHANGED <<buflen, maxoffset, operand, failed, cbuf>>
     ELSE Abort

\* clear(offset, length): two asserts, then clear(i) over the range.
ClearRange(off, length) ==
  /\ Call(<<"clearRange", off, length>>)
  /\ IF off < maxoffset /\ off + length < maxoffset
     THEN Store([w \in DOMAIN ubuf |->
                  ubuf[w] \ {BitIndex(i) : i \in {j \in off .. off + length - 1 :
                                                  WordIndex(j) = w}}])
     ELSE Abort

\* Mutant: clear() that forgets to reset the cursor.
ClearAll_KeepsCursor ==
  /\ Call(<<"clearAll">>)
  /\ ubuf' = [w \in DOMAIN ubuf |-> {}]
  /\ UNCHANGED <<offset, buflen, maxoffset, operand, failed, cbuf>>

\* clear(): zero every word and reset the cursor.
ClearAll ==
  /\ Call(<<"clearAll">>)
  /\ ubuf' = [w \in DOMAIN ubuf |-> {}]
  /\ offset' = 0
  /\ UNCHANGED <<buflen, maxoffset, operand, failed, cbuf>>

SetBitCount(k) ==
  Call(<<"setBitCount", k>>) /\ offset' = k /\ UNCHANGED <<ubuf, buflen, maxoffset, operand, failed, cbuf>>

\* operator&=, |=, ^=: assert(s.getBuflen()==buflen), then word by word.
Assign(op) ==
  /\ Call(<<op>>)
  /\ IF Cardinality(DOMAIN operand) = buflen
     THEN Store([w \in DOMAIN ubuf |->
                  CASE op = "and" -> ubuf[w] \cap operand[w]
                    [] op = "or"  -> ubuf[w] \cup operand[w]
                    [] op = "xor" -> (ubuf[w] \ operand[w]) \cup (operand[w] \ ubuf[w])])
     ELSE Abort

\* Byte j of the words on the little-endian build: bits 8(j & 7).. of
\* word j >> 3.
ByteOf(words, j) == {b \in 0 .. 7 : 8 * (j % 8) + b \in words[j \div 8]}

\* pack(cbuf, clen): for (i = 0; i < (buflen<<2); ++i) *q = *p; with p
\* and q never advanced, so byte 0 of ubuf is copied onto cbuf[0] only.
Pack ==
  /\ Call(<<"pack">>)
  /\ cbuf' = IF buflen * 4 > 0 THEN [cbuf EXCEPT ![0] = ByteOf(ubuf, 0)] ELSE cbuf
  /\ UNCHANGED <<ubuf, buflen, offset, maxoffset, operand, failed>>

Next ==
  \/ \E pos \in Positions : Get(pos) \/ Set(pos) \/ Clear(pos) \/ Flip(pos)
  \/ \E bit \in BOOLEAN : Append(bit)
  \/ \E pos \in RangeStarts, length \in Lengths : ClearRange(pos, length)
  \/ ClearAll
  \/ \E k \in Counts : SetBitCount(k)
  \/ \E op \in {"and", "or", "xor"} : Assign(op)
  \/ Pack

Spec == Init /\ [][Next]_vars

-----------------------------------------------------------------------------

TypeOK ==
  /\ buflen \in Nat /\ maxoffset = buflen * WordBits
  /\ ubuf \in [0 .. buflen - 1 -> Word]
  /\ offset \in Nat
  /\ failed \in BOOLEAN
  /\ calls \in 0 .. MaxCalls
  /\ cbuf \in [0 .. 8 * buflen - 1 -> SUBSET (0 .. 7)]

(***************************************************************************)
(* Refinement: read as an array of bits (bit i is bit i & 63 of word       *)
(* i >> 6), every behaviour of the word-level BitBuffer is a behaviour of  *)
(* the BitArray contract: every get, set, clear, flip, append,             *)
(* clear(offset, length), clear(), setBitCount and &=/|=/^= does to the    *)
(* bits what the contract says, and fails exactly when it says.            *)
(***************************************************************************)
Abstract == INSTANCE BitArray WITH
  bits <- SetPositions(ubuf), cursor <- offset, cap <- maxoffset,
  opnd <- SetPositions(operand),
  opndCap <- Cardinality(DOMAIN operand) * WordBits

ImplementsBitArray == Abstract!Spec

(***************************************************************************)
(* Pack (spec.md 4.1: pack exposes the word array for bulk codec writes):  *)
(* after pack, the bytes of cbuf are the bytes of ubuf.                    *)
(***************************************************************************)
PackCopies == lastCall = <<"pack">> => \A j \in DOMAIN cbuf : cbuf[j] = ByteOf(ubuf, j)

=============================================================================
