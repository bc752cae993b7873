------------------------------ MODULE BitWords ------------------------------
(***************************************************************************)
(* The word arithmetic of BitBuffer (pix_bit_buffer.cpp): a raw buffer is  *)
(* an array of uint64_t words, and bit pos lives in word pos >> 6 at bit   *)
(* pos & 63.  A word is represented exactly by the set of its 1-bit        *)
(* indices in 0..63, so no 64-bit integer is ever formed; the masks        *)
(* (uint64_t)1 << (pos & 63) and their complements become one-element      *)
(* sets.  On the little-endian build the bytes of word w are bytes         *)
(* 8w..8w+7 of the caller's char buffer, so bit pos is also bit pos & 7    *)
(* of byte pos >> 3.                                                       *)
(***************************************************************************)
EXTENDS Integers

WordBits == 64

Word == SUBSET (0 .. WordBits - 1)

\* p = pos >> 6
WordIndex(pos) == pos \div WordBits

\* pos & 63
BitIndex(pos) == pos % WordBits

\* (ubuf[p] >> (pos & 63)) & 1
GetBit(words, pos) == BitIndex(pos) \in words[WordIndex(pos)]

\* ubuf[p] |= ((uint64_t)1 << (pos & 63))
SetBit(words, pos) ==
  [words EXCEPT ![WordIndex(pos)] = @ \cup {BitIndex(pos)}]

\* ubuf[p] &= ~((uint64_t)1 << (pos & 63))
ClearBit(words, pos) ==
  [words EXCEPT ![WordIndex(pos)] = @ \ {BitIndex(pos)}]

\* ubuf[p] ^= ((uint64_t)1 << (pos & 63))
FlipBit(words, pos) ==
  [words EXCEPT ![WordIndex(pos)] =
     IF BitIndex(pos) \in @ THEN @ \ {BitIndex(pos)} ELSE @ \cup {BitIndex(pos)}]

\* The positions of the 1 bits of words, over the whole buffer.
SetPositions(words) ==
  UNION {{w * WordBits + b : b \in words[w]} : w \in DOMAIN words}

=============================================================================
