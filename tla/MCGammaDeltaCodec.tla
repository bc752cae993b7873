------------------------- MODULE MCGammaDeltaCodec --------------------------
(***************************************************************************)
(* Instances of GammaDeltaCodec: gaps from 1 to 2^21 so that codes of     *)
(* 2 to 42 bits occur, buffers of one and two words, clean and dirty.     *)
(***************************************************************************)
EXTENDS GammaDeltaCodec

MCClearingCodecs == {"gammaArray", "deltaArray", "deltaVector"}

\* The clearing encoders and the Bernoulli codec.
MCCodecs == MCClearingCodecs \cup {"bernoulli"}

MCValues == {1, 1048576, 1050624, 1064960, 2097151}

\* A 1 bit in the first word, and one in the second.
MCDirty == {{}, {2, 65}}

\* A stale 1 bit in the first word, where a code is written.
MCStale == {{1}}

\* Clean memory only.
MCClean == {{}}

=============================================================================
