--------------------------- MODULE MCVarByteCodec ---------------------------
EXTENDS VarByteCodec

\* The group boundaries of the codeword, and the 28-bit limit.
MCWideValues == {0, 1, 127, 128, 16383, 16384, 2^21, 2^28 - 1, 2^28}
\* Increasing inputs with deltas of at most 127, as pix_codec_test draws.
MCSmallValues == {0, 1, 100, 127}
\* One delta below and one above the one-byte limit.
MCTwoByteValues == {1, 200}

\* Targets with signed and with unsigned plain char.
MCBothSigns == BOOLEAN

MCAllEncoders == {"array", "vector", "offset", "segment", "cvec", "cvec64"}
MCAllDecoders == {"array", "iter", "cvec", "cvec64"}

\* Plain encoders decoded without accumulation; the spec's delta codewords
\* decoded by the accumulating decoders.
MCPlainPairs ==
  {<<"offset", "cvec64">>, <<"segment", "cvec64">>, <<"cvec", "cvec64">>,
   <<"cvec64", "cvec64">>, <<"reference", "array">>, <<"reference", "cvec">>}
\* The delta encoders with every accumulating decoder.
MCDeltaPairs == {<<e, d>> : e \in {"array", "vector"}, d \in {"array", "iter", "cvec"}}
MCArrayPair == {<<"array", "array">>}
MCOffsetPairs == {<<"offset", "cvec64">>, <<"segment", "cvec64">>}

\* Plain and reference pairs over the group boundaries, with room to spare.
MCPlainCase ==
  [pairs |-> MCPlainPairs, values |-> MCWideValues, maxLen |-> 2,
   caps |-> {40}, offsets |-> {0, 3}, signs |-> {TRUE}]
\* The delta encoders and accumulating decoders on deltas below 128, with
\* output capacities that run out, on both signs of char.
MCSmallCase ==
  [pairs |-> MCDeltaPairs, values |-> MCSmallValues, maxLen |-> 3,
   caps |-> {1, 2, 3}, offsets |-> {0}, signs |-> MCBothSigns]
MCCodecCases == {MCPlainCase, MCSmallCase}
\* varCompress on a delta of 128 or more.
MCMultibyteCases ==
  {[pairs |-> MCArrayPair, values |-> MCTwoByteValues, maxLen |-> 2,
    caps |-> {8}, offsets |-> {0}, signs |-> {TRUE}]}
\* The offset encoders on two-byte values from offsets 0 and 1.
MCOffsetEdgeCases ==
  {[pairs |-> MCOffsetPairs, values |-> MCTwoByteValues, maxLen |-> 2,
    caps |-> {3, 4}, offsets |-> {0, 1}, signs |-> {TRUE}]}
====
