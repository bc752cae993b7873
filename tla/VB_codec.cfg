\* Plain encoders against the 9-group decoder and the spec's delta codewords against the accumulating decoders, over the group boundaries; and the delta encoders and accumulating decoders on deltas below 128, with output capacities that run out.
CONSTANTS
  Encoders <- MCAllEncoders
  Decoders <- MCAllDecoders
  Cases <- MCCodecCases
SPECIFICATION Spec
INVARIANT TypeOK
INVARIANT EncodesReference
INVARIANT RoundTrip
\* An encoding that decoded or aborted has no successor.
CHECK_DEADLOCK FALSE
