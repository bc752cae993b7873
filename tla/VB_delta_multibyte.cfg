\* varCompress(cbuf, clen, ubuf, ...) writes extra bytes for a delta of 128 or more.
CONSTANTS
  Encoders <- MCAllEncoders
  Decoders <- MCAllDecoders
  Cases <- MCMultibyteCases
SPECIFICATION Spec
INVARIANT RoundTrip
\* An encoding that decoded or aborted has no successor.
CHECK_DEADLOCK FALSE
