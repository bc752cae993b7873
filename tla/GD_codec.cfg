\* The gamma and delta encoders that clear their buffer with both decoders, and the Bernoulli codec with parameters 0, 1, 2 and 5, on all sequences of up to 3 values.
CONSTANTS
  Codecs <- MCCodecs
  Params = {0, 1, 2, 5}
  Values <- MCValues
  MaxLen = 3
  Clens = {8, 16}
  Dirty <- MCDirty
SPECIFICATION Spec
INVARIANT TypeOK
INVARIANT RoundTrip
INVARIANT EncodesReference
\* A call ends in done, failed or overread, which have no successor.
CHECK_DEADLOCK FALSE
