\* The clearing encoders into one-word buffers: does every code that returns fit?
CONSTANTS
  Codecs <- MCClearingCodecs
  Params = {0}
  Values <- MCValues
  MaxLen = 3
  Clens = {8}
  Dirty <- MCClean
SPECIFICATION Spec
INVARIANT EncodedWithinCapacity
CHECK_DEADLOCK FALSE
