SPECIFICATION Spec
CONSTANTS
  Dims <- SmallDims
  MaxWrites = 2
  MaxObject = 127
INVARIANT TypeOK
INVARIANT IInv
INVARIANT SentAsWritten
INVARIANT WholeImageLoads
CHECK_DEADLOCK FALSE
