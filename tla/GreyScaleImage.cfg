SPECIFICATION Spec
CONSTANTS
  Block = 2
  MaxRows = 2
  MaxCols = 3
INVARIANT GreyScaleImage
CHECK_DEADLOCK FALSE
