SPECIFICATION PSpec
CONSTANTS
  MaxFrames = 2
  MaxPackets = 5
  MaxStreams = 2
  Block = 2
  MaxRows = 3
  MaxCols = 5
INVARIANT PTypeOK
INVARIANT LostFramesAccounted
INVARIANT LeaksAccounted
INVARIANT ExtractInv
INVARIANT NoRace
INVARIANT WholeBlocksConverted
CHECK_DEADLOCK FALSE
