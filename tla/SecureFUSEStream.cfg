SPECIFICATION CSpec
CONSTANTS
  Apps = {a1}
  VideoTees = {v1}
  Paths = {bmp, raw}
  BmpPaths = {bmp}
  RawPaths = {raw}
  Fds = {f1, f2}
  Nodes = {n1}
  NoProc = NoProc
  NoNode = NoNode
  NoPath = NoPath
  NoHandle = NoHandle
  NoRequest = NoRequest
PROPERTY SessionComesFree
PROPERTY ImplementsPassthrough
PROPERTY EveryClaimSettled
PROPERTY EveryCallReturns
PROPERTY EveryHandleReleased
CHECK_DEADLOCK FALSE
