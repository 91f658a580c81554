SPECIFICATION Spec
CONSTANTS
  Apps = {a1}
  VideoTees = {v1, v2}
  Paths = {bmp, raw}
  BmpPaths = {bmp}
  RawPaths = {raw}
  Fds = {f1, f2, f3}
  Nodes = {n1, n2}
  NoProc = NoProc
  NoNode = NoNode
  NoPath = NoPath
  NoHandle = NoHandle
  NoRequest = NoRequest
PROPERTY SkippedMeansProcessed
CHECK_DEADLOCK FALSE
