SPECIFICATION Spec
CONSTANTS
  Apps = {a1, a2}
  VideoTees = {v1, v2}
  Paths = {bmp, txt, raw}
  BmpPaths = {bmp}
  RawPaths = {raw}
  Fds = {f1, f2}
  Nodes = {n1, n2}
  NoProc = NoProc
  NoNode = NoNode
  NoPath = NoPath
  NoHandle = NoHandle
  NoRequest = NoRequest
SYMMETRY Symmetry
INVARIANT TypeOK
INVARIANT IInv
INVARIANT AtMostOneJobPerPath
INVARIANT FdOwnership
PROPERTY ImplementsProcessOnce
CHECK_DEADLOCK FALSE
