SPECIFICATION Spec
CONSTANTS
  Procs = {p1, p2}
  Fds = {f1}
  Offsets = {0, 1}
  Sizes = {1, 2}
  Zero = Zero
  Uninit = Uninit
  NoCall = NoCall
  NoAnswer = NoAnswer
  NoProc = NoProc
SYMMETRY Symmetry
INVARIANT TypeOK
INVARIANT IOInv
PROPERTY ImplementsPositionalIO
