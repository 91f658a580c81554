SPECIFICATION Spec
CONSTANTS
  Object1 = Object1
  Object2 = Object2
  Data1 = Data1
  Data2 = Data2
  MaxCrashes = 2
  NoObject = NoObject
  Empty = Empty
INVARIANT TypeOK
INVARIANT IInv
INVARIANT ReadsBackWhatItWrote
INVARIANT CommandsCleanUp
INVARIANT NoTornObject
INVARIANT RunToggles
