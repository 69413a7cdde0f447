\* fsmaker killed part way through a call stops there, and a hung truncate
\* never returns, so the system really stops in those states.
CONSTANTS
  NBlocks = 9
  IBlocks = 2
  NFreeCache = 2
  NIL = NIL
  NoSpace = NoSpace
  Corrupt = Corrupt
  BlockSize = 4
  NDirect = 1
  NIndirect = 2
  WrongType = WrongType
  TooLarge = TooLarge
  OutOfBlock = OutOfBlock
  TypeError = TypeError
  Hang = Hang
  NInodes = 3
  DirentSize = 2
  Names = {"a"}
  WriteOffsets = {0, 8}
  WriteLens = {1}
  TruncSizes = {0, 1}
  MaxLinks = 3
SPECIFICATION CrashSpec
INVARIANTS DirSizeWhole
CHECK_DEADLOCK FALSE
