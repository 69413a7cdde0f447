\* A truncate that grows a file past an indirect block index never returns
\* (Inode.truncate, lines 296-302), so the system really stops there.
CONSTANTS
  NBlocks = 9
  IBlocks = 2
  NFreeCache = 2
  NIL = NIL
  NoSpace = NoSpace
  Corrupt = Corrupt
  BlockSize = 4
  NDirect = 1
  NIndirect = 2
  WrongType = WrongType
  TooLarge = TooLarge
  OutOfBlock = OutOfBlock
  TypeError = TypeError
  Hang = Hang
  NInodes = 3
  DirentSize = 2
  Names = {"a", "b"}
  WriteOffsets = {0, 8, 11}
  WriteLens = {1}
  TruncSizes = {0, 1}
  MaxLinks = 3
SPECIFICATION Spec
INVARIANTS TypeOK FreeInodeList NoSharedBlocks NoDanglingEntry DotEntries
CHECK_DEADLOCK FALSE
