\* An exception that escapes a handler ends fsmaker (exited), so the shell
\* really stops there; format is enabled in every other state.
CONSTANTS
  NBlocks = 7
  IBlocks = 2
  NFreeCache = 2
  NIL = NIL
  NoSpace = NoSpace
  Corrupt = Corrupt
  BlockSize = 6
  NDirect = 1
  NIndirect = 2
  WrongType = WrongType
  TooLarge = TooLarge
  OutOfBlock = OutOfBlock
  TypeError = TypeError
  Hang = Hang
  NInodes = 4
  DirentSize = 2
  Names = {"a", "b"}
  WriteOffsets = {0}
  WriteLens = {1}
  TruncSizes = {0, 7}
  MaxLinks = 2
  Chunk = 2
  HostTree <- MCHostTree
  Paths <- MCPaths
  HostLens = {3}
  MaxDepth = 1
SPECIFICATION ShellSpec
INVARIANTS FormatAnywhereCopiesHost
CHECK_DEADLOCK FALSE
