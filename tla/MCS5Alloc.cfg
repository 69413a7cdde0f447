CONSTANTS
  NBlocks = 9
  IBlocks = 2
  NFreeCache = 2
  NIL = NIL
  NoSpace = NoSpace
  Corrupt = Corrupt
SPECIFICATION Spec
INVARIANTS TypeOK Conservation
PROPERTIES AllocRefinesFreeSet
