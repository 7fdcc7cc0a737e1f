CONSTANTS
  f1 = f1
  f2 = f2
  Inode = {f1, f2}
  NBLOCKS = 10
  NDIRECT = 1
  NINDIRECT = 2
  MaxWrite = 2
  MaxTruncs = 2
  MaxSize <- Sizes
SPECIFICATION Spec
INVARIANTS TypeOK BlocksPartitioned ReadsBackWhatWasWritten
PROPERTIES NoFreeingFree
