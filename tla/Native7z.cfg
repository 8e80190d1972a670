SPECIFICATION Spec
CONSTANTS
  Folder <- MCFolder
  File <- MCFile
  FileLength = 16
  BufSize = 3
  Window = 2
  Block = 2
  AesBuf = 2
  HasPassword = TRUE
INVARIANT StreamFollowsDecoder
PROPERTIES
  NoRework
  EveryCallReturns
  ServesEveryFile
