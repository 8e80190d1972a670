SPECIFICATION Spec
CONSTANTS
  Word = 1048576
  Limit32 = 4096
  Files7z <- MCFiles7z
INVARIANTS
  FilesTileFolders
  PassesAgree
  OpensAsWritten
  DecodesAsBonded
