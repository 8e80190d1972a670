SPECIFICATION CodecsSpec
CONSTANTS
  NumSymbols = 8
  UnitSize = 12
  Indx2Units <- MCIndx2Units
  MaxFreq = 16
  MaxOrder = 3
  Size = 360
  GlueCount = 1
  LimitNU = 4
  SingleMax = 5
  HiSymbol = 2
  NewBinEsc <- MCNewBinEsc
  ExpEscape <- MCExpEscape
  ByteBits = 4
  CodeBytes = 3
  ModelBits = 5
  MoveBits = 2
  LowBits = 1
  HighBits = 2
  SlotBits = 3
  AlignBits = 1
  EndSlot = 6
  InputMax = 10
  LclpMax = 4
  CipherBlock = 3
  LookSizes = {1, 3}
  LzmaInputs <- MCLzmaInputs
  WordLen = 4
  TextLen = 94
  Texts <- MCTexts
  Streams <- MCStreams
  TableBits = {11}
  Runs = {6, 10, 138}
  NumLens = 2
  BlockSize = 8
  BitLenSize = 2
  KeySize = 3
  BatchCycles = 2
  CacheCapacity = 2
  MaxPwdLen = 3
  Threads = {1, 2}
  StoredMax = 30
  Window = 32
  HashSize = 7
  MinBlock = 8
  SoftMax = 40
  FastSoftMax = 30
  SeqStore = 4
  FastSeqStore = 3
  MaxMatch = 12
  MatchCacheLength = 80
  ObservationsPerCheck = 8
  ShortBlock = 36
  RecalcAfter = 16
  Inputs <- MCInputs
  Jobs <- MCJobs
  Requests <- MCRequests
  MaxKeys = 4
CHECK_DEADLOCK FALSE
INVARIANTS
  MemoryIsTiled
  ContextsHold
  DecodesAsWritten
  PiecesMakeNoDifference
  ReadsOnlyWhatIsSet
  BitsAreThere
  BuffersHold
  CompressedIsRead
  MatchesHold
  FiltersUndo
  FastPathsAgree
