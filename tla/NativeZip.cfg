SPECIFICATION Spec
CONSTANTS
  CommentMax = 40
  Escape16 = 65535
  Escape32 = 999999
  CountMax = 100000
  Threads = {t1, t2}
  Files <- MCFiles
  MaxWrite = 2
  Interrupts = 1
  None = None
INVARIANTS
  ReadsStayInside
  ReadsWhatWasWritten
  FileIsWholeOrGone
  HandleOutlivesCalls
SYMMETRY Symmetry
CHECK_DEADLOCK FALSE
