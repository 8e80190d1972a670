SPECIFICATION Spec
CONSTANTS
  CommentMax = 40
  Escape16 = 65535
  Escape32 = 999999
  CountMax = 100000
  Threads = {t1, t2}
  Files <- WithFakes
  MaxWrite = 2
  Interrupts = 1
  None = None
INVARIANTS
  FakesAreRejected
SYMMETRY Symmetry
CHECK_DEADLOCK FALSE
