\* deinit may run in the middle of the calls of two threads.
CONSTANTS
  Threads = {t1, t2}
  Values = {v1}
  Empty = Empty
  NoThread = NoThread
  N = 2
  DeinitAlone = FALSE
SPECIFICATION MCFairSpec
INVARIANTS SlotUnique
PROPERTIES NoEviction CallsReturn
