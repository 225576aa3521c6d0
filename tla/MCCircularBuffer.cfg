\* Two threads on buffers of capacity 0, 1 and 2, created, destroyed and created again.
CONSTANTS
  Threads = {t1, t2}
  Elements <- MCElements
  Sizes <- MCSizes
  NoThread = NoThread
  Reuse = FALSE
SPECIFICATION FairSpec
INVARIANTS TypeOK LockBalanced CountersAgree NothingLeaks
PROPERTIES ImplementsQueue SomeCallReturns
