\* Two threads, three bytes of RAM with two values each, both interpreters.
CONSTANTS
  Threads = {t1, t2}
  NoThread = NoThread
  Size = 3
  Bytes = {0, 1}
  Calls <- MCCalls
  Policies = {"wait", "fail"}
SPECIFICATION MCFairSpec
INVARIANTS TypeOK LocksBalanced
PROPERTIES WritesOwnField FailsOnlyOnCollision BytesAreReal SomeCallReturns
