\* An embedded buffer is initialised a second time after deinit.
CONSTANTS
  Threads = {t1}
  Elements = {1}
  Sizes <- MCSizes
  NoThread = NoThread
  Reuse = TRUE
SPECIFICATION Spec
PROPERTIES InitialisedEmpty
CHECK_DEADLOCK FALSE
