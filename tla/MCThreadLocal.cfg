\* Three threads contend for two slots; deinit runs between calls.
CONSTANTS
  Threads = {t1, t2, t3}
  Values = {v1, v2}
  Empty = Empty
  NoThread = NoThread
  N = 2
  DeinitAlone = TRUE
SPECIFICATION MCSpec
SYMMETRY Symmetry
INVARIANTS TypeOK OwnAccess FreeSlotEmpty
PROPERTIES ImplementsThreadMap RefusedOnlyUnderCrowding
