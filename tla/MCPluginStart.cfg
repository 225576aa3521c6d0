\* Two plugins that register, one of them with an evector, and one Lilu is too old for.
CONSTANTS
  AddressSpace = 8
  Junk = Junk
  Plugins = {p1, p2, p3}
  Incompatible = {p3}
  Matched = {p2}
  Keepers = {p1}
  Elem = {e1, e2}
  MULs = {1, 2}
  Forced = {p2}
  NumRequests = 2
  Found <- MCFound
  Images <- MCImages
  NoImage = NoImage
  Nobody = Nobody
  Original = Original
  NoOrg = NoOrg
  Replacing = {p2}
SPECIFICATION MCSpec
INVARIANTS TypeOK CallbacksLive NeverTooLate StorageSound SolvedUnlessForced ErrorsCleared
PROPERTIES StoresOnlyImageAddresses RoutesBreakOnlyTwice ImplementsHeldSequence LoadReturns RefusedUnloaded
\* A panic stops the machine.
CHECK_DEADLOCK FALSE
