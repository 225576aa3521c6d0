\* Two plugins that route the same function and keep what they find there.
CONSTANTS
  AddressSpace = 8
  Junk = Junk
  Plugins = {p1, p2}
  Incompatible = {}
  Matched = {}
  Keepers = {}
  Elem = {e1, e2}
  MULs = {1}
  Forced = {}
  NumRequests = 1
  Found <- MCFound
  Images <- MCImages
  NoImage = NoImage
  Nobody = Nobody
  Original = Original
  NoOrg = NoOrg
  Replacing = {}
SPECIFICATION Spec
INVARIANT RoutesReachOriginal
CHECK_DEADLOCK FALSE
