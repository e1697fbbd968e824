SPECIFICATION Spec
CONSTANTS
  o1 = o1
  Writer = o1
  Keys = {k1}
  Owners = {o1, o2}
  Values = {0, 1}
  Null = Null
  Compacted = Compacted
  crStrategy <- MCOrdering
  iterationRank <- MCRank
  CanEncodeNull = FALSE
  Barriered = TRUE
  Monotone = TRUE
  MaxMessages = 2
  MaxCrashes = 0
  MaxCommits = 0
  MaxShutdowns = 0
  MaxLost = 0
INVARIANTS
  LastWordHolds
CHECK_DEADLOCK FALSE
