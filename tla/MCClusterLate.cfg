SPECIFICATION Spec
CONSTANTS
  o1 = o1
  Writer = o1
  Keys = {k1}
  Owners = {o1, o2}
  Values = {0, 1}
  Null = Null
  Compacted = Compacted
  crStrategy <- MCOrdering
  iterationRank <- MCRank
  CanEncodeNull = TRUE
  Barriered = FALSE
  Monotone = TRUE
  MaxMessages = 1
  MaxCrashes = 0
  MaxCommits = 0
  MaxShutdowns = 0
  MaxLost = 0
INVARIANTS
  ReadsAllMessages
CHECK_DEADLOCK FALSE
