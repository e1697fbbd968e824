SPECIFICATION FairSpec
CONSTANTS
  o1 = o1
  Writer = o1
  Keys = {k1}
  Owners = {o1, o2}
  Values = {0, 1}
  Null = Null
  Compacted = Compacted
  crStrategy <- MCOrdering
  iterationRank <- MCRank
  CanEncodeNull = TRUE
  Barriered = TRUE
  Monotone = TRUE
  MaxMessages = 3
  MaxCrashes = 0
  MaxCommits = 0
  MaxShutdowns = 1
  MaxLost = 1
INVARIANTS
  ReadsAllMessages
  LastWordHolds
PROPERTIES
  EventuallyAgree
CHECK_DEADLOCK FALSE
