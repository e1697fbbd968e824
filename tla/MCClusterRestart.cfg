SPECIFICATION Spec
CONSTANTS
  o1 = o1
  Writer = o1
  Keys = {k1}
  Owners = {o1, o2}
  Values = {0, 1}
  Null = Null
  Compacted = Compacted
  crStrategy <- MCOrdering
  iterationRank <- MCRank
  CanEncodeNull = TRUE
  Barriered = FALSE
  Monotone = TRUE
  MaxMessages = 3
  MaxCrashes = 1
  MaxCommits = 1
  MaxShutdowns = 0
  MaxLost = 0
INVARIANTS
  HoldsSinceJoined
  ReplicasResolve
PROPERTIES
  NoRegression
CHECK_DEADLOCK FALSE
