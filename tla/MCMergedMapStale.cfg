SPECIFICATION Spec
CONSTANTS
  k1 = k1
  k2 = k2
  o1 = o1
  o2 = o2
  low = low
  high = high
  high2 = high2
  Keys <- MCKeys
  Owners <- MCOwners
  Values <- MCValues
  Null = Null
  crStrategy <- MCOrdering
  iterationRank <- MCRank
  Subscribers = {s1}
  MonotoneKeys = {}
INVARIANTS
  WinnersAreWinning
CHECK_DEADLOCK FALSE
