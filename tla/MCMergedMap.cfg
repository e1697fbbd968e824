SPECIFICATION Spec
CONSTANTS
  k1 = k1
  k2 = k2
  o1 = o1
  o2 = o2
  low = low
  high = high
  high2 = high2
  Keys <- MCKeys
  Owners <- MCOwners
  Values <- MCValues
  Null = Null
  crStrategy <- MCOrdering
  iterationRank <- MCRank
  Subscribers = {s1, s2}
  MonotoneKeys = {k1}
SYMMETRY MCSymmetry
INVARIANTS
  TypeOK
  SizeTolerance
  ExposedIffOpinion
  NoOpinionBeatsWinner
  SubscribersInStep
  MonotoneKeysResolve
PROPERTIES
  ImplementsPromise
CHECK_DEADLOCK FALSE
