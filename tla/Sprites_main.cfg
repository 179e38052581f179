SPECIFICATION FairSpec
CONSTANTS
  a1 = a1
  a2 = a2
  k1 = k1
  k2 = k2
  Albums = {a1, a2}
  Keys = {k1, k2}
  Chunks <- MCShared
  Together <- MCTogether
  Requests = {r1}
  Workers = {w1}
  Checks = {d1, d2}
  MaxChanges = 1
  MaxCrashes = 1
  MaxFaults = 1
  MaxSweeps = 1
  MaxTroubles = 1
CONSTRAINT TwoOfOne
INVARIANTS
  TypeInvariant
  OwnChunksStay
  OwnerCanBeRetired
PROPERTIES
  RetiredIsDeleted
