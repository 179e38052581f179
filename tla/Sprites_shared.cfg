SPECIFICATION Spec
CONSTANTS
  a1 = a1
  a2 = a2
  k1 = k1
  k2 = k2
  Albums = {a1}
  Keys = {k1, k2}
  Chunks <- MCShared
  Together <- MCTogether
  Requests = {r1}
  Workers = {w1}
  Checks = {d1}
  MaxChanges = 2
  MaxCrashes = 0
  MaxFaults = 0
  MaxSweeps = 0
  MaxTroubles = 0
INVARIANTS
  ReadyHasChunks
