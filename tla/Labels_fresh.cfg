SPECIFICATION FairSpec
CONSTANTS
  a1 = a1
  a2 = a2
  Albums <- OneAlbum
  Order <- OneInOrder
  Featured <- NoFeatured
  Workers = {w1, w2}
  Overlap = TRUE
  MaxChanges = 2
  MaxCrashes = 1
  MaxFaults = 1
  Keys <- MCPage
INVARIANTS
  TypeInvariant
  FreshUnlessOvertaken
PROPERTIES
  EveryPageCatchesUp
