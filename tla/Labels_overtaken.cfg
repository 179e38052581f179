SPECIFICATION Spec
CONSTANTS
  a1 = a1
  a2 = a2
  Albums <- OneAlbum
  Order <- OneInOrder
  Featured <- NoFeatured
  Workers = {w1}
  Overlap = TRUE
  MaxChanges = 2
  MaxCrashes = 0
  MaxFaults = 0
  Keys <- MCPage
INVARIANTS
  AlbumPageFollowsAlbum
