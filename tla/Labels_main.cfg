SPECIFICATION Spec
CONSTANTS
  a1 = a1
  a2 = a2
  Albums <- TwoAlbums
  Order <- TwoInOrder
  Featured <- FeaturedA2
  Workers = {w1}
  Overlap = TRUE
  MaxChanges = 1
  MaxCrashes = 0
  MaxFaults = 0
  Keys <- MCParts
INVARIANTS
  FreshUnlessOvertaken
  NoLeftoverLabels
