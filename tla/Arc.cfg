SPECIFICATION Spec
CONSTANTS
  Pages = {p1, p2, p3, p4, p5, p6, p7}
  FrameCounts = {1, 2, 3}
SYMMETRY Symmetry
INVARIANTS
  TypeOk
  TagsMatchLists
  SizesWithinBounds
  ReplaceFindsVictim
  ListsAreRecencyOrdered
  RemembersRecentPages
PROPERTIES
  RefinesDemandPaging
  RefinesDirectory
