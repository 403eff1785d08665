SPECIFICATION Spec
CONSTANTS
  MaxId = 2
  Old = {1}
  Pullers = {p1, p2}
  Counts = {2}
  Afters = {0}
  PollLimit = 1
  None = none
SYMMETRY Symmetry
INVARIANTS
  TypeOK
  PullsExclude
  BookmarkCovers
  PullsAreDisjoint
PROPERTY BookmarkOnlyGrows
