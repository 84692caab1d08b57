\* Two pollers of a feed or a manifest, or one of a feed that is not revised.
SPECIFICATION MCSpec
CONSTANTS
  p1 = p1
  p2 = p2
  Names = {1, 2, 3, 4}
  Dates = {1, 2}
  Texts = {0, 1}
  Limit = 2
  None = None
  Pollers = {p1, p2}
  Watermarks = {1}
  Published <- AllEntries
INVARIANTS
  FeedInv
  NothingSkipped
PROPERTIES
  CursorNeverGoesBack
  JamIsStable
  AloneCollectsAll
