SPECIFICATION Spec
CONSTANTS
  Name = {a, b, c}
  Empty = Empty
  MAX_HISTORY = 4
  VIEW_HISTORY = 2
SYMMETRY Symmetry
INVARIANTS TypeOK PinsDistinct HeadNotPinned PlacesMatchSlots
PROPERTIES PinnedRecordsKeptByAdd ImplementsList
