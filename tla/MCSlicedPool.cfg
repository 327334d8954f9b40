CONSTANTS
  PageSize = 6
  Alignment = 2
  MaxAllocSize = 4
  Sizes = {1, 4}
  MaxPages = 2
  MaxRefs = 2
SPECIFICATION MCSpec
INVARIANTS PoolInv LiveHandlesDisjoint MissesOnlyCursorPage
PROPERTIES LiveHandleStable ReservationAsAsked SearchEnds
