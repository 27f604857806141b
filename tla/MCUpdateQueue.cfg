CONSTANTS
  Capacity = 3
  Updates = {u1, u2, u3}
  Empty = Empty
SPECIFICATION Spec
INVARIANTS OccupiedSlots
PROPERTY KeepsLatest
