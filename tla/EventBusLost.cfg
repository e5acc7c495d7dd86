SPECIFICATION ReliableSpec
CONSTANTS
  w1 = w1
  w2 = w2
  r1 = r1
  r2 = r2
  e1 = e1
  NULL = NULL
  NoRow = NoRow
  Unset = Unset
  EventIds = {e1}
  Requests = {r1}
  Editors = {a1}
  MaxSub = 3
  Bodies <- LostBodies
  NewSubs <- LostNewSubs
  Changes = {}
INVARIANTS
  StoredEventsAreLogged
CHECK_DEADLOCK FALSE
