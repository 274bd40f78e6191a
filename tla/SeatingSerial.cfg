SPECIFICATION Spec
CONSTANTS
  s1 = s1  s2 = s2  t1 = t1  room1 = room1  i1 = i1  i2 = i2  i3 = i3  a1 = a1  a2 = a2
  c1 = c1  c2 = c2  r1 = r1  h1 = h1  h2 = h2
  NULL = NULL
  Sessions = {s1, s2}
  Tables = {t1}
  Rooms = {room1}
  Items = {i1, i2, i3}
  BillAsks = {a1, a2}
  Collectors = {c1}
  Refs = {}
  Handlers = {h1}
  Bakery = FALSE
  VerifyEt = FALSE
  Migrated = TRUE
\* The evening ends: every session is closed and every ticket used.
CHECK_DEADLOCK FALSE
INVARIANTS
  BillCoversOrder
  ClosedSettled
  SeatedIsOccupied
  PaidSessionCloses
  RequestedOnce
  EmptyTableCloses
SYMMETRY Interchangeable
