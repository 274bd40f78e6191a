SPECIFICATION Spec
CONSTANTS
  s1 = s1  s2 = s2  t1 = t1  room1 = room1  i1 = i1  i2 = i2  i3 = i3  a1 = a1  a2 = a2
  c1 = c1  c2 = c2  r1 = r1  h1 = h1  h2 = h2
  NULL = NULL
  Sessions = {s1, s2}
  Tables = {t1}
  Rooms = {}
  Items = {i1, i2}
  BillAsks = {a1}
  Collectors = {c1}
  Refs = {r1}
  Handlers = {h1, h2}
  Bakery = TRUE
  VerifyEt = TRUE
  Migrated = TRUE
\* The evening ends: every session is closed and every ticket used.
CHECK_DEADLOCK FALSE
INVARIANTS
  TypeOK
  PaidMatchesPayments
  PaidSessionHasPaidBill
  TransferOneBill
SYMMETRY Interchangeable
VIEW Future
