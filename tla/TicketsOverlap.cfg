SPECIFICATION Spec
CONSTANTS
  i1 = i1  i2 = i2  a1 = a1  a2 = a2  a3 = a3  h1 = h1  h2 = h2
  pizza = pizza  burger = burger
  NULL = NULL
  Items = {i1}
  Approvals = {a1, a2}
  Handlers = {h1, h2}
  Dishes = {pizza, burger}
  QuickServe = FALSE
  Migrated = TRUE
  MayCrash = TRUE
\* The meal ends: every ticket is served or cancelled.
CHECK_DEADLOCK FALSE
INVARIANTS
  TypeOK
  StockFollowsCancellation
  ParkedHasPending
  OnePendingPerItem
SYMMETRY Interchangeable
