SPECIFICATION Spec
CONSTANTS
  w1 = w1  w2 = w2  w3 = w3  c1 = c1  c2 = c2  d1 = d1  d2 = d2  d3 = d3
  r1 = r1  r2 = r2  r3 = r3  r4 = r4  k1 = k1  k2 = k2
  NULL = NULL
  Migrated = TRUE
  Waiters = {w1, w2, w3}
  Cashiers = {}
  Drops = {d1}
  Requests = {r1, r2, r3}
  Keys = {k1, k2}
  KeyOf <- MCKeyOf
  Amounts = {0, 1}
  MaxCash = 1
\* The day ends: every shift is closed and every request used.
CHECK_DEADLOCK FALSE
INVARIANTS
  HandoverOnce
SYMMETRY Interchangeable
