SPECIFICATION FairSpec
CONSTANTS
  w1 = w1  w2 = w2  w3 = w3  c1 = c1  c2 = c2  d1 = d1  d2 = d2  d3 = d3
  r1 = r1  r2 = r2  r3 = r3  r4 = r4  k1 = k1  k2 = k2
  NULL = NULL
  Migrated = FALSE
  Waiters = {w1}
  Cashiers = {c1}
  Drops = {d1, d2, d3}
  Requests = {r1, r2, r3}
  Keys = {k1, k2}
  KeyOf <- MCKeyOf
  Amounts = {1, 2}
  MaxCash = 2
\* The day ends: every shift is closed and every request used.
CHECK_DEADLOCK FALSE
INVARIANT
  DisputedIsOpen
PROPERTIES
  ResolutionReceives
  ForceCloses
