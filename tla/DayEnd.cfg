SPECIFICATION Spec
CONSTANTS
  Subjects = {"till", "day"}
  c1 = c1  s1 = s1
  Cashiers = {c1, c2}
  Shifts = {s1, s2}
  Handlers = {h1}
  MaxCash = 1
  Migrated = TRUE
  Days = 2
  Seats = {x1}
  MaxPaid = 2
  NULL = NULL
INVARIANTS CloseTypeOK NothingUncounted OneCashier 
CHECK_DEADLOCK FALSE
