SPECIFICATION StoreSpec
CONSTANTS
  Subjects = {"supply", "counting", "cooking", "listing"}
  b1 = b1  b2 = b2  t1 = t1  t2 = t2  g1 = g1
  Mains = {m1}
  Stores = {b1, b2}
  Transfers = {t1, t2}
  Requests = {r1}
  Drivers = {d1}
  Handlers = {h1}
  MaxReceived = 2
  AutoApprove = FALSE
  Goods = {g1, g2}
  Store = Store
  Main = Main
  Sales = {o1}
  Crate = 2
  MaxMoves = 4
  MaxTests = 1
  NULL = NULL
  Unset = Unset
SYMMETRY Interchangeable
INVARIANTS TypesOK StockConserved ShipsOnce OffIsSettled BalanceIsBooked
CHECK_DEADLOCK FALSE
