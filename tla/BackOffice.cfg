SPECIFICATION Spec
CONSTANTS
  Subjects = {"stays", "service", "outside", "staff", "floor", "platform", "website", "payroll",
              "leave", "guests", "finance", "menu", "portions", "alerts", "accounts",
              "selling", "money", "keeping", "dishes", "notices", "leads", "reviews",
              "schedule", "linking", "clock", "transfers", "archives",
              "kitchen", "depot", "asking", "pages", "tills"}
  OWNER = OWNER
  NULL = NULL
  Members = {"m1", "m2"}
  Roles = {"WAITER"}
  Pins = {"p1"}
  DiningTables = {"t1"}
  Shifts = {"s1"}
  WorkDays = {"Mon", "Tue"}
  Mon = "Mon"
  Managers = {"h1"}
  Runs = {"r1"}
  Payees = {"y1", "y2"}
  Wages = {1}
  Extras = {0, 1}
  Cuts = {0, 3}
  Actors = {"h1"}
  Types = {MANUAL, "t1"}
  MANUAL = MANUAL
  Leavers = {"y1"}
  Requests = {"q1", "q2"}
  MaxDays = 1
  Cameras = {"h1"}
  Profiles = {"f1", "f2"}
  Persons = {"y1"}
  Gap = 1
  LastScan = 2
  VipAt = 2
  VvipAt = 3
  Workers = {"m1"}
  Watches <- DayAndNight
  Hours = 6
  Zone = 1
  Near = 1
  WeekDays = 2
  LastHour = 17
  MaxPlans = 2
  Suites = {"r1"}
  Stays = {"y1", "y2"}
  Calls = {"k1", "k2"}
  Stewards = {"w1"}
  Nights = 2
  Caterings = {"x1"}
  Issues = {"i1", "i2"}
  MaxPieces = 2
  Items = {"i1"}
  Stations = {"s1"}
  Categories = {"c1"}
  Defaults = {}
  Modifiers = {"g1"}
  Takers = {"w1", "w2"}
  MaxLimits = 2
  MaxPortions = 2
  MaxLists = 1
  MaxGuests = 1
  Tickets = {"t1"}
  Sessions = {"s1"}
  UnackLimit = 1
  StaleLimit = 2
  IdleLimit = 1
  Target = 1
  Batch = 1
  LastTick = 3
  Hearers = {"m1", "m2"}
  Venues = {"b1"}
  Titles = {"WAITER", "CASHIER", "STATION", "MANAGER"}
  Events = {"e1"}
  MaxTold = 2
  Outlets = {"b1", "b2"}
  Boards = {"t1"}
  StandsIn <- Standing
  Seatings = {"v1", "v2"}
  Phones = {1}
  Heads = {"h1"}
  Reviews = {1, 2}
  Ratings = {1}
  Bills = {"b1", "b2"}
  Charged <- Totals
  Refs = {"r1", "r2"}
  Moved <- MovedBy
  Keys = {"k1", "k2", "k3", "k4"}
  Intent <- Intents
  Handlers = {1, 2}
  MaxTries = 4
INVARIANTS BackTypeOK HouseHolds PeopleHold PlatformHolds
CHECK_DEADLOCK FALSE
