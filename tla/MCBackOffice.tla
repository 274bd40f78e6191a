----------------------------- MODULE MCBackOffice -----------------------------
(***************************************************************************)
(* The components around the restaurant's core for TLC.  None of them      *)
(* shares a table the others decide on in this model, so that they take    *)
(* turns (Turns), and the states are the sum of the subjects' and not      *)
(* their product.                                                          *)
(***************************************************************************)
EXTENDS Integers, People, House

CONSTANTS Subjects, OWNER

(* A day and a night shift, types of ledger entries, the dishes served and *)
(* their recipes, the payments clients intend.                             *)
DayAndNight == {[start |-> 1, end |-> 3, grace |-> 0], [start |-> 4, end |-> 2, grace |-> 1]}
Movements == {"RECEIVE", "OPENING", "SALE_DEPLETE", "WASTE", "REVERSAL", "WASTE_REVERSAL", "TRANSFER_OUT",
              "COUNT_ADJUST"}
Served == {[price |-> 2, cost |-> 1, category |-> "c1", station |-> "k1", drink |-> FALSE],
           [price |-> 3, cost |-> 1, category |-> "c2", station |-> "k1", drink |-> TRUE]}
Intents == [k1 |-> [by |-> "w1", bill |-> "b1", ref |-> "r1", claim |-> 1],
            k2 |-> [by |-> "w2", bill |-> "b2", ref |-> "r1", claim |-> 1],
            k3 |-> [by |-> "w1", bill |-> "b1", ref |-> "r2", claim |-> 2],
            k4 |-> [by |-> "w1", bill |-> "b1", ref |-> "r2", claim |-> 1]]
Totals == [b1 |-> 2, b2 |-> 1]
MovedBy == [r1 |-> 2, r2 |-> 1]
Standing == [t1 |-> "b1"]
Portions == [d1 |-> [of |-> "g", qty |-> 1], d2 |-> [of |-> "g", qty |-> 2]]

Tenancies == INSTANCE Tenancy WITH Plans <- {"p1", "p2"}, MaxBranches <- 2, Names <- {"n1"},
  Data <- {"d1", "d2"}, OWNER <- OWNER, plan <- v1, tenant <- v2, sub <- v3, branch <- v4,
  person <- v5, site <- v6
Books == INSTANCE Finance WITH Clerks <- {"h1"}, Branches <- {"b1", "b2"}, Active <- {"b1"},
  Entries <- {"e1"}, Bills <- {"i1"}, Runs <- {"r1"}, Rows <- {"l1", "l2"}, MaxFacts <- 2,
  LastDay <- 2, MaxVersion <- 2, Kinds <- Movements, today <- v1, entry <- v2, bill <- v3,
  run <- v4, row <- v5, clerk <- v6
Logins == INSTANCE Accounts WITH Users <- {"u1"}, Emails <- {"e1", "e2"}, Sessions <- {"y1"},
  Browsers <- {"b1"}, Requests <- {"r1"}, MaxHash <- 3, user <- v1, mail <- v2, session <- v3,
  cookie <- v4, request <- v5, hashes <- v6, behind <- v7
Sums == INSTANCE Reports WITH Waiters <- {"w1"}, Shifts <- {1, 2}, Lines <- {1, 2},
  Dishes <- Served, Payments <- {1}, Amounts <- {1, 2}, Drops <- {1}, Asks <- {1, 2},
  Entries <- {1}, MaxDay <- 1, today <- v1, roster <- v2, shift <- v3, line <- v4, payment <- v5,
  drop <- v6, asked <- v7, entry <- v8
Cash == INSTANCE Reports WITH Waiters <- {"w1", "w2"}, Shifts <- {1, 2}, Lines <- {1, 2},
  Dishes <- Served, Payments <- {1}, Amounts <- {1, 2}, Drops <- {1}, Asks <- {1, 2},
  Entries <- {1}, MaxDay <- 1, today <- v1, roster <- v2, shift <- v3, line <- v4, payment <- v5,
  drop <- v6, asked <- v7, entry <- v8
Cards == INSTANCE MenuEngineering WITH Dishes <- {"d1", "d2"}, Price <- [d1 |-> 3, d2 |-> 4],
  Category <- [d1 |-> "c1", d2 |-> "c2"], Ingredients <- {"g"}, Recipe <- Portions, Costs <- {1, 2},
  ListCost <- [g |-> 0], Convertible <- {"d1", "d2"}, MaxQty <- 1, MaxBooked <- 2, MaxDay <- 2,
  DailyMax <- 1, Week <- 2, Cap <- 2, today <- v1, sold <- v2, bought <- v3, lost <- v4,
  active <- v5
Copies == INSTANCE Backup WITH Tenants <- {"t1"}, Chats <- {"c1"}, Jobs <- {1}, Hours <- 2,
  Midnight <- 0, Sunday <- 2, MaxStart <- 1, clock <- v1, settings <- v2, last <- v3, started <- v4,
  bot <- v5, seen <- v6, fetched <- v7, link <- v8, job <- v9, archive <- v10, data <- v11
Archives == INSTANCE Backup WITH Tenants <- {"t1"}, Chats <- {"c1"}, Jobs <- {1}, Hours <- 2,
  Midnight <- 2, Sunday <- 0, MaxStart <- 1, clock <- v1, settings <- v2, last <- v3, started <- v4,
  bot <- v5, seen <- v6, fetched <- v7, link <- v8, job <- v9, archive <- v10, data <- v11

Shelves == INSTANCE StockReports WITH Main <- "m", Stores <- {"b1", "b2"}, Goods <- {"g1", "g2"},
  Cost <- [g1 |-> 2, g2 |-> 3], Par <- [g1 |-> 1, g2 |-> 0], Dishes <- {"d1"}, Vendors <- {},
  Transfers <- {}, Drivers <- {}, Requests <- {}, Slots <- 2, Zone <- 1, Cap <- 1, MaxMoves <- 2,
  MaxTime <- 1, CENTRAL <- OWNER, now <- v1, open <- v2, good <- v3, shelf <- v4, ledger <- v5,
  transfer <- v6, request <- v7
Stocks == INSTANCE StockReports WITH Main <- "m", Stores <- {"b1"}, Goods <- {"g1"},
  Cost <- [g1 |-> 2], Par <- [g1 |-> 1], Dishes <- {}, Vendors <- {"v1"}, Transfers <- {"t1", "t2"},
  Drivers <- {"x1"}, Requests <- {"r1", "r2"}, Slots <- 2, Zone <- 1, Cap <- 1, MaxMoves <- 3,
  MaxTime <- 2, CENTRAL <- OWNER, now <- v1, open <- v2, good <- v3, shelf <- v4, ledger <- v5,
  transfer <- v6, request <- v7
Pages == INSTANCE Dashboard WITH Tables <- {"t1"}, Branches <- {{"t1"}}, Waiters <- {"w1"},
  Stations <- {"s1", "s2"}, Visits <- {"u1"}, Items <- {"i1"}, At <- [u1 |-> "t1"], By <- [u1 |-> "w1"],
  Of <- [i1 |-> "u1"], Guests <- [u1 |-> 2], Price <- [i1 |-> 1], Dish <- [i1 |-> "d1"],
  Station <- [i1 |-> "s2"], Quick <- {"s2"}, Ways <- {"CASH"}, Slots <- 2, Opens <- 0, Shuts <- 0,
  Week <- 2, Monday <- 1, Longest <- 2, Target <- 1, TooLong <- 1, Stale <- 2, Endless <- 2,
  MaxPayments <- 1, MaxTime <- 2, now <- v1, visit <- v2, item <- v3, bill <- v4, payment <- v5
Tills == INSTANCE Dashboard WITH Tables <- {"t1", "t2"}, Branches <- {{"t2"}, {"t1", "t2"}},
  Waiters <- {"w1", "w2"}, Stations <- {"s1"}, Visits <- {"u1", "u2"}, Items <- {"i1", "i2"},
  At <- [u1 |-> "t1", u2 |-> "t2"], By <- [u1 |-> "w1", u2 |-> "w2"], Of <- [i1 |-> "u1", i2 |-> "u2"],
  Guests <- [u1 |-> 1, u2 |-> 2], Price <- [i1 |-> 1, i2 |-> 2], Dish <- [i1 |-> "d1", i2 |-> "d2"],
  Station <- [i1 |-> "s1", i2 |-> "s1"], Quick <- {}, Ways <- {"CASH", "TELEBIRR"}, Slots <- 2,
  Opens <- 0, Shuts <- 0, Week <- 2, Monday <- 1, Longest <- 2, Target <- 1, TooLong <- 1, Stale <- 2,
  Endless <- 2, MaxPayments <- 2, MaxTime <- 2, now <- v1, visit <- v2, item <- v3, bill <- v4, payment <- v5

(* What the components assume of their constants.                           *)
ASSUME ConstantsOK ==
  /\ PeopleAssumption /\ OneAtATime /\ HouseAssumption /\ OnePhone /\ OneBatch
  /\ Tenancies!TenancyAssumption /\ Books!FinanceAssumption
  /\ Logins!AccountsAssumption /\ Sums!ReportsAssumption /\ Cash!ReportsAssumption
  /\ Cards!MenuEngineeringAssumption /\ Copies!BackupAssumption /\ Archives!BackupAssumption
  /\ Shelves!StockReportsAssumption /\ Stocks!StockReportsAssumption
  /\ Pages!DashboardAssumption /\ Tills!DashboardAssumption
-----------------------------------------------------------------------------
(* Who is told, by subject: staff without a manager, or managers and       *)
(* stations.                                                               *)
Told(staff) ==
  \A m \in Hearers :
    /\ subject = "notices" => staff[m].role # "MANAGER"
    /\ subject = "leads" => staff[m].role \in {"MANAGER", "STATION"}

(* A subject starts where its component does.                              *)
Init ==
  /\ subject \in Subjects
  /\ \/ PeopleInit
     \/ HouseInit /\ (subject \in {"notices", "leads"} => Told(v1))
     \/ subject \in {"platform", "website"} /\ Tenancies!Init /\ Null6
     \/ subject = "finance" /\ Books!Init /\ Null6
     \/ subject = "accounts" /\ Logins!Init /\ Null7
     \/ subject \in {"selling", "keeping"} /\ Sums!Init /\ Null8
     \/ subject = "money" /\ Cash!Init /\ Null8
     \/ subject = "dishes" /\ Cards!Init /\ Null5
     \/ subject \in {"schedule", "linking"} /\ Copies!Init
     \/ subject = "archives" /\ Archives!Init
     \/ subject = "kitchen" /\ Shelves!Init /\ Null7
     \/ subject \in {"depot", "asking"} /\ Stocks!Init /\ Null7
     \/ subject = "pages" /\ Pages!Init /\ Null5
     \/ subject = "tills" /\ Tills!Init /\ Null5

Next ==
  /\ UNCHANGED subject
  /\ \/ subject = "stays" /\ (Hotel!Housekeeping \/ Hotel!FrontDesk) /\ UNCHANGED after6
     \/ /\ subject = "service" /\ UNCHANGED after6
        /\ \/ Hotel!CreateRoom("r1", "w1") \/ Hotel!RoomService
           \/ \E y \in {"y1", "y2"} : Hotel!CheckOut(y) \/ Hotel!CheckIn(y, "r1", 2, 1, FALSE)
     \/ subject = "outside" /\ Outsides!Next /\ UNCHANGED after6
     \/ /\ subject = "staff" /\ UNCHANGED after6
        /\ \/ Staffs!Staff \/ Staffs!CreateShift("s1")
           \/ \E m \in {"m1", "m2"} : Staffs!SetWaiterCoverage(m, "s1", {"t1"}, "Mon")
           \/ Staffs!CreateLocation \/ Staffs!CreateTable("t1", NULL)
        /\ v1'["m2"] # Staffs!NoRow => ~v1'["m2"].history  \* only m1 has ever worked
     \/ /\ subject = "floor" /\ UNCHANGED after6
        /\ \/ Staffs!Floor
           \/ \E m \in {"m1", "m2"} :
                \/ \E week \in Staffs!Week : Staffs!CreateStaff("MANAGER", m, TRUE, "WAITER", "p1", week)
                \/ Staffs!Deactivate("MANAGER", m)
     \/ /\ subject = "platform" /\ (Tenancies!Platform \/ Tenancies!Owner) /\ UNCHANGED after6
        /\ v1'["p2"] # 2                              \* the second plan is the small one
        /\ v4'[1] # Tenancies!NoRow => ~v4'[1].rush   \* and the second branch the one that rushes
     \/ /\ subject = "website" /\ UNCHANGED after6
        /\ \/ \E p \in {"p1", "p2"} : Tenancies!CreatePlan(p, 2) \/ Tenancies!CreateTenant(p, "RESTAURANT")
           \/ Tenancies!CreateBranch("RESTAURANT", NULL, "LISTED")
           \/ \E b \in {1, 2} : Tenancies!UpdateBranch(b, "ACTIVE", "RESTAURANT")
           \/ \E b \in {1, 2} : Tenancies!UpdateBranch(b, "INACTIVE", "RESTAURANT")
           \/ \E b \in {1, 2}, w \in Tenancies!People : Tenancies!SwitchBranch(w, b)
           \/ Tenancies!Web
     \/ /\ OfficeNext                                 \* the second request for leave names t1
        /\ subject = "leave" /\ v3'["q2"] # Leaves!NoRow => v3'["q2"].type # MANUAL
     \/ /\ subject = "finance" /\ Books!Next /\ UNCHANGED after6
        /\ v5'["l2"] # Books!NoRow => v5'["l1"] # Books!NoRow  \* ids are given out in order
     \/ subject = "menu" /\ (Menus!Managing \/ Menus!Editing) /\ UNCHANGED after8
     \/ /\ subject = "portions" /\ UNCHANGED after8
        /\ \/ Menus!CreateStation("s1", "ACTIVE") \/ Menus!Create("i1", "s1", "c1", {}, {}, FALSE)
           \/ Menus!Limiting \/ Menus!Ordering \/ Menus!Toggle86("i1") \/ Menus!Delete("i1")
           \/ \E sold \in BOOLEAN : Menus!MarkSoldOut("i1", sold)
     \/ /\ subject = "alerts" /\ Alarms!Next /\ UNCHANGED after6
        /\ v2'["t1"] = Alarms!NoTicket \/ v6'["s1"] = Alarms!NoSeat  \* they share the clock alone
     \/ subject = "accounts" /\ Logins!Next /\ UNCHANGED after7
     \/ /\ subject = "selling" /\ Sums!Selling /\ UNCHANGED after8
        /\ v3'[2] # Sums!None => v3'[1] # Sums!None  \* ids are given out in order
        /\ v4'[2] # Sums!None => v4'[1] # Sums!None
        /\ v4'[2].state # "CANCELLED"                 \* one item is cancelled at most
     \/ subject = "money" /\ Cash!Money /\ UNCHANGED after8
     \/ subject = "keeping" /\ Sums!Keeping /\ UNCHANGED after8
     \/ /\ subject = "dishes" /\ (Cards!Trading \/ Cards!Toggle("d1")) /\ UNCHANGED after5
        /\ v1 = 2 => v4' = v4                         \* nothing is lost on the last day
     \/ /\ subject \in {"notices", "leads"} /\ Tellings!Next /\ UNCHANGED after5 /\ Told(v1')
        /\ subject = "notices" => v1'["m2"] = v1["m2"]  \* m1 may leave or change, m2 keeps the job
     \/ /\ subject = "reviews" /\ Opinions!Next /\ UNCHANGED after6
        /\ "b1" \in v1' /\ (v2'["t1"] = "v2" => "v1" \in v3')  \* v2 sits down after v1
     \/ subject = "schedule" /\ Copies!Scheduling
     \/ subject = "linking" /\ Copies!Linking
     \/ subject = "transfers" /\ Wires!Next /\ UNCHANGED after9
     \/ subject = "archives" /\ Archives!Archiving
     \/ /\ subject = "kitchen" /\ UNCHANGED after7
        /\ \/ Shelves!Stocking("b1") \/ Shelves!Serving("b1") \/ Shelves!Clearing
           \/ Shelves!OpenStore("b2") \/ Shelves!Receive("b2", "g2", 2, NULL)
     \/ subject = "depot" /\ Stocks!Depot /\ UNCHANGED after7
     \/ subject = "asking" /\ Stocks!Asking /\ UNCHANGED after7
     \/ subject = "pages" /\ Pages!Next /\ UNCHANGED after5
     \/ /\ subject = "tills" /\ (Tills!Sitting \/ Tills!Charging) /\ UNCHANGED after5
        /\ \A i \in DOMAIN v5' : v5'[i].visit = "u1" => v5'[i].way = "CASH"  \* one who pays cash

Spec == Init /\ [][Next]_vars
-----------------------------------------------------------------------------
(* The tables of a subject have their types.                               *)
BackTypeOK ==
  /\ PeopleTypeOK /\ HouseTypeOK
  /\ subject \in {"platform", "website"} => Tenancies!TypeOK
  /\ subject = "finance" => Books!TypeOK
  /\ subject = "accounts" => Logins!TypeOK
  /\ subject \in {"selling", "keeping"} => Sums!TypeOK
  /\ subject = "money" => Cash!TypeOK
  /\ subject = "dishes" => Cards!TypeOK
  /\ subject \in {"schedule", "linking"} => Copies!TypeOK
  /\ subject = "archives" => Archives!TypeOK
  /\ subject = "kitchen" => Shelves!TypeOK
  /\ subject \in {"depot", "asking"} => Stocks!TypeOK
  /\ subject = "pages" => Pages!TypeOK
  /\ subject = "tills" => Tills!TypeOK

(* What the platform owes its tenants: branches and sites belong together, *)
(* reports agree with each other, sign-ins and backups hold.               *)
PlatformHolds ==
  /\ subject \in {"platform", "website"} => Tenancies!TenancyHolds
  /\ subject = "finance" => Books!FinanceHolds
  /\ subject = "accounts" => Logins!CookieIsCurrent
  /\ subject = "accounts" => Logins!EmailsDiffer
  /\ subject \in {"selling", "keeping"} => Sums!ReportsAgree
  /\ subject = "money" => Cash!ReportsAgree
  /\ subject = "dishes" => Cards!AnalysisHolds
  /\ subject \in {"schedule", "linking"} => Copies!BackupsHold
  /\ subject = "archives" => Archives!BackupsHold
  /\ subject = "kitchen" => Shelves!KitchenReportsHold
  /\ subject \in {"depot", "asking"} => Stocks!DepotReportsHold
  /\ subject = "pages" => Pages!DashboardHolds
  /\ subject = "tills" => Tills!ChargingHolds
===============================================================================
