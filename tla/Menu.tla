-------------------------------- MODULE Menu --------------------------------
(***************************************************************************)
(* The menu of one branch and what of it can be ordered: preparation       *)
(* stations and portion limits (src/stations/stations.service.ts), items,  *)
(* categories and modifier groups as the manager's screens edit them       *)
(* (src/menu, src/catalog), the part of orders.service.confirmOrder that   *)
(* checks availability and takes the portions, and what a guest sees and   *)
(* orders from the QR code on the table (src/qr-menu).                     *)
(*                                                                         *)
(* An order reads items and limits before its transaction; order[w] holds  *)
(* what it read.  Every other operation is one write or one transaction.   *)
(***************************************************************************)
EXTENDS Integers, Sequences, FiniteSets

CONSTANTS Items,      \* menu_items
          Stations,   \* preparation_stations
          Categories, \* names of menu_categories
          Defaults,   \* the names resolveMenu creates with a new menu
          Groups,     \* modifier_groups
          Waiters,    \* orders being confirmed at the same time
          MaxLimits,  \* bound: rows of item_availability_overrides
          MaxQty,     \* bound: portions of a limit or an order
          MaxLists,   \* bound: times the options of a group are replaced
          MaxGuests,  \* bound: portions guests order while a limit is open
          NULL        \* the SQL null

(* What the constants are.                                                 *)
MenuAssumption ==
  /\ Defaults \subseteq Categories /\ {MaxLimits, MaxQty, MaxLists, MaxGuests} \subseteq Nat
  /\ NULL \notin Categories \cup Items

VARIABLES
  menu,       \* whether the branch has an ACTIVE menu
  station,    \* status of each station
  category,   \* the categories there are
  item,       \* table menu_items, with the assigned groups
  group,      \* table modifier_groups, with how often its options were replaced
  limit,      \* table item_availability_overrides, in the order of creation
  ordered,    \* stations some order item was ever sent to
  order       \* the orders being confirmed, with what each has read
vars == <<menu, station, category, item, group, limit, ordered, order>>
kitchen == <<station, limit, ordered>>
card == <<menu, category, group>>
-----------------------------------------------------------------------------
Status == {"NONE", "ACTIVE", "INACTIVE"}
NoItem == [status |-> "NONE"]
NoGroup == [status |-> "NONE", list |-> 0]
Group == [status : Status, list : 0..MaxLists]
Idle == [at |-> "idle"]
Item == [status : {"ACTIVE", "INACTIVE"}, soldOut : BOOLEAN, station : Stations,
         category : Categories \cup {NULL}, groups : SUBSET Groups]
(* "sold" counts the portions of orders confirmed against the limit and    *)
(* "guests" those ordered by QR code while it was open; no column holds    *)
(* them.                                                                   *)
Limit == [item : Items, state : {"SOLD_OUT", "LIMITED"}, initial : 0..MaxQty, left : Int,
          open : BOOLEAN, sold : Nat, guests : 0..MaxGuests]

TypeOK ==
  /\ menu \in BOOLEAN /\ station \in [Stations -> Status] /\ category \subseteq Categories
  /\ item \in [Items -> Item \cup {NoItem}]
  /\ group \in [Groups -> Group]
  /\ limit \in Seq(Limit) /\ ordered \subseteq Stations
  /\ order \in [Waiters -> {Idle} \cup
       [at : {"take"}, item : Items, qty : 1..MaxQty, limit : 0..MaxLimits, station : Stations]]

Init ==
  /\ menu = FALSE /\ station = [s \in Stations |-> "NONE"] /\ category = {}
  /\ item = [i \in Items |-> NoItem] /\ group = [g \in Groups |-> NoGroup]
  /\ limit = <<>> /\ ordered = {} /\ order = [w \in Waiters |-> Idle]

Exists(i) == item[i] # NoItem
Listed(i) == Exists(i) /\ item[i].status = "ACTIVE"
(* The latest override of an item that has not ended, 0 for none.          *)
Open(i) == LET rows == {n \in DOMAIN limit : limit[n].item = i /\ limit[n].open} IN
             IF rows = {} THEN 0 ELSE CHOOSE n \in rows : \A k \in rows : k <= n
(* resolveMenu: the first edit creates the menu and its categories.        *)
Menued == IF menu THEN category ELSE category \cup Defaults
-----------------------------------------------------------------------------
(* Stations.  A code that is taken gets a suffix on creation and a refusal *)
(* on update; catalog.service creates a station it cannot find by its code *)
(* or name.                                                                *)
CreateStation(s, status) ==
  /\ station[s] = "NONE" /\ station' = [station EXCEPT ![s] = status]
  /\ UNCHANGED <<card, item, limit, ordered, order>>
UpdateStation(s, status) ==
  /\ station[s] # "NONE" /\ station' = [station EXCEPT ![s] = status]
  /\ UNCHANGED <<card, item, limit, ordered, order>>
(* A station with items or tickets is only switched off.                   *)
Backed(s) == s \in ordered \/ \E i \in Items : Exists(i) /\ item[i].station = s
DeleteStation(s) ==
  /\ station[s] # "NONE"
  /\ station' = [station EXCEPT ![s] = IF Backed(s) THEN "INACTIVE" ELSE "NONE"]
  /\ UNCHANGED <<card, item, limit, ordered, order>>

(* What a station may say of an item of its own.                           *)
StationItem(i) == Listed(i) /\ station[item[i].station] = "ACTIVE"
Ended(i) == [n \in DOMAIN limit |-> [limit[n] EXCEPT !.open = @ /\ limit[n].item # i]]
NewLimit(i, state, qty) ==
  [item |-> i, state |-> state, initial |-> qty, left |-> qty, open |-> TRUE, sold |-> 0,
   guests |-> 0]
ApplySoldOutOverride(i) ==
  /\ limit' = Append(Ended(i), NewLimit(i, "SOLD_OUT", 0))
  /\ item' = [item EXCEPT ![i].soldOut = TRUE]
ApplyLimitedOverride(i, qty) ==
  /\ limit' = Append(Ended(i), NewLimit(i, "LIMITED", qty))
  /\ item' = [item EXCEPT ![i].soldOut = FALSE]
ClearAvailabilityOverrides(i) ==
  /\ limit' = Ended(i) /\ item' = [item EXCEPT ![i].soldOut = FALSE]

(* markStationItemSoldOut(true), and reportCannotPrepare with markSoldOut. *)
MarkStationItemSoldOut(i) ==
  /\ StationItem(i) /\ Len(limit) < MaxLimits /\ ApplySoldOutOverride(i)
  /\ UNCHANGED <<card, station, ordered, order>>
ClearStationItemLimit(i) ==
  /\ StationItem(i) /\ ClearAvailabilityOverrides(i)
  /\ UNCHANGED <<card, station, ordered, order>>
SetStationItemLimit(i, qty) ==
  /\ StationItem(i) /\ Len(limit) < MaxLimits
  /\ IF qty = 0 THEN ApplySoldOutOverride(i) ELSE ApplyLimitedOverride(i, qty)
  /\ UNCHANGED <<card, station, ordered, order>>
-----------------------------------------------------------------------------
(* Groups.  createInlineGroups makes the groups of "fresh"; an edit of a   *)
(* group retires its options and creates new ones.                         *)
CreateInlineGroups(fresh) ==
  group' = [g \in Groups |-> IF g \in fresh THEN [status |-> "ACTIVE", list |-> 0] ELSE group[g]]
Unused(fresh) == \A g \in fresh : group[g] = NoGroup
CreateModifierGroup(g) ==
  /\ group[g] = NoGroup /\ CreateInlineGroups({g})
  /\ menu' = TRUE /\ category' = Menued /\ UNCHANGED <<kitchen, item, order>>
UpdateModifierGroup(g) ==
  /\ group[g] # NoGroup /\ group[g].list < MaxLists
  /\ group' = [group EXCEPT ![g].list = @ + 1]
  /\ UNCHANGED <<menu, category, kitchen, item, order>>
DeleteModifierGroup(g) ==
  /\ group[g] # NoGroup /\ group' = [group EXCEPT ![g].status = "INACTIVE"]
  /\ UNCHANGED <<menu, category, kitchen, item, order>>
RequireModifierGroupIds(gs) == \A g \in gs : group[g].status = "ACTIVE"

(* Categories.  Deleting one leaves its items without (ON DELETE SET NULL).*)
CreateCategory(c) ==
  /\ menu' = TRUE /\ category' = category \cup {c}
  /\ UNCHANGED <<group, kitchen, item, order>>
DeleteCategory(c) ==
  /\ c \in category /\ category' = category \ {c}
  /\ item' = [i \in Items |-> IF Exists(i) /\ item[i].category = c
                              THEN [item[i] EXCEPT !.category = NULL] ELSE item[i]]
  /\ UNCHANGED <<menu, group, kitchen, order>>

(* Items.  A category that is named but not there is created; menu.service *)
(* wants an ACTIVE station, catalog.service any.  importScanned creates    *)
(* one item after the other.                                               *)
ResolveCategoryId(c) == category' = Menued \cup ({c} \ {NULL})
Create(i, s, c, gs, fresh, soldOut) ==
  /\ item[i] = NoItem /\ station[s] = "ACTIVE"
  /\ RequireModifierGroupIds(gs) /\ Unused(fresh)
  /\ menu' = TRUE /\ ResolveCategoryId(c) /\ CreateInlineGroups(fresh)
  /\ item' = [item EXCEPT ![i] = [status |-> "ACTIVE", soldOut |-> soldOut, station |-> s,
                                  category |-> c, groups |-> gs \cup fresh]]
  /\ UNCHANGED <<kitchen, order>>
CatalogCreate(i, s, c, fresh, soldOut) ==
  /\ item[i] = NoItem /\ Unused(fresh)
  /\ station' = [station EXCEPT ![s] = IF @ = "NONE" THEN "ACTIVE" ELSE @]
  /\ menu' = TRUE /\ category' = category \cup ({c} \ {NULL}) /\ CreateInlineGroups(fresh)
  /\ item' = [item EXCEPT ![i] = [status |-> "ACTIVE", soldOut |-> soldOut, station |-> s,
                                  category |-> c, groups |-> fresh]]
  /\ UNCHANGED <<limit, ordered, order>>
(* What the request leaves out keeps its value; groups that are given      *)
(* replace those assigned.                                                 *)
Update(i, s, c, gs, soldOut) ==
  /\ Exists(i) /\ (s # item[i].station => station[s] = "ACTIVE")
  /\ (gs # item[i].groups => RequireModifierGroupIds(gs))
  /\ category' = category \cup ({c} \ {NULL})
  /\ item' = [item EXCEPT ![i] = [@ EXCEPT !.station = s, !.category = c, !.groups = gs,
                                           !.soldOut = soldOut]]
  /\ UNCHANGED <<menu, group, kitchen, order>>
CatalogUpdate(i, s, soldOut) ==
  /\ Exists(i) /\ station' = [station EXCEPT ![s] = IF @ = "NONE" THEN "ACTIVE" ELSE @]
  /\ item' = [item EXCEPT ![i] = [@ EXCEPT !.station = s, !.soldOut = soldOut]]
  /\ UNCHANGED <<card, limit, ordered, order>>
MarkSoldOut(i, soldOut) ==
  /\ Exists(i) /\ item' = [item EXCEPT ![i].soldOut = soldOut]
  /\ UNCHANGED <<card, kitchen, order>>
Toggle86(i) == Exists(i) /\ MarkSoldOut(i, ~item[i].soldOut)
Delete(i) ==
  /\ Exists(i) /\ item' = [item EXCEPT ![i].status = "INACTIVE"]
  /\ UNCHANGED <<card, kitchen, order>>
-----------------------------------------------------------------------------
(* What waiterMenu, listStationMenu and catalog.service.list show.         *)
OutOfStock(i) ==
  \/ item[i].soldOut
  \/ Open(i) # 0 /\ (limit[Open(i)].state = "SOLD_OUT" \/ limit[Open(i)].left = 0)
WaiterMenu == {i \in Items : StationItem(i) /\ ~OutOfStock(i)}
ListStationMenu(s) ==
  {i \in Items : Listed(i) /\ item[i].station = s /\ ~item[i].soldOut
                 /\ (Open(i) # 0 => limit[Open(i)].state = "SOLD_OUT" \/ limit[Open(i)].left > 0)}
CatalogList == {i \in Items : Listed(i) /\ ~item[i].soldOut}

(* confirmOrder reads the item and its limit and refuses what it shows to  *)
(* be out;                                                                 *)
ConfirmLoad(w, i, qty) ==
  /\ order[w] = Idle /\ i \in WaiterMenu
  /\ (Open(i) # 0 => qty <= limit[Open(i)].left)
  /\ order' = [order EXCEPT ![w] = [at |-> "take", item |-> i, qty |-> qty, limit |-> Open(i),
                                    station |-> item[i].station]]
  /\ UNCHANGED <<card, kitchen, item>>
(* its transaction takes the portions of the limit it read, if that many   *)
(* are left, and marks the item sold out with the last.                    *)
(* Mutant: some are left.                                                  *)
EnoughRead(n, qty) == limit[n].left > 0
EnoughLeft(n, qty) == limit[n].left >= qty
ConfirmCommit(w) ==
  LET o == order[w] n == o.limit IN
  /\ o.at = "take" /\ order' = [order EXCEPT ![w] = Idle] /\ UNCHANGED <<card, station>>
  /\ \/ n = 0 /\ ordered' = ordered \cup {o.station} /\ UNCHANGED <<limit, item>>
     \/ /\ n # 0 /\ EnoughLeft(n, o.qty)
        /\ limit' = [limit EXCEPT ![n].left = @ - o.qty, ![n].sold = @ + o.qty]
        /\ item' = [item EXCEPT ![o.item].soldOut = @ \/ limit'[n].left = 0]
        /\ ordered' = ordered \cup {o.station}
     \/ n # 0 /\ ~EnoughLeft(n, o.qty) /\ UNCHANGED <<limit, item, ordered>>

(* What a guest is shown, and his order: it looks at the item and at its   *)
(* station, not at the kitchen's limits, and takes nothing from them.      *)
GuestMenu ==
  {i \in Items : Listed(i) /\ ~item[i].soldOut /\ (station[item[i].station] = "ACTIVE" \/ menu)}
(* The tabs above it: categories with an item shown, NULL is "Other".      *)
GuestCategories == {item[i].category : i \in GuestMenu}
SubmitGuestOrder(i) ==
  /\ StationItem(i) /\ ~item[i].soldOut
  /\ ordered' = ordered \cup {item[i].station}
  /\ (Open(i) # 0 => limit[Open(i)].guests < MaxGuests)
  /\ limit' = [n \in DOMAIN limit |->
                 IF n = Open(i) THEN [limit[n] EXCEPT !.guests = @ + 1] ELSE limit[n]]
  /\ UNCHANGED <<card, station, item, order>>
-----------------------------------------------------------------------------
Managing ==
  \/ \E s \in Stations : DeleteStation(s)
       \/ \E st \in {"ACTIVE", "INACTIVE"} : CreateStation(s, st) \/ UpdateStation(s, st)
  \/ \E g \in Groups : CreateModifierGroup(g) \/ UpdateModifierGroup(g) \/ DeleteModifierGroup(g)
  \/ \E c \in Categories : CreateCategory(c) \/ DeleteCategory(c)
Editing ==
  \E i \in Items :
    \/ \E s \in Stations, c \in Categories, gs, fresh \in SUBSET Groups, b \in BOOLEAN :
         Create(i, s, c, gs, fresh, b) \/ CatalogCreate(i, s, c, fresh, b)
    \/ \E s \in Stations, c \in Categories \cup {NULL}, gs \in SUBSET Groups, b \in BOOLEAN :
         \/ Exists(i) /\ (c = NULL => item[i].category = NULL) /\ Update(i, s, c, gs, b)
         \/ CatalogUpdate(i, s, b)
    \/ \E b \in BOOLEAN : MarkSoldOut(i, b)
    \/ Toggle86(i) \/ Delete(i)
Limiting ==
  \E i \in Items : \/ MarkStationItemSoldOut(i) \/ ClearStationItemLimit(i)
                   \/ \E qty \in 0..MaxQty : SetStationItemLimit(i, qty)
Ordering ==
  \/ \E w \in Waiters : ConfirmCommit(w) \/ \E i \in Items, qty \in 1..MaxQty : ConfirmLoad(w, i, qty)
  \/ \E i \in Items : SubmitGuestOrder(i)
Next == Managing \/ Editing \/ Limiting \/ Ordering

Spec == Init /\ [][Next]_vars
-----------------------------------------------------------------------------
(* Waiters never have more portions confirmed against a limit than the     *)
(* kitchen set it to, and what the limit says is left is what was not      *)
(* confirmed: the conditional decrement makes good for the availability    *)
(* read before the transaction, with any number of orders at once.         *)
NotOversold ==
  \A n \in DOMAIN limit : limit[n].state = "LIMITED" =>
    limit[n].sold <= limit[n].initial /\ limit[n].left = limit[n].initial - limit[n].sold

(* Not so for guests: what they order by QR code is in nobody's count.     *)
GuestsKeepToTheLimit ==
  \A n \in DOMAIN limit : limit[n].state = "LIMITED" => limit[n].sold + limit[n].guests <= limit[n].initial

(* What the manager's catalog shows as available can be ordered.  Refuted: *)
(* markSoldOut, update and toggle86 leave the station's override open, and *)
(* the list looks at neither it nor the station's status.  Nor can a guest *)
(* order all that GuestMenu shows.                                         *)
ShownIsOrderable == CatalogList \subseteq WaiterMenu
=============================================================================
