-------------------------------- MODULE House ---------------------------------
(***************************************************************************)
(* The subjects that are about the guests of the house and what they are   *)
(* served: RoomStays, OutsideOrders, Menu, Alerts, Notices, Feedback and   *)
(* BankTransfers, for any values of their constants.                       *)
(***************************************************************************)
EXTENDS Integers, FiniteSets, Turns

CONSTANTS
  Suites, Stays, Calls, Stewards, Nights,                            \* of RoomStays
  Caterings, Issues, MaxPieces,                                      \* of OutsideOrders
  Items, Stations, Categories, Defaults, Modifiers, Takers,          \* of Menu
  MaxLimits, MaxPortions, MaxLists, MaxGuests,
  Tickets, Sessions, UnackLimit, StaleLimit, IdleLimit, Target, Batch, LastTick, \* of Alerts
  Hearers, Venues, Titles, Events, MaxTold,                          \* of Notices
  Outlets, Boards, StandsIn, Seatings, Phones, Heads, Reviews, Ratings, \* of Feedback
  Bills, Charged, Refs, Moved, Keys, Intent, Handlers, MaxTries      \* of BankTransfers

Hotel == INSTANCE RoomStays WITH Rooms <- Suites, Waiters <- Stewards, room <- v1, stay <- v2,
  call <- v3, coverage <- v4, breakfast <- v5, today <- v6
Outsides == INSTANCE OutsideOrders WITH Outside <- Caterings, MaxQty <- MaxPieces, outside <- v1,
  issue <- v2, material <- v3, balance <- v4, owned <- v5, lapse <- v6
Menus == INSTANCE Menu WITH Groups <- Modifiers, Waiters <- Takers, MaxQty <- MaxPortions,
  menu <- v1, station <- v2, category <- v3, item <- v4, group <- v5, limit <- v6, ordered <- v7,
  order <- v8
Alarms == INSTANCE Alerts WITH MaxTime <- LastTick, now <- v1, ticket <- v2, job <- v3,
  worker <- v4, monitor <- v5, seat <- v6
Tellings == INSTANCE Notices WITH Members <- Hearers, Branches <- Venues, Roles <- Titles,
  staff <- v1, screen <- v2, inbox <- v3, task <- v4, told <- v5
Opinions == INSTANCE Feedback WITH Branches <- Outlets, Tables <- Boards, At <- StandsIn,
  Visits <- Seatings, Managers <- Heads, open <- v1, visit <- v2, gone <- v3, assigned <- v4,
  phone <- v5, review <- v6
Wires == INSTANCE BankTransfers WITH Total <- Charged, enabled <- v1, bill <- v2, payment <- v3,
  command <- v4, used <- v5, job <- v6, confirmed <- v7, handler <- v8, tries <- v9

(* What the components assume of their constants.                          *)
HouseAssumption ==
  /\ Hotel!RoomAssumption /\ Outsides!OutsideAssumption /\ Menus!MenuAssumption
  /\ Alarms!AlertsAssumption /\ Tellings!NoticesAssumption /\ Opinions!FeedbackAssumption
  /\ Wires!TransfersAssumption

(* What the properties of reviews and alerts are true of: one phone at a   *)
(* time sends a review, and the tickets of a sweep fit into its batch.     *)
OnePhone == \A p, q \in Phones : p = q
OneBatch == IsFiniteSet(Tickets) /\ Cardinality(Tickets) <= Batch
-----------------------------------------------------------------------------
(* A subject starts where its component does.                              *)
HouseInit ==
  \/ subject \in {"stays", "service"} /\ Hotel!Init /\ Null6
  \/ subject = "outside" /\ Outsides!Init /\ Null6
  \/ subject \in {"menu", "portions"} /\ Menus!Init /\ Null8
  \/ subject = "alerts" /\ Alarms!Init /\ Null6
  \/ subject \in {"notices", "leads"} /\ Tellings!Init /\ Null5
  \/ subject = "reviews" /\ Opinions!Init /\ Null6
  \/ subject = "transfers" /\ Wires!Init /\ Null9

StayNext == subject \in {"stays", "service"} /\ Hotel!Next /\ UNCHANGED after6
MenuNext == subject \in {"menu", "portions"} /\ Menus!Next /\ UNCHANGED after8
GuestNext ==
  \/ subject = "outside" /\ Outsides!Next /\ UNCHANGED after6
  \/ subject = "alerts" /\ Alarms!Next /\ UNCHANGED after6
  \/ subject \in {"notices", "leads"} /\ Tellings!Next /\ UNCHANGED after5
  \/ subject = "reviews" /\ Opinions!Next /\ UNCHANGED after6
  \/ subject = "transfers" /\ Wires!Next /\ UNCHANGED after9
HouseNext == (StayNext \/ MenuNext \/ GuestNext) /\ UNCHANGED subject

HouseSpec == HouseInit /\ [][HouseNext]_vars
-----------------------------------------------------------------------------
(* The tables of a subject have their types.                               *)
HouseTypeOK ==
  /\ subject \in {"stays", "service"} => Hotel!TypeOK
  /\ subject = "outside" => Outsides!TypeOK
  /\ subject \in {"menu", "portions"} => Menus!TypeOK
  /\ subject = "alerts" => Alarms!TypeOK
  /\ subject \in {"notices", "leads"} => Tellings!TypeOK
  /\ subject = "reviews" => Opinions!TypeOK
  /\ subject = "transfers" => Wires!TypeOK

(* What the house owes its guests: rooms are cleared in order, what was    *)
(* lent comes back or is written off, no limited portion is sold twice,    *)
(* what cooks too long is noticed, staff are told once, a visit is         *)
(* reviewed once, a transfer pays once.                                    *)
HouseHolds ==
  /\ subject \in {"stays", "service"} => Hotel!StayHolds
  /\ subject = "outside" => Outsides!MaterialsConserved
  /\ subject \in {"menu", "portions"} => Menus!NotOversold
  /\ subject = "alerts" => Alarms!NobodyOverlooked
  /\ subject \in {"notices", "leads"} => Tellings!NoticesHold
  /\ subject = "reviews" => Opinions!ReviewsHold
  /\ subject = "transfers" => Wires!TransfersHold
=============================================================================
