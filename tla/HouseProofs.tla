------------------------------ MODULE HouseProofs ------------------------------
(***************************************************************************)
(* What the house owes its guests, for any numbers of rooms, orders,       *)
(* dishes, tickets, staff, reviews and bills: an inductive invariant of    *)
(* each component of House in turn, and of all of them at the end.         *)
(***************************************************************************)
EXTENDS Sequences, House, SumTheorems
-----------------------------------------------------------------------------
(* The parts of StayHolds, of given rooms, stays and calls: a room has one *)
(* party, which is in a room there is, is served alone and where it is,    *)
(* and eats what it was promised.                                          *)
Alone(s) ==
  \A y, z \in Stays : s[y].status = "IN_HOUSE" /\ s[z].status = "IN_HOUSE" /\ s[y].room = s[z].room => y = z
Roomed(r, s) ==
  \A y \in Stays : s[y].status = "IN_HOUSE" =>
    r[s[y].room] # Hotel!NoRow /\ ~r[s[y].room].archived
Opened(row) == row # Hotel!NoRow /\ row.status # "CLOSED"
Served(s, k) ==
  \A c, d \in Calls : Opened(k[c]) =>
    /\ s[k[c].stay].status = "IN_HOUSE"
    /\ Opened(k[d]) /\ k[d].stay = k[c].stay => d = c
Fed(s) ==
  \A y \in Stays : s[y] # Hotel!NoRow => \A n \in DOMAIN s[y].used : s[y].used[n] <= s[y].adults
(* A call whose bill was asked for waits for it, and one with a bill for   *)
(* its payment, so that neither comes back once it is closed.              *)
Waits(row) ==
  row # Hotel!NoRow =>
    /\ row.request => row.status = "BILL_REQUESTED" /\ row.bill = "NONE"
    /\ row.bill \in {"GENERATED", "PAYMENT_PENDING"} => row.status = "BILL_READY"
StayInv == Hotel!TypeOK /\ Hotel!StayHolds /\ \A c \in Calls : Waits(v3[c])

LEMMA StayParts ==
  Hotel!StayHolds <=> Alone(v2) /\ Roomed(v1, v2) /\ Served(v2, v3) /\ Fed(v2)
  BY DEF Hotel!StayHolds, Alone, Roomed, Served, Fed, Opened, Hotel!Listed, Hotel!OpenCalls

LEMMA StayNextParts ==
  ASSUME Alone(v2'), Roomed(v1', v2'), Served(v2', v3'), Fed(v2')
  PROVE  Hotel!StayHolds'
  BY DEF Hotel!StayHolds, Alone, Roomed, Served, Fed, Opened, Hotel!Listed, Hotel!OpenCalls

(* What rows are.                                                          *)
LEMMA HotelRows ==
  ASSUME StayInv
  PROVE  /\ v1 \in [Suites -> Hotel!Room] /\ v2 \in [Stays -> Hotel!Stay]
         /\ v3 \in [Calls -> Hotel!Call]
         /\ v4 \subseteq Stewards /\ v5 \in BOOLEAN /\ v6 \in 1..Nights
         /\ \A r \in Suites : v1[r] # Hotel!NoRow =>
              v1[r] \in [status : {"AVAILABLE", "OCCUPIED", "OOO"}, waiter : Stewards \cup {NULL},
                         archived : BOOLEAN]
         /\ \A y \in Stays : v2[y].status # "NONE" =>
              /\ v2[y] # Hotel!NoRow
              /\ v2[y] \in [status : {"IN_HOUSE", "CHECKED_OUT"}, room : Suites, adults : 1..2,
                   used : UNION {[S -> 0..2] : S \in SUBSET (1..Nights)}]
         /\ \A c \in Calls : v3[c] # Hotel!NoRow =>
              v3[c] \in [status : {"OPEN", "ACTIVE_ORDER", "BILL_REQUESTED", "BILL_READY", "PAID", "CLOSED"},
                stay : Stays, waiter : Stewards, tickets : 0..1, ordered : BOOLEAN, request : BOOLEAN,
                bill : {"NONE", "GENERATED", "PAYMENT_PENDING", "PAID", "CLOSED"}]
         /\ Alone(v2) /\ Roomed(v1, v2) /\ Served(v2, v3) /\ Fed(v2)
         /\ \A c \in Calls : Waits(v3[c])
<1>1. Hotel!TypeOK /\ \A c \in Calls : Waits(v3[c])
  BY DEF StayInv
<1>2. \A r \in Suites : v1[r] \in Hotel!Room
  BY <1>1 DEF Hotel!TypeOK
<1>3. \A y \in Stays : v2[y] \in Hotel!Stay
  BY <1>1 DEF Hotel!TypeOK
<1>4. \A c \in Calls : v3[c] \in Hotel!Call
  BY <1>1 DEF Hotel!TypeOK
<1>5. \A y \in Stays : v2[y].status # "NONE" => v2[y] # Hotel!NoRow
  BY DEF Hotel!NoRow
<1>6. \A r \in Suites : v1[r] # Hotel!NoRow =>
        v1[r] \in [status : {"AVAILABLE", "OCCUPIED", "OOO"}, waiter : Stewards \cup {NULL},
                   archived : BOOLEAN]
  BY <1>2 DEF Hotel!Room
<1>7. \A c \in Calls : v3[c] # Hotel!NoRow =>
        v3[c] \in [status : {"OPEN", "ACTIVE_ORDER", "BILL_REQUESTED", "BILL_READY", "PAID", "CLOSED"},
          stay : Stays, waiter : Stewards, tickets : 0..1, ordered : BOOLEAN, request : BOOLEAN,
          bill : {"NONE", "GENERATED", "PAYMENT_PENDING", "PAID", "CLOSED"}]
  BY <1>4 DEF Hotel!Call
<1>8. \A y \in Stays : v2[y] # Hotel!NoRow =>
        v2[y] \in [status : {"IN_HOUSE", "CHECKED_OUT"}, room : Suites, adults : 1..2,
                   used : UNION {[S -> 0..2] : S \in SUBSET (1..Nights)}]
  BY <1>3 DEF Hotel!Stay
<1>9. Alone(v2) /\ Roomed(v1, v2) /\ Served(v2, v3) /\ Fed(v2)
  BY StayParts DEF StayInv
<1>. QED  BY <1>1, <1>5, <1>6, <1>7, <1>8, <1>9 DEF Hotel!TypeOK

(* Settings, coverage and the date are nobody's stay.                      *)
LEMMA SettingsChange ==
  ASSUME StayInv, v4' \subseteq Stewards, v5' \in BOOLEAN, v6' \in 1..Nights,
         UNCHANGED <<v1, v2, v3>>
  PROVE  StayInv'
<1>1. Hotel!TypeOK'
  BY HotelRows DEF Hotel!TypeOK
<1>2. Hotel!StayHolds'
  BY HotelRows, StayNextParts
<1>3. \A c \in Calls : Waits(v3'[c])
  BY HotelRows
<1>. QED  BY <1>1, <1>2, <1>3 DEF StayInv

(* A room may change while it is there for its party.                      *)
LEMMA RoomWritten ==
  ASSUME StayInv, NEW r \in Suites, NEW row \in Hotel!Room, row # Hotel!NoRow,
         row.archived => Hotel!InHouse(r) = {},
         v1' = [v1 EXCEPT ![r] = row], UNCHANGED <<v2, v3, v4, v5, v6>>
  PROVE  StayInv'
<1>1. /\ v1 \in [Suites -> Hotel!Room] /\ v1' \in [Suites -> Hotel!Room]
      /\ \A q \in Suites : v1'[q] = IF q = r THEN row ELSE v1[q]
  BY HotelRows
<1>2. Roomed(v1', v2)
  <2>1. ASSUME NEW y \in Stays, v2[y].status = "IN_HOUSE"
        PROVE  v1'[v2[y].room] # Hotel!NoRow /\ ~v1'[v2[y].room].archived
    <3>1. v2[y].room \in Suites
      BY <2>1, HotelRows
    <3>2. v2[y].room = r => ~row.archived
      BY <2>1 DEF Hotel!InHouse
    <3>3. v1[v2[y].room] # Hotel!NoRow /\ ~v1[v2[y].room].archived
      BY <2>1, HotelRows DEF Roomed
    <3>. QED  BY <1>1, <3>1, <3>2, <3>3
  <2>. QED  BY <2>1 DEF Roomed
<1>3. Hotel!TypeOK'
  BY <1>1, HotelRows DEF Hotel!TypeOK
<1>4. Hotel!StayHolds'
  BY <1>2, HotelRows, StayNextParts
<1>5. \A c \in Calls : Waits(v3'[c])
  BY HotelRows
<1>. QED  BY <1>3, <1>4, <1>5 DEF StayInv

(* A call may change that is not opened again.                             *)
LEMMA CallWritten ==
  ASSUME StayInv, NEW c \in Calls, NEW row \in Hotel!Call, row # Hotel!NoRow, Waits(row),
         v3' = [v3 EXCEPT ![c] = row], UNCHANGED <<v1, v2, v4, v5, v6>>,
         Opened(row) => /\ v2[row.stay].status = "IN_HOUSE"
                        /\ \A d \in Calls : Opened(v3[d]) /\ v3[d].stay = row.stay => d = c
  PROVE  StayInv'
<1>1. /\ v3 \in [Calls -> Hotel!Call] /\ v3' \in [Calls -> Hotel!Call]
      /\ \A d \in Calls : v3'[d] = IF d = c THEN row ELSE v3[d]
  BY HotelRows
<1>2. Served(v2, v3')
  BY <1>1, HotelRows DEF Served
<1>3. Hotel!TypeOK'
  BY <1>1, HotelRows DEF Hotel!TypeOK
<1>4. Hotel!StayHolds'
  BY <1>2, HotelRows, StayNextParts
<1>5. \A d \in Calls : Waits(v3'[d])
  BY <1>1, HotelRows
<1>. QED  BY <1>3, <1>4, <1>5 DEF StayInv

(* Two columns of a room are written, the third is not.                    *)
LEMMA RoomColumns ==
  ASSUME NEW x \in [status : {"AVAILABLE", "OCCUPIED", "OOO"}, waiter : Stewards \cup {NULL}, archived : BOOLEAN]
  PROVE  /\ [x EXCEPT !.status = "OOO", !.archived = TRUE] = [status |-> "OOO", waiter |-> x.waiter, archived |-> TRUE]
         /\ \A status, w : [x EXCEPT !.status = status, !.waiter = w]
                             = [status |-> status, waiter |-> w, archived |-> x.archived]
<1>1. PICK a, b, c : x = [status |-> a, waiter |-> b, archived |-> c]
  OBVIOUS
<1>2. [x EXCEPT !.status = "OOO", !.archived = TRUE] = [status |-> "OOO", waiter |-> x.waiter, archived |-> TRUE]
  <2>1. [x EXCEPT !.status = "OOO"] = [status |-> "OOO", waiter |-> b, archived |-> c]
    BY <1>1
  <2>2. ASSUME NEW d
        PROVE  [[status |-> "OOO", waiter |-> b, archived |-> c] EXCEPT !.archived = d]
                 = [status |-> "OOO", waiter |-> b, archived |-> d]
    OBVIOUS
  <2>3. x.waiter = b
    BY <1>1
  <2>. QED  BY Zenon, <2>1, <2>2, <2>3
<1>3. ASSUME NEW status, NEW w
      PROVE  [x EXCEPT !.status = status, !.waiter = w] = [status |-> status, waiter |-> w, archived |-> x.archived]
  <2>1. [x EXCEPT !.status = status] = [status |-> status, waiter |-> b, archived |-> c]
    BY <1>1
  <2>2. [[status |-> status, waiter |-> b, archived |-> c] EXCEPT !.waiter = w]
          = [status |-> status, waiter |-> w, archived |-> c]
    OBVIOUS
  <2>3. x.archived = c
    BY <1>1
  <2>. QED  BY Zenon, <2>1, <2>2, <2>3
<1>. QED  BY <1>2, <1>3

(* Housekeeping.                                                           *)
LEMMA HousekeepingKeeps ==
  ASSUME HouseAssumption, StayInv, Hotel!Housekeeping
  PROVE  StayInv'
<1>1. Nights \in Nat
  BY DEF HouseAssumption, Hotel!RoomAssumption
<1>2. CASE Hotel!UpdateSettings
  BY <1>2, HotelRows, SettingsChange DEF Hotel!UpdateSettings
<1>3. CASE Hotel!NextDay
  BY <1>1, <1>3, HotelRows, SettingsChange DEF Hotel!NextDay
<1>4. CASE \E w \in Stewards : Hotel!UpsertCoverage(w) \/ Hotel!DeleteCoverage(w)
  BY <1>4, HotelRows, SettingsChange DEF Hotel!UpsertCoverage, Hotel!DeleteCoverage
<1>5. ASSUME NEW r \in Suites, Hotel!ArchiveRoom(r)
      PROVE  StayInv'
  <2>. DEFINE row == [v1[r] EXCEPT !.status = "OOO", !.archived = TRUE]
  <2>1. /\ v1[r] # Hotel!NoRow /\ Hotel!InHouse(r) = {} /\ v1' = [v1 EXCEPT ![r] = row]
        /\ UNCHANGED <<v2, v3, v4, v5, v6>>
    BY <1>5 DEF Hotel!ArchiveRoom, Hotel!Listed
  <2>2. row \in Hotel!Room /\ row # Hotel!NoRow
    <3>1. PICK was : was = v1[r]
      OBVIOUS
    <3>2. was \in [status : {"AVAILABLE", "OCCUPIED", "OOO"}, waiter : Stewards \cup {NULL}, archived : BOOLEAN]
      BY <2>1, <3>1, HotelRows DEF Hotel!Room
    <3>3. row = [status |-> "OOO", waiter |-> was.waiter, archived |-> TRUE]
      BY Zenon, <3>1, <3>2, RoomColumns
    <3>4. row \in [status : {"AVAILABLE", "OCCUPIED", "OOO"}, waiter : Stewards \cup {NULL}, archived : BOOLEAN]
      BY <3>2, <3>3
    <3>5. row.status = "OOO"
      BY <3>3
    <3>. HIDE DEF row
    <3>6. row # Hotel!NoRow
      BY <3>5 DEF Hotel!NoRow
    <3>. QED  BY <3>4, <3>5, <3>6 DEF Hotel!Room
  <2>. HIDE DEF row
  <2>. QED  BY <2>1, <2>2, RoomWritten
<1>6. ASSUME NEW r \in Suites, NEW w \in Stewards \cup {NULL}, Hotel!CreateRoom(r, w)
      PROVE  StayInv'
  <2>. DEFINE row == [status |-> "AVAILABLE", waiter |-> w, archived |-> FALSE]
  <2>1. v1' = [v1 EXCEPT ![r] = row] /\ UNCHANGED <<v2, v3, v4, v5, v6>>
    BY <1>6 DEF Hotel!CreateRoom
  <2>2. row \in Hotel!Room /\ row # Hotel!NoRow /\ ~row.archived
    BY DEF Hotel!Room, Hotel!NoRow
  <2>. HIDE DEF row
  <2>. QED  BY <2>1, <2>2, RoomWritten
<1>7. ASSUME NEW r \in Suites, NEW w \in Stewards \cup {NULL},
             NEW status \in {"AVAILABLE", "OCCUPIED", "OOO"}, Hotel!UpdateRoom(r, status, w)
      PROVE  StayInv'
  <2>. DEFINE row == [v1[r] EXCEPT !.status = status, !.waiter = w]
  <2>1. /\ v1[r] # Hotel!NoRow /\ ~v1[r].archived /\ v1' = [v1 EXCEPT ![r] = row]
        /\ UNCHANGED <<v2, v3, v4, v5, v6>>
    BY <1>7 DEF Hotel!UpdateRoom, Hotel!Listed
  <2>2. row \in Hotel!Room /\ row # Hotel!NoRow /\ ~row.archived
    <3>1. PICK was : was = v1[r]
      OBVIOUS
    <3>2. was \in [status : {"AVAILABLE", "OCCUPIED", "OOO"}, waiter : Stewards \cup {NULL}, archived : BOOLEAN]
      BY <2>1, <3>1, HotelRows DEF Hotel!Room
    <3>3. row = [status |-> status, waiter |-> w, archived |-> was.archived] /\ ~was.archived
      BY Zenon, <2>1, <3>1, <3>2, RoomColumns
    <3>4. row \in [status : {"AVAILABLE", "OCCUPIED", "OOO"}, waiter : Stewards \cup {NULL}, archived : BOOLEAN]
      BY <3>2, <3>3
    <3>5. row.status = status /\ ~row.archived
      BY <3>3
    <3>. HIDE DEF row
    <3>6. row # Hotel!NoRow
      BY <3>5 DEF Hotel!NoRow
    <3>. QED  BY <3>4, <3>5, <3>6 DEF Hotel!Room
  <2>. HIDE DEF row
  <2>. QED  BY <2>1, <2>2, RoomWritten
<1>. QED  BY <1>2, <1>3, <1>4, <1>5, <1>6, <1>7 DEF Hotel!Housekeeping

(* Front desk.                                                             *)
LEMMA CheckInKeeps ==
  ASSUME HouseAssumption, StayInv, NEW y \in Stays, NEW r \in Suites, NEW leaves \in v6..Nights + 1,
         NEW adults \in 1..2, NEW plan \in BOOLEAN, Hotel!CheckIn(y, r, leaves, adults, plan)
  PROVE  StayInv'
<1>. DEFINE nights == IF plan /\ v5 THEN Hotel!EachBusinessNight(leaves) ELSE {}
            used == [n \in nights |-> 0]
            row == [status |-> "IN_HOUSE", room |-> r, adults |-> adults, used |-> used]
            place == [v1[r] EXCEPT !.status = "OCCUPIED"]
<1>1. /\ v2[y] = Hotel!NoRow /\ v1[r] # Hotel!NoRow /\ ~v1[r].archived /\ Hotel!InHouse(r) = {}
      /\ v2' = [v2 EXCEPT ![y] = row] /\ v1' = [v1 EXCEPT ![r] = place]
      /\ UNCHANGED <<v3, v4, v5, v6>>
  BY DEF Hotel!CheckIn, Hotel!Listed
<1>2. nights \subseteq 1..Nights
  BY HotelRows DEF Hotel!EachBusinessNight, HouseAssumption, Hotel!RoomAssumption
<1>3. used \in [nights -> 0..2] /\ DOMAIN used = nights /\ \A n \in nights : used[n] = 0
  OBVIOUS
<1>4. place \in Hotel!Room /\ place # Hotel!NoRow /\ ~place.archived
  BY <1>1, HotelRows DEF Hotel!Room, Hotel!NoRow
<1>. HIDE DEF nights, used, place
<1>5. used \in UNION {[S -> 0..2] : S \in SUBSET (1..Nights)}
  BY <1>2, <1>3
<1>6. /\ row \in Hotel!Stay /\ row # Hotel!NoRow /\ row.status = "IN_HOUSE" /\ row.room = r
      /\ \A n \in DOMAIN row.used : row.used[n] <= row.adults
  BY <1>3, <1>5 DEF Hotel!Stay, Hotel!NoRow
<1>. HIDE DEF row
<1>7. /\ v1' \in [Suites -> Hotel!Room] /\ \A q \in Suites : v1'[q] = IF q = r THEN place ELSE v1[q]
      /\ v2' \in [Stays -> Hotel!Stay] /\ \A z \in Stays : v2'[z] = IF z = y THEN row ELSE v2[z]
  BY <1>1, <1>4, <1>6, HotelRows
<1>8. \A z \in Stays : v2[z].status = "IN_HOUSE" => v2[z].room # r /\ v2[z].room \in Suites
  BY <1>1, HotelRows DEF Hotel!InHouse
<1>9. Alone(v2')
  BY <1>6, <1>7, <1>8, HotelRows DEF Alone
<1>10. Roomed(v1', v2')
  BY <1>4, <1>6, <1>7, <1>8, HotelRows DEF Roomed
<1>11. Served(v2', v3')
  <2>1. \A z \in Stays : v2[z].status = "IN_HOUSE" => v2'[z].status = "IN_HOUSE"
    BY <1>6, <1>7
  <2>2. \A c \in Calls : Opened(v3[c]) => v3[c].stay \in Stays
    BY HotelRows DEF Opened
  <2>. QED  BY <1>1, <2>1, <2>2, HotelRows DEF Served
<1>12. Fed(v2')
  BY <1>6, <1>7, HotelRows DEF Fed
<1>13. Hotel!TypeOK'
  BY <1>1, <1>7, HotelRows DEF Hotel!TypeOK
<1>. QED  BY <1>1, <1>9, <1>10, <1>11, <1>12, <1>13, HotelRows, StayNextParts DEF StayInv

LEMMA CheckOutKeeps ==
  ASSUME HouseAssumption, StayInv, NEW y \in Stays, Hotel!CheckOut(y)
  PROVE  StayInv'
<1>. DEFINE row == [v2[y] EXCEPT !.status = "CHECKED_OUT"]
<1>1. v2[y].status = "IN_HOUSE" /\ Hotel!OpenCalls(y) = {}
  BY DEF Hotel!CheckOut, Hotel!MayLeave
<1>2. PICK r \in Suites : r = v2[y].room
  BY <1>1, HotelRows
<1>. DEFINE place == [v1[r] EXCEPT !.status = "AVAILABLE"]
<1>3. /\ v2' = [v2 EXCEPT ![y] = row] /\ v1' = [v1 EXCEPT ![r] = place]
      /\ UNCHANGED <<v3, v4, v5, v6>>
  BY <1>2 DEF Hotel!CheckOut
<1>4. v1[r] # Hotel!NoRow /\ ~v1[r].archived
  BY <1>1, <1>2, HotelRows DEF Roomed
<1>5. place \in Hotel!Room /\ place # Hotel!NoRow /\ ~place.archived
  BY <1>4, HotelRows DEF Hotel!Room, Hotel!NoRow
<1>6. /\ row \in Hotel!Stay /\ row # Hotel!NoRow /\ row.status = "CHECKED_OUT"
      /\ row.used = v2[y].used /\ row.adults = v2[y].adults
  BY <1>1, HotelRows DEF Hotel!Stay, Hotel!NoRow
<1>. HIDE DEF row, place
<1>7. /\ v1' \in [Suites -> Hotel!Room] /\ \A q \in Suites : v1'[q] = IF q = r THEN place ELSE v1[q]
      /\ v2' \in [Stays -> Hotel!Stay] /\ \A z \in Stays : v2'[z] = IF z = y THEN row ELSE v2[z]
  BY <1>3, <1>5, <1>6, HotelRows
<1>8. Alone(v2')
  BY <1>6, <1>7, HotelRows DEF Alone
<1>9. Roomed(v1', v2')
  <2>1. \A z \in Stays : v2[z].status = "IN_HOUSE" => v2[z].room \in Suites
    BY HotelRows
  <2>. QED  BY <1>5, <1>6, <1>7, <2>1, HotelRows DEF Roomed
<1>10. Served(v2', v3')
  <2>1. \A c \in Calls : Opened(v3[c]) => v3[c].stay \in Stays /\ v3[c].stay # y
    BY <1>1, HotelRows DEF Opened, Hotel!OpenCalls
  <2>. QED  BY <1>3, <1>7, <2>1, HotelRows DEF Served
<1>11. Fed(v2')
  <2>1. v2[y] # Hotel!NoRow
    BY <1>1, HotelRows
  <2>. QED  BY <1>6, <1>7, <2>1, HotelRows DEF Fed
<1>12. Hotel!TypeOK'
  BY <1>3, <1>7, HotelRows DEF Hotel!TypeOK
<1>. QED  BY <1>3, <1>8, <1>9, <1>10, <1>11, <1>12, HotelRows, StayNextParts DEF StayInv

LEMMA RedeemKeeps ==
  ASSUME HouseAssumption, StayInv, NEW y \in Stays, NEW qty \in 1..2, Hotel!RedeemBreakfast(y, qty)
  PROVE  StayInv'
<1>0. v2[y].status = "IN_HOUSE"
  BY DEF Hotel!RedeemBreakfast
<1>. PICK S \in SUBSET (1..Nights) : v2[y].used \in [S -> 0..2]
  <2>1. v2[y] \in [status : {"IN_HOUSE", "CHECKED_OUT"}, room : Suites, adults : 1..2,
                   used : UNION {[S -> 0..2] : S \in SUBSET (1..Nights)}]
    BY <1>0, HotelRows
  <2>2. v2[y].used \in UNION {[S -> 0..2] : S \in SUBSET (1..Nights)}
    BY <2>1
  <2>. QED  BY <2>2
<1>. PICK used \in [S -> 0..2] : used = v2[y].used
  OBVIOUS
<1>. DEFINE eaten == [used EXCEPT ![v6] = @ + qty]
            row == [v2[y] EXCEPT !.used = eaten]
<1>1. /\ v2[y].status = "IN_HOUSE" /\ v6 \in S /\ used[v6] + qty <= v2[y].adults
      /\ v2' = [v2 EXCEPT ![y] = row] /\ UNCHANGED <<v1, v3, v4, v5, v6>>
  BY DEF Hotel!RedeemBreakfast
<1>2. v2[y].adults \in 1..2 /\ v2[y] # Hotel!NoRow
  BY <1>1, HotelRows
<1>3. eaten \in [S -> 0..2] /\ \A n \in S : eaten[n] = used[n] \/ eaten[n] <= v2[y].adults
  BY <1>1, <1>2
<1>. HIDE DEF eaten
<1>4. eaten \in UNION {[T -> 0..2] : T \in SUBSET (1..Nights)}
  BY <1>3
<1>5. /\ row \in Hotel!Stay /\ row # Hotel!NoRow /\ row.status = "IN_HOUSE" /\ row.room = v2[y].room
      /\ row.used = eaten /\ row.adults = v2[y].adults
  BY <1>1, <1>4, HotelRows DEF Hotel!Stay, Hotel!NoRow
<1>. HIDE DEF row
<1>6. v2' \in [Stays -> Hotel!Stay] /\ \A z \in Stays : v2'[z] = IF z = y THEN row ELSE v2[z]
  BY <1>1, <1>5, HotelRows
<1>7. \A z \in Stays : (v2'[z].status = "IN_HOUSE" <=> v2[z].status = "IN_HOUSE")
                       /\ (v2[z].status = "IN_HOUSE" => v2'[z].room = v2[z].room)
  BY <1>1, <1>5, <1>6
<1>8. Alone(v2')
  BY <1>7, HotelRows DEF Alone
<1>9. Roomed(v1', v2')
  BY <1>1, <1>7, HotelRows DEF Roomed
<1>10. Served(v2', v3')
  <2>1. \A c \in Calls : Opened(v3[c]) => v3[c].stay \in Stays
    BY HotelRows DEF Opened
  <2>. QED  BY <1>1, <1>7, <2>1, HotelRows DEF Served
<1>11. Fed(v2')
  <2>1. \A n \in S : used[n] <= v2[y].adults
    BY <1>2, HotelRows DEF Fed
  <2>2. \A n \in DOMAIN row.used : row.used[n] <= row.adults
    BY <1>3, <1>5, <2>1
  <2>. QED  BY <1>6, <2>2, HotelRows DEF Fed
<1>12. Hotel!TypeOK'
  BY <1>1, <1>6, HotelRows DEF Hotel!TypeOK
<1>. QED  BY <1>1, <1>8, <1>9, <1>10, <1>11, <1>12, HotelRows, StayNextParts DEF StayInv

(* Room service: but for a call that is opened, the row written is that of *)
(* the same stay, and was open if it is.                                   *)
Again(was) ==
  [status : {"OPEN", "ACTIVE_ORDER", "BILL_REQUESTED", "BILL_READY", "PAID", "CLOSED"},
   stay : {was.stay}, waiter : {was.waiter}, tickets : 0..1, ordered : BOOLEAN,
   request : BOOLEAN, bill : {"NONE", "GENERATED", "PAYMENT_PENDING", "PAID", "CLOSED"}]
LEMMA CallGoesOn ==
  ASSUME StayInv, NEW c \in Calls, v3[c] # Hotel!NoRow, NEW row,
         row \in Again(v3[c]),
         Waits(row), row.status = "CLOSED" \/ v3[c].status # "CLOSED",
         v3' = [v3 EXCEPT ![c] = row], UNCHANGED <<v1, v2, v4, v5, v6>>
  PROVE  StayInv'
<1>1. row \in Hotel!Call /\ row # Hotel!NoRow
  BY HotelRows DEF Hotel!Call, Hotel!NoRow, Again
<1>2. Opened(row) => /\ v2[row.stay].status = "IN_HOUSE"
                     /\ \A d \in Calls : Opened(v3[d]) /\ v3[d].stay = row.stay => d = c
  BY HotelRows DEF Opened, Served, Again
<1>. QED  BY <1>1, <1>2, CallWritten

LEMMA RoomServiceKeeps ==
  ASSUME HouseAssumption, StayInv, NEW c \in Calls,
         \/ \E y \in Stays, w \in Stewards : Hotel!OpenSession(c, y, w)
         \/ Hotel!ConfirmOrder(c) \/ Hotel!CancelTicket(c) \/ Hotel!RequestBillForRoom(c)
         \/ Hotel!CancelBillRequest(c) \/ Hotel!GenerateBill(c) \/ Hotel!PayPart(c)
         \/ Hotel!MarkSeatingPaid(c) \/ Hotel!ForceCloseSession(c)
  PROVE  StayInv'
<1>1. ASSUME NEW y \in Stays, NEW w \in Stewards, Hotel!OpenSession(c, y, w) PROVE StayInv'
  <2>. DEFINE row == [status |-> "OPEN", stay |-> y, waiter |-> w, tickets |-> 0, ordered |-> FALSE,
                      request |-> FALSE, bill |-> "NONE"]
  <2>1. /\ v2[y].status = "IN_HOUSE" /\ Hotel!OpenCalls(y) = {}
        /\ v3' = [v3 EXCEPT ![c] = row] /\ UNCHANGED <<v1, v2, v4, v5, v6>>
    BY <1>1 DEF Hotel!OpenSession
  <2>2. row \in Hotel!Call /\ row # Hotel!NoRow /\ Waits(row) /\ row.stay = y
    BY DEF Hotel!Call, Hotel!NoRow, Waits
  <2>3. \A d \in Calls : Opened(v3[d]) => v3[d].stay # y
    BY <2>1 DEF Opened, Hotel!OpenCalls
  <2>. HIDE DEF row
  <2>. QED  BY <2>1, <2>2, <2>3, CallWritten
<1>2. ASSUME NEW row, Hotel!Progress(c, row)
      PROVE  v3' = [v3 EXCEPT ![c] = row] /\ UNCHANGED <<v1, v2, v4, v5, v6>>
  BY <1>2 DEF Hotel!Progress
<1>3. ASSUME v3[c] # Hotel!NoRow
      PROVE  /\ v3[c] \in Again(v3[c])
             /\ v3[c].request => v3[c].status = "BILL_REQUESTED" /\ v3[c].bill = "NONE"
             /\ v3[c].bill \in {"GENERATED", "PAYMENT_PENDING"} => v3[c].status = "BILL_READY"
  BY <1>3, HotelRows DEF Waits, Again
<1>4. Hotel!NoRow.status = "NONE"
  BY DEF Hotel!NoRow
<1>5. CASE Hotel!ConfirmOrder(c)
  <2>. DEFINE row == [v3[c] EXCEPT !.status = "ACTIVE_ORDER", !.tickets = 1, !.ordered = TRUE]
  <2>1. v3[c].status \in {"OPEN", "ACTIVE_ORDER"} /\ Hotel!Progress(c, row)
    BY <1>5 DEF Hotel!ConfirmOrder
  <2>2. v3[c] # Hotel!NoRow
    BY <2>1, <1>4
  <2>3. v3[c] \in Again(v3[c]) /\ ~v3[c].request /\ v3[c].bill \notin {"GENERATED", "PAYMENT_PENDING"}
    BY <2>1, <2>2, <1>3
  <2>4. row \in Again(v3[c])
    <3>1. PICK was : was = v3[c]
      OBVIOUS
    <3>2. was \in Again(was) /\ row = [was EXCEPT !.status = "ACTIVE_ORDER", !.tickets = 1, !.ordered = TRUE]
      BY <2>3, <3>1
    <3>. HIDE DEF row
    <3>3. row = [status |-> "ACTIVE_ORDER", stay |-> was.stay, waiter |-> was.waiter,
                 tickets |-> 1, ordered |-> TRUE, request |-> was.request, bill |-> was.bill]
      BY <3>2 DEF Again
    <3>4. was.request \in BOOLEAN /\ was.bill \in {"NONE", "GENERATED", "PAYMENT_PENDING", "PAID", "CLOSED"}
      BY <3>2 DEF Again
    <3>5. row \in Again(was)
      BY <3>3, <3>4 DEF Again
    <3>. QED  BY <3>1, <3>5
  <2>5. ~row.request /\ row.bill = v3[c].bill
    BY <2>3 DEF Again
  <2>6. Waits(row)
    BY <2>3, <2>5 DEF Waits
  <2>. HIDE DEF row
  <2>. QED  BY <2>1, <2>2, <2>4, <2>6, <1>2, CallGoesOn
<1>6. CASE Hotel!CancelTicket(c)
  <2>. DEFINE row == [v3[c] EXCEPT !.tickets = 0]
  <2>1. v3[c] # Hotel!NoRow /\ v3[c].status # "CLOSED" /\ Hotel!Progress(c, row)
    BY <1>6 DEF Hotel!CancelTicket
  <2>2. row \in Again(v3[c]) /\ Waits(row)
    BY <2>1, <1>3 DEF Waits, Again
  <2>. HIDE DEF row
  <2>. QED  BY <2>1, <2>2, <1>2, CallGoesOn
<1>7. CASE Hotel!RequestBillForRoom(c)
  <2>. DEFINE row == [v3[c] EXCEPT !.status = "BILL_REQUESTED", !.request = TRUE]
  <2>1. v3[c].status \in {"OPEN", "ACTIVE_ORDER"} /\ v3[c].bill = "NONE" /\ Hotel!Progress(c, row)
    BY <1>7 DEF Hotel!RequestBillForRoom
  <2>2. row \in Again(v3[c]) /\ Waits(row)
    BY <2>1, <1>3, <1>4 DEF Waits, Again
  <2>. HIDE DEF row
  <2>. QED  BY <2>1, <2>2, <1>2, <1>4, CallGoesOn
<1>8. CASE Hotel!CancelBillRequest(c)
  <2>. DEFINE row == [v3[c] EXCEPT !.request = FALSE,
                        !.status = IF v3[c].ordered THEN "ACTIVE_ORDER" ELSE "OPEN"]
  <2>1. v3[c] # Hotel!NoRow /\ v3[c].request /\ Hotel!Progress(c, row)
    BY <1>8 DEF Hotel!CancelBillRequest
  <2>2. row \in Again(v3[c]) /\ Waits(row) /\ v3[c].status # "CLOSED"
    BY <2>1, <1>3 DEF Waits, Again
  <2>. HIDE DEF row
  <2>. QED  BY <2>1, <2>2, <1>2, CallGoesOn
<1>9. CASE Hotel!GenerateBill(c)
  <2>. DEFINE row == [v3[c] EXCEPT !.request = FALSE, !.bill = "GENERATED", !.status = "BILL_READY"]
  <2>1. v3[c] # Hotel!NoRow /\ v3[c].request /\ Hotel!Progress(c, row)
    BY <1>9 DEF Hotel!GenerateBill
  <2>2. row \in Again(v3[c]) /\ Waits(row) /\ v3[c].status # "CLOSED"
    BY <2>1, <1>3 DEF Waits, Again
  <2>. HIDE DEF row
  <2>. QED  BY <2>1, <2>2, <1>2, CallGoesOn
<1>10. CASE Hotel!PayPart(c)
  <2>. DEFINE row == [v3[c] EXCEPT !.bill = "PAYMENT_PENDING"]
  <2>1. v3[c] # Hotel!NoRow /\ v3[c].bill = "GENERATED" /\ Hotel!Progress(c, row)
    BY <1>10 DEF Hotel!PayPart
  <2>2. row \in Again(v3[c]) /\ Waits(row) /\ v3[c].status # "CLOSED"
    BY <2>1, <1>3 DEF Waits, Again
  <2>. HIDE DEF row
  <2>. QED  BY <2>1, <2>2, <1>2, CallGoesOn
<1>11. CASE Hotel!MarkSeatingPaid(c)
  <2>. DEFINE row == [v3[c] EXCEPT !.bill = "PAID", !.status = "PAID"]
  <2>1. /\ v3[c] # Hotel!NoRow /\ v3[c].bill \in {"GENERATED", "PAYMENT_PENDING"}
        /\ Hotel!Progress(c, row)
    BY <1>11 DEF Hotel!MarkSeatingPaid
  <2>2. row \in Again(v3[c]) /\ Waits(row) /\ v3[c].status # "CLOSED"
    BY <2>1, <1>3 DEF Waits, Again
  <2>. HIDE DEF row
  <2>. QED  BY <2>1, <2>2, <1>2, CallGoesOn
<1>12. CASE Hotel!ForceCloseSession(c)
  <2>. DEFINE row == [v3[c] EXCEPT !.status = "CLOSED",
                        !.bill = IF v3[c].bill = "PAID" THEN "CLOSED" ELSE v3[c].bill]
  <2>1. /\ v3[c] # Hotel!NoRow /\ v3[c].status \notin {"CLOSED", "ACTIVE_ORDER", "BILL_REQUESTED", "BILL_READY"}
        /\ Hotel!Progress(c, row)
    BY <1>12 DEF Hotel!ForceCloseSession, Hotel!ForceClosable
  <2>2. row \in Again(v3[c]) /\ Waits(row)
    BY <2>1, <1>3 DEF Waits, Again
  <2>. HIDE DEF row
  <2>. QED  BY <2>1, <2>2, <1>2, CallGoesOn
<1>. QED  BY <1>1, <1>5, <1>6, <1>7, <1>8, <1>9, <1>10, <1>11, <1>12

(* With no rooms and no stays the house is in order, and it stays so.      *)
LEMMA StayStarts ==
  ASSUME HouseAssumption, Hotel!Init
  PROVE  StayInv
<1>1. Hotel!TypeOK
  <2>1. /\ Hotel!NoRow \in Hotel!Room /\ Hotel!NoRow \in Hotel!Stay /\ Hotel!NoRow \in Hotel!Call
    BY DEF Hotel!Room, Hotel!Stay, Hotel!Call
  <2>2. 1 \in 1..Nights
    BY DEF HouseAssumption, Hotel!RoomAssumption
  <2>. QED  BY <2>1, <2>2 DEF Hotel!Init, Hotel!TypeOK
<1>2. Hotel!NoRow.status = "NONE"
  BY DEF Hotel!NoRow
<1>3. Hotel!StayHolds
  BY <1>2 DEF Hotel!Init, Hotel!StayHolds
<1>4. \A c \in Calls : Waits(v3[c])
  BY DEF Hotel!Init, Waits
<1>. QED  BY <1>1, <1>3, <1>4 DEF StayInv

LEMMA StayGoesOn ==
  ASSUME HouseAssumption, StayInv, Hotel!Next
  PROVE  StayInv'
<1>1. CASE Hotel!FrontDesk
  BY <1>1, CheckInKeeps, CheckOutKeeps, RedeemKeeps DEF Hotel!FrontDesk
<1>2. CASE Hotel!RoomService
  BY <1>2, RoomServiceKeeps DEF Hotel!RoomService
<1>. QED  BY <1>1, <1>2, HousekeepingKeeps DEF Hotel!Next
-----------------------------------------------------------------------------
(* IsFiniteSet and Cardinality of an instance are those of this module.    *)
LEMMA HouseFinite ==
  ASSUME NEW S
  PROVE  Outsides!IsFiniteSet(S) <=> IsFiniteSet(S)
  BY Zenon DEF Outsides!IsFiniteSet, IsFiniteSet

(* The issues that are outstanding in a table of issues, and their pieces. *)
OutIn(t) == {i \in Issues : t[i] # Outsides!NoRow /\ t[i].status \in Outsides!Outstanding}
PiecesIn(t) == [i \in OutIn(t) |-> t[i].qty]
IssueRow == [status : Outsides!Outstanding \cup {"APPROVED"}, outside : Caterings,
             qty : 1..MaxPieces, back : 0..MaxPieces, short : 0..MaxPieces]
(* What came back and what is short are what was taken, once that is known;*)
(* there are no issues before there is a balance.                          *)
Settled(t) ==
  \A i \in Issues : t[i] # Outsides!NoRow /\ t[i].status \in {"RETURNED", "DISPUTED"} =>
    t[i].back + t[i].short = t[i].qty
PiecesInv ==
  /\ v2 \in [Issues -> {Outsides!NoRow} \cup IssueRow]
  /\ v4 \in Outsides!Balance /\ v5 \in Int /\ v6 \in BOOLEAN
  /\ ~v6 => /\ Settled(v2)
            /\ ~v4.row => OutIn(v2) = {}
            /\ v4.onHand + v4.out + v4.lost = v5
            /\ v4.out = SumOf(PiecesIn(v2), OutIn(v2))

LEMMA OutFinite ==
  ASSUME HouseAssumption, NEW t \in [Issues -> {Outsides!NoRow} \cup IssueRow]
  PROVE  IsFiniteSet(OutIn(t)) /\ PiecesIn(t) \in [OutIn(t) -> Int]
<1>1. IsFiniteSet(Issues)
  BY HouseFinite DEF HouseAssumption, Outsides!OutsideAssumption
<1>2. OutIn(t) \subseteq Issues
  BY DEF OutIn
<1>3. \A i \in OutIn(t) : t[i] \in IssueRow
  BY DEF OutIn
<1>4. \A row \in IssueRow : row.qty \in Int
  BY DEF IssueRow
<1>5. PiecesIn(t) \in [OutIn(t) -> Int]
  BY <1>3, <1>4 DEF PiecesIn
<1>. QED  BY <1>1, <1>2, <1>5, FS_Subset

(* What the property adds up (MapThenSumSet) is that sum.                  *)
LEMMA PiecesAdded ==
  ASSUME HouseAssumption, v2 \in [Issues -> {Outsides!NoRow} \cup IssueRow]
  PROVE  Outsides!MapThenSumSet(LAMBDA i : v2[i].qty,
           {i \in Issues : v2[i] # Outsides!NoRow /\ v2[i].status \in Outsides!Outstanding})
         = SumOf(PiecesIn(v2), OutIn(v2))
<1>. DEFINE S == OutIn(v2)
            f == PiecesIn(v2)
            G(g) == [s \in SUBSET S |-> IF s = {} THEN 0 ELSE v2[First(s)].qty + g[s \ {First(s)}]]
            it == CHOOSE g : g = G(g)
            g == Partial(f, S)
<1>1. Outsides!MapThenSumSet(LAMBDA i : v2[i].qty, S) = it[S]
  BY DEF Outsides!MapThenSumSet, Outsides!MapThenFoldSet, First
<1>2. IsFiniteSet(S) /\ f \in [S -> Int]
  BY OutFinite
<1>3. \A s \in SUBSET S : s # {} => f[First(s)] = v2[First(s)].qty
  BY FirstIn DEF PiecesIn
<1>4. IsSum(g, f, S)
  <2>. HIDE DEF S, f
  <2>. QED  BY <1>2, SumExists
<1>5. g = G(g)
  <2>. HIDE DEF g, S, f
  <2>. QED  BY <1>3, <1>4 DEF IsSum, Adds
<1>6. it = G(it)
  BY <1>5
<1>7. Adds(it, f, S)
  <2>. HIDE DEF it, f, S
  <2>. QED  BY <1>3, <1>6 DEF Adds
<1>8. it[S] = SumOf(f, S)
  <2>. HIDE DEF it, f, S
  <2>. QED  BY <1>2, <1>7, Folded
<1>. HIDE DEF it, f
<1>. QED  BY <1>1, <1>8 DEF OutIn, f

LEMMA PiecesConserved ==
  ASSUME HouseAssumption, PiecesInv
  PROVE  Outsides!MaterialsConserved
<1>1. v2 \in [Issues -> {Outsides!NoRow} \cup IssueRow]
  BY DEF PiecesInv
<1>. QED  BY <1>1, PiecesAdded DEF PiecesInv, Outsides!MaterialsConserved

(* A new issue, and one that is done, change the sum by its pieces; one    *)
(* that goes on does not.                                                  *)
LEMMA OneMoreOut ==
  ASSUME HouseAssumption, NEW t \in [Issues -> {Outsides!NoRow} \cup IssueRow],
         NEW u \in [Issues -> {Outsides!NoRow} \cup IssueRow],
         NEW i \in Issues, i \notin OutIn(t), OutIn(u) = OutIn(t) \cup {i},
         \A k \in Issues \ {i} : u[k] = t[k]
  PROVE  SumOf(PiecesIn(u), OutIn(u)) = u[i].qty + SumOf(PiecesIn(t), OutIn(t))
<1>. DEFINE S == OutIn(u)
            f == PiecesIn(u)
            e == PiecesIn(t)
<1>1. S \ {i} = OutIn(t) /\ i \in S /\ S \subseteq Issues
  BY DEF OutIn
<1>2. IsFiniteSet(S) /\ f \in [S -> Int] /\ e \in [S \ {i} -> Int]
  BY <1>1, OutFinite
<1>3. (\A k \in S \ {i} : e[k] = f[k]) /\ f[i] = u[i].qty
  BY <1>1 DEF PiecesIn
<1>. HIDE DEF S, f, e
<1>4. SumOf(f, S) = f[i] + SumOf(e, S \ {i})
  BY <1>1, <1>2, <1>3, SumWith
<1>. QED  BY <1>1, <1>3, <1>4 DEF S, f, e

LEMMA SameOut ==
  ASSUME NEW t, NEW u, OutIn(u) = OutIn(t), \A i \in OutIn(t) : u[i].qty = t[i].qty
  PROVE  SumOf(PiecesIn(u), OutIn(u)) = SumOf(PiecesIn(t), OutIn(t))
<1>1. PiecesIn(u) = PiecesIn(t)
  BY DEF PiecesIn
<1>. QED  BY <1>1

(* What is out is not changed by orders, by materials or by a count.       *)
LEMMA ShelfChanges ==
  ASSUME PiecesInv, UNCHANGED <<v2, v6>>, v4' \in Outsides!Balance, v5' \in Int,
         v4.row => v4'.row, v4'.out = v4.out,
         ~v6 => v4'.onHand + v4'.out + v4'.lost = v5'
  PROVE  PiecesInv'
  BY DEF PiecesInv

(* A balance that is there is booked; without a row nothing is.            *)
LEMMA Books ==
  ASSUME v4 \in Outsides!Balance, NEW a \in Int, NEW b \in Int, NEW c \in Int, Outsides!Booked(a, b, c)
  PROVE  /\ v4' \in Outsides!Balance /\ v4'.row = v4.row
         /\ v4.row => /\ v4'.onHand = v4.onHand + a /\ v4'.out = v4.out + b
                      /\ v4'.lost = v4.lost + c
         /\ {v4.onHand, v4.out, v4.lost} \subseteq Int
<1>1. /\ v4 \in [row : BOOLEAN, onHand : Int, out : Int, lost : Int]
      /\ v4' = IF v4.row THEN [v4 EXCEPT !.onHand = v4.onHand + a, !.out = v4.out + b, !.lost = v4.lost + c]
               ELSE v4
  BY DEF Outsides!Booked, Outsides!Balance
<1>2. PICK x, y, z \in Int : x = v4.onHand + a /\ y = v4.out + b /\ z = v4.lost + c
  BY <1>1
<1>3. v4' = IF v4.row THEN [v4 EXCEPT !.onHand = x, !.out = y, !.lost = z] ELSE v4
  BY <1>1, <1>2
<1>4. /\ v4' \in [row : BOOLEAN, onHand : Int, out : Int, lost : Int] /\ v4'.row = v4.row
      /\ v4.row => v4'.onHand = x /\ v4'.out = y /\ v4'.lost = z
  BY <1>1, <1>3
<1>. QED  BY <1>1, <1>2, <1>4 DEF Outsides!Balance

LEMMA IssueKeeps ==
  ASSUME HouseAssumption, PiecesInv, ~v6, NEW i \in Issues, NEW x \in Caterings, NEW qty \in 1..MaxPieces,
         Outsides!IssueMaterials(i, x, qty)
  PROVE  PiecesInv'
<1>. DEFINE row == [status |-> "ISSUED", outside |-> x, qty |-> qty, back |-> 0, short |-> 0]
<1>1. /\ v2[i] = Outsides!NoRow /\ v2' = [v2 EXCEPT ![i] = row]
      /\ Outsides!Booked(-qty, qty, 0)
      /\ v6' = (v6 \/ ~v4.row) /\ v5' = v5
  BY DEF Outsides!IssueMaterials
<1>2. MaxPieces \in Nat /\ qty \in Int /\ -qty \in Int
  BY DEF HouseAssumption, Outsides!OutsideAssumption
<1>3. row \in IssueRow /\ row # Outsides!NoRow /\ row.status = "ISSUED" /\ row.qty = qty
  BY <1>2 DEF IssueRow, Outsides!Outstanding, Outsides!NoRow
<1>. HIDE DEF row
<1>4. /\ v2 \in [Issues -> {Outsides!NoRow} \cup IssueRow]
      /\ v2' \in [Issues -> {Outsides!NoRow} \cup IssueRow]
      /\ \A k \in Issues : v2'[k] = IF k = i THEN row ELSE v2[k]
  BY <1>1, <1>3 DEF PiecesInv
<1>5. i \notin OutIn(v2) /\ OutIn(v2') = OutIn(v2) \cup {i}
  BY <1>1, <1>3, <1>4 DEF OutIn, Outsides!Outstanding
<1>6. SumOf(PiecesIn(v2'), OutIn(v2')) = qty + SumOf(PiecesIn(v2), OutIn(v2))
  BY <1>3, <1>4, <1>5, OneMoreOut
<1>7. /\ v4' \in Outsides!Balance /\ v4'.row = v4.row
      /\ v4.row => /\ v4'.onHand = v4.onHand + -qty /\ v4'.out = v4.out + qty
                   /\ v4'.lost = v4.lost + 0
      /\ {v4.onHand, v4.out, v4.lost} \subseteq Int
  BY <1>1, <1>2, Books DEF PiecesInv
<1>8. CASE v4.row
  <2>1. Settled(v2')
    BY <1>3, <1>4 DEF Settled, PiecesInv
  <2>2. v4.onHand + v4.out + v4.lost = v5 /\ v4.out = SumOf(PiecesIn(v2), OutIn(v2))
    BY DEF PiecesInv
  <2>3. v4'.onHand + v4'.out + v4'.lost = v5'
    BY <1>1, <1>2, <1>7, <1>8, <2>2
  <2>4. v4'.out = SumOf(PiecesIn(v2'), OutIn(v2'))
    BY <1>2, <1>6, <1>7, <1>8, <2>2
  <2>. QED  BY <1>1, <1>4, <1>7, <1>8, <2>1, <2>3, <2>4 DEF PiecesInv
<1>9. CASE ~v4.row
  BY <1>1, <1>4, <1>7, <1>9 DEF PiecesInv
<1>. QED  BY <1>8, <1>9

(* An issue that stays out has the same pieces.                            *)
LEMMA StaysOut ==
  ASSUME HouseAssumption, PiecesInv, NEW i \in Issues, NEW row \in IssueRow,
         row.status \in {"RETURNED", "DISPUTED"}, v2' = [v2 EXCEPT ![i] = row],
         UNCHANGED <<v4, v5>>, v6' \in BOOLEAN,
         ~v6' => /\ ~v6 /\ i \in OutIn(v2) /\ row.qty = v2[i].qty
                 /\ row.back + row.short = row.qty
  PROVE  PiecesInv'
<1>1. row # Outsides!NoRow /\ row.status \in Outsides!Outstanding
  BY DEF IssueRow, Outsides!NoRow, Outsides!Outstanding
<1>2. /\ v2 \in [Issues -> {Outsides!NoRow} \cup IssueRow]
      /\ v2' \in [Issues -> {Outsides!NoRow} \cup IssueRow]
      /\ \A k \in Issues : v2'[k] = IF k = i THEN row ELSE v2[k]
  BY DEF PiecesInv
<1>3. ASSUME ~v6'
      PROVE  /\ Settled(v2')
             /\ ~v4'.row => OutIn(v2') = {}
             /\ v4'.onHand + v4'.out + v4'.lost = v5'
             /\ v4'.out = SumOf(PiecesIn(v2'), OutIn(v2'))
  <2>1. OutIn(v2') = OutIn(v2) /\ \A k \in OutIn(v2) : v2'[k].qty = v2[k].qty
    BY <1>1, <1>2, <1>3 DEF OutIn
  <2>2. SumOf(PiecesIn(v2'), OutIn(v2')) = SumOf(PiecesIn(v2), OutIn(v2))
    BY <2>1, SameOut
  <2>3. Settled(v2')
    BY <1>2, <1>3 DEF Settled, PiecesInv
  <2>. QED  BY <1>3, <2>1, <2>2, <2>3 DEF PiecesInv
<1>. QED  BY <1>2, <1>3 DEF PiecesInv

LEMMA ReturnKeeps ==
  ASSUME HouseAssumption, PiecesInv, ~v6, NEW i \in Issues, NEW n \in 0..MaxPieces,
         Outsides!ReturnMaterials(i, n)
  PROVE  PiecesInv'
<1>1. /\ v2[i].status \in Outsides!Outstanding /\ v2[i] # Outsides!NoRow
      /\ v2[i] \in IssueRow
  BY DEF Outsides!ReturnMaterials, Outsides!Outstanding, Outsides!NoRow, PiecesInv
<1>2. PICK was \in IssueRow : was = v2[i]
  BY <1>1
<1>3. MaxPieces \in Nat /\ was.qty \in 1..MaxPieces
  BY DEF IssueRow, HouseAssumption, Outsides!OutsideAssumption
<1>4. PICK back \in 0..MaxPieces : back = (IF n < was.qty THEN n ELSE was.qty) /\ was.qty - back \in 0..MaxPieces
  BY <1>3
<1>5. PICK short \in 0..MaxPieces : short = was.qty - back
  BY <1>4
<1>. DEFINE row == [was EXCEPT !.status = "RETURNED", !.back = back, !.short = short]
<1>6. v2' = [v2 EXCEPT ![i] = row] /\ UNCHANGED <<v4, v5, v6>>
  BY <1>2, <1>4, <1>5 DEF Outsides!ReturnMaterials, Outsides!Kept
<1>7. row \in IssueRow /\ row.status = "RETURNED" /\ row.qty = was.qty /\ row.back = back /\ row.short = short
  BY DEF IssueRow, Outsides!Outstanding
<1>8. i \in OutIn(v2)
  BY <1>1 DEF OutIn
<1>9. back + short = was.qty
  BY <1>3, <1>5
<1>. HIDE DEF row
<1>. QED  BY <1>2, <1>6, <1>7, <1>8, <1>9, StaysOut DEF PiecesInv

LEMMA DisputeKeeps ==
  ASSUME HouseAssumption, PiecesInv, ~v6, NEW i \in Issues, Outsides!Dispute(i)
  PROVE  PiecesInv'
<1>1. /\ v2[i] # Outsides!NoRow /\ v2[i] \in IssueRow
      /\ v6' = (v6 \/ v2[i].status # "RETURNED") /\ UNCHANGED <<v4, v5>>
  BY DEF Outsides!Dispute, PiecesInv
<1>2. PICK was \in IssueRow : was = v2[i]
  BY <1>1
<1>. DEFINE row == [was EXCEPT !.status = "DISPUTED"]
<1>3. v2' = [v2 EXCEPT ![i] = row]
  BY <1>2 DEF Outsides!Dispute
<1>4. /\ row \in IssueRow /\ row.status = "DISPUTED" /\ row.qty = was.qty
      /\ row.back = was.back /\ row.short = was.short
  BY DEF IssueRow, Outsides!Outstanding
<1>. HIDE DEF row
<1>5. ~v6' => was.status = "RETURNED" /\ was.back + was.short = was.qty /\ i \in OutIn(v2)
  BY <1>1, <1>2 DEF PiecesInv, Settled, OutIn, Outsides!Outstanding
<1>. QED  BY <1>1, <1>2, <1>3, <1>4, <1>5, StaysOut

LEMMA ApproveKeeps ==
  ASSUME HouseAssumption, PiecesInv, ~v6, NEW i \in Issues, Outsides!Approve(i)
  PROVE  PiecesInv'
<1>1. /\ v2[i] # Outsides!NoRow /\ v2[i] \in IssueRow
      /\ v6' = (v6 \/ v2[i].status \notin {"RETURNED", "DISPUTED"}) /\ UNCHANGED v5
  BY DEF Outsides!Approve, PiecesInv
<1>2. PICK was \in IssueRow : was = v2[i]
  BY <1>1
<1>. DEFINE row == [was EXCEPT !.status = "APPROVED"]
<1>3. v2' = [v2 EXCEPT ![i] = row] /\ Outsides!Booked(was.back, -was.qty, was.short)
  BY <1>2 DEF Outsides!Approve, Outsides!WrittenOff
<1>4. row \in IssueRow /\ row.status = "APPROVED" /\ row # Outsides!NoRow
  BY DEF IssueRow, Outsides!Outstanding, Outsides!NoRow
<1>5. was.back \in Int /\ was.qty \in Int /\ was.short \in Int /\ -was.qty \in Int
  BY DEF IssueRow
<1>. HIDE DEF row
<1>6. /\ v2 \in [Issues -> {Outsides!NoRow} \cup IssueRow]
      /\ v2' \in [Issues -> {Outsides!NoRow} \cup IssueRow]
      /\ \A k \in Issues : v2'[k] = IF k = i THEN row ELSE v2[k]
  BY <1>3, <1>4 DEF PiecesInv
<1>7. /\ v4' \in Outsides!Balance /\ v4'.row = v4.row
      /\ v4.row => /\ v4'.onHand = v4.onHand + was.back /\ v4'.out = v4.out + -was.qty
                   /\ v4'.lost = v4.lost + was.short
      /\ {v4.onHand, v4.out, v4.lost} \subseteq Int
  BY <1>3, <1>5, Books DEF PiecesInv
<1>8. CASE v6'
  BY <1>1, <1>6, <1>7, <1>8 DEF PiecesInv
<1>9. CASE ~v6'
  <2>1. i \in OutIn(v2) /\ was.back + was.short = was.qty
    BY <1>1, <1>2, <1>9 DEF OutIn, Outsides!Outstanding, PiecesInv, Settled
  <2>2. v4.row
    BY <2>1 DEF PiecesInv
  <2>3. i \notin OutIn(v2') /\ OutIn(v2) = OutIn(v2') \cup {i}
    BY <1>4, <1>6, <2>1 DEF OutIn, Outsides!Outstanding
  <2>4. SumOf(PiecesIn(v2), OutIn(v2)) = was.qty + SumOf(PiecesIn(v2'), OutIn(v2'))
    BY <1>2, <1>6, <2>3, OneMoreOut
  <2>5. SumOf(PiecesIn(v2'), OutIn(v2')) \in Int
    BY <1>6, OutFinite, SumIsInt
  <2>6. v4.onHand + v4.out + v4.lost = v5 /\ v4.out = SumOf(PiecesIn(v2), OutIn(v2))
    BY DEF PiecesInv
  <2>7. v4'.onHand + v4'.out + v4'.lost = v5'
    BY <1>1, <1>5, <1>7, <2>1, <2>2, <2>6
  <2>8. v4'.out = SumOf(PiecesIn(v2'), OutIn(v2'))
    BY <1>5, <1>7, <2>2, <2>4, <2>5, <2>6
  <2>9. Settled(v2')
    BY <1>4, <1>6 DEF Settled, PiecesInv
  <2>. QED  BY <1>6, <1>7, <1>9, <1>1, <2>2, <2>7, <2>8, <2>9 DEF PiecesInv
<1>. QED  BY <1>8, <1>9

LEMMA PiecesStart ==
  ASSUME HouseAssumption, Outsides!Init
  PROVE  PiecesInv
<1>1. /\ v2 = [i \in Issues |-> Outsides!NoRow] /\ v4 = [row |-> FALSE, onHand |-> 0, out |-> 0, lost |-> 0]
      /\ v5 = 0 /\ v6 = FALSE
  BY DEF Outsides!Init
<1>2. v2 \in [Issues -> {Outsides!NoRow} \cup IssueRow]
  BY <1>1
<1>3. OutIn(v2) = {} /\ Settled(v2)
  BY <1>1 DEF OutIn, Settled
<1>4. IsFiniteSet(OutIn(v2)) /\ PiecesIn(v2) \in [OutIn(v2) -> Int]
  BY <1>2, OutFinite
<1>5. SumOf(PiecesIn(v2), OutIn(v2)) = 0
  BY <1>3, <1>4, SumOfNone
<1>6. v4 \in Outsides!Balance /\ v4.onHand = 0 /\ v4.out = 0 /\ v4.lost = 0 /\ v5 = 0
  BY <1>1 DEF Outsides!Balance
<1>7. v5 \in Int /\ v6 \in BOOLEAN /\ v4.onHand + v4.out + v4.lost = v5
  <2>1. v6 \in BOOLEAN
    BY <1>1
  <2>2. v4.onHand + v4.out + v4.lost = v5 /\ v5 \in Int
    BY <1>6
  <2>. QED  BY <2>1, <2>2
<1>8. v4.out = SumOf(PiecesIn(v2), OutIn(v2))
  BY <1>5, <1>6
<1>. QED  BY <1>2, <1>3, <1>6, <1>7, <1>8 DEF PiecesInv

LEMMA PiecesGoOn ==
  ASSUME HouseAssumption, PiecesInv, Outsides!Next
  PROVE  PiecesInv'
<1>1. ~v6
  BY DEF Outsides!Next
<1>2. CASE UNCHANGED <<v2, v4, v5, v6>>
  BY <1>2 DEF PiecesInv
<1>3. CASE Outsides!Carrying
  <2>1. ASSUME NEW x \in Caterings,
               \/ \E mustReturn \in BOOLEAN : Outsides!CreateOutsideOrder(x, mustReturn)
               \/ \E status \in {"OPEN", "CLOSED"} : Outsides!UpdateOutsideOrder(x, status)
               \/ Outsides!ConfirmOrder(x) \/ Outsides!CloseOutsideOrder(x)
        PROVE  UNCHANGED <<v2, v4, v5, v6>>
    BY <2>1 DEF Outsides!CreateOutsideOrder, Outsides!UpdateOutsideOrder, Outsides!ConfirmOrder,
       Outsides!CloseOutsideOrder, Outsides!Kept
  <2>. QED  BY <1>1, <1>2, <1>3, <2>1, IssueKeeps, ReturnKeeps, DisputeKeeps, ApproveKeeps DEF Outsides!Carrying
<1>4. CASE Outsides!Shelving
  <2>1. ASSUME NEW n \in 0..MaxPieces, Outsides!UpsertMaterialBalance(n)
        PROVE  PiecesInv'
    <3>1. /\ v4' = [v4 EXCEPT !.row = TRUE, !.onHand = n] /\ v5' = n + v4.out + v4.lost
          /\ UNCHANGED <<v2, v6>>
      BY <2>1 DEF Outsides!UpsertMaterialBalance
    <3>2. v4 \in [row : BOOLEAN, onHand : Int, out : Int, lost : Int] /\ n \in Int
      BY DEF PiecesInv, Outsides!Balance
    <3>3. /\ v4' \in Outsides!Balance /\ v4'.row /\ v4'.onHand = n /\ v4'.out = v4.out
          /\ v4'.lost = v4.lost
      BY <3>1, <3>2 DEF Outsides!Balance
    <3>. QED  BY <3>1, <3>2, <3>3, ShelfChanges
  <2>2. CASE Outsides!CreateMaterial \/ Outsides!DeleteMaterial
             \/ \E status \in {"ACTIVE", "ARCHIVED"} : Outsides!UpdateMaterial(status)
    <3>1. UNCHANGED <<v2, v4, v5, v6>>
      BY <2>2 DEF Outsides!CreateMaterial, Outsides!DeleteMaterial, Outsides!UpdateMaterial
    <3>. QED  BY <1>2, <3>1
  <2>. QED  BY <1>4, <2>1, <2>2 DEF Outsides!Shelving
<1>. QED  BY <1>3, <1>4 DEF Outsides!Next
-----------------------------------------------------------------------------
(* Limits are of their type and orders know one they read.                 *)
LimitInv ==
  /\ v6 \in Seq(Menus!Limit)
  /\ \A w \in Takers : v8[w] # Menus!Idle => v8[w].limit \in 0..Len(v6) /\ v8[w].qty \in 1..MaxPortions
  /\ Menus!NotOversold
OrderInv == v8 = [w \in Takers |-> v8[w]]
PortionInv == LimitInv /\ OrderInv

(* A row may end, be counted by guests or be added; NotOversold looks at   *)
(* the others of its columns.                                              *)
LEMMA LimitsChange ==
  ASSUME PortionInv, UNCHANGED v8, v6' \in Seq(Menus!Limit), Len(v6) <= Len(v6'),
         \A n \in 1..Len(v6) : /\ v6'[n].state = v6[n].state /\ v6'[n].initial = v6[n].initial
                               /\ v6'[n].left = v6[n].left /\ v6'[n].sold = v6[n].sold,
         \A n \in 1..Len(v6') : n > Len(v6) => v6'[n].sold = 0 /\ v6'[n].left = v6'[n].initial
  PROVE  PortionInv'
<1>1. v6 \in Seq(Menus!Limit) /\ Len(v6) \in Nat /\ Len(v6') \in Nat
      /\ DOMAIN v6 = 1..Len(v6) /\ DOMAIN v6' = 1..Len(v6')
  BY DEF PortionInv, LimitInv
<1>2. \A n \in 1..Len(v6') : v6'[n].initial \in Nat
  <2>1. \A row \in Menus!Limit : row.initial \in Nat
    BY DEF Menus!Limit
  <2>2. \A n \in 1..Len(v6') : v6'[n] \in Menus!Limit
    BY <1>1
  <2>. QED  BY <2>1, <2>2
<1>3. ASSUME NEW n \in 1..Len(v6'), v6'[n].state = "LIMITED"
      PROVE  v6'[n].sold <= v6'[n].initial /\ v6'[n].left = v6'[n].initial - v6'[n].sold
  <2>1. CASE n <= Len(v6)
    BY <1>1, <1>3, <2>1 DEF PortionInv, LimitInv, Menus!NotOversold
  <2>2. CASE n > Len(v6)
    BY <1>2, <1>3, <2>2
  <2>. QED  BY <1>1, <2>1, <2>2
<1>4. Menus!NotOversold'
  BY <1>1, <1>3 DEF Menus!NotOversold
<1>5. \A w \in Takers : v8'[w] # Menus!Idle => v8'[w].limit \in 0..Len(v6') /\ v8'[w].qty \in 1..MaxPortions
  BY <1>1 DEF PortionInv, LimitInv
<1>. QED  BY <1>4, <1>5 DEF PortionInv, LimitInv, OrderInv

(* Most of what a branch does to its menu leaves the limits alone.         *)
LEMMA LimitsKept ==
  ASSUME PortionInv, UNCHANGED <<v6, v8>>
  PROVE  PortionInv'
<1>1. v6 \in Seq(Menus!Limit)
  BY DEF PortionInv, LimitInv
<1>. QED  BY <1>1, LimitsChange

(* Overrides of an item end, and a new one may follow them.                *)
LEMMA OverridesEnd ==
  ASSUME HouseAssumption, PortionInv, NEW i \in Items, UNCHANGED v8,
         \/ v6' = Menus!Ended(i)
         \/ \E state \in {"SOLD_OUT", "LIMITED"}, qty \in 0..MaxPortions :
              v6' = Append(Menus!Ended(i), Menus!NewLimit(i, state, qty))
  PROVE  PortionInv'
<1>. DEFINE ended == Menus!Ended(i)
<1>1. v6 \in Seq(Menus!Limit) /\ Len(v6) \in Nat /\ DOMAIN v6 = 1..Len(v6)
  BY DEF PortionInv, LimitInv
<1>2. /\ DOMAIN ended = 1..Len(v6)
      /\ \A n \in 1..Len(v6) : ended[n] = [v6[n] EXCEPT !.open = v6[n].open /\ v6[n].item # i]
  BY <1>1 DEF Menus!Ended
<1>3. \A n \in 1..Len(v6) : v6[n] \in Menus!Limit
  BY <1>1
<1>4. ASSUME NEW n \in 1..Len(v6)
      PROVE  /\ ended[n] \in Menus!Limit
             /\ ended[n].state = v6[n].state /\ ended[n].initial = v6[n].initial
             /\ ended[n].left = v6[n].left /\ ended[n].sold = v6[n].sold
  <2>1. PICK was \in Menus!Limit : was = v6[n]
    BY <1>3
  <2>2. PICK b \in BOOLEAN : ended[n] = [was EXCEPT !.open = b]
    BY <1>2, <2>1
  <2>3. /\ ended[n] \in Menus!Limit
        /\ ended[n].state = was.state /\ ended[n].initial = was.initial
        /\ ended[n].left = was.left /\ ended[n].sold = was.sold
    BY <2>2 DEF Menus!Limit
  <2>. QED  BY <2>1, <2>3
<1>. HIDE DEF ended
<1>5. ended \in Seq(Menus!Limit) /\ Len(ended) = Len(v6)
  <2>1. ended = [n \in 1..Len(v6) |-> ended[n]]
    BY <1>2 DEF Menus!Ended, ended
  <2>2. ended \in [1..Len(v6) -> Menus!Limit]
    BY <1>4, <2>1
  <2>. QED  BY <1>1, <2>2
<1>6. CASE v6' = ended
  BY <1>1, <1>4, <1>5, <1>6, LimitsChange
<1>7. ASSUME NEW state \in {"SOLD_OUT", "LIMITED"}, NEW qty \in 0..MaxPortions,
             v6' = Append(ended, Menus!NewLimit(i, state, qty))
      PROVE  PortionInv'
  <2>. DEFINE row == Menus!NewLimit(i, state, qty)
  <2>1. MaxPortions \in Nat /\ MaxGuests \in Nat
    BY DEF HouseAssumption, Menus!MenuAssumption
  <2>2. row \in Menus!Limit /\ row.sold = 0 /\ row.left = row.initial
    BY <2>1 DEF Menus!Limit, Menus!NewLimit
  <2>. HIDE DEF row
  <2>3. v6' \in Seq(Menus!Limit) /\ Len(v6') = Len(v6) + 1
    BY <1>5, <1>7, <2>2 DEF row
  <2>4. \A n \in 1..Len(v6) : v6'[n] = ended[n]
    BY <1>1, <1>5, <1>7 DEF row
  <2>5. v6'[Len(v6) + 1] = row
    BY <1>1, <1>5, <1>7 DEF row
  <2>. QED  BY <1>1, <1>4, <2>2, <2>3, <2>4, <2>5, LimitsChange
<1>. QED  BY <1>6, <1>7 DEF ended

LEMMA LimitingKeeps ==
  ASSUME HouseAssumption, PortionInv, Menus!Limiting
  PROVE  PortionInv'
<1>1. PICK i \in Items : \/ Menus!MarkStationItemSoldOut(i) \/ Menus!ClearStationItemLimit(i)
                         \/ \E qty \in 0..MaxPortions : Menus!SetStationItemLimit(i, qty)
  BY DEF Menus!Limiting
<1>2. MaxPortions \in Nat
  BY DEF HouseAssumption, Menus!MenuAssumption
<1>3. UNCHANGED v8
  BY <1>1 DEF Menus!MarkStationItemSoldOut, Menus!ClearStationItemLimit, Menus!SetStationItemLimit
<1>4. \/ v6' = Menus!Ended(i)
      \/ \E state \in {"SOLD_OUT", "LIMITED"}, qty \in 0..MaxPortions :
              v6' = Append(Menus!Ended(i), Menus!NewLimit(i, state, qty))
  <2>1. CASE Menus!MarkStationItemSoldOut(i)
    BY <1>2, <2>1 DEF Menus!MarkStationItemSoldOut, Menus!ApplySoldOutOverride
  <2>2. CASE Menus!ClearStationItemLimit(i)
    BY <2>2 DEF Menus!ClearStationItemLimit, Menus!ClearAvailabilityOverrides
  <2>3. ASSUME NEW qty \in 0..MaxPortions, Menus!SetStationItemLimit(i, qty)
        PROVE  \E state \in {"SOLD_OUT", "LIMITED"}, n \in 0..MaxPortions :
                 v6' = Append(Menus!Ended(i), Menus!NewLimit(i, state, n))
    BY <1>2, <2>3 DEF Menus!SetStationItemLimit, Menus!ApplySoldOutOverride, Menus!ApplyLimitedOverride
  <2>. QED  BY <1>1, <2>1, <2>2, <2>3
<1>. QED  BY <1>3, <1>4, OverridesEnd

(* An order takes what it read of a limit, if that much is left.           *)
LEMMA ConfirmCommitKeeps ==
  ASSUME HouseAssumption, PortionInv, NEW w \in Takers, Menus!ConfirmCommit(w)
  PROVE  PortionInv'
<1>1. v6 \in Seq(Menus!Limit) /\ Len(v6) \in Nat /\ DOMAIN v6 = 1..Len(v6)
  BY DEF PortionInv, LimitInv
<1>2. v8[w] # Menus!Idle
  BY DEF Menus!ConfirmCommit, Menus!Idle
<1>3. PICK m \in 0..Len(v6), qty \in 1..MaxPortions : v8[w].limit = m /\ v8[w].qty = qty
  BY <1>2 DEF PortionInv, LimitInv
<1>4. MaxPortions \in Nat
  BY DEF HouseAssumption, Menus!MenuAssumption
<1>5. /\ v8' = [v8 EXCEPT ![w] = Menus!Idle]
      /\ \/ v6' = v6
         \/ /\ m # 0 /\ v6[m].left >= qty
            /\ v6' = [v6 EXCEPT ![m].left = @ - qty, ![m].sold = @ + qty]
  BY <1>3 DEF Menus!ConfirmCommit, Menus!EnoughLeft
<1>6. /\ OrderInv' /\ \A o \in Takers : v8'[o] = IF o = w THEN Menus!Idle ELSE v8[o]
  BY <1>5 DEF PortionInv, OrderInv
<1>7. CASE v6' = v6
  <2>1. Menus!NotOversold'
    BY <1>7 DEF PortionInv, LimitInv, Menus!NotOversold
  <2>. QED  BY <1>6, <1>7, <2>1 DEF PortionInv, LimitInv
<1>8. CASE m # 0 /\ v6[m].left >= qty /\ v6' = [v6 EXCEPT ![m].left = @ - qty, ![m].sold = @ + qty]
  <2>1. PICK was \in Menus!Limit : was = v6[m]
    BY <1>1, <1>8
  <2>. DEFINE row == [was EXCEPT !.left = was.left - qty, !.sold = was.sold + qty]
  <2>2. v6' = [v6 EXCEPT ![m] = row]
    BY <1>8, <2>1
  <2>3. /\ row \in Menus!Limit /\ row.state = was.state /\ row.initial = was.initial
        /\ row.left = was.left - qty /\ row.sold = was.sold + qty
        /\ was.left \in Int /\ was.sold \in Nat /\ was.initial \in Nat /\ qty \in Nat
    <3>1. was.left \in Int /\ was.sold \in Nat /\ was.initial \in 0..MaxPortions
      BY DEF Menus!Limit
    <3>2. qty \in Nat
      BY <1>4
    <3>3. PICK left \in Int, sold \in Nat : left = was.left - qty /\ sold = was.sold + qty
      BY <3>1, <3>2
    <3>4. row = [was EXCEPT !.left = left, !.sold = sold]
      BY <3>3
    <3>. HIDE DEF row
    <3>5. /\ row \in Menus!Limit /\ row.state = was.state /\ row.initial = was.initial
          /\ row.left = left /\ row.sold = sold
      BY <3>4 DEF Menus!Limit
    <3>. QED  BY <1>4, <3>1, <3>2, <3>3, <3>5
  <2>. HIDE DEF row
  <2>4. /\ v6' \in Seq(Menus!Limit) /\ Len(v6') = Len(v6) /\ DOMAIN v6' = 1..Len(v6)
        /\ \A n \in 1..Len(v6) : v6'[n] = IF n = m THEN row ELSE v6[n]
    <3>1. v6' = [v6 EXCEPT ![m] = row] /\ m \in 1..Len(v6) /\ v6 \in Seq(Menus!Limit) /\ row \in Menus!Limit
      <4>1. m \in 1..Len(v6)
        BY <1>1, <1>8
      <4>. QED  BY <1>1, <2>2, <2>3, <4>1
    <3>2. v6' \in Seq(Menus!Limit)
      BY <3>1
    <3>3. Len(v6') = Len(v6) /\ DOMAIN v6' = 1..Len(v6)
      BY <3>1
    <3>4. \A n \in 1..Len(v6) : v6'[n] = IF n = m THEN row ELSE v6[n]
      BY <3>1
    <3>. QED  BY <3>2, <3>3, <3>4
  <2>5. was.state = "LIMITED" => was.sold <= was.initial /\ was.left = was.initial - was.sold
    BY <1>1, <1>8, <2>1 DEF PortionInv, LimitInv, Menus!NotOversold
  <2>6. row.state = "LIMITED" => row.sold <= row.initial /\ row.left = row.initial - row.sold
    BY <1>8, <2>1, <2>3, <2>5
  <2>7. Menus!NotOversold'
    BY <1>1, <2>4, <2>6 DEF PortionInv, LimitInv, Menus!NotOversold
  <2>8. \A o \in Takers : v8'[o] # Menus!Idle => v8'[o].limit \in 0..Len(v6') /\ v8'[o].qty \in 1..MaxPortions
    BY <1>6, <2>4 DEF PortionInv, LimitInv
  <2>. QED  BY <1>6, <2>4, <2>7, <2>8 DEF PortionInv, LimitInv
<1>. QED  BY <1>5, <1>7, <1>8

(* A set of numbers up to m has a greatest.                                *)
LEMMA Greatest ==
  ASSUME NEW m \in Nat, NEW rows \in SUBSET (1..m), rows # {}
  PROVE  \E n \in rows : \A k \in rows : k <= n
<1>1. PICK S : S = 1..m /\ IsFiniteSet(S)
  BY FS_Interval
<1>2. PICK B : B = {n..m : n \in rows}
  OBVIOUS
<1>3. B \in SUBSET SUBSET S /\ B # {}
  <2>1. \A n \in rows : n..m \subseteq 1..m
    OBVIOUS
  <2>. QED  BY <1>1, <1>2, <2>1
<1>4. PICK s \in B : \A t \in B : t \subseteq s => t = s
  <2>1. IsFiniteSet(S)
    BY <1>1
  <2>2. B \in SUBSET SUBSET S
    BY <1>3
  <2>3. B # {}
    BY <1>3
  <2>. QED  BY <2>1, <2>2, <2>3, Minimal
<1>. PICK n \in rows : s = n..m
  BY <1>2
<1>6. \A k \in rows : k..m \subseteq n..m => k..m = n..m
  BY <1>2, <1>4
<1>5. ASSUME NEW k \in rows, k > n PROVE FALSE
  <2>1. k..m \subseteq n..m /\ n \in n..m /\ n \notin k..m
    BY <1>5
  <2>. QED  BY <2>1, <1>6
<1>. QED  BY <1>5

(* The latest override is one there is.                                    *)
LEMMA LatestIsThere ==
  ASSUME PortionInv, NEW i
  PROVE  Menus!Open(i) \in 0..Len(v6)
<1>1. v6 \in Seq(Menus!Limit) /\ Len(v6) \in Nat /\ DOMAIN v6 = 1..Len(v6)
  BY DEF PortionInv, LimitInv
<1>. DEFINE rows == {n \in DOMAIN v6 : v6[n].item = i /\ v6[n].open}
            last == CHOOSE n \in rows : \A k \in rows : k <= n
<1>2. CASE rows = {}
  BY <1>1, <1>2 DEF Menus!Open
<1>3. CASE rows # {}
  <2>1. rows \in SUBSET (1..Len(v6))
    BY <1>1
  <2>. HIDE DEF rows
  <2>2. \E n \in rows : \A k \in rows : k <= n
    BY <1>1, <1>3, <2>1, Greatest
  <2>3. last \in rows
    BY <2>2
  <2>4. Menus!Open(i) = last
    BY <1>3 DEF Menus!Open, rows
  <2>. HIDE DEF last
  <2>. QED  BY <1>1, <2>1, <2>3, <2>4
<1>. QED  BY <1>2, <1>3

LEMMA OrderingKeeps ==
  ASSUME HouseAssumption, PortionInv, Menus!Ordering
  PROVE  PortionInv'
<1>1. v6 \in Seq(Menus!Limit) /\ Len(v6) \in Nat /\ DOMAIN v6 = 1..Len(v6)
  BY DEF PortionInv, LimitInv
<1>2. ASSUME NEW w \in Takers, NEW i \in Items, NEW qty \in 1..MaxPortions, Menus!ConfirmLoad(w, i, qty)
      PROVE  PortionInv'
  <2>. DEFINE new == [at |-> "take", item |-> i, qty |-> qty, limit |-> Menus!Open(i),
                      station |-> v4[i].station]
  <2>1. v8' = [v8 EXCEPT ![w] = new] /\ UNCHANGED v6
    BY <1>2 DEF Menus!ConfirmLoad, Menus!kitchen
  <2>2. new.limit \in 0..Len(v6) /\ new.qty \in 1..MaxPortions
    BY LatestIsThere
  <2>. HIDE DEF new
  <2>3. OrderInv' /\ \A o \in Takers : v8'[o] = IF o = w THEN new ELSE v8[o]
    BY <2>1 DEF PortionInv, OrderInv
  <2>4. Menus!NotOversold'
    BY <2>1 DEF PortionInv, LimitInv, Menus!NotOversold
  <2>. QED  BY <2>1, <2>2, <2>3, <2>4 DEF PortionInv, LimitInv
<1>3. ASSUME NEW i \in Items, Menus!SubmitGuestOrder(i)
      PROVE  PortionInv'
  <2>1. PICK m \in 0..Len(v6) : m = Menus!Open(i)
    BY LatestIsThere
  <2>2. MaxGuests \in Nat
    BY DEF HouseAssumption, Menus!MenuAssumption
  <2>3. /\ UNCHANGED v8
        /\ m # 0 => v6[m].guests < MaxGuests
        /\ v6' = [n \in DOMAIN v6 |-> IF n = m THEN [v6[n] EXCEPT !.guests = @ + 1] ELSE v6[n]]
    BY <1>3, <2>1 DEF Menus!SubmitGuestOrder
  <2>4. ASSUME NEW n \in 1..Len(v6)
        PROVE  /\ v6'[n] \in Menus!Limit
               /\ v6'[n].state = v6[n].state /\ v6'[n].initial = v6[n].initial
               /\ v6'[n].left = v6[n].left /\ v6'[n].sold = v6[n].sold
    <3>1. PICK was \in Menus!Limit : was = v6[n]
      BY <1>1
    <3>2. CASE n = m
      <4>. DEFINE row == [was EXCEPT !.guests = was.guests + 1]
      <4>1. v6'[n] = row
        BY <1>1, <2>3, <3>1, <3>2
      <4>2. was.guests < MaxGuests
        BY <1>1, <2>3, <3>1, <3>2
      <4>3. /\ row \in Menus!Limit /\ row.state = was.state /\ row.initial = was.initial
            /\ row.left = was.left /\ row.sold = was.sold
        BY <2>2, <4>2 DEF Menus!Limit
      <4>. QED  BY <3>1, <4>1, <4>3
    <3>3. CASE n # m
      BY <1>1, <2>3, <3>3
    <3>. QED  BY <3>2, <3>3
  <2>5. v6' \in Seq(Menus!Limit) /\ Len(v6') = Len(v6)
    <3>1. DOMAIN v6' = 1..Len(v6) /\ v6' = [n \in 1..Len(v6) |-> v6'[n]]
      BY <1>1, <2>3
    <3>2. v6' \in [1..Len(v6) -> Menus!Limit]
      BY <3>1, <2>4
    <3>. QED  BY <1>1, <3>2
  <2>6. \A n \in 1..Len(v6') : n > Len(v6) => v6'[n].sold = 0 /\ v6'[n].left = v6'[n].initial
    BY <1>1, <2>5
  <2>. QED  BY <1>1, <2>3, <2>4, <2>5, <2>6, LimitsChange
<1>. QED  BY <1>2, <1>3, ConfirmCommitKeeps DEF Menus!Ordering

LEMMA PortionsStart ==
  ASSUME HouseAssumption, Menus!Init
  PROVE  PortionInv
<1>1. v6 = <<>> /\ v8 = [w \in Takers |-> Menus!Idle]
  BY DEF Menus!Init
<1>. QED  BY <1>1 DEF PortionInv, LimitInv, OrderInv, Menus!NotOversold

LEMMA PortionsGoOn ==
  ASSUME HouseAssumption, PortionInv, Menus!Next
  PROVE  PortionInv'
<1>1. CASE Menus!Managing
  <2>1. UNCHANGED <<v6, v8>>
    BY <1>1 DEF Menus!Managing, Menus!CreateStation, Menus!UpdateStation, Menus!DeleteStation,
       Menus!CreateModifierGroup, Menus!UpdateModifierGroup, Menus!DeleteModifierGroup,
       Menus!CreateCategory, Menus!DeleteCategory, Menus!kitchen
  <2>. QED  BY <2>1, LimitsKept
<1>2. CASE Menus!Editing
  <2>1. PICK i \in Items :
          \/ \E s \in Stations, c \in Categories, gs, fresh \in SUBSET Modifiers, b \in BOOLEAN :
               Menus!Create(i, s, c, gs, fresh, b) \/ Menus!CatalogCreate(i, s, c, fresh, b)
          \/ \E s \in Stations, c \in Categories \cup {NULL}, gs \in SUBSET Modifiers, b \in BOOLEAN :
               Menus!Update(i, s, c, gs, b) \/ Menus!CatalogUpdate(i, s, b)
          \/ \E b \in BOOLEAN : Menus!MarkSoldOut(i, b)
          \/ Menus!Toggle86(i) \/ Menus!Delete(i)
    BY <1>2 DEF Menus!Editing
  <2>2. \A s, c, gs, fresh, b : Menus!Create(i, s, c, gs, fresh, b) => UNCHANGED <<v6, v8>>
    BY DEF Menus!Create, Menus!kitchen
  <2>3. \A s, c, fresh, b : Menus!CatalogCreate(i, s, c, fresh, b) => UNCHANGED <<v6, v8>>
    BY DEF Menus!CatalogCreate
  <2>4. \A s, c, gs, b : Menus!Update(i, s, c, gs, b) => UNCHANGED <<v6, v8>>
    BY DEF Menus!Update, Menus!kitchen
  <2>5. \A s, b : Menus!CatalogUpdate(i, s, b) => UNCHANGED <<v6, v8>>
    BY DEF Menus!CatalogUpdate
  <2>6. \A b : Menus!MarkSoldOut(i, b) => UNCHANGED <<v6, v8>>
    BY DEF Menus!MarkSoldOut, Menus!kitchen
  <2>7. Menus!Toggle86(i) \/ Menus!Delete(i) => UNCHANGED <<v6, v8>>
    BY <2>6 DEF Menus!Toggle86, Menus!Delete, Menus!kitchen
  <2>8. UNCHANGED <<v6, v8>>
    BY <2>1, <2>2, <2>3, <2>4, <2>5, <2>6, <2>7
  <2>. QED  BY <2>8, LimitsKept
<1>. QED  BY <1>1, <1>2, LimitingKeeps, OrderingKeeps DEF Menus!Next
-----------------------------------------------------------------------------
(* The cardinality of an instance is that of this module.                  *)
LEMMA AlarmsCounts ==
  ASSUME NEW S
  PROVE  Alarms!Cardinality(S) = Cardinality(S)
  BY Zenon DEF Alarms!Cardinality, Cardinality, Alarms!IsFiniteSet, IsFiniteSet

(* What an overdue ticket has not had the sweep has yet to look at; what a *)
(* job or the sweep is about is there.                                     *)
Seen(t, mon) ==
  mon # Alarms!Rest => \A x \in Tickets, kind \in Alarms!Kinds :
    t[x].state = "QUEUED" /\ mon.time >= t[x].queued
      /\ \/ kind = "unack" /\ mon.time - t[x].queued >= UnackLimit
         \/ kind = "delay" /\ mon.time - t[x].queued > Target
         \/ kind = "stale" /\ mon.time - t[x].queued >= StaleLimit
    => kind \in t[x].marked \/ <<x, kind>> \in mon.todo
AlertInv ==
  /\ v1 \in 0..LastTick
  /\ v2 \in [Tickets -> {Alarms!NoTicket} \cup Alarms!Ticket]
  /\ \A x \in Tickets : v2[x] # Alarms!NoTicket => v2[x].queued <= v1
  /\ \A j \in v3 : j.ticket \in Tickets /\ j.kind \in Alarms!Jobs
  /\ v4 \in {Alarms!Rest} \cup [at : {"alert"}, ticket : Tickets, kind : Alarms!Jobs]
  /\ v4 # Alarms!Rest => v2[v4.ticket] # Alarms!NoTicket
  /\ v5 \in {Alarms!Rest} \cup [at : {"walk"}, time : 0..LastTick, todo : SUBSET (Tickets \X Alarms!Kinds)]
  /\ v5 # Alarms!Rest => v5.time <= v1 /\ \A d \in v5.todo : v2[d[1]] # Alarms!NoTicket
  /\ Seen(v2, v5)

LEMMA AlertConstants ==
  ASSUME HouseAssumption
  PROVE  /\ Target \in Nat /\ Batch \in Nat /\ LastTick \in Nat
         /\ UnackLimit \in Nat \ {0} /\ StaleLimit \in Nat \ {0} /\ IdleLimit \in Nat \ {0}
  BY DEF HouseAssumption, Alarms!AlertsAssumption

LEMMA NobodyIsOverlooked ==
  ASSUME HouseAssumption, AlertInv
  PROVE  Alarms!NobodyOverlooked
<1>1. ASSUME NEW x \in Tickets, NEW kind \in Alarms!Kinds, v5 # Alarms!Rest, v5.todo = {},
             v2[x].state = "QUEUED", v5.time >= v2[x].queued, Alarms!Overdue(x, kind, v5.time)
      PROVE  kind \in v2[x].marked
  <2>1. \/ kind = "unack" /\ v5.time - v2[x].queued >= UnackLimit
        \/ kind = "delay" /\ v5.time - v2[x].queued > Target
        \/ kind = "stale" /\ v5.time - v2[x].queued >= StaleLimit
    BY <1>1 DEF Alarms!Overdue, Alarms!Kinds
  <2>. QED  BY <1>1, <2>1 DEF AlertInv, Seen
<1>. QED  BY <1>1 DEF Alarms!NobodyOverlooked

(* A ticket may be written that is not put into the queue, keeps its alerts*)
(* or is new there.                                                        *)
LEMMA TicketWritten ==
  ASSUME HouseAssumption, AlertInv, NEW x \in Tickets, NEW row \in Alarms!Ticket,
         v2' = [v2 EXCEPT ![x] = row], UNCHANGED <<v1, v4, v5>>,
         \A j \in v3' : j.ticket \in Tickets /\ j.kind \in Alarms!Jobs,
         row.queued <= v1,
         \/ row.state # "QUEUED"
         \/ row.queued = v1
         \/ v2[x] # Alarms!NoTicket /\ v2[x].state = "QUEUED" /\ row.queued = v2[x].queued
            /\ v2[x].marked \subseteq row.marked
  PROVE  AlertInv'
<1>1. row # Alarms!NoTicket /\ row.queued \in 0..LastTick /\ v1 \in 0..LastTick /\ LastTick \in Nat
  BY AlertConstants DEF Alarms!Ticket, Alarms!NoTicket, Alarms!Time, AlertInv
<1>2. /\ v2' \in [Tickets -> {Alarms!NoTicket} \cup Alarms!Ticket]
      /\ \A y \in Tickets : v2'[y] = IF y = x THEN row ELSE v2[y]
  BY DEF AlertInv
<1>3. \A y \in Tickets : v2'[y] # Alarms!NoTicket => v2'[y].queued <= v1
  BY <1>2 DEF AlertInv
<1>4. v4' # Alarms!Rest => v2'[v4'.ticket] # Alarms!NoTicket
  BY <1>1, <1>2 DEF AlertInv
<1>5. v5' # Alarms!Rest => v5'.time <= v1' /\ \A d \in v5'.todo : v2'[d[1]] # Alarms!NoTicket
  BY <1>1, <1>2 DEF AlertInv
<1>6. ASSUME v5 # Alarms!Rest, NEW y \in Tickets, NEW kind \in Alarms!Kinds,
             v2'[y].state = "QUEUED", v5.time >= v2'[y].queued,
             \/ kind = "unack" /\ v5.time - v2'[y].queued >= UnackLimit
             \/ kind = "delay" /\ v5.time - v2'[y].queued > Target
             \/ kind = "stale" /\ v5.time - v2'[y].queued >= StaleLimit
      PROVE  kind \in v2'[y].marked \/ <<y, kind>> \in v5.todo
  <2>1. CASE y # x
    BY <1>2, <1>6, <2>1 DEF AlertInv, Seen
  <2>2. CASE y = x /\ row.queued = v1
    <3>1. v5.time \in 0..LastTick /\ v5.time <= v1
      BY <1>6 DEF AlertInv
    <3>2. v5.time - row.queued = 0
      BY <1>1, <1>2, <1>6, <2>2, <3>1
    <3>. QED  BY <1>2, <1>6, <2>2, <3>2, AlertConstants
  <2>3. CASE y = x /\ v2[x].state = "QUEUED" /\ row.queued = v2[x].queued /\ v2[x].marked \subseteq row.marked
    BY <1>2, <1>6, <2>3 DEF AlertInv, Seen
  <2>. QED  BY <1>2, <1>6, <2>1, <2>2, <2>3
<1>7. Seen(v2', v5')
  BY <1>6 DEF Seen
<1>. QED  BY <1>2, <1>3, <1>4, <1>5, <1>7 DEF AlertInv

LEMMA KitchenKeeps ==
  ASSUME HouseAssumption, AlertInv, NEW x \in Tickets,
         \/ \E up \in BOOLEAN : Alarms!Confirm(x, up)
         \/ Alarms!Acknowledge(x) \/ Alarms!StartPreparation(x) \/ Alarms!MarkReady(x)
         \/ Alarms!CancelTicket(x) \/ Alarms!Park(x) \/ Alarms!Restore(x) \/ Alarms!ChangeDish(x)
  PROVE  AlertInv'
<1>1. v1 \in 0..LastTick /\ \A j \in v3 : j.ticket \in Tickets /\ j.kind \in Alarms!Jobs
  BY DEF AlertInv
<1>2. CASE \E up \in BOOLEAN : Alarms!Confirm(x, up)
  <2>. DEFINE row == [state |-> "QUEUED", queued |-> v1, marked |-> {}]
  <2>1. /\ v2' = [v2 EXCEPT ![x] = row] /\ UNCHANGED <<v1, v4, v5>>
        /\ v3' = v3 \/ v3' = v3 \cup Alarms!ScheduleItemTimers(x)
    BY <1>2 DEF Alarms!Confirm
  <2>2. row \in Alarms!Ticket /\ row.queued = v1
    BY <1>1 DEF Alarms!Ticket, Alarms!Time, Alarms!Cooking
  <2>3. \A j \in Alarms!ScheduleItemTimers(x) : j.ticket \in Tickets /\ j.kind \in Alarms!Jobs
    BY DEF Alarms!ScheduleItemTimers, Alarms!Jobs
  <2>4. \A j \in v3' : j.ticket \in Tickets /\ j.kind \in Alarms!Jobs
    BY <1>1, <2>1, <2>3
  <2>5. row.queued <= v1
    BY <1>1, <2>2
  <2>. HIDE DEF row
  <2>. QED  BY <2>1, <2>2, <2>4, <2>5, TicketWritten
<1>3. ASSUME NEW state \in Alarms!Cooking \cup {"PARKED", "DONE"}, state # "QUEUED",
             v2[x].state \in Alarms!Cooking \cup {"PARKED", "DONE"},
             v2' = [v2 EXCEPT ![x].state = state], UNCHANGED <<v1, v4, v5>>, v3' \subseteq v3
      PROVE  AlertInv'
  <2>1. v2[x] # Alarms!NoTicket
    BY <1>3 DEF Alarms!NoTicket, Alarms!Cooking
  <2>2. PICK was \in Alarms!Ticket : was = v2[x] /\ was.queued <= v1
    BY <2>1 DEF AlertInv
  <2>. DEFINE row == [was EXCEPT !.state = state]
  <2>3. v2' = [v2 EXCEPT ![x] = row]
    BY <1>3, <2>2
  <2>4. row \in Alarms!Ticket /\ row.state = state /\ row.queued = was.queued
    BY DEF Alarms!Ticket
  <2>. HIDE DEF row
  <2>. QED  BY <1>1, <1>3, <2>2, <2>3, <2>4, TicketWritten
<1>4. CASE Alarms!Acknowledge(x)
  BY <1>3, <1>4 DEF Alarms!Acknowledge, Alarms!Cooking
<1>5. CASE Alarms!StartPreparation(x)
  BY <1>3, <1>5 DEF Alarms!StartPreparation, Alarms!Cooking
<1>6. CASE Alarms!MarkReady(x)
  BY <1>3, <1>6 DEF Alarms!MarkReady, Alarms!Cooking
<1>7. CASE Alarms!CancelTicket(x)
  BY <1>3, <1>7 DEF Alarms!CancelTicket, Alarms!Cooking
<1>8. CASE Alarms!Park(x) \/ Alarms!Restore(x)
  BY <1>3, <1>8 DEF Alarms!Park, Alarms!Restore, Alarms!Cooking
<1>9. CASE Alarms!ChangeDish(x)
  <2>1. v2[x] # Alarms!NoTicket
    BY <1>9 DEF Alarms!ChangeDish, Alarms!NoTicket
  <2>2. PICK was \in Alarms!Ticket : was = v2[x]
    BY <2>1 DEF AlertInv
  <2>. DEFINE row == [state |-> "QUEUED", queued |-> v1, marked |-> was.marked \cap {"stale"}]
  <2>3. v2' = [v2 EXCEPT ![x] = row] /\ UNCHANGED <<v1, v3, v4, v5>>
    BY <1>9, <2>2 DEF Alarms!ChangeDish
  <2>4. row \in Alarms!Ticket /\ row.queued = v1
    BY <1>1 DEF Alarms!Ticket, Alarms!Time, Alarms!Cooking
  <2>5. row.queued <= v1
    BY <1>1, <2>4
  <2>. HIDE DEF row
  <2>. QED  BY <1>1, <2>3, <2>4, <2>5, TicketWritten
<1>. QED  BY <1>2, <1>4, <1>5, <1>6, <1>7, <1>8, <1>9

(* An alert that is sent is no more to be looked for.                      *)
LEMMA AlertSent ==
  ASSUME HouseAssumption, AlertInv, NEW x \in Tickets, NEW kind \in Alarms!Kinds,
         v2[x] # Alarms!NoTicket, Alarms!Alert(x, kind), UNCHANGED <<v1, v3>>,
         v4' = Alarms!Rest \/ v4' = v4,
         \/ v5' = v5
         \/ v5 # Alarms!Rest /\ v5' = [v5 EXCEPT !.todo = @ \ {<<x, kind>>}]
  PROVE  AlertInv'
<1>1. PICK was \in Alarms!Ticket : was = v2[x]
  BY DEF AlertInv
<1>. DEFINE row == [was EXCEPT !.marked = was.marked \cup {kind}]
<1>2. v2' = [v2 EXCEPT ![x] = row]
  BY <1>1 DEF Alarms!Alert
<1>3. /\ row \in Alarms!Ticket /\ row.state = was.state /\ row.queued = was.queued
      /\ row.marked = was.marked \cup {kind} /\ row # Alarms!NoTicket
  BY DEF Alarms!Ticket, Alarms!NoTicket
<1>. HIDE DEF row
<1>4. /\ v2' \in [Tickets -> {Alarms!NoTicket} \cup Alarms!Ticket]
      /\ \A y \in Tickets : v2'[y] = IF y = x THEN row ELSE v2[y]
  BY <1>2, <1>3 DEF AlertInv
<1>5. \A y \in Tickets : /\ v2'[y] = Alarms!NoTicket <=> v2[y] = Alarms!NoTicket
                         /\ v2'[y].state = v2[y].state /\ v2'[y].queued = v2[y].queued
                         /\ v2[y].marked \subseteq v2'[y].marked
  BY <1>1, <1>3, <1>4
<1>6. kind \in v2'[x].marked
  BY <1>3, <1>4
<1>7. \/ v5' = Alarms!Rest /\ v5 = Alarms!Rest
      \/ /\ v5 # Alarms!Rest /\ v5' # Alarms!Rest
         /\ v5' \in [at : {"walk"}, time : 0..LastTick, todo : SUBSET (Tickets \X Alarms!Kinds)]
         /\ v5'.time = v5.time /\ v5'.todo \subseteq v5.todo /\ v5.todo \subseteq v5'.todo \cup {<<x, kind>>}
  <2>1. CASE v5 = Alarms!Rest
    BY <2>1
  <2>2. CASE v5 # Alarms!Rest
    <3>1. PICK mon \in [at : {"walk"}, time : 0..LastTick, todo : SUBSET (Tickets \X Alarms!Kinds)] : mon = v5
      BY <2>2 DEF AlertInv
    <3>2. PICK todo \in SUBSET (Tickets \X Alarms!Kinds) :
            /\ v5' = [mon EXCEPT !.todo = todo] /\ todo \subseteq mon.todo
            /\ mon.todo \subseteq todo \cup {<<x, kind>>}
      <4>1. mon.todo \in SUBSET (Tickets \X Alarms!Kinds) /\ [mon EXCEPT !.todo = mon.todo] = mon
        OBVIOUS
      <4>2. mon.todo \ {<<x, kind>>} \in SUBSET (Tickets \X Alarms!Kinds)
        BY <4>1
      <4>. QED  BY <3>1, <4>1, <4>2
    <3>3. /\ v5' \in [at : {"walk"}, time : 0..LastTick, todo : SUBSET (Tickets \X Alarms!Kinds)]
          /\ v5'.time = mon.time /\ v5'.todo = todo /\ v5'.at = "walk"
      BY <3>2
    <3>4. v5' # Alarms!Rest
      BY <3>3 DEF Alarms!Rest
    <3>. QED  BY <2>2, <3>1, <3>2, <3>3, <3>4
  <2>. QED  BY <2>1, <2>2
<1>8. v5' # Alarms!Rest => v5'.time <= v1' /\ \A d \in v5'.todo : v2'[d[1]] # Alarms!NoTicket
  <2>1. \A d \in Tickets \X Alarms!Kinds : d[1] \in Tickets
    OBVIOUS
  <2>. QED  BY <1>5, <1>7, <2>1 DEF AlertInv
<1>9. Seen(v2', v5')
  <2>1. ASSUME v5' # Alarms!Rest, NEW y \in Tickets, NEW k \in Alarms!Kinds,
             v2'[y].state = "QUEUED", v5'.time >= v2'[y].queued,
             \/ k = "unack" /\ v5'.time - v2'[y].queued >= UnackLimit
             \/ k = "delay" /\ v5'.time - v2'[y].queued > Target
             \/ k = "stale" /\ v5'.time - v2'[y].queued >= StaleLimit
      PROVE  k \in v2'[y].marked \/ <<y, k>> \in v5'.todo
    <3>1. k \in v2[y].marked \/ <<y, k>> \in v5.todo
      BY <1>5, <1>7, <2>1 DEF AlertInv, Seen
    <3>2. CASE <<y, k>> = <<x, kind>>
      BY <1>6, <3>2
    <3>3. CASE <<y, k>> # <<x, kind>>
      BY <1>5, <1>7, <2>1, <3>1, <3>3
    <3>. QED  BY <3>2, <3>3
  <2>. QED  BY <2>1 DEF Seen
<1>10. v4' \in {Alarms!Rest} \cup [at : {"alert"}, ticket : Tickets, kind : Alarms!Jobs]
       /\ (v4' # Alarms!Rest => v2'[v4'.ticket] # Alarms!NoTicket)
  <2>1. CASE v4' = Alarms!Rest
    BY <2>1
  <2>2. CASE v4' = v4 /\ v4 # Alarms!Rest
    <3>1. v4 \in [at : {"alert"}, ticket : Tickets, kind : Alarms!Jobs] /\ v4.ticket \in Tickets
          /\ v2[v4.ticket] # Alarms!NoTicket
      BY <2>2 DEF AlertInv
    <3>. QED  BY <1>5, <2>2, <3>1
  <2>. QED  BY <2>1, <2>2
<1>. QED  BY <1>4, <1>5, <1>7, <1>8, <1>9, <1>10 DEF AlertInv

(* A sweep begins with every ticket that may lack an alert.                *)
LEMMA SweepBegins ==
  ASSUME HouseAssumption, OneBatch, AlertInv, NEW read \in Alarms!Batches, Alarms!CheckSlaBreaches(read)
  PROVE  AlertInv'
<1>. DEFINE all == {x \in Tickets : Alarms!LacksAlert(x)}
            todo == {d \in read \X Alarms!Kinds : d[2] \in Alarms!Due(d[1])}
            mon == [at |-> "walk", time |-> v1, todo |-> todo]
<1>1. read = all
  <2>1. read \subseteq all /\ all \subseteq Tickets
    BY DEF Alarms!Batches
  <2>2. Alarms!Cardinality(read) = IF Alarms!Cardinality(all) > Batch THEN Batch ELSE Alarms!Cardinality(all)
    BY DEF Alarms!Batches
  <2>. HIDE DEF all
  <2>3. IsFiniteSet(all) /\ Cardinality(all) <= Cardinality(Tickets)
    BY <2>1, FS_Subset DEF OneBatch
  <2>4. Cardinality(all) \in Nat /\ Cardinality(Tickets) \in Nat /\ Batch \in Nat
    BY <2>3, FS_CardinalityType, AlertConstants DEF OneBatch
  <2>5. Cardinality(read) = Cardinality(all)
    BY <2>2, <2>3, <2>4, AlarmsCounts DEF OneBatch
  <2>. QED  BY <2>1, <2>3, <2>5, FS_Subset
<1>2. v5' = mon /\ UNCHANGED <<v1, v2, v3, v4>>
  BY DEF Alarms!CheckSlaBreaches
<1>3. v1 \in 0..LastTick /\ todo \in SUBSET (Tickets \X Alarms!Kinds)
  BY <1>1 DEF AlertInv
<1>4. \A d \in todo : v2[d[1]] # Alarms!NoTicket
  BY <1>1 DEF Alarms!LacksAlert
<1>5. ASSUME NEW x \in Tickets, NEW kind \in Alarms!Kinds, v2[x].state = "QUEUED",
             \/ kind = "unack" /\ v1 - v2[x].queued >= UnackLimit
             \/ kind = "delay" /\ v1 - v2[x].queued > Target
             \/ kind = "stale" /\ v1 - v2[x].queued >= StaleLimit
      PROVE  kind \in v2[x].marked \/ <<x, kind>> \in todo
  <2>1. v2[x] # Alarms!NoTicket
    BY <1>5 DEF Alarms!NoTicket
  <2>2. ASSUME kind \notin v2[x].marked
        PROVE  Alarms!LacksAlert(x)
    BY <1>5, <2>1, <2>2 DEF Alarms!LacksAlert, Alarms!Kinds, Alarms!Cooking
  <2>3. Alarms!Overdue(x, kind, v1)
    BY <1>5 DEF Alarms!Overdue
  <2>. QED  BY <1>1, <2>2, <2>3 DEF Alarms!Due
<1>. HIDE DEF todo
<1>6. Seen(v2', v5')
  BY <1>2, <1>5 DEF Seen
<1>7. v5' \in [at : {"walk"}, time : 0..LastTick, todo : SUBSET (Tickets \X Alarms!Kinds)]
      /\ v5'.time <= v1' /\ v5'.todo = todo
  BY <1>2, <1>3
<1>. QED  BY <1>2, <1>4, <1>6, <1>7 DEF AlertInv

LEMMA AlertingKeeps ==
  ASSUME HouseAssumption, OneBatch, AlertInv, Alarms!Alerting
  PROVE  AlertInv'
<1>1. ASSUME NEW j \in v3, Alarms!HandleCheck(j) PROVE AlertInv'
  <2>1. /\ j.ticket \in Tickets /\ j.kind \in Alarms!Jobs
        /\ \A k \in v3 : k.ticket \in Tickets /\ k.kind \in Alarms!Jobs
    BY DEF AlertInv
  <2>2. /\ v3' = v3 \ {j} /\ UNCHANGED <<v1, v2, v5>>
        /\ v4' = IF Alarms!Unalerted(j.ticket, j.kind)
                 THEN [at |-> "alert", ticket |-> j.ticket, kind |-> j.kind] ELSE Alarms!Rest
    BY <1>1 DEF Alarms!HandleCheck
  <2>3. Alarms!Unalerted(j.ticket, j.kind) => v2[j.ticket] # Alarms!NoTicket
    BY DEF Alarms!Unalerted, Alarms!NoTicket, Alarms!Cooking
  <2>4. /\ v4' \in {Alarms!Rest} \cup [at : {"alert"}, ticket : Tickets, kind : Alarms!Jobs]
        /\ v4' # Alarms!Rest => v2'[v4'.ticket] # Alarms!NoTicket
    BY <2>1, <2>2, <2>3
  <2>. QED  BY <2>1, <2>2, <2>4 DEF AlertInv
<1>2. CASE Alarms!HandleAlert
  <2>1. /\ v4.ticket \in Tickets /\ v4.kind \in Alarms!Kinds /\ v2[v4.ticket] # Alarms!NoTicket
    BY <1>2 DEF Alarms!HandleAlert, AlertInv, Alarms!Jobs, Alarms!Kinds
  <2>2. PICK x \in Tickets, kind \in Alarms!Kinds : x = v4.ticket /\ kind = v4.kind
    BY <2>1
  <2>3. Alarms!Alert(x, kind) /\ v4' = Alarms!Rest /\ UNCHANGED <<v1, v3, v5>>
    BY <1>2, <2>2 DEF Alarms!HandleAlert
  <2>. QED  BY <2>1, <2>2, <2>3, AlertSent
<1>3. CASE Alarms!SweepEnds
  <2>1. v5' = Alarms!Rest /\ UNCHANGED <<v1, v2, v3, v4>>
    BY <1>3 DEF Alarms!SweepEnds
  <2>. QED  BY <2>1 DEF AlertInv, Seen
<1>4. CASE Alarms!Restart
  <2>1. /\ v4' = Alarms!Rest /\ v5' = Alarms!Rest /\ UNCHANGED <<v1, v2>>
        /\ v3' = IF v4 = Alarms!Rest THEN v3
                 ELSE v3 \cup {[ticket |-> v4.ticket, kind |-> v4.kind, due |-> v1]}
    BY <1>4 DEF Alarms!Restart
  <2>2. v4 # Alarms!Rest => v4.ticket \in Tickets /\ v4.kind \in Alarms!Jobs
    BY DEF AlertInv
  <2>3. \A j \in v3' : j.ticket \in Tickets /\ j.kind \in Alarms!Jobs
    BY <2>1, <2>2 DEF AlertInv
  <2>. QED  BY <2>1, <2>3 DEF AlertInv, Seen
<1>5. ASSUME NEW d \in Tickets \X Alarms!Kinds, Alarms!SweepAlert(d) PROVE AlertInv'
  <2>1. PICK x \in Tickets, kind \in Alarms!Kinds : d = <<x, kind>>
    OBVIOUS
  <2>2. /\ v5 # Alarms!Rest /\ v2[x] # Alarms!NoTicket /\ Alarms!Alert(x, kind)
        /\ v5' = [v5 EXCEPT !.todo = @ \ {<<x, kind>>}] /\ UNCHANGED <<v1, v3, v4>>
    BY <1>5, <2>1 DEF Alarms!SweepAlert, AlertInv
  <2>. QED  BY <2>2, AlertSent
<1>. QED  BY <1>1, <1>2, <1>3, <1>4, <1>5, SweepBegins DEF Alarms!Alerting

LEMMA AlertsStart ==
  ASSUME HouseAssumption, Alarms!Init
  PROVE  AlertInv
<1>1. /\ v1 = 0 /\ v2 = [x \in Tickets |-> Alarms!NoTicket] /\ v3 = {} /\ v4 = Alarms!Rest
      /\ v5 = Alarms!Rest
  BY DEF Alarms!Init
<1>2. 0 \in 0..LastTick
  BY AlertConstants
<1>. QED  BY <1>1, <1>2 DEF AlertInv, Seen

LEMMA AlertsGoOn ==
  ASSUME HouseAssumption, OneBatch, AlertInv, Alarms!Next
  PROVE  AlertInv'
<1>1. CASE Alarms!Tick
  <2>1. v1' = v1 + 1 /\ v1 < LastTick /\ UNCHANGED <<v2, v3, v4, v5>>
    BY <1>1 DEF Alarms!Tick
  <2>2. v1 \in 0..LastTick /\ LastTick \in Nat
    BY AlertConstants DEF AlertInv
  <2>3. v1' \in 0..LastTick
    BY <2>1, <2>2
  <2>4. \A x \in Tickets : v2[x] # Alarms!NoTicket => v2[x].queued \in 0..LastTick
    BY DEF AlertInv, Alarms!Ticket, Alarms!Time
  <2>5. v5 # Alarms!Rest => v5.time \in 0..LastTick
    BY DEF AlertInv
  <2>. QED  BY <2>1, <2>2, <2>3, <2>4, <2>5 DEF AlertInv
<1>2. CASE Alarms!Seats
  <2>1. UNCHANGED <<v1, v2, v3, v4, v5>>
    BY <1>2 DEF Alarms!Seats, Alarms!CheckIdleSessions, Alarms!OpenSeat, Alarms!OrderMore, Alarms!CloseSeat
  <2>. QED  BY <2>1 DEF AlertInv
<1>3. CASE Alarms!Kitchen
  BY <1>3, KitchenKeeps DEF Alarms!Kitchen
<1>. QED  BY <1>1, <1>2, <1>3, AlertingKeeps DEF Alarms!Next
-----------------------------------------------------------------------------
LEMMA TellingsCounts ==
  ASSUME NEW S
  PROVE  Tellings!Cardinality(S) = Cardinality(S)
  BY Zenon DEF Tellings!Cardinality, Cardinality, Tellings!IsFiniteSet, IsFiniteSet

(* A screen that is in no manager's room; how screens are joined.          *)
Plain(rooms) == rooms # {} /\ \A b \in Venues : Tellings!managerRoom(b) \notin rooms
Joined(s) ==
  \A m \in Hearers :
    /\ \A k \in Hearers : Tellings!staffRoom(k) \in s[m] => k = m
    /\ (\E b \in Venues : Tellings!stationRoom(b) \in s[m]) => Plain(s[m])
(* Of an event: nobody heard of it before it is told; who is yet to be told*)
(* has not heard, and who heard was to be told and has it in his inbox.    *)
Fair(s, in, t, c) ==
  /\ t = Tellings!Idle => \A m \in Hearers : c[m] = 0
  /\ t # Tellings!Idle =>
       /\ t.todo \subseteq t.first
       /\ \A m \in t.first \ t.todo : in[m] # "none"
       /\ t.at = "emit" => t.now \in t.todo /\ in[t.now] # "none"
       /\ t.kind # "TICKET" => \A m \in Hearers : Plain(s[m]) =>
            /\ c[m] <= 1 /\ (m \in t.todo => c[m] = 0)
            /\ c[m] = 1 => m \in t.first /\ in[m] # "none"
Inbox == [Hearers -> {"none", "unread", "read"}]
Heard == [Hearers -> 0..MaxTold]
NoticeInv ==
  /\ v2 = [m \in Hearers |-> v2[m]] /\ Joined(v2)
  /\ v3 \in [Events -> Inbox] /\ v4 \in [Events -> {Tellings!Idle} \cup Tellings!Task]
  /\ v5 \in [Events -> Heard]
  /\ \A e \in Events : Fair(v2, v3[e], v4[e], v5[e])

LEMMA NoticesAreHeld ==
  ASSUME NoticeInv
  PROVE  Tellings!NoticesHold
<1>1. ASSUME NEW e \in Events, v4[e] # Tellings!Idle
      PROVE  /\ \A m \in v4[e].first \ v4[e].todo : v3[e][m] # "none"
             /\ v4[e].kind # "TICKET" => \A m \in Hearers : Plain(v2[m]) =>
                  /\ v5[e][m] <= 1
                  /\ v5[e][m] = 1 => m \in v4[e].first /\ v3[e][m] # "none"
  BY <1>1 DEF NoticeInv, Fair
<1>2. Tellings!ToldOnce
  BY <1>1 DEF Tellings!ToldOnce, Plain
<1>3. Tellings!StationNotTold
  <2>1. ASSUME NEW e \in Events, v4[e] # Tellings!Idle, v4[e].kind = "READY", NEW m \in Hearers,
               \E b \in Venues : Tellings!stationRoom(b) \in v2[m], m \notin v4[e].first
        PROVE  v5[e][m] = 0
    <3>1. Plain(v2[m])
      BY <2>1 DEF NoticeInv, Joined
    <3>2. v5[e][m] \in 0..MaxTold
      BY DEF NoticeInv, Heard
    <3>. QED  BY <1>1, <2>1, <3>1, <3>2
  <2>. QED  BY <2>1 DEF Tellings!StationNotTold
<1>. QED  BY <1>2, <1>3 DEF Tellings!NoticesHold

(* One event goes on; the others, and the screens, do not.                 *)
LEMMA OneEvent ==
  ASSUME NoticeInv, NEW e \in Events, UNCHANGED v2, NEW in \in Inbox,
         NEW t \in {Tellings!Idle} \cup Tellings!Task, NEW c \in Heard,
         v3' = [v3 EXCEPT ![e] = in], v4' = [v4 EXCEPT ![e] = t], v5' = [v5 EXCEPT ![e] = c],
         Fair(v2, in, t, c)
  PROVE  NoticeInv'
<1>1. /\ v3' \in [Events -> Inbox] /\ v4' \in [Events -> {Tellings!Idle} \cup Tellings!Task]
      /\ v5' \in [Events -> Heard]
      /\ \A d \in Events : /\ v3'[d] = IF d = e THEN in ELSE v3[d]
                           /\ v4'[d] = IF d = e THEN t ELSE v4[d]
                           /\ v5'[d] = IF d = e THEN c ELSE v5[d]
  BY DEF NoticeInv
<1>2. \A d \in Events : Fair(v2', v3'[d], v4'[d], v5'[d])
  BY <1>1 DEF NoticeInv
<1>. QED  BY <1>1, <1>2 DEF NoticeInv

(* What a member hears of a message to some rooms.                         *)
LEMMA Hearing ==
  ASSUME HouseAssumption, NoticeInv, NEW e \in Events, NEW rooms, IsFiniteSet(rooms),
         Tellings!Dispatch(e, rooms)
  PROVE  \E c \in Heard :
           /\ v5' = [v5 EXCEPT ![e] = c]
           /\ \A m \in Hearers :
                /\ v2[m] \cap rooms = {} => c[m] = v5[e][m]
                /\ (\E r : rooms = {r}) => c[m] <= v5[e][m] + 1
<1>. DEFINE c == [m \in Hearers |->
       IF v5[e][m] + Tellings!Hears(m, rooms) > MaxTold THEN MaxTold
       ELSE v5[e][m] + Tellings!Hears(m, rooms)]
<1>1. v5' = [v5 EXCEPT ![e] = c]
  BY DEF Tellings!Dispatch
<1>2. MaxTold \in Nat /\ v5[e] \in Heard
  BY DEF HouseAssumption, Tellings!NoticesAssumption, NoticeInv
<1>3. \A m \in Hearers : Tellings!Hears(m, rooms) = Cardinality(v2[m] \cap rooms)
  BY TellingsCounts DEF Tellings!Hears
<1>4. ASSUME NEW m \in Hearers
      PROVE  /\ Cardinality(v2[m] \cap rooms) \in Nat
             /\ v2[m] \cap rooms = {} => Cardinality(v2[m] \cap rooms) = 0
             /\ (\E r : rooms = {r}) => Cardinality(v2[m] \cap rooms) <= 1
  <2>1. IsFiniteSet(v2[m] \cap rooms)
    BY FS_Subset
  <2>2. Cardinality(v2[m] \cap rooms) \in Nat
    BY <2>1, FS_CardinalityType
  <2>3. v2[m] \cap rooms = {} => Cardinality(v2[m] \cap rooms) = 0
    BY FS_EmptySet
  <2>4. ASSUME NEW r, rooms = {r} PROVE Cardinality(v2[m] \cap rooms) <= 1
    <3>1. Cardinality(rooms) = 1
      BY <2>4, FS_Singleton
    <3>2. v2[m] \cap rooms \subseteq rooms
      OBVIOUS
    <3>. QED  BY <3>1, <3>2, FS_Subset
  <2>. QED  BY <2>2, <2>3, <2>4
<1>5. ASSUME NEW m \in Hearers
      PROVE  /\ c[m] \in 0..MaxTold
             /\ v2[m] \cap rooms = {} => c[m] = v5[e][m]
             /\ (\E r : rooms = {r}) => c[m] <= v5[e][m] + 1
  <2>1. v5[e][m] \in 0..MaxTold
    BY <1>2 DEF Heard
  <2>2. PICK n \in Nat : n = Cardinality(v2[m] \cap rooms)
    BY <1>4
  <2>3. c[m] = IF v5[e][m] + n > MaxTold THEN MaxTold ELSE v5[e][m] + n
    BY <1>3, <2>2
  <2>. HIDE DEF c
  <2>. QED  BY <1>2, <1>4, <2>1, <2>2, <2>3
<1>6. c \in Heard
  <2>1. c = [m \in Hearers |-> c[m]]
    OBVIOUS
  <2>. HIDE DEF c
  <2>. QED  BY <1>5, <2>1 DEF Heard
<1>. HIDE DEF c
<1>. QED  BY <1>1, <1>5, <1>6

(* An event starts to be told; when an item is ready, to the managers.     *)
LEMMA TellingStarts ==
  ASSUME HouseAssumption, NoticeInv, NEW e \in Events, NEW kind \in Tellings!Kinds, NEW b \in Venues,
         NEW who \in SUBSET Hearers, Tellings!Starts(e, kind, b, who),
         v5' = v5 \/ Tellings!Dispatch(e, {Tellings!managerRoom(b)})
  PROVE  NoticeInv'
<1>. DEFINE t == [at |-> IF who # {} THEN "row" ELSE IF kind = "ONE" THEN "done" ELSE "room",
                  kind |-> kind, branch |-> b, todo |-> who, first |-> who, now |-> NULL]
<1>1. v4[e] = Tellings!Idle /\ v4' = [v4 EXCEPT ![e] = t] /\ UNCHANGED <<v2, v3>>
  BY DEF Tellings!Starts
<1>2. /\ t \in Tellings!Task /\ t # Tellings!Idle /\ t.at # "emit" /\ t.todo = who /\ t.first = who
  BY DEF Tellings!Task, Tellings!Idle
<1>. HIDE DEF t
<1>3. v3[e] \in Inbox /\ v3' = [v3 EXCEPT ![e] = v3[e]] /\ v5[e] \in Heard
      /\ \A m \in Hearers : v5[e][m] = 0
  BY <1>1 DEF NoticeInv, Fair
<1>4. \E c \in Heard : v5' = [v5 EXCEPT ![e] = c] /\ \A m \in Hearers : Plain(v2[m]) => c[m] = 0
  <2>1. CASE v5' = v5
    <3>1. v5' = [v5 EXCEPT ![e] = v5[e]]
      BY <2>1 DEF NoticeInv
    <3>. QED  BY <1>3, <3>1
  <2>2. CASE Tellings!Dispatch(e, {Tellings!managerRoom(b)})
    <3>. DEFINE rooms == {Tellings!managerRoom(b)}
    <3>1. IsFiniteSet(rooms)
      BY FS_Singleton
    <3>2. \A m \in Hearers : Plain(v2[m]) => v2[m] \cap rooms = {}
      BY DEF Plain
    <3>3. Tellings!Dispatch(e, rooms)
      BY <2>2
    <3>. HIDE DEF rooms
    <3>. QED  BY <1>3, <3>1, <3>2, <3>3, Hearing
  <2>. QED  BY <2>1, <2>2
<1>5. PICK c \in Heard : v5' = [v5 EXCEPT ![e] = c] /\ \A m \in Hearers : Plain(v2[m]) => c[m] = 0
  BY <1>4
<1>6. Fair(v2, v3[e], t, c)
  BY <1>2, <1>5 DEF Fair
<1>. QED  BY <1>1, <1>2, <1>3, <1>5, <1>6, OneEvent

LEMMA StartsKeep ==
  ASSUME HouseAssumption, NoticeInv, NEW e \in Events, NEW b \in Venues,
         \/ \E kind \in Tellings!Kinds : Tellings!NotifyAll(e, kind, b)
         \/ \E x, y \in Hearers \cup {NULL} : Tellings!SubmitServiceRequest(e, b, x, y)
         \/ \E m \in Hearers : Tellings!ItemReady(e, b, m)
         \/ Tellings!TicketQueued(e, b)
  PROVE  NoticeInv'
<1>1. ASSUME NEW kind \in Tellings!Kinds, Tellings!NotifyAll(e, kind, b) PROVE NoticeInv'
  <2>1. Tellings!Recipients(kind, b) \in SUBSET Hearers
    BY DEF Tellings!Recipients
  <2>. QED  BY <1>1, <2>1, TellingStarts DEF Tellings!NotifyAll
<1>2. ASSUME NEW x \in Hearers \cup {NULL}, NEW y \in Hearers \cup {NULL},
             Tellings!SubmitServiceRequest(e, b, x, y)
      PROVE  NoticeInv'
  <2>1. PICK who \in Tellings!RequestRecipient(x, y) : Tellings!Starts(e, "ONE", b, who)
    BY <1>2 DEF Tellings!SubmitServiceRequest
  <2>2. who \in SUBSET Hearers
    BY DEF Tellings!RequestRecipient
  <2>3. "ONE" \in Tellings!Kinds /\ v5' = v5
    BY <1>2 DEF Tellings!Kinds, Tellings!SubmitServiceRequest
  <2>. QED  BY <2>1, <2>2, <2>3, TellingStarts
<1>3. ASSUME NEW m \in Hearers, Tellings!ItemReady(e, b, m) PROVE NoticeInv'
  <2>1. /\ Tellings!Starts(e, "READY", b, {m}) /\ "READY" \in Tellings!Kinds
        /\ Tellings!Dispatch(e, {Tellings!managerRoom(b)}) /\ {m} \in SUBSET Hearers
    BY <1>3 DEF Tellings!ItemReady, Tellings!PingRooms, Tellings!Kinds
  <2>. QED  BY <2>1, TellingStarts
<1>4. CASE Tellings!TicketQueued(e, b)
  <2>1. /\ Tellings!Starts(e, "TICKET", b, {}) /\ "TICKET" \in Tellings!Kinds
        /\ v5' = v5 /\ {} \in SUBSET Hearers
    BY <1>4 DEF Tellings!TicketQueued, Tellings!Kinds
  <2>. QED  BY <2>1, TellingStarts
<1>. QED  BY <1>1, <1>2, <1>3, <1>4

(* The row is written first,                                               *)
LEMMA CreatesKeeps ==
  ASSUME HouseAssumption, NoticeInv, NEW e \in Events, NEW m \in Hearers, Tellings!NotifyCreates(e, m)
  PROVE  NoticeInv'
<1>1. /\ v4[e].at = "row" /\ m \in v4[e].todo /\ UNCHANGED <<v2, v5>>
      /\ v3' = [v3 EXCEPT ![e] = [v3[e] EXCEPT ![m] = "unread"]]
      /\ v4' = [v4 EXCEPT ![e] = [v4[e] EXCEPT !.at = "emit", !.now = m]]
  BY DEF Tellings!NotifyCreates
<1>2. v4[e] # Tellings!Idle
  BY <1>1 DEF Tellings!Idle
<1>3. PICK was \in Tellings!Task : was = v4[e]
  BY <1>2 DEF NoticeInv
<1>. DEFINE t == [was EXCEPT !.at = "emit", !.now = m]
            in == [v3[e] EXCEPT ![m] = "unread"]
<1>4. /\ t \in Tellings!Task /\ t # Tellings!Idle /\ t.now = m /\ t.kind = was.kind
      /\ t.todo = was.todo /\ t.first = was.first /\ t.at = "emit"
  BY DEF Tellings!Task, Tellings!Idle
<1>5. /\ v3[e] \in Inbox /\ in \in Inbox /\ in[m] # "none"
      /\ \A k \in Hearers : v3[e][k] # "none" => in[k] # "none"
      /\ was.first \subseteq Hearers
  BY DEF NoticeInv, Inbox, Tellings!Task
<1>6. v5[e] \in Heard /\ v5' = [v5 EXCEPT ![e] = v5[e]]
  BY <1>1 DEF NoticeInv
<1>7. v3' = [v3 EXCEPT ![e] = in] /\ v4' = [v4 EXCEPT ![e] = t]
  BY <1>1, <1>3
<1>. HIDE DEF t, in
<1>8. Fair(v2, v3[e], was, v5[e])
  BY <1>3 DEF NoticeInv
<1>9. Fair(v2, in, t, v5[e])
  BY <1>1, <1>2, <1>3, <1>4, <1>5, <1>8 DEF Fair
<1>10. v2' = v2
  BY <1>1
<1>11. in \in Inbox /\ t \in {Tellings!Idle} \cup Tellings!Task
  BY <1>4, <1>5
<1>. QED  BY <1>6, <1>7, <1>9, <1>10, <1>11, OneEvent

(* then the screen is told, which is nobody else's.                        *)
LEMMA EmitsKeeps ==
  ASSUME HouseAssumption, NoticeInv, NEW e \in Events, Tellings!NotifyEmits(e)
  PROVE  NoticeInv'
<1>1. v4[e].at = "emit" /\ v4[e] # Tellings!Idle
  BY DEF Tellings!NotifyEmits, Tellings!Idle
<1>2. PICK was \in Tellings!Task : was = v4[e]
  BY <1>1 DEF NoticeInv
<1>3. Fair(v2, v3[e], was, v5[e]) /\ v3[e] \in Inbox /\ v5[e] \in Heard
  BY <1>2 DEF NoticeInv
<1>4. /\ was.now \in was.todo /\ v3[e][was.now] # "none" /\ was.todo \subseteq was.first
      /\ was.first \subseteq Hearers
  BY <1>1, <1>2, <1>3 DEF Fair, Tellings!Task
<1>5. PICK m \in Hearers : m = was.now
  BY <1>4
<1>6. \E at \in {"row", "done", "room"} :
        v4' = [v4 EXCEPT ![e] = [was EXCEPT !.at = at, !.todo = was.todo \ {m}, !.now = NULL]]
  BY <1>2, <1>5 DEF Tellings!NotifyEmits
<1>7. PICK at \in {"row", "done", "room"} :
        v4' = [v4 EXCEPT ![e] = [was EXCEPT !.at = at, !.todo = was.todo \ {m}, !.now = NULL]]
  BY <1>6
<1>. DEFINE t == [was EXCEPT !.at = at, !.todo = was.todo \ {m}, !.now = NULL]
            rooms == {Tellings!staffRoom(m)}
<1>8. /\ t \in Tellings!Task /\ t # Tellings!Idle /\ t.kind = was.kind
      /\ t.todo = was.todo \ {m} /\ t.first = was.first /\ t.at # "emit"
  BY DEF Tellings!Task, Tellings!Idle
<1>9. Tellings!Dispatch(e, rooms) /\ UNCHANGED <<v2, v3>>
  BY <1>2, <1>5 DEF Tellings!NotifyEmits
<1>10. IsFiniteSet(rooms) /\ \E r : rooms = {r}
  BY FS_Singleton
<1>11. \A k \in Hearers : k # m => v2[k] \cap rooms = {}
  BY DEF NoticeInv, Joined
<1>. HIDE DEF t, rooms
<1>12. PICK c \in Heard :
         /\ v5' = [v5 EXCEPT ![e] = c]
         /\ \A k \in Hearers : /\ v2[k] \cap rooms = {} => c[k] = v5[e][k]
                               /\ c[k] <= v5[e][k] + 1
  <2>1. Tellings!Dispatch(e, rooms)
    BY <1>9
  <2>2. IsFiniteSet(rooms)
    BY <1>10
  <2>3. \E c \in Heard :
           /\ v5' = [v5 EXCEPT ![e] = c]
           /\ \A k \in Hearers :
                /\ v2[k] \cap rooms = {} => c[k] = v5[e][k]
                /\ (\E r : rooms = {r}) => c[k] <= v5[e][k] + 1
    BY <2>1, <2>2, Hearing
  <2>. QED  BY <2>3, <1>10
<1>13. \A k \in Hearers : Plain(v2[k]) /\ t.kind # "TICKET" =>
         /\ c[k] <= 1 /\ (k \in t.todo => c[k] = 0)
         /\ c[k] = 1 => k \in t.first /\ v3[e][k] # "none"
  <2>1. SUFFICES ASSUME NEW k \in Hearers, Plain(v2[k]), t.kind # "TICKET"
                 PROVE  /\ c[k] <= 1 /\ (k \in t.todo => c[k] = 0)
                        /\ c[k] = 1 => k \in t.first /\ v3[e][k] # "none"
    OBVIOUS
  <2>2. /\ v5[e][k] <= 1 /\ (k \in was.todo => v5[e][k] = 0)
        /\ v5[e][k] = 1 => k \in was.first /\ v3[e][k] # "none"
    BY <1>1, <1>2, <1>3, <1>8, <2>1 DEF Fair
  <2>3. CASE k = m
    BY <1>4, <1>5, <1>8, <1>12, <2>2, <2>3
  <2>4. CASE k # m
    BY <1>8, <1>11, <1>12, <2>2, <2>4
  <2>. QED  BY <2>3, <2>4
<1>14. Fair(v2, v3[e], t, c)
  <2>1. \A k \in t.first \ t.todo : v3[e][k] # "none"
    BY <1>1, <1>2, <1>3, <1>4, <1>5, <1>8 DEF Fair
  <2>. QED  BY <1>4, <1>8, <1>13, <2>1 DEF Fair
<1>15. v3' = [v3 EXCEPT ![e] = v3[e]] /\ v4' = [v4 EXCEPT ![e] = t]
  BY <1>7, <1>9 DEF NoticeInv, t
<1>. QED  BY <1>3, <1>8, <1>9, <1>12, <1>14, <1>15, OneEvent

(* After a fan-out the managers are told.                                  *)
LEMMA BroadcastKeeps ==
  ASSUME HouseAssumption, NoticeInv, NEW e \in Events, Tellings!Broadcast(e)
  PROVE  NoticeInv'
<1>1. v4[e].at = "room" /\ v4[e] # Tellings!Idle /\ UNCHANGED <<v2, v3>>
  BY DEF Tellings!Broadcast, Tellings!Idle
<1>2. PICK was \in Tellings!Task : was = v4[e]
  BY <1>1 DEF NoticeInv
<1>3. Fair(v2, v3[e], was, v5[e]) /\ v3[e] \in Inbox /\ v5[e] \in Heard
  BY <1>2 DEF NoticeInv
<1>. DEFINE t == [was EXCEPT !.at = "done"]
            rooms == Tellings!PingRooms(was.kind, was.branch)
<1>4. /\ t \in Tellings!Task /\ t # Tellings!Idle /\ t.kind = was.kind
      /\ t.todo = was.todo /\ t.first = was.first /\ t.at = "done"
  BY DEF Tellings!Task, Tellings!Idle
<1>5. v4' = [v4 EXCEPT ![e] = t] /\ Tellings!Dispatch(e, rooms)
  BY <1>2 DEF Tellings!Broadcast
<1>6. was.branch \in Venues /\ was.kind \in Tellings!Kinds
  BY DEF Tellings!Task
<1>7. IsFiniteSet(rooms)
  <2>1. /\ IsFiniteSet({}) /\ IsFiniteSet({Tellings!managerRoom(was.branch)})
        /\ IsFiniteSet({Tellings!stationRoom(was.branch)})
        /\ IsFiniteSet({Tellings!branchRoom(was.branch)})
    BY FS_EmptySet, FS_Singleton
  <2>2. IsFiniteSet({Tellings!stationRoom(was.branch)} \cup {Tellings!branchRoom(was.branch)})
    BY <2>1, FS_Union
  <2>3. IsFiniteSet(({Tellings!stationRoom(was.branch)} \cup {Tellings!branchRoom(was.branch)})
                    \cup {Tellings!managerRoom(was.branch)})
    BY <2>1, <2>2, FS_Union
  <2>4. {Tellings!stationRoom(was.branch), Tellings!branchRoom(was.branch), Tellings!managerRoom(was.branch)}
        = ({Tellings!stationRoom(was.branch)} \cup {Tellings!branchRoom(was.branch)})
          \cup {Tellings!managerRoom(was.branch)}
    OBVIOUS
  <2>. QED  BY <2>1, <2>3, <2>4 DEF Tellings!PingRooms
<1>8. \A m \in Hearers : Plain(v2[m]) /\ was.kind # "TICKET" => v2[m] \cap rooms = {}
  BY <1>6 DEF Tellings!PingRooms, Plain
<1>. HIDE DEF t, rooms
<1>9. PICK c \in Heard :
        /\ v5' = [v5 EXCEPT ![e] = c]
        /\ \A m \in Hearers : v2[m] \cap rooms = {} => c[m] = v5[e][m]
  BY <1>5, <1>7, Hearing
<1>10. Fair(v2, v3[e], t, c)
  BY <1>1, <1>2, <1>3, <1>4, <1>8, <1>9 DEF Fair
<1>11. v3' = [v3 EXCEPT ![e] = v3[e]]
  BY <1>1 DEF NoticeInv
<1>. QED  BY <1>1, <1>3, <1>4, <1>5, <1>9, <1>10, <1>11, OneEvent

(* Members come and go, and read what they have been sent.                 *)
LEMMA ScreensKeep ==
  ASSUME HouseAssumption, NoticeInv, NEW m \in Hearers,
         Tellings!HandleConnection(m) \/ Tellings!HandleDisconnect(m)
  PROVE  NoticeInv'
<1>. DEFINE rooms == Tellings!RoomsOf(m)
<1>1. \/ /\ v2[m] = {} /\ v2' = [v2 EXCEPT ![m] = rooms] /\ UNCHANGED <<v3, v4>>
         /\ v5' = [e \in Events |-> [v5[e] EXCEPT ![m] = 0]]
      \/ v2' = [v2 EXCEPT ![m] = {}] /\ UNCHANGED <<v3, v4, v5>>
  BY DEF Tellings!HandleConnection, Tellings!HandleDisconnect
<1>2. /\ \A k \in Hearers : Tellings!staffRoom(k) \in rooms => k = m
      /\ (\E b \in Venues : Tellings!stationRoom(b) \in rooms) => Plain(rooms)
  BY DEF Tellings!RoomsOf, Tellings!staffRoom, Tellings!branchRoom, Tellings!cashierRoom,
     Tellings!managerRoom, Tellings!stationRoom, Plain
<1>. HIDE DEF rooms
<1>3. v2' = [k \in Hearers |-> v2'[k]] /\ \A k \in Hearers : k # m => v2'[k] = v2[k]
  BY <1>1 DEF NoticeInv
<1>4. v2'[m] = rooms \/ v2'[m] = {}
  BY <1>1 DEF NoticeInv
<1>5. Joined(v2')
  BY <1>2, <1>3, <1>4 DEF NoticeInv, Joined
<1>6. v5' \in [Events -> Heard] /\ \A e \in Events, k \in Hearers :
        /\ k # m => v5'[e][k] = v5[e][k]
        /\ v5'[e][m] = 0 \/ v5'[e][m] = v5[e][m]
        /\ v2'[m] = {} \/ v5'[e][m] = 0
  <2>1. 0 \in 0..MaxTold
    BY DEF HouseAssumption, Tellings!NoticesAssumption
  <2>2. \A e \in Events : v5[e] \in Heard
    BY DEF NoticeInv
  <2>3. CASE v5' = [e \in Events |-> [v5[e] EXCEPT ![m] = 0]]
    BY <2>1, <2>2, <2>3 DEF Heard
  <2>4. CASE v5' = v5 /\ v2' = [v2 EXCEPT ![m] = {}]
    BY <2>4 DEF NoticeInv
  <2>. QED  BY <1>1, <2>3, <2>4
<1>7. ASSUME NEW e \in Events PROVE Fair(v2', v3'[e], v4'[e], v5'[e])
  <2>1. Fair(v2, v3[e], v4[e], v5[e]) /\ v3' = v3 /\ v4' = v4
    BY <1>1 DEF NoticeInv
  <2>2. ~Plain({})
    BY DEF Plain
  <2>3. \A k \in Hearers : Plain(v2'[k]) => v5'[e][k] = 0 \/ (v5'[e][k] = v5[e][k] /\ v2'[k] = v2[k])
    BY <1>3, <1>6, <2>2
  <2>4. v4[e] = Tellings!Idle => \A k \in Hearers : v5'[e][k] = 0
    BY <1>6, <2>1 DEF Fair
  <2>. QED  BY <2>1, <2>3, <2>4 DEF Fair
<1>. QED  BY <1>1, <1>3, <1>5, <1>6, <1>7 DEF NoticeInv

LEMMA ReadingKeeps ==
  ASSUME NoticeInv, UNCHANGED <<v2, v4, v5>>, v3' \in [Events -> Inbox],
         \A e \in Events, m \in Hearers : v3[e][m] # "none" => v3'[e][m] # "none"
  PROVE  NoticeInv'
<1>1. ASSUME NEW e \in Events PROVE Fair(v2, v3'[e], v4[e], v5[e])
  <2>1. Fair(v2, v3[e], v4[e], v5[e])
    BY DEF NoticeInv
  <2>2. v4[e] # Tellings!Idle => v4[e].first \subseteq Hearers /\ v4[e].todo \subseteq Hearers
    BY DEF NoticeInv, Tellings!Task
  <2>. QED  BY <2>1, <2>2 DEF Fair
<1>. QED  BY <1>1 DEF NoticeInv

(* The process dies and everybody is off line.                             *)
LEMMA CrashKeeps ==
  ASSUME NoticeInv, Tellings!Crash
  PROVE  NoticeInv'
<1>1. /\ v4' = [e \in Events |-> IF v4[e] = Tellings!Idle THEN Tellings!Idle
                                 ELSE [v4[e] EXCEPT !.at = "done"]]
      /\ v2' = [m \in Hearers |-> {}] /\ UNCHANGED <<v3, v5>>
  BY DEF Tellings!Crash
<1>2. Joined(v2') /\ \A m \in Hearers : ~Plain(v2'[m])
  BY <1>1 DEF Joined, Plain
<1>3. ASSUME NEW e \in Events
      PROVE  v4'[e] \in {Tellings!Idle} \cup Tellings!Task /\ Fair(v2', v3[e], v4'[e], v5[e])
  <2>1. Fair(v2, v3[e], v4[e], v5[e]) /\ v4[e] \in {Tellings!Idle} \cup Tellings!Task
    BY DEF NoticeInv
  <2>2. CASE v4[e] = Tellings!Idle
    BY <1>1, <2>1, <2>2 DEF Fair
  <2>3. CASE v4[e] # Tellings!Idle
    <3>1. PICK was \in Tellings!Task : was = v4[e]
      BY <2>1, <2>3
    <3>2. PICK t : t = [was EXCEPT !.at = "done"]
      OBVIOUS
    <3>3. /\ t \in Tellings!Task /\ t # Tellings!Idle /\ t.todo = was.todo /\ t.first = was.first
          /\ t.at = "done"
      BY <3>2 DEF Tellings!Task, Tellings!Idle
    <3>4. v4'[e] = t
      BY <1>1, <2>3, <3>1, <3>2
    <3>5. Fair(v2', v3[e], t, v5[e])
      BY <1>2, <2>1, <2>3, <3>1, <3>3 DEF Fair
    <3>. QED  BY <3>3, <3>4, <3>5
  <2>. QED  BY <2>2, <2>3
<1>4. v4' \in [Events -> {Tellings!Idle} \cup Tellings!Task]
  <2>1. v4' = [e \in Events |-> v4'[e]]
    BY <1>1
  <2>. QED  BY <1>3, <2>1
<1>5. v2' = [m \in Hearers |-> v2'[m]]
  BY <1>1
<1>. QED  BY <1>1, <1>2, <1>3, <1>4, <1>5 DEF NoticeInv

LEMMA NoticesStart ==
  ASSUME HouseAssumption, Tellings!Init
  PROVE  NoticeInv
<1>1. /\ v2 = [m \in Hearers |-> {}] /\ v3 = [e \in Events |-> [m \in Hearers |-> "none"]]
      /\ v4 = [e \in Events |-> Tellings!Idle] /\ v5 = [e \in Events |-> [m \in Hearers |-> 0]]
  BY DEF Tellings!Init
<1>2. 0 \in 0..MaxTold
  BY DEF HouseAssumption, Tellings!NoticesAssumption
<1>3. v3 \in [Events -> Inbox] /\ v5 \in [Events -> Heard]
  BY <1>1, <1>2 DEF Inbox, Heard
<1>. QED  BY <1>1, <1>3 DEF NoticeInv, Joined, Fair

LEMMA NoticesGoOn ==
  ASSUME HouseAssumption, NoticeInv, Tellings!Next
  PROVE  NoticeInv'
<1>1. ASSUME NEW m \in Hearers, NEW active \in BOOLEAN, NEW role \in Titles, NEW b \in Venues,
             Tellings!Reassign(m, active, role, b)
      PROVE  NoticeInv'
  <2>1. UNCHANGED <<v2, v3, v4, v5>>
    BY <1>1 DEF Tellings!Reassign
  <2>. QED  BY <2>1 DEF NoticeInv
<1>2. ASSUME NEW m \in Hearers, Tellings!MarkAllRead(m) PROVE NoticeInv'
  <2>1. v3' = [e \in Events |-> [v3[e] EXCEPT ![m] = IF @ = "none" THEN @ ELSE "read"]]
        /\ UNCHANGED <<v2, v4, v5>>
    BY <1>2 DEF Tellings!MarkAllRead
  <2>2. \A e \in Events : v3[e] \in Inbox
    BY DEF NoticeInv
  <2>. QED  BY <2>1, <2>2, ReadingKeeps DEF Inbox
<1>3. ASSUME NEW e \in Events, NEW m \in Hearers, Tellings!MarkRead(m, e) PROVE NoticeInv'
  <2>1. v3' = [v3 EXCEPT ![e] = [v3[e] EXCEPT ![m] = "read"]] /\ UNCHANGED <<v2, v4, v5>>
    BY <1>3 DEF Tellings!MarkRead
  <2>2. v3 \in [Events -> Inbox]
    BY DEF NoticeInv
  <2>. QED  BY <2>1, <2>2, ReadingKeeps DEF Inbox
<1>. QED  BY <1>1, <1>2, <1>3, ScreensKeep, StartsKeep, CreatesKeeps, EmitsKeeps, BroadcastKeeps,
             CrashKeeps DEF Tellings!Next
-----------------------------------------------------------------------------
LEMMA OpinionsFinite ==
  ASSUME NEW S
  PROVE  Opinions!IsFiniteSet(S) <=> IsFiniteSet(S)
  BY Zenon DEF Opinions!IsFiniteSet, IsFiniteSet
LEMMA OpinionsCounts ==
  ASSUME NEW S
  PROVE  Opinions!Cardinality(S) = Cardinality(S)
  BY Zenon DEF Opinions!Cardinality, Cardinality, Opinions!IsFiniteSet, IsFiniteSet

(* f over the elements of T that k puts with b, and the sums of all such   *)
(* parts.                                                                  *)
With(k, T, b) == {x \in T : k[x] = b}
Over(f, T) == [x \in T |-> f[x]]
PartSum(f, k, T, B) == [b \in B |-> SumOf(Over(f, With(k, T, b)), With(k, T, b))]

(* A sum is the sum of its parts.                                          *)
LEMMA SumOfParts ==
  ASSUME NEW S, IsFiniteSet(S), NEW B, IsFiniteSet(B), NEW f \in [S -> Int], NEW k \in [S -> B]
  PROVE  SumOf(f, S) = SumOf(PartSum(f, k, S, B), B)
<1>. DEFINE Bad == {T \in SUBSET S : SumOf(Over(f, T), T) # SumOf(PartSum(f, k, T, B), B)}
<1>1. f = Over(f, S)
  BY DEF Over
<1>2. SUFFICES ASSUME Bad # {} PROVE FALSE
  BY <1>1 DEF Bad
<1>3. PICK T \in Bad : \A U \in Bad : U \subseteq T => U = T
  <2>. Bad \in SUBSET SUBSET S
    OBVIOUS
  <2>. HIDE DEF Bad
  <2>. QED  BY <1>2, Minimal
<1>4. \A U \in SUBSET S : IsFiniteSet(U) /\ Over(f, U) \in [U -> Int]
  BY FS_Subset DEF Over
<1>5. ASSUME NEW U \in SUBSET S PROVE PartSum(f, k, U, B) \in [B -> Int]
  <2>1. \A b \in B : SumOf(Over(f, With(k, U, b)), With(k, U, b)) \in Int
    BY <1>4, SumIsInt DEF With
  <2>. QED  BY <2>1 DEF PartSum
<1>6. T # {}
  <2>1. SumOf(Over(f, {}), {}) = 0
    BY <1>4, SumOfNone
  <2>2. \A b \in B : PartSum(f, k, {}, B)[b] = 0
    <3>1. \A b \in B : With(k, {}, b) = {}
      BY DEF With
    <3>. QED  BY <2>1, <3>1 DEF PartSum
  <2>3. SumOf(PartSum(f, k, {}, B), B) = 0
    BY <1>5, <2>2, SumOfNone
  <2>. QED  BY <1>3, <2>1, <2>3
<1>7. PICK a \in T : a \in S
  BY <1>3, <1>6
<1>. DEFINE U == T \ {a}
            c == k[a]
<1>8. T \in SUBSET S /\ U \in SUBSET S /\ U \notin Bad /\ c \in B
  BY <1>3, <1>7
<1>9. SumOf(Over(f, U), U) = SumOf(PartSum(f, k, U, B), B)
  BY <1>8
<1>10. SumOf(Over(f, T), T) = f[a] + SumOf(Over(f, U), U)
  <2>1. (\A x \in U : Over(f, U)[x] = Over(f, T)[x]) /\ Over(f, T)[a] = f[a]
    BY <1>7 DEF Over
  <2>. QED  BY <1>4, <1>8, <2>1, SumWith
<1>. DEFINE C == With(k, T, c)
            D == With(k, U, c)
<1>11. a \in C /\ D = C \ {a} /\ C \in SUBSET S /\ D \in SUBSET S
  BY <1>7, <1>8 DEF With
<1>12. SumOf(Over(f, C), C) = f[a] + SumOf(Over(f, D), D)
  <2>1. (\A x \in D : Over(f, D)[x] = Over(f, C)[x]) /\ Over(f, C)[a] = f[a]
    BY <1>11 DEF Over
  <2>. HIDE DEF C, D
  <2>. QED  BY <1>4, <1>11, <2>1, SumWith
<1>13. PartSum(f, k, T, B)[c] = f[a] + PartSum(f, k, U, B)[c]
  BY <1>8, <1>12 DEF PartSum
<1>14. \A b \in B \ {c} : PartSum(f, k, T, B)[b] = PartSum(f, k, U, B)[b]
  <2>1. \A b \in B \ {c} : With(k, T, b) = With(k, U, b)
    BY DEF With
  <2>. QED  BY <2>1 DEF PartSum
<1>. HIDE DEF U, c, C, D
<1>15. SumOf(PartSum(f, k, T, B), B)
         = SumOf(PartSum(f, k, U, B), B) + PartSum(f, k, T, B)[c] - PartSum(f, k, U, B)[c]
  BY <1>5, <1>8, <1>14, SumChanges
<1>16. f[a] \in Int /\ SumOf(PartSum(f, k, U, B), B) \in Int /\ PartSum(f, k, U, B)[c] \in Int
  BY <1>5, <1>7, <1>8, SumIsInt
<1>. QED  BY <1>3, <1>9, <1>10, <1>13, <1>15, <1>16

(* What the summaries add up (MapThenSumSet) are such sums.                *)
LEMMA OpinionsUnfold ==
  ASSUME NEW S, IsFiniteSet(S), NEW f \in [S -> Int]
  PROVE  Opinions!MapThenSumSet(LAMBDA b : f[b], S) = SumOf(f, S)
<1>. DEFINE G(g) == [s \in SUBSET S |-> IF s = {} THEN 0 ELSE f[First(s)] + g[s \ {First(s)}]]
            it == CHOOSE g : g = G(g)
            g == Partial(f, S)
<1>1. Opinions!MapThenSumSet(LAMBDA b : f[b], S) = it[S]
  BY DEF Opinions!MapThenSumSet, Opinions!MapThenFoldSet, First
<1>2. IsSum(g, f, S)
  <2>. QED  BY SumExists
<1>3. g = G(g)
  <2>. HIDE DEF g
  <2>. QED  BY <1>2 DEF IsSum, Adds
<1>4. it = G(it)
  BY <1>3
<1>5. Adds(it, f, S)
  <2>. HIDE DEF it
  <2>. QED  BY <1>4 DEF Adds
<1>. HIDE DEF it
<1>. QED  BY <1>1, <1>5, Folded

(* The ratings of reviews.                                                 *)
RatingOf == [r \in Opinions!Rows |-> v6[r].rating]
BranchOf == [r \in Opinions!Rows |-> v6[r].branch]
LEMMA RatingsAdded ==
  ASSUME NEW S, IsFiniteSet(S), S \subseteq Opinions!Rows, RatingOf \in [Opinions!Rows -> Int]
  PROVE  Opinions!MapThenSumSet(LAMBDA r : v6[r].rating, S) = SumOf(Over(RatingOf, S), S)
<1>. DEFINE f == Over(RatingOf, S)
            G(g) == [s \in SUBSET S |-> IF s = {} THEN 0 ELSE v6[First(s)].rating + g[s \ {First(s)}]]
            it == CHOOSE g : g = G(g)
            g == Partial(f, S)
<1>1. Opinions!MapThenSumSet(LAMBDA r : v6[r].rating, S) = it[S]
  BY DEF Opinions!MapThenSumSet, Opinions!MapThenFoldSet, First
<1>2. f \in [S -> Int]
  BY DEF Over
<1>3. \A s \in SUBSET S : s # {} => f[First(s)] = v6[First(s)].rating
  BY FirstIn DEF Over, RatingOf
<1>4. IsSum(g, f, S)
  <2>. HIDE DEF f
  <2>. QED  BY <1>2, SumExists
<1>5. g = G(g)
  <2>. HIDE DEF g, f
  <2>. QED  BY <1>3, <1>4 DEF IsSum, Adds
<1>6. it = G(it)
  BY <1>5
<1>7. Adds(it, f, S)
  <2>. HIDE DEF it, f
  <2>. QED  BY <1>3, <1>6 DEF Adds
<1>. HIDE DEF it, f
<1>8. it[S] = SumOf(f, S)
  BY <1>2, <1>7, Folded
<1>. QED  BY <1>1, <1>8 DEF f
-----------------------------------------------------------------------------
(* A visit at a table has its review by QR code once, counting the one a   *)
(* phone is about to write; who resolved a review is written while it is   *)
(* resolved.                                                               *)
ReviewRows ==
  /\ \A r \in Opinions!Rows : v6[r].visit # NULL => v6[r].source = "QR_MENU"
  /\ \A r1, r2 \in Opinions!Rows : (v6[r1].visit # NULL /\ v6[r1].visit = v6[r2].visit) => r1 = r2
  /\ \A r \in Opinions!Rows : v6[r].status = "RESOLVED" <=> v6[r].by # NULL
PhoneIsFirst ==
  \A p \in Phones : (v5[p].at = "write" /\ v5[p].visit # NULL) =>
    \A r \in Opinions!Rows : v6[r].visit # v5[p].visit
ReviewInv ==
  /\ v2 \in [Boards -> Seatings \cup {NULL}]
  /\ v5 \in [Phones -> {Opinions!Idle} \cup
       [at : {"write"}, table : Boards, visit : Seatings \cup {NULL}, branch : Outlets]]
  /\ v6 \in [Reviews -> {Opinions!None} \cup Opinions!Review]
  /\ ReviewRows
  /\ PhoneIsFirst

LEMMA ReviewsTyped ==
  ASSUME HouseAssumption, ReviewInv
  PROVE  /\ IsFiniteSet(Opinions!Rows) /\ Opinions!Rows \subseteq Reviews
         /\ \A r \in Opinions!Rows : v6[r] \in Opinions!Review /\ v6[r].rating \in Int
                                      /\ v6[r].branch \in Outlets
         /\ RatingOf \in [Opinions!Rows -> Int]
<1>1. IsFiniteSet(Reviews) /\ Ratings \subseteq Int
  BY OpinionsFinite DEF HouseAssumption, Opinions!FeedbackAssumption
<1>2. Opinions!Rows \subseteq Reviews
  BY DEF Opinions!Rows
<1>3. IsFiniteSet(Opinions!Rows)
  BY <1>1, <1>2, FS_Subset
<1>4. \A r \in Opinions!Rows : v6[r] \in Opinions!Review
  BY DEF ReviewInv, Opinions!Rows
<1>5. \A r \in Opinions!Rows : v6[r].rating \in Int /\ v6[r].branch \in Outlets
  BY <1>1, <1>4 DEF Opinions!Review
<1>6. RatingOf \in [Opinions!Rows -> Int]
  BY <1>5 DEF RatingOf
<1>. QED  BY <1>2, <1>3, <1>4, <1>5, <1>6

(* A manager's branches add up to his total.                               *)
LEMMA BranchesAddUp ==
  ASSUME HouseAssumption, ReviewInv, NEW m \in Heads
  PROVE  LET s == Opinions!Summary(m)
         IN s.sum = Opinions!MapThenSumSet(LAMBDA b : s.branch[b], DOMAIN s.branch)
<1>. DEFINE L == Opinions!List(m)
            B == {v6[r].branch : r \in L}
            f == Over(RatingOf, L)
            k == [r \in L |-> v6[r].branch]
            Part(b) == {r \in L : v6[r].branch = b}
            h == [b \in B |-> Opinions!MapThenSumSet(LAMBDA r : v6[r].rating, Part(b))]
            s == Opinions!Summary(m)
<1>1. s.sum = Opinions!MapThenSumSet(LAMBDA r : v6[r].rating, L) /\ s.branch = h
  BY DEF Opinions!Summary
<1>2. L \subseteq Opinions!Rows
  BY DEF Opinions!List
<1>3. IsFiniteSet(L) /\ \A b \in B : IsFiniteSet(Part(b)) /\ Part(b) \subseteq L
  BY <1>2, ReviewsTyped, FS_Subset
<1>4. k \in [L -> B] /\ \A b \in B : \E r \in L : k[r] = b
  OBVIOUS
<1>5. IsFiniteSet(B)
  <2>. HIDE DEF L, B, k
  <2>. QED  BY <1>3, <1>4, FS_Surjection DEF Surjection, Range
<1>6. f \in [L -> Int]
  BY <1>2, ReviewsTyped DEF Over
<1>7. s.sum = SumOf(f, L)
  <2>. HIDE DEF L, f
  <2>. QED  BY <1>1, <1>2, <1>3, ReviewsTyped, RatingsAdded DEF f
<1>8. SumOf(f, L) = SumOf(PartSum(f, k, L, B), B)
  <2>. HIDE DEF L, f, k, B
  <2>. QED  BY <1>3, <1>4, <1>5, <1>6, SumOfParts
<1>9. h = PartSum(f, k, L, B)
  <2>1. ASSUME NEW b \in B PROVE h[b] = SumOf(Over(f, With(k, L, b)), With(k, L, b))
    <3>1. Part(b) = With(k, L, b)
      BY DEF With
    <3>2. Over(RatingOf, Part(b)) = Over(f, Part(b))
      BY <1>2 DEF Over
    <3>3. Opinions!MapThenSumSet(LAMBDA r : v6[r].rating, Part(b)) = SumOf(Over(RatingOf, Part(b)), Part(b))
      <4>1. IsFiniteSet(Part(b)) /\ Part(b) \subseteq Opinions!Rows
        BY <1>2, <1>3
      <4>. HIDE DEF Part
      <4>. QED  BY <4>1, ReviewsTyped, RatingsAdded
    <3>. QED  BY <3>1, <3>2, <3>3
  <2>. QED  BY <2>1 DEF PartSum
<1>10. h \in [B -> Int]
  <2>1. \A b \in B : SumOf(Over(f, With(k, L, b)), With(k, L, b)) \in Int
    <3>. SUFFICES ASSUME NEW b \in B PROVE SumOf(Over(f, With(k, L, b)), With(k, L, b)) \in Int
      OBVIOUS
    <3>1. With(k, L, b) \subseteq L
      BY DEF With
    <3>2. IsFiniteSet(With(k, L, b)) /\ Over(f, With(k, L, b)) \in [With(k, L, b) -> Int]
      <4>. HIDE DEF L, f, k, B
      <4>. QED  BY <3>1, <1>3, <1>6, FS_Subset DEF Over
    <3>. QED  BY <3>2, SumIsInt
  <2>. HIDE DEF h, f, k, L
  <2>. QED  BY <1>9, <2>1 DEF PartSum
<1>11. Opinions!MapThenSumSet(LAMBDA b : h[b], B) = SumOf(h, B)
  <2>. HIDE DEF h, B
  <2>. QED  BY <1>5, <1>10, OpinionsUnfold
<1>12. DOMAIN h = B
  OBVIOUS
<1>. HIDE DEF h, B, f, k, L
<1>. QED  BY <1>1, <1>7, <1>8, <1>9, <1>11, <1>12

(* What is new and what is resolved are apart.                             *)
LEMMA NewAndResolved ==
  ASSUME HouseAssumption, ReviewInv, NEW m \in Heads
  PROVE  LET s == Opinions!Summary(m) IN s.new + s.resolved <= s.total
<1>. DEFINE L == Opinions!List(m)
            X == {r \in L : v6[r].status = "NEW"}
            Y == {r \in L : v6[r].status = "RESOLVED"}
            s == Opinions!Summary(m)
<1>1. s.new = Cardinality(X) /\ s.resolved = Cardinality(Y) /\ s.total = Cardinality(L)
  BY OpinionsCounts DEF Opinions!Summary
<1>2. IsFiniteSet(L)
  <2>1. L \subseteq Opinions!Rows
    BY DEF Opinions!List
  <2>. QED  BY <2>1, ReviewsTyped, FS_Subset
<1>3. X \subseteq L /\ Y \subseteq L /\ X \cap Y = {} /\ X \cup Y \subseteq L
  OBVIOUS
<1>. HIDE DEF L, X, Y, s
<1>4. IsFiniteSet(X) /\ IsFiniteSet(Y) /\ Cardinality(X \cup Y) <= Cardinality(L)
  BY <1>2, <1>3, FS_Subset
<1>5. Cardinality(X \cup Y) = Cardinality(X) + Cardinality(Y) - Cardinality(X \cap Y)
  BY <1>4, FS_Union
<1>6. Cardinality(X \cap Y) = 0
  BY <1>3, FS_EmptySet
<1>7. Cardinality(X) \in Nat /\ Cardinality(Y) \in Nat /\ Cardinality(L) \in Nat
  BY <1>2, <1>4, FS_CardinalityType
<1>. QED  BY <1>1, <1>4, <1>5, <1>6, <1>7 DEF s

LEMMA ReviewsAreHeld ==
  ASSUME HouseAssumption, ReviewInv
  PROVE  Opinions!ReviewsHold
<1>1. ReviewRows
  BY DEF ReviewInv
<1>2. \A m \in Heads :
         LET s == Opinions!Summary(m)
         IN s.sum = Opinions!MapThenSumSet(LAMBDA b : s.branch[b], DOMAIN s.branch) /\ s.new + s.resolved <= s.total
  BY BranchesAddUp, NewAndResolved
<1>. QED  BY <1>1, <1>2 DEF ReviewRows, Opinions!ReviewsHold

LEMMA ReviewsStart ==
  ASSUME HouseAssumption, Opinions!Init
  PROVE  ReviewInv
<1>1. Opinions!Rows = {}
  BY DEF Opinions!Init, Opinions!Rows
<1>2. ReviewRows
  BY <1>1 DEF ReviewRows
<1>3. PhoneIsFirst
  BY <1>1 DEF PhoneIsFirst
<1>. QED  BY <1>2, <1>3 DEF ReviewInv, Opinions!Init

(* A new review is the only one of its visit.                              *)
LEMMA ReviewAdded ==
  ASSUME HouseAssumption, OnePhone, ReviewInv, NEW r \in Reviews, v6[r] = Opinions!None,
         NEW row \in Opinions!Review, v6' = [v6 EXCEPT ![r] = row], row.status = "NEW", row.by = NULL,
         row.visit # NULL => row.source = "QR_MENU" /\ \A r2 \in Opinions!Rows : v6[r2].visit # row.visit
  PROVE  /\ v6' \in [Reviews -> {Opinions!None} \cup Opinions!Review]
         /\ ReviewRows'
         /\ (Opinions!Rows)' = Opinions!Rows \cup {r}
<1>1. v6 \in [Reviews -> {Opinions!None} \cup Opinions!Review] /\ ReviewRows
  BY DEF ReviewInv
<1>2. v6' \in [Reviews -> {Opinions!None} \cup Opinions!Review]
  BY <1>1
<1>3. row # Opinions!None
  BY DEF Opinions!None
<1>4. (Opinions!Rows)' = Opinions!Rows \cup {r} /\ r \notin Opinions!Rows
  BY <1>1, <1>3 DEF Opinions!Rows
<1>5. v6'[r] = row /\ \A q \in Opinions!Rows : v6'[q] = v6[q]
  BY <1>1, <1>4 DEF Opinions!Rows
<1>6. \A q \in (Opinions!Rows)' : v6'[q].visit # NULL => v6'[q].source = "QR_MENU"
  BY <1>1, <1>4, <1>5 DEF ReviewRows
<1>7. \A q1, q2 \in (Opinions!Rows)' : (v6'[q1].visit # NULL /\ v6'[q1].visit = v6'[q2].visit) => q1 = q2
  BY <1>1, <1>4, <1>5 DEF ReviewRows
<1>8. \A q \in (Opinions!Rows)' : v6'[q].status = "RESOLVED" <=> v6'[q].by # NULL
  BY <1>1, <1>4, <1>5 DEF ReviewRows
<1>. QED  BY <1>2, <1>4, <1>6, <1>7, <1>8 DEF ReviewRows

LEMMA ReviewsGoOn ==
  ASSUME HouseAssumption, OnePhone, ReviewInv, Opinions!Next
  PROVE  ReviewInv'
<1>0. /\ v2 \in [Boards -> Seatings \cup {NULL}]
      /\ v5 \in [Phones -> {Opinions!Idle} \cup
           [at : {"write"}, table : Boards, visit : Seatings \cup {NULL}, branch : Outlets]]
      /\ v6 \in [Reviews -> {Opinions!None} \cup Opinions!Review]
      /\ ReviewRows /\ PhoneIsFirst
  BY DEF ReviewInv
<1>1. ASSUME UNCHANGED <<v5, v6>>, v2' \in [Boards -> Seatings \cup {NULL}]
      PROVE  ReviewInv'
  <2>1. (Opinions!Rows)' = Opinions!Rows
    BY <1>1 DEF Opinions!Rows
  <2>2. ReviewRows' /\ PhoneIsFirst'
    BY <1>0, <1>1, <2>1 DEF ReviewRows, PhoneIsFirst
  <2>. QED  BY <1>0, <1>1, <2>2 DEF ReviewInv
<1>2. ASSUME NEW t \in Boards, Opinions!Leave(t) \/ \E v \in Seatings : Opinions!Sit(t, v)
      PROVE  ReviewInv'
  <2>1. UNCHANGED <<v5, v6>> /\ v2' \in [Boards -> Seatings \cup {NULL}]
    BY <1>0, <1>2 DEF Opinions!Leave, Opinions!Sit
  <2>. QED  BY <1>1, <2>1
<1>3. ASSUME NEW b \in Outlets, Opinions!SwitchBranch(b) \/ \E m \in Heads : Opinions!Assign(m, b)
      PROVE  ReviewInv'
  <2>1. UNCHANGED <<v5, v6>> /\ v2' \in [Boards -> Seatings \cup {NULL}]
    BY <1>0, <1>3 DEF Opinions!SwitchBranch, Opinions!Assign
  <2>. QED  BY <1>1, <2>1
<1>4. ASSUME NEW p \in Phones, NEW t \in Boards, NEW b \in Outlets, Opinions!SubmitTableFeedback(p, t, b)
      PROVE  ReviewInv'
  <2>. DEFINE w == [at |-> "write", table |-> t, visit |-> v2[t], branch |-> b]
  <2>1. Opinions!MayReview(v2[t]) /\ v5' = [v5 EXCEPT ![p] = w] /\ UNCHANGED <<v2, v6>>
    BY <1>4 DEF Opinions!SubmitTableFeedback
  <2>2. v5' \in [Phones -> {Opinions!Idle} \cup
           [at : {"write"}, table : Boards, visit : Seatings \cup {NULL}, branch : Outlets]]
    BY <1>0, <2>1
  <2>3. (Opinions!Rows)' = Opinions!Rows
    BY <2>1 DEF Opinions!Rows
  <2>4. v2[t] # NULL => \A r \in Opinions!Rows : v6[r].visit # v2[t]
    BY <1>0, <2>1 DEF Opinions!MayReview, Opinions!Reviewed, ReviewRows
  <2>5. \A q \in Phones : v5'[q] = IF q = p THEN w ELSE v5[q]
    BY <1>0, <2>1
  <2>6. PhoneIsFirst'
    BY <1>0, <2>1, <2>3, <2>4, <2>5 DEF PhoneIsFirst
  <2>7. ReviewRows'
    BY <1>0, <2>1, <2>3 DEF ReviewRows
  <2>. QED  BY <1>0, <2>1, <2>2, <2>6, <2>7 DEF ReviewInv
<1>5. ASSUME NEW p \in Phones, NEW r \in Reviews, NEW n \in Ratings, Opinions!Written(p, r, n)
      PROVE  ReviewInv'
  <2>. DEFINE row == [status |-> "NEW", branch |-> v5[p].branch, source |-> "QR_MENU",
                      table |-> v5[p].table, visit |-> v5[p].visit, rating |-> n, by |-> NULL]
  <2>1. /\ v5[p].at = "write" /\ v6[r] = Opinions!None /\ UNCHANGED v2
        /\ v6' = [v6 EXCEPT ![r] = row] /\ v5' = [v5 EXCEPT ![p] = Opinions!Idle]
    BY <1>5 DEF Opinions!Written
  <2>2. v5[p] \in [at : {"write"}, table : Boards, visit : Seatings \cup {NULL}, branch : Outlets]
    BY <1>0, <2>1 DEF Opinions!Idle
  <2>3. row \in Opinions!Review
    BY <2>2 DEF Opinions!Review
  <2>4. row.visit # NULL => row.source = "QR_MENU" /\ \A r2 \in Opinions!Rows : v6[r2].visit # row.visit
    BY <1>0, <2>1 DEF PhoneIsFirst
  <2>5. row.status = "NEW" /\ row.by = NULL
    OBVIOUS
  <2>. HIDE DEF row
  <2>6. v6' \in [Reviews -> {Opinions!None} \cup Opinions!Review] /\ ReviewRows'
    <3>1. PICK was : was = row
      OBVIOUS
    <3>. QED  BY <3>1, <2>1, <2>3, <2>4, <2>5, ReviewAdded
  <2>7. \A q \in Phones : v5'[q] = Opinions!Idle
    BY <1>0, <2>1 DEF OnePhone
  <2>8. PhoneIsFirst'
    BY <2>7 DEF PhoneIsFirst, Opinions!Idle
  <2>. QED  BY <1>0, <2>1, <2>6, <2>8 DEF ReviewInv
<1>6. ASSUME NEW r \in Reviews, NEW b \in Outlets, NEW n \in Ratings,
             Opinions!SubmitWebsiteFeedback(r, b, n)
      PROVE  ReviewInv'
  <2>. DEFINE row == [status |-> "NEW", branch |-> b, source |-> "WEBSITE", table |-> NULL,
                      visit |-> NULL, rating |-> n, by |-> NULL]
  <2>1. v6[r] = Opinions!None /\ UNCHANGED <<v2, v5>> /\ v6' = [v6 EXCEPT ![r] = row]
    BY <1>6 DEF Opinions!SubmitWebsiteFeedback
  <2>2. row \in Opinions!Review /\ row.visit = NULL /\ row.status = "NEW" /\ row.by = NULL
    BY DEF Opinions!Review
  <2>. HIDE DEF row
  <2>3. v6' \in [Reviews -> {Opinions!None} \cup Opinions!Review] /\ ReviewRows'
          /\ (Opinions!Rows)' = Opinions!Rows \cup {r}
    BY <2>1, <2>2, ReviewAdded
  <2>4. \A q \in Opinions!Rows : v6'[q] = v6[q]
    BY <1>0, <2>1 DEF Opinions!Rows
  <2>5. v6'[r].visit = NULL
    BY <1>0, <2>1, <2>2
  <2>6. PhoneIsFirst'
    BY <1>0, <2>1, <2>3, <2>4, <2>5 DEF PhoneIsFirst
  <2>. QED  BY <1>0, <2>1, <2>3, <2>6 DEF ReviewInv
<1>7. ASSUME NEW m \in Heads, NEW r \in Reviews, NEW st \in {"NEW", "READ", "RESOLVED"},
             Opinions!UpdateStatus(m, r, st)
      PROVE  ReviewInv'
  <2>1. r \in Opinions!Rows /\ UNCHANGED <<v2, v5>>
          /\ v6' = [v6 EXCEPT ![r].status = st, ![r].by = IF st = "RESOLVED" THEN m ELSE NULL]
    BY <1>7 DEF Opinions!UpdateStatus, Opinions!List
  <2>2. PICK was : was = v6[r]
    OBVIOUS
  <2>3. was \in Opinions!Review
    BY <1>0, <2>1, <2>2 DEF Opinions!Rows
  <2>. DEFINE row == [was EXCEPT !.status = st, !.by = IF st = "RESOLVED" THEN m ELSE NULL]
  <2>4. v6' = [v6 EXCEPT ![r] = row]
    BY <1>0, <2>1, <2>2
  <2>5. /\ row \in Opinions!Review /\ row.visit = was.visit /\ row.source = was.source
        /\ row.status = st /\ row.by = IF st = "RESOLVED" THEN m ELSE NULL
    BY <2>3 DEF Opinions!Review
  <2>. HIDE DEF row
  <2>6. v6' \in [Reviews -> {Opinions!None} \cup Opinions!Review]
    BY <1>0, <2>4, <2>5
  <2>7. row # Opinions!None
    BY <2>5 DEF Opinions!None, Opinions!Review
  <2>8. (Opinions!Rows)' = Opinions!Rows
    BY <1>0, <2>1, <2>4, <2>7 DEF Opinions!Rows
  <2>9. v6'[r] = row /\ \A q \in Reviews \ {r} : v6'[q] = v6[q]
    BY <1>0, <2>4
  <2>10. \A q \in Opinions!Rows : v6'[q].visit = v6[q].visit /\ v6'[q].source = v6[q].source
    BY <2>2, <2>5, <2>9 DEF Opinions!Rows
  <2>11. \A q \in Opinions!Rows : v6'[q].status = "RESOLVED" <=> v6'[q].by # NULL
    <3>1. NULL # m
      BY DEF HouseAssumption, Opinions!FeedbackAssumption
    <3>2. v6'[r].status = "RESOLVED" <=> v6'[r].by # NULL
      BY <2>5, <2>9, <3>1
    <3>. QED  BY <1>0, <2>9, <3>2 DEF ReviewRows, Opinions!Rows
  <2>12. ReviewRows'
    BY <1>0, <2>8, <2>10, <2>11 DEF ReviewRows
  <2>13. PhoneIsFirst'
    <3>1. ASSUME NEW p \in Phones, v5[p].at = "write" /\ v5[p].visit # NULL, NEW q \in Opinions!Rows
          PROVE  v6'[q].visit # v5[p].visit
      BY <1>0, <2>10, <3>1 DEF PhoneIsFirst
    <3>2. v5' = v5
      BY <2>1
    <3>. QED  BY <2>8, <3>1, <3>2 DEF PhoneIsFirst
  <2>. QED  BY <1>0, <2>1, <2>6, <2>12, <2>13 DEF ReviewInv
<1>. QED  BY <1>2, <1>3, <1>4, <1>5, <1>6, <1>7 DEF Opinions!Next
-----------------------------------------------------------------------------
(* A request in flight.                                                    *)
InFlight ==
  [pc : {"submit", "poll", "lookup", "commit"}, key : Keys, expected : Nat, paid : Nat]

(* What a request still has right, as long as nobody has  *)
(* paid on its bill since it read it; and, where Verify.ET is asked, that  *)
(* it was told yes before it looks the reference up.                       *)
Fresh(q) ==
  LET i == Intent[q.key] IN
  /\ q.expected <= v2[i.bill].version
  /\ q.expected = v2[i.bill].version =>
       v4[q.key] = NULL /\ q.paid = v2[i.bill].paid /\ i.claim <= Charged[i.bill] - q.paid
  /\ v1 /\ q.pc \in {"lookup", "commit"} => Wires!Accepted(q.key)
RequestsFresh == \A h \in Handlers, q \in InFlight : v8[h] = q => Fresh(q)

(* A payment is that of its intent, which was accepted, and the only one.  *)
AsIntended(p) ==
  /\ p.ref = Intent[p.key].ref /\ p.bill = Intent[p.key].bill /\ p.amount = Intent[p.key].claim
  /\ v4[p.key] # NULL /\ (v1 => Wires!Accepted(p.key))
IntentsPaid ==
  /\ \A n \in DOMAIN v3 : AsIntended(v3[n])
  /\ \A m, n \in DOMAIN v3 : v3[m].key = v3[n].key => m = n

(* Verify.ET confirms a transfer for the first time once.                  *)
FirstOnce ==
  /\ \A k \in Keys : v6[k] = "first" => Intent[k].ref \in v7
  /\ \A j, k \in Keys :
       v6[j] = "first" /\ v6[k] = "first" /\ Intent[j].ref = Intent[k].ref => j = k

Rows(b) == {n \in DOMAIN v3 : v3[n].bill = b}
Amounts(R) == [n \in R |-> v3[n].amount]
BillsAddUp ==
  \A b \in Bills :
    /\ v2[b].paid = SumOf(Amounts(Rows(b)), Rows(b)) /\ v2[b].paid <= Charged[b]
    /\ v2[b].status = "PAID" <=> v2[b].paid = Charged[b]

TransfersInv == Wires!TypeOK /\ RequestsFresh /\ IntentsPaid /\ FirstOnce /\ BillsAddUp
-----------------------------------------------------------------------------
LEMMA WiresCounts ==
  ASSUME NEW S
  PROVE  Wires!Cardinality(S) = Cardinality(S)
  BY Zenon DEF Wires!Cardinality, Cardinality, Wires!IsFiniteSet, IsFiniteSet

LEMMA Requests ==
  /\ Wires!Handler = {Wires!Idle} \cup InFlight /\ Wires!Idle \notin InFlight
  /\ \A q \in Wires!Handler : q.pc # "idle" => q \in InFlight
  BY DEF Wires!Handler, Wires!Idle, InFlight

(* What a set of payments comes to.                                        *)
LEMMA AmountsOf ==
  ASSUME NEW s \in Seq(Wires!Payment), NEW R \in SUBSET DOMAIN s
  PROVE  IsFiniteSet(R) /\ [n \in R |-> s[n].amount] \in [R -> Int]
<1>1. Len(s) \in Nat /\ DOMAIN s = 1..Len(s)
  OBVIOUS
<1>2. IsFiniteSet(1..Len(s))
  BY <1>1, FS_Interval
<1>3. \A n \in R : s[n].amount \in Int
  <2>1. \A n \in R : s[n] \in Wires!Payment
    OBVIOUS
  <2>. QED  BY <2>1 DEF Wires!Payment
<1>. QED  BY <1>1, <1>2, <1>3, FS_Subset

LEMMA PaymentsFinite ==
  Wires!TypeOK => \A R \in SUBSET DOMAIN v3 : IsFiniteSet(R) /\ Amounts(R) \in [R -> Int]
  BY AmountsOf DEF Wires!TypeOK, Amounts

LEMMA PaymentsSum ==
  Wires!TypeOK => \A R \in SUBSET DOMAIN v3 :
    Wires!MapThenSumSet(LAMBDA n : v3[n].amount, R) = SumOf(Amounts(R), R)
<1>. SUFFICES ASSUME Wires!TypeOK, NEW R \in SUBSET DOMAIN v3
     PROVE  Wires!MapThenSumSet(LAMBDA n : v3[n].amount, R) = SumOf(Amounts(R), R)
  OBVIOUS
<1>. DEFINE f == Amounts(R)
            G(g) == [s \in SUBSET R |->
                      IF s = {} THEN 0 ELSE v3[First(s)].amount + g[s \ {First(s)}]]
            it == CHOOSE g : g = G(g)
            g == Partial(f, R)
<1>1. Wires!MapThenSumSet(LAMBDA n : v3[n].amount, R) = it[R]
  BY DEF Wires!MapThenSumSet, Wires!MapThenFoldSet, First
<1>2. \A s \in SUBSET R : s # {} => f[First(s)] = v3[First(s)].amount
  BY FirstIn DEF Amounts
<1>3. f \in [R -> Int] /\ IsFiniteSet(R)
  BY PaymentsFinite
<1>. HIDE DEF f
<1>4. IsSum(g, f, R)
  BY <1>3, SumExists
<1>5. g = G(g)
  <2>. HIDE DEF g
  <2>. QED  BY <1>2, <1>4 DEF IsSum, Adds
<1>6. it = G(it)
  BY <1>5
<1>. HIDE DEF it
<1>7. Adds(it, f, R)
  BY <1>2, <1>6 DEF Adds
<1>8. it[R] = SumOf(f, R)
  BY <1>3, <1>7, Folded
<1>. QED  BY <1>1, <1>8 DEF f

(* What the invariant is for.                                              *)
LEMMA TransfersInvMeans ==
  ASSUME Wires!TransfersAssumption, TransfersInv
  PROVE  Wires!TransfersHold
<1>1. Wires!TypeOK /\ IntentsPaid /\ FirstOnce /\ BillsAddUp
  BY DEF TransfersInv
<1>2. ASSUME NEW b \in Bills
      PROVE  /\ v2[b].paid = Wires!Sum(LAMBDA p : p.bill = b) /\ v2[b].paid <= Charged[b]
             /\ v2[b].status = "PAID" <=> v2[b].paid = Charged[b]
  <2>1. Rows(b) \in SUBSET DOMAIN v3
    BY DEF Rows
  <2>2. Wires!MapThenSumSet(LAMBDA n : v3[n].amount, Rows(b)) = SumOf(Amounts(Rows(b)), Rows(b))
    BY <1>1, <2>1, PaymentsSum
  <2>3. Wires!Sum(LAMBDA p : p.bill = b) = Wires!MapThenSumSet(LAMBDA n : v3[n].amount, Rows(b))
    BY DEF Wires!Sum, Rows
  <2>. QED  BY <1>1, <2>2, <2>3 DEF BillsAddUp
<1>3. ASSUME v1, NEW r \in Refs
      PROVE  /\ Wires!Sum(LAMBDA p : p.ref = r) <= Moved[r]
             /\ Wires!Cardinality({v3[i].bill : i \in {i \in DOMAIN v3 : v3[i].ref = r}}) <= 1
  <2>. DEFINE R == {i \in DOMAIN v3 : v3[i].ref = r}
  <2>1. Wires!Sum(LAMBDA p : p.ref = r) = Wires!MapThenSumSet(LAMBDA n : v3[n].amount, R)
    BY DEF Wires!Sum
  <2>2. Wires!MapThenSumSet(LAMBDA n : v3[n].amount, R) = SumOf(Amounts(R), R)
    BY <1>1, PaymentsSum
  <2>3. IsFiniteSet(R) /\ Amounts(R) \in [R -> Int]
    BY <1>1, PaymentsFinite
  <2>. DEFINE Fine == /\ SumOf(Amounts(R), R) <= Moved[r]
                      /\ Wires!Cardinality({v3[i].bill : i \in R}) <= 1
  <2>4. \A m, n \in R : m = n
    <3>1. ASSUME NEW m \in R, NEW n \in R PROVE v3[m].key = v3[n].key
      <4>1. /\ v3[m] \in Wires!Payment /\ AsIntended(v3[m]) /\ v3[m].ref = r
            /\ v3[n] \in Wires!Payment /\ AsIntended(v3[n]) /\ v3[n].ref = r
        BY <1>1 DEF IntentsPaid, Wires!TypeOK
      <4>2. v3[m].key \in Keys /\ v3[n].key \in Keys
        BY <4>1 DEF Wires!Payment
      <4>3. /\ v6[v3[m].key] = "first" /\ v6[v3[n].key] = "first"
            /\ Intent[v3[m].key].ref = Intent[v3[n].key].ref
        BY <1>3, <4>1 DEF AsIntended, Wires!Accepted
      <4>. QED  BY <1>1, <4>2, <4>3 DEF FirstOnce
    <3>. QED  BY <1>1, <3>1 DEF IntentsPaid
  <2>5. ASSUME R = {} PROVE Fine
    <3>1. SumOf(Amounts(R), R) = 0
      BY <2>3, <2>5, SumOfNone
    <3>2. {v3[i].bill : i \in R} = {}
      BY <2>5
    <3>3. Moved[r] \in Nat
      BY DEF Wires!TransfersAssumption
    <3>4. Wires!Cardinality({}) = 0
      BY FS_EmptySet, WiresCounts
    <3>5. SumOf(Amounts(R), R) <= Moved[r]
      BY <3>1, <3>3
    <3>6. Wires!Cardinality({v3[i].bill : i \in R}) <= 1
      BY <3>2, <3>4
    <3>. QED  BY <3>5, <3>6
  <2>6. ASSUME NEW n \in R PROVE Fine
    <3>1. R = {n} /\ R \ {n} = {}
      BY <2>4
    <3>2. {v3[i].bill : i \in R} = {v3[n].bill}
      BY <3>1
    <3>3. v3[n] \in Wires!Payment /\ AsIntended(v3[n]) /\ v3[n].ref = r
      BY <1>1 DEF IntentsPaid, Wires!TypeOK
    <3>4. v3[n].amount \in Int /\ v3[n].amount <= Moved[r]
      BY <1>3, <3>3 DEF AsIntended, Wires!Accepted, Wires!Payment, Wires!TransfersAssumption
    <3>. DEFINE e == [m \in R \ {n} |-> 0]
    <3>5. SumOf(Amounts(R), R) = Amounts(R)[n] + SumOf(e, R \ {n})
      <4>. HIDE DEF R
      <4>1. e \in [R \ {n} -> Int] /\ \A m \in R \ {n} : e[m] = Amounts(R)[m]
        BY <3>1
      <4>. HIDE DEF e
      <4>. QED  BY <2>3, <4>1, SumWith
    <3>6. SumOf(e, R \ {n}) = 0
      <4>1. e \in [R \ {n} -> Int] /\ \A m \in R \ {n} : e[m] = 0
        OBVIOUS
      <4>2. IsFiniteSet(R \ {n})
        BY <2>3, FS_Subset
      <4>. HIDE DEF e, R
      <4>. QED  BY <4>1, <4>2, SumOfNone
    <3>7. Amounts(R)[n] = v3[n].amount
      BY DEF Amounts
    <3>. HIDE DEF R, e
    <3>8. SumOf(Amounts(R), R) <= Moved[r]
      BY <3>4, <3>5, <3>6, <3>7
    <3>9. Wires!Cardinality({v3[n].bill}) = 1
      BY FS_Singleton, WiresCounts
    <3>10. Wires!Cardinality({v3[i].bill : i \in R}) = 1
      BY Zenon, <3>2, <3>9
    <3>11. Wires!Cardinality({v3[i].bill : i \in R}) <= 1
      BY <3>10
    <3>. QED  BY <3>8, <3>11
  <2>. HIDE DEF R
  <2>7. Fine
    <3>. HIDE DEF Fine
    <3>. QED  BY <2>5, <2>6
  <2>. QED  BY <2>1, <2>2, <2>7 DEF R
<1>. QED  BY <1>1, <1>2, <1>3 DEF Wires!TransfersHold, IntentsPaid
-----------------------------------------------------------------------------
LEMMA TransfersInit == Wires!TransfersAssumption /\ Wires!Init => TransfersInv
<1>. SUFFICES ASSUME Wires!TransfersAssumption, Wires!Init PROVE TransfersInv
  OBVIOUS
<1>1. Wires!TypeOK
  BY DEF Wires!TransfersAssumption, Wires!Init, Wires!TypeOK, Wires!Bill, Wires!Job, Wires!Handler
<1>2. RequestsFresh /\ IntentsPaid /\ FirstOnce
  BY Requests DEF Wires!Init, RequestsFresh, IntentsPaid, FirstOnce
<1>3. ASSUME NEW b \in Bills
      PROVE  SumOf(Amounts(Rows(b)), Rows(b)) = 0
  <2>1. Rows(b) = {}
    BY DEF Wires!Init, Rows
  <2>2. IsFiniteSet(Rows(b)) /\ Amounts(Rows(b)) \in [Rows(b) -> Int]
    BY <1>1, PaymentsFinite DEF Rows
  <2>. QED  BY <2>1, <2>2, SumOfNone
<1>4. BillsAddUp
  <2>1. \A b \in Bills : v2[b].paid = 0 /\ v2[b].status # "PAID" /\ Charged[b] \in Nat \ {0}
    BY DEF Wires!Init, Wires!TransfersAssumption
  <2>. QED  BY <1>3, <2>1 DEF BillsAddUp
<1>. QED  BY <1>1, <1>2, <1>4 DEF TransfersInv

(* The tables keep their types.                                            *)
LEMMA TransfersTyped ==
  ASSUME Wires!TransfersAssumption, Wires!TypeOK, Wires!Next
  PROVE  Wires!TypeOK'
<1>1. ASSUME NEW h \in Handlers, NEW k \in Keys, NEW v \in 1..v2[Intent[k].bill].version,
             Wires!Begin(h, k, v)
      PROVE  Wires!TypeOK'
  <2>1. Intent[k].bill \in Bills
    BY DEF Wires!TransfersAssumption
  <2>2. v2[Intent[k].bill] \in Wires!Bill
    BY <2>1 DEF Wires!TypeOK
  <2>3. v \in Nat /\ v2[Intent[k].bill].paid \in Nat
    BY <2>2 DEF Wires!Bill
  <2>. DEFINE q == [pc |-> IF v1 THEN "submit" ELSE "lookup", key |-> k, expected |-> v,
                    paid |-> v2[Intent[k].bill].paid]
  <2>4. q \in InFlight
    BY <2>3 DEF InFlight
  <2>5. v8' = [v8 EXCEPT ![h] = q]
    BY <1>1 DEF Wires!Begin
  <2>. HIDE DEF q
  <2>6. v8' \in [Handlers -> Wires!Handler]
    BY <2>4, <2>5, Requests DEF Wires!TypeOK
  <2>7. v9' \in 0..MaxTries
    BY <1>1 DEF Wires!Begin, Wires!TypeOK, Wires!TransfersAssumption
  <2>. QED  BY <1>1, <2>6, <2>7 DEF Wires!Begin, Wires!TypeOK, Wires!tables
<1>2. ASSUME NEW h \in Handlers, Wires!Submit(h) \/ Wires!PollUntilDone(h) \/ Wires!Lookup(h) \/ Wires!GiveUp(h)
      PROVE  Wires!TypeOK'
  <2>1. ASSUME NEW pc \in {"poll", "lookup", "commit"}, Wires!Becomes(h, pc), v8[h].pc # "idle"
        PROVE  v8' \in [Handlers -> Wires!Handler]
    <3>1. v8[h] \in InFlight
      BY <2>1, Requests DEF Wires!TypeOK
    <3>2. [v8[h] EXCEPT !.pc = pc] \in InFlight
      BY <3>1 DEF InFlight
    <3>3. v8' = [v8 EXCEPT ![h] = [v8[h] EXCEPT !.pc = pc]]
      BY <2>1 DEF Wires!Becomes
    <3>. QED  BY <3>2, <3>3, Requests DEF Wires!TypeOK
  <2>2. ASSUME v8' = [v8 EXCEPT ![h] = Wires!Idle]
        PROVE  v8' \in [Handlers -> Wires!Handler]
    BY <2>2, Requests DEF Wires!TypeOK
  <2>3. v8' \in [Handlers -> Wires!Handler]
    BY <1>2, <2>1, <2>2 DEF Wires!Submit, Wires!PollUntilDone, Wires!Lookup, Wires!GiveUp, Wires!At
  <2>4. ASSUME Wires!Submit(h) PROVE v6' \in [Keys -> Wires!Job]
    BY <2>4 DEF Wires!Submit, Wires!TypeOK, Wires!Job
  <2>5. UNCHANGED <<v1, v2, v3, v4, v5, v7, v9>>
    BY <1>2 DEF Wires!Submit, Wires!PollUntilDone, Wires!Lookup, Wires!GiveUp, Wires!tables
  <2>6. v6' \in [Keys -> Wires!Job]
    BY <1>2, <2>4 DEF Wires!PollUntilDone, Wires!Lookup, Wires!GiveUp, Wires!TypeOK
  <2>. QED  BY <2>3, <2>5, <2>6 DEF Wires!TypeOK
<1>3. ASSUME NEW h \in Handlers, Wires!Commit(h) PROVE Wires!TypeOK'
  <2>. DEFINE q == v8[h]
              i == Intent[q.key]
  <2>1. q \in InFlight
    BY <1>3, Requests DEF Wires!Commit, Wires!At, Wires!TypeOK
  <2>2. q.key \in Keys /\ q.expected \in Nat /\ q.paid \in Nat
    BY <2>1 DEF InFlight
  <2>3. i.by \in STRING /\ i.bill \in Bills /\ i.ref \in Refs /\ i.claim \in Nat \ {0}
    BY <2>2 DEF Wires!TransfersAssumption
  <2>4. v2[i.bill] \in Wires!Bill /\ Charged[i.bill] \in Nat
    BY <2>3 DEF Wires!TypeOK, Wires!TransfersAssumption
  <2>5. ASSUME NEW status \in {"PAYMENT_PENDING", "PAID"}, NEW paid \in Nat
        PROVE  [status |-> status, paid |-> paid, version |-> v2[i.bill].version + 1] \in Wires!Bill
    BY <2>4 DEF Wires!Bill
  <2>6. [key |-> q.key, ref |-> i.ref, bill |-> i.bill, amount |-> i.claim] \in Wires!Payment
    BY <2>2, <2>3 DEF Wires!Payment
  <2>7. [by |-> i.by, ref |-> i.ref, bill |-> i.bill] \in Wires!Used
    BY <2>3 DEF Wires!Used
  <2>8. PICK status \in {"PAYMENT_PENDING", "PAID"}, paid \in Nat :
          v2' = [v2 EXCEPT ![i.bill] =
                    [status |-> status, paid |-> paid, version |-> v2[i.bill].version + 1]]
    <3>1. (IF q.paid + i.claim >= Charged[i.bill] THEN Charged[i.bill] ELSE q.paid + i.claim) \in Nat
      BY <2>2, <2>3, <2>4
    <3>. QED  BY <1>3, <3>1 DEF Wires!Commit, Wires!Of
  <2>9. v2' \in [Bills -> Wires!Bill]
    <3>. DEFINE row == [status |-> status, paid |-> paid, version |-> v2[i.bill].version + 1]
    <3>1. row \in Wires!Bill /\ v2' = [v2 EXCEPT ![i.bill] = row]
      BY <2>5, <2>8
    <3>. HIDE DEF row
    <3>. QED  BY <3>1 DEF Wires!TypeOK
  <2>10. v3' \in Seq(Wires!Payment) /\ v5' \subseteq Wires!Used
    <3>. DEFINE p == [key |-> q.key, ref |-> i.ref, bill |-> i.bill, amount |-> i.claim]
                u == [by |-> i.by, ref |-> i.ref, bill |-> i.bill]
    <3>1. v3' = Append(v3, p) /\ v5' \subseteq v5 \cup {u}
      BY <1>3 DEF Wires!Commit, Wires!Of
    <3>2. p \in Wires!Payment /\ u \in Wires!Used
      BY <2>6, <2>7
    <3>. HIDE DEF p, u
    <3>. QED  BY <3>1, <3>2 DEF Wires!TypeOK
  <2>11. v4' \in [Keys -> Nat \cup {NULL}] /\ v8' \in [Handlers -> Wires!Handler]
    BY <1>3, <2>2, Requests DEF Wires!Commit, Wires!TypeOK
  <2>12. UNCHANGED <<v1, v6, v7, v9>>
    BY <1>3 DEF Wires!Commit
  <2>. QED  BY <2>9, <2>10, <2>11, <2>12 DEF Wires!TypeOK
<1>4. ASSUME NEW k \in Keys, Wires!Answer(k) PROVE Wires!TypeOK'
  <2>1. Intent[k].ref \in Refs
    BY DEF Wires!TransfersAssumption
  <2>2. v6' \in [Keys -> Wires!Job] /\ v7' \subseteq Refs
    BY <1>4, <2>1 DEF Wires!Answer, Wires!TypeOK, Wires!Job
  <2>. QED  BY <1>4, <2>2 DEF Wires!Answer, Wires!TypeOK, Wires!tables
<1>. QED  BY <1>1, <1>2, <1>3, <1>4 DEF Wires!Next
-----------------------------------------------------------------------------
(* Whatever was accepted remains so.                                       *)
Kept == \A k \in Keys : Wires!Accepted(k) => Wires!Accepted(k)'

(* What a request has right stays right if nobody pays on its bill.        *)
LEMMA StaysFresh ==
  ASSUME NEW q \in InFlight, Fresh(q), Kept, v1' = v1,
         v2'[Intent[q.key].bill] = v2[Intent[q.key].bill], v4'[q.key] = v4[q.key]
  PROVE  Fresh(q)'
  BY DEF Kept, Fresh, InFlight

(* Only Commit says anything new about what was paid.                      *)
LEMMA NothingPaid ==
  ASSUME Wires!TypeOK, IntentsPaid, BillsAddUp, Kept, UNCHANGED <<v1, Wires!tables>>
  PROVE  IntentsPaid' /\ BillsAddUp'
<1>1. UNCHANGED <<v1, v2, v3, v4>>
  BY DEF Wires!tables
<1>2. \A n \in DOMAIN v3 : v3[n].key \in Keys
  <2>1. \A n \in DOMAIN v3 : v3[n] \in Wires!Payment
    BY DEF Wires!TypeOK
  <2>. QED  BY <2>1 DEF Wires!Payment
<1>3. IntentsPaid'
  BY <1>1, <1>2 DEF IntentsPaid, AsIntended, Kept
<1>4. BillsAddUp'
  BY <1>1 DEF BillsAddUp, Rows, Amounts
<1>. QED  BY <1>3, <1>4

LEMMA BeginKeeps ==
  ASSUME Wires!TransfersAssumption, TransfersInv, Wires!TypeOK',
         NEW h \in Handlers, NEW k \in Keys, NEW v \in 1..v2[Intent[k].bill].version,
         Wires!Begin(h, k, v)
  PROVE  TransfersInv'
<1>1. Wires!TypeOK /\ RequestsFresh /\ IntentsPaid /\ FirstOnce /\ BillsAddUp
  BY DEF TransfersInv
<1>2. UNCHANGED <<v1, Wires!tables, v6, v7>> /\ UNCHANGED <<v2, v4>>
  BY DEF Wires!Begin, Wires!tables
<1>3. Kept
  BY <1>2 DEF Kept, Wires!Accepted
<1>4. IntentsPaid' /\ BillsAddUp' /\ FirstOnce'
  BY <1>1, <1>2, <1>3, NothingPaid DEF FirstOnce
<1>5. ASSUME NEW g \in Handlers, NEW r \in InFlight, v8'[g] = r
      PROVE  Fresh(r)'
  <2>1. CASE g = h
    <3>. DEFINE q == [pc |-> IF v1 THEN "submit" ELSE "lookup", key |-> k, expected |-> v,
                      paid |-> v2[Intent[k].bill].paid]
    <3>1. v8'[g] = q
      BY <1>1, <2>1 DEF Wires!Begin, Wires!TypeOK
    <3>2. /\ q.key = k /\ q.expected = v /\ q.paid = v2[Intent[k].bill].paid
          /\ v1 => q.pc \notin {"lookup", "commit"}
      OBVIOUS
    <3>3. /\ v4[k] = NULL /\ v <= v2[Intent[k].bill].version
          /\ Intent[k].claim <= Charged[Intent[k].bill] - v2[Intent[k].bill].paid
      BY DEF Wires!Begin
    <3>. HIDE DEF q
    <3>4. r = q
      BY <1>5, <3>1
    <3>. QED  BY <1>2, <3>2, <3>3, <3>4 DEF Fresh
  <2>2. CASE g # h
    <3>1. v8[g] = r
      BY <1>1, <1>5, <2>2 DEF Wires!Begin, Wires!TypeOK
    <3>2. Fresh(r)
      BY <1>1, <3>1 DEF RequestsFresh
    <3>. QED  BY <1>2, <1>3, <3>2, StaysFresh
  <2>. QED  BY <2>1, <2>2
<1>. QED  BY <1>4, <1>5 DEF TransfersInv, RequestsFresh

(* The steps that only move a request on: what Verify.ET is asked, what it *)
(* answers when it is polled, the lookup, and giving up.                   *)
LEMMA MovingKeeps ==
  ASSUME Wires!TransfersAssumption, TransfersInv, Wires!TypeOK', NEW h \in Handlers,
         Wires!Submit(h) \/ Wires!PollUntilDone(h) \/ Wires!Lookup(h) \/ Wires!GiveUp(h)
  PROVE  TransfersInv'
<1>1. Wires!TypeOK /\ RequestsFresh /\ IntentsPaid /\ FirstOnce /\ BillsAddUp
  BY DEF TransfersInv
<1>2. UNCHANGED <<v1, Wires!tables, v7>> /\ UNCHANGED <<v2, v4>>
  BY DEF Wires!Submit, Wires!PollUntilDone, Wires!Lookup, Wires!GiveUp, Wires!tables
<1>3. \A k \in Keys : v6'[k] = "first" <=> v6[k] = "first"
  <2>1. CASE Wires!Submit(h)
    BY <1>1, <2>1 DEF Wires!Submit, Wires!TypeOK
  <2>2. CASE UNCHANGED v6
    BY <2>2
  <2>. QED  BY <2>1, <2>2 DEF Wires!PollUntilDone, Wires!Lookup, Wires!GiveUp
<1>4. Kept
  BY <1>3 DEF Kept, Wires!Accepted
<1>5. IntentsPaid' /\ BillsAddUp'
  BY <1>1, <1>2, <1>4, NothingPaid
<1>6. FirstOnce'
  BY <1>1, <1>2, <1>3 DEF FirstOnce
<1>7. ASSUME NEW g \in Handlers, NEW r \in InFlight, v8'[g] = r
      PROVE  Fresh(r)'
  <2>1. CASE v8[g] = r
    <3>1. Fresh(r)
      BY <1>1, <2>1 DEF RequestsFresh
    <3>. QED  BY <1>2, <1>4, <3>1, StaysFresh
  <2>2. CASE v8[g] # r
    <3>1. g = h /\ v8[h].pc # "idle"
      BY <1>1, <1>7, <2>2, Requests
      DEF Wires!Submit, Wires!PollUntilDone, Wires!Lookup, Wires!GiveUp, Wires!Becomes, Wires!At, Wires!TypeOK
    <3>2. PICK q \in InFlight : v8[h] = q
      BY <1>1, <3>1, Requests DEF Wires!TypeOK
    <3>3. Fresh(q)
      BY <1>1, <3>2 DEF RequestsFresh
    <3>4. PICK pc : /\ r = [q EXCEPT !.pc = pc]
                    /\ \/ pc = "poll"
                       \/ pc = "lookup" /\ Wires!Accepted(q.key)
                       \/ pc = "commit" /\ q.pc = "lookup"
      BY <1>1, <1>7, <3>1, <3>2, Requests
      DEF Wires!Submit, Wires!PollUntilDone, Wires!Lookup, Wires!GiveUp, Wires!Becomes, Wires!At, Wires!TypeOK
    <3>5. r.key = q.key /\ r.expected = q.expected /\ r.paid = q.paid /\ r.pc = pc
      BY <3>4 DEF InFlight
    <3>6. Fresh(r)
      BY <3>3, <3>4, <3>5 DEF Fresh
    <3>. QED  BY <1>2, <1>4, <3>6, StaysFresh
  <2>. QED  BY <2>1, <2>2
<1>. QED  BY <1>5, <1>6, <1>7 DEF TransfersInv, RequestsFresh

LEMMA AnswerKeeps ==
  ASSUME Wires!TransfersAssumption, TransfersInv, Wires!TypeOK', NEW k \in Keys, Wires!Answer(k)
  PROVE  TransfersInv'
<1>1. Wires!TypeOK /\ RequestsFresh /\ IntentsPaid /\ FirstOnce /\ BillsAddUp
  BY DEF TransfersInv
<1>2. UNCHANGED <<v1, Wires!tables, v8>> /\ UNCHANGED <<v2, v4>>
  BY DEF Wires!Answer, Wires!tables
<1>3. \A j \in Keys \ {k} : v6'[j] = v6[j]
  BY <1>1 DEF Wires!Answer, Wires!TypeOK
<1>4. v6[k] = "processing" /\ v7 \subseteq v7'
  BY DEF Wires!Answer
<1>5. v6'[k] = "first" => Intent[k].ref \notin v7 /\ Intent[k].ref \in v7'
  BY <1>1 DEF Wires!Answer, Wires!TypeOK
<1>6. Kept
  BY <1>3, <1>4 DEF Kept, Wires!Accepted
<1>7. IntentsPaid' /\ BillsAddUp'
  BY <1>1, <1>2, <1>6, NothingPaid
<1>8. FirstOnce'
  BY <1>1, <1>3, <1>4, <1>5 DEF FirstOnce
<1>9. ASSUME NEW g \in Handlers, NEW r \in InFlight, v8'[g] = r
      PROVE  Fresh(r)'
  <2>1. Fresh(r)
    BY <1>1, <1>2, <1>9 DEF RequestsFresh
  <2>. QED  BY <1>2, <1>6, <2>1, StaysFresh
<1>. QED  BY <1>7, <1>8, <1>9 DEF TransfersInv, RequestsFresh

(* A payment is added to its bill, and to no other.                        *)
LEMMA RowAdded ==
  ASSUME Wires!TypeOK, Wires!TypeOK', NEW p \in Wires!Payment, v3' = Append(v3, p)
  PROVE  /\ \A b \in Bills \ {p.bill} : SumOf(Amounts(Rows(b)), Rows(b))' = SumOf(Amounts(Rows(b)), Rows(b))
         /\ SumOf(Amounts(Rows(p.bill)), Rows(p.bill))'
              = p.amount + SumOf(Amounts(Rows(p.bill)), Rows(p.bill))
<1>. DEFINE n0 == Len(v3) + 1
<1>1. /\ DOMAIN v3 = 1..Len(v3) /\ Len(v3) \in Nat /\ n0 \notin DOMAIN v3
      /\ DOMAIN v3' = DOMAIN v3 \cup {n0} /\ v3'[n0] = p
      /\ \A n \in DOMAIN v3 : v3'[n] = v3[n]
  BY DEF Wires!TypeOK
<1>. HIDE DEF n0
<1>2. ASSUME NEW b \in Bills \ {p.bill}
      PROVE  SumOf(Amounts(Rows(b)), Rows(b))' = SumOf(Amounts(Rows(b)), Rows(b))
  <2>1. Rows(b)' = Rows(b)
    BY <1>1, <1>2 DEF Rows
  <2>2. Amounts(Rows(b))' = Amounts(Rows(b))
    BY <1>1, <2>1 DEF Amounts, Rows
  <2>. QED  BY <2>1, <2>2
<1>3. SumOf(Amounts(Rows(p.bill)), Rows(p.bill))' = p.amount + SumOf(Amounts(Rows(p.bill)), Rows(p.bill))
  <2>. DEFINE R == Rows(p.bill)
              f == Amounts(R)'
              e == Amounts(R)
              S == R'
  <2>1. S = R \cup {n0} /\ n0 \notin R
    BY <1>1 DEF Rows
  <2>2. S \ {n0} = R
    BY <2>1
  <2>3. IsFiniteSet(S) /\ f \in [S -> Int]
    <3>1. S \in SUBSET DOMAIN v3' /\ v3' \in Seq(Wires!Payment)
      BY DEF Rows, Wires!TypeOK
    <3>2. f = [n \in S |-> v3'[n].amount]
      BY DEF Amounts
    <3>. HIDE DEF S, R, f
    <3>3. IsFiniteSet(S) /\ [n \in S |-> v3'[n].amount] \in [S -> Int]
      BY <3>1, AmountsOf
    <3>. QED  BY <3>2, <3>3
  <2>4. e \in [R -> Int] /\ R \subseteq DOMAIN v3
    <3>1. R \in SUBSET DOMAIN v3
      BY DEF Rows
    <3>. QED  BY <3>1, PaymentsFinite
  <2>5. \A n \in R : e[n] = f[n]
    BY <1>1, <2>1, <2>4 DEF Amounts
  <2>6. f[n0] = p.amount
    BY <1>1, <2>1 DEF Amounts
  <2>. HIDE DEF R, S, e, f
  <2>7. SumOf(f, S) = f[n0] + SumOf(e, S \ {n0})
    <3>1. n0 \in S /\ e \in [S \ {n0} -> Int] /\ \A n \in S \ {n0} : e[n] = f[n]
      BY <2>1, <2>2, <2>4, <2>5
    <3>. QED  BY <2>3, <3>1, SumWith
  <2>8. SumOf(f, S) = p.amount + SumOf(e, R)
    BY <2>2, <2>6, <2>7
  <2>. QED  BY <2>8 DEF R, S, e, f
<1>. QED  BY <1>2, <1>3

LEMMA CommitKeeps ==
  ASSUME Wires!TransfersAssumption, TransfersInv, Wires!TypeOK', NEW h \in Handlers, Wires!Commit(h)
  PROVE  TransfersInv'
<1>1. Wires!TypeOK /\ RequestsFresh /\ IntentsPaid /\ FirstOnce /\ BillsAddUp
  BY DEF TransfersInv
<1>2. PICK q \in InFlight : v8[h] = q
  BY <1>1, Requests DEF Wires!Commit, Wires!At, Wires!TypeOK
<1>. DEFINE i == Intent[q.key]
            p == [key |-> q.key, ref |-> i.ref, bill |-> i.bill, amount |-> i.claim]
<1>3. q.key \in Keys /\ q.expected \in Nat /\ q.paid \in Nat
  BY DEF InFlight
<1>4. i.bill \in Bills /\ i.ref \in Refs /\ i.claim \in Nat \ {0} /\ Charged[i.bill] \in Nat
  BY <1>3 DEF Wires!TransfersAssumption
<1>5. p \in Wires!Payment /\ p.key = q.key /\ p.ref = i.ref /\ p.bill = i.bill /\ p.amount = i.claim
  BY <1>3, <1>4 DEF Wires!Payment
<1>6. v2[i.bill].version = q.expected /\ q.pc = "commit"
  BY <1>2 DEF Wires!Commit, Wires!SameVersion, Wires!At
<1>7. /\ v4[q.key] = NULL /\ q.paid = v2[i.bill].paid /\ i.claim <= Charged[i.bill] - q.paid
      /\ v1 => Wires!Accepted(q.key)
  <2>1. Fresh(q)
    BY <1>1, <1>2 DEF RequestsFresh
  <2>. QED  BY <1>6, <2>1 DEF Fresh
<1>8. /\ UNCHANGED <<v1, v6, v7, v9>> /\ v3' = Append(v3, p)
      /\ v4' = [v4 EXCEPT ![q.key] = q.expected]
      /\ v8' = [v8 EXCEPT ![h] = Wires!Idle]
  BY <1>2 DEF Wires!Commit, Wires!Of
<1>9. /\ \A b \in Bills \ {i.bill} : v2'[b] = v2[b]
      /\ v2'[i.bill].version = q.expected + 1 /\ v2'[i.bill].paid = q.paid + i.claim
      /\ v2'[i.bill].status = "PAID" <=> v2'[i.bill].paid = Charged[i.bill]
  <2>. DEFINE full == q.paid + i.claim >= Charged[i.bill]
  <2>1. v2' = [v2 EXCEPT ![i.bill] =
                  [status |-> IF full THEN "PAID" ELSE "PAYMENT_PENDING",
                   paid |-> IF full THEN Charged[i.bill] ELSE q.paid + i.claim,
                   version |-> v2[i.bill].version + 1]]
    BY <1>2 DEF Wires!Commit, Wires!Of
  <2>2. full <=> q.paid + i.claim = Charged[i.bill]
    BY <1>3, <1>4, <1>7
  <2>. HIDE DEF full, i
  <2>3. /\ \A b \in Bills \ {i.bill} : v2'[b] = v2[b]
        /\ v2'[i.bill] = [status |-> IF full THEN "PAID" ELSE "PAYMENT_PENDING",
                            paid |-> IF full THEN Charged[i.bill] ELSE q.paid + i.claim,
                            version |-> v2[i.bill].version + 1]
    BY <1>1, <1>4, <2>1 DEF Wires!TypeOK
  <2>. QED  BY <1>6, <2>2, <2>3
<1>. HIDE DEF i, p
<1>10. Kept
  BY <1>8 DEF Kept, Wires!Accepted
<1>11. FirstOnce'
  BY <1>1, <1>8 DEF FirstOnce
<1>12. IntentsPaid'
  <2>1. AsIntended(p)'
    <3>1. v4'[q.key] = q.expected /\ q.expected # NULL
      BY <1>1, <1>3, <1>8 DEF Wires!TypeOK, Wires!TransfersAssumption
    <3>2. v1' => Wires!Accepted(q.key)'
      BY <1>3, <1>7, <1>8, <1>10 DEF Kept
    <3>. QED  BY <1>5, <3>1, <3>2 DEF AsIntended, i
  <2>2. ASSUME NEW n \in DOMAIN v3
        PROVE  AsIntended(v3[n])' /\ v3'[n] = v3[n] /\ v3[n].key # q.key
    <3>1. v3[n] \in Wires!Payment /\ v3'[n] = v3[n]
      BY <1>1, <1>5, <1>8 DEF Wires!TypeOK
    <3>2. AsIntended(v3[n])
      BY <1>1 DEF IntentsPaid
    <3>3. v3[n].key \in Keys /\ v3[n].key # q.key
      BY <1>7, <3>1, <3>2 DEF AsIntended, Wires!Payment
    <3>4. v4'[v3[n].key] # NULL
      BY <1>1, <1>8, <3>2, <3>3 DEF AsIntended, Wires!TypeOK
    <3>5. v1' => Wires!Accepted(v3[n].key)'
      BY <1>8, <1>10, <3>2, <3>3 DEF Kept, AsIntended, Wires!Accepted
    <3>. QED  BY <3>1, <3>2, <3>3, <3>4, <3>5 DEF AsIntended, Wires!Accepted
  <2>3. \A n \in DOMAIN v3' : n \in DOMAIN v3 \/ (n = Len(v3) + 1 /\ v3'[n] = p)
    BY <1>1, <1>5, <1>8 DEF Wires!TypeOK
  <2>. QED  BY <1>1, <1>5, <2>1, <2>2, <2>3 DEF IntentsPaid
<1>13. BillsAddUp'
  <2>1. /\ \A b \in Bills \ {i.bill} : SumOf(Amounts(Rows(b)), Rows(b))' = SumOf(Amounts(Rows(b)), Rows(b))
        /\ SumOf(Amounts(Rows(i.bill)), Rows(i.bill))'
              = i.claim + SumOf(Amounts(Rows(i.bill)), Rows(i.bill))
    BY <1>1, <1>5, <1>8, RowAdded
  <2>2. ASSUME NEW b \in Bills \ {i.bill}
        PROVE  /\ v2'[b].paid = SumOf(Amounts(Rows(b)), Rows(b))' /\ v2'[b].paid <= Charged[b]
               /\ v2'[b].status = "PAID" <=> v2'[b].paid = Charged[b]
    BY <1>1, <1>9, <2>1 DEF BillsAddUp
  <2>3. /\ v2'[i.bill].paid = SumOf(Amounts(Rows(i.bill)), Rows(i.bill))'
        /\ v2'[i.bill].paid <= Charged[i.bill]
    <3>1. v2[i.bill].paid = SumOf(Amounts(Rows(i.bill)), Rows(i.bill))
      BY <1>1, <1>4 DEF BillsAddUp
    <3>. QED  BY <1>3, <1>4, <1>7, <1>9, <2>1, <3>1
  <2>. QED  BY <1>9, <2>2, <2>3 DEF BillsAddUp
<1>14. ASSUME NEW g \in Handlers, NEW r \in InFlight, v8'[g] = r
       PROVE  Fresh(r)'
  <2>1. g # h /\ v8[g] = r
    BY <1>1, <1>8, <1>14, Requests DEF Wires!TypeOK
  <2>2. Fresh(r)
    BY <1>1, <2>1 DEF RequestsFresh
  <2>3. r.key \in Keys /\ r.expected \in Nat /\ Intent[r.key].bill \in Bills
    BY DEF InFlight, Wires!TransfersAssumption
  <2>4. CASE Intent[r.key].bill = i.bill
    <3>1. r.expected < v2'[Intent[r.key].bill].version
      BY <1>3, <1>6, <1>9, <2>2, <2>3, <2>4 DEF Fresh
    <3>2. v1' /\ r.pc \in {"lookup", "commit"} => Wires!Accepted(r.key)'
      BY <1>8, <1>10, <2>2, <2>3 DEF Fresh, Kept
    <3>. QED  BY <1>3, <1>9, <2>3, <2>4, <3>1, <3>2 DEF Fresh
  <2>5. CASE Intent[r.key].bill # i.bill
    <3>1. r.key # q.key
      BY <2>5 DEF i
    <3>2. v4'[r.key] = v4[r.key] /\ v2'[Intent[r.key].bill] = v2[Intent[r.key].bill]
      BY <1>1, <1>8, <1>9, <2>3, <2>5, <3>1 DEF Wires!TypeOK
    <3>. QED  BY <1>8, <1>10, <2>2, <3>2, StaysFresh
  <2>. QED  BY <2>4, <2>5
<1>. QED  BY <1>11, <1>12, <1>13, <1>14 DEF TransfersInv, RequestsFresh
-----------------------------------------------------------------------------
LEMMA TransfersStep == Wires!TransfersAssumption /\ TransfersInv /\ [Wires!Next]_Wires!vars => TransfersInv'
<1>. SUFFICES ASSUME Wires!TransfersAssumption, TransfersInv, [Wires!Next]_Wires!vars PROVE TransfersInv'
  OBVIOUS
<1>1. ASSUME Wires!Next PROVE TransfersInv'
  <2>1. Wires!TypeOK'
    BY <1>1, TransfersTyped DEF TransfersInv
  <2>. QED  BY <1>1, <2>1, BeginKeeps, MovingKeeps, AnswerKeeps, CommitKeeps DEF Wires!Next
<1>2. ASSUME UNCHANGED Wires!vars PROVE TransfersInv'
  <2>1. UNCHANGED <<v1, v2, v3, v4, v5, v6, v7, v8, v9>>
    BY <1>2 DEF Wires!vars, Wires!tables
  <2>2. \A k : Wires!Accepted(k)' <=> Wires!Accepted(k)
    BY <2>1 DEF Wires!Accepted
  <2>3. (\A q : Fresh(q)' <=> Fresh(q)) /\ (\A p : AsIntended(p)' <=> AsIntended(p))
    BY <2>1, <2>2 DEF Fresh, AsIntended
  <2>4. Wires!TypeOK' /\ RequestsFresh' /\ FirstOnce'
    BY <2>1, <2>3 DEF TransfersInv, Wires!TypeOK, RequestsFresh, FirstOnce
  <2>5. IntentsPaid' /\ BillsAddUp'
    BY <2>1, <2>2, NothingPaid DEF TransfersInv, Kept, Wires!tables
  <2>. QED  BY <2>4, <2>5 DEF TransfersInv
<1>. QED  BY <1>1, <1>2
-----------------------------------------------------------------------------
(* Each subject's invariant.                                               *)
HouseInv ==
  /\ subject \in {"stays", "service"} => StayInv
  /\ subject = "outside" => PiecesInv
  /\ subject \in {"menu", "portions"} => PortionInv
  /\ subject = "alerts" => AlertInv
  /\ subject \in {"notices", "leads"} => NoticeInv
  /\ subject = "reviews" => ReviewInv
  /\ subject = "transfers" => TransfersInv

(* A step of nobody changes nothing they are about.                        *)
LEMMA HouseRest ==
  ASSUME HouseAssumption, HouseInv, UNCHANGED vars
  PROVE  HouseInv'
<1>1. UNCHANGED <<subject, v1, v2, v3, v4, v5, v6, v7, v8, v9>>
  BY DEF vars
<1>2. StayInv => StayInv'
  BY <1>1 DEF StayInv, Waits, Hotel!TypeOK, Hotel!StayHolds, Hotel!Listed, Hotel!OpenCalls
<1>3. PiecesInv => PiecesInv'
  BY <1>1 DEF PiecesInv
<1>4. PortionInv => PortionInv'
  BY <1>1 DEF PortionInv, LimitInv, OrderInv, Menus!NotOversold
<1>5. AlertInv => AlertInv'
  BY <1>1 DEF AlertInv
<1>6. NoticeInv => NoticeInv'
  BY <1>1 DEF NoticeInv
<1>7. ReviewInv => ReviewInv'
  <2>1. (Opinions!Rows)' = Opinions!Rows
    BY <1>1 DEF Opinions!Rows
  <2>. QED  BY <1>1, <2>1 DEF ReviewInv, ReviewRows, PhoneIsFirst
<1>8. TransfersInv => TransfersInv'
  <2>1. UNCHANGED Wires!vars
    BY <1>1 DEF Wires!vars, Wires!tables
  <2>. QED  BY <2>1, TransfersStep DEF HouseAssumption
<1>. QED  BY <1>1, <1>2, <1>3, <1>4, <1>5, <1>6, <1>7, <1>8 DEF HouseInv

(* Each subject's step keeps its invariant.                                *)
LEMMA HouseGoesOn ==
  ASSUME HouseAssumption, OnePhone, OneBatch, HouseInv, HouseNext
  PROVE  HouseInv'
<1>1. UNCHANGED subject
  BY DEF HouseNext
<1>2. CASE StayNext
  BY <1>1, <1>2, StayGoesOn DEF StayNext, HouseInv
<1>3. CASE MenuNext
  BY <1>1, <1>3, PortionsGoOn DEF MenuNext, HouseInv
<1>4. CASE subject = "outside" /\ Outsides!Next
  BY <1>1, <1>4, PiecesGoOn DEF HouseInv
<1>5. CASE subject = "alerts" /\ Alarms!Next
  BY <1>1, <1>5, AlertsGoOn DEF HouseInv
<1>6. CASE subject \in {"notices", "leads"} /\ Tellings!Next
  BY <1>1, <1>6, NoticesGoOn DEF HouseInv
<1>7. CASE subject = "reviews" /\ Opinions!Next
  BY <1>1, <1>7, ReviewsGoOn DEF HouseInv
<1>8. CASE subject = "transfers" /\ Wires!Next
  BY <1>1, <1>8, TransfersStep DEF HouseInv, HouseAssumption
<1>. QED  BY <1>2, <1>3, <1>4, <1>5, <1>6, <1>7, <1>8 DEF HouseNext, GuestNext

(* An intent is paid once however often it is sent (payTransfer); a bill   *)
(* was paid what its payments come to, and is PAID when that is its total; *)
(* and where Verify.ET is asked, a transfer pays for one bill and no more  *)
(* than it moved.                                                          *)
THEOREM TransfersHoldAlways ==
  ASSUME Wires!TransfersAssumption
  PROVE  Wires!Spec => []Wires!TransfersHold
<1>1. Wires!Init => TransfersInv
  BY TransfersInit
<1>2. TransfersInv /\ [Wires!Next]_Wires!vars => TransfersInv'
  BY TransfersStep
<1>3. TransfersInv => Wires!TransfersHold
  BY TransfersInvMeans
<1>. QED  BY <1>1, <1>2, <1>3, PTL DEF Wires!Spec

(* What the house owes its guests holds: rooms are given to one party and  *)
(* their meals served once (hotel), lent materials are accounted for       *)
(* (outside orders), limited portions are not sold twice (menu), what      *)
(* waits too long is noticed (the alert sweep, of at most one batch),      *)
(* staff are told once (notifications), a visit is reviewed once (by one   *)
(* phone at a time), and a transfer pays once.                             *)
THEOREM HouseIsInOrder ==
  ASSUME HouseAssumption, OnePhone, OneBatch
  PROVE  HouseSpec => []HouseHolds
<1>1. HouseInit => HouseInv
  BY StayStarts, PiecesStart, PortionsStart, AlertsStart, NoticesStart, ReviewsStart, TransfersInit
  DEF HouseInit, HouseInv, HouseAssumption
<1>2. HouseInv /\ [HouseNext]_vars => HouseInv'
  BY HouseGoesOn, HouseRest
<1>3. HouseInv => HouseHolds
  BY PiecesConserved, NobodyIsOverlooked, NoticesAreHeld, ReviewsAreHeld, TransfersInvMeans
  DEF HouseInv, HouseHolds, HouseAssumption, StayInv, PortionInv, LimitInv
<1>. QED  BY <1>1, <1>2, <1>3, PTL DEF HouseSpec
================================================================================
