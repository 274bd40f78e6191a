--------------------------------- MODULE Guests ---------------------------------
(***************************************************************************)
(* The guests a restaurant's cameras recognise:                            *)
(* src/biometrics/biometrics.service.ts.  Faces are compared by an         *)
(* external service: a frame shows one of a person's profiles or, when it  *)
(* is poor or the person has none, nobody.  A scan reads the profiles in   *)
(* one statement, writes the profile in a second and the visit's log in a  *)
(* third; another camera or a manager may come in between, and the scan    *)
(* may stop.  A profile without a photo is recognised by no frame and left *)
(* out.                                                                    *)
(***************************************************************************)
EXTENDS Integers, Sequences, FiniteSets

CONSTANTS Cameras,  \* scans under way
          Profiles, \* ids of customer_biometric_profiles
          People,   \* the persons seen
          Window,   \* the debounce window in ticks of the clock (four hours)
          MaxTime,  \* bound: the clock stops there
          VipAt, VvipAt \* visits for the tiers (5 and 15)

(* What the constants are.                                                 *)
GuestsAssumption ==
  /\ Window \in Nat \ {0} /\ MaxTime \in Nat
  /\ VipAt \in Nat \ {0} /\ VvipAt \in Nat /\ VipAt < VvipAt

VARIABLES
  now,     \* the clock
  profile, \* customer_biometric_profiles
  log,     \* customer_visit_logs: the times of a profile's scans
  recent,  \* profiles enrolled within twenty seconds, the last first
  camera   \* the scan a camera has under way

vars == <<now, profile, log, recent, camera>>
-----------------------------------------------------------------------------
NoRow == [tier |-> "NONE"]
Gone == [tier |-> "GONE"]
Idle == [at |-> "idle"]
Time == 0..MaxTime
Tiers == {"REGULAR", "VIP", "VVIP"}
(* logged is history: whether every scan that was counted is in the log.   *)
Profile == [tier : Tiers, person : People, visits : 1..(MaxTime + 1), last : Time, made : Time,
            logged : {"all", "some"}]

(* The tables and the scans have their types.                              *)
TypeOK ==
  /\ now \in Time /\ profile \in [Profiles -> {NoRow, Gone} \cup Profile]
  /\ log \in [Profiles -> Seq(Time)] /\ recent \in Seq(Profiles)
  /\ camera \in [Cameras -> {Idle} \cup [at : {"count"}, profile : Profiles, was : Profile, time : Time]
                                   \cup [at : {"log"}, profile : Profiles, time : Time]
                                   \cup [at : {"enrol"}, person : People]]

Init ==
  /\ now = 0 /\ profile = [f \in Profiles |-> NoRow] /\ log = [f \in Profiles |-> <<>>]
  /\ recent = <<>> /\ camera = [c \in Cameras |-> Idle]

Exists(f) == profile[f] \notin {NoRow, Gone}
(* Mutant: a later scan is a new visit.                                    *)
AnyLater(last, time) == time - last > 0
(* Scans of one meal are one visit; the window starts again with each.     *)
IsNewDiningSession(last, time) == time - last > Window
Visits(was, time) == IF IsNewDiningSession(was.last, time) THEN was.visits + 1 ELSE was.visits
(* A guest rises one tier at a time and is never lowered.                  *)
Promoted(tier, visits) ==
  IF visits >= VipAt /\ tier = "REGULAR" THEN "VIP"
  ELSE IF visits >= VvipAt /\ tier = "VIP" THEN "VVIP"
  ELSE tier
New(p, tier) == [tier |-> tier, person |-> p, visits |-> 1, last |-> now, made |-> now,
                 logged |-> "all"]
Goto(c, scan) == camera' = [camera EXCEPT ![c] = scan]
-----------------------------------------------------------------------------
Tick ==
  /\ now < MaxTime /\ now' = now + 1 /\ recent' = <<>>
  /\ UNCHANGED <<profile, log, camera>>

(* scanCustomer recognises a guest,                                        *)
ScanMatched(c, f) ==
  /\ camera[c] = Idle /\ Exists(f)
  /\ Goto(c, [at |-> "count", profile |-> f, was |-> profile[f], time |-> now])
  /\ UNCHANGED <<now, profile, log, recent>>
(* counts the visit on what it read, the tier included (a profile deleted  *)
(* in the meantime fails the scan),                                        *)
CountVisit(c) ==
  /\ camera[c].at = "count"
  /\ LET s == camera[c]
         visits == Visits(s.was, s.time) IN
       IF Exists(s.profile)
       THEN /\ profile' = [profile EXCEPT ![s.profile] =
                 [@ EXCEPT !.visits = visits, !.last = s.time,
                           !.tier = Promoted(s.was.tier, visits)]]
            /\ Goto(c, [at |-> "log", profile |-> s.profile, time |-> s.time])
       ELSE UNCHANGED profile /\ Goto(c, Idle)
  /\ UNCHANGED <<now, log, recent>>
(* and logs it.                                                            *)
LogVisit(c) ==
  /\ camera[c].at = "log"
  /\ LET s == camera[c] IN
       log' = [log EXCEPT ![s.profile] = IF Exists(s.profile) THEN Append(@, s.time) ELSE @]
  /\ Goto(c, Idle) /\ UNCHANGED <<now, profile, recent>>
(* A person nobody looks like is enrolled, unless the profile enrolled     *)
(* last, moments ago, is the same person's.                                *)
ScanUnknown(c, p) ==
  /\ camera[c] = Idle /\ (recent # <<>> => profile[Head(recent)].person # p)
  /\ Goto(c, [at |-> "enrol", person |-> p])
  /\ UNCHANGED <<now, profile, log, recent>>
Enrol(c, f) ==
  /\ camera[c].at = "enrol" /\ profile[f] = NoRow
  /\ profile' = [profile EXCEPT ![f] = New(camera[c].person, "REGULAR")]
  /\ recent' = <<f>> \o recent /\ Goto(c, [at |-> "log", profile |-> f, time |-> now])
  /\ UNCHANGED <<now, log>>
(* A scan that stops between its statements is never logged.               *)
Stop(c) ==
  /\ camera[c] # Idle /\ Goto(c, Idle)
  /\ LET s == camera[c] IN
       IF s.at = "log" /\ Exists(s.profile) THEN profile' = [profile EXCEPT ![s.profile].logged = "some"]
       ELSE UNCHANGED profile
  /\ UNCHANGED <<now, log, recent>>

(* createCustomer, with a photo, neither looks for the person nor logs.    *)
CreateCustomer(f, p, tier) ==
  /\ profile[f] = NoRow /\ profile' = [profile EXCEPT ![f] = New(p, tier)]
  /\ recent' = <<f>> \o recent
  /\ UNCHANGED <<now, log, camera>>
UpdateCustomer(f, tier) ==
  /\ Exists(f) /\ profile' = [profile EXCEPT ![f].tier = tier]
  /\ UNCHANGED <<now, log, recent, camera>>
(* deleteCustomer: the logs go with the profile.                           *)
DeleteCustomer(f) ==
  /\ Exists(f)
  /\ profile' = [profile EXCEPT ![f] = Gone] /\ log' = [log EXCEPT ![f] = <<>>]
  /\ recent' = SelectSeq(recent, LAMBDA g : g # f)
  /\ UNCHANGED <<now, camera>>

(* Bound: a profile's log has room for one scan of each tick.              *)
Room(f) == Len(log[f]) <= MaxTime
Next ==
  \/ Tick
  \/ \E c \in Cameras :
       \/ CountVisit(c) \/ LogVisit(c) \/ Stop(c)
       \/ \E f \in Profiles : (Room(f) /\ ScanMatched(c, f)) \/ Enrol(c, f)
       \/ \E p \in People : ScanUnknown(c, p)
  \/ \E f \in Profiles :
       \/ \E p \in People, t \in Tiers : CreateCustomer(f, p, t)
       \/ \E t \in Tiers : UpdateCustomer(f, t)
       \/ DeleteCustomer(f)

Spec == Init /\ [][Next]_vars
-----------------------------------------------------------------------------
(* The visits of a profile no scan is at work on, and none stopped before  *)
(* it was logged, are its first and one more for every scan that came      *)
(* later than the window after the one before: the count and the log       *)
(* agree.  True of one camera.                                             *)
VisitsCounted ==
  \A f \in Profiles :
    Exists(f) /\ profile[f].logged = "all" /\ (\A c \in Cameras : camera[c] = Idle) =>
      LET seen == <<profile[f].made>> \o log[f]
          later == {i \in 1..(Len(seen) - 1) : seen[i + 1] - seen[i] > Window} IN
        profile[f].visits = 1 + Cardinality(later)
=============================================================================
