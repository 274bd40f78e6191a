--------------------------------- MODULE Backup ---------------------------------
(***************************************************************************)
(* Backups of restaurants (src/backup): the schedule, which lives in the   *)
(* memory of the process, chats that owners link through the Telegram bot, *)
(* the archive, read table after table without a transaction, and its      *)
(* restoration.                                                            *)
(*                                                                         *)
(* Three tables stand for all: a seating, its bill and the bill's payment. *)
(* The archive has bills before payments and both before seatings, which   *)
(* the exporter's order does not name.  The exporter is given its tenant.  *)
(***************************************************************************)
EXTENDS Integers, Sequences, FiniteSets

CONSTANTS Tenants,  \* restaurants
          Chats,    \* Telegram chats
          Jobs,     \* handlers sending backups at the same time
          Hours,    \* hours of a day (24)
          Midnight, \* how the runtime prints hour 0 with hour12: false, as 0 or as 24
          Sunday,   \* bound: days 0..Sunday, the last of them a Sunday
          MaxStart, \* bound: /start messages to the bot
          NULL      \* no chat

(* What the constants are.                                                 *)
BackupAssumption ==
  /\ Hours \in Nat /\ Hours > 0 /\ Hours % 2 = 0 /\ {Sunday, MaxStart} \subseteq Nat
  /\ NULL \notin Chats /\ Midnight \in {0, Hours}

VARIABLES
  clock,    \* day and hour in Addis Ababa
  settings, \* globalSettings, in memory
  last,     \* lastRunDay and lastRunHour, in memory
  started,  \* scheduled runs in this hour since the process started
  bot,      \* messages at Telegram, and how many of them it has dropped
  seen,     \* lastUpdateId, in memory
  fetched,  \* messages being processed
  link,     \* entitlement TELEGRAM_BACKUP: the chat, or NULL
  job,      \* what a handler is about
  archive,  \* the archives that were sent
  data      \* the restaurant's rows

vars == <<clock, settings, last, started, bot, seen, fetched, link, job, archive, data>>
memory == <<settings, last, started, seen, fetched, job>>
-----------------------------------------------------------------------------
Settings == [interval : {"DAILY", "TWICE_DAILY", "WEEKLY", "MANUAL"}, enabled : BOOLEAN,
             sendHour : 0..(Hours - 1)]
Default == [interval |-> "DAILY", enabled |-> TRUE, sendHour |-> 0]
Never == [day |-> -1, hour |-> -1]
Idle == [at |-> "idle"]
Rows == [session : {"none", "open", "paid"}, bill : {"none", "open", "paid"}, payment : {"none", "made"}]
NoRows == [session |-> "none", bill |-> "none", payment |-> "none"]

(* Memory and tables have their types.                                     *)
TypeOK ==
  /\ clock \in [day : 0..Sunday, hour : 0..(Hours - 1)] /\ settings \in Settings
  /\ last \in [day : -1..Sunday, hour : -1..Hours] /\ started \in Nat
  /\ bot.queue \in Seq(Tenants \X Chats) /\ bot.dropped \in 0..Len(bot.queue)
  /\ seen \in 0..Len(bot.queue) /\ fetched \subseteq 1..Len(bot.queue)
  /\ link \in [Tenants -> Chats \cup {NULL}] /\ data \in [Tenants -> Rows]
  /\ archive \in [Tenants -> SUBSET Rows]
  /\ job \in [Jobs -> {Idle} \cup
       [at : {"link", "bills", "payments", "sessions", "send"}, todo : SUBSET Tenants,
        chat : Chats \cup {NULL}, copy : Rows]]

Init ==
  /\ clock = [day |-> 0, hour |-> 0] /\ settings = Default /\ last = Never /\ started = 0
  /\ bot = [queue |-> <<>>, dropped |-> 0] /\ seen = 0 /\ fetched = {}
  /\ link = [t \in Tenants |-> NULL] /\ job = [j \in Jobs |-> Idle]
  /\ archive = [t \in Tenants |-> {}] /\ data = [t \in Tenants |-> NoRows]
-----------------------------------------------------------------------------
(* The clock and the minute's evaluateSchedule.  The run is marked before  *)
(* it is awaited, the next evaluation does not wait for it.                *)
NextHour ==
  /\ clock # [day |-> Sunday, hour |-> Hours - 1]
  /\ clock' = IF clock.hour + 1 = Hours THEN [day |-> clock.day + 1, hour |-> 0]
              ELSE [clock EXCEPT !.hour = @ + 1]
  /\ started' = 0
  /\ UNCHANGED <<settings, last, bot, seen, fetched, link, job, archive, data>>
UpdateGlobalSettings(s) ==
  /\ settings' = s
  /\ UNCHANGED <<clock, last, started, bot, seen, fetched, link, job, archive, data>>

currentHour == IF clock.hour = 0 THEN Midnight ELSE clock.hour
ShouldRun ==
  /\ settings.enabled
  /\ \/ settings.interval = "DAILY" /\ currentHour = settings.sendHour /\ last.day # clock.day
     \/ /\ settings.interval = "TWICE_DAILY" /\ last.hour # currentHour
        /\ currentHour \in {settings.sendHour, (settings.sendHour + Hours \div 2) % Hours}
     \/ /\ settings.interval = "WEEKLY" /\ clock.day = Sunday
        /\ currentHour = settings.sendHour /\ last.day # clock.day
Linked == {t \in Tenants : link[t] # NULL}
NewJob(ts) == [at |-> "link", todo |-> ts, chat |-> NULL, copy |-> NoRows]
(* Mutant: the run is marked by its day only.                              *)
MarkDay == last' = [last EXCEPT !.day = clock.day]
MarkRun == last' = [day |-> clock.day, hour |-> currentHour]
EvaluateSchedule(j) ==
  /\ ShouldRun /\ MarkRun /\ started' = started + 1
  /\ job[j] = Idle /\ job' = [job EXCEPT ![j] = IF Linked = {} THEN Idle ELSE NewJob(Linked)]
  /\ UNCHANGED <<clock, settings, bot, seen, fetched, link, archive, data>>
(* An owner's own backup, and the platform's of all restaurants.           *)
Trigger(j, ts) ==
  /\ job[j] = Idle /\ ts # {} /\ ts \subseteq Linked /\ job' = [job EXCEPT ![j] = NewJob(ts)]
  /\ UNCHANGED <<clock, settings, last, started, bot, seen, fetched, link, archive, data>>
-----------------------------------------------------------------------------
(* Chats.  getUpdates drops what was seen and returns the rest; a message  *)
(* is seen before it is processed.                                         *)
Start(t, c) ==
  /\ Len(bot.queue) < MaxStart /\ bot' = [bot EXCEPT !.queue = Append(@, <<t, c>>)]
  /\ UNCHANGED <<clock, memory, link, archive, data>>
GetUpdates ==
  /\ fetched = {} /\ bot' = [bot EXCEPT !.dropped = IF seen > @ THEN seen ELSE @]
  /\ fetched' = {n \in DOMAIN bot.queue : n > bot'.dropped}
  /\ UNCHANGED <<clock, settings, last, started, seen, link, job, archive, data>>
ProcessUpdate(n) ==
  /\ n \in fetched /\ \A k \in fetched : n <= k
  /\ fetched' = fetched \ {n} /\ seen' = IF n > seen THEN n ELSE seen
  /\ link' = [link EXCEPT ![bot.queue[n][1]] = bot.queue[n][2]]
  /\ UNCHANGED <<clock, settings, last, started, bot, job, archive, data>>
LinkTelegram(t, c) ==
  /\ link' = [link EXCEPT ![t] = c] /\ UNCHANGED <<clock, memory, bot, archive, data>>
UnlinkTelegram(t) ==
  /\ link' = [link EXCEPT ![t] = NULL] /\ UNCHANGED <<clock, memory, bot, archive, data>>
-----------------------------------------------------------------------------
(* sendBackupToTelegram for one restaurant after the other: the chat, the  *)
(* tables one by one, then the document.  A restaurant that was unlinked   *)
(* in the meantime is skipped.                                             *)
Tables == <<"bills", "payments", "sessions", "send">>
(* Mutant: seatings first, as the references among the tables suggest.     *)
ReadParentsFirst(at, copy, rows) ==
  CASE at = "bills" -> [copy EXCEPT !.session = rows.session]
    [] at = "payments" -> [copy EXCEPT !.bill = rows.bill]
    [] OTHER -> [copy EXCEPT !.payment = rows.payment]
ReadTable(at, copy, rows) ==
  CASE at = "bills" -> [copy EXCEPT !.bill = rows.bill]
    [] at = "payments" -> [copy EXCEPT !.payment = rows.payment]
    [] OTHER -> [copy EXCEPT !.session = rows.session]
After(j, t) == IF job[j].todo = {t} THEN Idle ELSE NewJob(job[j].todo \ {t})
(* An upload that fails is reported and not tried again.                   *)
SendBackupDocument(t, copy) == archive' \in {archive, [archive EXCEPT ![t] = @ \cup {copy}]}
SendBackup(j, t) ==
  LET at == job[j].at
      next == [i \in 1..3 |-> <<Tables[i], Tables[i + 1]>>] IN
  /\ at # "idle" /\ t \in job[j].todo
  /\ \/ /\ at = "link" /\ link[t] = NULL
        /\ job' = [job EXCEPT ![j] = After(j, t)] /\ UNCHANGED archive
     \/ /\ at = "link" /\ link[t] # NULL
        /\ job' = [job EXCEPT ![j] = [job[j] EXCEPT !.at = "bills", !.chat = link[t]]]
        /\ UNCHANGED archive
     \/ \E i \in 1..3 :
          /\ next[i][1] = at /\ UNCHANGED archive
          /\ job' = [job EXCEPT ![j] = [job[j] EXCEPT !.at = next[i][2],
                                                      !.copy = ReadTable(at, job[j].copy, data[t])]]
     \/ at = "send" /\ SendBackupDocument(t, job[j].copy) /\ job' = [job EXCEPT ![j] = After(j, t)]
  /\ UNCHANGED <<clock, settings, last, started, bot, seen, fetched, link, data>>

(* restoreFromArchive: one statement after the other in one transaction;   *)
(* rows that are there already take the archive's values, rows the archive *)
(* has not are left, and a bill without its seating is refused.            *)
Upsert(old, new) == IF new = "none" THEN old ELSE new
Accepted(copy, rows) ==
  /\ copy.bill # "none" => rows.session # "none"
  /\ copy.payment # "none" => Upsert(rows.bill, copy.bill) # "none"
RestoreFromArchive(t, copy) ==
  /\ copy \in archive[t] /\ Accepted(copy, data[t])
  /\ data' = [data EXCEPT ![t] = [session |-> Upsert(@.session, copy.session),
       bill |-> Upsert(@.bill, copy.bill), payment |-> Upsert(@.payment, copy.payment)]]
  /\ UNCHANGED <<clock, memory, bot, link, archive>>

(* What the restaurant does meanwhile.                                     *)
Serve(t) ==
  /\ \/ data[t].session = "none" /\ data' = [data EXCEPT ![t].session = "open"]
     \/ /\ data[t].session = "open" /\ data[t].bill = "none"
        /\ data' = [data EXCEPT ![t].bill = "open"]
     \/ /\ data[t].bill = "open" /\ data[t].payment = "none"
        /\ data' = [data EXCEPT ![t] = [session |-> "paid", bill |-> "paid", payment |-> "made"]]
  /\ UNCHANGED <<clock, memory, bot, link, archive>>

(* The process dies; the database may be lost with it.                     *)
Restart(lost) ==
  /\ settings' = Default /\ last' = Never /\ started' = 0 /\ seen' = 0 /\ fetched' = {}
  /\ job' = [j \in Jobs |-> Idle]
  /\ IF lost THEN data' = [t \in Tenants |-> NoRows] /\ link' = [t \in Tenants |-> NULL]
     ELSE UNCHANGED <<data, link>>
  /\ UNCHANGED <<clock, bot, archive>>
-----------------------------------------------------------------------------
Scheduling ==
  \/ NextHour \/ \E s \in Settings : UpdateGlobalSettings(s)
  \/ \E j \in Jobs : EvaluateSchedule(j)
  \/ \E j \in Jobs, t \in Tenants : SendBackup(j, t)
  \/ \E t \in Tenants, c \in Chats : LinkTelegram(t, c)
  \/ Restart(FALSE)
Linking ==
  \/ \E t \in Tenants, c \in Chats : Start(t, c) \/ LinkTelegram(t, c)
  \/ GetUpdates \/ \E n \in DOMAIN bot.queue : ProcessUpdate(n)
  \/ \E t \in Tenants : UnlinkTelegram(t)
  \/ \E j \in Jobs : (\E ts \in SUBSET Tenants : Trigger(j, ts)) \/ \E t \in Tenants : SendBackup(j, t)
  \/ Restart(FALSE)
Archiving ==
  \/ \E t \in Tenants, c \in Chats : LinkTelegram(t, c)
  \/ \E t \in Tenants : Serve(t) \/ \E copy \in archive[t] : RestoreFromArchive(t, copy)
  \/ \E j \in Jobs : (\E ts \in SUBSET Tenants : Trigger(j, ts)) \/ \E t \in Tenants : SendBackup(j, t)
  \/ \E lost \in BOOLEAN : Restart(lost)
Next == Scheduling \/ Linking \/ Archiving

Spec == Init /\ [][Next]_vars
-----------------------------------------------------------------------------
(* In one hour the schedule starts one run, however often it is evaluated  *)
(* while the run is awaited and whatever becomes of the settings, unless   *)
(* the process is restarted; and an archive that has a bill has its        *)
(* seating, since seatings are read last.                                  *)
BackupsHold ==
  /\ started <= 1
  /\ \A t \in Tenants : \A copy \in archive[t] : copy.bill # "none" => copy.session # "none"

(* Not so, although the archive calls itself a "100% verified complete     *)
(* snapshot ... for disaster recovery": its rows were true at one time, it *)
(* can be restored to an empty database, and a restaurant restored agrees  *)
(* with itself.                                                            *)
Consistent(rows) ==
  /\ rows.payment = "made" <=> rows.bill = "paid"
  /\ rows.bill = "paid" <=> rows.session = "paid"
ArchiveIsSnapshot == \A t \in Tenants : \A copy \in archive[t] : Consistent(copy)
ArchiveRecovers == \A t \in Tenants : \A copy \in archive[t] : Accepted(copy, NoRows)
RestoredIsConsistent == \A t \in Tenants : Consistent(data[t])
================================================================================
