------------------------------- MODULE Alerts -------------------------------
(***************************************************************************)
(* The alerts about slow tickets and idle tables: a timer job per ticket   *)
(* and kind in a queue (src/orders/queues/order-sla.queue.ts and           *)
(* order-sla.processor.ts), a sweep every two minutes as "fallback safety  *)
(* net" (src/orders/order-sla-monitor.service.ts), and the sweep over open *)
(* sessions (src/floor/session-idle-monitor.service.ts).                   *)
(*                                                                         *)
(* A sweep reads its tickets at once and then goes through what it read,   *)
(* one write at a time; a job reads its ticket and then writes it.  The    *)
(* column that says an alert was sent is written before it is sent.        *)
(***************************************************************************)
EXTENDS Naturals, FiniteSets

CONSTANTS Tickets,      \* order items in the kitchen
          Sessions,     \* table and room sessions
          UnackLimit, StaleLimit, IdleLimit, \* branch_settings, in ticks
          Target,       \* expectedPrepMinutesSnapshot of a ticket, in ticks
          Batch,        \* how many tickets a sweep reads at most
          MaxTime       \* bound: ticks

(* What the constants are.                                                 *)
AlertsAssumption ==
  /\ {Target, Batch, MaxTime} \subseteq Nat
  /\ {UnackLimit, StaleLimit, IdleLimit} \subseteq Nat \ {0}

VARIABLES
  now,      \* the time
  ticket,   \* the order_items columns alerts are about
  job,      \* jobs waiting in the queue, with the time they are due
  worker,   \* the job being processed, with the ticket it read
  monitor,  \* the sweep over tickets: what it read and has yet to look at
  seat      \* the sessions columns alerts are about
vars == <<now, ticket, job, worker, monitor, seat>>
-----------------------------------------------------------------------------
Cooking == {"QUEUED", "ACKNOWLEDGED", "IN_PREPARATION"}
Kinds == {"unack", "delay", "stale"}
Jobs == {"unack", "delay"}
Time == 0..MaxTime
NoTicket == [state |-> "NONE"]
Ticket == [state : Cooking \cup {"PARKED", "DONE"}, queued : Time, marked : SUBSET Kinds]
NoSeat == [open |-> FALSE]
Rest == [at |-> "rest"]

TypeOK ==
  /\ now \in Time /\ ticket \in [Tickets -> Ticket \cup {NoTicket}]
  /\ \A j \in job : j.ticket \in Tickets /\ j.kind \in Jobs /\ j.due \in Nat
  /\ (worker # Rest => worker.ticket \in Tickets /\ worker.kind \in Jobs)
  /\ (monitor # Rest => monitor.todo \subseteq Tickets \X Kinds)
  /\ seat \in [Sessions -> {NoSeat} \cup [open : {TRUE}, active : Time, warned : BOOLEAN]]

Init ==
  /\ now = 0 /\ ticket = [t \in Tickets |-> NoTicket] /\ job = {} /\ worker = Rest
  /\ monitor = Rest /\ seat = [s \in Sessions |-> NoSeat]

Tick ==
  /\ now < MaxTime /\ now' = now + 1 /\ UNCHANGED <<ticket, job, worker, monitor, seat>>
-----------------------------------------------------------------------------
(* Tickets.  scheduleItemTimers follows the order unawaited, and fails     *)
(* when the queue is down.                                                 *)
Longer(ticks) == IF ticks < 1 THEN 1 ELSE ticks
ScheduleItemTimers(t) ==
  {[ticket |-> t, kind |-> "unack", due |-> now + Longer(UnackLimit)],
   [ticket |-> t, kind |-> "delay", due |-> now + Longer(Target)]}
Confirm(t, up) ==
  /\ ticket[t] = NoTicket
  /\ ticket' = [ticket EXCEPT ![t] = [state |-> "QUEUED", queued |-> now, marked |-> {}]]
  /\ job' = IF up THEN job \cup ScheduleItemTimers(t) ELSE job
  /\ UNCHANGED <<now, worker, monitor, seat>>

Without(t, kinds) == {j \in job : j.ticket = t /\ j.kind \in kinds}
(* Acknowledging takes the first timer off the queue, getting ready or     *)
(* reporting a failure both; the other moves leave them.                   *)
Acknowledge(t) ==
  /\ ticket[t].state = "QUEUED" /\ ticket' = [ticket EXCEPT ![t].state = "ACKNOWLEDGED"]
  /\ job' = job \ Without(t, {"unack"}) /\ UNCHANGED <<now, worker, monitor, seat>>
StartPreparation(t) ==
  /\ ticket[t].state = "ACKNOWLEDGED" /\ ticket' = [ticket EXCEPT ![t].state = "IN_PREPARATION"]
  /\ UNCHANGED <<now, job, worker, monitor, seat>>
MarkReady(t) ==
  /\ ticket[t].state = "IN_PREPARATION" /\ ticket' = [ticket EXCEPT ![t].state = "DONE"]
  /\ job' = job \ Without(t, Jobs) /\ UNCHANGED <<now, worker, monitor, seat>>
CancelTicket(t) ==
  /\ ticket[t].state \in {"QUEUED", "ACKNOWLEDGED", "PARKED"}
  /\ ticket' = [ticket EXCEPT ![t].state = "DONE"]
  /\ UNCHANGED <<now, job, worker, monitor, seat>>
(* A ticket in preparation waits for a manager's decision,                 *)
Park(t) ==
  /\ ticket[t].state = "IN_PREPARATION" /\ ticket' = [ticket EXCEPT ![t].state = "PARKED"]
  /\ UNCHANGED <<now, job, worker, monitor, seat>>
Restore(t) ==
  /\ ticket[t].state = "PARKED" /\ ticket' = [ticket EXCEPT ![t].state = "IN_PREPARATION"]
  /\ UNCHANGED <<now, job, worker, monitor, seat>>
(* and a new dish starts over, but for the stale warning and the jobs.     *)
ChangeDish(t) ==
  /\ ticket[t].state \in {"QUEUED", "ACKNOWLEDGED", "PARKED"}
  /\ ticket' = [ticket EXCEPT ![t] = [state |-> "QUEUED", queued |-> now,
                                      marked |-> @.marked \cap {"stale"}]]
  /\ UNCHANGED <<now, job, worker, monitor, seat>>
-----------------------------------------------------------------------------
(* OrderSlaProcessor: a job that is due reads its ticket, and neither      *)
(* looks at how long it has been waiting.                                  *)
Unalerted(t, kind) ==
  /\ kind \notin ticket[t].marked
  /\ ticket[t].state \in (IF kind = "unack" THEN {"QUEUED"} ELSE Cooking)
HandleCheck(j) ==
  /\ worker = Rest /\ j.due <= now /\ job' = job \ {j}
  /\ worker' = IF Unalerted(j.ticket, j.kind)
               THEN [at |-> "alert", ticket |-> j.ticket, kind |-> j.kind] ELSE Rest
  /\ UNCHANGED <<now, ticket, monitor, seat>>
Alert(t, kind) == ticket' = [ticket EXCEPT ![t].marked = @ \cup {kind}]
HandleAlert ==
  /\ worker # Rest /\ Alert(worker.ticket, worker.kind) /\ worker' = Rest
  /\ UNCHANGED <<now, job, monitor, seat>>

(* Mutant: the stale alert is not looked for.                              *)
LacksFirstAlert(t) ==
  /\ ticket[t] # NoTicket /\ ticket[t].state \in Cooking
  /\ ~({"unack", "delay"} \subseteq ticket[t].marked)
(* checkSlaBreaches reads up to a batch of tickets that lack an alert,     *)
LacksAlert(t) ==
  /\ ticket[t] # NoTicket /\ ticket[t].state \in Cooking
  /\ \/ ~({"unack", "delay"} \subseteq ticket[t].marked)
     \/ ticket[t].state = "QUEUED" /\ "stale" \notin ticket[t].marked
Overdue(t, kind, time) ==
  LET waited == time - ticket[t].queued IN
    CASE kind = "unack" -> ticket[t].state = "QUEUED" /\ waited >= UnackLimit
      [] kind = "delay" -> waited > Target
      [] kind = "stale" -> ticket[t].state = "QUEUED" /\ waited >= StaleLimit
Due(t) == {kind \in Kinds : kind \notin ticket[t].marked /\ Overdue(t, kind, now)}
CheckSlaBreaches(read) ==
  /\ monitor = Rest
  /\ monitor' = [at |-> "walk", time |-> now, todo |-> {d \in read \X Kinds : d[2] \in Due(d[1])}]
  /\ UNCHANGED <<now, ticket, job, worker, seat>>
Batches == LET all == {t \in Tickets : LacksAlert(t)} IN
  {read \in SUBSET all : Cardinality(read) = (IF Cardinality(all) > Batch THEN Batch
                                             ELSE Cardinality(all))}
(* and writes and sends what was due of them when it read.                 *)
SweepAlert(d) ==
  /\ monitor # Rest /\ d \in monitor.todo /\ Alert(d[1], d[2])
  /\ monitor' = [monitor EXCEPT !.todo = @ \ {d}] /\ UNCHANGED <<now, job, worker, seat>>
SweepEnds ==
  /\ monitor # Rest /\ monitor.todo = {} /\ monitor' = Rest
  /\ UNCHANGED <<now, ticket, job, worker, seat>>
(* The process stops; the queue is kept, and the job in hand starts over.  *)
Restart ==
  /\ worker' = Rest /\ monitor' = Rest
  /\ job' = IF worker = Rest THEN job
            ELSE job \cup {[ticket |-> worker.ticket, kind |-> worker.kind, due |-> now]}
  /\ UNCHANGED <<now, ticket, seat>>
-----------------------------------------------------------------------------
(* Sessions.                                                               *)
OpenSeat(s) ==
  /\ ~seat[s].open
  /\ seat' = [seat EXCEPT ![s] = [open |-> TRUE, active |-> now, warned |-> FALSE]]
  /\ UNCHANGED <<now, ticket, job, worker, monitor>>
OrderMore(s) ==
  /\ seat[s].open /\ seat' = [seat EXCEPT ![s].active = now]
  /\ UNCHANGED <<now, ticket, job, worker, monitor>>
CloseSeat(s) ==
  /\ seat[s].open /\ seat' = [seat EXCEPT ![s] = NoSeat]
  /\ UNCHANGED <<now, ticket, job, worker, monitor>>
(* checkIdleSessions warns once of a session, whatever is ordered later.   *)
CheckIdleSessions ==
  /\ seat' = [s \in Sessions |-> IF seat[s].open /\ now - seat[s].active >= IdleLimit
                                 THEN [seat[s] EXCEPT !.warned = TRUE] ELSE seat[s]]
  /\ UNCHANGED <<now, ticket, job, worker, monitor>>

Kitchen ==
  \E t \in Tickets : (\E up \in BOOLEAN : Confirm(t, up)) \/ Acknowledge(t) \/ StartPreparation(t)
    \/ MarkReady(t) \/ CancelTicket(t) \/ Park(t) \/ Restore(t) \/ ChangeDish(t)
Alerting ==
  \/ \E j \in job : HandleCheck(j)
  \/ HandleAlert \/ SweepEnds \/ Restart
  \/ \E read \in Batches : CheckSlaBreaches(read)
  \/ \E d \in Tickets \X Kinds : SweepAlert(d)
Seats == CheckIdleSessions \/ \E s \in Sessions : OpenSeat(s) \/ OrderMore(s) \/ CloseSeat(s)
Next == Tick \/ Kitchen \/ Alerting \/ Seats

Spec == Init /\ [][Next]_vars
-----------------------------------------------------------------------------
(* A sweep that ends leaves no ticket in the queue that was overdue for an *)
(* alert when it began and has not had it, whatever the station and the    *)
(* jobs did in between: the safety net has no hole, as long as all tickets *)
(* fit into one batch.                                                     *)
NobodyOverlooked ==
  monitor # Rest /\ monitor.todo = {} =>
    \A t \in Tickets, kind \in Kinds :
      ticket[t].state = "QUEUED" /\ monitor.time >= ticket[t].queued
        /\ Overdue(t, kind, monitor.time) => kind \in ticket[t].marked

(* An alert is about a ticket that waits too long.  Refuted: a job goes    *)
(* off at the time set for the dish before, and the sweep for what it read.*)
MarkedIsOverdue ==
  \A t \in Tickets : ticket[t] # NoTicket /\ ticket[t].state = "QUEUED" =>
    \A kind \in ticket[t].marked \ {"stale"} : Overdue(t, kind, now)
=============================================================================
