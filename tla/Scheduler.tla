----------------------------- MODULE Scheduler -----------------------------
(***************************************************************************)
(* Cron triggers (schedule.py): Scheduler.tick fires every schedule that   *)
(* is due in the current minute, through the orchestrator, whose trigger   *)
(* dedup (Triggers, on the message id "sched:<id>:<minute>") is what keeps *)
(* several replicas, or several ticks of one, from starting a second run.  *)
(*                                                                         *)
(* A tick takes time: each fire creates a run and drives it to the end in  *)
(* the same thread, so minutes pass and other replicas tick meanwhile.     *)
(* Fire raises when the run it started fails; a duplicate never raises.    *)
(*                                                                         *)
(* Data abstraction: a cron expression is five fields, each "*" or a set   *)
(* of parts [from, to, step] (a literal n is from n to n; "*" with a step  *)
(* spans the whole range); minutes are positions in a Calendar of dates.   *)
(* A step of 0 is what makes the parser raise.  Bound: `ended` counts up   *)
(* to MaxTicks.                                                            *)
(***************************************************************************)
EXTENDS Integers, Sequences, FiniteSets, Triggers

CONSTANTS
    Replicas,   \* scheduler processes
    Schedules,  \* Scheduler.schedules: a sequence, shared by the replicas
    Calendar,   \* the dates of the minutes that pass
    Expected,   \* reference: the <<id, minute>> that are due, from a calendar
    CanFail,    \* ids of the schedules whose runs may fail
    MaxTicks

Minutes == 1 .. Len(Calendar)
SchedIds == {Schedules[i].id : i \in 1 .. Len(Schedules)}
Slots == SchedIds \X Minutes

\* Two schedules never share an id: it is a part of the dedup key.
ASSUME DistinctIds == \A i, j \in 1 .. Len(Schedules) : Schedules[i].id = Schedules[j].id => i = j
ASSUME SlotsAreEvents == Slots \subseteq Events
ASSUME ScheduleAssumption ==
    Len(Calendar) \in Nat \ {0} /\ Len(Schedules) \in Nat /\ MaxTicks \in Nat

VARIABLES
    clock,      \* the current minute
    tick,       \* replica -> the tick it is in
    ended       \* history: minute -> ticks that returned or raised

schedulerVars == <<clock, tick, keys, started, ended>>

-----------------------------------------------------------------------------
(* The cron matcher.                                                       *)

\* range(start, end + 1, step), within lo .. hi.
PartValues(p, lo, hi) == {v \in lo .. hi : v >= p.from /\ v <= p.to /\ (v - p.from) % p.step = 0}

\* _parse_field; "*" is the empty set of parts.
Field(f, lo, hi) == IF f = {} THEN lo .. hi ELSE UNION {PartValues(p, lo, hi) : p \in f}

\* Python counts weekdays from Monday, cron from Sunday.
CronDow(dt) == (dt.weekday + 1) % 7

\* With both day fields restricted either may match.
DayMatches_BugBoth(c, dt) ==
    dt.day \in Field(c.dom, 1, 31) /\ CronDow(dt) \in Field(c.dow, 0, 6)
DayMatches(c, dt) ==
    LET dom == dt.day \in Field(c.dom, 1, 31)
        dow == CronDow(dt) \in Field(c.dow, 0, 6)
    IN  IF c.dom # {} /\ c.dow # {} THEN dom \/ dow
        ELSE (c.dom # {} => dom) /\ (c.dow # {} => dow)

TimeMatches(c, dt) == dt.minute \in Field(c.minute, 0, 59) /\ dt.hour \in Field(c.hour, 0, 23)
CronMatches(c, dt) ==
    TimeMatches(c, dt) /\ dt.month \in Field(c.month, 1, 12) /\ DayMatches(c, dt)

\* A field is only parsed, and can only raise, when those before it match.
Broken(f) == \E p \in f : p.step = 0
CronRaises(c, dt) ==
    \/ Broken(c.minute)
    \/ /\ dt.minute \in Field(c.minute, 0, 59)
       /\ \/ Broken(c.hour)
          \/ /\ TimeMatches(c, dt)
             /\ \/ Broken(c.month)
                \/ dt.month \in Field(c.month, 1, 12) /\ (Broken(c.dom) \/ Broken(c.dow))

\* Scheduler.due in each minute: raises when one expression does, whoever's
\* it is.
RaisesIn == {m \in Minutes : \E i \in 1 .. Len(Schedules) :
                 Schedules[i].enabled /\ CronRaises(Schedules[i].cron, Calendar[m])}
Due == [m \in Minutes \ RaisesIn |->
           {i \in 1 .. Len(Schedules) :
               Schedules[i].enabled /\ CronMatches(Schedules[i].cron, Calendar[m])}]

-----------------------------------------------------------------------------
(* Scheduler.tick.  `todo` are the positions in Schedules of what is due   *)
(* and not yet fired; they are fired in order.                             *)

Tick == [on : BOOLEAN, slot : Minutes, todo : SUBSET (1 .. Len(Schedules)), driving : BOOLEAN]
Idle == [on |-> FALSE, slot |-> 1, todo |-> {}, driving |-> FALSE]

\* The id of the schedule whose turn it is.
Turn(t) == Schedules[Min(t.todo)].id

\* A replica that is driving a run has stored it.
SchedulerTypeOK ==
    /\ clock \in Minutes /\ tick \in [Replicas -> Tick]
    /\ \A r \in Replicas : tick[r].driving => /\ tick[r].on /\ tick[r].todo # {}
                                              /\ <<Turn(tick[r]), tick[r].slot>> \in keys
    /\ started \in [Events -> Nat]
    /\ ended \in [Minutes -> 0 .. MaxTicks]

SchedulerInit ==
    /\ TriggersInit
    /\ clock = 1 /\ tick = [r \in Replicas |-> Idle]
    /\ ended = [m \in Minutes |-> 0]

Move(r, t) == tick' = [tick EXCEPT ![r] = t]
Leave(r, m) ==
    /\ Move(r, Idle)
    /\ ended' = [ended EXCEPT ![m] = IF @ < MaxTicks THEN @ + 1 ELSE @]

\* tick(now): the slot and the list of what is due are taken once.
StartTick(r) ==
    /\ ~tick[r].on
    /\ IF clock \in RaisesIn THEN Leave(r, clock)
       ELSE /\ Move(r, [on |-> TRUE, slot |-> clock, todo |-> Due[clock], driving |-> FALSE])
            /\ UNCHANGED ended
    /\ UNCHANGED <<clock, keys, started>>

\* The trigger of the schedule whose turn it is.
FiredFor_Bug(r) == clock
FiredFor(r) == tick[r].slot
SlotTrigger(slot) == [event |-> slot, ids |-> [message_id |-> slot], body |-> slot]
Trigger(r) == SlotTrigger(<<Turn(tick[r]), FiredFor(r)>>)

\* What is left to fire, once fire has returned.
Rest_BugStops(t) == [t EXCEPT !.todo = {}, !.driving = FALSE]
Rest(t) == [t EXCEPT !.todo = @ \ {Min(@)}, !.driving = FALSE]

\* fire: a duplicate returns the stored run, a new run is driven.
Driving_BugEarly(t) == [Rest(t) EXCEPT !.driving = TRUE]
Driving(t) == [t EXCEPT !.driving = TRUE]
FireDuplicate(r) ==
    /\ tick[r].todo # {} /\ ~tick[r].driving
    /\ GetRun(Trigger(r))
    /\ Move(r, Rest(tick[r]))
    /\ UNCHANGED <<clock, ended>>
FireNew(r) ==
    /\ tick[r].todo # {} /\ ~tick[r].driving
    /\ CreateRun(Trigger(r))
    /\ Move(r, Driving(tick[r]))
    /\ UNCHANGED <<clock, ended>>

FireReturns(r) ==
    /\ tick[r].driving
    /\ Move(r, Rest(tick[r]))
    /\ UNCHANGED <<clock, keys, started, ended>>

\* The run fails and Orchestrator.fire raises: the tick is over.
FireRaises(r) ==
    /\ tick[r].driving /\ Turn(tick[r]) \in CanFail
    /\ Leave(r, tick[r].slot)
    /\ UNCHANGED <<clock, keys, started>>

EndTick(r) ==
    /\ tick[r].on /\ tick[r].todo = {}
    /\ Leave(r, tick[r].slot)
    /\ UNCHANGED <<clock, keys, started>>

\* The process dies and is restarted.
Die(r) ==
    /\ tick[r].on
    /\ Move(r, Idle)
    /\ UNCHANGED <<clock, keys, started, ended>>

NextMinute ==
    /\ clock < Len(Calendar)
    /\ clock' = clock + 1
    /\ UNCHANGED <<tick, keys, started, ended>>

SchedulerNext ==
    \/ \E r \in Replicas : \/ StartTick(r) \/ FireDuplicate(r) \/ FireNew(r) \/ FireReturns(r)
                           \/ FireRaises(r) \/ EndTick(r) \/ Die(r)
    \/ NextMinute

-----------------------------------------------------------------------------
\* schedule.py: a scheduler that runs more than once in the same minute, or
\* several replicas, produce one run, although they die and tick again; and
\* so does any event of which a source delivers several triggers, on either
\* intake path or on both (orchestrator.py derive_idempotency_key).
OneRunPerEvent == \A e \in Events : started[e] <= 1

\* A run only exists for a minute its schedule is due in, however long the
\* tick that fired it took.
OnlyDueSlots == {e \in Slots : started[e] > 0} \subseteq Expected

\* A fire that raises ends its tick and skips the schedules behind it.  What
\* that costs is bounded: the failed run is a duplicate for the next tick, so
\* in a minute with n due schedules n ticks fire them all, whichever of the
\* runs fail and whoever ticks.
TicksCatchUp ==
    \A m \in Minutes :
        LET due == {e \in Expected : e[2] = m}
        IN  (m \notin RaisesIn /\ ended[m] > 0 /\ ended[m] >= Cardinality(due)) =>
                \A e \in due : started[e] > 0
=============================================================================
