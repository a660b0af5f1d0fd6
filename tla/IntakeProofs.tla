---------------------------- MODULE IntakeProofs ----------------------------
(***************************************************************************)
(* Proofs about Intake, for any schedules and calendar, any number of      *)
(* replicas, callers, requests and restarts, and either rate limiter.      *)
(***************************************************************************)
EXTENDS Intake, FiniteSetTheorems, WellFoundedInduction, TLAPS

-----------------------------------------------------------------------------
(* Operators.                                                              *)

\* A set of natural numbers that is not empty has a least member.
LEMMA Least ==
  ASSUME NEW S \in SUBSET Nat, S # {}
  PROVE  Min(S) \in S /\ \A y \in S : Min(S) <= y
  <1> DEFINE R == OpToRel(<, Nat)
  <1>1. IsWellFoundedOn(R, Nat)
    BY NatLessThanWellFounded
  <1>2. \A x, y \in Nat : x < y => <<x, y>> \in R
    BY DEF OpToRel
  <1> HIDE DEF R
  <1>3. PICK x \in S : \A y \in S : ~(<<y, x>> \in R)
    BY <1>1, WFMin
  <1>4. \A y \in S : x \in Nat /\ y \in Nat /\ ~(y < x)
    BY <1>2, <1>3
  <1>5. \A y \in S : x <= y
    BY <1>4
  <1> QED BY <1>3, <1>5 DEF Min

\* The next schedule of a tick is one of those it has to fire.
LEMMA TurnIsDue ==
  ASSUME NEW t \in Tick, t.todo # {}
  PROVE  /\ Min(t.todo) \in t.todo /\ Min(t.todo) \in 1 .. Len(Schedules)
         /\ Turn(t) = Schedules[Min(t.todo)].id /\ <<Turn(t), t.slot>> \in Slots
         /\ <<Turn(t), t.slot>> \in Events
  <1>1. t.todo \in SUBSET (1 .. Len(Schedules)) /\ t.slot \in Minutes
    BY DEF Tick
  <1>2. Min(t.todo) \in t.todo
    BY <1>1, Least, ScheduleAssumption
  <1>3. Turn(t) \in SchedIds
    BY <1>1, <1>2 DEF Turn, SchedIds
  <1> QED BY <1>1, <1>2, <1>3, SlotsAreEvents DEF Turn, Slots

\* What a tick puts in place of itself.
LEMMA TickViews ==
  ASSUME NEW t \in Tick
  PROVE  /\ Driving(t) \in Tick /\ Driving(t).on = t.on /\ Driving(t).slot = t.slot
         /\ Driving(t).todo = t.todo /\ Driving(t).driving
         /\ Rest(t) \in Tick /\ Rest(t).on = t.on /\ Rest(t).slot = t.slot
         /\ Rest(t).todo = t.todo \ {Min(t.todo)} /\ ~Rest(t).driving
  BY DEF Driving, Rest, Tick

\* No tick.
LEMMA IdleView == Idle \in Tick /\ ~Idle.on /\ ~Idle.driving /\ Idle.todo = {}
  <1>1. 1 \in Minutes
    BY ScheduleAssumption DEF Minutes
  <1> QED BY <1>1 DEF Idle, Tick

\* The key of a slot's trigger is the slot.
LEMMA SlotKey == \A s : DeriveKey(SlotTrigger(s)) = s /\ SlotTrigger(s).event = s
  <1> SUFFICES ASSUME NEW s PROVE DeriveKey(SlotTrigger(s)) = s /\ SlotTrigger(s).event = s
    OBVIOUS
  <1> DEFINE tr == SlotTrigger(s)
             given == {i \in 1 .. 4 : IdFields[i] \in DOMAIN tr.ids}
  <1>1. /\ tr.event = s /\ DOMAIN tr.ids = {"message_id"} /\ tr.ids["message_id"] = s
    BY DEF SlotTrigger
  <1>2. /\ IdFields[1] = "idempotency_key" /\ IdFields[2] = "message_id"
        /\ IdFields[3] = "delivery_id" /\ IdFields[4] = "id"
    BY DEF IdFields
  <1>3. given = {2}
    <2> HIDE DEF tr
    <2>1. \A i \in 1 .. 4 : i = 1 \/ i = 2 \/ i = 3 \/ i = 4
      OBVIOUS
    <2> QED BY <1>1, <1>2, <2>1
  <1>4. Min(given) = 2
    BY <1>3 DEF Min
  <1> QED BY <1>1, <1>2, <1>3, <1>4 DEF DeriveKey

-----------------------------------------------------------------------------
(* The steps of the scheduler.                                             *)

\* One replica moves.
LEMMA MoveTicks ==
  ASSUME tick \in [Replicas -> Tick], NEW r \in Replicas, NEW t, Move(r, t)
  PROVE  tick'[r] = t /\ (t \in Tick => tick' \in [Replicas -> Tick])
         /\ \A q \in Replicas : q # r => tick'[q] = tick[q]
  BY DEF Move

\* create_or_get_run removes no key, and counts the run it creates.
LEMMA RunViews ==
  ASSUME started \in [Events -> Nat], NEW tr, tr.event \in Events
  PROVE  /\ GetRun(tr) => UNCHANGED <<keys, started>> /\ DeriveKey(tr) \in keys
         /\ CreateRun(tr) => /\ DeriveKey(tr) \notin keys /\ keys' = keys \cup {DeriveKey(tr)}
                             /\ started' \in [Events -> Nat]
                             /\ started'[tr.event] = started[tr.event] + 1
                             /\ \A e \in Events : e # tr.event => started'[e] = started[e]
  BY DEF GetRun, CreateRun, KeyTaken

\* The slot a tick fires next.
SlotOf(t) == <<Turn(t), t.slot>>

\* A tick has something to do only while it lasts.
Quiet == \A r \in Replicas : tick[r].todo # {} => tick[r].on

\* A tick starts, in a minute in which due does not raise.
Starts(r) ==
    /\ clock \notin RaisesIn /\ ~tick[r].on
    /\ Move(r, [on |-> TRUE, slot |-> clock, todo |-> Due[clock], driving |-> FALSE])
    /\ UNCHANGED <<clock, keys, started, ended>>
\* It has fired a schedule whose run exists, and goes on.
Passes(r) ==
    /\ tick[r].on /\ tick[r].todo # {} /\ SlotOf(tick[r]) \in keys
    /\ Move(r, Rest(tick[r]))
    /\ UNCHANGED <<clock, keys, started, ended>>
\* It creates a run.
Creates(r) ==
    /\ tick[r].on /\ tick[r].todo # {} /\ ~tick[r].driving /\ SlotOf(tick[r]) \notin keys
    /\ keys' = keys \cup {SlotOf(tick[r])} /\ started' \in [Events -> Nat]
    /\ started'[SlotOf(tick[r])] = started[SlotOf(tick[r])] + 1
    /\ \A e \in Events : e # SlotOf(tick[r]) => started'[e] = started[e]
    /\ Move(r, Driving(tick[r]))
    /\ UNCHANGED <<clock, ended>>
\* It raises before or after it has created a run, or returns.
Leaves(r, m) ==
    /\ \/ m = clock /\ clock \in RaisesIn /\ ~tick[r].on
       \/ m = tick[r].slot /\ tick[r].on /\ (tick[r].driving \/ tick[r].todo = {})
    /\ Leave(r, m)
    /\ UNCHANGED <<clock, keys, started>>

\* Every step of the scheduler is one of these, a death or a new minute.
LEMMA SchedulerKinds ==
  ASSUME SchedulerTypeOK, Quiet, SchedulerNext
  PROVE  \/ \E r \in Replicas : Starts(r) \/ Passes(r) \/ Creates(r) \/ Die(r)
         \/ \E r \in Replicas, m \in Minutes : Leaves(r, m)
         \/ NextMinute
  <1>t. /\ clock \in Minutes /\ tick \in [Replicas -> Tick] /\ started \in [Events -> Nat]
        /\ \A r \in Replicas : tick[r].driving => /\ tick[r].on /\ tick[r].todo # {}
                                                  /\ SlotOf(tick[r]) \in keys
        /\ \A r \in Replicas : tick[r].slot \in Minutes
    BY DEF SchedulerTypeOK, SlotOf, Tick
  <1>k. ASSUME NEW r \in Replicas, tick[r].todo # {}
        PROVE  /\ Trigger(r).event = SlotOf(tick[r]) /\ DeriveKey(Trigger(r)) = SlotOf(tick[r])
               /\ SlotOf(tick[r]) \in Events /\ tick[r].on
    BY <1>t, <1>k, SlotKey, TurnIsDue DEF Trigger, FiredFor, SlotOf, Quiet
  <1>1. ASSUME NEW r \in Replicas, StartTick(r)
        PROVE  Starts(r) \/ \E m \in Minutes : Leaves(r, m)
    BY <1>t, <1>1 DEF StartTick, Starts, Leaves
  <1>2. ASSUME NEW r \in Replicas, FireDuplicate(r)
        PROVE  Passes(r)
    BY <1>t, <1>k, <1>2, RunViews DEF FireDuplicate, Passes
  <1>3. ASSUME NEW r \in Replicas, FireReturns(r)
        PROVE  Passes(r)
    BY <1>t, <1>3 DEF FireReturns, Passes
  <1>4. ASSUME NEW r \in Replicas, FireNew(r)
        PROVE  Creates(r)
    <2> DEFINE tr == Trigger(r)
    <2>1. /\ tick[r].todo # {} /\ ~tick[r].driving /\ CreateRun(tr) /\ Move(r, Driving(tick[r]))
          /\ UNCHANGED <<clock, ended>>
      BY <1>4 DEF FireNew
    <2>2. /\ tr.event = SlotOf(tick[r]) /\ DeriveKey(tr) = SlotOf(tick[r])
          /\ SlotOf(tick[r]) \in Events /\ tick[r].on
      BY <1>k, <2>1
    <2> HIDE DEF tr
    <2> QED BY <1>t, <2>1, <2>2, RunViews DEF Creates
  <1>5. ASSUME NEW r \in Replicas, FireRaises(r) \/ EndTick(r)
        PROVE  \E m \in Minutes : Leaves(r, m)
    <2>1. Leaves(r, tick[r].slot)
      BY <1>t, <1>5 DEF FireRaises, EndTick, Leaves
    <2> QED BY <1>t, <2>1
  <1> QED BY <1>1, <1>2, <1>3, <1>4, <1>5 DEF SchedulerNext

-----------------------------------------------------------------------------
(* The type invariant.                                                     *)

\* What a tick promises about itself.
TickOK(t, ks) ==
    /\ t \in Tick /\ (t.todo # {} => t.on)
    /\ t.driving => t.on /\ t.todo # {} /\ SlotOf(t) \in ks

\* Every tick keeps it when one moves and keys are added.
LEMMA TicksOK ==
  ASSUME SchedulerTypeOK, Quiet, NEW r \in Replicas, NEW t, Move(r, t), keys \subseteq keys',
         TickOK(t, keys')
  PROVE  /\ tick' \in [Replicas -> Tick]
         /\ \A q \in Replicas : TickOK(tick'[q], keys')
  <1>1. tick \in [Replicas -> Tick] /\ \A q \in Replicas : TickOK(tick[q], keys)
    BY DEF SchedulerTypeOK, Quiet, TickOK, SlotOf
  <1>2. /\ tick'[r] = t /\ tick' \in [Replicas -> Tick]
        /\ \A q \in Replicas : q # r => tick'[q] = tick[q]
    BY <1>1, MoveTicks DEF TickOK
  <1> QED BY <1>1, <1>2 DEF TickOK

\* The scheduler keeps its types.
LEMMA SchedulerStepType ==
  ASSUME SchedulerTypeOK, Quiet, SchedulerNext
  PROVE  SchedulerTypeOK' /\ Quiet'
  <1>t. /\ clock \in Minutes /\ tick \in [Replicas -> Tick] /\ started \in [Events -> Nat]
        /\ ended \in [Minutes -> 0 .. MaxTicks]
    BY DEF SchedulerTypeOK
  <1>0. ASSUME NEW r \in Replicas, NEW t, Move(r, t), keys \subseteq keys', TickOK(t, keys'),
               UNCHANGED clock, started' \in [Events -> Nat], ended' \in [Minutes -> 0 .. MaxTicks]
        PROVE  SchedulerTypeOK' /\ Quiet'
    BY <1>t, <1>0, TicksOK DEF SchedulerTypeOK, Quiet, TickOK, SlotOf
  <1>i. \A ks : TickOK(Idle, ks)
    BY IdleView DEF TickOK
  <1>1. ASSUME NEW r \in Replicas, Starts(r)
        PROVE  SchedulerTypeOK' /\ Quiet'
    <2> DEFINE t == [on |-> TRUE, slot |-> clock, todo |-> Due[clock], driving |-> FALSE]
    <2>1. Due[clock] \subseteq 1 .. Len(Schedules)
      BY <1>t, <1>1 DEF Starts, Due
    <2>2. t \in Tick /\ ~t.driving /\ t.on /\ Move(r, t)
      BY <1>t, <1>1, <2>1 DEF Starts, Tick
    <2> HIDE DEF t
    <2> QED BY <1>t, <1>0, <1>1, <2>2 DEF Starts, TickOK
  <1>2. ASSUME NEW r \in Replicas, Passes(r)
        PROVE  SchedulerTypeOK' /\ Quiet'
    <2> DEFINE t == Rest(tick[r])
    <2>1. t \in Tick /\ ~t.driving /\ t.on /\ Move(r, t)
      BY <1>t, <1>2, TickViews DEF Passes
    <2> HIDE DEF t
    <2> QED BY <1>t, <1>0, <1>2, <2>1 DEF Passes, TickOK
  <1>3. ASSUME NEW r \in Replicas, Creates(r)
        PROVE  SchedulerTypeOK' /\ Quiet'
    <2> DEFINE t == Driving(tick[r])
    <2>1. /\ t \in Tick /\ t.on /\ t.todo = tick[r].todo /\ t.slot = tick[r].slot /\ Move(r, t)
          /\ t.todo # {}
      BY <1>t, <1>3, TickViews DEF Creates
    <2> HIDE DEF t
    <2>2. SlotOf(t) = SlotOf(tick[r])
      BY <2>1 DEF SlotOf, Turn
    <2>3. TickOK(t, keys')
      BY <1>3, <2>1, <2>2 DEF Creates, TickOK
    <2> QED BY <1>t, <1>0, <1>3, <2>1, <2>3 DEF Creates
  <1>4. ASSUME NEW r \in Replicas, Die(r)
        PROVE  SchedulerTypeOK' /\ Quiet'
    BY <1>t, <1>0, <1>i, <1>4 DEF Die
  <1>5. ASSUME NEW r \in Replicas, NEW m \in Minutes, Leaves(r, m)
        PROVE  SchedulerTypeOK' /\ Quiet'
    <2>1. ended' \in [Minutes -> 0 .. MaxTicks] /\ Move(r, Idle) /\ UNCHANGED <<clock, keys, started>>
      BY <1>t, <1>5, ScheduleAssumption DEF Leaves, Leave
    <2> QED BY <1>t, <1>0, <1>i, <2>1
  <1>6. CASE NextMinute
    <2>1. clock + 1 \in Minutes
      BY <1>t, <1>6, ScheduleAssumption DEF NextMinute, Minutes
    <2> QED BY <1>6, <2>1 DEF NextMinute, SchedulerTypeOK, Quiet, Turn
  <1> QED BY <1>1, <1>2, <1>3, <1>4, <1>5, <1>6, SchedulerKinds

\* The invariant that the types need.
Typed == TypeOK /\ Quiet

\* Minutes are numbers, and windows are minutes.
LEMMA MinuteViews == Minutes \subseteq Nat /\ Windows = Minutes /\ 1 \in Minutes /\ Limit \in Nat \ {0}
  BY ScheduleAssumption, IntakeAssumption, LimitAssumption DEF Minutes

\* What a step of the API leaves of the scheduler.
LEMMA SchedulerStays ==
  ASSUME SchedulerTypeOK, Quiet, keys \subseteq keys', started' \in [Events -> Nat],
         UNCHANGED <<clock, tick, ended>>
  PROVE  SchedulerTypeOK' /\ Quiet'
  BY DEF SchedulerTypeOK, Quiet, Turn

\* Counting keeps the types of the limiter, and counts at most one call more;
\* entries of the bucket and of later ones are kept.
LEMMA AllowViews ==
  ASSUME LimiterTypeOK, NEW b \in Windows, Allow(b)
  PROVE  /\ LimiterTypeOK' /\ UNCHANGED limiter
         /\ \A w \in Windows : w >= b => counts'[w] >= counts[w]
         /\ Admits(b) => counts'[b] = counts[b] + 1 /\ counts'[b] <= Limit
  <1>t. /\ counts \in [Windows -> 0 .. Limit + 1] /\ Limit \in Nat /\ b \in Nat /\ Windows \subseteq Nat
    BY LimitAssumption DEF LimiterTypeOK
  <1> DEFINE k == Counted(b)
  <1>1. /\ k \in [Windows -> 0 .. Limit + 1]
        /\ k[b] = IF counts[b] > Limit THEN counts[b] ELSE counts[b] + 1
        /\ \A w \in Windows : w # b => k[w] = counts[w]
    BY <1>t DEF Counted
  <1>2. Admits(b) <=> k[b] <= Limit
    BY DEF Admits
  <1>3. UNCHANGED limiter /\ (counts' = k \/ counts' = Purged(k, b))
    BY DEF Allow
  <1> HIDE DEF k
  <1>4. \A w \in Windows : k[w] \in 0 .. Limit + 1 /\ k[w] >= counts[w]
    BY <1>t, <1>1
  <1>5. /\ counts' \in [Windows -> 0 .. Limit + 1]
        /\ \A w \in Windows : w >= b => counts'[w] = k[w]
    BY <1>t, <1>1, <1>3, <1>4 DEF Purged
  <1>6. b >= b /\ counts'[b] = k[b]
    BY <1>t, <1>5
  <1>7. counts[b] \in Nat /\ (k[b] <= Limit => k[b] = counts[b] + 1)
    BY <1>t, <1>1
  <1> QED BY <1>1, <1>2, <1>3, <1>4, <1>5, <1>6, <1>7 DEF LimiterTypeOK

\* The rest of the types of the API.
CallersOK(cs, now) ==
    /\ cs \in [Callers -> [pc : {"outside", "counting", "admitted"}, bucket : Minutes \cup {0}]]
    /\ \A c \in Callers : cs[c].pc = "counting" => cs[c].bucket \in 1 .. now

\* One caller moves.
LEMMA CallerMoves ==
  ASSUME CallersOK(caller, clock), NEW c \in Callers, NEW x,
         x \in [pc : {"outside", "counting", "admitted"}, bucket : Minutes \cup {0}],
         x.pc = "counting" => x.bucket \in 1 .. clock,
         caller' = [caller EXCEPT ![c] = x], UNCHANGED clock
  PROVE  CallersOK(caller', clock')
  BY DEF CallersOK

\* Init satisfies the invariant.
LEMMA InitTyped == Init => Typed
  <1> SUFFICES ASSUME Init PROVE Typed
    OBVIOUS
  <1>1. tick = [r \in Replicas |-> Idle] /\ clock = 1 /\ started = [e \in Events |-> 0]
        /\ ended = [m \in Minutes |-> 0] /\ LimiterInit
        /\ caller = [c \in Callers |-> Outside] /\ requests = 0 /\ restarts = 0
        /\ admitted = [w \in Windows |-> 0]
    BY DEF Init, SchedulerInit, TriggersInit
  <1>2. SchedulerTypeOK /\ Quiet
    BY <1>1, IdleView, MinuteViews, ScheduleAssumption DEF SchedulerTypeOK, Quiet
  <1>3. LimiterTypeOK
    BY <1>1, LimitAssumption DEF LimiterTypeOK, LimiterInit
  <1> QED BY <1>1, <1>2, <1>3, IntakeAssumption DEF Typed, TypeOK, Outside

\* Every step keeps it.
LEMMA NextTyped == Typed /\ [Next]_vars => Typed'
  <1> SUFFICES ASSUME Typed, [Next]_vars PROVE Typed'
    OBVIOUS
  <1>t. /\ SchedulerTypeOK /\ Quiet /\ LimiterTypeOK /\ CallersOK(caller, clock)
        /\ requests \in 0 .. MaxRequests /\ restarts \in 0 .. MaxRestarts
        /\ admitted \in [Windows -> Nat] /\ clock \in Minutes /\ started \in [Events -> Nat]
        /\ MaxRequests \in Nat /\ MaxRestarts \in Nat
    BY IntakeAssumption DEF Typed, TypeOK, CallersOK, SchedulerTypeOK
  <1>g. ASSUME SchedulerTypeOK', Quiet', LimiterTypeOK', CallersOK(caller', clock'),
               requests' \in 0 .. MaxRequests, restarts' \in 0 .. MaxRestarts,
               admitted' \in [Windows -> Nat]
        PROVE  Typed'
    BY <1>g DEF Typed, TypeOK, CallersOK
  <1>s. ASSUME UNCHANGED schedulerVars
        PROVE  SchedulerTypeOK' /\ Quiet' /\ clock' = clock
    <2>1. UNCHANGED <<clock, tick, keys, started, ended>>
      BY <1>s DEF schedulerVars
    <2> QED BY <1>t, <2>1, SchedulerStays
  <1>l. ASSUME UNCHANGED limiterVars
        PROVE  LimiterTypeOK'
    BY <1>t, <1>l DEF LimiterTypeOK, limiterVars
  <1>o. Outside \in [pc : {"outside", "counting", "admitted"}, bucket : Minutes \cup {0}] /\ Outside.pc = "outside"
    BY DEF Outside
  <1>1. CASE SchedulerNext /\ UNCHANGED apiVars
    <2>1. /\ SchedulerTypeOK' /\ Quiet' /\ UNCHANGED <<caller, requests, restarts, admitted>>
          /\ UNCHANGED limiterVars
      BY <1>t, <1>1, SchedulerStepType DEF apiVars
    <2>2. clock' \in Nat /\ clock' >= clock
      <3>1. clock' = clock \/ NextMinute
        BY <1>t, <1>1, SchedulerKinds DEF Starts, Passes, Creates, Leaves, Die
      <3> QED BY <1>t, <3>1, MinuteViews DEF NextMinute
    <2>3. CallersOK(caller', clock')
      BY <1>t, <2>1, <2>2, MinuteViews DEF CallersOK
    <2> QED BY <1>t, <1>g, <1>l, <2>1, <2>3
  <1>2. ASSUME NEW c \in Callers, Enter(c)
        PROVE  Typed'
    <2> DEFINE x == [pc |-> "counting", bucket |-> clock]
    <2>1. /\ UNCHANGED schedulerVars /\ UNCHANGED limiterVars /\ UNCHANGED <<restarts, admitted>>
          /\ requests' \in 0 .. MaxRequests /\ caller' = [caller EXCEPT ![c] = x]
      BY <1>t, <1>2 DEF Enter
    <2>2. /\ x \in [pc : {"outside", "counting", "admitted"}, bucket : Minutes \cup {0}]
          /\ x.bucket \in 1 .. clock
      BY <1>t, MinuteViews DEF Minutes
    <2> HIDE DEF x
    <2> QED BY <1>t, <1>g, <1>s, <1>l, <2>1, <2>2, CallerMoves
  <1>3. ASSUME NEW c \in Callers, Count(c)
        PROVE  Typed'
    <2> DEFINE b == caller[c].bucket
               x == [pc |-> "admitted", bucket |-> 0]
    <2>1. /\ caller[c].pc = "counting" /\ Allow(b)
          /\ UNCHANGED schedulerVars /\ UNCHANGED <<requests, restarts>>
          /\ caller' = [caller EXCEPT ![c] = x] \/ caller' = [caller EXCEPT ![c] = Outside]
          /\ admitted' = [admitted EXCEPT ![b] = @ + 1] \/ UNCHANGED admitted
      BY <1>3 DEF Count
    <2>2. b \in Windows
      BY <1>t, <2>1, MinuteViews DEF CallersOK, Minutes
    <2>3. admitted' \in [Windows -> Nat]
      BY <1>t, <2>1, <2>2
    <2>4. /\ x \in [pc : {"outside", "counting", "admitted"}, bucket : Minutes \cup {0}]
          /\ x.pc = "admitted"
      OBVIOUS
    <2> HIDE DEF x, b
    <2>5. CallersOK(caller', clock')
      BY <1>t, <1>s, <1>o, <2>1, <2>4, CallerMoves
    <2> QED BY <1>t, <1>g, <1>s, <2>1, <2>2, <2>3, <2>5, AllowViews
  <1>4. ASSUME NEW c \in Callers, NEW tr \in Requests, Fire(c, tr)
        PROVE  Typed'
    <2>1. /\ UNCHANGED <<clock, tick, ended>> /\ UNCHANGED limiterVars
          /\ UNCHANGED <<requests, restarts, admitted>>
          /\ caller' = [caller EXCEPT ![c] = Outside] /\ (GetRun(tr) \/ CreateRun(tr))
      BY <1>4 DEF Fire
    <2>2. keys \subseteq keys' /\ started' \in [Events -> Nat]
      BY <1>t, <2>1, RunViews, IntakeAssumption
    <2> QED BY <1>t, <1>g, <1>l, <1>o, <2>1, <2>2, SchedulerStays, CallerMoves
  <1>5. ASSUME NEW w \in Windows, ExpireWindow(w)
        PROVE  Typed'
    <2>1. /\ UNCHANGED schedulerVars /\ UNCHANGED <<caller, requests, restarts, admitted>>
          /\ UNCHANGED limiter /\ counts' = [counts EXCEPT ![w] = 0]
      BY <1>5 DEF ExpireWindow, Expire
    <2>2. LimiterTypeOK'
      BY <1>t, <2>1, LimitAssumption DEF LimiterTypeOK
    <2> QED BY <1>t, <1>g, <1>s, <2>1, <2>2
  <1>6. CASE Restart
    <2>1. /\ UNCHANGED schedulerVars /\ UNCHANGED <<requests, admitted>>
          /\ restarts' \in 0 .. MaxRestarts /\ caller' = [c \in Callers |-> Outside]
          /\ UNCHANGED limiter /\ (counts' = [w \in Windows |-> 0] \/ counts' = counts)
      BY <1>t, <1>6 DEF Restart, Forget
    <2>2. LimiterTypeOK'
      BY <1>t, <2>1, LimitAssumption DEF LimiterTypeOK
    <2>3. CallersOK(caller', clock')
      BY <1>o, <2>1 DEF CallersOK
    <2> QED BY <1>t, <1>g, <1>s, <2>1, <2>2, <2>3
  <1>7. CASE UNCHANGED vars
    <2>1. /\ UNCHANGED schedulerVars /\ UNCHANGED limiterVars
          /\ UNCHANGED <<caller, requests, restarts, admitted>>
      BY <1>7 DEF vars, apiVars
    <2> QED BY <1>t, <1>g, <1>s, <1>l, <2>1
  <1> QED BY <1>1, <1>2, <1>3, <1>4, <1>5, <1>6, <1>7 DEF Next

\* Both intake paths keep their types: a replica that drives a run has stored
\* it, and a caller of the limiter counts into a bucket that is not ahead of
\* the clock.
THEOREM IntakeTypeCorrect == Spec => []TypeOK
  <1>1. Typed => TypeOK
    BY DEF Typed
  <1> QED BY <1>1, InitTyped, NextTyped, PTL DEF Spec

-----------------------------------------------------------------------------
(* The rate limit.                                                         *)

\* How often the service has lost the table of the limiter.
Lost == IF limiter = "memory" THEN restarts ELSE 0

\* The callers that have computed bucket w and have not yet counted.
Holding(w) == {c \in Callers : caller[c].pc = "counting" /\ caller[c].bucket = w}
Waiting(w) == Cardinality(Holding(w))

\* What a window may admit while it lasts.
Allowance == Limit * Lost + Limit

\* Of the requests of a window that lasts, at most Limit were admitted before
\* each loss of the table, and since the last one no more than are counted.  Of
\* a window that is over, those and the callers still to come.
MeteredNow ==
    \A w \in Windows : w >= clock => /\ admitted[w] <= Allowance
                                     /\ admitted[w] <= Limit * Lost + counts[w]
MeteredLate ==
    \A w \in Windows : w < clock => admitted[w] + Waiting(w) <= Allowance + Cardinality(Callers)
Metered == MeteredNow /\ MeteredLate

\* There are no more of them than threads.
LEMMA WaitingCount ==
  ASSUME NEW w
  PROVE  /\ Waiting(w) \in Nat /\ Cardinality(Callers) \in Nat /\ Waiting(w) <= Cardinality(Callers)
         /\ IsFiniteSet(Holding(w))
  <1>1. IsFiniteSet(Callers) /\ Holding(w) \in SUBSET Callers
    BY IntakeAssumption DEF Holding
  <1>2. IsFiniteSet(Holding(w)) /\ Cardinality(Holding(w)) <= Cardinality(Callers)
    BY <1>1, FS_Subset
  <1>3. Cardinality(Holding(w)) \in Nat /\ Cardinality(Callers) \in Nat
    BY <1>1, <1>2, FS_CardinalityType
  <1> QED BY <1>2, <1>3 DEF Waiting

\* Nobody joins a window, so it has no more callers to come.
LEMMA WaitingShrinks ==
  ASSUME NEW w, Holding(w)' \subseteq Holding(w)
  PROVE  Waiting(w)' \in Nat /\ Waiting(w)' <= Waiting(w)
  <1>1. IsFiniteSet(Holding(w)) /\ Holding(w)' \in SUBSET Holding(w)
    BY WaitingCount
  <1>2. IsFiniteSet(Holding(w)') /\ Cardinality(Holding(w)') <= Cardinality(Holding(w))
    BY <1>1, FS_Subset
  <1>3. Cardinality(Holding(w)') \in Nat
    BY <1>2, FS_CardinalityType
  <1> QED BY <1>2, <1>3 DEF Waiting

\* One more window.
LEMMA OneMore ==
  ASSUME NEW n \in Nat
  PROVE  Limit * n \in Nat /\ Limit * (1 + n) = Limit * n + Limit /\ Limit * (n + 1) = Limit * n + Limit
         /\ Limit * 1 = Limit /\ Limit * 0 = 0
  <1>1. Limit \in Nat
    BY LimitAssumption
  <1> QED BY <1>1

\* What the arithmetic of a step needs.
LEMMA LimiterViews ==
  ASSUME Typed
  PROVE  /\ LimiterTypeOK /\ SchedulerTypeOK /\ Quiet /\ CallersOK(caller, clock)
         /\ admitted \in [Windows -> Nat] /\ counts \in [Windows -> 0 .. Limit + 1] /\ Lost \in Nat
         /\ Limit \in Nat /\ Windows \subseteq Nat /\ clock \in Nat /\ restarts \in Nat
         /\ clock \in Windows /\ Windows = 1 .. Len(Calendar)
         /\ Limit * Lost \in Nat /\ Allowance \in Nat
  <1>1. /\ LimiterTypeOK /\ SchedulerTypeOK /\ Quiet /\ CallersOK(caller, clock)
        /\ restarts \in Nat /\ admitted \in [Windows -> Nat] /\ clock \in Minutes
    BY DEF Typed, TypeOK, CallersOK, SchedulerTypeOK
  <1>2. Lost \in Nat
    BY <1>1 DEF Lost
  <1>3. Limit * Lost \in Nat /\ Limit \in Nat
    BY <1>2, OneMore, MinuteViews
  <1> QED BY <1>1, <1>2, <1>3, MinuteViews DEF LimiterTypeOK, Minutes, Allowance

\* A step that loses no table, admits nothing, forgets nothing of a window that
\* lasts and adds no caller to one that is over keeps it.
LEMMA MeteredStays ==
  ASSUME Typed, Typed', Metered, UNCHANGED <<limiter, restarts, admitted>>, clock' >= clock,
         \A w \in Windows : w >= clock => counts'[w] >= counts[w],
         \A w \in Windows : w < clock => Holding(w)' \subseteq Holding(w)
  PROVE  Metered'
  <1> DEFINE k == Limit * Lost
             a == Allowance
  <1>t. /\ admitted \in [Windows -> Nat] /\ counts \in [Windows -> 0 .. Limit + 1] /\ Limit \in Nat /\ Windows \subseteq Nat
        /\ clock \in Nat
    BY LimiterViews
  <1>c. clock' \in Nat /\ counts' \in [Windows -> 0 .. Limit + 1]
    BY MinuteViews DEF Typed, TypeOK, LimiterTypeOK, SchedulerTypeOK
  <1>1. /\ k \in Nat /\ a \in Nat /\ Limit * Lost = k /\ Limit * Lost' = k
        /\ Allowance = a /\ Allowance' = a
    BY LimiterViews DEF Lost, Allowance
  <1>2. /\ \A w \in Windows : w >= clock => admitted[w] <= a /\ admitted[w] <= k + counts[w]
        /\ \A w \in Windows : w < clock => admitted[w] + Waiting(w) <= a + Cardinality(Callers)
    BY <1>1 DEF Metered, MeteredNow, MeteredLate
  <1> HIDE DEF k, a
  <1>3. ASSUME NEW w \in Windows, w >= clock'
        PROVE  admitted[w] <= a /\ admitted[w] <= k + counts'[w]
    <2>1. w >= clock
      BY <1>t, <1>c, <1>3
    <2>2. counts[w] \in Nat /\ counts'[w] \in Nat /\ admitted[w] \in Nat /\ counts'[w] >= counts[w]
      BY <1>t, <1>c, <2>1
    <2> QED BY <1>1, <1>2, <2>1, <2>2
  <1>4. ASSUME NEW w \in Windows, w < clock'
        PROVE  admitted[w] + Waiting(w)' <= a + Cardinality(Callers)
    <2> DEFINE n == Cardinality(Callers)
               m == Waiting(w)
               l == Waiting(w)'
    <2>1. n \in Nat /\ m \in Nat /\ m <= n /\ admitted[w] \in Nat /\ w \in Nat
      BY <1>t, WaitingCount
    <2>2. l \in Nat /\ l <= n
      <3>1. IsFiniteSet(Callers) /\ Holding(w)' \in SUBSET Callers
        BY IntakeAssumption DEF Holding
      <3>2. IsFiniteSet(Holding(w)') /\ Cardinality(Holding(w)') <= Cardinality(Callers)
        BY <3>1, FS_Subset
      <3> QED BY <3>2, FS_CardinalityType DEF Waiting
    <2>3. CASE w < clock
      <3>1. l <= m
        BY <2>3, WaitingShrinks
      <3>2. admitted[w] + m <= a + n
        BY <1>2, <2>3
      <3> HIDE DEF n, m, l
      <3> QED BY <1>1, <2>1, <2>2, <3>1, <3>2 DEF n, l
    <2>4. CASE ~(w < clock)
      <3>1. admitted[w] <= a
        BY <1>t, <1>2, <2>1, <2>4
      <3> HIDE DEF n, m, l
      <3> QED BY <1>1, <2>1, <2>2, <3>1 DEF n, l
    <2> QED BY <2>3, <2>4
  <1> QED BY <1>1, <1>3, <1>4 DEF Metered, MeteredNow, MeteredLate

\* Counting: the caller is no longer to come.
LEMMA CountedOnce ==
  ASSUME Typed, NEW c \in Callers, Count(c), NEW b, b = caller[c].bucket
  PROVE  /\ Waiting(b)' + 1 = Waiting(b) /\ Waiting(b)' \in Nat
         /\ \A w : w # b => Waiting(w)' = Waiting(w)
         /\ \A w : Holding(w)' \subseteq Holding(w)
  <1>1. /\ caller[c].pc = "counting" /\ caller \in [Callers -> [pc : {"outside", "counting", "admitted"}, bucket : Minutes \cup {0}]]
        /\ \/ caller' = [caller EXCEPT ![c] = [pc |-> "admitted", bucket |-> 0]]
           \/ caller' = [caller EXCEPT ![c] = Outside]
    BY DEF Count, Typed, TypeOK
  <1>2. /\ caller'[c].pc # "counting"
        /\ \A e \in Callers : e # c => caller'[e] = caller[e]
    BY <1>1 DEF Outside
  <1>3. Holding(b)' = Holding(b) \ {c} /\ c \in Holding(b)
    BY <1>1, <1>2 DEF Holding
  <1>4. \A w : w # b => Holding(w)' = Holding(w)
    BY <1>1, <1>2 DEF Holding
  <1>5. IsFiniteSet(Holding(b)) /\ Waiting(b) \in Nat
    BY WaitingCount
  <1>6. IsFiniteSet(Holding(b) \ {c}) /\ Cardinality(Holding(b) \ {c}) = Cardinality(Holding(b)) - 1
    BY <1>3, <1>5, FS_RemoveElement
  <1>7. Cardinality(Holding(b) \ {c}) \in Nat
    BY <1>6, FS_CardinalityType
  <1> QED BY <1>3, <1>4, <1>5, <1>6, <1>7 DEF Waiting

\* Every step keeps it.
LEMMA NextMetered == Typed /\ Typed' /\ Metered /\ [Next]_vars => Metered'
  <1> SUFFICES ASSUME Typed, Typed', Metered, [Next]_vars PROVE Metered'
    OBVIOUS
  <1> DEFINE k == Limit * Lost
             a == Allowance
  <1>t. /\ LimiterTypeOK /\ SchedulerTypeOK /\ Quiet /\ CallersOK(caller, clock)
        /\ admitted \in [Windows -> Nat] /\ counts \in [Windows -> 0 .. Limit + 1] /\ Lost \in Nat
        /\ Limit \in Nat /\ Windows \subseteq Nat /\ clock \in Nat /\ restarts \in Nat
        /\ clock \in Windows /\ Windows = 1 .. Len(Calendar)
    BY LimiterViews
  <1>m. /\ k \in Nat /\ a \in Nat /\ k = Limit * Lost /\ a = Allowance /\ a = k + Limit
        /\ \A w \in Windows : w >= clock => admitted[w] <= a /\ admitted[w] <= k + counts[w]
        /\ \A w \in Windows : w < clock => admitted[w] + Waiting(w) <= a + Cardinality(Callers)
    BY LimiterViews DEF Metered, MeteredNow, MeteredLate, Allowance
  <1> HIDE DEF k, a
  <1>q. ASSUME UNCHANGED <<limiter, counts, restarts, admitted>>, clock' >= clock,
               \A w \in Windows : w < clock => Holding(w)' \subseteq Holding(w)
        PROVE  Metered'
    <2>1. \A w \in Windows : counts'[w] >= counts[w]
      BY <1>t, <1>q
    <2> QED BY <1>q, <2>1, MeteredStays
  <1>h. UNCHANGED caller => \A w : Holding(w)' \subseteq Holding(w)
    BY DEF Holding
  <1>1. CASE SchedulerNext /\ UNCHANGED apiVars
    <2>1. UNCHANGED <<limiter, counts, restarts, admitted, caller>>
      BY <1>1 DEF apiVars, limiterVars
    <2>2. clock' >= clock
      <3>1. clock' = clock \/ NextMinute
        BY <1>t, <1>1, SchedulerKinds DEF Starts, Passes, Creates, Leaves, Die
      <3> QED BY <1>t, <3>1 DEF NextMinute
    <2> QED BY <1>q, <1>h, <2>1, <2>2
  <1>2. ASSUME NEW c \in Callers, Enter(c)
        PROVE  Metered'
    <2>1. /\ UNCHANGED <<limiter, counts, restarts, admitted>> /\ clock' = clock
          /\ caller' = [caller EXCEPT ![c] = [pc |-> "counting", bucket |-> clock]]
      BY <1>2 DEF Enter, schedulerVars, limiterVars
    <2>2. ASSUME NEW w \in Windows, w < clock PROVE Holding(w)' \subseteq Holding(w)
      <3>1. w # clock
        BY <1>t, <2>2
      <3> QED BY <1>t, <2>1, <3>1 DEF Holding, CallersOK
    <2> QED BY <1>t, <1>q, <2>1, <2>2
  <1>3. ASSUME NEW c \in Callers, Count(c)
        PROVE  Metered'
    <2>p. PICK b \in Windows : b = caller[c].bucket /\ b <= clock
      BY <1>t, <1>3 DEF Count, CallersOK
    <2>1. /\ Allow(b) /\ UNCHANGED <<clock, restarts>>
          /\ \/ UNCHANGED admitted
             \/ Admits(b) /\ admitted' = [admitted EXCEPT ![b] = @ + 1]
      BY <1>3, <2>p DEF Count, schedulerVars
    <2>2. b \in Windows /\ b <= clock /\ b \in Nat
      BY <1>t, <2>p
    <2>h. /\ Waiting(b)' + 1 = Waiting(b) /\ Waiting(b)' \in Nat
          /\ \A w : w # b => Waiting(w)' = Waiting(w)
          /\ \A w : Holding(w)' \subseteq Holding(w)
      BY <1>3, <2>p, CountedOnce
    <2>3. /\ LimiterTypeOK' /\ UNCHANGED limiter
          /\ \A w \in Windows : w >= b => counts'[w] >= counts[w]
          /\ Admits(b) => counts'[b] = counts[b] + 1 /\ counts'[b] <= Limit
      BY <1>t, <2>1, <2>2, AllowViews
    <2>4. \A w \in Windows : w >= clock => counts'[w] >= counts[w]
      BY <1>t, <2>2, <2>3
    <2>5. CASE UNCHANGED admitted
      BY <1>t, <2>1, <2>3, <2>4, <2>5, <2>h, MeteredStays
    <2>6. CASE Admits(b) /\ admitted' = [admitted EXCEPT ![b] = @ + 1]
      <3>1. /\ Limit * Lost' = k /\ Allowance' = a /\ counts' \in [Windows -> 0 .. Limit + 1]
        BY <1>m, <2>1, <2>3 DEF Lost, Allowance, LimiterTypeOK
      <3>2. /\ admitted'[b] = admitted[b] + 1 /\ admitted[b] \in Nat
            /\ \A w \in Windows : w # b => admitted'[w] = admitted[w]
        BY <1>t, <2>2, <2>6
      <3>3. ASSUME NEW w \in Windows, w >= clock
            PROVE  admitted'[w] <= a /\ admitted'[w] <= k + counts'[w]
        <4>1. counts[w] \in Nat /\ counts'[w] \in Nat /\ admitted[w] \in Nat /\ counts'[w] >= counts[w]
          BY <1>t, <2>4, <3>1, <3>3
        <4>2. admitted[w] <= a /\ admitted[w] <= k + counts[w]
          BY <1>m, <3>3
        <4>3. CASE w = b
          <5>1. counts'[w] = counts[w] + 1 /\ counts'[w] <= Limit
            BY <2>3, <2>6, <4>3
          <5> QED BY <1>t, <1>m, <3>2, <4>1, <4>2, <4>3, <5>1
        <4>4. CASE w # b
          BY <1>m, <3>2, <4>1, <4>2, <4>4
        <4> QED BY <4>3, <4>4
      <3>4. ASSUME NEW w \in Windows, w < clock
            PROVE  admitted'[w] + Waiting(w)' <= a + Cardinality(Callers)
        <4>1. admitted[w] + Waiting(w) <= a + Cardinality(Callers)
          BY <1>m, <3>4
        <4>2. CASE w = b
          <5>1. admitted'[w] + Waiting(w)' = admitted[w] + Waiting(w)
            BY <2>h, <3>2, <4>2
          <5> QED BY <4>1, <5>1
        <4>3. CASE w # b
          BY <2>h, <3>2, <4>1, <4>3
        <4> QED BY <4>2, <4>3
      <3> QED BY <2>1, <3>1, <3>3, <3>4 DEF Metered, MeteredNow, MeteredLate
    <2> QED BY <2>1, <2>5, <2>6
  <1>4. ASSUME NEW c \in Callers, NEW tr \in Requests, Fire(c, tr)
        PROVE  Metered'
    <2>1. /\ UNCHANGED <<limiter, counts, restarts, admitted>> /\ clock' = clock
          /\ caller' = [caller EXCEPT ![c] = Outside]
      BY <1>4 DEF Fire, limiterVars
    <2>2. \A w : Holding(w)' \subseteq Holding(w)
      BY <1>t, <2>1 DEF Holding, CallersOK, Outside
    <2> QED BY <1>t, <1>q, <2>1, <2>2
  <1>5. ASSUME NEW w \in Windows, ExpireWindow(w)
        PROVE  Metered'
    <2>1. /\ UNCHANGED <<limiter, restarts, admitted, clock, caller>> /\ w < clock
          /\ counts' = [counts EXCEPT ![w] = 0]
      BY <1>5 DEF ExpireWindow, Expire, schedulerVars
    <2>2. \A v \in Windows : v >= clock => v # w
      BY <1>t, <2>1
    <2>3. \A v \in Windows : v >= clock => counts'[v] = counts[v] /\ counts[v] \in Nat
      BY <1>t, <2>1, <2>2
    <2>4. \A v \in Windows : v >= clock => counts'[v] >= counts[v]
      BY <2>3
    <2> QED BY <1>t, <1>h, <2>1, <2>4, MeteredStays
  <1>6. CASE Restart
    <2>1. /\ UNCHANGED <<clock, admitted, limiter>> /\ restarts' = restarts + 1
          /\ counts' = IF limiter = "memory" THEN [w \in Windows |-> 0] ELSE counts
          /\ caller' = [c \in Callers |-> Outside]
      BY <1>6 DEF Restart, Forget, schedulerVars
    <2>2. \A w : Holding(w)' \subseteq Holding(w)
      BY <2>1 DEF Holding, Outside
    <2>3. CASE limiter = "memory"
      <3>1. Lost' = Lost + 1 /\ counts' = [w \in Windows |-> 0]
        BY <2>1, <2>3 DEF Lost
      <3>2. Limit * Lost' = a /\ Allowance' = a + Limit
        BY <1>t, <1>m, <3>1, OneMore DEF Allowance
      <3>3. ASSUME NEW w \in Windows, w >= clock
            PROVE  admitted[w] <= a + Limit /\ admitted[w] <= a + counts'[w]
        <4>1. admitted[w] \in Nat /\ counts'[w] = 0 /\ admitted[w] <= a
          BY <1>t, <1>m, <3>1, <3>3
        <4> QED BY <1>t, <1>m, <4>1
      <3>4. ASSUME NEW w \in Windows, w < clock
            PROVE  admitted[w] + Waiting(w)' <= (a + Limit) + Cardinality(Callers)
        <4>1. /\ admitted[w] + Waiting(w) <= a + Cardinality(Callers) /\ admitted[w] \in Nat
              /\ Waiting(w) \in Nat /\ Cardinality(Callers) \in Nat
              /\ Waiting(w)' \in Nat /\ Waiting(w)' <= Waiting(w)
          BY <1>t, <1>m, <2>2, <3>4, WaitingCount, WaitingShrinks
        <4> QED BY <1>t, <1>m, <4>1
      <3> QED BY <2>1, <3>2, <3>3, <3>4 DEF Metered, MeteredNow, MeteredLate
    <2>4. CASE limiter # "memory"
      <3>1. /\ Lost' = Lost /\ Allowance' = Allowance /\ counts' = counts
        BY <2>1, <2>4 DEF Lost, Allowance
      <3>2. ASSUME NEW w \in Windows, w < clock
            PROVE  admitted[w] + Waiting(w)' <= a + Cardinality(Callers)
        <4>1. /\ admitted[w] + Waiting(w) <= a + Cardinality(Callers) /\ admitted[w] \in Nat
              /\ Waiting(w) \in Nat /\ Cardinality(Callers) \in Nat
              /\ Waiting(w)' \in Nat /\ Waiting(w)' <= Waiting(w)
          BY <1>t, <1>m, <2>2, <3>2, WaitingCount, WaitingShrinks
        <4> QED BY <1>t, <1>m, <4>1
      <3> QED BY <1>m, <2>1, <3>1, <3>2 DEF Metered, MeteredNow, MeteredLate
    <2> QED BY <2>3, <2>4
  <1>7. CASE UNCHANGED vars
    BY <1>t, <1>q, <1>h, <1>7 DEF vars, apiVars, schedulerVars, limiterVars
  <1> QED BY <1>1, <1>2, <1>3, <1>4, <1>5, <1>6, <1>7 DEF Next

\* While a window lasts no more than Limit of its requests are let through,
\* whoever takes the lock late and whatever is purged; once it is over, at most
\* one more for every thread of the service.  Where the table is in the memory
\* of the service, every restart may add Limit more.
THEOREM WindowsAreLimited == Spec => []WithinLimit
  <1>1. Init => Metered
    <2> SUFFICES ASSUME Init PROVE Metered
      OBVIOUS
    <2>1. /\ admitted = [w \in Windows |-> 0] /\ counts = [w \in Windows |-> 0] /\ restarts = 0
          /\ caller = [c \in Callers |-> Outside]
      BY DEF Init, LimiterInit
    <2>2. Lost = 0 /\ Limit * Lost = 0 /\ Limit \in Nat /\ Allowance \in Nat
      BY <2>1, OneMore, LimitAssumption DEF Lost, Allowance
    <2>3. \A w \in Windows : admitted[w] + Waiting(w) <= Allowance + Cardinality(Callers)
      <3> SUFFICES ASSUME NEW w \in Windows
                   PROVE  admitted[w] + Waiting(w) <= Allowance + Cardinality(Callers)
        OBVIOUS
      <3>1. /\ Waiting(w) \in Nat /\ Cardinality(Callers) \in Nat /\ Waiting(w) <= Cardinality(Callers)
            /\ admitted[w] = 0
        BY <2>1, WaitingCount
      <3> QED BY <2>2, <3>1
    <2> QED BY <2>1, <2>2, <2>3 DEF Metered, MeteredNow, MeteredLate, Allowance
  <1>2. Typed /\ Metered => WithinLimit
    <2> SUFFICES ASSUME Typed, Metered, NEW w \in Windows
                 PROVE  admitted[w] <= Limit * Started + (IF w < clock THEN Cardinality(Callers) ELSE 0)
      BY DEF WithinLimit
    <2>1. restarts \in Nat /\ Lost \in Nat /\ Allowance \in Nat /\ w \in Nat /\ clock \in Nat
          /\ admitted[w] \in Nat
      BY LimiterViews
    <2>2. Limit * Started = Allowance
      <3>1. CASE limiter = "memory"
        BY <2>1, <3>1, OneMore DEF Lost, Started, Allowance
      <3>2. CASE limiter # "memory"
        <4>1. Limit * 0 + Limit = Limit * 1
          BY OneMore, LimitAssumption
        <4> QED BY <3>2, <4>1 DEF Lost, Started, Allowance
      <3> QED BY <3>1, <3>2
    <2>3. CASE w < clock
      <3>1. admitted[w] + Waiting(w) <= Allowance + Cardinality(Callers)
        BY <2>3 DEF Metered, MeteredLate
      <3>2. Waiting(w) \in Nat /\ Cardinality(Callers) \in Nat
        BY WaitingCount
      <3> QED BY <2>1, <2>2, <2>3, <3>1, <3>2
    <2>4. CASE ~(w < clock)
      <3>1. w >= clock /\ admitted[w] <= Allowance
        BY <2>1, <2>4 DEF Metered, MeteredNow
      <3> QED BY <2>1, <2>2, <2>4, <3>1
    <2> QED BY <2>3, <2>4
  <1> QED BY <1>1, <1>2, InitTyped, NextTyped, NextMetered, PTL DEF Spec

-----------------------------------------------------------------------------
(* Trigger dedup.                                                          *)

\* What the sources deliver, over HTTP and from the schedules.
Delivered == Requests \cup {SlotTrigger(s) : s \in Slots}

\* The contract of a source: the triggers it delivers of one event carry the
\* same identity, wherever else they differ.
SameKey == \A a, b \in Delivered : a.event = b.event => DeriveKey(a) = DeriveKey(b)
\* And those of two events do not.
OwnKey == \A a, b \in Delivered : DeriveKey(a) = DeriveKey(b) => a.event = b.event

\* A run is created for a trigger.
New(tr) ==
    /\ DeriveKey(tr) \notin keys /\ keys' = keys \cup {DeriveKey(tr)}
    /\ started' \in [Events -> Nat]
    /\ started'[tr.event] = started[tr.event] + 1
    /\ \A e \in Events : e # tr.event => started'[e] = started[e]

\* The slot of a tick is an event that is delivered, under its own key.
LEMMA SlotDelivered ==
  ASSUME NEW t \in Tick, t.todo # {}
  PROVE  /\ SlotTrigger(SlotOf(t)) \in Delivered /\ SlotOf(t) \in Slots
         /\ DeriveKey(SlotTrigger(SlotOf(t))) = SlotOf(t) /\ SlotTrigger(SlotOf(t)).event = SlotOf(t)
  BY TurnIsDue, SlotKey DEF SlotOf, Delivered

\* A tick that creates a run does it for the trigger of its slot.
LEMMA CreatesNew ==
  ASSUME SchedulerTypeOK, NEW r \in Replicas, Creates(r)
  PROVE  New(SlotTrigger(SlotOf(tick[r]))) /\ SlotTrigger(SlotOf(tick[r])) \in Delivered
  <1>1. tick[r] \in Tick /\ tick[r].todo # {}
    BY DEF SchedulerTypeOK, Creates
  <1> DEFINE s == SlotOf(tick[r])
             tr == SlotTrigger(s)
  <1>2. tr \in Delivered /\ DeriveKey(tr) = s /\ tr.event = s
    BY <1>1, SlotDelivered
  <1>3. /\ s \notin keys /\ keys' = keys \cup {s} /\ started' \in [Events -> Nat]
        /\ started'[s] = started[s] + 1
        /\ \A e \in Events : e # s => started'[e] = started[e]
    BY DEF Creates
  <1> HIDE DEF s, tr
  <1>4. New(tr)
    BY <1>2, <1>3 DEF New
  <1> QED BY <1>2, <1>4 DEF tr, s

\* What a step may be, seen from the runs table and the ticks.
LEMMA IntakeKinds ==
  ASSUME Typed, [Next]_vars
  PROVE  \/ \E r \in Replicas : Starts(r) \/ Passes(r) \/ Creates(r) \/ Die(r)
         \/ \E r \in Replicas, m \in Minutes : Leaves(r, m)
         \/ \E tr \in Requests : New(tr) /\ UNCHANGED <<tick, ended>>
         \/ UNCHANGED <<keys, started, tick, ended>>
  <1>t. SchedulerTypeOK /\ Quiet /\ started \in [Events -> Nat]
    BY DEF Typed, TypeOK, SchedulerTypeOK
  <1>1. CASE SchedulerNext
    BY <1>t, <1>1, SchedulerKinds DEF NextMinute
  <1>2. ASSUME NEW c \in Callers, NEW tr \in Requests, Fire(c, tr)
        PROVE  (New(tr) /\ UNCHANGED <<tick, ended>>) \/ UNCHANGED <<keys, started, tick, ended>>
    <2>1. (GetRun(tr) \/ CreateRun(tr)) /\ UNCHANGED <<tick, ended>>
      BY <1>2 DEF Fire
    <2> QED BY <1>t, <2>1, RunViews, IntakeAssumption DEF New
  <1>3. ASSUME UNCHANGED schedulerVars
        PROVE  UNCHANGED <<keys, started, tick, ended>>
    BY <1>3 DEF schedulerVars
  <1>4. ASSUME NEW c \in Callers, Enter(c) \/ Count(c)
        PROVE  UNCHANGED schedulerVars
    BY <1>4 DEF Enter, Count
  <1>5. ASSUME NEW w \in Windows, ExpireWindow(w)
        PROVE  UNCHANGED schedulerVars
    BY <1>5 DEF ExpireWindow
  <1>6. Restart => UNCHANGED schedulerVars
    BY DEF Restart
  <1>7. UNCHANGED vars => UNCHANGED schedulerVars
    BY DEF vars
  <1> QED BY <1>1, <1>2, <1>3, <1>4, <1>5, <1>6, <1>7 DEF Next

\* Only these steps touch the runs table.
LEMMA RunKinds ==
  ASSUME Typed, [Next]_vars
  PROVE  UNCHANGED <<keys, started>> \/ \E tr \in Delivered : New(tr)
  <1>1. SchedulerTypeOK
    BY DEF Typed, TypeOK
  <1>2. Requests \subseteq Delivered
    BY DEF Delivered
  <1>3. ASSUME NEW r \in Replicas, Starts(r) \/ Passes(r) \/ Die(r)
        PROVE  UNCHANGED <<keys, started>>
    BY <1>3 DEF Starts, Passes, Die
  <1>4. ASSUME NEW r \in Replicas, NEW m \in Minutes, Leaves(r, m)
        PROVE  UNCHANGED <<keys, started>>
    BY <1>4 DEF Leaves
  <1> QED BY <1>1, <1>2, <1>3, <1>4, IntakeKinds, CreatesNew

\* The key of an event that has a run is taken, however its triggers are
\* delivered.
Deduped ==
    \A e \in Events : /\ started[e] <= 1
                      /\ started[e] > 0 => \A tr \in Delivered : tr.event = e => DeriveKey(tr) \in keys

\* Every step keeps it.
LEMMA NextDeduped ==
  ASSUME SameKey, Typed, Deduped, [Next]_vars
  PROVE  Deduped'
  <1>t. started \in [Events -> Nat] /\ \A tr \in Delivered : tr.event \in Events
    BY IntakeAssumption, SlotsAreEvents, SlotKey DEF Typed, TypeOK, SchedulerTypeOK, Delivered
  <1>1. ASSUME NEW tr \in Delivered, New(tr)
        PROVE  Deduped'
    <2>1. /\ DeriveKey(tr) \notin keys /\ keys' = keys \cup {DeriveKey(tr)}
          /\ started'[tr.event] = started[tr.event] + 1
          /\ \A e \in Events : e # tr.event => started'[e] = started[e]
      BY <1>1 DEF New
    <2>2. started[tr.event] = 0
      BY <1>t, <2>1 DEF Deduped
    <2>3. \A b \in Delivered : b.event = tr.event => DeriveKey(b) \in keys'
      BY <2>1 DEF SameKey
    <2>4. ASSUME NEW e \in Events
          PROVE  /\ started'[e] <= 1
                 /\ started'[e] > 0 => \A b \in Delivered : b.event = e => DeriveKey(b) \in keys'
      <3>1. CASE e = tr.event
        BY <2>1, <2>2, <2>3, <3>1
      <3>2. CASE e # tr.event
        BY <2>1, <3>2 DEF Deduped
      <3> QED BY <3>1, <3>2
    <2> QED BY <2>4 DEF Deduped
  <1>2. CASE UNCHANGED <<keys, started>>
    BY <1>2 DEF Deduped
  <1> QED BY <1>1, <1>2, RunKinds

\* However many triggers of an event are delivered, on either path or both,
\* by replicas that tick, die and tick again and callers that race, one run is
\* created, if only the sources name the event the same way every time.
THEOREM EventsRunOnce ==
  ASSUME SameKey
  PROVE  Spec => []OneRunPerEvent
  <1>1. Init => Deduped
    BY DEF Init, SchedulerInit, TriggersInit, Deduped
  <1>2. Typed /\ Deduped /\ [Next]_vars => Deduped'
    BY NextDeduped
  <1>3. Deduped => OneRunPerEvent
    BY DEF Deduped, OneRunPerEvent
  <1> QED BY <1>1, <1>2, <1>3, InitTyped, NextTyped, PTL DEF Spec

-----------------------------------------------------------------------------
(* The schedules.                                                          *)

\* The slots that the cron matcher finds due in minute m.
SlotAt(i, m) == <<Schedules[i].id, m>>
DueSlots(m) == {SlotAt(i, m) : i \in Due[m]}

\* The matcher agrees with the calendar wherever it does not raise.
CalendarAgrees ==
    \A m \in Minutes \ RaisesIn : {e \in Expected : e[2] = m} = DueSlots(m)

\* What is posted for a slot by hand is for one that is due.
HandFiredIsDue == \A q \in Requests : q.event \in Slots => q.event \in Expected

\* A tick has only left to do what was due in its minute.
PlannedTick(t) == t.on => t.slot \in Minutes \ RaisesIn /\ t.todo \subseteq Due[t.slot]
Planned == \A r \in Replicas : PlannedTick(tick[r])

\* The slot of such a tick is due.
LEMMA PlannedSlot ==
  ASSUME NEW t \in Tick, t.todo # {}, t.on, PlannedTick(t)
  PROVE  t.slot \in Minutes \ RaisesIn /\ SlotOf(t) \in DueSlots(t.slot)
         /\ SlotOf(t) = SlotAt(Min(t.todo), t.slot)
  BY TurnIsDue DEF PlannedTick, SlotOf, DueSlots, SlotAt

\* What a replica may become: the four things that move one.
LEMMA MoveKinds ==
  ASSUME SchedulerTypeOK, NEW r \in Replicas,
         \/ Starts(r) \/ Passes(r) \/ Creates(r) \/ Die(r)
         \/ \E m \in Minutes : Leaves(r, m)
  PROVE  \E t \in Tick :
            /\ tick'[r] = t /\ \A q \in Replicas : q # r => tick'[q] = tick[q]
            /\ \/ ~t.on /\ ~t.driving /\ t.todo = {}
               \/ /\ clock \in Minutes \ RaisesIn /\ Starts(r) /\ t.on /\ t.slot = clock
                  /\ t.todo = Due[clock] /\ ~t.driving
               \/ /\ Passes(r) /\ t.on /\ t.slot = tick[r].slot /\ ~t.driving
                  /\ t.todo = tick[r].todo \ {Min(tick[r].todo)}
               \/ /\ Creates(r) /\ t.on /\ t.slot = tick[r].slot /\ t.todo = tick[r].todo
                  /\ t.driving
  <1>t. tick \in [Replicas -> Tick] /\ clock \in Minutes
    BY DEF SchedulerTypeOK
  <1>1. CASE Starts(r)
    <2> DEFINE t == [on |-> TRUE, slot |-> clock, todo |-> Due[clock], driving |-> FALSE]
    <2>1. Due[clock] \subseteq 1 .. Len(Schedules)
      BY <1>t, <1>1 DEF Starts, Due
    <2>2. /\ t \in Tick /\ ~t.driving /\ t.on /\ t.slot = clock /\ t.todo = Due[clock] /\ Move(r, t)
          /\ clock \notin RaisesIn
      BY <1>t, <1>1, <2>1 DEF Starts, Tick
    <2> HIDE DEF t
    <2> QED BY <1>t, <1>1, <2>2, MoveTicks
  <1>2. CASE Passes(r)
    <2> DEFINE t == Rest(tick[r])
    <2>1. /\ t \in Tick /\ ~t.driving /\ t.on /\ t.slot = tick[r].slot /\ Move(r, t)
          /\ t.todo = tick[r].todo \ {Min(tick[r].todo)}
      BY <1>t, <1>2, TickViews DEF Passes
    <2> HIDE DEF t
    <2> QED BY <1>t, <1>2, <2>1, MoveTicks
  <1>3. CASE Creates(r)
    <2> DEFINE t == Driving(tick[r])
    <2>1. /\ t \in Tick /\ t.driving /\ t.on /\ t.slot = tick[r].slot /\ Move(r, t)
          /\ t.todo = tick[r].todo
      BY <1>t, <1>3, TickViews DEF Creates
    <2> HIDE DEF t
    <2> QED BY <1>t, <1>3, <2>1, MoveTicks
  <1>4. CASE Die(r) \/ \E m \in Minutes : Leaves(r, m)
    <2> DEFINE t == Idle
    <2>1. t \in Tick /\ ~t.on /\ ~t.driving /\ t.todo = {} /\ Move(r, t)
      BY <1>4, IdleView DEF Die, Leaves, Leave
    <2> HIDE DEF t
    <2> QED BY <1>t, <2>1, MoveTicks
  <1> QED BY <1>1, <1>2, <1>3, <1>4

\* Either a replica moves or no tick changes.
LEMMA TickKinds ==
  ASSUME Typed, [Next]_vars
  PROVE  \/ \E r \in Replicas : \/ Starts(r) \/ Passes(r) \/ Creates(r) \/ Die(r)
                               \/ \E m \in Minutes : Leaves(r, m)
         \/ UNCHANGED <<tick, ended>> /\ UNCHANGED <<keys, started>>
         \/ UNCHANGED <<tick, ended>> /\ \E tr \in Requests : New(tr)
  BY IntakeKinds

\* Every step keeps the plan.
LEMMA NextPlanned ==
  ASSUME Typed, Planned, [Next]_vars
  PROVE  Planned'
  <1>t. SchedulerTypeOK
    BY DEF Typed, TypeOK
  <1>1. ASSUME NEW r \in Replicas,
               \/ Starts(r) \/ Passes(r) \/ Creates(r) \/ Die(r)
               \/ \E m \in Minutes : Leaves(r, m)
        PROVE  Planned'
    <2>1. PICK t \in Tick :
            /\ tick'[r] = t /\ \A q \in Replicas : q # r => tick'[q] = tick[q]
            /\ \/ ~t.on
               \/ clock \in Minutes \ RaisesIn /\ t.slot = clock /\ t.todo = Due[clock]
               \/ tick[r].on /\ t.slot = tick[r].slot /\ t.todo \subseteq tick[r].todo
      BY <1>t, <1>1, MoveKinds DEF Passes, Creates
    <2>2. PlannedTick(t)
      BY <2>1 DEF PlannedTick, Planned
    <2> QED BY <2>1, <2>2 DEF Planned
  <1>2. CASE UNCHANGED tick
    BY <1>2 DEF Planned
  <1> QED BY <1>1, <1>2, TickKinds

\* Every step keeps runs to slots that are due.
LEMMA NextDue ==
  ASSUME CalendarAgrees, HandFiredIsDue, Typed, Planned, OnlyDueSlots, [Next]_vars
  PROVE  OnlyDueSlots'
  <1>t. SchedulerTypeOK /\ started \in [Events -> Nat] /\ tick \in [Replicas -> Tick]
    BY DEF Typed, TypeOK, SchedulerTypeOK
  <1>s. Slots \subseteq Events
    BY SlotsAreEvents
  <1>0. ASSUME NEW tr, New(tr), tr.event \in Slots => tr.event \in Expected
        PROVE  OnlyDueSlots'
    BY <1>s, <1>0 DEF New, OnlyDueSlots
  <1>1. ASSUME NEW r \in Replicas, Creates(r)
        PROVE  OnlyDueSlots'
    <2> DEFINE t == tick[r]
               tr == SlotTrigger(SlotOf(t))
    <2>1. t \in Tick /\ t.todo # {} /\ t.on /\ PlannedTick(t) /\ New(tr)
      BY <1>t, <1>1, CreatesNew DEF Creates, Planned
    <2>2. SlotOf(t) \in Expected
      BY <2>1, PlannedSlot DEF CalendarAgrees
    <2>3. tr.event \in Expected
      BY <2>2, SlotKey
    <2> HIDE DEF tr
    <2> QED BY <1>0, <2>1, <2>3
  <1>2. ASSUME NEW tr \in Requests, New(tr)
        PROVE  OnlyDueSlots'
    BY <1>0, <1>2 DEF HandFiredIsDue
  <1>3. CASE UNCHANGED <<keys, started>>
    BY <1>3 DEF OnlyDueSlots
  <1>4. ASSUME NEW r \in Replicas, \/ Starts(r) \/ Passes(r) \/ Die(r)
                                   \/ \E m \in Minutes : Leaves(r, m)
        PROVE  UNCHANGED <<keys, started>>
    BY <1>4 DEF Starts, Passes, Die, Leaves
  <1> QED BY <1>1, <1>2, <1>3, <1>4, TickKinds

\* However long a tick takes, and however many minutes pass while it drives a
\* run, it only starts runs of the minute it was started for.
THEOREM RunsAreDue ==
  ASSUME CalendarAgrees, HandFiredIsDue
  PROVE  Spec => []OnlyDueSlots
  <1>1. Init => Planned /\ OnlyDueSlots
    <2> SUFFICES ASSUME Init PROVE Planned /\ OnlyDueSlots
      OBVIOUS
    <2>1. tick = [r \in Replicas |-> Idle] /\ started = [e \in Events |-> 0]
      BY DEF Init, SchedulerInit, TriggersInit
    <2> QED BY <2>1, IdleView, SlotsAreEvents DEF Planned, PlannedTick, OnlyDueSlots
  <1>2. Typed /\ Planned /\ [Next]_vars => Planned'
    BY NextPlanned
  <1>3. Typed /\ Planned /\ OnlyDueSlots /\ [Next]_vars => OnlyDueSlots'
    BY NextDue
  <1> QED BY <1>1, <1>2, <1>3, InitTyped, NextTyped, PTL DEF Spec

-----------------------------------------------------------------------------
(* Ticks that raise.                                                       *)

\* A slot has a run exactly when its key is taken.
Recorded == \A s \in Slots : s \in keys <=> started[s] > 0

\* What was due in the minute of a tick has a run, or is still to be fired.
ReachedTick(t, done) ==
    t.on => \A e \in DueSlots(t.slot) : e \in done \/ \E i \in t.todo : e = SlotAt(i, t.slot)
Reached == \A r \in Replicas : ReachedTick(tick[r], keys)

\* Two replicas never drive the run of the same slot.
Apart == \A r, q \in Replicas : tick[r].driving /\ tick[q].driving /\ r # q => SlotOf(tick[r]) # SlotOf(tick[q])

\* The slots of a minute that have a run no tick is driving.
Behind(m) == {e \in DueSlots(m) : e \in keys /\ \A r \in Replicas : tick[r].driving => SlotOf(tick[r]) # e}

\* Every tick that has ended left one more of them behind, until there is
\* nothing left to fire.
Progress ==
    \A m \in Minutes \ RaisesIn : DueSlots(m) \subseteq keys \/ ended[m] <= Cardinality(Behind(m))

\* Slots that are due are slots, and there are finitely many.
LEMMA DueViews ==
  ASSUME NEW m \in Minutes \ RaisesIn
  PROVE  DueSlots(m) \subseteq Slots /\ IsFiniteSet(DueSlots(m))
  <1>1. Due[m] \subseteq 1 .. Len(Schedules)
    BY DEF Due
  <1>2. IsFiniteSet(1 .. Len(Schedules))
    BY FS_Interval, ScheduleAssumption
  <1>3. IsFiniteSet(Due[m])
    BY <1>1, <1>2, FS_Subset
  <1>4. IsFiniteSet(DueSlots(m))
    <2> DEFINE f == [i \in Due[m] |-> SlotAt(i, m)]
    <2>1. f \in Surjection(Due[m], DueSlots(m))
      BY DEF Surjection, DueSlots
    <2> QED BY <1>3, <2>1, FS_Surjection
  <1> QED BY <1>1, <1>4 DEF DueSlots, SlotAt, Slots, SchedIds

\* A creation keeps what is known of the slots.
LEMMA NextRecorded ==
  ASSUME SameKey, OwnKey, Typed, Recorded, [Next]_vars
  PROVE  Recorded' /\ keys \subseteq keys'
  <1>t. started \in [Events -> Nat] /\ Slots \subseteq Events
    BY SlotsAreEvents DEF Typed, TypeOK, SchedulerTypeOK
  <1>1. ASSUME NEW tr \in Delivered, New(tr)
        PROVE  Recorded' /\ keys \subseteq keys'
    <2>1. /\ keys' = keys \cup {DeriveKey(tr)}
          /\ started'[tr.event] = started[tr.event] + 1
          /\ \A e \in Events : e # tr.event => started'[e] = started[e]
      BY <1>1 DEF New
    <2>2. ASSUME NEW s \in Slots
          PROVE  s = DeriveKey(tr) <=> s = tr.event
      <3>1. SlotTrigger(s) \in Delivered /\ DeriveKey(SlotTrigger(s)) = s /\ SlotTrigger(s).event = s
        BY SlotKey DEF Delivered
      <3>2. s = tr.event => s = DeriveKey(tr)
        BY <3>1 DEF SameKey
      <3>3. s = DeriveKey(tr) => s = tr.event
        BY <3>1 DEF OwnKey
      <3> QED BY <3>2, <3>3
    <2>3. ASSUME NEW s \in Slots
          PROVE  s \in keys' <=> started'[s] > 0
      <3>1. CASE s = tr.event
        BY <1>t, <2>1, <2>2, <3>1
      <3>2. CASE s # tr.event
        BY <1>t, <2>1, <2>2, <3>2 DEF Recorded
      <3> QED BY <3>1, <3>2
    <2> QED BY <2>1, <2>3 DEF Recorded
  <1>2. CASE UNCHANGED <<keys, started>>
    BY <1>2 DEF Recorded
  <1> QED BY <1>1, <1>2, RunKinds

\* A tick fires in order and passes a schedule only when its run exists.
LEMMA NextReached ==
  ASSUME Typed, Planned, Reached, keys \subseteq keys', [Next]_vars
  PROVE  Reached'
  <1>t. SchedulerTypeOK /\ tick \in [Replicas -> Tick]
    BY DEF Typed, TypeOK, SchedulerTypeOK
  <1>0. \A q \in Replicas : ReachedTick(tick[q], keys')
    BY DEF Reached, ReachedTick
  <1>1. ASSUME NEW r \in Replicas,
               \/ Starts(r) \/ Passes(r) \/ Creates(r) \/ Die(r)
               \/ \E m \in Minutes : Leaves(r, m)
        PROVE  Reached'
    <2>1. PICK t \in Tick :
            /\ tick'[r] = t /\ \A q \in Replicas : q # r => tick'[q] = tick[q]
            /\ \/ ~t.on
               \/ t.slot = clock /\ t.todo = Due[clock]
               \/ /\ Passes(r) /\ t.slot = tick[r].slot
                  /\ t.todo = tick[r].todo \ {Min(tick[r].todo)}
               \/ tick[r].on /\ t.slot = tick[r].slot /\ t.todo = tick[r].todo
      BY <1>t, <1>1, MoveKinds DEF Creates
    <2>2. ReachedTick(t, keys')
      <3>1. CASE ~t.on
        BY <3>1 DEF ReachedTick
      <3>2. CASE t.slot = clock /\ t.todo = Due[clock]
        BY <3>2 DEF ReachedTick, DueSlots
      <3>3. CASE Passes(r) /\ t.slot = tick[r].slot /\ t.todo = tick[r].todo \ {Min(tick[r].todo)}
        <4>1. tick[r].on /\ tick[r].todo # {} /\ SlotOf(tick[r]) \in keys /\ tick[r] \in Tick
          BY <1>t, <3>3 DEF Passes
        <4>2. SlotOf(tick[r]) = SlotAt(Min(tick[r].todo), tick[r].slot)
          BY <4>1, PlannedSlot DEF Planned
        <4> QED BY <1>0, <3>3, <4>1, <4>2 DEF ReachedTick
      <3>4. CASE tick[r].on /\ t.slot = tick[r].slot /\ t.todo = tick[r].todo
        BY <1>0, <3>4 DEF ReachedTick
      <3> QED BY <2>1, <3>1, <3>2, <3>3, <3>4
    <2>3. \A q \in Replicas : ReachedTick(tick'[q], keys')
      BY <1>0, <2>1, <2>2
    <2> QED BY <2>3 DEF Reached
  <1>2. CASE UNCHANGED tick
    BY <1>0, <1>2 DEF Reached
  <1> QED BY <1>1, <1>2, TickKinds

\* A replica starts to drive only a slot without a run, so no other drives it.
LEMMA NextApart ==
  ASSUME Typed, Apart, [Next]_vars
  PROVE  Apart' /\ \A m \in Minutes : keys \subseteq keys' => Behind(m) \subseteq Behind(m)'
  <1>t. SchedulerTypeOK /\ tick \in [Replicas -> Tick]
        /\ \A q \in Replicas : tick[q].driving => SlotOf(tick[q]) \in keys
    BY DEF Typed, TypeOK, SchedulerTypeOK, SlotOf
  <1>1. ASSUME NEW r \in Replicas,
               \/ Starts(r) \/ Passes(r) \/ Creates(r) \/ Die(r)
               \/ \E m \in Minutes : Leaves(r, m)
        PROVE  Apart' /\ \A m \in Minutes : keys \subseteq keys' => Behind(m) \subseteq Behind(m)'
    <2>1. PICK t \in Tick :
            /\ tick'[r] = t /\ \A q \in Replicas : q # r => tick'[q] = tick[q]
            /\ \/ ~t.driving
               \/ Creates(r) /\ t.slot = tick[r].slot /\ t.todo = tick[r].todo
      BY <1>t, <1>1, MoveKinds
    <2>2. t.driving => SlotOf(t) \notin keys
      BY <2>1 DEF Creates, SlotOf, Turn
    <2>3. \A q \in Replicas : q # r /\ tick[q].driving /\ t.driving => SlotOf(tick[q]) # SlotOf(t)
      BY <1>t, <2>2
    <2>4. ASSUME NEW a \in Replicas, NEW b \in Replicas, a # b, tick'[a].driving, tick'[b].driving
          PROVE  SlotOf(tick'[a]) # SlotOf(tick'[b])
      <3>1. CASE a = r
        BY <2>1, <2>3, <2>4, <3>1
      <3>2. CASE b = r
        BY <2>1, <2>3, <2>4, <3>2
      <3>3. CASE a # r /\ b # r
        BY <2>1, <2>4, <3>3 DEF Apart
      <3> QED BY <3>1, <3>2, <3>3
    <2>6. \A q \in Replicas : (SlotOf(tick[q]))' = SlotOf(tick'[q])
      BY DEF SlotOf, Turn
    <2>7. Apart'
      BY <2>4, <2>6 DEF Apart
    <2>8. ASSUME NEW m \in Minutes, keys \subseteq keys', NEW e \in Behind(m)
          PROVE  e \in Behind(m)'
      <3>1. /\ e \in DueSlots(m) /\ e \in keys /\ e \in keys'
            /\ \A q \in Replicas : tick[q].driving => SlotOf(tick[q]) # e
        BY <2>8 DEF Behind
      <3>2. \A q \in Replicas : tick'[q].driving => SlotOf(tick'[q]) # e
        BY <2>1, <2>2, <3>1
      <3> QED BY <2>6, <3>1, <3>2 DEF Behind
    <2> QED BY <2>7, <2>8
  <1>2. CASE UNCHANGED tick
    <2>1. \A q \in Replicas : (SlotOf(tick[q]))' = SlotOf(tick[q])
      BY <1>2 DEF SlotOf, Turn
    <2> QED BY <1>2, <2>1 DEF Apart, Behind
  <1> QED BY <1>1, <1>2, TickKinds

\* A tick ends because everything has a run, or because the run it drives
\* fails, which it leaves behind.
LEMMA NextProgress ==
  ASSUME Typed, Planned, Reached, Apart, Progress, keys \subseteq keys', [Next]_vars
  PROVE  Progress'
  <1>t. /\ SchedulerTypeOK /\ tick \in [Replicas -> Tick] /\ ended \in [Minutes -> 0 .. MaxTicks]
        /\ \A q \in Replicas : tick[q].driving => /\ tick[q].on /\ tick[q].todo # {}
                                                  /\ SlotOf(tick[q]) \in keys
        /\ MaxTicks \in Nat
    BY ScheduleAssumption DEF Typed, TypeOK, SchedulerTypeOK, SlotOf
  <1>b. \A m \in Minutes : Behind(m) \subseteq Behind(m)'
    BY NextApart
  <1>f. \A m \in Minutes \ RaisesIn :
           /\ IsFiniteSet(Behind(m)) /\ IsFiniteSet(Behind(m)')
           /\ Cardinality(Behind(m)) \in Nat /\ Cardinality(Behind(m)') \in Nat
           /\ Cardinality(Behind(m)) <= Cardinality(Behind(m)')
    <2> SUFFICES ASSUME NEW m \in Minutes \ RaisesIn
                 PROVE  /\ IsFiniteSet(Behind(m)) /\ IsFiniteSet(Behind(m)')
                        /\ Cardinality(Behind(m)) \in Nat /\ Cardinality(Behind(m)') \in Nat
                        /\ Cardinality(Behind(m)) <= Cardinality(Behind(m)')
      OBVIOUS
    <2>1. IsFiniteSet(DueSlots(m)) /\ Behind(m) \subseteq DueSlots(m) /\ Behind(m)' \subseteq DueSlots(m)
      BY DueViews DEF Behind, DueSlots, SlotAt
    <2>2. IsFiniteSet(Behind(m)) /\ IsFiniteSet(Behind(m)')
      BY <2>1, FS_Subset
    <2> QED BY <1>b, <2>2, FS_Subset, FS_CardinalityType
  <1>1. ASSUME NEW m \in Minutes \ RaisesIn, ended'[m] = ended[m]
        PROVE  DueSlots(m) \subseteq keys' \/ ended'[m] <= Cardinality(Behind(m)')
    <2>1. ended[m] \in Nat
      BY <1>t
    <2>2. DueSlots(m) \subseteq keys \/ ended[m] <= Cardinality(Behind(m))
      BY DEF Progress
    <2> QED BY <1>1, <1>f, <2>1, <2>2
  <1>2. ASSUME NEW r \in Replicas, NEW m \in Minutes \ RaisesIn, Leaves(r, m)
        PROVE  DueSlots(m) \subseteq keys' \/ ended'[m] <= Cardinality(Behind(m)')
    <2>1. /\ m = tick[r].slot /\ tick[r].on /\ (tick[r].driving \/ tick[r].todo = {})
          /\ Move(r, Idle) /\ UNCHANGED keys
          /\ ended' = [ended EXCEPT ![m] = IF @ < MaxTicks THEN @ + 1 ELSE @]
      BY <1>2 DEF Leaves, Leave
    <2>2. CASE tick[r].todo = {}
      BY <2>1, <2>2 DEF Reached, ReachedTick
    <2>3. CASE tick[r].driving
      <3> DEFINE e == SlotOf(tick[r])
      <3>1. e \in DueSlots(m) /\ e \in keys
        BY <1>t, <2>1, <2>3, PlannedSlot DEF Planned
      <3>2. e \notin Behind(m)
        BY <2>3 DEF Behind
      <3>3. \A q \in Replicas : q # r /\ tick[q].driving => SlotOf(tick[q]) # e
        BY <2>3 DEF Apart
      <3>4. /\ tick'[r] = Idle /\ \A q \in Replicas : q # r => tick'[q] = tick[q]
        BY <1>t, <2>1, MoveTicks
      <3>5. \A q \in Replicas : (SlotOf(tick[q]))' = SlotOf(tick'[q])
        BY DEF SlotOf, Turn
      <3> HIDE DEF e
      <3>6. \A q \in Replicas : tick'[q].driving => SlotOf(tick'[q]) # e
        BY <3>3, <3>4, IdleView
      <3>7. e \in Behind(m)'
        BY <2>1, <3>1, <3>5, <3>6 DEF Behind
      <3>8. Cardinality(Behind(m) \cup {e}) = Cardinality(Behind(m)) + 1
        BY <1>f, <3>2, FS_AddElement
      <3>9. Cardinality(Behind(m) \cup {e}) <= Cardinality(Behind(m)')
        BY <1>b, <1>f, <3>7, FS_Subset
      <3>10. ended[m] \in Nat /\ ended'[m] \in Nat /\ ended'[m] <= ended[m] + 1
        BY <1>t, <2>1
      <3>11. DueSlots(m) \subseteq keys \/ ended[m] <= Cardinality(Behind(m))
        BY DEF Progress
      <3> QED BY <1>f, <2>1, <3>8, <3>9, <3>10, <3>11
    <2> QED BY <2>1, <2>2, <2>3
  <1>3. ASSUME NEW r \in Replicas, NEW n \in Minutes, Leaves(r, n), NEW m \in Minutes \ RaisesIn, m # n
        PROVE  ended'[m] = ended[m]
    BY <1>t, <1>3 DEF Leaves, Leave
  <1>4. (\E r \in Replicas, n \in Minutes : Leaves(r, n)) \/ UNCHANGED ended
    BY IntakeKinds DEF Starts, Passes, Creates, Die
  <1>5. \A m \in Minutes \ RaisesIn : DueSlots(m) \subseteq keys' \/ ended'[m] <= Cardinality(Behind(m)')
    BY <1>1, <1>2, <1>3, <1>4
  <1>6. \A m : DueSlots(m)' = DueSlots(m)
    BY DEF DueSlots, SlotAt
  <1> QED BY <1>5, <1>6 DEF Progress

\* What a tick that raises costs is bounded: in a minute with n schedules due,
\* n ticks that end, and one where nothing is due, give each of them its run,
\* whichever runs fail, whoever ticks, dies or fires a slot by hand.
THEOREM EndedTicksCatchUp ==
  ASSUME SameKey, OwnKey, CalendarAgrees
  PROVE  Spec => []TicksCatchUp
  <1> DEFINE Inv == Planned /\ Recorded /\ Reached /\ Apart /\ Progress
  <1>1. Init => Inv
    <2> SUFFICES ASSUME Init PROVE Inv
      OBVIOUS
    <2>1. /\ tick = [r \in Replicas |-> Idle] /\ started = [e \in Events |-> 0] /\ keys = {}
          /\ ended = [m \in Minutes |-> 0]
      BY DEF Init, SchedulerInit, TriggersInit
    <2>2. Planned /\ Reached /\ Apart
      BY <2>1, IdleView DEF Planned, PlannedTick, Reached, ReachedTick, Apart
    <2>3. Recorded
      BY <2>1, SlotsAreEvents DEF Recorded
    <2>4. ASSUME NEW m \in Minutes \ RaisesIn
          PROVE  ended[m] <= Cardinality(Behind(m))
      <3>1. Behind(m) = {}
        BY <2>1 DEF Behind
      <3> QED BY <2>1, <3>1, FS_EmptySet
    <2> QED BY <2>2, <2>3, <2>4 DEF Progress
  <1>2. Typed /\ Inv /\ [Next]_vars => Inv'
    <2> SUFFICES ASSUME Typed, Inv, [Next]_vars PROVE Inv'
      OBVIOUS
    <2>1. Recorded' /\ keys \subseteq keys'
      BY NextRecorded
    <2>2. Planned' /\ Reached' /\ Apart' /\ Progress'
      BY <2>1, NextPlanned, NextReached, NextApart, NextProgress
    <2> QED BY <2>1, <2>2
  <1>3. Typed /\ Inv => TicksCatchUp
    <2> SUFFICES ASSUME Typed, Inv, NEW m \in Minutes \ RaisesIn,
                        ended[m] >= Cardinality(DueSlots(m)), NEW e \in DueSlots(m)
                 PROVE  started[e] > 0
      BY DEF TicksCatchUp, CalendarAgrees
    <2>1. DueSlots(m) \subseteq Slots /\ IsFiniteSet(DueSlots(m)) /\ Behind(m) \subseteq DueSlots(m)
      BY DueViews DEF Behind
    <2>2. DueSlots(m) \subseteq keys
      <3>1. CASE ended[m] <= Cardinality(Behind(m))
        <4>1. /\ Cardinality(Behind(m)) \in Nat /\ Cardinality(DueSlots(m)) \in Nat /\ ended[m] \in Nat
              /\ Cardinality(Behind(m)) <= Cardinality(DueSlots(m))
          BY <2>1, FS_Subset, FS_CardinalityType DEF Typed, TypeOK, SchedulerTypeOK
        <4>2. Cardinality(Behind(m)) = Cardinality(DueSlots(m))
          BY <3>1, <4>1
        <4>3. Behind(m) = DueSlots(m)
          BY <2>1, <4>2, FS_Subset
        <4> QED BY <4>3 DEF Behind
      <3> QED BY <3>1 DEF Progress
    <2> QED BY <2>1, <2>2 DEF Recorded
  <1> HIDE DEF Inv
  <1> QED BY <1>1, <1>2, <1>3, InitTyped, NextTyped, PTL DEF Spec
=============================================================================
