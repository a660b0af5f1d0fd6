---------------------------- MODULE SoloProofs ----------------------------
(***************************************************************************)
(* One driver on a run at a time (MaxOverlaps = 0), for every workflow and *)
(* any number of runs, drivers and crashes: what a run costs is what its   *)
(* events cost, a recorded effect is not executed again, a run that has    *)
(* ended does not change, its cursor moves along the graph, and the engine *)
(* implements RunLifecycle.  For workflows of the usual shape, also: a     *)
(* compensated run does not succeed, and an agent's calls are repeated no  *)
(* more often than its step is restarted.                                  *)
(*                                                                         *)
(* All of it rests on one fact: a run has one driver (Alone), so between   *)
(* two checkpoints the row is as the driver last wrote or loaded it, and   *)
(* only the driver's own steps touch the ledger entries of the run         *)
(* (InSync).                                                               *)
(***************************************************************************)
EXTENDS ExactlyOnceProofs, LifecycleProofs, Durability, FiniteSetTheorems

\* Two drivers are on two runs.
Alone ==
    \A d, e \in Drivers :
        (dr[d].pc # "idle" /\ dr[e].pc # "idle" /\ dr[d].run = dr[e].run) => d = e

\* get_effect finds a result in ledger e.
Found(e, k) == k \in DOMAIN e /\ e[k] # Null

\* Driver x on a run whose row is st and whose events cost c, ledger e.
Synced(x, st, c, e) ==
    /\ x.pc = "resolving" => x.mem = st /\ x.buf = NoEvents
    /\ x.pc \notin {"idle", "raised"} => x.mem.cost = c + x.buf.cost
    /\ (Active(x) /\ x.pc # "raised") => st.status \notin Terminal /\ st.cursor = x.mem.cursor
    /\ (NodeType[x.step] = "tool" /\ SideEffect[x.step]) =>
           /\ x.pc \in Gating => ~Found(e, <<x.run, x.step>>)
           /\ x.pc = "commit" => <<x.run, x.step>> \in DOMAIN e

InSync ==
    \A d \in Drivers : dr[d].pc # "idle" =>
        Synced(dr[d], runs[dr[d].run].st, trace[dr[d].run].cost, effects)

\* A run that does not exist has no events.
NoStrayCost == \A r \in RunIds : r \notin DOMAIN runs => trace[r].cost = 0

\* The inductive invariant.
Solo == ExactlyOnce /\ LifecycleInv /\ Alone /\ InSync /\ NoStrayCost /\ CostIsTraced

-----------------------------------------------------------------------------
(* What a step may touch: the run r of the driver that makes it.           *)

Untouched(q) ==
    /\ runs'[q].st = runs[q].st /\ trace'[q].cost = trace[q].cost
    /\ \A s \in Steps : /\ <<q, s>> \in DOMAIN effects' <=> <<q, s>> \in DOMAIN effects
                        /\ <<q, s>> \in DOMAIN effects => effects'[<<q, s>>] = effects[<<q, s>>]

\* A driver whose run is not touched stays in sync.
LEMMA SyncStays ==
  ASSUME Solo, NEW e \in Drivers, dr'[e] = dr[e], dr[e].pc # "idle" => Untouched(dr[e].run)
  PROVE  dr'[e].pc # "idle" =>
             Synced(dr'[e], runs'[dr'[e].run].st, trace'[dr'[e].run].cost, effects')
  <1>1. dr[e].pc # "idle" => Synced(dr[e], runs[dr[e].run].st, trace[dr[e].run].cost, effects)
    BY DEF Solo, InSync
  <1>2. dr[e].pc \in Gating \cup {"commit"} => dr[e].step \in Steps
    BY DEF Solo, LifecycleInv, TypeOK, DriverTypeOK, Gating
  <1> QED BY <1>1, <1>2 DEF Synced, Untouched, Found

\* A driver changes, and with it at most its own run.
LEMMA OthersInSync ==
  ASSUME Solo, NEW d \in Drivers, NEW y, Put(d, y), NEW r,
         \A q \in DOMAIN runs : q # r => Untouched(q),
         \A e \in Drivers : e # d /\ dr[e].pc # "idle" => dr[e].run # r,
         y.pc # "idle" => y.run = r /\ Synced(y, runs'[r].st, trace'[r].cost, effects')
  PROVE  Alone' /\ InSync'
  <1>t. TypeOK
    BY DEF Solo, LifecycleInv
  <1>1. dr'[d] = y /\ \A e \in Drivers : e # d => dr'[e] = dr[e]
    BY <1>t, PutView
  <1>2. \A e \in Drivers : dr[e].pc # "idle" => dr[e].run \in DOMAIN runs
    BY <1>t DEF TypeOK, DriverTypeOK
  <1>3. Alone'
    BY <1>1 DEF Solo, Alone
  <1>4. ASSUME NEW e \in Drivers, e # d
        PROVE  dr'[e].pc # "idle" =>
                   Synced(dr'[e], runs'[dr'[e].run].st, trace'[dr'[e].run].cost, effects')
    <2>1. dr[e].pc # "idle" => Untouched(dr[e].run)
      BY <1>2, <1>4
    <2> QED BY <1>1, <1>4, <2>1, SyncStays
  <1>5. InSync'
    BY <1>1, <1>4 DEF InSync
  <1> QED BY <1>3, <1>5

\* The drivers stay, on runs that are not touched.
LEMMA SameInSync ==
  ASSUME Solo, UNCHANGED dr, \A e \in Drivers : dr[e].pc # "idle" => Untouched(dr[e].run)
  PROVE  Alone' /\ InSync'
  <1>1. Alone'
    BY DEF Solo, Alone
  <1>2. InSync'
    BY SyncStays DEF InSync
  <1> QED BY <1>1, <1>2

\* A driver that is not idle is alone on its run.
LEMMA DriverAlone ==
  ASSUME Solo, NEW d \in Drivers, dr[d].pc # "idle"
  PROVE  \A e \in Drivers : e # d /\ dr[e].pc # "idle" => dr[e].run # dr[d].run
  BY DEF Solo, Alone

\* Without overlaps a request touches only runs that nobody drives.
LEMMA ClaimAlone ==
  ASSUME MaxOverlaps = 0, TypeOK, NEW r, Claim(r)
  PROVE  \A e \in Drivers : dr[e].run # r
  <1>1. overlaps \in Nat
    BY DEF TypeOK, EnvTypeOK
  <1>2. ~Driven(r)
    BY <1>1 DEF Claim
  <1> QED BY <1>2 DEF Driven

\* Where nothing changes, nothing is touched.
LEMMA NothingTouched == UNCHANGED <<runs, trace, effects>> => \A q : Untouched(q)
  BY DEF Untouched

\* A driver that starts is in sync with the row it starts from.
LEMMA BeginInSync ==
  ASSUME NEW r \in RunIds, NEW st \in RunState, NEW c, c = st.cost, NEW e
  PROVE  LET y == Begin(r, st) IN y.pc # "idle" => y.run = r /\ Synced(y, st, c, e)
  <1> DEFINE y == Begin(r, st)
  <1>1. \/ y = Idle
        \/ /\ y.pc = "loop" /\ y.run = r /\ st.status \notin Terminal
           /\ y.mem.cursor = st.cursor /\ y.mem.cost = st.cost /\ y.buf = NoEvents
    BY BeginView
  <1>2. st.cost \in Nat /\ NoEvents.cost = 0
    BY DEF RunState, NoEvents
  <1> SUFFICES y.pc # "idle" => y.run = r /\ Synced(y, st, c, e)
    OBVIOUS
  <1> HIDE DEF y
  <1>3. CASE y = Idle
    BY <1>3, IdleBacked
  <1>4. CASE y # Idle
    BY <1>1, <1>2, <1>4 DEF Synced, Gating
  <1> QED BY <1>3, <1>4

-----------------------------------------------------------------------------
(* The steps keep the invariant.                                           *)

\* Requests: fire, resume, and the two halves of resolve_approval.
LEMMA RequestSolo ==
  ASSUME MaxOverlaps = 0, Solo, NEW d \in Drivers, Request(d)
  PROVE  Alone' /\ InSync' /\ NoStrayCost' /\ CostIsTraced'
  <1>t. TypeOK /\ Alone /\ InSync /\ NoStrayCost /\ CostIsTraced
    BY DEF Solo, LifecycleInv
  <1>1. CASE \E t \in Tenants, k \in Keys, r \in RunIds : Fire(d, t, k, r)
    <2>0. PICK t \in Tenants, k \in Keys, r \in RunIds : Fire(d, t, k, r)
      BY <1>1
    <2>1. /\ r \notin DOMAIN runs /\ DOMAIN runs' = DOMAIN runs \cup {r} /\ runs'[r].st = NewRun
          /\ \A q \in DOMAIN runs : runs'[q] = runs[q]
          /\ Put(d, Begin(r, NewRun)) /\ UNCHANGED <<trace, effects>>
      BY <1>t, <2>0, FireView
    <2>2. NewRun \in RunState /\ NewRun.cost = 0 /\ trace'[r].cost = 0
      BY <1>t, <2>1, IdleType DEF NoStrayCost, NewRun
    <2>3. \A q \in DOMAIN runs : q # r => Untouched(q)
      BY <2>1 DEF Untouched
    <2>4. \A e \in Drivers : e # d /\ dr[e].pc # "idle" => dr[e].run # r
      BY <1>t, <2>1 DEF TypeOK, DriverTypeOK
    <2> DEFINE y == Begin(r, NewRun)
    <2>5. y.pc # "idle" => y.run = r /\ Synced(y, runs'[r].st, trace'[r].cost, effects')
      BY <2>1, <2>2, BeginInSync
    <2>6. Put(d, y)
      BY <2>1
    <2> HIDE DEF y
    <2>7. Alone' /\ InSync'
      BY <2>3, <2>4, <2>5, <2>6, OthersInSync
    <2>8. NoStrayCost' /\ CostIsTraced'
      BY <1>t, <2>1, <2>2 DEF NoStrayCost, CostIsTraced
    <2> QED BY <2>7, <2>8
  <1>2. ASSUME NEW r \in DOMAIN runs, runs[r].st \in RunState, r \in RunIds, Claim(r),
               \/ Put(d, Begin(r, runs[r].st))
               \/ Put(d, [Idle EXCEPT !.pc = "resolving", !.run = r, !.mem = runs[r].st]),
               UNCHANGED <<storeVars, posted>>
        PROVE  Alone' /\ InSync' /\ NoStrayCost' /\ CostIsTraced'
    <2>1. UNCHANGED <<runs, trace, effects>>
      BY <1>2 DEF storeVars
    <2>2. \A e \in Drivers : e # d /\ dr[e].pc # "idle" => dr[e].run # r
      BY <1>t, <1>2, ClaimAlone
    <2>3. trace[r].cost = runs[r].st.cost /\ runs[r].st.cost \in Nat
      BY <1>t, <1>2 DEF CostIsTraced, RunState
    <2> DEFINE y == Begin(r, runs[r].st)
               z == [Idle EXCEPT !.pc = "resolving", !.run = r, !.mem = runs[r].st]
    <2>4. y.pc # "idle" => y.run = r /\ Synced(y, runs'[r].st, trace'[r].cost, effects')
      BY <1>2, <2>1, <2>3, BeginInSync
    <2>5. z.pc = "resolving" /\ z.run = r /\ z.mem = runs[r].st /\ z.buf = NoEvents
      BY DEF Idle
    <2>6. Put(d, y) \/ Put(d, z)
      BY <1>2
    <2> HIDE DEF y, z
    <2>7. z.run = r /\ Synced(z, runs'[r].st, trace'[r].cost, effects')
      BY <2>1, <2>3, <2>5 DEF Synced, Active, Gating, NoEvents
    <2>8. Alone' /\ InSync'
      BY <2>1, <2>2, <2>4, <2>6, <2>7, NothingTouched, OthersInSync
    <2> QED BY <1>t, <2>1, <2>8 DEF NoStrayCost, CostIsTraced
  <1>3. ASSUME dr[d].pc = "resolving", dr[d].run \in RunIds, dr[d].mem \in RunState,
               Put(d, Begin(dr[d].run, dr[d].mem)), UNCHANGED <<runs, trace, effects>>
        PROVE  Alone' /\ InSync' /\ NoStrayCost' /\ CostIsTraced'
    <2> DEFINE r == dr[d].run
               y == Begin(r, dr[d].mem)
    <2>1. r \in DOMAIN runs /\ runs[r].st = dr[d].mem /\ trace[r].cost = dr[d].mem.cost
      BY <1>t, <1>3 DEF TypeOK, DriverTypeOK, InSync, Synced, CostIsTraced
    <2>2. y.pc # "idle" => y.run = r /\ Synced(y, runs'[r].st, trace'[r].cost, effects')
      BY <1>3, <2>1, BeginInSync
    <2>3. \A e \in Drivers : e # d /\ dr[e].pc # "idle" => dr[e].run # r
      BY <1>3, DriverAlone
    <2>4. Put(d, y)
      BY <1>3
    <2> HIDE DEF y
    <2>5. Alone' /\ InSync'
      BY <1>3, <2>2, <2>3, <2>4, NothingTouched, OthersInSync
    <2> QED BY <1>t, <1>3, <2>5 DEF NoStrayCost, CostIsTraced
  <1> QED BY <1>t, <1>1, <1>2, <1>3, StartView

\* The steps of a driver between two checkpoints.
LEMMA WorkSolo ==
  ASSUME Solo, NEW d \in Drivers, Moves(d) \/ Works(d)
  PROVE  Alone' /\ InSync' /\ NoStrayCost' /\ CostIsTraced'
  <1> DEFINE x == dr[d]
             y == dr'[d]
             r == x.run
  <1>t. TypeOK /\ Alone /\ InSync /\ NoStrayCost /\ CostIsTraced
    BY DEF Solo, LifecycleInv
  <1>1. UNCHANGED <<runs, trace>> /\ Put(d, y) /\ y.run = r /\ Active(x) /\ x.pc # "raised"
    BY <1>t, MoveView, WorkView DEF Moved, Worked, Active, Gating
  <1>2. r \in DOMAIN runs /\ r \in RunIds /\ x \in Driver /\ trace[r] \in Batch
    BY <1>t, <1>1 DEF TypeOK, StoreTypeOK, DriverTypeOK, Active
  <1>3. x.mem.cost \in Nat /\ x.buf.cost \in Nat /\ trace[r].cost \in Nat
    BY <1>2 DEF Driver, RunState, Batch
  <1>4. Synced(x, runs[r].st, trace[r].cost, effects)
    BY <1>t, <1>1 DEF InSync, Active
  <1>5. \A e \in Drivers : e # d /\ dr[e].pc # "idle" => dr[e].run # r
    BY <1>1, DriverAlone DEF Active
  <1>6. CASE Moves(d)
    <2>1. Moved(x, y) /\ UNCHANGED effects
      BY <1>t, <1>6, MoveView
    <2>2. /\ y.mem.cost = x.mem.cost /\ y.buf.cost = x.buf.cost /\ y.mem.cursor = x.mem.cursor
          /\ y.pc \notin {"idle", "resolving"}
          /\ y.pc = "commit" => NodeType[y.step] # "tool"
      BY <2>1 DEF Moved, SameCopy, Gating
    <2>3. (y.pc \in Gating /\ NodeType[y.step] = "tool" /\ SideEffect[y.step]) =>
              ~Found(effects', <<y.run, y.step>>)
      <3>1. CASE x.pc \in Gating
        <4>1. y.pc \in Gating => y.step = x.step
          BY <2>1 DEF Moved, Gating
        <4> QED BY <1>1, <1>4, <2>1, <3>1, <4>1 DEF Synced
      <3>2. CASE x.pc \notin Gating
        BY <2>1, <3>2 DEF Moved, HasEffect, Found
      <3> QED BY <3>1, <3>2
    <2> HIDE DEF y
    <2>4. Synced(y, runs'[r].st, trace'[r].cost, effects')
      BY <1>1, <1>4, <2>2, <2>3 DEF Synced, Active
    <2>5. Alone' /\ InSync'
      BY <1>1, <1>5, <2>1, <2>4, NothingTouched, OthersInSync
    <2> QED BY <1>t, <1>1, <2>5 DEF NoStrayCost, CostIsTraced
  <1>7. CASE Works(d)
    <2>1. /\ Worked(x, y)
          /\ UNCHANGED effects \/ RecordEffect(<<r, x.step>>, x.out)
      BY <1>t, <1>7, WorkView DEF Key
    <2>2. PICK c \in Nat : y.mem.cost = x.mem.cost + c /\ y.buf.cost = x.buf.cost + c
      BY <2>1 DEF Worked
    <2>3. /\ y.mem.cursor = x.mem.cursor /\ y.step = x.step
          /\ y.pc \notin {"idle", "resolving", "raised"} \cup Gating
      BY <2>1 DEF Worked, SameProgress, Gating
    <2>4. \A q \in DOMAIN runs : q # r => Untouched(q)
      <3>1. CASE UNCHANGED effects
        BY <1>1, <3>1, NothingTouched
      <3>2. CASE RecordEffect(<<r, x.step>>, x.out)
        <4>1. /\ Includes(effects, effects') /\ DOMAIN effects' = DOMAIN effects \cup {<<r, x.step>>}
          BY <3>2, LedgerIncludes
        <4>2. \A q, s : q # r => <<q, s>> # <<r, x.step>>
          OBVIOUS
        <4> QED BY <1>1, <4>1, <4>2 DEF Includes, Untouched
      <3> QED BY <2>1, <3>1, <3>2
    <2>5. (y.pc = "commit" /\ NodeType[y.step] = "tool" /\ SideEffect[y.step]) =>
              <<y.run, y.step>> \in DOMAIN effects'
      BY <1>1, <2>1, <2>3 DEF Worked, Ledgered
    <2>6. y.mem.cost = trace'[r].cost + y.buf.cost
      BY <1>1, <1>3, <1>4, <2>2 DEF Synced, Active
    <2> HIDE DEF y
    <2>7. Synced(y, runs'[r].st, trace'[r].cost, effects')
      BY <1>1, <1>4, <2>3, <2>5, <2>6 DEF Synced, Active
    <2>8. Alone' /\ InSync'
      BY <1>1, <1>5, <2>4, <2>7, OthersInSync
    <2> QED BY <1>t, <1>1, <2>8 DEF NoStrayCost, CostIsTraced
  <1> QED BY <1>6, <1>7

\* The checkpoints: the run's cost and its events' cost meet again.
LEMMA SaveSolo ==
  ASSUME Solo, NEW d \in Drivers, Saves(d)
  PROVE  Alone' /\ InSync' /\ NoStrayCost' /\ CostIsTraced'
  <1> DEFINE x == dr[d]
             y == dr'[d]
             r == x.run
  <1>t. TypeOK /\ Alone /\ InSync /\ NoStrayCost /\ CostIsTraced /\ OnTrack(approvals, x)
    BY DEF Solo, LifecycleInv, DriversOnTrack
  <1>1. /\ Put(d, y) /\ r \in DOMAIN runs
        /\ \E st \in RunState : Saved(x, y, st) /\ Checkpoint(r, st, x.buf)
    BY <1>t, SaveView
  <1>2. PICK st \in RunState : Saved(x, y, st) /\ Checkpoint(r, st, x.buf)
    BY <1>1
  <1>3. /\ DOMAIN runs' = DOMAIN runs /\ runs'[r].st = st
        /\ \A q \in DOMAIN runs : q # r => runs'[q] = runs[q]
        /\ trace'[r].cost = trace[r].cost + x.buf.cost
        /\ \A q \in RunIds : q # r => trace'[q] = trace[q]
        /\ UNCHANGED effects
    BY <1>t, <1>1, <1>2, CheckpointView
  <1>4. Active(x) /\ x.pc # "raised"
    BY <1>2 DEF Saved, Active
  <1>5. Synced(x, runs[r].st, trace[r].cost, effects)
    BY <1>t, <1>4 DEF InSync, Active
  <1>6. trace'[r].cost = st.cost /\ st.cost \in Nat /\ NoEvents.cost = 0
    BY <1>2, <1>3, <1>4, <1>5 DEF Synced, Saved, Active, RunState, NoEvents
  <1>7. \A q \in DOMAIN runs : q # r => Untouched(q)
    BY <1>t, <1>3 DEF TypeOK, StoreTypeOK, Untouched
  <1>8. \A e \in Drivers : e # d /\ dr[e].pc # "idle" => dr[e].run # r
    BY <1>4, DriverAlone DEF Active
  <1>9. y.pc # "idle" => y.run = r /\ Synced(y, runs'[r].st, trace'[r].cost, effects')
    <2>1. CASE x.pc \in {"loop", "fail"}
      <3>1. y.pc = "raised" /\ y.run = r
        BY <1>2, <2>1 DEF Saved
      <3> HIDE DEF y
      <3> QED BY <3>1 DEF Synced, Gating, Active
    <2>2. CASE x.pc = "commit"
      <3>1. \/ y = Idle
            \/ /\ st.cursor \in Steps /\ st.status = x.mem.status
               /\ y.pc = "loop" /\ y.run = r /\ y.mem = st /\ y.buf = NoEvents
        BY <1>2, <2>2, StepAssumption DEF Saved
      <3>2. x.mem.status = "running"
        BY <1>t, <2>2 DEF OnTrack, Active
      <3> HIDE DEF y
      <3>3. CASE y = Idle
        BY <3>3, IdleBacked
      <3> QED BY <1>3, <1>6, <3>1, <3>2, <3>3 DEF Synced, Gating, Active, Terminal
    <2>3. CASE x.pc = "pause"
      <3>1. \/ y = Idle
            \/ /\ st.status = "waiting_approval"
               /\ y.pc = "fail" /\ y.run = r /\ y.mem = st /\ y.buf = NoEvents
        BY <1>2, <2>3 DEF Saved
      <3> HIDE DEF y
      <3>3. CASE y = Idle
        BY <3>3, IdleBacked
      <3> QED BY <1>3, <1>6, <3>1, <3>3 DEF Synced, Gating, Active, Terminal
    <2> QED BY <1>2, <2>1, <2>2, <2>3 DEF Saved
  <1> HIDE DEF y
  <1>10. Alone' /\ InSync'
    BY <1>1, <1>7, <1>8, <1>9, OthersInSync
  <1>11. r \in RunIds /\ DOMAIN runs \subseteq RunIds
    BY <1>t, <1>1 DEF TypeOK, StoreTypeOK
  <1>12. NoStrayCost' /\ CostIsTraced'
    BY <1>t, <1>1, <1>3, <1>6, <1>11 DEF NoStrayCost, CostIsTraced
  <1> QED BY <1>10, <1>12

\* Crashes, returns, cancels, purges and late calls.
LEMMA OtherSolo ==
  ASSUME MaxOverlaps = 0, Solo,
         \/ \E d \in Drivers : Crash(d) \/ Return(d)
         \/ \E r \in RunIds : Cancel(r)
         \/ \E t, old : Purge(t, old)
         \/ \E c \in inflight : Land(c)
         \/ UNCHANGED vars
  PROVE  Alone' /\ InSync' /\ NoStrayCost' /\ CostIsTraced'
  <1>t. /\ TypeOK /\ Alone /\ InSync /\ NoStrayCost /\ CostIsTraced
        /\ DOMAIN runs \subseteq RunIds
        /\ \A e \in Drivers : dr[e].pc # "idle" => dr[e].run \in DOMAIN runs
    BY DEF Solo, LifecycleInv, TypeOK, StoreTypeOK, DriverTypeOK
  <1>1. ASSUME NEW d \in Drivers, Crash(d) \/ Return(d)
        PROVE  Alone' /\ InSync' /\ NoStrayCost' /\ CostIsTraced'
    <2>1. Put(d, Idle) /\ UNCHANGED <<runs, trace, effects>>
      BY <1>1, StopView DEF storeVars
    <2>2. dr[d].pc # "idle"
      BY <1>1 DEF Crash, Return
    <2>3. \A q \in DOMAIN runs : q # dr[d].run => Untouched(q)
      BY <2>1, NothingTouched
    <2>4. \A e \in Drivers : e # d /\ dr[e].pc # "idle" => dr[e].run # dr[d].run
      BY <2>2, DriverAlone
    <2> DEFINE y == Idle
    <2>5. Put(d, y) /\ y.pc = "idle"
      BY <2>1, IdleBacked
    <2> HIDE DEF y
    <2>6. Alone' /\ InSync'
      BY <2>3, <2>4, <2>5, OthersInSync
    <2> QED BY <1>t, <2>1, <2>6 DEF NoStrayCost, CostIsTraced
  <1>2. ASSUME NEW r \in RunIds, Cancel(r)
        PROVE  Alone' /\ InSync' /\ NoStrayCost' /\ CostIsTraced'
    <2>1. /\ Claim(r) /\ DOMAIN runs' = DOMAIN runs /\ \A q \in DOMAIN runs : q # r => runs'[q] = runs[q]
          /\ \A q \in DOMAIN runs : runs'[q].st.cost = runs[q].st.cost
          /\ UNCHANGED <<trace, effects, dr>>
      BY <1>t, <1>2, CancelView
    <2>2. \A e \in Drivers : dr[e].pc # "idle" => Untouched(dr[e].run)
      BY <1>t, <2>1, ClaimAlone DEF Untouched
    <2>3. Alone' /\ InSync'
      BY <2>1, <2>2, SameInSync
    <2> QED BY <1>t, <2>1, <2>3 DEF NoStrayCost, CostIsTraced
  <1>3. ASSUME NEW t, NEW old, Purge(t, old)
        PROVE  Alone' /\ InSync' /\ NoStrayCost' /\ CostIsTraced'
    <2>1. /\ \A r \in RunIds : trace'[r].cost = trace[r].cost
          /\ UNCHANGED <<runs, effects, dr>>
      BY <1>t, <1>3, PurgeView
    <2>2. \A e \in Drivers : dr[e].pc # "idle" => Untouched(dr[e].run)
      BY <1>t, <2>1 DEF Untouched
    <2>3. Alone' /\ InSync'
      BY <2>1, <2>2, SameInSync
    <2> QED BY <1>t, <2>1, <2>3 DEF NoStrayCost, CostIsTraced
  <1>4. CASE (\E c \in inflight : Land(c)) \/ UNCHANGED vars
    <2>1. UNCHANGED <<runs, trace, effects, dr>>
      BY <1>4 DEF Land, storeVars, vars
    <2>2. Alone' /\ InSync'
      BY <2>1, NothingTouched, SameInSync
    <2> QED BY <1>t, <2>1, <2>2 DEF NoStrayCost, CostIsTraced
  <1> QED BY <1>1, <1>2, <1>3, <1>4

\* One driver per run is an invariant, and what it gives.
LEMMA SoloStep ==
  ASSUME MaxOverlaps = 0
  PROVE  (Init => Solo) /\ (Solo /\ [Next]_vars => Solo')
  <1>1. ASSUME Init PROVE Solo
    <2>1. /\ DOMAIN runs = {} /\ dr = [d \in Drivers |-> Idle]
          /\ trace = [r \in RunIds |-> NoEvents]
      BY <1>1 DEF Init, StoreInit
    <2>2. \A d \in Drivers : dr[d].pc = "idle"
      BY <2>1, IdleBacked
    <2>3. Alone /\ InSync /\ NoStrayCost /\ CostIsTraced
      BY <2>1, <2>2 DEF Alone, InSync, NoStrayCost, CostIsTraced, NoEvents
    <2> QED BY <1>1, <2>3, ExactlyOnceStep, LifecycleStep DEF Solo
  <1>2. ASSUME Solo, [Next]_vars PROVE Solo'
    <2>1. ExactlyOnce' /\ LifecycleInv'
      BY <1>2, ExactlyOnceStep, LifecycleStep DEF Solo
    <2>2. Alone' /\ InSync' /\ NoStrayCost' /\ CostIsTraced'
      BY <1>2, NextKinds, RequestSolo, WorkSolo, SaveSolo, OtherSolo
    <2> QED BY <2>1, <2>2 DEF Solo
  <1> QED BY <1>1, <1>2

-----------------------------------------------------------------------------
(* What follows.                                                           *)

\* Cost is rolled up: with one driver per run the stored total is the sum of
\* the stored events' cost, whatever crashes, pauses and retries there are
\* (store.py checkpoint, workflow.py _drive).
THEOREM StoredCostIsTraced ==
  ASSUME MaxOverlaps = 0
  PROVE  Spec => []CostIsTraced
  <1>1. Solo => CostIsTraced
    BY DEF Solo
  <1> QED BY <1>1, SoloStep, PTL DEF Spec

\* Once recorded, a side effect is replayed and not executed again, unless
\* what was recorded is null (workflow.py _run_tool, store.py get_effect).
THEOREM RecordedEffectsAreReplayed ==
  ASSUME MaxOverlaps = 0
  PROVE  Spec => []RecordedIsNotExecuted
  <1>1. Solo => RecordedIsNotExecuted
    <2> SUFFICES ASSUME Solo, NEW d \in Drivers, dr[d].pc = "execute", SideEffect[At(d)],
                        Key(d) \in DOMAIN effects
                 PROVE  effects[Key(d)] = Null
      BY DEF RecordedIsNotExecuted
    <2>1. NodeType[dr[d].step] = "tool"
      BY DEF Solo, ExactlyOnce, DriversBacked, DriverBacked
    <2>2. Synced(dr[d], runs[dr[d].run].st, trace[dr[d].run].cost, effects)
      BY DEF Solo, InSync
    <2> QED BY <2>1, <2>2 DEF Synced, Gating, Found, At, Key
  <1> QED BY <1>1, SoloStep, PTL DEF Spec

\* What a step changes in the rows: a checkpoint of the driver of a run that
\* has not ended, a new row, or a cancelled run that had not ended.
LEMMA RowChanges ==
  ASSUME Solo, [Next]_vars, NEW r \in DOMAIN runs, runs'[r].st # runs[r].st
  PROVE  /\ runs[r].st.status \notin Terminal
         /\ \/ runs'[r].st.cursor = runs[r].st.cursor
            \/ runs'[r].st.cursor = Successor(runs[r].st.cursor, runs'[r].st.ctx)
  <1>t. TypeOK
    BY DEF Solo, LifecycleInv
  <1>1. ASSUME NEW d \in Drivers, Request(d) PROVE FALSE
    BY <1>t, <1>1, StartView, FireView DEF storeVars
  <1>2. ASSUME NEW d \in Drivers, Moves(d) \/ Works(d) PROVE FALSE
    BY <1>t, <1>2, MoveView, WorkView
  <1>3. ASSUME NEW d \in Drivers, Saves(d)
        PROVE  /\ runs[r].st.status \notin Terminal
               /\ \/ runs'[r].st.cursor = runs[r].st.cursor
                  \/ runs'[r].st.cursor = Successor(runs[r].st.cursor, runs'[r].st.ctx)
    <2> DEFINE x == dr[d]
    <2>1. /\ x.run \in DOMAIN runs
          /\ \E st \in RunState : Saved(x, dr'[d], st) /\ Checkpoint(x.run, st, x.buf)
      BY <1>t, <1>3, SaveView
    <2>2. PICK st \in RunState : Saved(x, dr'[d], st) /\ Checkpoint(x.run, st, x.buf)
      BY <2>1
    <2>3. /\ runs'[x.run].st = st
          /\ \A q \in DOMAIN runs : q # x.run => runs'[q] = runs[q]
      BY <1>t, <2>1, <2>2, CheckpointView
    <2>4. x.run = r
      BY <2>3
    <2>5. Active(x) /\ x.pc # "raised"
      BY <2>2 DEF Saved, Active
    <2>6. Synced(x, runs[r].st, trace[r].cost, effects) /\ OnTrack(approvals, x)
      BY <2>4, <2>5 DEF Solo, InSync, LifecycleInv, DriversOnTrack, Active
    <2>7. runs[r].st.status \notin Terminal /\ runs[r].st.cursor = x.mem.cursor
      BY <2>5, <2>6 DEF Synced
    <2>8. x.pc = "commit" => x.step = x.mem.cursor
      BY <2>5, <2>6 DEF OnTrack
    <2> QED BY <2>2, <2>3, <2>4, <2>7, <2>8 DEF Saved
  <1>4. ASSUME NEW q \in RunIds, Cancel(q)
        PROVE  runs[r].st.status \notin Terminal /\ runs'[r].st.cursor = runs[r].st.cursor
    BY <1>t, <1>4, CancelView
  <1>5. CASE \/ \E d \in Drivers : Crash(d) \/ Return(d)
             \/ \E t, old : Purge(t, old)
             \/ \E c \in inflight : Land(c)
             \/ UNCHANGED vars
    BY <1>t, <1>5, StopView, PurgeView DEF storeVars, Land, vars
  <1> QED BY <1>1, <1>2, <1>3, <1>4, <1>5, NextKinds

\* A run that has ended is never written again: no late checkpoint, resume or
\* cancel changes its row (workflow.py resume, store.py cancel_run).
THEOREM EndedRunsStay ==
  ASSUME MaxOverlaps = 0
  PROVE  Spec => TerminalIsFinal
  <1>1. Solo /\ [Next]_vars =>
            [\A r \in DOMAIN runs : runs[r].st.status \in Terminal => runs'[r].st = runs[r].st]_vars
    BY RowChanges
  <1> QED BY <1>1, SoloStep, PTL DEF Spec, TerminalIsFinal

\* The durable cursor moves only from a step to the successor its stored
\* context selects; no crash, retry or compensation skips or repeats a
\* committed step (workflow.py _drive).
THEOREM CursorStaysOnGraph ==
  ASSUME MaxOverlaps = 0
  PROVE  Spec => CursorFollowsGraph
  <1>1. Solo /\ [Next]_vars =>
            [\A r \in DOMAIN runs : runs'[r].st.cursor # runs[r].st.cursor =>
                runs'[r].st.cursor = Successor(runs[r].st.cursor, runs'[r].st.ctx)]_vars
    BY RowChanges
  <1> QED BY <1>1, SoloStep, PTL DEF Spec, CursorFollowsGraph

-----------------------------------------------------------------------------
(* The saga.  A workflow whose compensating steps are reached through      *)
(* compensate_with only: none is wf.start, a step's next or a branch's arm *)
(* (as in every workflow of the repository that has one).  There a driver  *)
(* at a compensating step is one whose run is going to fail, and as long   *)
(* as no process dies it gets there.                                       *)

\* Driver x is in _compensate for run r.
Compensating(x, r) == Active(x) /\ x.pc # "raised" /\ x.run = r /\ x.comp

\* The run is not going to succeed.
Lost(r) == \/ runs[r].st.status \in {"failed", "canceled"}
           \/ \E d \in Drivers : Compensating(dr[d], r)

\* Step s of run r has posted, or has left a call behind.
Touched(r, s) == Holds(<<r, s>>) \/ \E c \in inflight : c[1] = <<r, s>>

CursorsOnPath == \A r \in DOMAIN runs : ~Compensates(runs[r].st.cursor)
CompensatedIsLost ==
    crashes = 0 =>
        \A r \in DOMAIN runs, s \in Steps : Compensates(s) /\ Touched(r, s) => Lost(r)

\* The inductive invariant of the saga.
Saga == Solo /\ Dedup /\ CursorsOnPath /\ CompensatedIsLost

\* Nothing is touched but by a driver at the step.
LEMMA TouchedStays ==
  ASSUME UNCHANGED <<posted, inflight>>, NEW r, NEW s, Touched(r, s)'
  PROVE  Touched(r, s)
  BY DEF Touched, Holds

\* A driver at a compensating step compensates.
LEMMA CompensationIsMarked ==
  ASSUME Saga, NEW d \in Drivers, Active(dr[d]), dr[d].pc # "raised", Compensates(dr[d].step)
  PROVE  Compensating(dr[d], dr[d].run)
  <1>1. dr[d].run \in DOMAIN runs
    BY DEF Saga, Solo, LifecycleInv, TypeOK, DriverTypeOK, Active
  <1>2. /\ OnTrack(approvals, dr[d])
        /\ Synced(dr[d], runs[dr[d].run].st, trace[dr[d].run].cost, effects)
    BY DEF Saga, Solo, LifecycleInv, DriversOnTrack, InSync, Active
  <1>3. runs[dr[d].run].st.cursor = dr[d].mem.cursor
    BY <1>2 DEF Synced
  <1>4. ~Compensates(dr[d].mem.cursor)
    BY <1>1, <1>3 DEF Saga, CursorsOnPath
  <1>5. dr[d].comp
    BY <1>2, <1>4 DEF OnTrack
  <1> QED BY <1>5 DEF Compensating

\* _compensate swallows what would escape, and gets to the failure of the run.
LEMMA CompensationGoesOn ==
  ASSUME TypeOK, NEW d \in Drivers, Moves(d) \/ Works(d), dr[d].comp
  PROVE  Compensating(dr'[d], dr[d].run)
  <1>1. CASE Moves(d)
    BY <1>1, MoveView DEF Moved, Compensating, Active, Gating
  <1>2. CASE Works(d)
    BY <1>2, WorkView DEF Worked, Compensating, Active
  <1> QED BY <1>1, <1>2

\* A run that is lost stays lost unless its row is written or its driver acts.
LEMMA LostStays ==
  ASSUME NEW r, Lost(r), runs'[r].st.status = runs[r].st.status,
         \A d \in Drivers : Compensating(dr[d], r) => Compensating(dr'[d], r)
  PROVE  Lost(r)'
  BY DEF Lost

\* Requests.
LEMMA RequestSaga ==
  ASSUME CompensationOffPath, Saga, NEW d \in Drivers, Request(d)
  PROVE  CursorsOnPath' /\ CompensatedIsLost'
  <1>t. TypeOK /\ CursorsOnPath /\ CompensatedIsLost /\ PostingsKnown /\ CallsKnown
    BY DEF Saga, Dedup
  <1>1. dr[d].pc \in {"idle", "resolving"} /\ UNCHANGED <<posted, inflight, crashes>>
    BY <1>t, StartView, FireView
  <1>2. \A e \in Drivers : \A r : Compensating(dr[e], r) => dr'[e] = dr[e]
    <2>1. \E y : Put(d, y)
      BY <1>t, StartView, FireView
    <2>2. \A e \in Drivers : e # d => dr'[e] = dr[e]
      BY <1>t, <2>1, PutView
    <2> QED BY <1>1, <2>2 DEF Compensating, Active
  <1>3. CASE \E t \in Tenants, k \in Keys, r \in RunIds : Fire(d, t, k, r)
    <2>0. PICK t \in Tenants, k \in Keys, r \in RunIds : Fire(d, t, k, r)
      BY <1>3
    <2>1. /\ r \notin DOMAIN runs /\ DOMAIN runs' = DOMAIN runs \cup {r} /\ runs'[r].st = NewRun
          /\ \A q \in DOMAIN runs : runs'[q] = runs[q]
      <3>1. TypeOK
        BY <1>t
      <3> QED BY <2>0, <3>1, FireView
    <2>2. NewRun.cursor = Start /\ Start \in Steps
      BY WorkflowAssumption DEF NewRun
    <2>3. CursorsOnPath'
      BY <1>t, <2>1, <2>2 DEF CursorsOnPath, CompensationOffPath
    <2>4. ASSUME NEW s \in Steps PROVE ~Touched(r, s)
      BY <1>t, <2>0, <2>1 DEF Touched, PostingsKnown, CallsKnown, EffectKeys
    <2>5. ASSUME crashes' = 0, NEW q \in DOMAIN runs', NEW s \in Steps, Compensates(s), Touched(q, s)'
          PROVE  Lost(q)'
      <3>1. Touched(q, s)
        BY <1>1, <2>5, TouchedStays
      <3>2. q \in DOMAIN runs
        BY <2>1, <2>4, <2>5, <3>1
      <3>3. Lost(q) /\ runs'[q] = runs[q]
        BY <1>t, <1>1, <2>1, <2>5, <3>1, <3>2 DEF CompensatedIsLost
      <3> QED BY <1>2, <3>3, LostStays
    <2>6. CompensatedIsLost'
      BY <2>5 DEF CompensatedIsLost
    <2> QED BY <2>3, <2>6
  <1>4. CASE UNCHANGED runs
    <2>1. ASSUME crashes' = 0, NEW q \in DOMAIN runs', NEW s \in Steps, Compensates(s), Touched(q, s)'
          PROVE  Lost(q)'
      <3>1. Touched(q, s)
        BY <1>1, <2>1, TouchedStays
      <3>2. Lost(q)
        BY <1>t, <1>1, <1>4, <2>1, <3>1 DEF CompensatedIsLost
      <3> QED BY <1>2, <1>4, <3>2, LostStays
    <2>2. CompensatedIsLost'
      BY <2>1 DEF CompensatedIsLost
    <2> QED BY <1>t, <1>4, <2>2 DEF CursorsOnPath
  <1> QED BY <1>t, <1>3, <1>4, StartView DEF storeVars

\* Between two checkpoints.
LEMMA WorkSaga ==
  ASSUME Saga, NEW d \in Drivers, Moves(d) \/ Works(d)
  PROVE  CursorsOnPath' /\ CompensatedIsLost'
  <1> DEFINE r == dr[d].run
  <1>t. TypeOK /\ CursorsOnPath /\ CompensatedIsLost /\ crashes \in Nat
    BY DEF Saga, Dedup, TypeOK, EnvTypeOK
  <1>1. /\ UNCHANGED runs /\ Put(d, dr'[d]) /\ Active(dr[d]) /\ dr[d].pc # "raised"
    BY <1>t, MoveView, WorkView DEF Moved, Worked, Active, Gating
  <1>2. /\ \A k \in EffectKeys : k # <<r, dr[d].step>> => posted'[k] = posted[k]
        /\ \A c \in inflight' : c \in inflight \/ c[1] = <<r, dr[d].step>>
    BY <1>t, PostsUnderItsKey DEF Key
  <1>3. UNCHANGED crashes
    BY DEF Moves, Works, EnterStep, Escape, TurnsUsedUp, RunBranch, RunApproval, GateTool,
           CheckApproval, RefuseCall, ExecuteFail, FailCall, RequestApproval, AskApproval,
           AnswerApproval, ModelAnswers, ModelCalls, ExecuteCall, ExecuteOk, RecordTool,
           ReplayTool, envVars
  <1>4. \A e \in Drivers : \A q : Compensating(dr[e], q) => Compensating(dr'[e], q)
    <2>1. \A e \in Drivers : e # d => dr'[e] = dr[e]
      BY <1>t, <1>1, PutView
    <2>2. \A q : Compensating(dr[d], q) => Compensating(dr'[d], q)
      BY <1>t, CompensationGoesOn DEF Compensating
    <2> QED BY <2>1, <2>2
  <1>5. ASSUME crashes' = 0, NEW q \in DOMAIN runs', NEW s \in Steps, Compensates(s), Touched(q, s)'
        PROVE  Lost(q)'
    <2>1. CASE q = r /\ s = dr[d].step
      <3>1. Compensating(dr[d], r)
        BY <1>1, <1>5, <2>1, CompensationIsMarked
      <3> QED BY <1>4, <2>1, <3>1 DEF Lost
    <2>2. CASE ~(q = r /\ s = dr[d].step)
      <3>1. <<q, s>> # <<r, dr[d].step>> /\ <<q, s>> \in EffectKeys
        BY <1>t, <1>1, <1>5, <2>2 DEF TypeOK, StoreTypeOK, EffectKeys
      <3>2. Touched(q, s)
        BY <1>2, <1>5, <3>1 DEF Touched, Holds
      <3>3. Lost(q)
        BY <1>t, <1>1, <1>3, <1>5, <3>2 DEF CompensatedIsLost
      <3> QED BY <1>1, <1>4, <3>3, LostStays
    <2> QED BY <2>1, <2>2
  <1>6. CompensatedIsLost'
    BY <1>5 DEF CompensatedIsLost
  <1> QED BY <1>t, <1>1, <1>6 DEF CursorsOnPath

\* Checkpoints: a driver that compensates commits nothing, it fails its run.
LEMMA SaveSaga ==
  ASSUME CompensationOffPath, Saga, NEW d \in Drivers, Saves(d)
  PROVE  CursorsOnPath' /\ CompensatedIsLost'
  <1> DEFINE x == dr[d]
             r == x.run
  <1>t. TypeOK /\ Solo /\ CursorsOnPath /\ CompensatedIsLost
    BY DEF Saga, Dedup
  <1>1. /\ Put(d, dr'[d]) /\ r \in DOMAIN runs /\ UNCHANGED <<posted, inflight, crashes>>
        /\ \E st \in RunState : Saved(x, dr'[d], st) /\ Checkpoint(r, st, x.buf)
    BY <1>t, SaveView DEF envVars
  <1>2. PICK st \in RunState : Saved(x, dr'[d], st) /\ Checkpoint(r, st, x.buf)
    BY <1>1
  <1>3. /\ DOMAIN runs' = DOMAIN runs /\ runs'[r].st = st
        /\ \A q \in DOMAIN runs : q # r => runs'[q] = runs[q]
    BY <1>t, <1>1, <1>2, CheckpointView
  <1>4. Active(x) /\ x.pc # "raised"
    BY <1>2 DEF Saved, Active
  <1>5. x.step \in Steps /\ x.mem.ctx \in Context
    BY <1>t, <1>4, ActiveType DEF At, Mem, RunState
  <1>6. Synced(x, runs[r].st, trace[r].cost, effects) /\ OnTrack(approvals, x)
    BY <1>t, <1>4 DEF Solo, InSync, LifecycleInv, DriversOnTrack, Active
  <1>7. CursorsOnPath'
    <2>1. ~Compensates(st.cursor)
      <3>1. CASE st.cursor = x.mem.cursor
        BY <1>t, <1>1, <1>4, <1>6, <3>1 DEF Synced, CursorsOnPath
      <3>2. CASE st.cursor = Successor(x.step, x.mem.ctx)
        BY <1>5, <3>2 DEF CompensationOffPath, Compensates
      <3> QED BY <1>2, <3>1, <3>2 DEF Saved
    <2> QED BY <1>t, <1>1, <1>3, <2>1 DEF CursorsOnPath
  <1>8. \A e \in Drivers : e # d => dr'[e] = dr[e]
    BY <1>t, <1>1, PutView
  <1>9. \A e \in Drivers : e # d /\ dr[e].pc # "idle" => dr[e].run # r
    BY <1>t, <1>4, DriverAlone DEF Active
  <1>10. ASSUME NEW q, q = r, Lost(q) PROVE Lost(q)'
    <2>1. runs[q].st.status \notin {"failed", "canceled"}
      BY <1>4, <1>6, <1>10 DEF Synced, Terminal
    <2>2. PICK e \in Drivers : Compensating(dr[e], q)
      BY <1>10, <2>1 DEF Lost
    <2>3. x.comp /\ x.pc \notin {"loop", "commit"}
      BY <1>6, <1>9, <1>10, <2>2 DEF Compensating, Active, OnTrack
    <2>4. CASE x.pc = "fail"
      BY <1>2, <1>3, <1>10, <2>4 DEF Saved, Lost
    <2>5. CASE x.pc = "pause"
      <3>1. Compensating(dr'[d], q)
        BY <1>2, <1>10, <2>3, <2>5 DEF Saved, Compensating, Active
      <3> QED BY <3>1 DEF Lost
    <2> QED BY <1>2, <2>3, <2>4, <2>5 DEF Saved
  <1>11. ASSUME crashes' = 0, NEW q \in DOMAIN runs', NEW s \in Steps, Compensates(s), Touched(q, s)'
         PROVE  Lost(q)'
    <2>1. Touched(q, s)
      BY <1>1, <1>11, TouchedStays
    <2>2. Lost(q)
      BY <1>t, <1>1, <1>3, <1>11, <2>1 DEF CompensatedIsLost
    <2>3. CASE q # r
      <3>1. runs'[q].st.status = runs[q].st.status
        BY <1>3, <1>11, <2>3
      <3>2. \A e \in Drivers : Compensating(dr[e], q) => Compensating(dr'[e], q)
        BY <1>8, <2>3 DEF Compensating
      <3> QED BY <2>2, <3>1, <3>2, LostStays
    <2> QED BY <1>10, <2>2, <2>3
  <1>12. CompensatedIsLost'
    BY <1>11 DEF CompensatedIsLost
  <1> QED BY <1>7, <1>12

\* Crashes, returns, cancels, purges and late calls.
LEMMA OtherSaga ==
  ASSUME Saga,
         \/ \E d \in Drivers : Crash(d) \/ Return(d)
         \/ \E r \in RunIds : Cancel(r)
         \/ \E t, old : Purge(t, old)
         \/ \E c \in inflight : Land(c)
         \/ UNCHANGED vars
  PROVE  CursorsOnPath' /\ CompensatedIsLost'
  <1>t. /\ TypeOK /\ CursorsOnPath /\ CompensatedIsLost /\ crashes \in Nat
        /\ DOMAIN runs \subseteq RunIds
    BY DEF Saga, Dedup, TypeOK, StoreTypeOK, EnvTypeOK
  <1>1. ASSUME NEW d \in Drivers, Crash(d)
        PROVE  CursorsOnPath' /\ CompensatedIsLost'
    <2>1. UNCHANGED runs /\ crashes' = crashes + 1
      BY <1>1 DEF Crash, storeVars
    <2> QED BY <1>t, <2>1 DEF CursorsOnPath, CompensatedIsLost
  <1>2. ASSUME DOMAIN runs' = DOMAIN runs,
               \A q \in DOMAIN runs : /\ runs'[q].st.cursor = runs[q].st.cursor
                                      /\ \/ runs'[q].st.status = runs[q].st.status
                                         \/ runs'[q].st.status = "canceled",
               \A e \in Drivers : \A q : Compensating(dr[e], q) => dr'[e] = dr[e],
               UNCHANGED crashes,
               \A q \in RunIds, s \in Steps : Touched(q, s)' => Touched(q, s)
        PROVE  CursorsOnPath' /\ CompensatedIsLost'
    <2>1. CursorsOnPath'
      BY <1>t, <1>2 DEF CursorsOnPath
    <2>2. ASSUME crashes' = 0, NEW q \in DOMAIN runs', NEW s \in Steps, Compensates(s),
                 Touched(q, s)'
          PROVE  Lost(q)'
      <3>1. Lost(q)
        BY <1>t, <1>2, <2>2 DEF CompensatedIsLost
      <3>2. CASE runs'[q].st.status = "canceled"
        BY <3>2 DEF Lost
      <3>3. CASE runs'[q].st.status = runs[q].st.status
        BY <1>2, <3>1, <3>3, LostStays
      <3> QED BY <1>2, <2>2, <3>2, <3>3
    <2>3. CompensatedIsLost'
      BY <2>2 DEF CompensatedIsLost
    <2> QED BY <2>1, <2>3
  <1>3. ASSUME NEW d \in Drivers, Return(d)
        PROVE  CursorsOnPath' /\ CompensatedIsLost'
    <2>1. Put(d, Idle) /\ UNCHANGED <<runs, posted, inflight, crashes>> /\ dr[d].pc = "raised"
      BY <1>3 DEF Return, storeVars, envVars
    <2>2. \A e \in Drivers : \A q : Compensating(dr[e], q) => dr'[e] = dr[e]
      BY <1>t, <2>1, PutView DEF Compensating
    <2> QED BY <1>2, <2>1, <2>2, TouchedStays
  <1>4. ASSUME NEW r \in RunIds, Cancel(r)
        PROVE  CursorsOnPath' /\ CompensatedIsLost'
    <2>1. /\ DOMAIN runs' = DOMAIN runs /\ \A q \in DOMAIN runs : q # r => runs'[q] = runs[q]
          /\ runs'[r].st.status = "canceled" /\ runs'[r].st.cursor = runs[r].st.cursor
          /\ UNCHANGED <<dr, posted, inflight, crashes>>
      BY <1>t, <1>4, CancelView
    <2> QED BY <1>2, <2>1, TouchedStays
  <1>5. ASSUME NEW t, NEW old, Purge(t, old)
        PROVE  CursorsOnPath' /\ CompensatedIsLost'
    <2>1. UNCHANGED <<runs, dr, posted, inflight, crashes>>
      BY <1>t, <1>5, PurgeView
    <2> QED BY <1>2, <2>1, TouchedStays
  <1>6. ASSUME NEW c \in inflight, Land(c)
        PROVE  CursorsOnPath' /\ CompensatedIsLost'
    <2>1. /\ UNCHANGED <<runs, dr, crashes>> /\ inflight' \subseteq inflight
          /\ \E v : Post(c[1], c[2], v)
      BY <1>6 DEF Land, storeVars
    <2>2. c[1] \in EffectKeys
      BY <1>t DEF TypeOK, EnvTypeOK
    <2>3. \A k \in EffectKeys : k # c[1] => posted'[k] = posted[k]
      BY <1>t, <2>1, <2>2, PostsOnce
    <2>4. \A q \in RunIds, s \in Steps : Touched(q, s)' => Touched(q, s)
      BY <2>1, <2>3 DEF Touched, Holds, EffectKeys
    <2> QED BY <1>2, <2>1, <2>4
  <1>7. CASE UNCHANGED vars
    <2>1. UNCHANGED <<runs, dr, posted, inflight, crashes>>
      BY <1>7 DEF vars
    <2> QED BY <1>2, <2>1, TouchedStays
  <1> QED BY <1>1, <1>3, <1>4, <1>5, <1>6, <1>7

\* The saga invariant holds.
LEMMA SagaStep ==
  ASSUME MaxOverlaps = 0, CompensationOffPath
  PROVE  (Init => Saga) /\ (Saga /\ [Next]_vars => Saga')
  <1>1. ASSUME Init PROVE Saga
    <2>1. /\ DOMAIN runs = {} /\ inflight = {} /\ posted = [k \in EffectKeys |-> <<>>]
      BY <1>1 DEF Init, StoreInit
    <2>2. Dedup
      BY <1>1, InitDedup
    <2> QED BY <1>1, <2>1, <2>2, SoloStep DEF Saga, CursorsOnPath, CompensatedIsLost
  <1>2. ASSUME Saga, [Next]_vars PROVE Saga'
    <2>1. Solo' /\ Dedup'
      BY <1>2, SoloStep, DedupStep DEF Saga
    <2>2. CursorsOnPath' /\ CompensatedIsLost'
      BY <1>2, NextKinds, RequestSaga, WorkSaga, SaveSaga, OtherSaga
    <2> QED BY <2>1, <2>2 DEF Saga
  <1> QED BY <1>1, <1>2

\* Saga: while no process has died, a run for which a compensating step has
\* posted, or may still post through a late call, does not end SUCCEEDED,
\* whatever the retries, approvals, cancels and errors in the compensation
\* (workflow.py _compensate).
THEOREM CompensatedRunsFail ==
  ASSUME MaxOverlaps = 0, CompensationOffPath
  PROVE  Spec => [](crashes = 0 => CompensatedNeverSucceeds)
  <1>1. Saga => (crashes = 0 => CompensatedNeverSucceeds)
    <2> SUFFICES ASSUME Saga, crashes = 0, NEW r \in DOMAIN runs, NEW s \in Steps,
                        CompensateWith[s] # None, Holds(<<r, CompensateWith[s]>>),
                        runs[r].st.status = "succeeded"
                 PROVE  FALSE
      BY DEF CompensatedNeverSucceeds
    <2>1. CompensateWith[s] \in Steps /\ Compensates(CompensateWith[s])
      BY WorkflowAssumption DEF Compensates
    <2>2. Lost(r)
      BY <2>1 DEF Saga, CompensatedIsLost, Touched
    <2>3. PICK d \in Drivers : Compensating(dr[d], r)
      BY <2>2 DEF Lost
    <2>4. Synced(dr[d], runs[r].st, trace[r].cost, effects)
      BY <2>3 DEF Saga, Solo, InSync, Compensating, Active
    <2> QED BY <2>3, <2>4 DEF Synced, Compensating, Terminal
  <1> QED BY <1>1, SagaStep, PTL DEF Spec

-----------------------------------------------------------------------------
(* The calls of agents.  In an acyclic workflow a finished agent loop is   *)
(* never entered again, so what an agent step posts, late calls included,  *)
(* is one effort, repeated at most once for every process that died.       *)

\* A numbering of the steps that grows along the graph.
Rank == CHOOSE rank \in [Steps -> Nat] : Forward(rank)

\* Step s may still be reached, or repeated, by a run that stands at cur.
Ahead(s, cur) == Compensates(s) \/ Rank[s] >= Rank[cur]

\* Driver x has begun step s of its run and not given it up.
Begun(x, s) == Busy(x) /\ (x.step = s \/ (x.comp /\ x.mem.cursor = s))

\* The step of the key is still to be begun, or to be begun anew.
Fresh(k) ==
    \/ k[1] \notin DOMAIN runs
    \/ /\ runs[k[1]].st.status \notin Terminal /\ Ahead(k[2], runs[k[1]].st.cursor)
       /\ \A d \in Drivers : dr[d].run = k[1] => ~Begun(dr[d], k[2])

\* The postings under a key and the late calls that may still add to them.
LateCalls(k) == {c \in inflight : c[1] = k}
Used(k) == Len(posted[k]) + Cardinality(LateCalls(k))

\* What one call, one round and one attempt of an agent may use.
Copies(s) == IF s \in FaultyAt THEN MaxRetries + 1 ELSE 1
RoundPosts(s) == MaxCalls * Copies(s)
PassPosts(s) == AgentOf[s].busy * RoundPosts(s)

\* In the agent loop: what the round may still use, and what the attempts and
\* rounds begun so far may have used.
Looping(x) == x.pc \in {"step", "call"} /\ NodeType[x.step] = "agent"
Coming(x) == IF x.pc = "call" THEN x.left * Copies(x.step) ELSE 0
Begot(x) == (IF x.comp THEN 0 ELSE (x.try - 1) * PassPosts(x.step)) + x.turn * RoundPosts(x.step)

\* Driver x, after n crashes, when u is used of its step.
LoopInBounds(x, u, n) ==
    /\ x.pc = "loop" => x.turn = 0
    /\ x.pc = "call" => NodeType[x.step] = "agent"
    /\ x.pc \in Gating \cup {"pause", "record"} => NodeType[x.step] # "agent"
    /\ Looping(x) =>
           /\ x.turn <= AgentOf[x.step].busy
           /\ ~x.comp => 1 <= x.try /\ x.try <= MaxAttempts[x.step]
           /\ u + Coming(x) <= n * AgentEffort(x.step) + Begot(x)

AgentKeys == {k \in EffectKeys : NodeType[k[2]] = "agent"}
EffortCapped == \A k \in AgentKeys : Used(k) <= (crashes + 1) * AgentEffort(k[2])
FreshUnused == \A k \in AgentKeys : Fresh(k) => Used(k) <= crashes * AgentEffort(k[2])
LoopsInBounds == \A d \in Drivers : dr[d].pc # "idle" => LoopInBounds(dr[d], Used(Key(d)), crashes)

\* The inductive invariant of the agents' calls.
RepeatsInv == Saga /\ IsFiniteSet(inflight) /\ EffortCapped /\ FreshUnused /\ LoopsInBounds

\* The numbering is one.
LEMMA RankForward == Acyclic => Rank \in [Steps -> Nat] /\ Forward(Rank)
  BY DEF Acyclic, Rank

\* The counts are numbers.
LEMMA UsedType ==
  ASSUME TypeOK, IsFiniteSet(inflight), NEW k \in EffectKeys
  PROVE  /\ Len(posted[k]) \in Nat /\ Cardinality(LateCalls(k)) \in Nat /\ Used(k) \in Nat
         /\ IsFiniteSet(LateCalls(k))
  <1>1. Len(posted[k]) \in Nat
    BY DEF TypeOK, EnvTypeOK
  <1>2. LateCalls(k) \in SUBSET inflight
    BY DEF LateCalls
  <1>3. IsFiniteSet(LateCalls(k))
    BY <1>2, FS_Subset
  <1>4. Cardinality(LateCalls(k)) \in Nat
    BY <1>3, FS_CardinalityType
  <1> QED BY <1>1, <1>3, <1>4 DEF Used

\* A call adds at most one posting.
LEMMA PostAddsOne ==
  ASSUME TypeOK, NEW k \in EffectKeys, NEW a, NEW v, Post(k, a, v)
  PROVE  /\ \A j \in EffectKeys : j # k => posted'[j] = posted[j]
         /\ Len(posted'[k]) \in {Len(posted[k]), Len(posted[k]) + 1}
  <1>1. posted \in [EffectKeys -> Seq(Posting)]
    BY DEF TypeOK, EnvTypeOK
  <1> DEFINE p == [args |-> a, result |-> v]
  <1>2. posted' = posted \/ posted' = [posted EXCEPT ![k] = Append(posted[k], p)]
    BY DEF Post
  <1> HIDE DEF p
  <1>3. Len(Append(posted[k], p)) = Len(posted[k]) + 1
    BY <1>1
  <1> QED BY <1>1, <1>2, <1>3

\* A connector leaves finitely many calls, no more than it may, and none where
\* no call can fail.
LEMMA LeftoversCount ==
  ASSUME NEW k, NEW a, NEW most \in Nat, NEW l \in Leftovers(k, a, most)
  PROVE  /\ IsFiniteSet(l) /\ Cardinality(l) \in Nat /\ Cardinality(l) <= most
         /\ k[2] \notin FaultyAt => l = {}
  <1>1. CASE l = {}
    <2>1. IsFiniteSet({}) /\ Cardinality({}) = 0
      BY FS_EmptySet
    <2> QED BY <1>1, <2>1
  <1>2. CASE l # {}
    <2>1. PICK n \in 0 .. MaxPosts : l = {<<k, a, i>> : i \in 1 .. n} \ inflight
      BY <1>2 DEF Leftovers
    <2>2. Cardinality(l) <= most /\ k[2] \in FaultyAt
      BY <1>2 DEF Leftovers
    <2> DEFINE S == {<<k, a, i>> : i \in 1 .. n}
               q == [i \in 1 .. n |-> <<k, a, i>>]
    <2>3. q \in Seq(S) /\ Len(q) = n
      OBVIOUS
    <2>4. \A x \in S : \E i \in 1 .. Len(q) : q[i] = x
      BY <2>3
    <2>5. IsFiniteSet(S)
      <3> HIDE DEF S, q
      <3> QED BY <2>3, <2>4 DEF IsFiniteSet
    <2>6. IsFiniteSet(l)
      BY <2>1, <2>5, FS_Subset
    <2> QED BY <2>2, <2>6, FS_CardinalityType
  <1> QED BY <1>1, <1>2

\* They are added to the late calls of the key.
LEMMA LeftoversAdd ==
  ASSUME TypeOK, IsFiniteSet(inflight), NEW k \in EffectKeys, NEW a, NEW most \in Nat,
         NEW l \in Leftovers(k, a, most), l \in Left(k, a), inflight' = inflight \cup l
  PROVE  /\ IsFiniteSet(inflight')
         /\ \A j \in EffectKeys : j # k => LateCalls(j)' = LateCalls(j)
         /\ Cardinality(LateCalls(k))' \in Nat
         /\ Cardinality(LateCalls(k))' <= Cardinality(LateCalls(k)) + most
         /\ k[2] \notin FaultyAt => LateCalls(k)' = LateCalls(k)
  <1>1. /\ IsFiniteSet(l) /\ Cardinality(l) \in Nat /\ Cardinality(l) <= most
        /\ k[2] \notin FaultyAt => l = {}
    BY LeftoversCount
  <1>2. \A c \in l : c[1] = k
    BY LeftCalls
  <1>3. IsFiniteSet(LateCalls(k)) /\ Cardinality(LateCalls(k)) \in Nat
    BY UsedType
  <1>4. IsFiniteSet(inflight')
    BY <1>1, FS_Union
  <1>5. \A j \in EffectKeys : j # k => LateCalls(j)' = LateCalls(j)
    BY <1>2 DEF LateCalls
  <1>6. LateCalls(k)' = LateCalls(k) \cup l
    BY <1>2 DEF LateCalls
  <1> DEFINE S == LateCalls(k)
  <1>7. /\ IsFiniteSet(S \cup l)
        /\ Cardinality(S \cup l) = Cardinality(S) + Cardinality(l) - Cardinality(S \cap l)
    BY <1>1, <1>3, FS_Union
  <1>8. IsFiniteSet(S \cap l)
    BY <1>3, FS_Intersection
  <1>9. Cardinality(S \cup l) \in Nat /\ Cardinality(S \cap l) \in Nat
    BY <1>7, <1>8, FS_CardinalityType
  <1>10. Cardinality(S \cup l) <= Cardinality(S) + most
    BY <1>1, <1>3, <1>7, <1>9
  <1> QED BY <1>1, <1>4, <1>5, <1>6, <1>9, <1>10

\* Together: what a call uses.  One that answers may have posted and left
\* MaxRetries behind, one that fails may have left MaxRetries + 1.
LEMMA CallUses ==
  ASSUME TypeOK, IsFiniteSet(inflight), NEW k \in EffectKeys, NEW a,
         \/ /\ UNCHANGED posted \/ \E v : Post(k, a, v)
            /\ \E l \in LeftByAnswer(k, a) : inflight' = inflight \cup l
         \/ /\ UNCHANGED posted
            /\ \E l \in LeftByError(k, a) : inflight' = inflight \cup l
  PROVE  /\ IsFiniteSet(inflight')
         /\ \A j \in EffectKeys : j # k => Used(j)' = Used(j)
         /\ Used(k)' <= Used(k) + Copies(k[2])
         /\ Used(k)' \in Nat
  <1>r. MaxRetries \in Nat
    BY WorkflowAssumption
  <1>1. /\ \A j \in EffectKeys : j # k => posted'[j] = posted[j]
        /\ Len(posted'[k]) \in {Len(posted[k]), Len(posted[k]) + 1}
    BY PostAddsOne
  <1> DEFINE p == Len(posted[k])
             q == Len(posted'[k])
             m == Cardinality(LateCalls(k))
             n == Cardinality(LateCalls(k))'
  <1>3. p \in Nat /\ m \in Nat
    BY UsedType
  <1>2. /\ IsFiniteSet(inflight')
        /\ \A j \in EffectKeys : j # k => LateCalls(j)' = LateCalls(j)
        /\ n \in Nat
        /\ k[2] \notin FaultyAt => n = m
        /\ (n <= m + MaxRetries /\ q \in {p, p + 1}) \/ (n <= m + (MaxRetries + 1) /\ q = p)
    <2>1. CASE \E l \in LeftByAnswer(k, a) : inflight' = inflight \cup l
      <3>1. PICK l \in Leftovers(k, a, MaxRetries) : inflight' = inflight \cup l /\ l \in Left(k, a)
        BY <2>1 DEF LeftByAnswer, Left
      <3>2. /\ IsFiniteSet(inflight')
            /\ \A j \in EffectKeys : j # k => LateCalls(j)' = LateCalls(j)
            /\ Cardinality(LateCalls(k))' \in Nat
            /\ Cardinality(LateCalls(k))' <= Cardinality(LateCalls(k)) + MaxRetries
            /\ k[2] \notin FaultyAt => LateCalls(k)' = LateCalls(k)
        BY <1>r, <3>1, LeftoversAdd
      <3> QED BY <1>1, <3>2
    <2>2. CASE UNCHANGED posted /\ \E l \in LeftByError(k, a) : inflight' = inflight \cup l
      <3>1. PICK l \in Leftovers(k, a, MaxRetries + 1) : inflight' = inflight \cup l /\ l \in Left(k, a)
        BY <2>2 DEF LeftByError, Left
      <3>2. MaxRetries + 1 \in Nat
        BY <1>r
      <3>3. /\ IsFiniteSet(inflight')
            /\ \A j \in EffectKeys : j # k => LateCalls(j)' = LateCalls(j)
            /\ Cardinality(LateCalls(k))' \in Nat
            /\ Cardinality(LateCalls(k))' <= Cardinality(LateCalls(k)) + (MaxRetries + 1)
            /\ k[2] \notin FaultyAt => LateCalls(k)' = LateCalls(k)
        BY <3>1, <3>2, LeftoversAdd
      <3> QED BY <2>2, <3>3
    <2> QED BY <2>1, <2>2
  <1>4. \A j \in EffectKeys : j # k => Used(j)' = Used(j)
    BY <1>1, <1>2 DEF Used
  <1>5. Used(k) = p + m /\ Used(k)' = q + n
    BY DEF Used
  <1>6. q \in {p, p + 1}
    BY <1>1
  <1>7. Copies(k[2]) = IF k[2] \in FaultyAt THEN MaxRetries + 1 ELSE 1
    BY DEF Copies
  <1> HIDE DEF p, q, m, n
  <1>9. Used(k)' <= Used(k) + Copies(k[2]) /\ Used(k)' \in Nat
    BY <1>r, <1>2, <1>3, <1>5, <1>6, <1>7
  <1> QED BY <1>2, <1>4, <1>9

\* A late call that arrives was counted before.
LEMMA LandUsesNothing ==
  ASSUME TypeOK, IsFiniteSet(inflight), NEW c \in inflight, Land(c)
  PROVE  IsFiniteSet(inflight') /\ \A j \in EffectKeys : Used(j)' \in Nat /\ Used(j)' <= Used(j)
  <1>1. c[1] \in EffectKeys
    BY DEF TypeOK, EnvTypeOK
  <1>2. PICK v : Post(c[1], c[2], v)
    BY DEF Land
  <1>3. inflight' = inflight \ {c}
    BY DEF Land
  <1>4. IsFiniteSet(inflight')
    BY <1>3, FS_RemoveElement
  <1>5. ASSUME NEW j \in EffectKeys PROVE Used(j)' \in Nat /\ Used(j)' <= Used(j)
    <2>0. Len(posted[j]) \in Nat /\ Cardinality(LateCalls(j)) \in Nat /\ IsFiniteSet(LateCalls(j))
      BY UsedType
    <2>1. CASE j # c[1]
      <3>1. posted'[j] = posted[j] /\ LateCalls(j)' = LateCalls(j)
        BY <1>1, <1>2, <1>3, <2>1, PostAddsOne DEF LateCalls
      <3> QED BY <2>0, <3>1 DEF Used
    <2>2. CASE j = c[1]
      <3>1. LateCalls(j)' = LateCalls(j) \ {c} /\ c \in LateCalls(j)
        BY <1>3, <2>2 DEF LateCalls
      <3> DEFINE p == Len(posted[j])
                 q == Len(posted'[j])
                 m == Cardinality(LateCalls(j))
                 n == Cardinality(LateCalls(j) \ {c})
      <3>2. n = m - 1
        BY <2>0, <3>1, FS_RemoveElement
      <3>3. n \in Nat
        BY <2>0, FS_RemoveElement, FS_CardinalityType
      <3>4. q \in {p, p + 1}
        BY <1>1, <1>2, <2>2, PostAddsOne
      <3>5. Used(j) = p + m /\ Used(j)' = q + n
        BY <3>1 DEF Used
      <3>6. p \in Nat /\ m \in Nat
        BY <2>0
      <3> HIDE DEF p, q, m, n
      <3> QED BY <3>2, <3>3, <3>4, <3>5, <3>6
    <2> QED BY <2>1, <2>2
  <1> QED BY <1>4, <1>5

\* The numbers of an agent.
LEMMA EffortTypes ==
  ASSUME NEW s \in Steps
  PROVE  /\ Copies(s) \in Nat /\ RoundPosts(s) \in Nat /\ PassPosts(s) \in Nat
         /\ AgentEffort(s) \in Nat /\ MaxCalls \in Nat /\ Copies(s) >= 1
         /\ MaxAttempts[s] \in Nat /\ MaxAttempts[s] >= 1
         /\ AgentOf[s].busy \in Nat /\ AgentOf[s].turns \in Nat
         /\ RoundPosts(s) = MaxCalls * Copies(s)
         /\ PassPosts(s) = AgentOf[s].busy * RoundPosts(s)
         /\ AgentEffort(s) = MaxAttempts[s] * PassPosts(s)
  <1>1. Copies(s) \in Nat /\ Copies(s) >= 1
    BY WorkflowAssumption DEF Copies
  <1>2. /\ MaxAttempts[s] \in Nat /\ MaxAttempts[s] >= 1 /\ MaxCalls \in Nat
        /\ AgentOf[s].busy \in Nat /\ AgentOf[s].turns \in Nat
    BY WorkflowAssumption DEF Agent
  <1>3. RoundPosts(s) = MaxCalls * Copies(s) /\ RoundPosts(s) \in Nat
    BY <1>1, <1>2, Times DEF RoundPosts
  <1>4. PassPosts(s) = AgentOf[s].busy * RoundPosts(s) /\ PassPosts(s) \in Nat
    BY <1>2, <1>3, Times DEF PassPosts
  <1>5. AgentEffort(s) = MaxAttempts[s] * AgentOf[s].busy * MaxCalls * Copies(s)
    BY DEF AgentEffort, Copies
  <1>6. \A a, b, c, e \in Nat : a * b * c * e = a * (b * (c * e))
    OBVIOUS
  <1>7. AgentEffort(s) = MaxAttempts[s] * PassPosts(s)
    BY <1>1, <1>2, <1>3, <1>4, <1>5, <1>6
  <1>8. MaxAttempts[s] * PassPosts(s) \in Nat
    BY <1>2, <1>4, Times
  <1> QED BY <1>1, <1>2, <1>3, <1>4, <1>7, <1>8

\* The numbers of a driver in the agent loop.
LEMMA LoopTypes ==
  ASSUME NEW x \in Driver, x.step \in Steps, ~x.comp => x.try >= 1
  PROVE  /\ x.try \in Nat /\ x.turn \in Nat /\ x.left \in Nat /\ x.comp \in BOOLEAN
         /\ Coming(x) \in Nat /\ Begot(x) \in Nat
  <1>1. x.try \in Nat /\ x.turn \in Nat /\ x.left \in Nat /\ x.comp \in BOOLEAN
    BY DEF Driver
  <1>2. Copies(x.step) \in Nat /\ PassPosts(x.step) \in Nat /\ RoundPosts(x.step) \in Nat
    BY EffortTypes
  <1>3. x.left * Copies(x.step) \in Nat /\ x.turn * RoundPosts(x.step) \in Nat
    BY <1>1, <1>2, Times
  <1>4. ~x.comp => (x.try - 1) * PassPosts(x.step) \in Nat
    <2>1. ~x.comp => x.try - 1 \in Nat
      BY <1>1
    <2> QED BY <1>2, <2>1, Times
  <1>5. Coming(x) \in Nat
    BY <1>3 DEF Coming
  <1>6. Begot(x) \in Nat
    BY <1>3, <1>4 DEF Begot
  <1> QED BY <1>1, <1>5, <1>6

\* The rounds of one attempt use one pass at most.
LEMMA RoundsFit ==
  ASSUME NEW x \in Driver, x.step \in Steps, x.turn <= AgentOf[x.step].busy
  PROVE  x.turn * RoundPosts(x.step) <= PassPosts(x.step)
  <1>1. x.turn \in Nat
    BY DEF Driver
  <1>2. /\ AgentOf[x.step].busy \in Nat /\ RoundPosts(x.step) \in Nat
        /\ PassPosts(x.step) = AgentOf[x.step].busy * RoundPosts(x.step)
    BY EffortTypes
  <1> QED BY <1>1, <1>2, TimesMonotonic

\* All attempts together use one effort at most, the failed one included.
LEMMA AttemptsFit ==
  ASSUME NEW x \in Driver, x.step \in Steps, x.turn <= AgentOf[x.step].busy,
         ~x.comp => 1 <= x.try /\ x.try <= MaxAttempts[x.step]
  PROVE  /\ Begot(x) <= AgentEffort(x.step)
         /\ ~x.comp => Begot(x) <= x.try * PassPosts(x.step)
  <1> DEFINE P == PassPosts(x.step)
             A == MaxAttempts[x.step]
  <1>1. x.try \in Nat /\ Begot(x) \in Nat /\ x.turn \in Nat
    BY LoopTypes
  <1>2. P \in Nat /\ A \in Nat /\ A >= 1 /\ AgentEffort(x.step) = A * P
    BY EffortTypes
  <1>3. x.turn * RoundPosts(x.step) <= P /\ x.turn * RoundPosts(x.step) \in Nat
    <2>1. RoundPosts(x.step) \in Nat
      BY EffortTypes
    <2> QED BY <1>1, <2>1, RoundsFit, Times
  <1>4. CASE x.comp
    <2>1. Begot(x) <= P
      BY <1>2, <1>3, <1>4 DEF Begot
    <2>2. P <= A * P
      <3>1. 1 * P <= A * P /\ 1 * P = P /\ A * P \in Nat
        BY <1>2, TimesMonotonic, Times
      <3> QED BY <3>1
    <2>3. A * P \in Nat
      BY <1>2, Times
    <2> QED BY <1>1, <1>2, <1>4, <2>1, <2>2, <2>3
  <1>5. CASE ~x.comp
    <2>1. x.try - 1 \in Nat /\ (x.try - 1) * P + P = x.try * P /\ (x.try - 1) * P \in Nat
      BY <1>1, <1>2, <1>5, Times
    <2>2. Begot(x) <= x.try * P
      <3>1. Begot(x) = (x.try - 1) * P + x.turn * RoundPosts(x.step)
        BY <1>5 DEF Begot
      <3> HIDE DEF P
      <3> QED BY <1>2, <1>3, <2>1, <3>1
    <2>3. x.try * P <= A * P /\ x.try * P \in Nat /\ A * P \in Nat
      BY <1>1, <1>2, <1>5, TimesMonotonic, Times
    <2> QED BY <1>1, <1>2, <2>2, <2>3
  <1> QED BY <1>4, <1>5

\* Nothing begot at the beginning of a step or of a compensation.
LEMMA LoopBegins ==
  ASSUME NEW y \in Driver, y.step \in Steps, y.pc = "step", y.turn = 0, y.comp \/ y.try = 1,
         NEW n \in Nat, NEW u \in Nat, NodeType[y.step] = "agent" => u <= n * AgentEffort(y.step)
  PROVE  LoopInBounds(y, u, n)
  <1>1. /\ PassPosts(y.step) \in Nat /\ RoundPosts(y.step) \in Nat /\ AgentEffort(y.step) \in Nat
        /\ AgentOf[y.step].busy \in Nat /\ MaxAttempts[y.step] \in Nat /\ MaxAttempts[y.step] >= 1
    BY EffortTypes
  <1>2. 0 * PassPosts(y.step) = 0 /\ 0 * RoundPosts(y.step) = 0 /\ n * AgentEffort(y.step) \in Nat
    BY <1>1, Times
  <1>3. Begot(y) = 0 /\ Coming(y) = 0
    BY <1>2 DEF Begot, Coming
  <1>4. Looping(y) => u + Coming(y) <= n * AgentEffort(y.step) + Begot(y)
    BY <1>2, <1>3 DEF Looping
  <1>5. y.turn <= AgentOf[y.step].busy /\ (~y.comp => 1 <= y.try /\ y.try <= MaxAttempts[y.step])
    BY <1>1
  <1> QED BY <1>4, <1>5 DEF LoopInBounds, Gating

\* A driver that is not at an agent's step has no loop to bound.
LEMMA NoLoop ==
  ASSUME NEW y, NodeType[y.step] # "agent", y.pc \notin {"loop", "call"}, NEW u, NEW n
  PROVE  LoopInBounds(y, u, n)
  BY DEF LoopInBounds, Looping

\* The steps of a driver in the agent loop: the model answers, asks for
\* calls, a call is over, or it fails.
LEMMA LoopView ==
  ASSUME TypeOK, NEW d \in Drivers, Moves(d) \/ Works(d), Looping(dr[d]),
         dr[d].step \notin EscapeAt, dr[d].turn < AgentOf[dr[d].step].turns
  PROVE  LET x == dr[d]
             y == dr'[d]
         IN  \/ /\ y.pc \in {"commit", "fail"} /\ y.step = x.step
                /\ UNCHANGED <<posted, inflight>>
             \/ /\ x.pc = "step" /\ y.pc = "call" /\ SameTry(x, y) /\ y.turn = x.turn + 1
                /\ x.turn < AgentOf[x.step].busy /\ y.left \in 1 .. MaxCalls
                /\ UNCHANGED <<posted, inflight>>
             \/ /\ x.pc = "call" /\ SameTry(x, y) /\ y.turn = x.turn
                /\ IF x.left > 1 THEN y.pc = "call" /\ y.left = x.left - 1 ELSE y.pc = "step"
                /\ \/ UNCHANGED <<posted, inflight>>
                   \/ \E a : /\ UNCHANGED posted \/ \E v : Post(Key(d), a, v)
                             /\ \E l \in LeftByAnswer(Key(d), a) : inflight' = inflight \cup l
             \/ /\ x.pc = "call" /\ y = ConnectorFailed(x) /\ UNCHANGED posted
                /\ \E a : \E l \in LeftByError(Key(d), a) : inflight' = inflight \cup l
  <1> DEFINE x == dr[d]
             y == dr'[d]
  <1>0. Active(x) /\ x.pc \in {"step", "call"}
    BY DEF Looping, Active
  <1>t. /\ x \in Driver /\ At(d) \in Steps /\ x.step = At(d) /\ Args(d) \in Slot
        /\ Cost[At(d)] \in Nat /\ AgentOf[At(d)].cost \in Nat
        /\ \A v \in Outcomes(At(d), Args(d)) : v \in Values
    <2>1. x \in Driver /\ At(d) \in Steps /\ x.step = At(d) /\ Args(d) \in Slot
      BY <1>0, ActiveType DEF At
    <2> QED BY <2>1, WorkflowAssumption, FunctionAssumption DEF Agent
  <1>p. ASSUME NEW z, Put(d, z) PROVE y = z
    BY <1>p, PutView
  <1>1. ModelAnswers(d) \/ ModelCalls(d) \/ RefuseCall(d) \/ ExecuteCall(d) \/ FailCall(d)
    <2>1. ~Escape(d) /\ ~TurnsUsedUp(d)
      BY <1>t DEF Escape, TurnsUsedUp, TurnLeft
    <2> QED BY <1>0, <1>t, <2>1 DEF Moves, Works, Looping, EnterStep, RunBranch, RunApproval, GateTool,
              CheckApproval, ExecuteFail, RequestApproval, AskApproval, AnswerApproval,
              ExecuteOk, RecordTool, ReplayTool
  <1>2. CASE ModelAnswers(d)
    <2>1. PICK v \in Outcomes(At(d), Args(d)) : Put(d, StepDone(Stored(Booked(x, Cost[At(d)]), v)))
      BY <1>2 DEF ModelAnswers
    <2>2. y = StepDone(Stored(Booked(x, Cost[At(d)]), v)) /\ v \in Values
      BY <1>p, <1>t, <2>1
    <2>3. y.pc \in {"commit", "fail"} /\ y.step = x.step
      <3>1. \A c \in Nat : LET z == StepDone(Stored(Booked(x, c), v))
                           IN  z.pc \in {"commit", "fail"} /\ z.step = x.step
        BY <1>t, <2>2, ResultEffort DEF SameTry, AuditTypes
      <3> QED BY <1>t, <2>2, <3>1
    <2>4. UNCHANGED <<posted, inflight>>
      BY <1>2 DEF ModelAnswers, envVars
    <2> QED BY <2>3, <2>4
  <1>3. CASE ModelCalls(d)
    <2> DEFINE b == Booked(x, Cost[At(d)])
    <2>1. PICK n \in 1 .. MaxCalls : Put(d, Asked(b, n))
      BY <1>3 DEF ModelCalls
    <2>2. b \in Driver /\ SamePlace(x, b)
      BY <1>t, BookedView
    <2>3. y = Asked(b, n)
      BY <1>p, <2>1
    <2> HIDE DEF b
    <2>4. /\ y.pc = "call" /\ y.left = n /\ y.turn = b.turn + 1
          /\ y.step = b.step /\ y.try = b.try /\ y.comp = b.comp
      BY <2>2, <2>3 DEF Asked, Driver
    <2>5. SameTry(x, y) /\ y.turn = x.turn + 1
      BY <2>2, <2>4 DEF SamePlace, SameTry
    <2>6. /\ x.pc = "step" /\ x.turn < AgentOf[x.step].busy /\ UNCHANGED <<posted, inflight>>
      BY <1>3, <1>t DEF ModelCalls, InLoop, envVars
    <2> QED BY <2>4, <2>5, <2>6
  <1>4. ASSUME NEW b \in Driver, SamePlace(x, b), y = Answered(b)
        PROVE  /\ SameTry(x, y) /\ y.turn = x.turn
               /\ IF x.left > 1 THEN y.pc = "call" /\ y.left = x.left - 1 ELSE y.pc = "step"
    <2>1. /\ y.step = b.step /\ y.try = b.try /\ y.comp = b.comp /\ y.turn = b.turn
          /\ y.left = b.left - 1 /\ y.pc = (IF b.left > 1 THEN "call" ELSE "step")
      BY <1>4 DEF Answered, Driver
    <2>2. b.step = x.step /\ b.try = x.try /\ b.comp = x.comp /\ b.turn = x.turn /\ b.left = x.left
      BY <1>4 DEF SamePlace
    <2> QED BY <2>1, <2>2 DEF SameTry
  <1>5. CASE RefuseCall(d)
    <2>1. y = Answered(x) /\ x.pc = "call" /\ UNCHANGED <<posted, inflight>> /\ SamePlace(x, x)
      BY <1>5, <1>p DEF RefuseCall, envVars, SamePlace
    <2> QED BY <1>t, <1>4, <2>1
  <1>6. CASE ExecuteCall(d)
    <2> DEFINE b == Booked(x, AgentOf[At(d)].cost)
    <2>1. Put(d, Answered(b)) /\ x.pc = "call"
      BY <1>6 DEF ExecuteCall
    <2>2. b \in Driver /\ SamePlace(x, b) /\ y = Answered(b)
      BY <1>p, <1>t, <2>1, BookedView
    <2> HIDE DEF b
    <2>3. \E a : /\ UNCHANGED posted \/ \E v : Post(Key(d), a, v)
                 /\ \E l \in LeftByAnswer(Key(d), a) : inflight' = inflight \cup l
      BY <1>6 DEF ExecuteCall
    <2> QED BY <1>4, <2>1, <2>2, <2>3
  <1>7. CASE FailCall(d)
    BY <1>7, <1>p DEF FailCall
  <1> QED BY <1>1, <1>2, <1>3, <1>5, <1>6, <1>7

\* A driver's step uses something of its own key only.
LEMMA WorkUses ==
  ASSUME TypeOK, IsFiniteSet(inflight), NEW d \in Drivers, Moves(d) \/ Works(d),
         NEW k \in EffectKeys, k = Key(d)
  PROVE  /\ IsFiniteSet(inflight') /\ UNCHANGED crashes
         /\ \A j \in EffectKeys : j # k => Used(j)' = Used(j)
  <1>0. /\ \/ ExecuteOk(d) \/ ExecuteCall(d) \/ ExecuteFail(d) \/ FailCall(d)
           \/ UNCHANGED <<posted, inflight>>
        /\ UNCHANGED crashes
    BY DEF Moves, Works, EnterStep, Escape, TurnsUsedUp, RunBranch, RunApproval, GateTool,
           CheckApproval, RefuseCall, RequestApproval, AskApproval, AnswerApproval,
           ModelAnswers, ModelCalls, RecordTool, ReplayTool, envVars, ExecuteOk, ExecuteCall,
           ExecuteFail, FailCall
  <1>1. ASSUME NEW a,
               \/ /\ UNCHANGED posted \/ \E v : Post(k, a, v)
                  /\ \E l \in LeftByAnswer(k, a) : inflight' = inflight \cup l
               \/ /\ UNCHANGED posted
                  /\ \E l \in LeftByError(k, a) : inflight' = inflight \cup l
        PROVE  IsFiniteSet(inflight') /\ \A j \in EffectKeys : j # k => Used(j)' = Used(j)
    BY <1>1, CallUses
  <1>2. CASE UNCHANGED <<posted, inflight>>
    BY <1>0, <1>2 DEF Used, LateCalls
  <1>3. CASE ExecuteOk(d)
    <2>1. UNCHANGED posted \/ \E v : Post(k, Args(d), v)
      BY <1>3 DEF ExecuteOk
    <2>2. \E l \in LeftByAnswer(k, Args(d)) : inflight' = inflight \cup l
      BY <1>3 DEF ExecuteOk
    <2> QED BY <1>0, <1>1, <2>1, <2>2
  <1>4. CASE ExecuteCall(d)
    <2>1. PICK a : /\ (\E v : Post(k, a, v)) \/ UNCHANGED posted
                   /\ \E l \in LeftByAnswer(k, a) : inflight' = inflight \cup l
      BY <1>4 DEF ExecuteCall
    <2> QED BY <1>0, <1>1, <2>1
  <1>5. CASE ExecuteFail(d)
    <2>1. UNCHANGED posted /\ \E l \in LeftByError(k, Args(d)) : inflight' = inflight \cup l
      BY <1>5 DEF ExecuteFail
    <2> QED BY <1>0, <1>1, <2>1
  <1>6. CASE FailCall(d)
    <2>1. PICK a : UNCHANGED posted /\ \E l \in LeftByError(k, a) : inflight' = inflight \cup l
      BY <1>6 DEF FailCall
    <2> QED BY <1>0, <1>1, <2>1
  <1> QED BY <1>2, <1>3, <1>4, <1>5, <1>6, <1>0, Zenon

\* A driver's bounds stay when no more is used of its step.
LEMMA LoopStays ==
  ASSUME RepeatsInv, NEW e \in Drivers, dr[e].pc # "idle", NEW n \in Nat, crashes <= n,
         NEW u, Looping(dr[e]) => u \in Nat /\ u <= Used(Key(e))
  PROVE  LoopInBounds(dr[e], u, n)
  <1> DEFINE x == dr[e]
  <1>1. LoopInBounds(x, Used(Key(e)), crashes) /\ TypeOK /\ crashes \in Nat
    BY DEF RepeatsInv, LoopsInBounds, Saga, Dedup, TypeOK, EnvTypeOK
  <1>2. ASSUME Looping(x)
        PROVE  u + Coming(x) <= n * AgentEffort(x.step) + Begot(x)
    <2>1. Active(x) /\ x.step \in Steps /\ x \in Driver /\ Key(e) \in EffectKeys
      BY <1>1, <1>2, ActiveType DEF Looping, Active, At
    <2>2. /\ ~x.comp => x.try >= 1
          /\ Used(Key(e)) + Coming(x) <= crashes * AgentEffort(x.step) + Begot(x)
      BY <1>1, <1>2 DEF LoopInBounds
    <2>3. Coming(x) \in Nat /\ Begot(x) \in Nat
      BY <2>1, <2>2, LoopTypes
    <2>4. Used(Key(e)) \in Nat
      BY <1>1, <2>1, UsedType DEF RepeatsInv
    <2>5. AgentEffort(x.step) \in Nat
      BY <2>1, EffortTypes
    <2>6. /\ crashes * AgentEffort(x.step) <= n * AgentEffort(x.step)
          /\ crashes * AgentEffort(x.step) \in Nat /\ n * AgentEffort(x.step) \in Nat
      BY <1>1, <2>5, Times, TimesMonotonic
    <2> DEFINE A == crashes * AgentEffort(x.step)
               B == n * AgentEffort(x.step)
               U == Used(Key(e))
               C == Coming(x)
               G == Begot(x)
    <2>7. U + C <= A + G /\ A <= B /\ u <= U /\ u \in Nat /\ U \in Nat /\ C \in Nat /\ G \in Nat
          /\ A \in Nat /\ B \in Nat
      BY <1>2, <2>2, <2>3, <2>4, <2>6
    <2> HIDE DEF A, B, U, C, G
    <2>8. u + C <= B + G
      BY <2>7
    <2> QED BY <2>8 DEF B, C, G
  <1> QED BY <1>1, <1>2 DEF LoopInBounds

\* A step of the agent loop: what it uses is in the bounds, and the loop goes
\* on within them or is left for good.
LEMMA AgentWork ==
  ASSUME RepeatsInv, AgentsAnswer, NEW d \in Drivers, Moves(d) \/ Works(d), Looping(dr[d]),
         NEW k \in EffectKeys, k = Key(d)
  PROVE  LET x == dr[d]
             y == dr'[d]
         IN  /\ Used(k)' \in Nat /\ Used(k)' <= (crashes + 1) * AgentEffort(k[2])
             /\ y.pc \in {"commit", "fail", "step", "call"}
             /\ \/ y.step = x.step /\ LoopInBounds(y, Used(k)', crashes)
                \/ /\ y.pc = "step" /\ y.step = CompensateWith[x.step] /\ y.step # None
                   /\ y.comp /\ ~x.comp /\ y.turn = 0
  <1> DEFINE x == dr[d]
             y == dr'[d]
             s == x.step
             u == Used(k)
             v == Used(k)'
             E == AgentEffort(s)
  <1>t. /\ TypeOK /\ IsFiniteSet(inflight) /\ crashes \in Nat
        /\ LoopInBounds(x, u, crashes)
    BY DEF RepeatsInv, LoopsInBounds, Looping, Saga, Dedup, TypeOK, EnvTypeOK
  <1>1. /\ x \in Driver /\ s \in Steps /\ k[2] = s /\ NodeType[s] = "agent"
        /\ x.pc = "call" => x.left > 0
    <2>1. Active(x)
      BY DEF Looping, Active
    <2> QED BY <1>t, <2>1, ActiveType DEF At, Looping, TypeOK, DriverTypeOK
  <1>2. y \in Driver
    <2>1. Saga' \/ DriverTypeOK'
      <3>1. [Next]_vars
        BY DEF Next, DriverStep, Moves, Works
      <3> QED BY <1>t, <3>1, TypeStep DEF TypeOK
    <2> QED BY <2>1 DEF Saga, Dedup, TypeOK, DriverTypeOK
  <1>3. /\ x.turn <= AgentOf[s].busy /\ (~x.comp => 1 <= x.try /\ x.try <= MaxAttempts[s])
        /\ u + Coming(x) <= crashes * E + Begot(x)
    BY <1>t DEF LoopInBounds
  <1>4. /\ u \in Nat /\ x.try \in Nat /\ x.turn \in Nat /\ x.left \in Nat /\ x.comp \in BOOLEAN
        /\ Coming(x) \in Nat /\ Begot(x) \in Nat
    BY <1>t, <1>1, <1>3, UsedType, LoopTypes
  <1>5. /\ Copies(s) \in Nat /\ Copies(s) >= 1 /\ RoundPosts(s) \in Nat /\ PassPosts(s) \in Nat
        /\ E \in Nat /\ MaxCalls \in Nat /\ RoundPosts(s) = MaxCalls * Copies(s)
        /\ AgentOf[s].busy \in Nat /\ AgentOf[s].turns \in Nat /\ MaxAttempts[s] \in Nat
        /\ crashes * E \in Nat /\ (crashes + 1) * E = crashes * E + E
    BY <1>t, <1>1, EffortTypes, Times
  <1>6. Begot(x) <= E /\ (~x.comp => Begot(x) <= x.try * PassPosts(s))
    BY <1>1, <1>3, AttemptsFit
  <1>7. s \notin EscapeAt /\ x.turn < AgentOf[s].turns
    BY <1>1, <1>3, <1>4, <1>5 DEF AgentsAnswer
  \* The bounds in general.
  <1>8. ASSUME v \in Nat, v <= crashes * E + Begot(x)
        PROVE  v <= (crashes + 1) * E
    BY <1>4, <1>5, <1>6, <1>8
  <1>9. ASSUME NEW w, Looping(w), w.step = s, w.turn <= AgentOf[s].busy,
               ~w.comp => 1 <= w.try /\ w.try <= MaxAttempts[s],
               v + Coming(w) <= crashes * E + Begot(w)
        PROVE  LoopInBounds(w, v, crashes)
    BY <1>9 DEF LoopInBounds, Looping, Gating
  <1>10. CASE UNCHANGED <<posted, inflight>> /\ y.pc \in {"commit", "fail"} /\ y.step = s
    <2>1. v = u
      BY <1>10 DEF Used, LateCalls
    <2>2. v \in Nat /\ v <= crashes * E + Begot(x)
      BY <1>3, <1>4, <1>5, <2>1
    <2>3. LoopInBounds(y, v, crashes)
      BY <1>10 DEF LoopInBounds, Looping, Gating
    <2> QED BY <1>1, <1>8, <1>10, <2>2, <2>3
  <1>11. CASE /\ x.pc = "step" /\ y.pc = "call" /\ SameTry(x, y) /\ y.turn = x.turn + 1
              /\ x.turn < AgentOf[x.step].busy /\ y.left \in 1 .. MaxCalls
              /\ UNCHANGED <<posted, inflight>>
    <2>1. v = u
      BY <1>11 DEF Used, LateCalls
    <2>2. v \in Nat /\ v <= crashes * E + Begot(x)
      BY <1>3, <1>4, <1>5, <2>1
    <2>3. Coming(x) = 0 /\ Coming(y) = y.left * Copies(s)
      BY <1>11 DEF Coming, SameTry
    <2>4. Begot(y) = Begot(x) + RoundPosts(s)
      <3>1. y.turn * RoundPosts(s) = x.turn * RoundPosts(s) + RoundPosts(s) /\ x.turn * RoundPosts(s) \in Nat
        <4>1. x.turn \in Nat /\ RoundPosts(s) \in Nat
          BY <1>4, <1>5
        <4>2. (x.turn + 1) * RoundPosts(s) = x.turn * RoundPosts(s) + RoundPosts(s)
              /\ x.turn * RoundPosts(s) \in Nat
          BY <4>1, Times
        <4> QED BY <1>11, <4>2
      <3> DEFINE P == IF x.comp THEN 0 ELSE (x.try - 1) * PassPosts(s)
      <3>2. Begot(x) = P + x.turn * RoundPosts(s) /\ Begot(y) = P + y.turn * RoundPosts(s)
        BY <1>11 DEF Begot, SameTry
      <3>3. P \in Nat
        BY <1>3, <1>4, <1>5, Times
      <3> HIDE DEF P
      <3> QED BY <1>5, <3>1, <3>2, <3>3
    <2>5. y.left * Copies(s) <= RoundPosts(s) /\ y.left * Copies(s) \in Nat
      BY <1>5, <1>11, Times, TimesMonotonic
    <2>6. v + Coming(y) <= crashes * E + Begot(y)
      <3> DEFINE A == crashes * E
                 C == y.left * Copies(s)
                 R == RoundPosts(s)
                 G == Begot(x)
      <3>1. v \in Nat /\ A \in Nat /\ C \in Nat /\ R \in Nat /\ G \in Nat /\ v <= A + G /\ C <= R
        BY <1>4, <1>5, <2>2, <2>5
      <3> HIDE DEF A, C, R, G, v
      <3>2. v + C <= A + (G + R)
        BY <3>1
      <3> QED BY <2>3, <2>4, <3>2 DEF A, C, R, G
    <2>7. y.step = s /\ Looping(y) /\ y.turn <= AgentOf[s].busy
          /\ (~y.comp => 1 <= y.try /\ y.try <= MaxAttempts[s])
      BY <1>1, <1>3, <1>4, <1>5, <1>11 DEF SameTry, Looping
    <2>8. LoopInBounds(y, v, crashes)
      BY <1>9, <2>6, <2>7
    <2> QED BY <1>1, <1>8, <1>11, <2>2, <2>7, <2>8
  <1>12. CASE /\ x.pc = "call" /\ SameTry(x, y) /\ y.turn = x.turn
              /\ IF x.left > 1 THEN y.pc = "call" /\ y.left = x.left - 1 ELSE y.pc = "step"
              /\ \/ UNCHANGED <<posted, inflight>>
                 \/ \E a : /\ UNCHANGED posted \/ \E w : Post(Key(d), a, w)
                           /\ \E l \in LeftByAnswer(Key(d), a) : inflight' = inflight \cup l
    <2>1. v \in Nat /\ v <= u + Copies(s)
      <3>1. CASE UNCHANGED <<posted, inflight>>
        <4>1. v = u
          BY <3>1 DEF Used, LateCalls
        <4> QED BY <1>4, <1>5, <4>1
      <3>2. CASE \E a : /\ UNCHANGED posted \/ \E w : Post(k, a, w)
                        /\ \E l \in LeftByAnswer(k, a) : inflight' = inflight \cup l
        BY <1>t, <1>1, <3>2, CallUses
      <3> QED BY <1>12, <3>1, <3>2
    <2>2. Coming(x) = x.left * Copies(s) /\ x.left >= 1
      BY <1>1, <1>4, <1>12 DEF Coming
    <2>3. x.left - 1 \in Nat /\ x.left * Copies(s) = (x.left - 1) * Copies(s) + Copies(s)
          /\ (x.left - 1) * Copies(s) \in Nat
      BY <1>4, <1>5, <2>2, Times
    <2>4. Coming(y) = (x.left - 1) * Copies(s)
      <3>1. CASE x.left > 1
        BY <1>12, <3>1 DEF Coming, SameTry
      <3>2. CASE ~(x.left > 1)
        <4>1. \A n \in Nat : n >= 1 /\ ~(n > 1) => n - 1 = 0
          OBVIOUS
        <4>2. x.left - 1 = 0
          BY <1>4, <2>2, <3>2, <4>1
        <4>3. 0 * Copies(s) = 0
          BY <1>5, Times
        <4> QED BY <1>12, <3>2, <4>2, <4>3 DEF Coming
      <3> QED BY <3>1, <3>2
    <2>5. Begot(y) = Begot(x)
      BY <1>12 DEF Begot, SameTry
    <2>6. v + Coming(y) <= crashes * E + Begot(y) /\ v <= crashes * E + Begot(x)
      <3> DEFINE A == crashes * E
                 C == (x.left - 1) * Copies(s)
                 R == Copies(s)
                 G == Begot(x)
      <3>1. /\ v \in Nat /\ u \in Nat /\ A \in Nat /\ C \in Nat /\ R \in Nat /\ G \in Nat
            /\ v <= u + R /\ u + (C + R) <= A + G
        BY <1>3, <1>4, <1>5, <2>1, <2>2, <2>3
      <3> HIDE DEF A, C, R, G, v, u
      <3>2. v + C <= A + G /\ v <= A + G
        BY <3>1
      <3> QED BY <2>4, <2>5, <3>2 DEF A, C, G
    <2>7. y.step = s /\ Looping(y) /\ y.turn <= AgentOf[s].busy /\ y.pc \in {"step", "call"}
          /\ (~y.comp => 1 <= y.try /\ y.try <= MaxAttempts[s])
      BY <1>1, <1>3, <1>12 DEF SameTry, Looping
    <2>8. LoopInBounds(y, v, crashes)
      BY <1>9, <2>6, <2>7
    <2> QED BY <1>1, <1>8, <2>1, <2>6, <2>7, <2>8
  <1>13. CASE /\ x.pc = "call" /\ y = ConnectorFailed(x) /\ UNCHANGED posted
              /\ \E a : \E l \in LeftByError(Key(d), a) : inflight' = inflight \cup l
    <2>1. v \in Nat /\ v <= u + Copies(s)
      BY <1>t, <1>1, <1>13, CallUses
    <2>2. Coming(x) >= Copies(s)
      <3>1. x.left >= 1 /\ Coming(x) = x.left * Copies(s)
        BY <1>1, <1>4, <1>13 DEF Coming
      <3>2. 1 * Copies(s) <= x.left * Copies(s) /\ 1 * Copies(s) = Copies(s) /\ x.left * Copies(s) \in Nat
        BY <1>4, <1>5, <3>1, TimesMonotonic, Times
      <3> QED BY <1>5, <3>1, <3>2
    <2>3. v <= crashes * E + Begot(x)
      <3> DEFINE A == crashes * E
                 C == Coming(x)
                 R == Copies(s)
                 G == Begot(x)
      <3>1. /\ v \in Nat /\ u \in Nat /\ A \in Nat /\ C \in Nat /\ R \in Nat /\ G \in Nat
            /\ v <= u + R /\ C >= R /\ u + C <= A + G
        BY <1>3, <1>4, <1>5, <2>1, <2>2
      <3> HIDE DEF A, C, R, G, v, u
      <3>2. v <= A + G
        BY <3>1
      <3> QED BY <3>2 DEF A, G
    <2>4. \/ /\ y.pc = "step" /\ y.step = s /\ ~x.comp /\ ~y.comp
             /\ x.try < MaxAttempts[s] /\ y.try = x.try + 1 /\ y.turn = 0
          \/ /\ y.pc = "step" /\ y.step = CompensateWith[s] /\ y.step # None
             /\ ~x.comp /\ y.comp /\ y.turn = 0
          \/ y.pc = "fail" /\ y.step = s
      BY <1>1, <1>13, ConnectorFailedView DEF SamePlace
    <2>5. CASE /\ y.pc = "step" /\ y.step = s /\ ~x.comp /\ ~y.comp
               /\ x.try < MaxAttempts[s] /\ y.try = x.try + 1 /\ y.turn = 0
      <3>1. Begot(y) = x.try * PassPosts(s) /\ Coming(y) = 0
        <4>1. y.try - 1 = x.try /\ 0 * RoundPosts(s) = 0 /\ x.try * PassPosts(s) \in Nat
          BY <1>4, <1>5, <2>5, Times
        <4>2. Begot(y) = x.try * PassPosts(s) + 0
          BY <2>5, <4>1 DEF Begot
        <4> QED BY <2>5, <4>1, <4>2 DEF Coming
      <3>2. v + Coming(y) <= crashes * E + Begot(y)
        <4> DEFINE A == crashes * E
                   G == Begot(x)
                   H == x.try * PassPosts(s)
        <4>1. v \in Nat /\ A \in Nat /\ G \in Nat /\ H \in Nat /\ v <= A + G /\ G <= H
          BY <1>4, <1>5, <1>6, <2>1, <2>3, <2>5, Times
        <4> HIDE DEF A, G, H, v
        <4>2. v + 0 <= A + H
          BY <4>1
        <4> QED BY <3>1, <4>2 DEF A, H
      <3>3. Looping(y) /\ y.turn <= AgentOf[s].busy /\ 1 <= y.try /\ y.try <= MaxAttempts[s]
        BY <1>1, <1>4, <1>5, <2>5 DEF Looping
      <3>4. LoopInBounds(y, v, crashes)
        BY <1>9, <2>5, <3>2, <3>3
      <3> QED BY <1>1, <1>8, <2>1, <2>3, <2>5, <3>4
    <2>6. CASE /\ y.pc = "step" /\ y.step = CompensateWith[s] /\ y.step # None
               /\ ~x.comp /\ y.comp /\ y.turn = 0
      BY <1>1, <1>8, <2>1, <2>3, <2>6
    <2>7. CASE y.pc = "fail" /\ y.step = s
      <3>1. LoopInBounds(y, v, crashes)
        BY <2>7 DEF LoopInBounds, Looping, Gating
      <3> QED BY <1>1, <1>8, <2>1, <2>3, <2>7, <3>1
    <2> QED BY <2>4, <2>5, <2>6, <2>7
  <1> QED BY <1>t, <1>7, <1>10, <1>11, <1>12, <1>13, LoopView

-----------------------------------------------------------------------------
(* The steps keep the bounds.                                              *)

\* What a step has to show.
LEMMA BoundsKept ==
  ASSUME RepeatsInv, crashes' \in Nat, crashes <= crashes',
         \A k \in AgentKeys : Used(k)' \in Nat /\ Used(k)' <= (crashes + 1) * AgentEffort(k[2]),
         \A k \in AgentKeys : Fresh(k)' => Used(k)' <= crashes' * AgentEffort(k[2]),
         \A e \in Drivers : dr'[e].pc # "idle" =>
             \/ LoopInBounds(dr'[e], Used(Key(e))', crashes')
             \/ dr'[e] = dr[e] /\ \A k \in AgentKeys : k = Key(e) => Used(k)' <= Used(k)
  PROVE  EffortCapped' /\ FreshUnused' /\ LoopsInBounds'
  <1>t. TypeOK /\ crashes \in Nat
    BY DEF RepeatsInv, Saga, Dedup, TypeOK, EnvTypeOK
  <1>1. ASSUME NEW k \in AgentKeys PROVE Used(k)' <= (crashes' + 1) * AgentEffort(k[2])
    <2>1. AgentEffort(k[2]) \in Nat
      BY EffortTypes DEF AgentKeys, EffectKeys
    <2>2. crashes + 1 \in Nat /\ crashes' + 1 \in Nat /\ crashes + 1 <= crashes' + 1
      <3>1. \A a, b \in Nat : a <= b => a + 1 \in Nat /\ b + 1 \in Nat /\ a + 1 <= b + 1
        OBVIOUS
      <3> QED BY <1>t, <3>1
    <2>3. /\ (crashes + 1) * AgentEffort(k[2]) <= (crashes' + 1) * AgentEffort(k[2])
          /\ (crashes + 1) * AgentEffort(k[2]) \in Nat /\ (crashes' + 1) * AgentEffort(k[2]) \in Nat
      <3> DEFINE a == crashes + 1
                 b == crashes' + 1
                 c == AgentEffort(k[2])
      <3>1. a \in Nat /\ b \in Nat /\ c \in Nat /\ a <= b
        BY <2>1, <2>2
      <3> HIDE DEF a, b, c
      <3>2. a * c <= b * c /\ a * c \in Nat /\ b * c \in Nat
        BY <3>1, Times, TimesMonotonic
      <3> QED BY <3>2 DEF a, b, c
    <2>4. \A a, b, c \in Nat : a <= b /\ b <= c => a <= c
      OBVIOUS
    <2> QED BY <2>3, <2>4
  <1>2. ASSUME NEW e \in Drivers, dr'[e].pc # "idle"
        PROVE  LoopInBounds(dr'[e], Used(Key(e))', crashes')
    <2>1. CASE dr'[e] = dr[e] /\ \A k \in AgentKeys : k = Key(e) => Used(k)' <= Used(k)
      <3>1. PICK j : j = Key(e)
        OBVIOUS
      <3>2. Key(e)' = j
        BY <2>1, <3>1 DEF Key
      <3>3. Looping(dr[e]) => j \in AgentKeys
        BY <1>t, <3>1, ActiveType DEF Looping, Active, AgentKeys, At
      <3>4. Looping(dr[e]) => Used(j)' \in Nat /\ Used(j)' <= Used(Key(e))
        BY <2>1, <3>1, <3>3
      <3>5. LoopInBounds(dr[e], Used(j)', crashes')
        BY <1>2, <2>1, <3>4, LoopStays
      <3> QED BY <2>1, <3>2, <3>5
    <2> QED BY <1>2, <2>1
  <1> QED BY <1>1, <1>2 DEF EffortCapped, FreshUnused, LoopsInBounds

\* A step that uses nothing, and after which no more is fresh.
LEMMA BoundsQuiet ==
  ASSUME RepeatsInv, UNCHANGED crashes,
         \A k \in AgentKeys : Used(k)' \in Nat /\ Used(k)' <= Used(k),
         \A k \in AgentKeys : Fresh(k)' => Fresh(k),
         \A e \in Drivers : dr'[e] = dr[e] \/ dr'[e].pc \in {"idle", "resolving", "raised", "fail"}
                            \/ (dr'[e].pc = "loop" /\ dr'[e].turn = 0)
  PROVE  EffortCapped' /\ FreshUnused' /\ LoopsInBounds'
  <1>t. TypeOK /\ crashes \in Nat /\ EffortCapped /\ FreshUnused /\ IsFiniteSet(inflight)
    BY DEF RepeatsInv, Saga, Dedup, TypeOK, EnvTypeOK
  <1>0. \A a, b, c \in Nat : a <= b /\ b <= c => a <= c
    OBVIOUS
  <1>1. ASSUME NEW k \in AgentKeys
        PROVE  /\ Used(k)' <= (crashes + 1) * AgentEffort(k[2])
               /\ Fresh(k)' => Used(k)' <= crashes' * AgentEffort(k[2])
    <2>1. AgentEffort(k[2]) \in Nat /\ Used(k) \in Nat
      BY <1>t, EffortTypes, UsedType DEF AgentKeys, EffectKeys
    <2>2. (crashes + 1) * AgentEffort(k[2]) \in Nat /\ crashes * AgentEffort(k[2]) \in Nat
      <3>1. \A a, b \in Nat : (a + 1) * b \in Nat /\ a * b \in Nat
        BY Times
      <3> QED BY <1>t, <2>1, <3>1
    <2>3. Used(k)' \in Nat /\ Used(k)' <= Used(k) /\ (Fresh(k)' => Fresh(k)) /\ crashes' = crashes
      OBVIOUS
    <2>4. Used(k) <= (crashes + 1) * AgentEffort(k[2])
      BY <1>t DEF EffortCapped
    <2>5. Fresh(k) => Used(k) <= crashes * AgentEffort(k[2])
      BY <1>t DEF FreshUnused
    <2>6. Used(k)' <= (crashes + 1) * AgentEffort(k[2])
      BY <1>0, <2>1, <2>2, <2>3, <2>4
    <2>7. Fresh(k)' => Used(k)' <= crashes * AgentEffort(k[2])
      BY <1>0, <2>1, <2>2, <2>3, <2>5
    <2> QED BY <2>3, <2>6, <2>7
  <1>2. ASSUME NEW e \in Drivers, dr'[e].pc # "idle", dr'[e] # dr[e]
        PROVE  LoopInBounds(dr'[e], Used(Key(e))', crashes')
    BY <1>2 DEF LoopInBounds, Looping, Gating
  <1> QED BY <1>t, <1>1, <1>2, BoundsKept

\* What is used stays where no call is made.
LEMMA NothingUsed ==
  ASSUME RepeatsInv, UNCHANGED <<posted, inflight>>
  PROVE  /\ IsFiniteSet(inflight')
         /\ \A k \in AgentKeys : Used(k)' = Used(k) /\ Used(k)' \in Nat /\ Used(k)' <= Used(k)
  <1>1. TypeOK /\ IsFiniteSet(inflight)
    BY DEF RepeatsInv, Saga, Dedup
  <1>2. \A k : Used(k)' = Used(k)
    BY DEF Used, LateCalls
  <1>3. \A k \in AgentKeys : Used(k) \in Nat
    BY <1>1, UsedType DEF AgentKeys
  <1> QED BY <1>1, <1>2, <1>3

\* A driver that has begun an agent's step goes on with it, or with its
\* compensation.
LEMMA StillBegun ==
  ASSUME RepeatsInv, AgentsAnswer, NEW d \in Drivers, Moves(d) \/ Works(d),
         NEW s \in Steps, NodeType[s] = "agent", Begun(dr[d], s)
  PROVE  Begun(dr'[d], s)
  <1> DEFINE x == dr[d]
             y == dr'[d]
  <1>t. TypeOK /\ Solo
    BY DEF RepeatsInv, Saga, Dedup
  <1>1. OnTrack(approvals, x) /\ Busy(x) /\ x.pc # "idle"
    BY <1>t DEF Solo, LifecycleInv, DriversOnTrack, Begun, Busy, Active
  <1>2. LoopInBounds(x, Used(Key(d)), crashes)
    BY <1>1 DEF RepeatsInv, LoopsInBounds
  <1>3. y.mem.cursor = x.mem.cursor /\ y.pc \notin {"idle", "resolving", "loop"}
    <2>1. CASE Moves(d)
      BY <1>t, <2>1, MoveView DEF Moved, SameCopy, Gating
    <2>2. CASE Works(d)
      BY <1>t, <2>2, WorkView DEF Worked, SameProgress
    <2> QED BY <2>1, <2>2
  <1>4. \/ y.step = x.step /\ y.comp = x.comp
        \/ ~x.comp /\ y.comp
    BY <1>t, MoveView, WorkView DEF Moved, Worked
  <1>5. y.pc # "raised"
    <2> SUFFICES ASSUME y.pc = "raised" PROVE FALSE
      OBVIOUS
    <2>1. Moves(d) /\ ~y.comp
      BY <1>t, MoveView, WorkView DEF Moved, Worked
    <2>2. x.step = s /\ x.pc \in {"step", "call"} \cup Gating
      BY <1>1, <1>4, <2>1, <1>t, MoveView DEF Begun, Moved, Gating, Busy
    <2>3. Looping(x)
      BY <1>2, <2>2 DEF LoopInBounds, Looping
    <2>4. Key(d) \in EffectKeys
      BY <1>t, <1>1, ActiveType DEF Busy
    <2>5. y.pc \in {"commit", "fail", "step", "call"}
      BY <2>3, <2>4, AgentWork
    <2> QED BY <2>5
  <1>6. x.step = s \/ (x.comp /\ x.mem.cursor = s)
    BY DEF Begun
  <1>7. ~x.comp => x.step = x.mem.cursor
    BY <1>1 DEF OnTrack, Busy
  <1>8. Busy(y)
    BY <1>3, <1>5 DEF Busy, Active
  <1> QED BY <1>3, <1>4, <1>6, <1>7, <1>8 DEF Begun

\* Between two checkpoints nothing gets fresh.
LEMMA FreshBefore ==
  ASSUME RepeatsInv, AgentsAnswer, NEW d \in Drivers, Moves(d) \/ Works(d),
         NEW k \in AgentKeys, Fresh(k)'
  PROVE  Fresh(k) /\ ~(k[1] = dr[d].run /\ Begun(dr[d], k[2]))
  <1>t. TypeOK
    BY DEF RepeatsInv, Saga, Dedup
  <1>0. k[2] \in Steps /\ NodeType[k[2]] = "agent"
    BY DEF AgentKeys, EffectKeys
  <1>1. /\ UNCHANGED runs /\ Put(d, dr'[d]) /\ dr'[d].run = dr[d].run /\ Active(dr[d])
    BY <1>t, MoveView, WorkView DEF Moved, Worked, Active, Gating
  <1>2. dr[d].run \in DOMAIN runs /\ \A e \in Drivers : e # d => dr'[e] = dr[e]
    BY <1>t, <1>1, PutView, ActiveType
  <1>3. ASSUME NEW e \in Drivers, dr[e].run = k[1], Begun(dr[e], k[2])
        PROVE  dr'[e].run = k[1] /\ Begun(dr'[e], k[2])
    BY <1>0, <1>1, <1>2, <1>3, StillBegun
  <1> QED BY <1>1, <1>2, <1>3 DEF Fresh

\* A driver finds the steps ahead of it fresh.
LEMMA FreshAhead ==
  ASSUME RepeatsInv, NEW d \in Drivers, Active(dr[d]), dr[d].pc # "raised",
         NEW s, Ahead(s, dr[d].mem.cursor), ~Begun(dr[d], s), NEW k, k = <<dr[d].run, s>>
  PROVE  Fresh(k)
  <1>t. Solo
    BY DEF RepeatsInv, Saga
  <1>1. Synced(dr[d], runs[dr[d].run].st, trace[dr[d].run].cost, effects) /\ dr[d].pc # "idle"
    BY <1>t DEF Solo, InSync, Active
  <1>2. runs[dr[d].run].st.status \notin Terminal /\ runs[dr[d].run].st.cursor = dr[d].mem.cursor
    BY <1>1 DEF Synced
  <1>3. \A e \in Drivers : dr[e].run = k[1] => ~Begun(dr[e], s)
    BY <1>t, <1>1, DriverAlone DEF Begun, Busy, Active
  <1>4. k[1] = dr[d].run /\ k[2] = s
    OBVIOUS
  <1> QED BY <1>2, <1>3, <1>4 DEF Fresh

\* Between two checkpoints.
LEMMA WorkRepeats ==
  ASSUME RepeatsInv, Acyclic, AgentsAnswer, NEW d \in Drivers, Moves(d) \/ Works(d)
  PROVE  IsFiniteSet(inflight') /\ EffortCapped' /\ FreshUnused' /\ LoopsInBounds'
  <1> DEFINE x == dr[d]
             y == dr'[d]
  <1>t. /\ TypeOK /\ Solo /\ crashes \in Nat /\ IsFiniteSet(inflight)
        /\ EffortCapped /\ FreshUnused /\ CursorsOnPath
    BY DEF RepeatsInv, Saga, Dedup, TypeOK, EnvTypeOK
  <1>1. /\ Put(d, y) /\ y.run = x.run /\ Active(x) /\ x.pc # "raised" /\ x.pc # "idle"
        /\ x.pc \in {"loop", "step", "call", "execute", "record"} \cup Gating
        /\ y.pc \notin {"idle", "loop"}
    BY <1>t, MoveView, WorkView DEF Moved, Worked, Active, Gating
  <1>2. /\ x \in Driver /\ x.step \in Steps /\ Key(d) \in EffectKeys /\ x.run \in RunIds
        /\ x.run \in DOMAIN runs
    BY <1>t, <1>1, ActiveType DEF At
  <1>3. PICK k \in EffectKeys : k = Key(d)
    BY <1>2
  <1>4. k[1] = x.run /\ k[2] = x.step /\ k = <<x.run, x.step>>
    BY <1>3 DEF Key
  <1>5. /\ IsFiniteSet(inflight') /\ UNCHANGED crashes
        /\ \A j \in EffectKeys : j # k => Used(j)' = Used(j)
    BY <1>t, <1>3, WorkUses
  <1>6. LoopInBounds(x, Used(k), crashes) /\ OnTrack(approvals, x)
        /\ Synced(x, runs[x.run].st, trace[x.run].cost, effects)
    BY <1>t, <1>1, <1>3
       DEF RepeatsInv, LoopsInBounds, Solo, LifecycleInv, DriversOnTrack, InSync
  <1>7. y \in Driver /\ y.step \in Steps
    <2>1. [Next]_vars
      BY DEF Next, DriverStep, Moves, Works
    <2>2. TypeOK'
      BY <1>t, <2>1, TypeStep
    <2>3. y.pc \notin {"idle", "resolving"}
      BY <1>t, MoveView, WorkView DEF Moved, Worked, Gating
    <2> QED BY <2>2, <2>3 DEF TypeOK, DriverTypeOK
  <1>8. \A j \in AgentKeys : /\ Used(j) \in Nat /\ AgentEffort(j[2]) \in Nat
                             /\ crashes * AgentEffort(j[2]) \in Nat
                             /\ (crashes + 1) * AgentEffort(j[2]) \in Nat
    <2> SUFFICES ASSUME NEW j \in AgentKeys
                 PROVE  /\ Used(j) \in Nat /\ AgentEffort(j[2]) \in Nat
                        /\ crashes * AgentEffort(j[2]) \in Nat
                        /\ (crashes + 1) * AgentEffort(j[2]) \in Nat
      OBVIOUS
    <2>1. Used(j) \in Nat /\ AgentEffort(j[2]) \in Nat
      BY <1>t, UsedType, EffortTypes DEF AgentKeys, EffectKeys
    <2> QED BY <1>t, <2>1, Times
  \* It is enough to look at the key of the step, and at the new step.
  <1>9. ASSUME k \in AgentKeys => Used(k)' \in Nat /\ Used(k)' <= (crashes + 1) * AgentEffort(k[2]),
               x.pc = "loop" => Used(k)' = Used(k),
               NEW q, q = Key(d)', LoopInBounds(y, Used(q)', crashes)
        PROVE  EffortCapped' /\ FreshUnused' /\ LoopsInBounds'
    <2>1. \A j \in AgentKeys : Used(j)' \in Nat /\ Used(j)' <= (crashes + 1) * AgentEffort(j[2])
      BY <1>t, <1>5, <1>8, <1>9 DEF EffortCapped, AgentKeys
    <2>2. ASSUME NEW j \in AgentKeys, Fresh(j)' PROVE Used(j)' <= crashes' * AgentEffort(j[2])
      <3>1. Fresh(j) /\ ~(j[1] = x.run /\ Begun(x, j[2]))
        BY <2>2, FreshBefore
      <3>2. j = k => x.pc = "loop"
        BY <1>1, <1>4, <3>1 DEF Begun, Busy
      <3>3. Used(j)' = Used(j)
        BY <1>5, <1>9, <3>2 DEF AgentKeys
      <3> QED BY <1>t, <1>5, <3>1, <3>3 DEF FreshUnused
    <2>3. ASSUME NEW e \in Drivers, dr'[e].pc # "idle"
          PROVE  \/ LoopInBounds(dr'[e], Used(Key(e))', crashes')
                 \/ dr'[e] = dr[e] /\ \A j \in AgentKeys : j = Key(e) => Used(j)' <= Used(j)
      <3>1. CASE e = d
        BY <1>5, <1>9, <3>1
      <3>2. CASE e # d
        <4>1. dr'[e] = dr[e]
          BY <1>t, <1>1, <3>2, PutView
        <4>2. dr[e].run # x.run
          BY <1>t, <1>1, <2>3, <3>2, <4>1, DriverAlone
        <4>3. ASSUME NEW j \in AgentKeys, j = Key(e) PROVE Used(j)' <= Used(j)
          <5>1. j # k
            BY <1>4, <4>2, <4>3 DEF Key
          <5>2. Used(j)' = Used(j) /\ Used(j) \in Nat
            BY <1>5, <1>8, <5>1 DEF AgentKeys
          <5> QED BY <5>2
        <4> QED BY <4>1, <4>3
      <3> QED BY <3>1, <3>2
    <2>4. crashes' \in Nat /\ crashes <= crashes'
      BY <1>t, <1>5
    <2> QED BY <2>1, <2>2, <2>3, <2>4, BoundsKept
  <1>10. PICK q : q = Key(d)'
    OBVIOUS
  <1>11. q = <<x.run, y.step>> /\ q \in EffectKeys /\ q[2] = y.step
    BY <1>1, <1>2, <1>7, <1>10 DEF Key, EffectKeys
  \* The compensation begins.
  <1>12. ASSUME y.pc = "step", y.step = CompensateWith[x.step], y.step # None, ~x.comp, y.comp,
                y.turn = 0
         PROVE  LoopInBounds(y, Used(q)', crashes)
    <2>1. Compensates(y.step)
      BY <1>2, <1>7, <1>12 DEF Compensates
    <2>2. x.step = x.mem.cursor /\ ~Compensates(x.mem.cursor)
      BY <1>t, <1>1, <1>2, <1>6, <1>12 DEF OnTrack, Synced, CursorsOnPath
    <2>3. y.step # x.step /\ ~Begun(x, y.step)
      BY <1>12, <2>1, <2>2 DEF Begun
    <2>4. Fresh(q)
      BY <1>1, <1>11, <2>1, <2>3, FreshAhead DEF Ahead
    <2>5. Used(q)' = Used(q) /\ Used(q) \in Nat
      <3>1. q # k
        BY <1>4, <1>11, <2>3
      <3> QED BY <1>t, <1>5, <1>11, <3>1, UsedType
    <2>6. NodeType[y.step] = "agent" => Used(q)' <= crashes * AgentEffort(y.step)
      BY <1>t, <1>11, <2>4, <2>5 DEF FreshUnused, AgentKeys
    <2> QED BY <1>t, <1>7, <1>12, <2>5, <2>6, LoopBegins
  <1>13. CASE x.pc = "loop"
    <2>1. Moves(d)
      BY <1>t, <1>13, WorkView DEF Worked
    <2>2. /\ y.pc = "step" /\ y.step = x.step /\ y.comp = x.comp /\ y.try = 1 /\ y.turn = x.turn
      BY <1>t, <1>13, <2>1, MoveView DEF Moved
    <2>3. UNCHANGED <<posted, inflight>>
      BY <1>13, <2>1 DEF Moves, EnterStep, Escape, TurnsUsedUp, InLoop, RunBranch, RunApproval,
           GateTool, CheckApproval, RefuseCall, ExecuteFail, FailCall, RequestApproval,
           AskApproval, AnswerApproval, envVars
    <2>4. x.turn = 0 /\ q = k /\ Used(k)' = Used(k) /\ Used(k) \in Nat
      BY <1>t, <1>4, <1>6, <1>11, <1>13, <2>2, <2>3, UsedType DEF LoopInBounds, Used, LateCalls
    <2>5. ~x.comp /\ x.step = x.mem.cursor
      BY <1>1, <1>6, <1>13 DEF OnTrack
    <2>6. k \in AgentKeys => Used(k) <= crashes * AgentEffort(k[2])
      <3>1. Rank[x.step] \in Nat
        BY <1>2, RankForward
      <3>2. Ahead(x.step, x.mem.cursor)
        BY <2>5, <3>1 DEF Ahead
      <3>3. ~Begun(x, x.step)
        BY <1>13 DEF Begun, Busy
      <3>4. Fresh(k)
        BY <1>1, <1>4, <3>2, <3>3, FreshAhead
      <3> QED BY <1>t, <3>4 DEF FreshUnused
    <2>7. NodeType[y.step] = "agent" => Used(q)' <= crashes * AgentEffort(y.step)
      BY <1>4, <2>2, <2>4, <2>6 DEF AgentKeys
    <2>8. LoopInBounds(y, Used(q)', crashes)
      BY <1>t, <1>7, <2>2, <2>4, <2>7, LoopBegins
    <2>9. k \in AgentKeys => Used(k)' \in Nat /\ Used(k)' <= (crashes + 1) * AgentEffort(k[2])
      BY <1>t, <2>4 DEF EffortCapped
    <2> QED BY <1>5, <1>9, <1>10, <2>4, <2>8, <2>9
  <1>14. CASE Looping(x)
    <2>1. /\ Used(k)' \in Nat /\ Used(k)' <= (crashes + 1) * AgentEffort(k[2])
          /\ \/ y.step = x.step /\ LoopInBounds(y, Used(k)', crashes)
             \/ /\ y.pc = "step" /\ y.step = CompensateWith[x.step] /\ y.step # None
                /\ y.comp /\ ~x.comp /\ y.turn = 0
      BY <1>3, <1>14, AgentWork
    <2>2. y.step = x.step => q = k
      BY <1>4, <1>11
    <2>3. LoopInBounds(y, Used(q)', crashes)
      BY <1>12, <2>1, <2>2
    <2> QED BY <1>5, <1>9, <1>10, <1>14, <2>1, <2>3 DEF Looping
  <1>15. CASE x.pc # "loop" /\ ~Looping(x)
    <2>1. NodeType[x.step] # "agent"
      BY <1>1, <1>6, <1>15 DEF LoopInBounds, Looping, Gating
    <2>2. Effort(x, y)
      BY <1>t, <1>15, MoveEffort, WorkEffort
    <2>3. LoopInBounds(y, Used(q)', crashes)
      <3>1. CASE y.step = x.step
        <4>1. y.pc # "call"
          BY <1>1, <1>6, <2>1, <2>2, <3>1 DEF Effort, LoopInBounds, Gating
        <4> QED BY <1>1, <2>1, <3>1, <4>1, NoLoop
      <3>2. CASE y.step # x.step
        BY <1>12, <2>2, <3>2 DEF Effort, SameTry
      <3> QED BY <3>1, <3>2
    <2>4. k \notin AgentKeys
      BY <1>4, <2>1 DEF AgentKeys
    <2> QED BY <1>5, <1>9, <1>10, <1>15, <2>3, <2>4
  <1> QED BY <1>5, <1>13, <1>14, <1>15

\* Requests: a run that is created had nothing, one that is resumed is at a
\* step that is as fresh as before.
LEMMA RequestRepeats ==
  ASSUME RepeatsInv, NEW d \in Drivers, Request(d)
  PROVE  IsFiniteSet(inflight') /\ EffortCapped' /\ FreshUnused' /\ LoopsInBounds'
  <1>t. TypeOK
    BY DEF RepeatsInv, Saga, Dedup
  <1>1. dr[d].pc \in {"idle", "resolving"} /\ UNCHANGED <<posted, inflight, crashes>>
    BY <1>t, StartView, FireView
  <1>2. /\ IsFiniteSet(inflight')
        /\ \A k \in AgentKeys : Used(k)' \in Nat /\ Used(k)' <= Used(k)
    BY <1>1, NothingUsed
  <1>3. PICK y : /\ Put(d, y)
                 /\ y.pc \in {"idle", "resolving"} \/ (y.pc = "loop" /\ y.turn = 0)
    <2>1. ASSUME NEW r \in RunIds, NEW st \in RunState
          PROVE  Begin(r, st).pc = "idle" \/ (Begin(r, st).pc = "loop" /\ Begin(r, st).turn = 0)
      <3> DEFINE z == Begin(r, st)
      <3>1. z = Idle \/ (z.pc = "loop" /\ z.turn = 0)
        BY BeginView
      <3> HIDE DEF z
      <3>2. z.pc = "idle" \/ (z.pc = "loop" /\ z.turn = 0)
        BY <3>1, IdleBacked
      <3> QED BY <3>2 DEF z
    <2>2. CASE \E t \in Tenants, k \in Keys, r \in RunIds : Fire(d, t, k, r)
      <3>1. PICK r \in RunIds : Put(d, Begin(r, NewRun))
        BY <1>t, <2>2, FireView
      <3> QED BY <2>1, <3>1, IdleType
    <2>3. ASSUME NEW r, NEW m PROVE [Idle EXCEPT !.pc = "resolving", !.run = r, !.mem = m].pc = "resolving"
      BY DEF Idle
    <2>4. CASE ~\E t \in Tenants, k \in Keys, r \in RunIds : Fire(d, t, k, r)
      <3>1. \/ \E r \in RunIds, st \in RunState : Put(d, Begin(r, st))
            \/ \E r, m : Put(d, [Idle EXCEPT !.pc = "resolving", !.run = r, !.mem = m])
        BY <1>t, <2>4, StartView
      <3> QED BY <2>1, <2>3, <3>1
    <2> QED BY <2>2, <2>4
  <1>4. dr'[d] = y /\ \A e \in Drivers : e # d => dr'[e] = dr[e]
    BY <1>t, <1>3, PutView
  <1>5. \A e \in Drivers : \A s : Begun(dr[e], s) => dr'[e] = dr[e]
    <2>1. \A s : ~Begun(dr[d], s)
      BY <1>1 DEF Begun, Busy, Active
    <2> QED BY <1>4, <2>1
  <1>6. \A q \in DOMAIN runs : q \in DOMAIN runs' /\ runs'[q] = runs[q]
    <2>1. CASE \E t \in Tenants, k \in Keys, r \in RunIds : Fire(d, t, k, r)
      <3>1. PICK t \in Tenants, k \in Keys, r \in RunIds : Fire(d, t, k, r)
        BY <2>1
      <3>2. DOMAIN runs' = DOMAIN runs \cup {r} /\ \A q \in DOMAIN runs : runs'[q] = runs[q]
        BY <1>t, <3>1, FireView
      <3> QED BY <3>2
    <2>2. CASE UNCHANGED runs
      BY <2>2
    <2> QED BY <1>t, <2>1, <2>2, StartView DEF storeVars
  <1>7. \A k \in AgentKeys : Fresh(k)' => Fresh(k)
    BY <1>5, <1>6 DEF Fresh
  <1>8. \A e \in Drivers : dr'[e] = dr[e] \/ dr'[e].pc \in {"idle", "resolving", "raised", "fail"}
                           \/ (dr'[e].pc = "loop" /\ dr'[e].turn = 0)
    BY <1>3, <1>4
  <1> QED BY <1>1, <1>2, <1>7, <1>8, BoundsQuiet

\* Checkpoints: a step that is committed is behind its run, a run that fails
\* has nothing ahead, and only at other steps does a run pause.
LEMMA SaveRepeats ==
  ASSUME RepeatsInv, Acyclic, NEW d \in Drivers, Saves(d)
  PROVE  IsFiniteSet(inflight') /\ EffortCapped' /\ FreshUnused' /\ LoopsInBounds'
  <1> DEFINE x == dr[d]
             r == x.run
  <1>t. TypeOK /\ Solo /\ CursorsOnPath
    BY DEF RepeatsInv, Saga, Dedup
  <1>1. /\ Put(d, dr'[d]) /\ r \in DOMAIN runs /\ UNCHANGED <<posted, inflight, crashes>>
        /\ \E st \in RunState : Saved(x, dr'[d], st) /\ Checkpoint(r, st, x.buf)
    BY <1>t, SaveView DEF envVars
  <1>2. PICK st \in RunState : Saved(x, dr'[d], st) /\ Checkpoint(r, st, x.buf)
    BY <1>1
  <1>3. /\ DOMAIN runs' = DOMAIN runs /\ runs'[r].st = st
        /\ \A q \in DOMAIN runs : q # r => runs'[q] = runs[q]
    BY <1>t, <1>1, <1>2, CheckpointView
  <1>4. Active(x) /\ x.pc # "raised" /\ x.pc # "idle"
    BY <1>2 DEF Saved, Active
  <1>5. x.step \in Steps /\ x.mem.ctx \in Context
    BY <1>t, <1>4, ActiveType DEF At, Mem, RunState
  <1>6. /\ Synced(x, runs[r].st, trace[r].cost, effects) /\ OnTrack(approvals, x)
        /\ LoopInBounds(x, Used(Key(d)), crashes)
    BY <1>t, <1>4 DEF Solo, InSync, LifecycleInv, DriversOnTrack, RepeatsInv, LoopsInBounds
  <1>7. runs[r].st.status \notin Terminal /\ runs[r].st.cursor = x.mem.cursor /\ x.mem.cursor \in Steps
    BY <1>4, <1>6 DEF Synced, OnTrack
  <1>8. \A e \in Drivers : e # d => dr'[e] = dr[e]
    BY <1>t, <1>1, PutView
  <1>9. \A e \in Drivers : e # d /\ dr[e].pc # "idle" => dr[e].run # r
    BY <1>t, <1>4, DriverAlone
  <1>10. /\ IsFiniteSet(inflight')
         /\ \A k \in AgentKeys : Used(k)' \in Nat /\ Used(k)' <= Used(k)
    BY <1>1, NothingUsed
  <1>11. ASSUME NEW k \in AgentKeys, Fresh(k)' PROVE Fresh(k)
    <2>0. k[2] \in Steps /\ NodeType[k[2]] = "agent"
      BY DEF AgentKeys, EffectKeys
    <2>1. CASE k[1] # r
      BY <1>3, <1>8, <1>11, <2>1 DEF Fresh
    <2>2. CASE k[1] = r
      <3>1. /\ st.status \notin Terminal /\ Ahead(k[2], st.cursor)
            /\ \A e \in Drivers : dr'[e].run = r => ~Begun(dr'[e], k[2])
        BY <1>1, <1>3, <1>11, <2>2 DEF Fresh
      <3>2. SUFFICES Ahead(k[2], x.mem.cursor) /\ ~Begun(x, k[2])
        BY <1>7, <1>9, <2>2 DEF Fresh, Begun, Busy, Active
      <3>3. CASE x.pc = "commit"
        <4>1. ~x.comp /\ x.step = x.mem.cursor /\ ~Compensates(x.step)
          BY <1>t, <1>1, <1>4, <1>6, <1>7, <3>3 DEF OnTrack, CursorsOnPath
        <4>2. st.cursor = Successor(x.step, x.mem.ctx) /\ st.cursor # None /\ st.cursor \in Steps
          BY <1>2, <3>1, <3>3 DEF Saved, Terminal, RunState
        <4>3. Rank[st.cursor] > Rank[x.step] /\ Rank[x.step] \in Nat /\ Rank[st.cursor] \in Nat
              /\ Rank[k[2]] \in Nat
          BY <1>5, <2>0, <4>2, RankForward DEF Forward
        <4>4. Ahead(k[2], x.mem.cursor)
          BY <3>1, <4>1, <4>3 DEF Ahead
        <4>5. k[2] # x.step
          BY <3>1, <4>1, <4>3 DEF Ahead
        <4> QED BY <4>1, <4>4, <4>5 DEF Begun
      <3>4. CASE x.pc = "pause"
        <4>1. NodeType[x.step] # "agent" /\ st.cursor = x.mem.cursor
          BY <1>2, <1>6, <3>4 DEF LoopInBounds, Saved
        <4>2. CASE ~x.comp
          BY <2>0, <3>1, <4>1, <4>2 DEF Begun
        <4>3. CASE x.comp
          <5>1. /\ dr'[d].pc = "fail" /\ dr'[d].run = r /\ dr'[d].comp
                /\ dr'[d].mem.cursor = x.mem.cursor /\ dr'[d].step = x.step
            BY <1>2, <3>4, <4>1, <4>3 DEF Saved
          <5>2. Busy(dr'[d])
            BY <5>1 DEF Busy, Active
          <5> QED BY <3>1, <4>1, <4>3, <5>1, <5>2 DEF Begun
        <4> QED BY <4>2, <4>3
      <3>5. CASE x.pc \in {"loop", "fail"}
        BY <1>2, <3>1, <3>5 DEF Saved, Terminal
      <3> QED BY <1>2, <3>3, <3>4, <3>5 DEF Saved
    <2> QED BY <2>1, <2>2
  <1>12. \/ dr'[d].pc \in {"idle", "resolving", "raised", "fail"}
         \/ dr'[d].pc = "loop" /\ dr'[d].turn = 0
    BY <1>2, IdleBacked DEF Saved
  <1> QED BY <1>1, <1>8, <1>10, <1>11, <1>12, BoundsQuiet

\* Crashes, returns, cancels, purges and late calls.
LEMMA OtherRepeats ==
  ASSUME RepeatsInv,
         \/ \E d \in Drivers : Crash(d) \/ Return(d)
         \/ \E r \in RunIds : Cancel(r)
         \/ \E t, old : Purge(t, old)
         \/ \E c \in inflight : Land(c)
         \/ UNCHANGED vars
  PROVE  IsFiniteSet(inflight') /\ EffortCapped' /\ FreshUnused' /\ LoopsInBounds'
  <1>t. TypeOK /\ IsFiniteSet(inflight) /\ crashes \in Nat /\ EffortCapped
    BY DEF RepeatsInv, Saga, Dedup, TypeOK, EnvTypeOK
  \* A crash: the next driver begins the step anew.
  <1>1. ASSUME NEW d \in Drivers, Crash(d)
        PROVE  IsFiniteSet(inflight') /\ EffortCapped' /\ FreshUnused' /\ LoopsInBounds'
    <2>1. Put(d, Idle) /\ UNCHANGED <<posted, inflight>> /\ crashes' = crashes + 1
      BY <1>1 DEF Crash
    <2>2. /\ IsFiniteSet(inflight')
          /\ \A k \in AgentKeys : Used(k)' = Used(k) /\ Used(k)' \in Nat /\ Used(k)' <= Used(k)
      BY <2>1, NothingUsed
    <2>3. dr'[d].pc = "idle" /\ \A e \in Drivers : e # d => dr'[e] = dr[e]
      BY <1>t, <2>1, PutView, IdleBacked
    <2>4. crashes' \in Nat /\ crashes <= crashes'
      BY <1>t, <2>1
    <2>5. \A k \in AgentKeys : Used(k)' <= (crashes + 1) * AgentEffort(k[2])
      BY <1>t, <2>2 DEF EffortCapped
    <2>6. \A k \in AgentKeys : Used(k)' <= crashes' * AgentEffort(k[2])
      BY <2>1, <2>5
    <2> QED BY <2>2, <2>3, <2>4, <2>5, <2>6, BoundsKept
  <1>2. ASSUME NEW d \in Drivers, Return(d)
        PROVE  IsFiniteSet(inflight') /\ EffortCapped' /\ FreshUnused' /\ LoopsInBounds'
    <2>1. Put(d, Idle) /\ UNCHANGED <<runs, posted, inflight, crashes>> /\ dr[d].pc = "raised"
      BY <1>2 DEF Return, storeVars, envVars
    <2>2. dr'[d].pc = "idle" /\ \A e \in Drivers : e # d => dr'[e] = dr[e]
      BY <1>t, <2>1, PutView, IdleBacked
    <2>3. \A e \in Drivers : \A s : Begun(dr[e], s) => dr'[e] = dr[e]
      BY <2>1, <2>2 DEF Begun, Busy
    <2>4. \A k \in AgentKeys : Fresh(k)' => Fresh(k)
      BY <2>1, <2>3 DEF Fresh
    <2> QED BY <2>1, <2>2, <2>4, NothingUsed, BoundsQuiet
  <1>3. ASSUME NEW r \in RunIds, Cancel(r)
        PROVE  IsFiniteSet(inflight') /\ EffortCapped' /\ FreshUnused' /\ LoopsInBounds'
    <2>1. /\ DOMAIN runs' = DOMAIN runs /\ \A q \in DOMAIN runs : q # r => runs'[q] = runs[q]
          /\ runs'[r].st.status = "canceled" /\ UNCHANGED <<dr, posted, inflight, crashes>>
      BY <1>t, <1>3, CancelView
    <2>2. \A k \in AgentKeys : Fresh(k)' => Fresh(k)
      BY <2>1 DEF Fresh, Terminal
    <2> QED BY <2>1, <2>2, NothingUsed, BoundsQuiet
  <1>4. CASE UNCHANGED <<runs, dr, posted, inflight, crashes>>
    <2>1. \A k \in AgentKeys : Fresh(k)' => Fresh(k)
      BY <1>4 DEF Fresh
    <2> QED BY <1>4, <2>1, NothingUsed, BoundsQuiet
  <1>5. ASSUME NEW c \in inflight, Land(c)
        PROVE  IsFiniteSet(inflight') /\ EffortCapped' /\ FreshUnused' /\ LoopsInBounds'
    <2>1. UNCHANGED <<runs, dr, crashes>>
      BY <1>5 DEF Land, storeVars
    <2>2. /\ IsFiniteSet(inflight')
          /\ \A k \in AgentKeys : Used(k)' \in Nat /\ Used(k)' <= Used(k)
      BY <1>t, <1>5, LandUsesNothing DEF AgentKeys
    <2>3. \A k \in AgentKeys : Fresh(k)' => Fresh(k)
      BY <2>1 DEF Fresh
    <2> QED BY <2>1, <2>2, <2>3, BoundsQuiet
  <1>6. ASSUME NEW t, NEW old, Purge(t, old)
        PROVE  UNCHANGED <<runs, dr, posted, inflight, crashes>>
    BY <1>t, <1>6, PurgeView
  <1>7. UNCHANGED vars => UNCHANGED <<runs, dr, posted, inflight, crashes>>
    BY DEF vars
  <1> QED BY <1>1, <1>2, <1>3, <1>4, <1>5, <1>6, <1>7

\* The invariant of the agents' calls holds.
LEMMA RepeatsStep ==
  ASSUME MaxOverlaps = 0, CompensationOffPath, Acyclic, AgentsAnswer
  PROVE  (Init => RepeatsInv) /\ (RepeatsInv /\ [Next]_vars => RepeatsInv')
  <1>1. ASSUME Init PROVE RepeatsInv
    <2>1. /\ inflight = {} /\ posted = [k \in EffectKeys |-> <<>>] /\ crashes = 0
          /\ dr = [d \in Drivers |-> Idle]
      BY <1>1 DEF Init
    <2>2. ASSUME NEW k \in AgentKeys
          PROVE  /\ Used(k) <= (crashes + 1) * AgentEffort(k[2])
                 /\ Used(k) <= crashes * AgentEffort(k[2])
      <3>1. LateCalls(k) = {} /\ Len(posted[k]) = 0
        BY <2>1 DEF LateCalls, AgentKeys
      <3>2. Used(k) = 0
        BY <3>1, FS_EmptySet DEF Used
      <3>3. AgentEffort(k[2]) \in Nat
        BY EffortTypes DEF AgentKeys, EffectKeys
      <3>4. (0 + 1) * AgentEffort(k[2]) \in Nat /\ 0 * AgentEffort(k[2]) = 0
        BY <3>3, Times
      <3> QED BY <2>1, <3>2, <3>4
    <2>3. EffortCapped /\ FreshUnused /\ LoopsInBounds
      BY <2>1, <2>2, IdleBacked DEF EffortCapped, FreshUnused, LoopsInBounds
    <2> QED BY <1>1, <2>1, <2>3, SagaStep, FS_EmptySet DEF RepeatsInv
  <1>2. ASSUME RepeatsInv, [Next]_vars PROVE RepeatsInv'
    <2>1. Saga'
      BY <1>2, SagaStep DEF RepeatsInv
    <2>2. IsFiniteSet(inflight') /\ EffortCapped' /\ FreshUnused' /\ LoopsInBounds'
      BY <1>2, NextKinds, RequestRepeats, WorkRepeats, SaveRepeats, OtherRepeats
    <2> QED BY <2>1, <2>2 DEF RepeatsInv
  <1> QED BY <1>1, <1>2

\* What a receiver that ignores keys holds of an agent step is at most one
\* effort (every attempt, round and call, each landing twice where calls can
\* time out) for the run and one for every process that died, in every acyclic
\* workflow whose agents answer within their turns (agent.py _exec_call).
THEOREM AgentCallsAreBounded ==
  ASSUME MaxOverlaps = 0, CompensationOffPath, Acyclic, AgentsAnswer
  PROVE  Spec => []AgentRepeatsAreBounded
  <1>1. RepeatsInv => AgentRepeatsAreBounded
    <2> SUFFICES ASSUME RepeatsInv, NEW k \in EffectKeys, NodeType[k[2]] = "agent"
                 PROVE  Len(posted[k]) <= (crashes + 1) * AgentEffort(k[2])
      BY DEF AgentRepeatsAreBounded
    <2>1. k \in AgentKeys /\ TypeOK /\ IsFiniteSet(inflight) /\ crashes \in Nat
      BY DEF AgentKeys, RepeatsInv, Saga, Dedup, TypeOK, EnvTypeOK
    <2>2. Used(k) <= (crashes + 1) * AgentEffort(k[2])
      BY <2>1 DEF RepeatsInv, EffortCapped
    <2>3. Len(posted[k]) \in Nat /\ Cardinality(LateCalls(k)) \in Nat
      BY <2>1, UsedType
    <2>4. AgentEffort(k[2]) \in Nat
      BY EffortTypes DEF EffectKeys
    <2> DEFINE b == (crashes + 1) * AgentEffort(k[2])
               l == Len(posted[k])
               m == Cardinality(LateCalls(k))
    <2>5. b \in Nat /\ l \in Nat /\ m \in Nat /\ l + m <= b
      BY <2>1, <2>2, <2>3, <2>4, Times DEF Used
    <2> HIDE DEF b, l, m
    <2>6. l <= b
      BY <2>5
    <2> QED BY <2>6 DEF b, l
  <1> QED BY <1>1, RepeatsStep, PTL DEF Spec

-----------------------------------------------------------------------------
(* The refinement: the initial states map to initial states of             *)
(* RunLifecycle, and every step to a step or to a stutter.                 *)

\* What RunLifecycle sees of a state.
Phases == [r \in RunIds |-> PhaseOf(r)]
Cursors == [r \in RunIds |-> IF r \in DOMAIN runs THEN runs[r].st.cursor ELSE None]
Held == [k \in EffectKeys |-> Len(posted[k])]
Sent == {c[1] : c \in inflight}

\* An external system takes a call, or a step leaves one behind.
Taken(k) ==
    \/ UNCHANGED Held
    \/ (k[2] \in KeyedTools => Held[k] = 0) /\ Held' = [Held EXCEPT ![k] = @ + 1]

\* Rows that RunLifecycle cannot tell apart.
LEMMA SameRowsSeen ==
  ASSUME DOMAIN runs' = DOMAIN runs,
         \A q \in DOMAIN runs : /\ runs'[q].st.cursor = runs[q].st.cursor
                                /\ \/ runs'[q].st.status = runs[q].st.status
                                   \/ {runs[q].st.status, runs'[q].st.status} \cap Terminal = {}
  PROVE  UNCHANGED <<Phases, Cursors>>
  BY DEF Phases, Cursors, PhaseOf

\* One row changes.
LEMMA OneRowSeen ==
  ASSUME NEW r \in RunIds, DOMAIN runs' = DOMAIN runs \cup {r},
         \A q \in DOMAIN runs : q # r => runs'[q] = runs[q]
  PROVE  /\ Phases' = [Phases EXCEPT ![r] = IF runs'[r].st.status \in Terminal
                                            THEN runs'[r].st.status ELSE "live"]
         /\ Cursors' = [Cursors EXCEPT ![r] = runs'[r].st.cursor]
  BY DEF Phases, Cursors, PhaseOf

\* A receiver that honours the key takes it once.
LEMMA PostTaken ==
  ASSUME TypeOK, NEW k \in EffectKeys, NEW a, NEW v, Post(k, a, v)
  PROVE  Taken(k)
  <1>1. posted \in [EffectKeys -> Seq(Posting)]
    BY DEF TypeOK, EnvTypeOK
  <1>2. CASE posted' = posted
    BY <1>2 DEF Taken, Held
  <1>3. CASE posted' # posted
    <2> DEFINE p == [args |-> a, result |-> v]
    <2>1. posted' = [posted EXCEPT ![k] = Append(posted[k], p)] /\ ~(Dedupes[k[2]] /\ Repeats(k, a))
      BY <1>3 DEF Post
    <2>2. k[2] \in KeyedTools => Len(posted[k]) = 0
      BY <1>1, <2>1 DEF KeyedTools, MutatingTools, Repeats, Holds
    <2> HIDE DEF p
    <2>3. Len(Append(posted[k], p)) = Len(posted[k]) + 1
      BY <1>1
    <2>4. \A j \in EffectKeys : Len(posted'[j]) = IF j = k THEN Len(posted[k]) + 1 ELSE Len(posted[j])
      BY <1>1, <2>1, <2>3
    <2>5. Held' = [Held EXCEPT ![k] = @ + 1] /\ Held[k] = Len(posted[k])
      BY <2>4 DEF Held
    <2> QED BY <2>2, <2>5 DEF Taken
  <1> QED BY <1>2, <1>3

\* The steps of RunLifecycle in these terms, from nothing to a late call.
LEMMA NothingSeen ==
  ASSUME UNCHANGED <<Phases, Cursors, Held, Sent>>
  PROVE  UNCHANGED Lifecycle!vars
  BY DEF Lifecycle!vars, Phases, Cursors, Held, Sent

\* A run is accepted.
LEMMA AcceptSeen ==
  ASSUME NEW r \in RunIds, Phases[r] = "absent", Phases' = [Phases EXCEPT ![r] = "live"],
         Cursors' = [Cursors EXCEPT ![r] = Start], UNCHANGED <<Held, Sent>>
  PROVE  Lifecycle!Next
  BY DEF Lifecycle!Next, Lifecycle!Accept, Phases, Cursors, Held, Sent

\* A run fails or is cancelled.
LEMMA AbortSeen ==
  ASSUME NEW r \in RunIds, Phases[r] = "live",
         \E end \in {"failed", "canceled"} : Phases' = [Phases EXCEPT ![r] = end],
         UNCHANGED <<Cursors, Held, Sent>>
  PROVE  Lifecycle!Next
  BY DEF Lifecycle!Next, Lifecycle!Abort, Phases, Cursors, Held, Sent

\* A run calls an external system.
LEMMA CallSeen ==
  ASSUME NEW r \in RunIds, NEW s \in Steps, Phases[r] = "live",
         s \in {Cursors[r], CompensateWith[Cursors[r]]} \ {None},
         Taken(<<r, s>>), Sent' \in {Sent, Sent \cup {<<r, s>>}}, UNCHANGED <<Phases, Cursors>>
  PROVE  Lifecycle!Next
  BY DEF Lifecycle!Next, Lifecycle!Call, Lifecycle!Take, Taken, Phases, Cursors, Held, Sent

\* A run moves along the graph.
LEMMA AdvanceSeen ==
  ASSUME NEW r \in RunIds, NEW next \in Steps \cup {None}, Phases[r] = "live",
         next \in FollowsOf[Cursors[r]],
         Cursors[r] \in MutatingTools => Held[<<r, Cursors[r]>>] > 0,
         Cursors' = [Cursors EXCEPT ![r] = next],
         Phases' = [Phases EXCEPT ![r] = IF next = None THEN "succeeded" ELSE "live"],
         UNCHANGED <<Held, Sent>>
  PROVE  Lifecycle!Next
  BY DEF Lifecycle!Next, Lifecycle!Advance, Phases, Cursors, Held, Sent

\* A late call arrives.
LEMMA ArriveSeen ==
  ASSUME NEW k \in Sent, Taken(k), Sent' \in {Sent, Sent \ {k}}, UNCHANGED <<Phases, Cursors>>
  PROVE  Lifecycle!Next
  BY DEF Lifecycle!Next, Lifecycle!Arrive, Lifecycle!Take, Taken, Phases, Cursors, Held, Sent

\* A call of a driver, or one it leaves behind, is for the step its run has
\* reached or for that step's compensation, and the run is live.
LEMMA DriverCalls ==
  ASSUME Solo, NEW d \in Drivers, Active(dr[d]), dr[d].pc # "raised",
         UNCHANGED runs, Taken(Key(d)), Sent' \in {Sent, Sent \cup {Key(d)}}
  PROVE  Lifecycle!Next
  <1> DEFINE x == dr[d]
             r == x.run
  <1>1. r \in RunIds /\ r \in DOMAIN runs /\ x.step \in Steps /\ Key(d) = <<r, x.step>>
    BY ActiveType DEF Solo, LifecycleInv, At, Key
  <1>2. Synced(x, runs[r].st, trace[r].cost, effects) /\ OnTrack(approvals, x)
    BY DEF Solo, InSync, LifecycleInv, DriversOnTrack, Active
  <1>3. /\ runs[r].st.status \notin Terminal
        /\ x.step \in {runs[r].st.cursor, CompensateWith[runs[r].st.cursor]}
    BY <1>2 DEF Synced, OnTrack
  <1>4. Phases[r] = "live" /\ Cursors[r] = runs[r].st.cursor
    BY <1>1, <1>3 DEF Phases, Cursors, PhaseOf
  <1>5. UNCHANGED <<Phases, Cursors>>
    BY SameRowsSeen
  <1>6. x.step \in {Cursors[r], CompensateWith[Cursors[r]]} \ {None}
    BY <1>1, <1>3, <1>4, StepAssumption
  <1> QED BY <1>1, <1>4, <1>5, <1>6, CallSeen

\* A driver between two checkpoints.
LEMMA WorkImplements ==
  ASSUME Solo, NEW d \in Drivers, Moves(d) \/ Works(d)
  PROVE  Lifecycle!Next \/ UNCHANGED Lifecycle!vars
  <1>t. TypeOK
    BY DEF Solo, LifecycleInv
  <1>0. UNCHANGED runs /\ Active(dr[d]) /\ dr[d].pc # "raised" /\ Key(d) \in EffectKeys
    BY <1>t, MoveView, WorkView, ActiveType DEF Moved, Worked, Active, Gating
  <1>1. ASSUME NEW a, NEW l \in Left(Key(d), a), inflight' = inflight \cup l
        PROVE  Sent' \in {Sent, Sent \cup {Key(d)}}
    <2>1. \A c \in l : c[1] = Key(d)
      BY LeftCalls
    <2>2. CASE l = {}
      BY <1>1, <2>2 DEF Sent
    <2>3. CASE l # {}
      BY <1>1, <2>1, <2>3 DEF Sent
    <2> QED BY <2>2, <2>3
  <1>2. UNCHANGED posted => Taken(Key(d))
    BY DEF Taken, Held
  <1>3. CASE ExecuteOk(d)
    <2>1. UNCHANGED posted \/ \E v : Post(Key(d), Args(d), v)
      BY <1>3 DEF ExecuteOk
    <2>2. \E l \in Left(Key(d), Args(d)) : inflight' = inflight \cup l
      BY <1>3 DEF ExecuteOk, Left
    <2>3. Taken(Key(d)) /\ Sent' \in {Sent, Sent \cup {Key(d)}}
      BY <1>t, <1>0, <1>1, <1>2, <2>1, <2>2, PostTaken
    <2> QED BY <1>0, <2>3, DriverCalls
  <1>4. CASE ExecuteCall(d)
    <2>1. PICK a : /\ (\E v : Post(Key(d), a, v)) \/ UNCHANGED posted
                   /\ \E l \in Left(Key(d), a) : inflight' = inflight \cup l
      BY <1>4 DEF ExecuteCall, Left
    <2>2. Taken(Key(d)) /\ Sent' \in {Sent, Sent \cup {Key(d)}}
      BY <1>t, <1>0, <1>1, <1>2, <2>1, PostTaken
    <2> QED BY <1>0, <2>2, DriverCalls
  <1>5. CASE ExecuteFail(d) \/ FailCall(d)
    <2>1. UNCHANGED posted
      BY <1>5 DEF ExecuteFail, FailCall
    <2>2. \E a : \E l \in Left(Key(d), a) : inflight' = inflight \cup l
      BY <1>5 DEF ExecuteFail, FailCall, Left
    <2>3. Taken(Key(d)) /\ Sent' \in {Sent, Sent \cup {Key(d)}}
      BY <1>1, <1>2, <2>1, <2>2
    <2> QED BY <1>0, <2>3, DriverCalls
  <1>6. CASE UNCHANGED <<posted, inflight>>
    <2>1. UNCHANGED <<Held, Sent>>
      BY <1>6 DEF Held, Sent
    <2> QED BY <1>0, <2>1, SameRowsSeen, NothingSeen
  <1>7. \/ ExecuteOk(d) \/ ExecuteCall(d) \/ ExecuteFail(d) \/ FailCall(d)
        \/ UNCHANGED <<posted, inflight>>
    BY DEF Moves, Works, EnterStep, Escape, TurnsUsedUp, RunBranch, RunApproval, GateTool,
           CheckApproval, RefuseCall, RequestApproval, AskApproval, AnswerApproval,
           ModelAnswers, ModelCalls, RecordTool, ReplayTool, envVars
  <1> QED BY <1>3, <1>4, <1>5, <1>6, <1>7

\* A checkpoint: the run moves on, ends, or waits.
LEMMA SaveImplements ==
  ASSUME Solo, NEW d \in Drivers, Saves(d)
  PROVE  Lifecycle!Next \/ UNCHANGED Lifecycle!vars
  <1> DEFINE x == dr[d]
             r == x.run
  <1>t. TypeOK
    BY DEF Solo, LifecycleInv
  <1>1. /\ r \in DOMAIN runs /\ UNCHANGED envVars
        /\ \E st \in RunState : Saved(x, dr'[d], st) /\ Checkpoint(r, st, x.buf)
    BY <1>t, SaveView
  <1>2. PICK st \in RunState : Saved(x, dr'[d], st) /\ Checkpoint(r, st, x.buf)
    BY <1>1
  <1>3. /\ DOMAIN runs' = DOMAIN runs /\ runs'[r].st = st
        /\ \A q \in DOMAIN runs : q # r => runs'[q] = runs[q]
    BY <1>t, <1>1, <1>2, CheckpointView
  <1>4. UNCHANGED <<Held, Sent>>
    BY <1>1 DEF Held, Sent, envVars
  <1>5. Active(x) /\ x.pc # "raised" /\ r \in RunIds /\ x.step \in Steps /\ x.mem.ctx \in Context
    <2>1. Active(x) /\ x.pc # "raised"
      BY <1>2 DEF Saved, Active
    <2> QED BY <1>t, <2>1, ActiveType DEF At, Mem, RunState
  <1>6. Synced(x, runs[r].st, trace[r].cost, effects) /\ OnTrack(approvals, x)
    BY <1>5 DEF Solo, InSync, LifecycleInv, DriversOnTrack, Active
  <1>7. runs[r].st.status \notin Terminal /\ runs[r].st.cursor = x.mem.cursor
    BY <1>5, <1>6 DEF Synced
  <1>8. Phases[r] = "live" /\ Cursors[r] = x.mem.cursor
    BY <1>1, <1>5, <1>7 DEF Phases, Cursors, PhaseOf
  <1>9. /\ Phases' = [Phases EXCEPT ![r] = IF st.status \in Terminal THEN st.status ELSE "live"]
        /\ Cursors' = [Cursors EXCEPT ![r] = st.cursor]
    BY <1>1, <1>3, <1>5, OneRowSeen
  <1>10. CASE x.pc \in {"loop", "fail"}
    <2>1. st.status = "failed" /\ st.cursor = x.mem.cursor
      BY <1>2, <1>10 DEF Saved
    <2>2. Phases' = [Phases EXCEPT ![r] = "failed"] /\ UNCHANGED Cursors
      BY <1>5, <1>8, <1>9, <2>1 DEF Terminal, Cursors
    <2> QED BY <1>4, <1>5, <1>8, <2>2, AbortSeen
  <1>11. CASE x.pc = "commit"
    <2>1. /\ st.cursor = Successor(x.step, x.mem.ctx)
          /\ st.status = (IF st.cursor = None THEN "succeeded" ELSE x.mem.status)
      BY <1>2, <1>11 DEF Saved
    <2>2. x.step = x.mem.cursor /\ x.mem.status = "running"
      BY <1>5, <1>6, <1>11 DEF OnTrack
    <2>3. st.cursor \in FollowsOf[Cursors[r]] /\ st.cursor \in Steps \cup {None}
      BY <1>2, <1>5, <1>8, <2>1, <2>2 DEF FollowsOf, RunState
    <2>4. Cursors[r] \in MutatingTools => Held[<<r, Cursors[r]>>] > 0
      <3>1. SUFFICES ASSUME x.step \in MutatingTools PROVE Held[<<r, x.step>>] > 0
        BY <1>8, <2>2
      <3>2. <<r, x.step>> \in DOMAIN effects
        BY <1>6, <1>11, <3>1 DEF Synced, MutatingTools
      <3>3. Holds(<<r, x.step>>)
        BY <3>2 DEF Solo, ExactlyOnce, LedgerBacked
      <3> QED BY <1>5, <3>3 DEF Holds, Held, EffectKeys
    <2>5. (IF st.status \in Terminal THEN st.status ELSE "live") =
              (IF st.cursor = None THEN "succeeded" ELSE "live")
      BY <2>1, <2>2 DEF Terminal
    <2> QED BY <1>4, <1>5, <1>8, <1>9, <2>3, <2>4, <2>5, AdvanceSeen
  <1>12. CASE x.pc = "pause"
    <2>1. st.status = "waiting_approval" /\ st.cursor = x.mem.cursor
      BY <1>2, <1>12 DEF Saved
    <2>2. UNCHANGED <<Phases, Cursors>>
      BY <1>3, <1>7, <2>1, SameRowsSeen DEF Terminal
    <2> QED BY <1>4, <2>2, NothingSeen
  <1> QED BY <1>2, <1>10, <1>11, <1>12 DEF Saved

\* Every step of the engine is a step of RunLifecycle, or shows nothing.
LEMMA StepImplements ==
  ASSUME Solo, [Next]_vars
  PROVE  [Lifecycle!Next]_(Lifecycle!vars)
  <1>t. TypeOK
    BY DEF Solo, LifecycleInv
  <1>1. ASSUME NEW d \in Drivers, Request(d)
        PROVE  Lifecycle!Next \/ UNCHANGED Lifecycle!vars
    <2>1. CASE \E t \in Tenants, k \in Keys, r \in RunIds : Fire(d, t, k, r)
      <3>1. PICK t \in Tenants, k \in Keys, r \in RunIds : Fire(d, t, k, r)
        BY <2>1
      <3>2. /\ r \notin DOMAIN runs /\ DOMAIN runs' = DOMAIN runs \cup {r} /\ runs'[r].st = NewRun
            /\ \A q \in DOMAIN runs : runs'[q] = runs[q]
            /\ UNCHANGED <<posted, inflight>>
        BY <1>t, <3>1, FireView
      <3>3. Phases[r] = "absent" /\ UNCHANGED <<Held, Sent>>
        BY <3>2 DEF Phases, PhaseOf, Held, Sent
      <3>4. NewRun.status = "pending" /\ NewRun.cursor = Start
        BY DEF NewRun
      <3>5. Phases' = [Phases EXCEPT ![r] = "live"] /\ Cursors' = [Cursors EXCEPT ![r] = Start]
        BY <3>2, <3>4, OneRowSeen DEF Terminal
      <3> QED BY <3>3, <3>5, AcceptSeen
    <2>2. CASE UNCHANGED <<runs, posted, inflight>>
      <3>1. UNCHANGED <<Held, Sent>>
        BY <2>2 DEF Held, Sent
      <3> QED BY <2>2, <3>1, SameRowsSeen, NothingSeen
    <2> QED BY <1>t, <1>1, <2>1, <2>2, StartView DEF storeVars
  <1>2. ASSUME NEW r \in RunIds, Cancel(r)
        PROVE  Lifecycle!Next
    <2>1. /\ r \in DOMAIN runs /\ runs[r].st.status \notin Terminal
          /\ DOMAIN runs' = DOMAIN runs /\ \A q \in DOMAIN runs : q # r => runs'[q] = runs[q]
          /\ runs'[r].st.status = "canceled" /\ runs'[r].st.cursor = runs[r].st.cursor
          /\ UNCHANGED <<posted, inflight>>
      BY <1>t, <1>2, CancelView
    <2>2. Phases[r] = "live" /\ UNCHANGED <<Held, Sent>> /\ Cursors[r] = runs[r].st.cursor
      BY <2>1 DEF Phases, PhaseOf, Held, Sent, Cursors
    <2>3. /\ Phases' = [Phases EXCEPT ![r] = "canceled"]
          /\ Cursors' = [Cursors EXCEPT ![r] = Cursors[r]]
      BY <2>1, <2>2, OneRowSeen DEF Terminal
    <2>4. UNCHANGED Cursors
      BY <2>3 DEF Cursors
    <2> QED BY <2>2, <2>3, <2>4, AbortSeen
  <1>3. ASSUME NEW c \in inflight, Land(c)
        PROVE  Lifecycle!Next
    <2>1. c[1] \in EffectKeys /\ c[1] \in Sent
      BY <1>t DEF TypeOK, EnvTypeOK, Sent
    <2>2. /\ UNCHANGED runs /\ inflight' = inflight \ {c}
          /\ \E v : Post(c[1], c[2], v)
      BY <1>3 DEF Land, storeVars
    <2>3. Taken(c[1]) /\ UNCHANGED <<Phases, Cursors>>
      BY <1>t, <2>1, <2>2, PostTaken, SameRowsSeen
    <2>4. Sent' \in {Sent, Sent \ {c[1]}}
      <3>1. CASE \E e \in inflight : e # c /\ e[1] = c[1]
        BY <2>2, <3>1 DEF Sent
      <3>2. CASE ~\E e \in inflight : e # c /\ e[1] = c[1]
        BY <2>2, <3>2 DEF Sent
      <3> QED BY <3>1, <3>2
    <2> QED BY <2>1, <2>3, <2>4, ArriveSeen
  <1>4. CASE \/ \E d \in Drivers : Crash(d) \/ Return(d)
             \/ \E t, old : Purge(t, old)
             \/ UNCHANGED vars
    <2>1. UNCHANGED <<runs, posted, inflight>>
      BY <1>t, <1>4, StopView, PurgeView DEF storeVars, vars
    <2>2. UNCHANGED <<Held, Sent>>
      BY <2>1 DEF Held, Sent
    <2> QED BY <2>1, <2>2, SameRowsSeen, NothingSeen
  <1> QED BY <1>1, <1>2, <1>3, <1>4, NextKinds, WorkImplements, SaveImplements

\* With one driver per run the engine implements the lifecycle: crashes,
\* retries, replays, compensations and late calls are invisible in the runs
\* table and in the external systems (workflow.py _drive, store.py).
THEOREM EngineImplementsLifecycle ==
  ASSUME MaxOverlaps = 0
  PROVE  Spec => Implements
  <1>1. Init => Lifecycle!Init
    <2> SUFFICES ASSUME Init PROVE Lifecycle!Init
      OBVIOUS
    <2>1. DOMAIN runs = {} /\ posted = [k \in EffectKeys |-> <<>>] /\ inflight = {}
      BY DEF Init, StoreInit
    <2>2. \A r \in RunIds : PhaseOf(r) = "absent"
      BY <2>1 DEF PhaseOf
    <2>3. \A k \in EffectKeys : Len(posted[k]) = 0
      BY <2>1
    <2> QED BY <2>1, <2>2, <2>3 DEF Lifecycle!Init, EffectKeys
  <1>2. Solo /\ [Next]_vars => [Lifecycle!Next]_(Lifecycle!vars)
    BY StepImplements
  <1> QED BY <1>1, <1>2, SoloStep, PTL DEF Spec, Implements, Lifecycle!Spec
=============================================================================
