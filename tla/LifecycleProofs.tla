-------------------------- MODULE LifecycleProofs --------------------------
(***************************************************************************)
(* The life of a run, for every workflow and any interleaving of drivers,  *)
(* cancels, approvals and crashes: a stored run has no cursor exactly when *)
(* it has succeeded, a waiting run waits for a request that is on file,    *)
(* and a run overshoots its budget by one step at most.                    *)
(*                                                                         *)
(* A row is what some driver's copy was at a checkpoint, so each of these  *)
(* is an invariant of the copies first (OnTrack): a driver is at the step  *)
(* its cursor names, or at that step's compensation, its copy is RUNNING   *)
(* until the run fails, and it is about to pause only when a request is    *)
(* on file.                                                                *)
(***************************************************************************)
EXTENDS EngineProofs

\* A stored run with state st.
RowOnTrack(rows, r, st) ==
    /\ st.cursor = None <=> st.status = "succeeded"
    /\ st.status = "waiting_approval" =>
           Requested(rows, r, st.cursor) \/ Requested(rows, r, CompensateWith[st.cursor])
    /\ st.steps <= MaxSteps + 1

\* A driver and its copy of the run.
OnTrack(rows, x) ==
    /\ x.pc = "resolving" => (x.mem.cursor = None <=> x.mem.status = "succeeded")
    /\ Active(x) => /\ x.mem.cursor \in Steps /\ x.mem.status # "succeeded"
                    /\ x.step = (IF x.comp THEN CompensateWith[x.mem.cursor] ELSE x.mem.cursor)
                    /\ x.pc \notin {"fail", "raised"} => x.mem.status = "running"
    /\ x.pc \in {"loop", "commit"} => ~x.comp
    /\ x.pc = "pause" => Requested(rows, x.run, x.step)
    /\ x.pc # "idle" => x.mem.steps <= MaxSteps + 1

RowsOnTrack == \A r \in DOMAIN runs : RowOnTrack(approvals, r, runs[r].st)
DriversOnTrack == \A d \in Drivers : OnTrack(approvals, dr[d])

\* The inductive invariant of the life cycle.
LifecycleInv == TypeOK /\ RowsOnTrack /\ DriversOnTrack

-----------------------------------------------------------------------------
(* Requests stay on file.                                                  *)

StillRequested(old, new) == \A r, s : Requested(old, r, s) => Requested(new, r, s)

\* create_approval and resolve_approval remove no request.
LEMMA ApprovalsStay ==
  ASSUME TypeOK,
         \/ UNCHANGED approvals
         \/ \E r, s, shown : CreateApproval(r, s, shown)
         \/ \E t, a, ok : ResolveApproval(t, a, ok)
  PROVE  StillRequested(approvals, approvals')
  <1>t. approvals \in Seq(ApprovalRow)
    BY DEF TypeOK, StoreTypeOK
  <1>1. CASE UNCHANGED approvals
    BY <1>1 DEF StillRequested
  <1>2. ASSUME NEW r, NEW s, NEW shown, CreateApproval(r, s, shown)
        PROVE  StillRequested(approvals, approvals')
    <2> DEFINE row == [tenant |-> runs[r].tenant, run |-> r, step |-> s, status |-> "pending",
                       shown |-> shown]
    <2>1. approvals' = Append(approvals, row)
      BY <1>2 DEF CreateApproval
    <2> HIDE DEF row
    <2>2. \A a \in 1 .. Len(approvals) : a \in 1 .. Len(approvals') /\ approvals'[a] = approvals[a]
      BY <1>t, <2>1
    <2> QED BY <2>2 DEF StillRequested, Requested
  <1>3. ASSUME NEW t, NEW a, NEW ok, ResolveApproval(t, a, ok)
        PROVE  StillRequested(approvals, approvals')
    <2> DEFINE row == [approvals[a] EXCEPT !.status = IF ok THEN "approved" ELSE "rejected"]
    <2>1. a \in 1 .. Len(approvals) /\ approvals' = [approvals EXCEPT ![a] = row]
      BY <1>3 DEF ResolveApproval
    <2>2. approvals[a] \in ApprovalRow
      BY <1>t, <2>1
    <2>3. row.run = approvals[a].run /\ row.step = approvals[a].step
      BY <2>2 DEF ApprovalRow
    <2> HIDE DEF row
    <2>4. Len(approvals') = Len(approvals)
      BY <1>t, <2>1
    <2>5. \A b \in 1 .. Len(approvals) :
             approvals'[b].run = approvals[b].run /\ approvals'[b].step = approvals[b].step
      BY <1>t, <2>1, <2>3
    <2> QED BY <2>4, <2>5 DEF StillRequested, Requested
  <1> QED BY <1>1, <1>2, <1>3

\* So does every step of the system.
LEMMA RequestsStay ==
  ASSUME TypeOK, [Next]_vars
  PROVE  StillRequested(approvals, approvals')
  <1> SUFFICES \/ UNCHANGED approvals
               \/ \E r, s, shown : CreateApproval(r, s, shown)
               \/ \E t, a, ok : ResolveApproval(t, a, ok)
    BY ApprovalsStay
  <1>1. ASSUME NEW d \in Drivers, Request(d)
        PROVE  UNCHANGED approvals \/ \E t, a, ok : ResolveApproval(t, a, ok)
    BY <1>1 DEF Request, Fire, CreateRun, Resume, ResolveLoad, ResolveCommit, storeVars
  <1>2. ASSUME NEW d \in Drivers, Moves(d)
        PROVE  \/ UNCHANGED approvals
               \/ \E r, s, shown : CreateApproval(r, s, shown)
               \/ \E t, a, ok : ResolveApproval(t, a, ok)
    BY <1>2 DEF Moves, EnterStep, Escape, TurnsUsedUp, RunBranch, RunApproval, GateTool,
                CheckApproval, RefuseCall, ExecuteFail, FailCall, RequestApproval, AskApproval,
                AnswerApproval, storeVars
  <1>3. ASSUME NEW d \in Drivers, Works(d) \/ Saves(d)
        PROVE  UNCHANGED approvals
    BY <1>3, WorkView, SaveView, CheckpointView
  <1>4. CASE \/ \E d \in Drivers : Crash(d) \/ Return(d)
             \/ \E r \in RunIds : Cancel(r)
             \/ \E t, old : Purge(t, old)
             \/ \E c \in inflight : Land(c)
             \/ UNCHANGED vars
    BY <1>4, StopView, CancelView, PurgeView DEF Land, storeVars, vars
  <1> QED BY <1>1, <1>2, <1>3, <1>4, NextKinds

-----------------------------------------------------------------------------
(* The steps keep the invariant.                                           *)

\* Rows and drivers that do not change stay on track.
LEMMA TrackStays ==
  ASSUME NEW old, NEW new, StillRequested(old, new)
  PROVE  /\ \A r, st : RowOnTrack(old, r, st) => RowOnTrack(new, r, st)
         /\ \A x : OnTrack(old, x) => OnTrack(new, x)
  BY DEF StillRequested, RowOnTrack, OnTrack

\* The idle driver is on track.
LEMMA IdleOnTrack == Idle.pc = "idle" /\ \A rows : OnTrack(rows, Idle)
  BY DEF Idle, OnTrack, Active

\* A new run has a step to start with.
LEMMA NewRunOnTrack == \A rows, r : RowOnTrack(rows, r, NewRun)
  BY WorkflowAssumption, StepAssumption DEF RowOnTrack, NewRun

\* One driver changes.
LEMMA OthersOnTrack ==
  ASSUME LifecycleInv, StillRequested(approvals, approvals'), NEW d \in Drivers, NEW y, Put(d, y),
         OnTrack(approvals', y)
  PROVE  DriversOnTrack'
  <1>1. dr'[d] = y /\ \A e \in Drivers : e # d => dr'[e] = dr[e]
    BY PutView DEF LifecycleInv
  <1> QED BY <1>1, TrackStays DEF DriversOnTrack, LifecycleInv

\* The rows do not change.
LEMMA SameRowsOnTrack ==
  ASSUME LifecycleInv, StillRequested(approvals, approvals'), UNCHANGED runs
  PROVE  RowsOnTrack'
  BY TrackStays DEF LifecycleInv, RowsOnTrack

\* resume never starts at wf.start for want of a cursor.
LEMMA BeginOnTrack ==
  ASSUME NEW rows, NEW r \in RunIds, NEW st \in RunState,
         st.cursor = None <=> st.status = "succeeded", st.steps <= MaxSteps + 1
  PROVE  OnTrack(rows, Begin(r, st))
  <1> DEFINE y == Begin(r, st)
  <1>1. \/ y = Idle
        \/ /\ y.pc = "loop" /\ ~y.comp /\ st.status \notin Terminal
           /\ y.step = (IF st.cursor = None THEN Start ELSE st.cursor)
           /\ y.mem.status = "running" /\ y.mem.cursor = st.cursor /\ y.mem.steps = st.steps
    BY BeginView
  <1>2. st.cursor \in Steps \cup {None} /\ "succeeded" \in Terminal
    BY DEF RunState, Terminal
  <1> SUFFICES OnTrack(rows, y)
    OBVIOUS
  <1> HIDE DEF y
  <1>3. CASE y = Idle
    BY <1>3, IdleOnTrack
  <1>4. CASE y # Idle
    BY <1>1, <1>2, <1>4 DEF OnTrack, Active
  <1> QED BY <1>3, <1>4

\* Requests: fire, resume, and the two halves of resolve_approval.
LEMMA RequestOnTrack ==
  ASSUME LifecycleInv, NEW d \in Drivers, Request(d), StillRequested(approvals, approvals')
  PROVE  RowsOnTrack' /\ DriversOnTrack'
  <1>t. TypeOK /\ RowsOnTrack /\ DriversOnTrack
    BY DEF LifecycleInv
  <1>1. CASE \E t \in Tenants, k \in Keys, r \in RunIds : Fire(d, t, k, r)
    <2>0. PICK t \in Tenants, k \in Keys, r \in RunIds : Fire(d, t, k, r)
      BY <1>1
    <2>a. Fire(d, t, k, r)
      BY <2>0
    <2>1. /\ DOMAIN runs' = DOMAIN runs \cup {r} /\ runs'[r].st = NewRun
          /\ \A q \in DOMAIN runs : runs'[q] = runs[q]
          /\ Put(d, Begin(r, NewRun)) /\ UNCHANGED approvals
      <3>1. /\ DOMAIN runs' = DOMAIN runs \cup {r} /\ runs'[r].st = NewRun
            /\ \A q \in DOMAIN runs : runs'[q] = runs[q]
            /\ Put(d, Begin(r, NewRun))
        BY <1>t, <2>a, FireView
      <3>2. UNCHANGED <<trace, approvals, effects, posted, inflight, granted, crashes, overlaps>>
        BY <1>t, <2>a, FireView
      <3> QED BY <3>1, <3>2
    <2>2. RowsOnTrack'
      BY <1>t, <2>1, NewRunOnTrack DEF RowsOnTrack
    <2>3. OnTrack(approvals', Begin(r, NewRun))
      BY IdleType, NewRunOnTrack, BeginOnTrack DEF RowOnTrack
    <2> QED BY <2>1, <2>2, <2>3, OthersOnTrack
  <1>2. ASSUME NEW r \in DOMAIN runs, runs[r].st \in RunState, r \in RunIds,
               \/ Put(d, Begin(r, runs[r].st))
               \/ Put(d, [Idle EXCEPT !.pc = "resolving", !.run = r, !.mem = runs[r].st]),
               UNCHANGED <<storeVars, posted>>
        PROVE  RowsOnTrack' /\ DriversOnTrack'
    <2>1. UNCHANGED runs
      BY <1>2 DEF storeVars
    <2> DEFINE z == [Idle EXCEPT !.pc = "resolving", !.run = r, !.mem = runs[r].st]
    <2>2. z.pc = "resolving" /\ z.mem = runs[r].st
      BY DEF Idle
    <2>3. Put(d, z) \/ Put(d, Begin(r, runs[r].st))
      BY <1>2
    <2> HIDE DEF z
    <2>4. /\ runs[r].st.cursor = None <=> runs[r].st.status = "succeeded"
          /\ runs[r].st.steps <= MaxSteps + 1
      BY <1>t, <1>2 DEF RowsOnTrack, RowOnTrack
    <2>5. OnTrack(approvals', z)
      BY <2>2, <2>4 DEF OnTrack, Active
    <2>6. OnTrack(approvals', Begin(r, runs[r].st))
      BY <1>2, <2>4, BeginOnTrack
    <2> QED BY <2>1, <2>3, <2>5, <2>6, SameRowsOnTrack, OthersOnTrack
  <1>3. ASSUME dr[d].pc = "resolving", dr[d].run \in RunIds, dr[d].mem \in RunState,
               Put(d, Begin(dr[d].run, dr[d].mem)), UNCHANGED runs
        PROVE  RowsOnTrack' /\ DriversOnTrack'
    <2>1. /\ dr[d].mem.cursor = None <=> dr[d].mem.status = "succeeded"
          /\ dr[d].mem.steps <= MaxSteps + 1
      BY <1>t, <1>3 DEF DriversOnTrack, OnTrack
    <2>2. OnTrack(approvals', Begin(dr[d].run, dr[d].mem))
      BY <1>3, <2>1, BeginOnTrack
    <2> QED BY <1>3, <2>2, SameRowsOnTrack, OthersOnTrack
  <1> QED BY <1>t, <1>1, <1>2, <1>3, StartView

\* The steps of a driver.
LEMMA DriverStepOnTrack ==
  ASSUME LifecycleInv, NEW d \in Drivers, Moves(d) \/ Works(d) \/ Saves(d),
         StillRequested(approvals, approvals')
  PROVE  RowsOnTrack' /\ DriversOnTrack'
  <1> DEFINE x == dr[d]
             y == dr'[d]
  <1>t. /\ TypeOK /\ RowsOnTrack /\ DriversOnTrack /\ OnTrack(approvals', x)
        /\ x \in Driver /\ x.mem \in RunState /\ x.comp \in BOOLEAN
    BY TrackStays DEF LifecycleInv, DriversOnTrack, TypeOK, DriverTypeOK, Driver
  <1>n. x.mem.steps \in Nat /\ MaxSteps \in Nat
    BY <1>t, WorkflowAssumption DEF RunState
  <1>1. CASE Moves(d)
    <2>1. Put(d, y) /\ Moved(x, y) /\ UNCHANGED runs
      BY <1>t, <1>1, MoveView
    <2>2. Active(x) /\ x.pc \notin {"fail", "raised"}
      BY <2>1 DEF Moved, Gating, Active
    <2>3. y.mem.steps <= MaxSteps + 1
      BY <1>t, <1>n, <2>1, <2>2 DEF Moved, OverBudget, OnTrack, Active
    <2>4. y.mem.cursor = x.mem.cursor /\ y.mem.status = x.mem.status
      BY <2>1 DEF Moved, SameCopy
    <2>5. y.step = (IF y.comp THEN CompensateWith[y.mem.cursor] ELSE y.mem.cursor)
      BY <1>t, <2>1, <2>2, <2>4 DEF Moved, OnTrack
    <2>6. Active(y) /\ y.pc \notin {"resolving", "loop"} /\ (y.pc = "commit" => ~y.comp)
                    /\ (y.pc = "pause" => Requested(approvals', y.run, y.step))
      BY <2>1 DEF Moved, Gating, Active
    <2> HIDE DEF y
    <2>7. OnTrack(approvals', y)
      BY <1>t, <2>2, <2>3, <2>4, <2>5, <2>6 DEF OnTrack
    <2> QED BY <2>1, <2>7, SameRowsOnTrack, OthersOnTrack DEF y
  <1>2. CASE Works(d)
    <2>1. Put(d, y) /\ Worked(x, y) /\ UNCHANGED runs
      BY <1>t, <1>2, WorkView
    <2>2. /\ x.pc \in {"step", "call", "execute", "record"} /\ Active(x)
          /\ y.pc \in {"commit", "fail", "call", "step", "record"} /\ Active(y)
          /\ y.pc = "commit" => ~y.comp
          /\ y.step = x.step /\ y.comp = x.comp /\ y.mem.cursor = x.mem.cursor
          /\ y.mem.status = x.mem.status /\ y.mem.steps = x.mem.steps
      BY <2>1 DEF Worked, SameProgress, Active
    <2> HIDE DEF y
    <2>3. OnTrack(approvals', y)
      BY <1>t, <2>2 DEF OnTrack
    <2> QED BY <2>1, <2>3, SameRowsOnTrack, OthersOnTrack DEF y
  <1>3. CASE Saves(d)
    <2>1. Put(d, y) /\ x.run \in DOMAIN runs
      BY <1>t, <1>3, SaveView
    <2>2. PICK st \in RunState : Saved(x, y, st) /\ Checkpoint(x.run, st, x.buf)
      BY <1>t, <1>3, SaveView
    <2>3. /\ DOMAIN runs' = DOMAIN runs /\ runs'[x.run].st = st
          /\ \A q \in DOMAIN runs : q # x.run => runs'[q] = runs[q]
      BY <1>t, <2>1, <2>2, CheckpointView
    <2>4. Active(x)
      BY <2>2 DEF Saved, Active
    <2>5. /\ x.mem.cursor \in Steps /\ x.mem.cursor # None /\ x.mem.status # "succeeded"
          /\ x.step = (IF x.comp THEN CompensateWith[x.mem.cursor] ELSE x.mem.cursor)
          /\ x.pc \notin {"fail", "raised"} => x.mem.status = "running"
          /\ x.pc \in {"loop", "commit"} => ~x.comp
          /\ x.pc = "pause" => Requested(approvals', x.run, x.step)
          /\ x.mem.steps <= MaxSteps + 1
      BY <1>t, <2>4, StepAssumption DEF OnTrack, Active
    <2>6. RowOnTrack(approvals', x.run, st)
      <3>1. CASE x.pc \in {"loop", "fail"} /\ st.status = "failed" /\ st.cursor = x.mem.cursor
        BY <2>2, <2>5, <3>1 DEF RowOnTrack, Saved
      <3>2. CASE x.pc = "commit" /\ st.status = (IF st.cursor = None THEN "succeeded" ELSE x.mem.status)
        BY <2>2, <2>5, <3>2 DEF RowOnTrack, Saved
      <3>3. CASE x.pc = "pause" /\ st.status = "waiting_approval" /\ st.cursor = x.mem.cursor
        BY <2>2, <2>5, <3>3 DEF RowOnTrack, Saved
      <3> QED BY <2>2, <3>1, <3>2, <3>3 DEF Saved
    <2>7. RowsOnTrack'
      BY <1>t, <2>3, <2>6, TrackStays DEF RowsOnTrack
    <2>8. OnTrack(approvals', y)
      <3>1. CASE y = Idle
        BY <3>1, IdleOnTrack
      <3>2. CASE /\ x.pc \in {"loop", "fail"} /\ y = [x EXCEPT !.pc = "raised"]
        <4>1. /\ y.pc = "raised" /\ y.run = x.run /\ y.mem = x.mem /\ y.step = x.step
              /\ y.comp = x.comp
          BY <1>t, <3>2 DEF Driver
        <4> HIDE DEF y
        <4> QED BY <2>5, <4>1 DEF OnTrack
      <3>3. CASE /\ x.pc = "commit" /\ y.pc = "loop" /\ st.cursor \in Steps /\ y.step = st.cursor
                 /\ y.comp = x.comp /\ y.mem = st
        <4>1. st.cursor # None /\ st.status = x.mem.status /\ st.steps = x.mem.steps
          BY <2>2, <3>3, StepAssumption DEF Saved
        <4> HIDE DEF y
        <4> QED BY <2>5, <3>3, <4>1 DEF OnTrack
      <3>4. CASE /\ x.pc = "pause" /\ st.status = "waiting_approval" /\ st.cursor = x.mem.cursor
                 /\ y.pc = "fail" /\ y.step = x.step /\ y.comp = x.comp /\ y.mem = st
        <4>1. st.steps = x.mem.steps
          BY <2>2 DEF Saved
        <4> HIDE DEF y
        <4> QED BY <2>5, <3>4, <4>1 DEF OnTrack
      <3> QED BY <2>2, <3>1, <3>2, <3>3, <3>4 DEF Saved
    <2> QED BY <2>1, <2>7, <2>8, OthersOnTrack
  <1> QED BY <1>1, <1>2, <1>3

\* Crashes, returns, cancels, purges and late calls.
LEMMA OtherOnTrack ==
  ASSUME LifecycleInv, StillRequested(approvals, approvals'),
         \/ \E d \in Drivers : Crash(d) \/ Return(d)
         \/ \E r \in RunIds : Cancel(r)
         \/ \E t, old : Purge(t, old)
         \/ \E c \in inflight : Land(c)
         \/ UNCHANGED vars
  PROVE  RowsOnTrack' /\ DriversOnTrack'
  <1>t. TypeOK /\ RowsOnTrack /\ DriversOnTrack
    BY DEF LifecycleInv
  <1>1. ASSUME NEW d \in Drivers, Crash(d) \/ Return(d)
        PROVE  RowsOnTrack' /\ DriversOnTrack'
    <2>1. Put(d, Idle) /\ UNCHANGED runs
      BY <1>1, StopView DEF storeVars
    <2> QED BY <2>1, IdleOnTrack, SameRowsOnTrack, OthersOnTrack
  <1>2. UNCHANGED dr => DriversOnTrack'
    BY <1>t, TrackStays DEF DriversOnTrack
  <1>3. ASSUME NEW r \in RunIds, Cancel(r)
        PROVE  RowsOnTrack' /\ DriversOnTrack'
    <2>1. /\ r \in DOMAIN runs /\ runs[r].st.status \notin Terminal
          /\ DOMAIN runs' = DOMAIN runs /\ \A q \in DOMAIN runs : q # r => runs'[q] = runs[q]
          /\ runs'[r].st.status = "canceled" /\ runs'[r].st.cursor = runs[r].st.cursor
          /\ runs'[r].st.steps = runs[r].st.steps /\ UNCHANGED dr
      BY <1>t, <1>3, CancelView
    <2>2. RowOnTrack(approvals', r, runs'[r].st)
      BY <1>t, <2>1 DEF RowsOnTrack, RowOnTrack, Terminal
    <2>3. RowsOnTrack'
      BY <1>t, <2>1, <2>2, TrackStays DEF RowsOnTrack
    <2> QED BY <1>2, <2>1, <2>3
  <1>4. CASE \/ \E t, old : Purge(t, old)
             \/ \E c \in inflight : Land(c)
             \/ UNCHANGED vars
    <2>1. UNCHANGED <<runs, dr>>
      BY <1>t, <1>4, PurgeView DEF Land, storeVars, vars
    <2> QED BY <1>2, <2>1, SameRowsOnTrack
  <1> QED BY <1>1, <1>3, <1>4

\* The invariant holds at the start and every step keeps it.
LEMMA LifecycleStep ==
  /\ Init => LifecycleInv
  /\ LifecycleInv /\ [Next]_vars => LifecycleInv'
  <1>1. Init => LifecycleInv
    <2> SUFFICES ASSUME Init PROVE LifecycleInv
      OBVIOUS
    <2>1. DOMAIN runs = {} /\ dr = [d \in Drivers |-> Idle]
      BY DEF Init, StoreInit
    <2>2. \A d \in Drivers : dr[d] = Idle
      BY <2>1
    <2> QED BY <2>1, <2>2, InitType, IdleOnTrack DEF LifecycleInv, RowsOnTrack, DriversOnTrack
  <1>2. ASSUME LifecycleInv, [Next]_vars
        PROVE  LifecycleInv'
    <2>1. TypeOK' /\ StillRequested(approvals, approvals')
      BY <1>2, TypeStep, RequestsStay DEF LifecycleInv
    <2>2. RowsOnTrack' /\ DriversOnTrack'
      BY <1>2, <2>1, NextKinds, RequestOnTrack, DriverStepOnTrack, OtherOnTrack
    <2> QED BY <2>1, <2>2 DEF LifecycleInv
  <1> QED BY <1>1, <1>2

\* resume starts at wf.start when there is no cursor: a stored run has none
\* exactly when it has succeeded (workflow.py resume, _drive).
THEOREM OnlyFinishedRunsHaveNoCursor == Spec => []FinishedIffSucceeded
  <1>1. LifecycleInv => FinishedIffSucceeded
    BY DEF LifecycleInv, RowsOnTrack, RowOnTrack, FinishedIffSucceeded
  <1> QED BY <1>1, LifecycleStep, PTL DEF Spec

\* A run stored as WAITING_APPROVAL waits for a request in the approvals table,
\* for its step or for that step's compensation (workflow.py _await_approval).
THEOREM WaitingRunsHaveARequest == Spec => []WaitingHasRequest
  <1>1. LifecycleInv => WaitingHasRequest
    <2>1. ASSUME NEW r, NEW s, Requested(approvals, r, s) PROVE RequestsFor(r, s) # {}
      BY <2>1 DEF Requested, RequestsFor
    <2> QED BY <2>1 DEF LifecycleInv, RowsOnTrack, RowOnTrack, WaitingHasRequest
  <1> QED BY <1>1, LifecycleStep, PTL DEF Spec

-----------------------------------------------------------------------------
(* The budget.  What a step has booked is bounded by the attempts it has   *)
(* used up, the rounds of the present one and the calls of the present     *)
(* round that are still to be made.                                        *)

\* A driver at the same attempt of the same step.
SameTry(x, y) == y.step = x.step /\ y.try = x.try /\ y.comp = x.comp

\* What a driver's step inside _run_step costs and where it goes:
\*  - the step is over, for its cost if the work was done in it;
\*  - the driver goes on towards the execution of a tool, at no cost;
\*  - a round of the agent loop starts, or one of its calls is over;
\*  - the next attempt or the compensation starts.
Effort(x, y) ==
    \/ /\ y.pc \in {"commit", "fail", "raised"} /\ SameTry(x, y)
       /\ \/ y.mem.cost = x.mem.cost
          \/ /\ y.mem.cost = x.mem.cost + Cost[x.step]
             /\ \/ x.pc \in {"execute", "record"}
                \/ /\ x.pc = "step" /\ NodeType[x.step] = "agent"
                   /\ x.turn < AgentOf[x.step].turns
    \/ /\ y.pc \in Gating \cup {"pause", "record"} /\ SameTry(x, y) /\ y.mem.cost = x.mem.cost
       /\ x.pc \in Gating \/ (x.pc = "step" /\ NodeType[x.step] # "agent")
       /\ y.pc = "record" => x.pc = "execute"
    \/ /\ x.pc = "step" /\ y.pc = "call" /\ NodeType[x.step] = "agent" /\ SameTry(x, y)
       /\ x.turn < AgentOf[x.step].turns /\ y.turn = x.turn + 1 /\ y.left \in 1 .. MaxCalls
       /\ y.mem.cost = x.mem.cost + Cost[x.step]
    \/ /\ x.pc = "call" /\ y.pc \in {"call", "step"} /\ SameTry(x, y) /\ y.turn = x.turn
       /\ x.left > 0 /\ (y.pc = "call" => y.left = x.left - 1)
       /\ y.mem.cost = x.mem.cost \/ y.mem.cost = x.mem.cost + AgentOf[x.step].cost
    \/ /\ y.pc = "step" /\ y.step = x.step /\ ~x.comp /\ ~y.comp /\ y.mem.cost = x.mem.cost
       /\ x.try < MaxAttempts[x.step] /\ y.try = x.try + 1 /\ y.turn = 0
    \/ /\ y.pc = "step" /\ y.step = CompensateWith[x.step] /\ y.step # None /\ ~x.comp /\ y.comp
       /\ y.mem.cost = x.mem.cost /\ y.turn = 0

\* The steps that move the driver cost nothing.
LEMMA MoveEffort ==
  ASSUME TypeOK, NEW d \in Drivers, Moves(d), dr[d].pc # "loop"
  PROVE  Effort(dr[d], dr'[d])
  <1> DEFINE x == dr[d]
  <1>0. Active(x)
    BY MoveView DEF Moved, Gating, Active
  <1>t. /\ x \in Driver /\ At(d) \in Steps /\ x.step = At(d) /\ Args(d) \in Slot
        /\ x.comp \in BOOLEAN /\ (x.pc = "call" => x.left > 0)
    BY <1>0, ActiveType DEF At, TypeOK, DriverTypeOK, Driver
  <1>q. SUFFICES \E y : Put(d, y) /\ Effort(x, y)
    BY PutView
  <1>1. CASE Escape(d) \/ TurnsUsedUp(d) \/ RunBranch(d) \/ RunApproval(d)
    <2>1. PICK c \in {"fail", "raised", "commit", "await"} :
             /\ Put(d, [x EXCEPT !.pc = c])
             /\ c = "await" => x.pc = "step" /\ NodeType[x.step] # "agent"
      BY <1>1, <1>t DEF Escape, TurnsUsedUp, RunBranch, RunApproval, Escaped, StepDone
    <2> DEFINE y == [x EXCEPT !.pc = c]
    <2>2. y.pc = c /\ SameTry(x, y) /\ y.mem = x.mem
      BY <1>t DEF Driver, SameTry
    <2>3. Put(d, y)
      BY <2>1
    <2> HIDE DEF y
    <2>4. Effort(x, y)
      BY <2>1, <2>2 DEF Effort, Gating
    <2> QED BY <2>3, <2>4
  <1>2. CASE GateTool(d)
    <2> DEFINE n == Noted(x, "policy_decision")
               y == Gate(n, Decide(At(d), Args(d)))
    <2>1. n \in Driver /\ SamePlace(x, n) /\ n.mem = x.mem
      BY <1>t, NotedView DEF AuditTypes
    <2>2. Decide(At(d), Args(d)) \in PolicyEffect
      BY <1>t, FunctionAssumption
    <2>3. y.pc \in {"fail", "await", "execute"} /\ SameTry(n, y) /\ y.mem = n.mem
      <3> HIDE DEF n
      <3> QED BY <2>1, <2>2 DEF Gate, Denied, PolicyEffect, Driver, SameTry
    <2>4. Put(d, y) /\ x.pc = "step" /\ NodeType[x.step] = "tool"
      BY <1>2, <1>t DEF GateTool
    <2> HIDE DEF y, n
    <2>5. SameTry(x, y) /\ y.mem = x.mem
      BY <2>1, <2>3 DEF SameTry, SamePlace
    <2>6. Effort(x, y)
      BY <2>3, <2>4, <2>5 DEF Effort, Gating
    <2> QED BY <2>4, <2>6
  <1>3. CASE \/ CheckApproval(d) \/ RequestApproval(d) \/ AskApproval(d)
             \/ \E ok \in BOOLEAN : AnswerApproval(d, ok)
    <2>0. x.pc \in {"await", "request", "asked"}
      BY <1>3 DEF CheckApproval, RequestApproval, AskApproval, AnswerApproval
    <2>1. ASSUME NEW z \in Driver, SameTry(x, z), z.mem = x.mem, NEW status
          PROVE  Effort(x, Decided(z, status))
      <3> DEFINE y == Decided(z, status)
      <3>1. y.pc \in {"fail", "commit", "execute"} /\ SameTry(z, y) /\ y.mem = z.mem
        BY <2>1 DEF Decided, Proceed, Denied, StepDone, Driver, SameTry
      <3> HIDE DEF y
      <3>2. SameTry(x, y) /\ y.mem = x.mem
        BY <2>1, <3>1 DEF SameTry
      <3>3. Effort(x, y)
        BY <2>0, <3>1, <3>2 DEF Effort, Gating
      <3> QED BY <3>3 DEF y
    <2>2. ASSUME NEW c \in {"request", "pause"} PROVE Effort(x, [x EXCEPT !.pc = c])
      <3> DEFINE y == [x EXCEPT !.pc = c]
      <3>1. y.pc = c /\ SameTry(x, y) /\ y.mem = x.mem
        BY <1>t DEF Driver, SameTry
      <3> HIDE DEF y
      <3>2. Effort(x, y)
        BY <2>0, <3>1 DEF Effort, Gating
      <3> QED BY <3>2 DEF y
    <2>3. CASE CheckApproval(d)
      <3>1. \A status : Effort(x, Decided(x, status))
        BY <1>t, <2>1 DEF SameTry
      <3> QED BY <2>2, <2>3, <3>1 DEF CheckApproval
    <2>4. ASSUME NEW ok \in BOOLEAN, AnswerApproval(d, ok) PROVE \E y : Put(d, y) /\ Effort(x, y)
      <3> DEFINE z == [x EXCEPT !.ask = 0]
      <3>1. z \in Driver /\ SameTry(x, z) /\ z.mem = x.mem
        BY <1>t DEF Driver, SameTry
      <3>2. PICK status : Put(d, Decided(z, status))
        BY <2>4 DEF AnswerApproval
      <3> HIDE DEF z
      <3> QED BY <2>1, <3>1, <3>2
    <2>5. CASE RequestApproval(d) \/ AskApproval(d)
      <3> DEFINE b == [x.buf EXCEPT !.announced = @ \cup {Len(approvals) + 1}]
                 y == [x EXCEPT !.pc = "pause", !.buf = b]
                 z == [x EXCEPT !.pc = "asked", !.ask = Len(approvals) + 1, !.buf = b]
      <3>1. Put(d, y) \/ Put(d, z)
        BY <2>5, <1>t DEF RequestApproval, AskApproval
      <3>2. /\ y.pc = "pause" /\ SameTry(x, y) /\ y.mem = x.mem
            /\ z.pc = "asked" /\ SameTry(x, z) /\ z.mem = x.mem
        <4> HIDE DEF b
        <4> QED BY <1>t DEF Driver, SameTry
      <3> HIDE DEF y, z
      <3>3. Effort(x, y) /\ Effort(x, z)
        BY <2>0, <3>2 DEF Effort, Gating
      <3> QED BY <3>1, <3>3
    <2> QED BY <1>3, <2>3, <2>4, <2>5
  <1>4. CASE RefuseCall(d)
    <2> DEFINE y == Answered(x)
    <2>1. x.pc = "call" /\ Put(d, y)
      BY <1>4 DEF RefuseCall
    <2>2. /\ y.pc \in {"call", "step"} /\ SameTry(x, y) /\ y.mem = x.mem
          /\ y.turn = x.turn /\ y.left = x.left - 1
      BY <1>t DEF Answered, Driver, SameTry
    <2> HIDE DEF y
    <2>3. Effort(x, y)
      BY <1>t, <2>1, <2>2 DEF Effort
    <2> QED BY <2>1, <2>3
  <1>5. CASE ExecuteFail(d) \/ FailCall(d)
    <2> DEFINE y == ConnectorFailed(x)
    <2>1. Put(d, y)
      BY <1>5 DEF ExecuteFail, FailCall
    <2>2. /\ y.mem = x.mem
          /\ \/ /\ y.pc = "step" /\ y.step = x.step /\ ~x.comp /\ ~y.comp
                /\ x.try < MaxAttempts[x.step] /\ y.try = x.try + 1 /\ y.turn = 0
             \/ /\ y.pc = "step" /\ y.step = CompensateWith[x.step] /\ y.step # None
                /\ ~x.comp /\ y.comp /\ y.turn = 0
             \/ y.pc = "fail" /\ SamePlace(x, y)
      <3>1. x \in Driver /\ x.step \in Steps
        BY <1>t
      <3> HIDE DEF x
      <3> QED BY <3>1, ConnectorFailedView
    <2> HIDE DEF y
    <2>3. Effort(x, y)
      BY <2>2 DEF Effort, SamePlace, SameTry
    <2> QED BY <2>1, <2>3
  <1> QED BY <1>1, <1>2, <1>3, <1>4, <1>5 DEF Moves, EnterStep

\* A finished step has booked what its work costs.
LEMMA ResultEffort ==
  ASSUME NEW x \in Driver, x.step \in Steps, NEW c \in Nat, NEW t \in AuditTypes, NEW v \in Values
  PROVE  /\ LET y == StepDone(Stored(Noted(Booked(x, c), t), v))
            IN  y.pc \in {"commit", "fail"} /\ SameTry(x, y) /\ y.mem.cost = x.mem.cost + c
         /\ LET y == StepDone(Stored(Noted(x, t), v))
            IN  y.pc \in {"commit", "fail"} /\ SameTry(x, y) /\ y.mem.cost = x.mem.cost
         /\ LET y == StepDone(Stored(Booked(x, c), v))
            IN  y.pc \in {"commit", "fail"} /\ SameTry(x, y) /\ y.mem.cost = x.mem.cost + c
  <1>1. ASSUME NEW z \in Driver, z.step \in Steps
        PROVE  LET y == StepDone(Stored(z, v))
               IN  y.pc \in {"commit", "fail"} /\ SamePlace(z, y) /\ y.mem.cost = z.mem.cost
    <2> DEFINE w == Stored(z, v)
               y == StepDone(w)
    <2>1. w \in Driver /\ SamePlace(z, w) /\ w.mem.cost = z.mem.cost
      BY <1>1, StoredView
    <2> HIDE DEF w
    <2>2. y.pc \in {"commit", "fail"} /\ SamePlace(w, y) /\ y.mem = w.mem
      BY <2>1, StepDoneView
    <2> HIDE DEF y
    <2>3. y.pc \in {"commit", "fail"} /\ SamePlace(z, y) /\ y.mem.cost = z.mem.cost
      BY <2>1, <2>2 DEF SamePlace
    <2> QED BY <2>3 DEF y, w
  <1> DEFINE b == Booked(x, c)
             n == Noted(b, t)
             m == Noted(x, t)
  <1>2. b \in Driver /\ SamePlace(x, b) /\ b.mem.cost = x.mem.cost + c
    BY BookedView
  <1>3. b.step \in Steps
    BY <1>2 DEF SamePlace
  <1>4. m \in Driver /\ SamePlace(x, m) /\ m.mem = x.mem /\ m.step \in Steps
    BY NotedView DEF SamePlace
  <1> HIDE DEF b
  <1>5. n \in Driver /\ SamePlace(b, n) /\ n.mem = b.mem
    BY <1>2, <1>3, NotedView
  <1>6. n.step \in Steps
    BY <1>3, <1>5 DEF SamePlace
  <1> HIDE DEF n, m
  <1> DEFINE p == StepDone(Stored(n, v))
             q == StepDone(Stored(m, v))
             o == StepDone(Stored(b, v))
  <1>7. p.pc \in {"commit", "fail"} /\ SamePlace(n, p) /\ p.mem.cost = n.mem.cost
    BY <1>1, <1>5, <1>6
  <1>8. q.pc \in {"commit", "fail"} /\ SamePlace(m, q) /\ q.mem.cost = m.mem.cost
    BY <1>1, <1>4
  <1>9. o.pc \in {"commit", "fail"} /\ SamePlace(b, o) /\ o.mem.cost = b.mem.cost
    BY <1>1, <1>2, <1>3
  <1> HIDE DEF p, q, o
  <1>10. /\ SameTry(x, p) /\ p.mem.cost = x.mem.cost + c
         /\ SameTry(x, q) /\ q.mem.cost = x.mem.cost
         /\ SameTry(x, o) /\ o.mem.cost = x.mem.cost + c
    BY <1>2, <1>4, <1>5, <1>7, <1>8, <1>9 DEF SameTry, SamePlace
  <1> QED BY <1>7, <1>8, <1>9, <1>10 DEF p, q, o, n, m, b

\* The steps that do the work of a step book what it costs.
LEMMA WorkEffort ==
  ASSUME TypeOK, NEW d \in Drivers, Works(d)
  PROVE  Effort(dr[d], dr'[d])
  <1> DEFINE x == dr[d]
             c == Cost[At(d)]
  <1>0. Active(x)
    BY WorkView DEF Worked, Active
  <1>t. /\ x \in Driver /\ At(d) \in Steps /\ x.step = At(d) /\ Args(d) \in Slot
        /\ Key(d) \in EffectKeys /\ Key(d)[2] = At(d)
        /\ x.pc = "call" => x.left > 0
        /\ x.pc = "record" => x.out \in Values
        /\ c \in Nat /\ AgentOf[At(d)].cost \in Nat
        /\ "tool_result" \in AuditTypes /\ "tool_result_replayed" \in AuditTypes
    BY <1>0, ActiveType, WorkflowAssumption DEF At, TypeOK, DriverTypeOK, Agent, AuditTypes
  <1>q. SUFFICES \E y : Put(d, y) /\ Effort(x, y)
    BY PutView
  <1>1. CASE ModelAnswers(d)
    <2>1. PICK v \in Outcomes(At(d), Args(d)) : Put(d, StepDone(Stored(Booked(x, c), v)))
      BY <1>1 DEF ModelAnswers
    <2>2. v \in Values /\ x \in Driver /\ x.step \in Steps
      BY <1>t, <2>1, FunctionAssumption
    <2>3. x.pc = "step" /\ NodeType[x.step] = "agent" /\ x.turn < AgentOf[x.step].turns
      BY <1>1, <1>t DEF ModelAnswers, InLoop, TurnLeft
    <2> DEFINE y == StepDone(Stored(Booked(x, c), v))
    <2>4. y.pc \in {"commit", "fail"} /\ SameTry(x, y) /\ y.mem.cost = x.mem.cost + c
      <3> HIDE DEF x, c
      <3> QED BY <1>t, <2>2, ResultEffort
    <2> HIDE DEF y
    <2>5. Effort(x, y)
      BY <1>t, <2>3, <2>4 DEF Effort
    <2> QED BY <2>1, <2>5 DEF y
  <1>2. CASE ModelCalls(d)
    <2>1. PICK n \in 1 .. MaxCalls : Put(d, Asked(Booked(x, c), n))
      BY <1>2 DEF ModelCalls
    <2>2. x.pc = "step" /\ NodeType[x.step] = "agent" /\ x.turn < AgentOf[x.step].turns
      BY <1>2, <1>t DEF ModelCalls, InLoop, TurnLeft
    <2> DEFINE b == Booked(x, c)
               y == Asked(b, n)
    <2>3. b \in Driver /\ SamePlace(x, b) /\ b.mem.cost = x.mem.cost + c
      <3> HIDE DEF c
      <3> QED BY <1>t, BookedView
    <2> HIDE DEF b
    <2>4. y.pc = "call" /\ SameTry(b, y) /\ y.turn = b.turn + 1 /\ y.left = n /\ y.mem = b.mem
      BY <2>3 DEF Asked, Driver, SameTry
    <2> HIDE DEF y
    <2>5. SameTry(x, y) /\ y.turn = x.turn + 1 /\ y.mem.cost = x.mem.cost + c
      BY <2>3, <2>4 DEF SameTry, SamePlace
    <2>6. Effort(x, y)
      BY <1>t, <2>1, <2>2, <2>4, <2>5 DEF Effort
    <2> QED BY <2>1, <2>6 DEF y, b
  <1>3. CASE ExecuteCall(d)
    <2> DEFINE e == AgentOf[At(d)].cost
               b == Booked(x, e)
               y == Answered(b)
    <2>1. x.pc = "call" /\ Put(d, y)
      BY <1>3 DEF ExecuteCall
    <2>2. b \in Driver /\ SamePlace(x, b) /\ b.mem.cost = x.mem.cost + e
      <3> HIDE DEF e
      <3> QED BY <1>t, BookedView DEF e
    <2> HIDE DEF b
    <2>3. /\ y.pc \in {"call", "step"} /\ SameTry(b, y) /\ y.mem = b.mem
          /\ y.turn = b.turn /\ y.left = b.left - 1
      BY <2>2 DEF Answered, Driver, SameTry
    <2> HIDE DEF y
    <2>4. /\ SameTry(x, y) /\ y.turn = x.turn /\ y.left = x.left - 1
          /\ y.mem.cost = x.mem.cost + AgentOf[x.step].cost
      BY <1>t, <2>2, <2>3 DEF SameTry, SamePlace
    <2>5. Effort(x, y)
      BY <1>t, <2>1, <2>3, <2>4 DEF Effort
    <2> QED BY <2>1, <2>5
  <1>4. CASE ExecuteOk(d)
    <2>1. PICK v \in Replies(Key(d), Args(d)) :
            IF SideEffect[At(d)]
            THEN Put(d, [x EXCEPT !.pc = "record", !.out = v])
            ELSE Put(d, StepDone(Stored(Noted(Booked(x, c), "tool_result"), v)))
      BY <1>4 DEF ExecuteOk
    <2>2. x.pc = "execute" /\ v \in Values /\ x \in Driver /\ x.step \in Steps
      BY <1>4, <1>t, <2>1, RepliesType DEF ExecuteOk
    <2> DEFINE y == [x EXCEPT !.pc = "record", !.out = v]
               z == StepDone(Stored(Noted(Booked(x, c), "tool_result"), v))
    <2>3. y.pc = "record" /\ SameTry(x, y) /\ y.mem = x.mem
      BY <1>t DEF Driver, SameTry
    <2>4. z.pc \in {"commit", "fail"} /\ SameTry(x, z) /\ z.mem.cost = x.mem.cost + c
      <3> HIDE DEF x, c
      <3> QED BY <1>t, <2>2, ResultEffort
    <2>5. Put(d, y) \/ Put(d, z)
      BY <2>1
    <2> HIDE DEF y, z
    <2>6. Effort(x, y) /\ Effort(x, z)
      BY <1>t, <2>2, <2>3, <2>4 DEF Effort, Gating
    <2> QED BY <2>5, <2>6
  <1>5. CASE RecordTool(d)
    <2> DEFINE v == x.out
               z == StepDone(Stored(Noted(Booked(x, c), "tool_result"), v))
    <2>1. x.pc = "record" /\ Put(d, z)
      BY <1>5 DEF RecordTool
    <2>2. v \in Values /\ x \in Driver /\ x.step \in Steps
      BY <1>t, <2>1
    <2>3. z.pc \in {"commit", "fail"} /\ SameTry(x, z) /\ z.mem.cost = x.mem.cost + c
      <3> HIDE DEF x, c, v
      <3> QED BY <1>t, <2>2, ResultEffort
    <2> HIDE DEF z
    <2>4. Effort(x, z)
      BY <1>t, <2>1, <2>3 DEF Effort
    <2> QED BY <2>1, <2>4
  <1>6. CASE ReplayTool(d)
    <2> DEFINE v == effects[Key(d)]
               z == StepDone(Stored(Noted(x, "tool_result_replayed"), v))
    <2>1. Put(d, z) /\ HasEffect(Key(d))
      BY <1>6 DEF ReplayTool
    <2>2. v \in Values /\ x \in Driver /\ x.step \in Steps
      BY <1>t, <2>1 DEF HasEffect, TypeOK, StoreTypeOK
    <2>3. z.pc \in {"commit", "fail"} /\ SameTry(x, z) /\ z.mem.cost = x.mem.cost
      <3> HIDE DEF x, c, v
      <3> QED BY <1>t, <2>2, ResultEffort
    <2> HIDE DEF z
    <2>4. Effort(x, z)
      BY <2>3 DEF Effort
    <2> QED BY <2>1, <2>4
  <1> QED BY <1>1, <1>2, <1>3, <1>4, <1>5, <1>6 DEF Works

-----------------------------------------------------------------------------
(* The inductive invariant of the budget.                                  *)

\* What one round of an agent's loop books at most.
Round(s) == Cost[s] + MaxCalls * AgentOf[s].cost

\* A driver inside a step, past the budget check.
Busy(x) == Active(x) /\ x.pc \notin {"loop", "raised"}

\* The calls of the round still to be made, the attempts used up (all of them
\* when the step is being compensated) and the present attempt.
Owed(x) == IF x.pc = "call" THEN x.left * AgentOf[x.step].cost ELSE 0
Prior(x) == IF x.comp THEN MaxAttempts[x.mem.cursor] * AttemptCost(x.mem.cursor)
            ELSE (x.try - 1) * AttemptCost(x.step)
Present(x) == IF x.pc \in {"commit", "fail"} THEN AttemptCost(x.step)
              ELSE IF x.pc \in {"step", "call"} /\ NodeType[x.step] = "agent"
              THEN x.turn * Round(x.step) ELSE 0

Payable(c) == \E s \in Steps : c <= MaxUsd + StepCost(s)

InBudget(x) ==
    /\ x.pc \in {"resolving", "loop"} => Payable(x.mem.cost)
    /\ x.pc = "loop" => x.turn = 0
    /\ x.pc \in {"execute", "record"} => NodeType[x.step] = "tool"
    /\ x.pc = "call" => NodeType[x.step] = "agent"
    /\ Busy(x) =>
           /\ ~x.comp => 1 <= x.try /\ x.try <= MaxAttempts[x.step]
           /\ (x.pc \in {"step", "call"} /\ NodeType[x.step] = "agent") =>
                  x.turn <= AgentOf[x.step].turns
           /\ x.mem.cost + Owed(x) <= MaxUsd + Prior(x) + Present(x)

RowsInBudget == \A r \in DOMAIN runs : Payable(runs[r].st.cost)
DriversInBudget == \A d \in Drivers : InBudget(dr[d])
Budgeted == LifecycleInv /\ RowsInBudget /\ DriversInBudget

\* Multiplication of natural numbers.
LEMMA Times ==
  /\ \A a, b \in Nat : a * b \in Nat
  /\ \A a, b \in Nat : (a + 1) * b = a * b + b
  /\ \A b \in Nat : 0 * b = 0
  /\ \A a, b \in Nat : a >= 1 => a - 1 \in Nat /\ (a - 1) * b + b = a * b
  <1>1. ASSUME NEW a \in Nat, NEW b \in Nat, a >= 1
        PROVE  a - 1 \in Nat /\ (a - 1) * b + b = a * b
    BY <1>1
  <1> QED BY <1>1

\* Multiplication is monotonic.
LEMMA TimesMonotonic == \A a, b, c \in Nat : a <= b => a * c <= b * c
  <1> SUFFICES ASSUME NEW a \in Nat, NEW b \in Nat, NEW c \in Nat, a <= b PROVE a * c <= b * c
    OBVIOUS
  <1>1. PICK k \in Nat : b = a + k
    <2>1. b - a \in Nat /\ b = a + (b - a)
      OBVIOUS
    <2> QED BY <2>1
  <1>2. b * c = a * c + k * c /\ k * c \in Nat /\ a * c \in Nat
    BY <1>1
  <1> QED BY <1>2

\* What attempts, rounds and steps cost.
LEMMA CostTypes ==
  ASSUME NEW s \in Steps
  PROVE  /\ Cost[s] \in Nat /\ AgentOf[s].cost \in Nat /\ AgentOf[s].turns \in Nat
         /\ Round(s) \in Nat /\ AttemptCost(s) \in Nat /\ StepCost(s) \in Nat
         /\ MaxAttempts[s] \in Nat /\ MaxAttempts[s] >= 1 /\ MaxUsd \in Nat /\ MaxCalls \in Nat
         /\ NodeType[s] # "agent" => AttemptCost(s) = Cost[s]
         /\ NodeType[s] = "agent" => AttemptCost(s) = AgentOf[s].turns * Round(s)
  <1>1. /\ Cost[s] \in Nat /\ AgentOf[s] \in Agent
        /\ MaxAttempts[s] \in Nat /\ MaxAttempts[s] >= 1 /\ MaxUsd \in Nat /\ MaxCalls \in Nat
    BY WorkflowAssumption
  <1>2. AgentOf[s].cost \in Nat /\ AgentOf[s].turns \in Nat
    BY <1>1 DEF Agent
  <1>3. ASSUME NEW q \in Steps PROVE Round(q) \in Nat /\ AttemptCost(q) \in Nat
    <2>1. Cost[q] \in Nat /\ AgentOf[q].cost \in Nat /\ AgentOf[q].turns \in Nat
      BY WorkflowAssumption DEF Agent
    <2>2. Round(q) \in Nat
      BY <1>1, <2>1, Times DEF Round
    <2>3. AgentOf[q].turns * Round(q) \in Nat
      BY <2>1, <2>2, Times
    <2> QED BY <2>1, <2>2, <2>3 DEF AttemptCost, Round
  <1>4. MaxAttempts[s] * AttemptCost(s) \in Nat
    BY <1>1, <1>3, Times
  <1>5. CompensateWith[s] # None => AttemptCost(CompensateWith[s]) \in Nat
    BY <1>3, WorkflowAssumption
  <1>6. StepCost(s) \in Nat
    BY <1>4, <1>5 DEF StepCost
  <1> QED BY <1>1, <1>2, <1>3, <1>6 DEF AttemptCost, Round

\* The shape of a driver that is inside a step.
Shaped(x) == /\ x \in Driver /\ x.step \in Steps /\ x.mem.cursor \in Steps
             /\ x.step = (IF x.comp THEN CompensateWith[x.mem.cursor] ELSE x.mem.cursor)

\* Its numbers.
LEMMA ShapedType ==
  ASSUME NEW x, Shaped(x), ~x.comp => x.try >= 1
  PROVE  /\ x.try \in Nat /\ x.turn \in Nat /\ x.left \in Nat /\ x.mem.cost \in Nat
         /\ x.comp \in BOOLEAN
         /\ Owed(x) \in Nat /\ Prior(x) \in Nat /\ Present(x) \in Nat
  <1>1. /\ x.try \in Nat /\ x.turn \in Nat /\ x.left \in Nat /\ x.mem.cost \in Nat
        /\ x.comp \in BOOLEAN /\ x.step \in Steps /\ x.mem.cursor \in Steps
    BY DEF Shaped, Driver, RunState
  <1>2. Owed(x) \in Nat
    BY <1>1, CostTypes, Times DEF Owed
  <1>3. Prior(x) \in Nat
    <2>1. CASE x.comp
      BY <1>1, <2>1, CostTypes, Times DEF Prior
    <2>2. CASE ~x.comp
      <3>1. x.try - 1 \in Nat /\ AttemptCost(x.step) \in Nat
        BY <1>1, <2>2, CostTypes
      <3> QED BY <2>2, <3>1, Times DEF Prior
    <2> QED BY <1>1, <2>1, <2>2
  <1>4. Present(x) \in Nat
    BY <1>1, CostTypes, Times DEF Present
  <1> QED BY <1>1, <1>2, <1>3, <1>4

\* The present attempt books what an attempt may cost.
LEMMA PresentBound ==
  ASSUME NEW x, Shaped(x), Busy(x), InBudget(x)
  PROVE  /\ Present(x) <= AttemptCost(x.step)
         /\ x.mem.cost <= MaxUsd + Prior(x) + AttemptCost(x.step)
         /\ ~x.comp => Prior(x) + AttemptCost(x.step) = x.try * AttemptCost(x.step)
  <1>1. ~x.comp => x.try >= 1 /\ x.try <= MaxAttempts[x.step]
    BY DEF InBudget
  <1>2. /\ x.try \in Nat /\ x.turn \in Nat /\ x.mem.cost \in Nat /\ Owed(x) \in Nat
        /\ Prior(x) \in Nat /\ Present(x) \in Nat /\ x.step \in Steps
    BY <1>1, ShapedType DEF Shaped
  <1>3. /\ AttemptCost(x.step) \in Nat /\ Round(x.step) \in Nat /\ MaxUsd \in Nat
        /\ AgentOf[x.step].turns \in Nat
        /\ NodeType[x.step] = "agent" => AttemptCost(x.step) = AgentOf[x.step].turns * Round(x.step)
    BY <1>2, CostTypes
  <1>4. Present(x) <= AttemptCost(x.step)
    <2>1. CASE x.pc \in {"step", "call"} /\ NodeType[x.step] = "agent"
      <3>1. x.turn <= AgentOf[x.step].turns
        BY <2>1 DEF InBudget
      <3>2. x.turn * Round(x.step) <= AgentOf[x.step].turns * Round(x.step)
        BY <1>2, <1>3, <3>1, TimesMonotonic
      <3> QED BY <1>3, <2>1, <3>2 DEF Present
    <2>2. CASE ~(x.pc \in {"step", "call"} /\ NodeType[x.step] = "agent")
      BY <1>3, <2>2 DEF Present
    <2> QED BY <2>1, <2>2
  <1>5. x.mem.cost + Owed(x) <= MaxUsd + Prior(x) + Present(x)
    BY DEF InBudget
  <1>6. x.mem.cost <= MaxUsd + Prior(x) + AttemptCost(x.step)
    BY <1>2, <1>3, <1>4, <1>5
  <1>7. ~x.comp => Prior(x) + AttemptCost(x.step) = x.try * AttemptCost(x.step)
    BY <1>1, <1>2, <1>3, Times DEF Prior
  <1> QED BY <1>4, <1>6, <1>7

\* A step that is left, or paused in, has booked at most its StepCost.
LEMMA StepCostBound ==
  ASSUME NEW x, Shaped(x), Busy(x), InBudget(x)
  PROVE  Payable(x.mem.cost)
  <1> DEFINE u == x.mem.cursor
  <1>1. u \in Steps /\ x.step \in Steps /\ x.comp \in BOOLEAN
    BY DEF Shaped, Driver
  <1>2. x.mem.cost \in Nat /\ x.try \in Nat /\ Prior(x) \in Nat
    BY ShapedType DEF InBudget
  <1>3. /\ AttemptCost(u) \in Nat /\ AttemptCost(x.step) \in Nat /\ MaxAttempts[u] \in Nat
        /\ MaxUsd \in Nat /\ StepCost(u) \in Nat
    BY <1>1, CostTypes
  <1>4. MaxAttempts[u] * AttemptCost(u) \in Nat
    BY <1>3, Times
  <1>5. CASE x.comp
    <2>1. CompensateWith[u] = x.step /\ x.step # None
      BY <1>1, <1>5, StepAssumption DEF Shaped
    <2>2. StepCost(u) = MaxAttempts[u] * AttemptCost(u) + AttemptCost(x.step)
      BY <2>1 DEF StepCost
    <2>3. Prior(x) = MaxAttempts[u] * AttemptCost(u)
      BY <1>5 DEF Prior
    <2>4. x.mem.cost <= MaxUsd + StepCost(u)
      BY <1>2, <1>3, <1>4, <2>2, <2>3, PresentBound
    <2> QED BY <1>1, <2>4 DEF Payable
  <1>6. CASE ~x.comp
    <2>1. x.step = u /\ x.try <= MaxAttempts[u]
      BY <1>6 DEF Shaped, InBudget
    <2>2. x.try * AttemptCost(u) <= MaxAttempts[u] * AttemptCost(u)
      BY <1>2, <1>3, <2>1, TimesMonotonic
    <2>3. MaxAttempts[u] * AttemptCost(u) <= StepCost(u)
      <3>1. CompensateWith[u] # None => AttemptCost(CompensateWith[u]) \in Nat
        BY <1>1, CostTypes, WorkflowAssumption
      <3> QED BY <1>4, <3>1 DEF StepCost
    <2>4. Prior(x) + AttemptCost(u) = x.try * AttemptCost(u)
      BY <1>6, <2>1, PresentBound
    <2>5. x.mem.cost <= MaxUsd + Prior(x) + AttemptCost(u)
      BY <2>1, PresentBound
    <2>6. x.try * AttemptCost(u) \in Nat
      BY <1>2, <1>3, Times
    <2> HIDE DEF u
    <2>7. x.mem.cost <= MaxUsd + StepCost(u)
      BY <1>2, <1>3, <1>4, <2>2, <2>3, <2>4, <2>5, <2>6
    <2> QED BY <1>1, <2>7 DEF Payable
  <1> QED BY <1>1, <1>5, <1>6

\* Every step inside a step of the workflow stays within what it may cost.
LEMMA EffortInBudget ==
  ASSUME NEW x, Shaped(x), Busy(x), InBudget(x), NEW y, Shaped(y), Effort(x, y),
         y.mem.cursor = x.mem.cursor,
         y.pc \in {"execute", "record"} => NodeType[y.step] = "tool"
  PROVE  InBudget(y)
  <1> DEFINE a == AttemptCost(x.step)
             R == Round(x.step)
             e == AgentOf[x.step].cost
  <1>c. /\ a \in Nat /\ R \in Nat /\ e \in Nat /\ MaxUsd \in Nat /\ MaxCalls \in Nat
        /\ Cost[x.step] \in Nat /\ AgentOf[x.step].turns \in Nat
        /\ NodeType[x.step] # "agent" => a = Cost[x.step]
        /\ NodeType[x.step] = "agent" => a = AgentOf[x.step].turns * R
        /\ R = Cost[x.step] + MaxCalls * e
    BY CostTypes DEF Shaped, Round
  <1>x. /\ x.try \in Nat /\ x.turn \in Nat /\ x.left \in Nat /\ x.mem.cost \in Nat
        /\ x.comp \in BOOLEAN /\ Owed(x) \in Nat /\ Prior(x) \in Nat /\ Present(x) \in Nat
    BY ShapedType DEF InBudget
  <1>y. y.try \in Nat /\ y.turn \in Nat /\ y.left \in Nat /\ y.mem.cost \in Nat /\ y.comp \in BOOLEAN
    BY DEF Shaped, Driver, RunState
  <1>b. x.mem.cost + Owed(x) <= MaxUsd + Prior(x) + Present(x)
    BY DEF InBudget
  <1>p. /\ Present(x) <= a /\ x.mem.cost <= MaxUsd + Prior(x) + a
        /\ ~x.comp => Prior(x) + a = x.try * a
    BY PresentBound
  <1>s. SameTry(x, y) => Prior(y) = Prior(x) /\ (~y.comp => 1 <= y.try /\ y.try <= MaxAttempts[y.step])
    BY DEF SameTry, Prior, InBudget
  <1>1. CASE y.pc = "raised"
    BY <1>1 DEF InBudget, Busy
  <1>2. CASE /\ y.pc \in {"commit", "fail"} /\ SameTry(x, y)
             /\ \/ y.mem.cost = x.mem.cost
                \/ /\ y.mem.cost = x.mem.cost + Cost[x.step]
                   /\ \/ x.pc \in {"execute", "record"}
                      \/ /\ x.pc = "step" /\ NodeType[x.step] = "agent"
                         /\ x.turn < AgentOf[x.step].turns
    <2>1. Owed(y) = 0 /\ Present(y) = a
      BY <1>2 DEF Owed, Present, SameTry
    <2>2. y.mem.cost <= MaxUsd + Prior(x) + a
      <3>1. CASE y.mem.cost = x.mem.cost
        BY <1>p, <3>1
      <3>2. CASE y.mem.cost = x.mem.cost + Cost[x.step] /\ x.pc \in {"execute", "record"}
        <4>1. Present(x) = 0 /\ a = Cost[x.step]
          BY <1>c, <3>2 DEF Present, InBudget
        <4> HIDE DEF a
        <4> QED BY <1>b, <1>c, <1>x, <3>2, <4>1
      <3>3. CASE /\ y.mem.cost = x.mem.cost + Cost[x.step]
                 /\ x.pc = "step" /\ NodeType[x.step] = "agent" /\ x.turn < AgentOf[x.step].turns
        <4>1. Present(x) = x.turn * R
          BY <3>3 DEF Present
        <4>2. (x.turn + 1) * R <= AgentOf[x.step].turns * R /\ (x.turn + 1) * R = x.turn * R + R
          <5>1. x.turn + 1 \in Nat /\ x.turn + 1 <= AgentOf[x.step].turns
            BY <1>c, <1>x, <3>3
          <5> HIDE DEF R
          <5> QED BY <1>c, <1>x, <5>1, Times, TimesMonotonic
        <4>3. Cost[x.step] <= R
          <5>1. MaxCalls * e \in Nat
            BY <1>c, Times
          <5> HIDE DEF R, e
          <5> QED BY <1>c, <5>1
        <4>4. x.turn * R \in Nat
          BY <1>c, <1>x, Times
        <4> HIDE DEF R, a
        <4> QED BY <1>b, <1>c, <1>x, <3>3, <4>1, <4>2, <4>3, <4>4
      <3> QED BY <1>2, <3>1, <3>2, <3>3
    <2> HIDE DEF a
    <2>3. y.mem.cost + Owed(y) <= MaxUsd + Prior(y) + Present(y)
      BY <1>c, <1>s, <1>x, <1>y, <1>2, <2>1, <2>2
    <2> QED BY <1>s, <1>2, <2>3 DEF InBudget
  <1>3. CASE /\ y.pc \in Gating \cup {"pause", "record"} /\ SameTry(x, y)
             /\ y.mem.cost = x.mem.cost
             /\ x.pc \in Gating \/ (x.pc = "step" /\ NodeType[x.step] # "agent")
    <2>1. Owed(y) = 0 /\ Present(y) = 0 /\ Present(x) = 0
      BY <1>3 DEF Owed, Present, Gating
    <2>2. y.mem.cost + Owed(y) <= MaxUsd + Prior(y) + Present(y)
      BY <1>b, <1>c, <1>s, <1>x, <1>3, <2>1
    <2> QED BY <1>s, <1>3, <2>2 DEF InBudget, Gating
  <1>4. CASE /\ x.pc = "step" /\ y.pc = "call" /\ NodeType[x.step] = "agent" /\ SameTry(x, y)
             /\ x.turn < AgentOf[x.step].turns /\ y.turn = x.turn + 1 /\ y.left \in 1 .. MaxCalls
             /\ y.mem.cost = x.mem.cost + Cost[x.step]
    <2>1. Present(x) = x.turn * R /\ Present(y) = (x.turn + 1) * R /\ Owed(y) = y.left * e
      BY <1>4 DEF Present, Owed, SameTry
    <2>2. (x.turn + 1) * R = x.turn * R + R /\ x.turn * R \in Nat
      <3> HIDE DEF R
      <3> QED BY <1>c, <1>x, Times
    <2>3. y.left * e <= MaxCalls * e /\ y.left * e \in Nat /\ MaxCalls * e \in Nat
      <3> HIDE DEF e
      <3> QED BY <1>c, <1>y, <1>4, Times, TimesMonotonic
    <2> HIDE DEF R, e
    <2>4. y.mem.cost + Owed(y) <= MaxUsd + Prior(y) + Present(y)
      BY <1>b, <1>c, <1>s, <1>x, <1>4, <2>1, <2>2, <2>3
    <2>5. y.turn <= AgentOf[y.step].turns /\ NodeType[y.step] = "agent"
      BY <1>c, <1>x, <1>4 DEF SameTry
    <2> QED BY <1>s, <1>4, <2>4, <2>5 DEF InBudget
  <1>5. CASE /\ x.pc = "call" /\ y.pc \in {"call", "step"} /\ SameTry(x, y) /\ y.turn = x.turn
             /\ x.left > 0 /\ (y.pc = "call" => y.left = x.left - 1)
             /\ y.mem.cost = x.mem.cost \/ y.mem.cost = x.mem.cost + e
    <2>1. NodeType[y.step] = "agent" /\ y.turn <= AgentOf[y.step].turns
      BY <1>5 DEF InBudget, SameTry, Busy, Active
    <2>2. Present(y) = Present(x) /\ Owed(x) = x.left * e
      BY <1>5, <2>1 DEF Present, Owed, SameTry
    <2>3. Owed(y) = 0 \/ Owed(y) = (x.left - 1) * e
      BY <1>5 DEF Owed, SameTry
    <2>4. (x.left - 1) * e + e = x.left * e /\ (x.left - 1) * e \in Nat
      <3>1. x.left - 1 \in Nat /\ x.left >= 1
        BY <1>x, <1>5
      <3> HIDE DEF e
      <3> QED BY <1>c, <1>x, <3>1, Times
    <2> HIDE DEF e
    <2>5. y.mem.cost + Owed(y) <= MaxUsd + Prior(y) + Present(y)
      BY <1>b, <1>c, <1>s, <1>x, <1>5, <2>2, <2>3, <2>4
    <2> QED BY <1>s, <1>5, <2>1, <2>5 DEF InBudget
  <1>6. CASE /\ y.pc = "step" /\ y.step = x.step /\ ~x.comp /\ ~y.comp /\ y.mem.cost = x.mem.cost
             /\ x.try < MaxAttempts[x.step] /\ y.try = x.try + 1 /\ y.turn = 0
    <2>1. Present(y) = 0 /\ Owed(y) = 0
      <3>1. 0 * Round(y.step) = 0
        BY <1>c, <1>6, Times
      <3> QED BY <1>6, <3>1 DEF Present, Owed
    <2>2. Prior(y) = x.try * a
      <3>1. y.try - 1 = x.try
        BY <1>x, <1>6
      <3> QED BY <1>6, <3>1 DEF Prior
    <2>3. x.try * a \in Nat
      BY <1>c, <1>x, Times
    <2> HIDE DEF a
    <2>4. y.mem.cost + Owed(y) <= MaxUsd + Prior(y) + Present(y)
      BY <1>c, <1>p, <1>x, <1>6, <2>1, <2>2, <2>3
    <2>5. 1 <= y.try /\ y.try <= MaxAttempts[y.step] /\ 0 <= AgentOf[y.step].turns
      BY <1>c, <1>x, <1>6, CostTypes DEF Shaped
    <2> QED BY <1>6, <2>4, <2>5 DEF InBudget
  <1>7. CASE /\ y.pc = "step" /\ y.step = CompensateWith[x.step] /\ y.step # None /\ ~x.comp /\ y.comp
             /\ y.mem.cost = x.mem.cost /\ y.turn = 0
    <2>1. Present(y) = 0 /\ Owed(y) = 0 /\ AgentOf[y.step].turns \in Nat
      <3>1. 0 * Round(y.step) = 0 /\ AgentOf[y.step].turns \in Nat
        BY CostTypes, Times DEF Shaped
      <3> QED BY <1>7, <3>1 DEF Present, Owed
    <2>2. x.mem.cursor = x.step /\ x.try <= MaxAttempts[x.step] /\ MaxAttempts[x.step] \in Nat
      BY <1>7, CostTypes DEF Shaped, InBudget
    <2>3. Prior(y) = MaxAttempts[x.step] * a
      BY <1>7, <2>2 DEF Prior
    <2>4. x.try * a <= MaxAttempts[x.step] * a /\ x.try * a \in Nat /\ MaxAttempts[x.step] * a \in Nat
      <3> HIDE DEF a
      <3> QED BY <1>c, <1>x, <2>2, Times, TimesMonotonic
    <2> HIDE DEF a
    <2>5. y.mem.cost + Owed(y) <= MaxUsd + Prior(y) + Present(y)
      BY <1>c, <1>p, <1>x, <1>7, <2>1, <2>3, <2>4
    <2> QED BY <1>7, <2>1, <2>5 DEF InBudget
  <1> QED BY <1>1, <1>2, <1>3, <1>4, <1>5, <1>6, <1>7 DEF Effort

\* An active driver on track has the shape the arithmetic needs.
LEMMA TrackShaped ==
  ASSUME TypeOK, NEW d \in Drivers, NEW rows, OnTrack(rows, dr[d]), Active(dr[d])
  PROVE  Shaped(dr[d])
  BY DEF TypeOK, DriverTypeOK, OnTrack, Active, Shaped

\* So it has in the next state.
LEMMA NextTrackShaped ==
  ASSUME TypeOK', NEW d \in Drivers, NEW rows, OnTrack(rows, dr'[d]), Active(dr'[d])
  PROVE  Shaped(dr'[d])
  BY DEF TypeOK, DriverTypeOK, OnTrack, Active, Shaped

\* The idle driver owes nothing, and a new run can be paid for.
LEMMA IdleInBudget == InBudget(Idle) /\ Payable(NewRun.cost)
  <1>1. Start \in Steps /\ StepCost(Start) \in Nat /\ MaxUsd \in Nat
    BY WorkflowAssumption, CostTypes
  <1>2. Payable(0)
    BY <1>1 DEF Payable
  <1> QED BY <1>2 DEF InBudget, Idle, Busy, Active, NewRun

\* A driver starts with what its run has spent.
LEMMA BeginInBudget ==
  ASSUME NEW r \in RunIds, NEW st \in RunState, Payable(st.cost)
  PROVE  InBudget(Begin(r, st))
  <1> DEFINE y == Begin(r, st)
  <1>1. y = Idle \/ (y.pc = "loop" /\ y.turn = 0 /\ y.mem.cost = st.cost)
    BY BeginView
  <1> SUFFICES InBudget(y)
    OBVIOUS
  <1> HIDE DEF y
  <1> QED BY <1>1, IdleInBudget DEF InBudget, Busy

\* One driver changes.
LEMMA OthersInBudget ==
  ASSUME Budgeted, NEW d \in Drivers, NEW y, Put(d, y), InBudget(y)
  PROVE  DriversInBudget'
  <1>1. dr'[d] = y /\ \A e \in Drivers : e # d => dr'[e] = dr[e]
    BY PutView DEF Budgeted, LifecycleInv
  <1> QED BY <1>1 DEF DriversInBudget, Budgeted

\* Requests.
LEMMA RequestInBudget ==
  ASSUME Budgeted, NEW d \in Drivers, Request(d)
  PROVE  RowsInBudget' /\ DriversInBudget'
  <1>t. TypeOK /\ RowsInBudget /\ DriversInBudget
    BY DEF Budgeted, LifecycleInv
  <1>1. CASE \E t \in Tenants, k \in Keys, r \in RunIds : Fire(d, t, k, r)
    <2>0. PICK t \in Tenants, k \in Keys, r \in RunIds : Fire(d, t, k, r)
      BY <1>1
    <2>1. /\ DOMAIN runs' = DOMAIN runs \cup {r} /\ runs'[r].st = NewRun
          /\ \A q \in DOMAIN runs : runs'[q] = runs[q]
          /\ Put(d, Begin(r, NewRun))
      BY <1>t, <2>0, FireView
    <2>2. RowsInBudget'
      BY <1>t, <2>1, IdleInBudget DEF RowsInBudget
    <2>3. InBudget(Begin(r, NewRun))
      BY IdleType, IdleInBudget, BeginInBudget
    <2> QED BY <2>1, <2>2, <2>3, OthersInBudget
  <1>2. ASSUME NEW r \in DOMAIN runs, runs[r].st \in RunState, r \in RunIds,
               \/ Put(d, Begin(r, runs[r].st))
               \/ Put(d, [Idle EXCEPT !.pc = "resolving", !.run = r, !.mem = runs[r].st]),
               UNCHANGED <<storeVars, posted>>
        PROVE  RowsInBudget' /\ DriversInBudget'
    <2>1. RowsInBudget' /\ Payable(runs[r].st.cost)
      BY <1>t, <1>2 DEF storeVars, RowsInBudget
    <2> DEFINE z == [Idle EXCEPT !.pc = "resolving", !.run = r, !.mem = runs[r].st]
    <2>2. z.pc = "resolving" /\ z.mem = runs[r].st
      BY DEF Idle
    <2>3. Put(d, z) \/ Put(d, Begin(r, runs[r].st))
      BY <1>2
    <2> HIDE DEF z
    <2>4. InBudget(z)
      BY <2>1, <2>2 DEF InBudget, Busy, Active
    <2>5. InBudget(Begin(r, runs[r].st))
      BY <1>2, <2>1, BeginInBudget
    <2> QED BY <2>1, <2>3, <2>4, <2>5, OthersInBudget
  <1>3. ASSUME dr[d].pc = "resolving", dr[d].run \in RunIds, dr[d].mem \in RunState,
               Put(d, Begin(dr[d].run, dr[d].mem)), UNCHANGED runs
        PROVE  RowsInBudget' /\ DriversInBudget'
    <2>1. Payable(dr[d].mem.cost)
      BY <1>t, <1>3 DEF DriversInBudget, InBudget
    <2>2. InBudget(Begin(dr[d].run, dr[d].mem))
      BY <1>3, <2>1, BeginInBudget
    <2> QED BY <1>t, <1>3, <2>2, OthersInBudget DEF RowsInBudget
  <1> QED BY <1>t, <1>1, <1>2, <1>3, StartView

\* The steps of a driver.
LEMMA DriverStepInBudget ==
  ASSUME Budgeted, LifecycleInv', NEW d \in Drivers, Moves(d) \/ Works(d) \/ Saves(d)
  PROVE  RowsInBudget' /\ DriversInBudget'
  <1> DEFINE x == dr[d]
             y == dr'[d]
  <1>t. /\ TypeOK /\ TypeOK' /\ RowsInBudget /\ DriversInBudget /\ InBudget(x)
        /\ OnTrack(approvals, x) /\ OnTrack(approvals', y)
        /\ x \in Driver
    BY DEF Budgeted, LifecycleInv, DriversOnTrack, DriversInBudget, TypeOK, DriverTypeOK
  <1>x. Active(x) => Shaped(x)
    BY <1>t, TrackShaped
  <1>y. Active(y) => Shaped(y)
    BY <1>t, NextTrackShaped
  <1>1. CASE Moves(d) /\ x.pc = "loop"
    <2>1. Put(d, y) /\ Moved(x, y) /\ UNCHANGED runs
      BY <1>t, <1>1, MoveView
    <2>2. /\ y.pc = "step" /\ y.step = x.step /\ y.comp = x.comp /\ y.try = 1 /\ y.turn = x.turn
          /\ y.mem.cost = x.mem.cost /\ ~OverBudget(x.mem)
      BY <1>1, <2>1 DEF Moved, SameCopy
    <2>3. ~y.comp /\ y.turn = 0
      BY <1>t, <1>1, <2>2 DEF OnTrack, InBudget
    <2>4. Shaped(y) /\ y.step \in Steps /\ y.mem.cost \in Nat
      BY <1>y, <2>2 DEF Active, Shaped, Driver, RunState
    <2>5. /\ AttemptCost(y.step) \in Nat /\ Round(y.step) \in Nat /\ MaxUsd \in Nat
          /\ MaxAttempts[y.step] >= 1 /\ AgentOf[y.step].turns \in Nat
      BY <2>4, CostTypes
    <2>6. y.mem.cost <= MaxUsd
      BY <2>2, <2>4, <2>5 DEF OverBudget
    <2>7. Owed(y) = 0 /\ Prior(y) = 0 /\ Present(y) = 0
      <3>1. 0 * AttemptCost(y.step) = 0 /\ 0 * Round(y.step) = 0 /\ y.try - 1 = 0
        BY <2>2, <2>5, Times
      <3> QED BY <2>2, <2>3, <3>1 DEF Owed, Prior, Present
    <2> HIDE DEF y
    <2>8. y.mem.cost + Owed(y) <= MaxUsd + Prior(y) + Present(y)
      BY <2>4, <2>5, <2>6, <2>7
    <2>9. 1 <= y.try /\ y.try <= MaxAttempts[y.step] /\ y.turn <= AgentOf[y.step].turns
      BY <2>2, <2>3, <2>5
    <2>10. InBudget(y)
      BY <2>2, <2>8, <2>9 DEF InBudget
    <2> QED BY <1>t, <2>1, <2>10, OthersInBudget DEF y, RowsInBudget
  <1>2. CASE (Moves(d) /\ x.pc # "loop") \/ Works(d)
    <2>1. /\ Put(d, y) /\ UNCHANGED runs /\ Effort(x, y) /\ y.mem.cursor = x.mem.cursor
          /\ Busy(x) /\ Active(y)
          /\ y.pc \in {"execute", "record"} => NodeType[y.step] = "tool"
      <3>1. CASE Moves(d) /\ x.pc # "loop"
        <4>1. Put(d, y) /\ UNCHANGED runs /\ Effort(x, y) /\ Moved(x, y)
          BY <1>t, <3>1, MoveView, MoveEffort
        <4> QED BY <3>1, <4>1 DEF Moved, SameCopy, Busy, Active, Gating
      <3>2. CASE Works(d)
        <4>1. Put(d, y) /\ UNCHANGED runs /\ Effort(x, y) /\ Worked(x, y)
          BY <1>t, <3>2, WorkView, WorkEffort
        <4>2. y.pc = "record" => NodeType[y.step] = "tool"
          BY <1>t, <4>1 DEF Worked, InBudget
        <4> QED BY <4>1, <4>2 DEF Worked, SameProgress, Busy, Active
      <3> QED BY <1>2, <3>1, <3>2
    <2>2. Shaped(x) /\ Shaped(y)
      BY <1>x, <1>y, <2>1 DEF Busy
    <2>3. InBudget(y)
      BY <1>t, <2>1, <2>2, EffortInBudget
    <2> QED BY <1>t, <2>1, <2>3, OthersInBudget DEF RowsInBudget
  <1>3. CASE Saves(d)
    <2>1. Put(d, y) /\ x.run \in DOMAIN runs
      BY <1>t, <1>3, SaveView
    <2>2. PICK st \in RunState : Saved(x, y, st) /\ Checkpoint(x.run, st, x.buf)
      BY <1>t, <1>3, SaveView
    <2>3. /\ DOMAIN runs' = DOMAIN runs /\ runs'[x.run].st = st
          /\ \A q \in DOMAIN runs : q # x.run => runs'[q] = runs[q]
      BY <1>t, <2>1, <2>2, CheckpointView
    <2>4. Active(x) /\ x.pc # "raised" /\ st.cost = x.mem.cost
      BY <2>2 DEF Saved, Active
    <2>5. Payable(st.cost)
      <3>1. CASE x.pc = "loop"
        BY <1>t, <2>4, <3>1 DEF InBudget
      <3>2. CASE x.pc # "loop"
        BY <1>t, <1>x, <2>4, <3>2, StepCostBound DEF Busy
      <3> QED BY <3>1, <3>2
    <2>6. RowsInBudget'
      BY <1>t, <2>3, <2>5 DEF RowsInBudget
    <2>7. InBudget(y)
      <3>1. CASE y = Idle
        BY <3>1, IdleInBudget
      <3>2. CASE y.pc = "raised"
        BY <3>2 DEF InBudget, Busy
      <3>3. CASE y.pc = "loop" /\ y.mem = st /\ y.turn = 0
        BY <2>5, <3>3 DEF InBudget, Busy
      <3>4. CASE /\ x.pc = "pause" /\ st.cursor = x.mem.cursor /\ x.comp
                 /\ y.pc = "fail" /\ y.step = x.step /\ y.comp = x.comp /\ y.mem = st
        <4>1. Shaped(x) /\ Busy(x) /\ x.mem.cost \in Nat /\ Prior(x) \in Nat
          BY <1>t, <1>x, <2>4, <3>4, ShapedType DEF Busy, InBudget
        <4>2. AttemptCost(x.step) \in Nat /\ MaxUsd \in Nat
          BY <4>1, CostTypes DEF Shaped
        <4>3. Prior(y) = Prior(x) /\ Owed(y) = 0 /\ Present(y) = AttemptCost(x.step)
          BY <3>4 DEF Prior, Owed, Present
        <4>4. x.mem.cost <= MaxUsd + Prior(x) + AttemptCost(x.step)
          BY <1>t, <4>1, PresentBound
        <4> HIDE DEF y
        <4>5. y.mem.cost + Owed(y) <= MaxUsd + Prior(y) + Present(y)
          BY <2>4, <3>4, <4>1, <4>2, <4>3, <4>4
        <4> QED BY <3>4, <4>5 DEF InBudget
      <3> QED BY <2>2, <3>1, <3>2, <3>3, <3>4 DEF Saved
    <2> QED BY <2>1, <2>6, <2>7, OthersInBudget
  <1> QED BY <1>1, <1>2, <1>3

\* Crashes, returns, cancels, purges and late calls.
LEMMA OtherInBudget ==
  ASSUME Budgeted,
         \/ \E d \in Drivers : Crash(d) \/ Return(d)
         \/ \E r \in RunIds : Cancel(r)
         \/ \E t, old : Purge(t, old)
         \/ \E c \in inflight : Land(c)
         \/ UNCHANGED vars
  PROVE  RowsInBudget' /\ DriversInBudget'
  <1>t. TypeOK /\ RowsInBudget /\ DriversInBudget
    BY DEF Budgeted, LifecycleInv
  <1>1. ASSUME NEW d \in Drivers, Crash(d) \/ Return(d)
        PROVE  RowsInBudget' /\ DriversInBudget'
    <2>1. Put(d, Idle) /\ UNCHANGED runs
      BY <1>1, StopView DEF storeVars
    <2> QED BY <1>t, <2>1, IdleInBudget, OthersInBudget DEF RowsInBudget
  <1>2. ASSUME NEW r \in RunIds, Cancel(r)
        PROVE  RowsInBudget' /\ DriversInBudget'
    <2>1. /\ DOMAIN runs' = DOMAIN runs /\ UNCHANGED dr
          /\ \A q \in DOMAIN runs : runs'[q].st.cost = runs[q].st.cost
      BY <1>t, <1>2, CancelView
    <2> QED BY <1>t, <2>1 DEF RowsInBudget, DriversInBudget
  <1>3. CASE \/ \E t, old : Purge(t, old)
             \/ \E c \in inflight : Land(c)
             \/ UNCHANGED vars
    <2>1. UNCHANGED <<runs, dr>>
      BY <1>t, <1>3, PurgeView DEF Land, storeVars, vars
    <2> QED BY <1>t, <2>1 DEF RowsInBudget, DriversInBudget
  <1> QED BY <1>1, <1>2, <1>3

\* Budget.check runs before a step only: whatever pauses, crashes, retries and
\* drivers there are, a run stops at most one step past max_steps and one
\* step's cost past budget_usd (workflow.py _drive, Budget.check).
THEOREM BudgetIsOvershotOnce == Spec => []OvershootIsOneStep
  <1>1. Init => Budgeted
    <2> SUFFICES ASSUME Init PROVE Budgeted
      OBVIOUS
    <2>1. DOMAIN runs = {} /\ dr = [d \in Drivers |-> Idle]
      BY DEF Init, StoreInit
    <2>2. \A d \in Drivers : dr[d] = Idle
      BY <2>1
    <2> QED BY <2>1, <2>2, LifecycleStep, IdleInBudget DEF Budgeted, RowsInBudget, DriversInBudget
  <1>2. Budgeted /\ [Next]_vars => Budgeted'
    <2> SUFFICES ASSUME Budgeted, [Next]_vars PROVE Budgeted'
      OBVIOUS
    <2>1. LifecycleInv'
      BY LifecycleStep DEF Budgeted
    <2>2. RowsInBudget' /\ DriversInBudget'
      BY <2>1, NextKinds, RequestInBudget, DriverStepInBudget, OtherInBudget
    <2> QED BY <2>1, <2>2 DEF Budgeted
  <1>3. Budgeted => OvershootIsOneStep
    BY DEF Budgeted, LifecycleInv, RowsOnTrack, RowOnTrack, RowsInBudget, Payable, OvershootIsOneStep
  <1> QED BY <1>1, <1>2, <1>3, PTL DEF Spec
=============================================================================
