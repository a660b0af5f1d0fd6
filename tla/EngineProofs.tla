---------------------------- MODULE EngineProofs ----------------------------
(***************************************************************************)
(* Proofs about the engine, for every workflow, every set of drivers and   *)
(* runs and every value of the bounds.                                     *)
(***************************************************************************)
EXTENDS Engine, TLAPS

-----------------------------------------------------------------------------
(* The helpers keep the driver record well typed.                          *)

\* The initial Run and the idle driver are typed.
LEMMA IdleType == NewRun \in RunState /\ Idle \in Driver
  BY WorkflowAssumption, StepAssumption
     DEF NewRun, Idle, RunState, Driver, RunStatus, Context, Slot, Control, Batch, NoEvents

\* An active driver is one in the middle of resume, with a step in hand.
Active(x) == x.pc \notin {"idle", "resolving"}

\* resume leaves a typed driver: idle again, or at the head of the loop with a step.
LEMMA BeginType ==
  ASSUME NEW r \in RunIds, NEW st \in RunState
  PROVE  /\ Begin(r, st) \in Driver
         /\ Begin(r, st).pc \in {"idle", "loop"}
         /\ Begin(r, st).pc # "idle" => Begin(r, st).run = r /\ Begin(r, st).step \in Steps
  <1>1. CASE st.status \in Terminal
    <2>1. Begin(r, st) = Idle /\ Idle.pc = "idle"
      BY <1>1 DEF Begin, Idle
    <2> QED BY <2>1, IdleType
  <1>2. CASE st.status \notin Terminal
    <2> DEFINE step == IF st.cursor = None THEN Start ELSE st.cursor
               mem == [st EXCEPT !.status = "running"]
    <2>1. step \in Steps /\ mem \in RunState
      BY WorkflowAssumption DEF RunState, RunStatus
    <2>2. Begin(r, st) = [Idle EXCEPT !.pc = "loop", !.run = r, !.step = step, !.mem = mem]
      BY <1>2 DEF Begin
    <2> HIDE DEF step, mem
    <2> QED BY <2>1, <2>2, IdleType, ZenonT(60) DEF Driver, Control
  <1> QED BY <1>1, <1>2

\* A finished step leads to the commit, or to the failure a compensation serves.
LEMMA StepDoneType ==
  ASSUME NEW x \in Driver
  PROVE  /\ StepDone(x) \in Driver
         /\ StepDone(x).run = x.run /\ StepDone(x).step = x.step
         /\ StepDone(x).pc \in {"commit", "fail"}
  BY DEF StepDone, Driver, Control

\* Moving only the program counter.
LEMMA MoveType ==
  ASSUME NEW x \in Driver, NEW c \in Control
  PROVE  /\ [x EXCEPT !.pc = c] \in Driver
         /\ [x EXCEPT !.pc = c].pc = c
         /\ [x EXCEPT !.pc = c].run = x.run
         /\ [x EXCEPT !.pc = c].step = x.step
  BY DEF Driver

\* Setting one of the counters of the agent loop.
LEMMA CounterType ==
  ASSUME NEW x \in Driver, NEW n \in Nat
  PROVE  /\ [x EXCEPT !.turn = n] \in Driver /\ [x EXCEPT !.left = n] \in Driver
         /\ [x EXCEPT !.turn = n].pc = x.pc /\ [x EXCEPT !.left = n].pc = x.pc
         /\ [x EXCEPT !.turn = n].run = x.run /\ [x EXCEPT !.left = n].run = x.run
         /\ [x EXCEPT !.turn = n].step = x.step /\ [x EXCEPT !.left = n].step = x.step
         /\ [x EXCEPT !.turn = n].left = x.left /\ [x EXCEPT !.left = n].left = n
  BY DEF Driver

\* A failed connector call is retried, compensated or fails the run.
LEMMA ConnectorFailedType ==
  ASSUME NEW x \in Driver, x.step \in Steps
  PROVE  /\ ConnectorFailed(x) \in Driver
         /\ ConnectorFailed(x).run = x.run /\ ConnectorFailed(x).step \in Steps
         /\ ConnectorFailed(x).pc \in {"step", "fail"}
  <1>1. CASE ~x.comp /\ x.try < MaxAttempts[x.step]
    <2> DEFINE y == [x EXCEPT !.pc = "step", !.try = @ + 1]
    <2>1. ConnectorFailed(x) = [y EXCEPT !.turn = 0]
      BY <1>1 DEF ConnectorFailed, Driver
    <2>2. x.try + 1 \in Nat
      BY DEF Driver
    <2>3. y \in Driver /\ y.run = x.run /\ y.step = x.step /\ y.pc = "step"
      BY <2>2 DEF Driver, Control
    <2> HIDE DEF y
    <2>4. [y EXCEPT !.turn = 0] \in Driver
      BY <2>3, CounterType
    <2>5. /\ [y EXCEPT !.turn = 0].pc = y.pc /\ [y EXCEPT !.turn = 0].run = y.run
          /\ [y EXCEPT !.turn = 0].step = y.step
      BY <2>3, CounterType
    <2> QED BY <2>1, <2>3, <2>4, <2>5
  <1>2. CASE ~(~x.comp /\ x.try < MaxAttempts[x.step]) /\ ~x.comp /\ CompensateWith[x.step] # None
    <2>1. CompensateWith[x.step] \in Steps
      BY <1>2, WorkflowAssumption
    <2> DEFINE y == [x EXCEPT !.pc = "step", !.step = CompensateWith[x.step], !.comp = TRUE]
    <2>2. ConnectorFailed(x) = [y EXCEPT !.turn = 0]
      BY <1>2 DEF ConnectorFailed, Driver
    <2>3. y \in Driver /\ y.run = x.run /\ y.step \in Steps /\ y.pc = "step"
      BY <2>1 DEF Driver, Control
    <2> HIDE DEF y
    <2>4. [y EXCEPT !.turn = 0] \in Driver
      BY <2>3, CounterType
    <2>5. /\ [y EXCEPT !.turn = 0].pc = y.pc /\ [y EXCEPT !.turn = 0].run = y.run
          /\ [y EXCEPT !.turn = 0].step = y.step
      BY <2>3, CounterType
    <2> QED BY <2>2, <2>3, <2>4, <2>5
  <1>3. CASE /\ ~(~x.comp /\ x.try < MaxAttempts[x.step])
             /\ ~(~x.comp /\ CompensateWith[x.step] # None)
    BY <1>3 DEF ConnectorFailed, Driver, Control
  <1> QED BY <1>1, <1>2, <1>3

\* Booking a cost keeps the driver's type, run, step and calls left to do.
LEMMA BookedType ==
  ASSUME NEW x \in Driver, NEW c \in Nat
  PROVE  /\ Booked(x, c) \in Driver
         /\ Booked(x, c).run = x.run /\ Booked(x, c).step = x.step
         /\ Booked(x, c).left = x.left
  <1>1. [x.mem EXCEPT !.cost = @ + c] \in RunState
    BY DEF Driver, RunState
  <1>2. [x.buf EXCEPT !.cost = @ + c] \in Batch
    BY DEF Driver, Batch
  <1> QED BY <1>1, <1>2 DEF Booked, Driver

\* A model that asks for tool calls starts them.
LEMMA AskedType ==
  ASSUME NEW x \in Driver, NEW n \in Nat
  PROVE  /\ Asked(x, n) \in Driver
         /\ Asked(x, n).run = x.run /\ Asked(x, n).step = x.step
         /\ Asked(x, n).pc = "call" /\ Asked(x, n).left = n
  <1> DEFINE y == [x EXCEPT !.pc = "call"]
             z == [y EXCEPT !.left = n]
  <1>1. y \in Driver /\ y.run = x.run /\ y.step = x.step /\ y.pc = "call" /\ y.turn = x.turn
    BY DEF Driver, Control
  <1>2. z \in Driver /\ z.run = x.run /\ z.step = x.step /\ z.pc = "call" /\ z.left = n
    <2> HIDE DEF y
    <2> QED BY <1>1, CounterType
  <1>3. x.turn + 1 \in Nat
    BY DEF Driver
  <1>4. Asked(x, n) = [z EXCEPT !.turn = x.turn + 1]
    BY DEF Asked, Driver
  <1> HIDE DEF z
  <1> DEFINE t == x.turn + 1
             w == [z EXCEPT !.turn = t]
  <1>5. t \in Nat
    BY <1>3
  <1> HIDE DEF t
  <1>6. w \in Driver
    BY <1>2, <1>5, CounterType
  <1>7. w.pc = z.pc /\ w.run = z.run /\ w.step = z.step /\ w.left = z.left
    BY <1>2, <1>5, CounterType
  <1>8. Asked(x, n) = w
    BY <1>4 DEF t
  <1> QED BY <1>2, <1>6, <1>7, <1>8

\* After a call, the next one of the round or the next round.
LEMMA AnsweredType ==
  ASSUME NEW x \in Driver, x.left > 0
  PROVE  /\ Answered(x) \in Driver
         /\ Answered(x).run = x.run /\ Answered(x).step = x.step
         /\ Answered(x).pc \in {"call", "step"}
         /\ Answered(x).pc = "call" => Answered(x).left > 0
  <1> DEFINE c == IF x.left > 1 THEN "call" ELSE "step"
             y == [x EXCEPT !.pc = c]
  <1>1. x.left \in Nat /\ x.left - 1 \in Nat /\ (x.left > 1 => x.left - 1 > 0)
    BY DEF Driver
  <1>2. c \in {"call", "step"} /\ c \in Control /\ (c = "call" => x.left > 1)
    BY DEF Control
  <1>3. y \in Driver /\ y.run = x.run /\ y.step = x.step /\ y.pc = c
    BY <1>2, MoveType
  <1>4. Answered(x) = [y EXCEPT !.left = x.left - 1]
    BY DEF Answered, Driver
  <1> DEFINE n == x.left - 1
             w == [y EXCEPT !.left = n]
  <1>5. n \in Nat
    BY <1>1
  <1> HIDE DEF y, c, n
  <1>6. w \in Driver
    BY <1>3, <1>5, CounterType
  <1>7. w.pc = y.pc /\ w.run = y.run /\ w.step = y.step /\ w.left = n
    BY <1>3, <1>5, CounterType
  <1>8. Answered(x) = w
    BY <1>4 DEF n
  <1> QED BY <1>1, <1>2, <1>3, <1>6, <1>7, <1>8 DEF n

\* So does adding an audit event to the buffer.
LEMMA NotedType ==
  ASSUME NEW x \in Driver, x.step \in Steps, NEW t \in AuditTypes
  PROVE  /\ Noted(x, t) \in Driver
         /\ Noted(x, t).run = x.run /\ Noted(x, t).step = x.step
  BY DEF Noted, Driver, Batch

\* So does storing a result in the context.
LEMMA StoredType ==
  ASSUME NEW x \in Driver, x.step \in Steps, NEW v \in Values
  PROVE  /\ Stored(x, v) \in Driver
         /\ Stored(x, v).run = x.run /\ Stored(x, v).step = x.step
  BY DEF Stored, Driver, RunState, Context, Slot

-----------------------------------------------------------------------------
(* The store operations keep the tables well typed.                        *)

\* Every initial state is typed.
LEMMA InitType == Init => TypeOK
  BY IdleType
     DEF Init, StoreInit, TypeOK, StoreTypeOK, DriverTypeOK, EnvTypeOK, Idle, NoEvents, Batch

\* The store's methods keep the tables typed: create_or_get_run adds one run.
LEMMA CreateRunType ==
  ASSUME StoreTypeOK, NEW t \in Tenants, NEW k \in Keys, NEW r \in RunIds,
         NEW st \in RunState, CreateRun(t, k, r, st)
  PROVE  StoreTypeOK' /\ DOMAIN runs' = DOMAIN runs \cup {r}
  BY DEF StoreTypeOK, CreateRun, Insert, RunRow

\* checkpoint keeps the set of runs.
LEMMA CheckpointType ==
  ASSUME StoreTypeOK, NEW r \in DOMAIN runs, NEW st \in RunState, NEW b \in Batch,
         Checkpoint(r, st, b)
  PROVE  StoreTypeOK' /\ DOMAIN runs' = DOMAIN runs
  <1>1. Join(trace[r], b) \in Batch
    BY DEF Join, Batch, StoreTypeOK
  <1> QED BY <1>1 DEF StoreTypeOK, Checkpoint, RunRow

\* cancel_run keeps the set of runs.
LEMMA CancelRunType ==
  ASSUME StoreTypeOK, NEW r \in RunIds, CancelRun(r)
  PROVE  StoreTypeOK' /\ DOMAIN runs' = DOMAIN runs
  <1>1. [runs[r].st EXCEPT !.status = "canceled"] \in RunState
    BY DEF StoreTypeOK, CancelRun, RunRow, RunState, RunStatus, Terminal
  <1> QED BY <1>1 DEF StoreTypeOK, CancelRun, RunRow

\* purge_event_payloads forgets announcements only.
LEMMA PurgeType ==
  ASSUME StoreTypeOK, NEW t, NEW old, PurgeEventPayloads(t, old)
  PROVE  StoreTypeOK' /\ DOMAIN runs' = DOMAIN runs
  <1>1. \A r \in RunIds : [trace[r] EXCEPT !.announced = @ \ old] \in Batch
    BY DEF StoreTypeOK, Batch
  <1>2. trace' \in [RunIds -> Batch]
    BY <1>1 DEF StoreTypeOK, PurgeEventPayloads
  <1> QED BY <1>2 DEF StoreTypeOK, PurgeEventPayloads

\* record_effect adds a value to the ledger at most.
LEMMA RecordEffectType ==
  ASSUME StoreTypeOK, NEW k \in EffectKeys, NEW v \in Values, RecordEffect(k, v)
  PROVE  StoreTypeOK' /\ DOMAIN runs' = DOMAIN runs
  BY DEF StoreTypeOK, RecordEffect, Insert

\* create_approval appends a typed row.
LEMMA CreateApprovalType ==
  ASSUME StoreTypeOK, NEW r \in DOMAIN runs, NEW s \in Steps, NEW a \in Slot,
         CreateApproval(r, s, a)
  PROVE  StoreTypeOK' /\ DOMAIN runs' = DOMAIN runs
  BY DEF StoreTypeOK, CreateApproval, ApprovalRow, ApprovalStatus, RunRow

\* resolve_approval rewrites the status of a typed row.
LEMMA ResolveApprovalType ==
  ASSUME StoreTypeOK, NEW t, NEW a, NEW ok \in BOOLEAN, ResolveApproval(t, a, ok)
  PROVE  /\ StoreTypeOK' /\ DOMAIN runs' = DOMAIN runs
         /\ approvals[a] \in ApprovalRow
         /\ Len(approvals') = Len(approvals)
  <1> DEFINE row == [approvals[a] EXCEPT !.status = IF ok THEN "approved" ELSE "rejected"]
  <1>1. approvals[a] \in ApprovalRow /\ a \in 1 .. Len(approvals)
    BY DEF StoreTypeOK, ResolveApproval
  <1>2. row \in ApprovalRow
    BY <1>1 DEF ApprovalRow, ApprovalStatus
  <1>3. approvals' = [approvals EXCEPT ![a] = row]
    BY DEF ResolveApproval
  <1>4. approvals' \in Seq(ApprovalRow) /\ Len(approvals') = Len(approvals)
    BY <1>1, <1>2, <1>3 DEF StoreTypeOK
  <1> QED BY <1>1, <1>4 DEF StoreTypeOK, ResolveApproval

\* Replacing one driver by a typed one keeps the drivers typed.
LEMMA PutType ==
  ASSUME DriverTypeOK, NEW d \in Drivers, NEW x \in Driver, Put(d, x),
         DOMAIN runs \subseteq DOMAIN runs',
         x.pc # "idle" => x.run \in DOMAIN runs',
         Active(x) => x.step \in Steps,
         x.pc = "record" => x.out \in Values,
         x.pc = "call" => x.left > 0
  PROVE  DriverTypeOK'
  BY DEF DriverTypeOK, Put, Active

\* A posting of a typed call and result keeps what external systems hold typed.
LEMMA PostType ==
  ASSUME EnvTypeOK, NEW k \in EffectKeys, NEW a \in Slot
  PROVE  /\ Replies(k, a) \subseteq Values
         /\ \A v \in Values : Post(k, a, v) => posted' \in [EffectKeys -> Seq(Posting)]
  <1>1. k[2] \in Steps /\ posted[k] \in Seq(Posting)
    BY DEF EffectKeys, EnvTypeOK
  <1>2. Replies(k, a) \subseteq Values
    <2>1. Outcomes(k[2], a) \subseteq Values
      BY <1>1, FunctionAssumption
    <2>2. ASSUME Holds(k) PROVE posted[k][1].result \in Values
      <3>1. posted[k][1] \in Posting
        BY <1>1, <2>2 DEF Holds
      <3> QED BY <3>1 DEF Posting
    <2> QED BY <2>1, <2>2 DEF Replies
  <1>3. ASSUME NEW v \in Values, Post(k, a, v) PROVE posted' \in [EffectKeys -> Seq(Posting)]
    <2>1. Append(posted[k], [args |-> a, result |-> v]) \in Seq(Posting)
      BY <1>1 DEF Posting
    <2> QED BY <1>3, <2>1 DEF Post, EnvTypeOK, Holds
  <1> QED BY <1>2, <1>3

\* What TypeOK says of a driver in the middle of resume.
LEMMA ActiveType ==
  ASSUME TypeOK, NEW d \in Drivers, Active(dr[d])
  PROVE  /\ dr[d] \in Driver /\ dr[d].run \in DOMAIN runs /\ dr[d].run \in RunIds
         /\ At(d) \in Steps /\ Mem(d) \in RunState /\ dr[d].buf \in Batch
         /\ Key(d) \in EffectKeys /\ Key(d)[2] = At(d) /\ Args(d) \in Slot /\ Shown(d) \in Slot
  <1>1. dr[d] \in Driver /\ dr[d].run \in DOMAIN runs /\ dr[d].run \in RunIds /\ At(d) \in Steps
    BY DEF TypeOK, StoreTypeOK, DriverTypeOK, Active, At
  <1>2. Mem(d) \in RunState /\ dr[d].buf \in Batch
    BY <1>1 DEF Driver, Mem
  <1>3. Key(d) \in EffectKeys /\ Key(d)[2] = At(d)
    BY <1>1 DEF Key, EffectKeys, At
  <1>4. Mem(d).ctx \in Context
    BY <1>2 DEF RunState
  <1>5. Args(d) \in Slot /\ Shown(d) \in Slot
    BY <1>1, <1>4, FunctionAssumption DEF Args, Shown, Slot
  <1> QED BY <1>1, <1>2, <1>3, <1>5

\* Whatever the decision on an approval, the driver goes on typed.
LEMMA ProceedType ==
  ASSUME NEW x \in Driver, NEW status
  PROVE  /\ Decided(x, status) \in Driver
         /\ Decided(x, status).run = x.run /\ Decided(x, status).step = x.step
         /\ Decided(x, status).pc \notin {"record", "call"}
  BY DEF Decided, Proceed, Denied, StepDone, Driver, Control

-----------------------------------------------------------------------------
(* Type correctness.                                                       *)

\* Requests and workers that start a driver keep the types.
LEMMA RequestTypeStep ==
  ASSUME TypeOK, NEW d \in Drivers, Request(d)
  PROVE  TypeOK'
  <1>1. ASSUME NEW t \in Tenants, NEW k \in Keys, NEW r \in RunIds, Fire(d, t, k, r)
        PROVE  TypeOK'
    <2>1. StoreTypeOK' /\ DOMAIN runs' = DOMAIN runs \cup {r}
      BY <1>1, CreateRunType, IdleType DEF Fire, TypeOK
    <2>2. DriverTypeOK'
      BY <1>1, <2>1, BeginType, PutType, IdleType DEF Fire, TypeOK, Active
    <2> QED BY <1>1, <2>1, <2>2 DEF Fire, envVars, TypeOK, EnvTypeOK
  <1>2. ASSUME NEW r \in RunIds, Resume(d, r) PROVE TypeOK'
    <2>1. runs[r].st \in RunState
      BY <1>2 DEF Resume, TypeOK, StoreTypeOK, RunRow
    <2>2. DriverTypeOK'
      BY <1>2, <2>1, BeginType, PutType DEF Resume, storeVars, TypeOK, Active
    <2> QED BY <1>2, <2>2 DEF Resume, Claim, storeVars, TypeOK, StoreTypeOK, EnvTypeOK
  <1>3. ASSUME NEW r \in RunIds, ResolveLoad(d, r) PROVE TypeOK'
    <2>1. runs[r].st \in RunState
      BY <1>3 DEF ResolveLoad, TypeOK, StoreTypeOK, RunRow
    <2> DEFINE x == [Idle EXCEPT !.pc = "resolving", !.run = r, !.mem = runs[r].st]
    <2>2. x \in Driver /\ x.run = r /\ x.pc = "resolving"
      BY <2>1, IdleType DEF Idle, Driver, Control
    <2>3. DriverTypeOK'
      BY <1>3, <2>2, PutType DEF ResolveLoad, storeVars, TypeOK, Active
    <2> QED BY <1>3, <2>3 DEF ResolveLoad, Claim, storeVars, TypeOK, StoreTypeOK, EnvTypeOK
  <1>4. ASSUME NEW a \in 1 .. Len(approvals), NEW ok \in BOOLEAN, ResolveCommit(d, a, ok)
        PROVE  TypeOK'
    <2>1. /\ StoreTypeOK' /\ DOMAIN runs' = DOMAIN runs
          /\ approvals[a] \in ApprovalRow
      BY <1>4, ResolveApprovalType DEF ResolveCommit, TypeOK
    <2>2. dr[d].run \in DOMAIN runs /\ dr[d].run \in RunIds /\ dr[d].mem \in RunState
      BY <1>4 DEF ResolveCommit, TypeOK, StoreTypeOK, DriverTypeOK, Driver
    <2>3. DriverTypeOK'
      BY <1>4, <2>1, <2>2, BeginType, PutType DEF ResolveCommit, TypeOK, Active
    <2>4. granted' \subseteq RunIds \X Steps \X Slot
      BY <1>4, <2>1 DEF ResolveCommit, TypeOK, EnvTypeOK, ApprovalRow
    <2> QED BY <1>4, <2>1, <2>3, <2>4 DEF ResolveCommit, TypeOK, EnvTypeOK
  <1> QED BY <1>1, <1>2, <1>3, <1>4 DEF Request

\* A driver record an active driver may hold in place of dr[d].
Fits(x, d) == /\ x \in Driver /\ x.run = dr[d].run /\ x.step \in Steps
              /\ x.pc = "record" => x.out \in Values
              /\ x.pc = "call" => x.left > 0

\* Steps that touch neither the store nor the environment.
LEMMA LocalType ==
  ASSUME TypeOK, NEW d \in Drivers, Active(dr[d]), NEW x, Fits(x, d), Put(d, x),
         UNCHANGED <<storeVars, envVars>>
  PROVE  TypeOK'
  <1>1. DriverTypeOK'
    BY ActiveType, PutType DEF Fits, storeVars, TypeOK
  <1> QED BY <1>1 DEF storeVars, envVars, TypeOK, StoreTypeOK, EnvTypeOK

\* Driver steps that write neither store nor environment keep the types.
LEMMA DriverLocalTypeStep ==
  ASSUME TypeOK, NEW d \in Drivers,
         \/ EnterStep(d) \/ Escape(d) \/ RunBranch(d) \/ RunApproval(d) \/ ReplayTool(d)
         \/ ModelAnswers(d) \/ ModelCalls(d) \/ TurnsUsedUp(d) \/ RefuseCall(d)
         \/ GateTool(d) \/ CheckApproval(d)
  PROVE  TypeOK'
  <1>0. Active(dr[d])
    BY DEF Active, EnterStep, Escape, InLoop, ModelAnswers, ModelCalls, TurnsUsedUp, RefuseCall,
           RunBranch, RunApproval, ReplayTool, GateTool, CheckApproval
  <1>t. /\ dr[d] \in Driver /\ At(d) \in Steps /\ dr[d].step = At(d)
        /\ Args(d) \in Slot /\ Mem(d) \in RunState
    BY <1>0, ActiveType DEF At
  <1>1. CASE EnterStep(d)
    <2> DEFINE x == [dr[d] EXCEPT !.pc = "step", !.try = 1, !.mem.steps = @ + 1]
    <2>1. [Mem(d) EXCEPT !.steps = @ + 1] \in RunState
      BY <1>t DEF RunState
    <2>2. Fits(x, d)
      BY <1>t, <2>1 DEF Fits, Driver, Control, Mem
    <2> QED BY <1>0, <1>1, <2>2, LocalType DEF EnterStep
  <1>2. CASE Escape(d) \/ TurnsUsedUp(d)
    <2> DEFINE c == IF dr[d].comp THEN "fail" ELSE "raised"
    <2>1. c \in Control /\ c \notin {"record", "call"}
      BY DEF Control
    <2>2. Fits([dr[d] EXCEPT !.pc = c], d)
      BY <1>t, <2>1, MoveType DEF Fits
    <2>3. Put(d, [dr[d] EXCEPT !.pc = c]) /\ UNCHANGED <<storeVars, envVars>>
      BY <1>2 DEF Escape, TurnsUsedUp, Escaped
    <2> QED BY <1>0, <2>2, <2>3, LocalType
  <1>3. CASE ModelAnswers(d) \/ ModelCalls(d)
    <2> DEFINE b == Booked(dr[d], Cost[At(d)])
    <2>1. b \in Driver /\ b.run = dr[d].run /\ b.step = At(d)
      BY <1>t, BookedType, WorkflowAssumption
    <2>2. ASSUME NEW v \in Outcomes(At(d), Args(d)) PROVE Fits(StepDone(Stored(b, v)), d)
      <3>1. v \in Values
        BY <1>t, FunctionAssumption
      <3>2. Stored(b, v) \in Driver /\ Stored(b, v).run = dr[d].run /\ Stored(b, v).step = At(d)
        BY <1>t, <2>1, <3>1, StoredType
      <3> QED BY <1>t, <3>2, StepDoneType DEF Fits
    <2>3. ASSUME NEW n \in 1 .. MaxCalls PROVE Fits(Asked(b, n), d)
      <3>1. n \in Nat /\ n > 0
        BY WorkflowAssumption
      <3> QED BY <1>t, <2>1, <3>1, AskedType DEF Fits
    <2>4. PICK x : Fits(x, d) /\ Put(d, x)
      BY <1>3, <2>2, <2>3 DEF ModelAnswers, ModelCalls
    <2>5. UNCHANGED <<storeVars, envVars>>
      BY <1>3 DEF ModelAnswers, ModelCalls
    <2> QED BY <1>0, <2>4, <2>5, LocalType
  <1>9. CASE RefuseCall(d)
    <2>1. dr[d].left > 0
      BY <1>9 DEF RefuseCall, TypeOK, DriverTypeOK
    <2>2. Fits(Answered(dr[d]), d)
      BY <1>t, <2>1, AnsweredType DEF Fits
    <2> QED BY <1>0, <1>9, <2>2, LocalType DEF RefuseCall
  <1>4. CASE RunBranch(d)
    <2>1. Fits(StepDone(dr[d]), d)
      BY <1>t, StepDoneType DEF Fits
    <2> QED BY <1>0, <1>4, <2>1, LocalType DEF RunBranch
  <1>5. CASE RunApproval(d)
    <2>1. Fits([dr[d] EXCEPT !.pc = "await"], d)
      BY <1>t DEF Fits, Driver, Control
    <2> QED BY <1>0, <1>5, <2>1, LocalType DEF RunApproval
  <1>6. CASE ReplayTool(d)
    <2> DEFINE n == Noted(dr[d], "tool_result_replayed")
    <2>1. n \in Driver /\ n.run = dr[d].run /\ n.step = At(d)
      BY <1>t, NotedType DEF AuditTypes
    <2>2. effects[Key(d)] \in Values
      BY <1>6 DEF ReplayTool, HasEffect, TypeOK, StoreTypeOK
    <2>3. Stored(n, effects[Key(d)]) \in Driver /\ Stored(n, effects[Key(d)]).run = dr[d].run
          /\ Stored(n, effects[Key(d)]).step = At(d)
      BY <1>t, <2>1, <2>2, StoredType
    <2>4. Fits(StepDone(Stored(n, effects[Key(d)])), d)
      BY <1>t, <2>3, StepDoneType DEF Fits
    <2> QED BY <1>0, <1>6, <2>4, LocalType DEF ReplayTool
  <1>7. CASE GateTool(d)
    <2> DEFINE n == Noted(dr[d], "policy_decision")
    <2>1. n \in Driver /\ n.run = dr[d].run /\ n.step = At(d)
      BY <1>t, NotedType DEF AuditTypes
    <2>2. Decide(At(d), Args(d)) \in PolicyEffect
      BY <1>t, FunctionAssumption
    <2>3. Fits(Gate(n, Decide(At(d), Args(d))), d)
      BY <1>t, <2>1, <2>2 DEF Fits, Gate, Denied, PolicyEffect, Driver, Control
    <2> QED BY <1>0, <1>7, <2>3, LocalType DEF GateTool
  <1>8. CASE CheckApproval(d)
    <2>1. Fits([dr[d] EXCEPT !.pc = "request"], d) /\ Fits([dr[d] EXCEPT !.pc = "pause"], d)
      BY <1>t DEF Fits, Driver, Control
    <2>2. \A status : Fits(Decided(dr[d], status), d)
      BY <1>t, ProceedType DEF Fits
    <2>3. PICK x : Fits(x, d) /\ Put(d, x)
      BY <1>8, <2>1, <2>2 DEF CheckApproval
    <2> QED BY <1>0, <1>8, <2>3, LocalType DEF CheckApproval
  <1> QED BY <1>1, <1>2, <1>3, <1>4, <1>5, <1>6, <1>7, <1>8, <1>9

\* Steps of an active driver that write to the store: what it becomes is idle
\* or fits, and the tables keep their types.
LEMMA StoreStepType ==
  ASSUME TypeOK, NEW d \in Drivers, Active(dr[d]), NEW x, Fits(x, d) \/ x = Idle, Put(d, x),
         StoreTypeOK', DOMAIN runs' = DOMAIN runs, EnvTypeOK'
  PROVE  TypeOK'
  <1>1. CASE Fits(x, d)
    <2>1. DriverTypeOK'
      BY <1>1, ActiveType, PutType DEF Fits, TypeOK
    <2> QED BY <2>1 DEF TypeOK
  <1>2. CASE x = Idle
    <2>1. Idle.pc = "idle"
      BY DEF Idle
    <2>2. DriverTypeOK'
      BY <1>2, <2>1, IdleType, PutType DEF TypeOK, Active
    <2> QED BY <2>2 DEF TypeOK
  <1> QED BY <1>1, <1>2

\* Nothing to show for the environment when it does not change.
LEMMA EnvUnchanged == ASSUME TypeOK, UNCHANGED envVars PROVE EnvTypeOK'
  BY DEF TypeOK, EnvTypeOK, envVars

\* The successor of a step is a step, or None at the end of the graph.
LEMMA SuccessorType ==
  ASSUME NEW s \in Steps, NEW c \in Context
  PROVE  Successor(s, c) \in Steps \cup {None}
  BY WorkflowAssumption, FunctionAssumption DEF Successor

\* The state a commit writes is typed.
LEMMA AdvanceType ==
  ASSUME NEW st \in RunState, NEW n \in Steps \cup {None}
  PROVE  Advance(st, n) \in RunState
  BY DEF Advance, RunState, RunStatus, Terminal

\* So is one whose status alone is rewritten.
LEMMA StatusType ==
  ASSUME NEW st \in RunState, NEW s \in RunStatus
  PROVE  [st EXCEPT !.status = s] \in RunState
  BY DEF RunState

\* Driver steps that write the store keep the types.
LEMMA DriverStoreTypeStep ==
  ASSUME TypeOK, NEW d \in Drivers,
         \/ BudgetFail(d) \/ Fail(d) \/ Commit(d) \/ Pause(d) \/ RequestApproval(d)
         \/ AskApproval(d) \/ (\E ok \in BOOLEAN : AnswerApproval(d, ok)) \/ RecordTool(d)
  PROVE  TypeOK'
  <1>0. Active(dr[d])
    BY DEF Active, BudgetFail, Fail, Commit, Pause, RequestApproval, AskApproval,
           AnswerApproval, RecordTool
  <1>t. /\ dr[d] \in Driver /\ At(d) \in Steps /\ dr[d].step = At(d) /\ dr[d].run \in DOMAIN runs
        /\ Shown(d) \in Slot /\ Mem(d) \in RunState /\ dr[d].buf \in Batch /\ Key(d) \in EffectKeys
        /\ StoreTypeOK /\ dr[d].run \in RunIds /\ Mem(d).ctx \in Context
    BY <1>0, ActiveType DEF At, TypeOK, RunState
  <1>1. CASE BudgetFail(d) \/ Fail(d)
    <2> DEFINE st == [Mem(d) EXCEPT !.status = "failed"]
               x == [dr[d] EXCEPT !.pc = "raised"]
    <2>1. st \in RunState
      BY <1>t, StatusType DEF RunStatus, Terminal
    <2>2. Fits(x, d)
      BY <1>t DEF Fits, Driver, Control
    <2>3. Checkpoint(dr[d].run, st, dr[d].buf) /\ Put(d, x) /\ UNCHANGED envVars
      BY <1>1 DEF BudgetFail, Fail
    <2>4. StoreTypeOK' /\ DOMAIN runs' = DOMAIN runs
      BY <1>t, <2>1, <2>3, CheckpointType
    <2> QED BY <1>0, <2>2, <2>3, <2>4, EnvUnchanged, StoreStepType
  <1>2. CASE Commit(d)
    <2> DEFINE next == Successor(At(d), Mem(d).ctx)
               st == Advance(Mem(d), next)
               x == Continue(dr[d], st, next)
    <2>1. next \in Steps \cup {None}
      BY <1>t, SuccessorType
    <2>2. st \in RunState
      BY <1>t, <2>1, AdvanceType
    <2>3. Fits(x, d) \/ x = Idle
      <3> HIDE DEF next, st
      <3> QED BY <1>t, <2>1, <2>2, ZenonT(60)
              DEF Continue, Fits, Driver, Control, NoEvents, Batch, Slot
    <2>4. Checkpoint(dr[d].run, st, dr[d].buf) /\ Put(d, x) /\ UNCHANGED envVars
      BY <1>2 DEF Commit
    <2>5. StoreTypeOK' /\ DOMAIN runs' = DOMAIN runs
      BY <1>t, <2>2, <2>4, CheckpointType
    <2> QED BY <1>0, <2>3, <2>4, <2>5, EnvUnchanged, StoreStepType
  <1>3. CASE Pause(d)
    <2> DEFINE st == [Mem(d) EXCEPT !.status = "waiting_approval"]
               y == [dr[d] EXCEPT !.pc = "fail", !.mem = st, !.buf = NoEvents]
               x == IF dr[d].comp THEN y ELSE Idle
    <2>1. st \in RunState
      BY <1>t, StatusType DEF RunStatus
    <2>2. Fits(y, d)
      <3> HIDE DEF st
      <3> QED BY <1>t, <2>1, ZenonT(60) DEF Fits, Driver, Control, NoEvents, Batch
    <2>3. Checkpoint(dr[d].run, st, dr[d].buf) /\ Put(d, x) /\ UNCHANGED envVars
      BY <1>3 DEF Pause
    <2>4. StoreTypeOK' /\ DOMAIN runs' = DOMAIN runs
      BY <1>t, <2>1, <2>3, CheckpointType
    <2>5. Fits(x, d) \/ x = Idle
      BY <2>2
    <2> QED BY <1>0, <2>3, <2>4, <2>5, EnvUnchanged, StoreStepType
  <1>4. CASE RequestApproval(d) \/ AskApproval(d)
    <2> DEFINE b == [dr[d].buf EXCEPT !.announced = @ \cup {Len(approvals) + 1}]
    <2>0. Len(approvals) + 1 \in Nat
      BY <1>t DEF StoreTypeOK
    <2>1. b \in Batch
      BY <1>t, <2>0 DEF Batch
    <2>2. PICK c \in {"pause", "asked"}, q \in Nat : Put(d, [dr[d] EXCEPT !.pc = c, !.ask = q, !.buf = b])
      <3>1. CASE RequestApproval(d)
        <4>1. [dr[d] EXCEPT !.pc = "pause", !.buf = b]
                = [dr[d] EXCEPT !.pc = "pause", !.ask = dr[d].ask, !.buf = b]
          BY <1>t DEF Driver
        <4>2. Put(d, [dr[d] EXCEPT !.pc = "pause", !.buf = b])
          BY <3>1 DEF RequestApproval
        <4> QED BY <1>t, <4>1, <4>2 DEF Driver
      <3>2. CASE AskApproval(d)
        BY <2>0, <3>2 DEF AskApproval
      <3> QED BY <1>4, <3>1, <3>2
    <2> DEFINE x == [dr[d] EXCEPT !.pc = c, !.ask = q, !.buf = b]
    <2>3. Fits(x, d)
      <3> HIDE DEF b
      <3> QED BY <1>t, <2>1 DEF Fits, Driver, Control
    <2>4. Put(d, x)
      BY <2>2
    <2>5. StoreTypeOK' /\ DOMAIN runs' = DOMAIN runs
      BY <1>4, <1>t, CreateApprovalType DEF RequestApproval, AskApproval
    <2>6. UNCHANGED envVars
      BY <1>4 DEF RequestApproval, AskApproval
    <2> QED BY <1>0, <2>3, <2>4, <2>5, <2>6, EnvUnchanged, StoreStepType
  <1>5. ASSUME NEW ok \in BOOLEAN, AnswerApproval(d, ok) PROVE TypeOK'
    <2>1. StoreTypeOK' /\ DOMAIN runs' = DOMAIN runs
      BY <1>5, <1>t, ResolveApprovalType DEF AnswerApproval
    <2>2. EnvTypeOK'
      BY <1>5, <1>t DEF AnswerApproval, TypeOK, EnvTypeOK
    <2> DEFINE y == [dr[d] EXCEPT !.ask = 0]
               x == Decided(y, IF ok THEN "approved" ELSE "rejected")
    <2>0. y \in Driver /\ y.run = dr[d].run /\ y.step = At(d)
      BY <1>t DEF Driver
    <2>3. Fits(x, d)
      BY <1>t, <2>0, ProceedType DEF Fits
    <2>4. Put(d, x)
      BY <1>5 DEF AnswerApproval
    <2> QED BY <1>0, <2>1, <2>2, <2>3, <2>4, StoreStepType
  <1>6. CASE RecordTool(d)
    <2> DEFINE b == Booked(dr[d], Cost[At(d)])
               n == Noted(b, "tool_result")
               w == Stored(n, dr[d].out)
    <2>1. dr[d].out \in Values
      BY <1>6 DEF RecordTool, TypeOK, DriverTypeOK
    <2>2. b \in Driver /\ b.run = dr[d].run /\ b.step = At(d)
      BY <1>t, BookedType, WorkflowAssumption
    <2>3. n \in Driver /\ n.run = dr[d].run /\ n.step = At(d)
      <3> HIDE DEF b
      <3> QED BY <1>t, <2>2, NotedType DEF AuditTypes
    <2>4. w \in Driver /\ w.run = dr[d].run /\ w.step = At(d)
      <3> HIDE DEF n
      <3> QED BY <1>t, <2>1, <2>3, StoredType
    <2>5. Fits(StepDone(w), d)
      <3> HIDE DEF w
      <3> QED BY <1>t, <2>4, StepDoneType DEF Fits
    <2>6. StoreTypeOK' /\ DOMAIN runs' = DOMAIN runs
      BY <1>6, <1>t, <2>1, RecordEffectType DEF RecordTool
    <2>7. Put(d, StepDone(w)) /\ UNCHANGED envVars
      BY <1>6 DEF RecordTool
    <2> QED BY <1>0, <2>5, <2>6, <2>7, EnvUnchanged, StoreStepType
  <1> QED BY <1>1, <1>2, <1>3, <1>4, <1>5, <1>6

\* What a connector leaves in its pool, whatever it answers.
Left(k, a) == LeftByAnswer(k, a) \cup LeftByError(k, a)

\* They are calls with the key and the arguments it was given.
LEMMA LeftCalls ==
  ASSUME NEW k, NEW a, NEW l \in Left(k, a)
  PROVE  \A c \in l : c[1] = k /\ c[2] = a /\ \E i \in Nat : c = <<k, a, i>>
  <1>1. ASSUME NEW most, l \in Leftovers(k, a, most)
        PROVE  \A c \in l : c[1] = k /\ c[2] = a /\ \E i \in Nat : c = <<k, a, i>>
    <2>1. CASE l = {}
      BY <2>1
    <2>2. CASE l # {}
      <3>1. PICK n \in 0 .. MaxPosts : l = {<<k, a, i>> : i \in 1 .. n} \ inflight
        BY <1>1, <2>2 DEF Leftovers
      <3> SUFFICES ASSUME NEW c \in l
                   PROVE  c[1] = k /\ c[2] = a /\ \E i \in Nat : c = <<k, a, i>>
        OBVIOUS
      <3>2. PICK i \in 1 .. n : c = <<k, a, i>>
        BY <3>1
      <3>3. i \in Nat
        OBVIOUS
      <3> QED BY <3>2, <3>3
    <2> QED BY <2>1, <2>2
  <1> QED BY <1>1 DEF Left, LeftByAnswer, LeftByError

\* Calls to external systems keep the types.
LEMMA ExecuteTypeStep ==
  ASSUME TypeOK, NEW d \in Drivers, ExecuteOk(d) \/ ExecuteFail(d)
  PROVE  TypeOK'
  <1>0. Active(dr[d])
    BY DEF Active, ExecuteOk, ExecuteFail
  <1>t. /\ dr[d] \in Driver /\ At(d) \in Steps /\ dr[d].step = At(d)
        /\ Key(d) \in EffectKeys /\ Args(d) \in Slot /\ EnvTypeOK
    BY <1>0, ActiveType DEF At, TypeOK
  <1>s. StoreTypeOK' /\ DOMAIN runs' = DOMAIN runs
    BY DEF ExecuteOk, ExecuteFail, storeVars, TypeOK, StoreTypeOK
  <1>i. inflight' \subseteq EffectKeys \X Slot \X Nat
    <2>1. PICK l \in Left(Key(d), Args(d)) : inflight' = inflight \cup l
      BY DEF ExecuteOk, ExecuteFail, Left
    <2>2. l \subseteq EffectKeys \X Slot \X Nat
      BY <1>t, LeftCalls
    <2> QED BY <1>t, <2>1, <2>2 DEF EnvTypeOK
  <1>1. CASE ExecuteFail(d)
    <2>1. Fits(ConnectorFailed(dr[d]), d)
      BY <1>t, ConnectorFailedType DEF Fits
    <2>2. EnvTypeOK'
      BY <1>1, <1>t, <1>i DEF ExecuteFail, EnvTypeOK
    <2>3. Put(d, ConnectorFailed(dr[d]))
      BY <1>1 DEF ExecuteFail
    <2> QED BY <1>0, <1>s, <2>1, <2>2, <2>3, StoreStepType
  <1>2. CASE ExecuteOk(d)
    <2>1. PICK v \in Replies(Key(d), Args(d)) :
            IF SideEffect[At(d)]
            THEN /\ Post(Key(d), Args(d), v)
                 /\ Put(d, [dr[d] EXCEPT !.pc = "record", !.out = v])
            ELSE /\ UNCHANGED posted
                 /\ Put(d, StepDone(Stored(Noted(Booked(dr[d], Cost[At(d)]), "tool_result"), v)))
      BY <1>2 DEF ExecuteOk
    <2>2. v \in Values
      BY <1>t, PostType
    <2>3. posted' \in [EffectKeys -> Seq(Posting)]
      BY <1>t, <2>1, <2>2, PostType DEF EnvTypeOK
    <2>4. EnvTypeOK'
      BY <1>2, <1>t, <1>i, <2>3 DEF ExecuteOk, EnvTypeOK
    <2>5. CASE SideEffect[At(d)]
      <3>1. Fits([dr[d] EXCEPT !.pc = "record", !.out = v], d)
        BY <1>t, <2>2 DEF Fits, Driver, Control, Slot
      <3> QED BY <1>0, <1>s, <2>1, <2>4, <2>5, <3>1, StoreStepType
    <2>6. CASE ~SideEffect[At(d)]
      <3> DEFINE b == Booked(dr[d], Cost[At(d)])
                 n == Noted(b, "tool_result")
                 w == Stored(n, v)
      <3>1. b \in Driver /\ b.run = dr[d].run /\ b.step = At(d)
        BY <1>t, BookedType, WorkflowAssumption
      <3>2. n \in Driver /\ n.run = dr[d].run /\ n.step = At(d)
        <4> HIDE DEF b
        <4> QED BY <1>t, <3>1, NotedType DEF AuditTypes
      <3>3. w \in Driver /\ w.run = dr[d].run /\ w.step = At(d)
        <4> HIDE DEF n
        <4> QED BY <1>t, <2>2, <3>2, StoredType
      <3>4. Fits(StepDone(w), d)
        <4> HIDE DEF w
        <4> QED BY <1>t, <3>3, StepDoneType DEF Fits
      <3>5. Put(d, StepDone(w))
        BY <2>1, <2>6
      <3> QED BY <1>0, <1>s, <2>4, <3>4, <3>5, StoreStepType
    <2> QED BY <2>5, <2>6
  <1> QED BY <1>1, <1>2

\* So do the tool calls of an agent.
LEMMA AgentCallTypeStep ==
  ASSUME TypeOK, NEW d \in Drivers, ExecuteCall(d) \/ FailCall(d)
  PROVE  TypeOK'
  <1>0. Active(dr[d]) /\ dr[d].left > 0
    BY DEF Active, ExecuteCall, FailCall, TypeOK, DriverTypeOK
  <1>t. /\ dr[d] \in Driver /\ At(d) \in Steps /\ dr[d].step = At(d)
        /\ Key(d) \in EffectKeys /\ EnvTypeOK
        /\ AgentOf[At(d)].cost \in Nat /\ AgentOf[At(d)].calls \subseteq Slot
    BY <1>0, ActiveType, WorkflowAssumption DEF At, TypeOK, Agent, Slot
  <1>s. StoreTypeOK' /\ DOMAIN runs' = DOMAIN runs
    BY DEF ExecuteCall, FailCall, storeVars, TypeOK, StoreTypeOK
  <1>1. PICK a \in AgentOf[At(d)].calls :
          /\ \/ \E v \in Replies(Key(d), a) : Post(Key(d), a, v)
             \/ UNCHANGED posted
          /\ \E l \in Left(Key(d), a) : inflight' = inflight \cup l
    BY DEF ExecuteCall, FailCall, Left
  <1>2. inflight' \subseteq EffectKeys \X Slot \X Nat
    <2>1. PICK l \in Left(Key(d), a) : inflight' = inflight \cup l
      BY <1>1
    <2>2. l \subseteq EffectKeys \X Slot \X Nat
      BY <1>t, LeftCalls
    <2> QED BY <1>t, <2>1, <2>2 DEF EnvTypeOK
  <1>3. posted' \in [EffectKeys -> Seq(Posting)]
    BY <1>t, <1>1, PostType DEF EnvTypeOK
  <1>4. EnvTypeOK'
    BY <1>t, <1>2, <1>3 DEF ExecuteCall, FailCall, EnvTypeOK
  <1>5. CASE ExecuteCall(d)
    <2> DEFINE b == Booked(dr[d], AgentOf[At(d)].cost)
    <2>1. b \in Driver /\ b.run = dr[d].run /\ b.step = At(d) /\ b.left > 0
      BY <1>0, <1>t, BookedType
    <2>2. Fits(Answered(b), d)
      <3> HIDE DEF b
      <3> QED BY <1>t, <2>1, AnsweredType DEF Fits
    <2>3. Put(d, Answered(b))
      BY <1>5 DEF ExecuteCall
    <2> QED BY <1>0, <1>s, <1>4, <2>2, <2>3, StoreStepType
  <1>6. CASE FailCall(d)
    <2>1. Fits(ConnectorFailed(dr[d]), d)
      BY <1>t, ConnectorFailedType DEF Fits
    <2>2. Put(d, ConnectorFailed(dr[d]))
      BY <1>6 DEF FailCall
    <2> QED BY <1>0, <1>s, <1>4, <2>1, <2>2, StoreStepType
  <1> QED BY <1>5, <1>6

\* Returns, crashes, cancels, purges and late calls keep the types.
LEMMA OtherTypeStep ==
  ASSUME TypeOK,
         \/ \E d \in Drivers : Return(d) \/ Crash(d)
         \/ \E r \in RunIds : Cancel(r)
         \/ \E t \in Tenants, old \in SUBSET (1 .. Len(approvals)) : Purge(t, old)
         \/ \E c \in inflight : Land(c)
  PROVE  TypeOK'
  <1>1. ASSUME NEW d \in Drivers, Return(d) \/ Crash(d) PROVE TypeOK'
    <2>1. Idle.pc = "idle"
      BY DEF Idle
    <2>2. Put(d, Idle) /\ UNCHANGED storeVars
      BY <1>1 DEF Return, Crash
    <2>3. DriverTypeOK'
      BY <2>1, <2>2, IdleType, PutType DEF TypeOK, Active, storeVars
    <2>4. EnvTypeOK'
      BY <1>1 DEF Return, Crash, envVars, TypeOK, EnvTypeOK
    <2> QED BY <2>2, <2>3, <2>4 DEF storeVars, TypeOK, StoreTypeOK
  <1>2. ASSUME NEW r \in RunIds, Cancel(r) PROVE TypeOK'
    <2>1. StoreTypeOK' /\ DOMAIN runs' = DOMAIN runs
      BY <1>2, CancelRunType DEF Cancel, TypeOK
    <2>2. DriverTypeOK'
      BY <1>2, <2>1 DEF Cancel, TypeOK, DriverTypeOK
    <2>3. EnvTypeOK'
      BY <1>2 DEF Cancel, Claim, TypeOK, EnvTypeOK
    <2> QED BY <2>1, <2>2, <2>3 DEF TypeOK
  <1>3. ASSUME NEW c \in inflight, Land(c) PROVE TypeOK'
    <2>1. c[1] \in EffectKeys /\ c[2] \in Slot /\ EnvTypeOK
      BY DEF TypeOK, EnvTypeOK
    <2>2. posted' \in [EffectKeys -> Seq(Posting)]
      BY <1>3, <2>1, PostType DEF Land
    <2>3. EnvTypeOK'
      BY <1>3, <2>1, <2>2 DEF Land, EnvTypeOK
    <2> QED BY <1>3, <2>3 DEF Land, storeVars, TypeOK, StoreTypeOK, DriverTypeOK
  <1>4. ASSUME NEW t, NEW old, Purge(t, old) PROVE TypeOK'
    <2>1. StoreTypeOK' /\ DOMAIN runs' = DOMAIN runs
      BY <1>4, PurgeType DEF Purge, TypeOK
    <2> QED BY <1>4, <2>1 DEF Purge, TypeOK, DriverTypeOK, EnvTypeOK
  <1> QED BY <1>1, <1>2, <1>3, <1>4

\* TypeOK is inductive.
LEMMA TypeStep == TypeOK /\ [Next]_vars => TypeOK'
  <1> SUFFICES ASSUME TypeOK, [Next]_vars PROVE TypeOK'
    OBVIOUS
  <1>1. CASE UNCHANGED vars
    BY <1>1 DEF vars, TypeOK, StoreTypeOK, DriverTypeOK, EnvTypeOK
  <1>2. CASE \E d \in Drivers : Request(d)
    BY <1>2, RequestTypeStep
  <1>3. ASSUME NEW d \in Drivers, DriverStep(d) PROVE TypeOK'
    BY <1>3, DriverLocalTypeStep, DriverStoreTypeStep, ExecuteTypeStep, AgentCallTypeStep,
       OtherTypeStep
       DEF DriverStep
  <1>4. CASE \/ \E d \in Drivers : Crash(d)
             \/ \E r \in RunIds : Cancel(r)
             \/ \E t \in Tenants, old \in SUBSET (1 .. Len(approvals)) : Purge(t, old)
             \/ \E c \in inflight : Land(c)
    BY <1>4, OtherTypeStep
  <1> QED BY <1>1, <1>2, <1>3, <1>4 DEF Next

\* Type correctness of the engine (workflow.py) over the store, for every
\* workflow and any number of drivers: in particular a driver only ever works
\* on a stored run, at a step of the workflow.
THEOREM TypeCorrect == Spec => []TypeOK
  <1>1. Init => TypeOK
    BY InitType
  <1>2. TypeOK /\ [Next]_vars => TypeOK'
    BY TypeStep
  <1> QED BY <1>1, <1>2, PTL DEF Spec

-----------------------------------------------------------------------------
(* What the actions do to a driver and to the tables, as the proofs of the *)
(* other modules use it.  A driver step moves the driver, does the work of *)
(* its step, or checkpoints; a request starts a driver.                    *)

\* y is where x is.
SamePlace(x, y) ==
    /\ y.run = x.run /\ y.step = x.step /\ y.try = x.try /\ y.comp = x.comp
    /\ y.out = x.out /\ y.turn = x.turn /\ y.left = x.left

\* The copy a of a Run has the status, cursor and step count of b.
SameProgress(a, b) == b.status = a.status /\ b.cursor = a.cursor /\ b.steps = a.steps

\* Booking a cost books it to the run and to an event, and does nothing else.
LEMMA BookedView ==
  ASSUME NEW x \in Driver, NEW c \in Nat
  PROVE  LET y == Booked(x, c)
         IN  /\ y \in Driver /\ y.pc = x.pc /\ SamePlace(x, y) /\ SameProgress(x.mem, y.mem)
             /\ y.mem.ctx = x.mem.ctx /\ y.mem.cost = x.mem.cost + c
             /\ y.buf.cost = x.buf.cost + c /\ y.buf.audit = x.buf.audit
  <1> DEFINE m == [x.mem EXCEPT !.cost = @ + c]
             b == [x.buf EXCEPT !.cost = @ + c]
             y == [x EXCEPT !.mem = m, !.buf = b]
  <1>1. SameProgress(x.mem, m) /\ m.ctx = x.mem.ctx /\ m.cost = x.mem.cost + c
    BY DEF SameProgress, Driver, RunState
  <1>2. b.cost = x.buf.cost + c /\ b.audit = x.buf.audit
    BY DEF Driver, Batch
  <1>3. y = Booked(x, c)
    BY DEF Booked, Driver
  <1>4. y.pc = x.pc /\ SamePlace(x, y) /\ y.mem = m /\ y.buf = b
    <2> HIDE DEF m, b
    <2> QED BY DEF SamePlace, Driver
  <1> QED BY <1>1, <1>2, <1>3, <1>4, BookedType

\* An audit event goes to the buffer only.
LEMMA NotedView ==
  ASSUME NEW x \in Driver, x.step \in Steps, NEW t \in AuditTypes
  PROVE  LET y == Noted(x, t)
         IN  /\ y \in Driver /\ y.pc = x.pc /\ SamePlace(x, y) /\ y.mem = x.mem
             /\ y.buf.cost = x.buf.cost /\ y.buf.audit = x.buf.audit \cup {<<t, x.step>>}
  <1> DEFINE b == [x.buf EXCEPT !.audit = @ \cup {<<t, x.step>>}]
             y == [x EXCEPT !.buf = b]
  <1>1. b.cost = x.buf.cost /\ b.audit = x.buf.audit \cup {<<t, x.step>>}
    BY DEF Driver, Batch
  <1>2. y = Noted(x, t)
    BY DEF Noted, Driver
  <1>3. y.pc = x.pc /\ SamePlace(x, y) /\ y.mem = x.mem /\ y.buf = b
    <2> HIDE DEF b
    <2> QED BY DEF SamePlace, Driver
  <1> QED BY <1>1, <1>2, <1>3, NotedType

\* A result goes to the context only, under the step's name.
LEMMA StoredView ==
  ASSUME NEW x \in Driver, x.step \in Steps, NEW v \in Values
  PROVE  LET y == Stored(x, v)
         IN  /\ y \in Driver /\ y.pc = x.pc /\ SamePlace(x, y) /\ SameProgress(x.mem, y.mem)
             /\ y.mem.ctx = [x.mem.ctx EXCEPT ![x.step] = v] /\ y.mem.cost = x.mem.cost
             /\ y.buf = x.buf
  <1> DEFINE c == [x.mem.ctx EXCEPT ![x.step] = v]
             m == [x.mem EXCEPT !.ctx = c]
             y == [x EXCEPT !.mem = m]
  <1>1. SameProgress(x.mem, m) /\ m.ctx = c /\ m.cost = x.mem.cost
    <2> HIDE DEF c
    <2> QED BY DEF SameProgress, Driver, RunState
  <1>2. y = Stored(x, v)
    BY DEF Stored, Driver, RunState
  <1>3. y.pc = x.pc /\ SamePlace(x, y) /\ y.mem = m /\ y.buf = x.buf
    <2> HIDE DEF m
    <2> QED BY DEF SamePlace, Driver
  <1> QED BY <1>1, <1>2, <1>3, StoredType

\* A finished step is committed, or serves a failure; nothing else changes.
LEMMA StepDoneView ==
  ASSUME NEW x \in Driver
  PROVE  LET y == StepDone(x)
         IN  /\ y \in Driver /\ y.pc = (IF x.comp THEN "fail" ELSE "commit")
             /\ SamePlace(x, y) /\ y.mem = x.mem /\ y.buf = x.buf
  BY DEF StepDone, Driver, Control, SamePlace

\* A connector error leads to the next attempt, to the compensation or to the
\* failure of the run.
LEMMA ConnectorFailedView ==
  ASSUME NEW x \in Driver, x.step \in Steps
  PROVE  LET y == ConnectorFailed(x)
         IN  /\ y \in Driver /\ y.run = x.run /\ y.mem = x.mem /\ y.buf = x.buf
             /\ \/ /\ y.pc = "step" /\ y.step = x.step /\ ~x.comp /\ ~y.comp
                   /\ x.try < MaxAttempts[x.step] /\ y.try = x.try + 1 /\ y.turn = 0
                \/ /\ y.pc = "step" /\ y.step = CompensateWith[x.step] /\ y.step # None
                   /\ ~x.comp /\ y.comp /\ x.try >= MaxAttempts[x.step] /\ y.turn = 0
                \/ y.pc = "fail" /\ SamePlace(x, y)
  <1>1. ConnectorFailed(x) \in Driver
    BY ConnectorFailedType
  <1>2. x.try \in Nat /\ MaxAttempts[x.step] \in Nat
    BY WorkflowAssumption DEF Driver
  <1> QED BY <1>1, <1>2 DEF ConnectorFailed, Driver, SamePlace

\* resume starts on a copy that is RUNNING and otherwise as it was loaded.
LEMMA BeginView ==
  ASSUME NEW r \in RunIds, NEW st \in RunState
  PROVE  LET y == Begin(r, st)
         IN  \/ y = Idle
             \/ /\ y.pc = "loop" /\ y.run = r /\ ~y.comp /\ y.turn = 0
                /\ y.step = (IF st.cursor = None THEN Start ELSE st.cursor)
                /\ st.status \notin Terminal
                /\ y.mem.status = "running" /\ y.mem.cursor = st.cursor /\ y.mem.ctx = st.ctx
                /\ y.mem.cost = st.cost /\ y.mem.steps = st.steps
                /\ y.buf = NoEvents
  <1> DEFINE m == [st EXCEPT !.status = "running"]
             s == IF st.cursor = None THEN Start ELSE st.cursor
             y == [Idle EXCEPT !.pc = "loop", !.run = r, !.step = s, !.mem = m]
  <1>1. /\ m.status = "running" /\ m.cursor = st.cursor /\ m.ctx = st.ctx
        /\ m.cost = st.cost /\ m.steps = st.steps
    BY DEF RunState
  <1>2. /\ y.pc = "loop" /\ y.run = r /\ ~y.comp /\ y.turn = 0 /\ y.step = s
        /\ y.mem = m /\ y.buf = NoEvents
    <2> HIDE DEF m, s
    <2> QED BY DEF Idle
  <1>3. Begin(r, st) = IF st.status \in Terminal THEN Idle ELSE y
    BY DEF Begin
  <1> HIDE DEF y, m
  <1> QED BY <1>1, <1>2, <1>3

\* One driver changes at a time.
LEMMA PutView ==
  ASSUME TypeOK, NEW d \in Drivers, NEW z, Put(d, z)
  PROVE  dr'[d] = z /\ \A e \in Drivers : e # d => dr'[e] = dr[e]
  BY DEF Put, TypeOK, DriverTypeOK

\* The steps that only move the driver, and what they may do: the copy of the
\* run and the cost in the buffer stay, no row but an approval changes, and a
\* driver that leaves its step leaves it for its compensation.
Moves(d) ==
    \/ EnterStep(d) \/ Escape(d) \/ TurnsUsedUp(d) \/ RunBranch(d) \/ RunApproval(d)
    \/ GateTool(d) \/ CheckApproval(d) \/ RefuseCall(d) \/ ExecuteFail(d) \/ FailCall(d)
    \/ RequestApproval(d) \/ AskApproval(d) \/ \E ok \in BOOLEAN : AnswerApproval(d, ok)

SameCopy(x, y) ==
    /\ y.mem.status = x.mem.status /\ y.mem.cursor = x.mem.cursor
    /\ y.mem.ctx = x.mem.ctx /\ y.mem.cost = x.mem.cost
    /\ y.buf.cost = x.buf.cost /\ x.buf.audit \subseteq y.buf.audit

Gating == {"await", "request", "asked", "execute"}

\* There is a request for step s of run r among the approvals.
Requested(rows, r, s) == \E a \in 1 .. Len(rows) : rows[a].run = r /\ rows[a].step = s

Moved(x, y) ==
    /\ y.run = x.run /\ SameCopy(x, y)
    /\ IF x.pc = "loop"
       THEN /\ ~OverBudget(x.mem) /\ y.mem.steps = x.mem.steps + 1
            /\ y.pc = "step" /\ y.step = x.step /\ y.comp = x.comp /\ y.try = 1 /\ y.turn = x.turn
       ELSE y.mem = x.mem
    /\ \/ y.step = x.step /\ y.comp = x.comp
       \/ y.pc = "step" /\ y.step = CompensateWith[x.step] /\ y.step # None /\ ~x.comp /\ y.comp
    /\ x.pc \in {"loop", "step", "call", "execute"} \cup Gating
    /\ y.pc \in {"step", "call", "fail", "raised", "commit", "pause"} \cup Gating
    /\ y.pc = "raised" => ~y.comp
    /\ y.pc = "commit" => ~y.comp /\ NodeType[y.step] # "tool"
    /\ y.pc = "execute" => NodeType[y.step] = "tool"
    /\ y.pc = "pause" => Requested(approvals', y.run, y.step)
    /\ (y.pc \in Gating /\ NodeType[y.step] = "tool" /\ x.pc \notin Gating) =>
           ~(SideEffect[y.step] /\ HasEffect(<<y.run, y.step>>))

\* create_approval leaves a request on file.
LEMMA CreateApprovalView ==
  ASSUME TypeOK, NEW r, NEW s, NEW shown, CreateApproval(r, s, shown)
  PROVE  Requested(approvals', r, s)
  <1> DEFINE row == [tenant |-> runs[r].tenant, run |-> r, step |-> s, status |-> "pending",
                     shown |-> shown]
  <1>1. row.run = r /\ row.step = s
    OBVIOUS
  <1>2. approvals' = Append(approvals, row) /\ approvals \in Seq(ApprovalRow)
    BY DEF CreateApproval, TypeOK, StoreTypeOK
  <1> HIDE DEF row
  <1>3. /\ Len(approvals') = Len(approvals) + 1 /\ Len(approvals) + 1 \in 1 .. Len(approvals')
        /\ approvals'[Len(approvals) + 1] = row
    BY <1>2
  <1> QED BY <1>1, <1>3 DEF Requested

\* A driver in the middle of resume, and where it puts its successor.
LEMMA MoveView ==
  ASSUME TypeOK, NEW d \in Drivers, Moves(d)
  PROVE  /\ Put(d, dr'[d]) /\ Moved(dr[d], dr'[d])
         /\ UNCHANGED <<runs, trace, effects, posted>>
  <1>0. Active(dr[d])
    BY DEF Moves, Active, EnterStep, Escape, TurnsUsedUp, InLoop, RunBranch, RunApproval, GateTool,
           CheckApproval, RefuseCall, ExecuteFail, FailCall, RequestApproval, AskApproval,
           AnswerApproval
  <1>u. UNCHANGED <<runs, trace, effects, posted>>
    BY DEF Moves, EnterStep, Escape, TurnsUsedUp, RunBranch, RunApproval, GateTool, CheckApproval,
           RefuseCall, ExecuteFail, FailCall, RequestApproval, AskApproval, AnswerApproval,
           CreateApproval, ResolveApproval, storeVars, envVars
  <1>t. /\ dr[d] \in Driver /\ At(d) \in Steps /\ dr[d].step = At(d) /\ Mem(d) = dr[d].mem
        /\ Mem(d) \in RunState /\ dr[d].buf \in Batch /\ Args(d) \in Slot
        /\ Key(d) = <<dr[d].run, dr[d].step>>
    BY <1>0, ActiveType DEF At, Mem, Key
  <1>q. SUFFICES \E y : Put(d, y) /\ Moved(dr[d], y)
    BY <1>u, PutView
  <1> DEFINE x == dr[d]
  <1>1. CASE EnterStep(d)
    <2> DEFINE m == [x.mem EXCEPT !.steps = @ + 1]
               y == [x EXCEPT !.pc = "step", !.try = 1, !.mem = m]
    <2>1. /\ m.status = x.mem.status /\ m.cursor = x.mem.cursor /\ m.ctx = x.mem.ctx
          /\ m.cost = x.mem.cost /\ m.steps = x.mem.steps + 1
      BY <1>t DEF RunState
    <2>2. /\ y.pc = "step" /\ y.run = x.run /\ y.step = x.step /\ y.comp = x.comp
          /\ y.mem = m /\ y.buf = x.buf /\ y.try = 1 /\ y.turn = x.turn
      <3> HIDE DEF m
      <3> QED BY <1>t DEF Driver
    <2>3. Put(d, y) /\ x.pc = "loop" /\ ~OverBudget(x.mem)
      BY <1>1, <1>t DEF EnterStep, Driver
    <2> HIDE DEF y, m
    <2>4. Moved(x, y)
      BY <2>1, <2>2, <2>3 DEF Moved, SameCopy, Gating
    <2> QED BY <2>3, <2>4
  <1>2. CASE Escape(d) \/ TurnsUsedUp(d) \/ RunBranch(d) \/ RunApproval(d)
    <2>1. PICK c \in {"fail", "raised", "commit", "await"} :
             /\ Put(d, [x EXCEPT !.pc = c]) /\ x.pc \in {"step", "call"}
             /\ c = "commit" => ~x.comp /\ NodeType[x.step] # "tool"
             /\ c = "raised" => ~x.comp
             /\ c = "await" => NodeType[x.step] # "tool"
      BY <1>2, <1>t DEF Escape, TurnsUsedUp, RunBranch, RunApproval, Escaped, StepDone, InLoop
    <2> DEFINE y == [x EXCEPT !.pc = c]
    <2>2. /\ y.pc = c /\ y.run = x.run /\ y.step = x.step /\ y.comp = x.comp
          /\ y.mem = x.mem /\ y.buf = x.buf
      BY <1>t DEF Driver
    <2>3. Put(d, y)
      BY <2>1
    <2> HIDE DEF y
    <2>4. Moved(x, y)
      BY <2>1, <2>2 DEF Moved, SameCopy, Gating
    <2> QED BY <2>3, <2>4
  <1>3. CASE GateTool(d)
    <2> DEFINE n == Noted(x, "policy_decision")
               y == Gate(n, Decide(At(d), Args(d)))
    <2>1. /\ n \in Driver /\ n.pc = x.pc /\ SamePlace(x, n) /\ n.mem = x.mem
          /\ n.buf.cost = x.buf.cost /\ x.buf.audit \subseteq n.buf.audit
      BY <1>t, NotedView DEF AuditTypes
    <2>2. Decide(At(d), Args(d)) \in PolicyEffect
      BY <1>t, FunctionAssumption
    <2>3. /\ y.pc \in {"fail", "await", "execute"} /\ y.run = n.run /\ y.step = n.step
          /\ y.comp = n.comp /\ y.mem = n.mem /\ y.buf = n.buf
      <3> HIDE DEF n
      <3> QED BY <2>1, <2>2 DEF Gate, Denied, PolicyEffect, Driver
    <2>4. /\ Put(d, y) /\ x.pc = "step" /\ NodeType[x.step] = "tool"
          /\ ~(SideEffect[x.step] /\ HasEffect(<<x.run, x.step>>))
      BY <1>3, <1>t DEF GateTool
    <2> HIDE DEF y, n
    <2>5. Moved(x, y)
      BY <2>1, <2>3, <2>4 DEF Moved, SameCopy, SamePlace, Gating
    <2> QED BY <2>4, <2>5
  <1>4. CASE CheckApproval(d) \/ \E ok \in BOOLEAN : AnswerApproval(d, ok)
    <2>0. x.pc \in {"await", "asked"}
      BY <1>4 DEF CheckApproval, AnswerApproval
    <2>1. ASSUME NEW z \in Driver, z.run = x.run, z.step = x.step, z.comp = x.comp, z.mem = x.mem,
                 z.buf = x.buf, NEW status
          PROVE  Moved(x, Decided(z, status))
      <3> DEFINE y == Decided(z, status)
      <3>1. /\ y.pc \in {"fail", "commit", "execute"} /\ y.run = z.run /\ y.step = z.step
            /\ y.comp = z.comp /\ y.mem = z.mem /\ y.buf = z.buf
            /\ y.pc = "commit" => ~z.comp /\ NodeType[z.step] # "tool"
            /\ y.pc = "execute" => NodeType[z.step] = "tool"
        BY <2>1 DEF Decided, Proceed, Denied, StepDone, Driver
      <3> HIDE DEF y
      <3>2. Moved(x, y)
        BY <2>0, <2>1, <3>1 DEF Moved, SameCopy, Gating
      <3> QED BY <3>2 DEF y
    <2>2. ASSUME NEW c \in {"request", "pause"}, c = "pause" => Requested(approvals', x.run, x.step)
          PROVE  Moved(x, [x EXCEPT !.pc = c])
      <3> DEFINE y == [x EXCEPT !.pc = c]
      <3>1. /\ y.pc = c /\ y.run = x.run /\ y.step = x.step /\ y.comp = x.comp
            /\ y.mem = x.mem /\ y.buf = x.buf
        BY <1>t DEF Driver
      <3> HIDE DEF y
      <3>2. Moved(x, y)
        BY <2>0, <2>2, <3>1 DEF Moved, SameCopy, Gating
      <3> QED BY <3>2 DEF y
    <2>3. CASE CheckApproval(d)
      <3>1. \A status : Moved(x, Decided(x, status))
        BY <1>t, <2>1
      <3>2. UNCHANGED approvals
        BY <2>3 DEF CheckApproval, storeVars
      <3>3. Latest(x.run, At(d)) # {} => Requested(approvals', x.run, x.step)
        BY <1>t, <3>2 DEF Latest, RequestsFor, Requested
      <3>4. CASE Put(d, [x EXCEPT !.pc = "request"])
        BY <2>2, <3>4
      <3>5. CASE \E a \in Latest(x.run, At(d)) :
                   Put(d, IF approvals[a].status = "pending" THEN [x EXCEPT !.pc = "pause"]
                          ELSE Decided(x, approvals[a].status))
        BY <2>2, <3>1, <3>2, <3>3, <3>5
      <3> QED BY <2>3, <3>4, <3>5 DEF CheckApproval
    <2>4. ASSUME NEW ok \in BOOLEAN, AnswerApproval(d, ok) PROVE \E y : Put(d, y) /\ Moved(x, y)
      <3> DEFINE z == [x EXCEPT !.ask = 0]
      <3>1. /\ z \in Driver /\ z.run = x.run /\ z.step = x.step /\ z.comp = x.comp
            /\ z.mem = x.mem /\ z.buf = x.buf
        BY <1>t DEF Driver
      <3>2. PICK status : Put(d, Decided(z, status))
        BY <2>4 DEF AnswerApproval
      <3> HIDE DEF z
      <3>3. Moved(x, Decided(z, status))
        BY <2>1, <3>1
      <3> QED BY <3>2, <3>3
    <2> QED BY <1>4, <2>3, <2>4
  <1>5. CASE RefuseCall(d)
    <2> DEFINE y == Answered(x)
    <2>1. x.pc = "call" /\ Put(d, y)
      BY <1>5 DEF RefuseCall
    <2>2. /\ y.pc \in {"call", "step"} /\ y.run = x.run /\ y.step = x.step /\ y.comp = x.comp
          /\ y.mem = x.mem /\ y.buf = x.buf
      BY <1>t DEF Answered, Driver
    <2> HIDE DEF y
    <2>3. Moved(x, y)
      BY <2>1, <2>2 DEF Moved, SameCopy, Gating
    <2> QED BY <2>1, <2>3
  <1>6. CASE ExecuteFail(d) \/ FailCall(d)
    <2> DEFINE y == ConnectorFailed(x)
    <2>1. x.pc \in {"execute", "call"} /\ Put(d, y)
      BY <1>6 DEF ExecuteFail, FailCall
    <2>2. /\ y.run = x.run /\ y.mem = x.mem /\ y.buf = x.buf /\ y.pc \in {"step", "fail"}
          /\ \/ y.step = x.step /\ y.comp = x.comp
             \/ y.pc = "step" /\ y.step = CompensateWith[x.step] /\ y.step # None /\ ~x.comp /\ y.comp
      <3>1. x \in Driver /\ x.step \in Steps
        BY <1>t
      <3>2. y \in Driver
        BY <3>1, ConnectorFailedView
      <3>3. x.comp \in BOOLEAN /\ y.comp \in BOOLEAN
        BY <3>1, <3>2 DEF Driver
      <3> QED BY <3>1, <3>3, ConnectorFailedView DEF SamePlace
    <2> HIDE DEF y
    <2>3. Moved(x, y)
      BY <2>1, <2>2 DEF Moved, SameCopy, Gating
    <2> QED BY <2>1, <2>3
  <1>7. CASE RequestApproval(d) \/ AskApproval(d)
    <2> DEFINE b == [x.buf EXCEPT !.announced = @ \cup {Len(approvals) + 1}]
    <2>1. b.cost = x.buf.cost /\ b.audit = x.buf.audit
      BY <1>t DEF Batch
    <2>2. \E y : /\ Put(d, y) /\ y.pc \in {"pause", "asked"} /\ y.run = x.run /\ y.step = x.step
                 /\ y.comp = x.comp /\ y.mem = x.mem /\ y.buf = b
      <3> DEFINE y == [x EXCEPT !.pc = "pause", !.buf = b]
                 z == [x EXCEPT !.pc = "asked", !.ask = Len(approvals) + 1, !.buf = b]
      <3>1. Put(d, y) \/ Put(d, z)
        BY <1>7, <1>t DEF RequestApproval, AskApproval
      <3>2. /\ y.pc = "pause" /\ y.run = x.run /\ y.step = x.step
            /\ y.comp = x.comp /\ y.mem = x.mem /\ y.buf = b
        <4> HIDE DEF b
        <4> QED BY <1>t DEF Driver
      <3>3. /\ z.pc = "asked" /\ z.run = x.run /\ z.step = x.step
            /\ z.comp = x.comp /\ z.mem = x.mem /\ z.buf = b
        <4> HIDE DEF b
        <4> QED BY <1>t DEF Driver
      <3> HIDE DEF y, z
      <3> QED BY <3>1, <3>2, <3>3
    <2>3. x.pc \in {"request", "await"} /\ Requested(approvals', x.run, x.step)
      BY <1>7, <1>t, CreateApprovalView DEF RequestApproval, AskApproval
    <2> HIDE DEF b
    <2>4. PICK y : /\ Put(d, y) /\ y.pc \in {"pause", "asked"} /\ y.run = x.run /\ y.step = x.step
                   /\ y.comp = x.comp /\ y.mem = x.mem /\ y.buf = b
      BY <2>2
    <2>5. Moved(x, y)
      BY <2>1, <2>3, <2>4 DEF Moved, SameCopy, Gating
    <2> QED BY <2>4, <2>5
  <1> QED BY <1>1, <1>2, <1>3, <1>4, <1>5, <1>6, <1>7 DEF Moves

\* The end of a tool's execution: cost, event and result, then the commit.
LEMMA ResultView ==
  ASSUME NEW x \in Driver, x.step \in Steps, NEW c \in Nat, NEW t \in AuditTypes, NEW v \in Values
  PROVE  LET y == StepDone(Stored(Noted(Booked(x, c), t), v))
         IN  /\ y \in Driver /\ y.pc = (IF x.comp THEN "fail" ELSE "commit")
             /\ SamePlace(x, y) /\ SameProgress(x.mem, y.mem)
             /\ y.mem.ctx = [x.mem.ctx EXCEPT ![x.step] = v]
             /\ y.mem.cost = x.mem.cost + c /\ y.buf.cost = x.buf.cost + c
             /\ y.buf.audit = x.buf.audit \cup {<<t, x.step>>}
  <1> DEFINE b == Booked(x, c)
             n == Noted(b, t)
             w == Stored(n, v)
             y == StepDone(w)
  <1>1. /\ b \in Driver /\ SamePlace(x, b) /\ SameProgress(x.mem, b.mem) /\ b.mem.ctx = x.mem.ctx
        /\ b.mem.cost = x.mem.cost + c /\ b.buf.cost = x.buf.cost + c /\ b.buf.audit = x.buf.audit
    BY BookedView
  <1> HIDE DEF b
  <1>2. /\ n \in Driver /\ SamePlace(b, n) /\ n.mem = b.mem /\ n.buf.cost = b.buf.cost
        /\ n.buf.audit = b.buf.audit \cup {<<t, b.step>>}
    <2>1. b.step \in Steps
      BY <1>1 DEF SamePlace
    <2> QED BY <1>1, <2>1, NotedView
  <1> HIDE DEF n
  <1>3. /\ w \in Driver /\ SamePlace(n, w) /\ SameProgress(n.mem, w.mem)
        /\ w.mem.ctx = [n.mem.ctx EXCEPT ![n.step] = v] /\ w.mem.cost = n.mem.cost /\ w.buf = n.buf
    <2>1. n.step \in Steps
      BY <1>1, <1>2 DEF SamePlace
    <2> QED BY <1>2, <2>1, StoredView
  <1> HIDE DEF w
  <1>4. /\ y \in Driver /\ y.pc = (IF w.comp THEN "fail" ELSE "commit")
        /\ SamePlace(w, y) /\ y.mem = w.mem /\ y.buf = w.buf
    BY <1>3, StepDoneView
  <1> HIDE DEF y
  <1>5. y \in Driver /\ y.pc = (IF x.comp THEN "fail" ELSE "commit") /\ SamePlace(x, y)
    BY <1>1, <1>2, <1>3, <1>4 DEF SamePlace
  <1>6. SameProgress(x.mem, y.mem)
    BY <1>1, <1>2, <1>3, <1>4 DEF SameProgress
  <1>7. /\ y.mem.ctx = [x.mem.ctx EXCEPT ![x.step] = v]
        /\ y.mem.cost = x.mem.cost + c /\ y.buf.cost = x.buf.cost + c
        /\ y.buf.audit = x.buf.audit \cup {<<t, x.step>>}
    BY <1>1, <1>2, <1>3, <1>4 DEF SamePlace
  <1> QED BY <1>5, <1>6, <1>7 DEF y, w, n, b

\* The steps that do the work of a step.
Works(d) ==
    \/ ModelAnswers(d) \/ ModelCalls(d) \/ ExecuteCall(d) \/ ExecuteOk(d) \/ RecordTool(d)
    \/ ReplayTool(d)

\* A result v that step s of run r may leave in the context: if the step is a
\* mutating tool, it is what the ledger holds, or what the ledger was just given.
Ledgered(x, v) ==
    (NodeType[x.step] = "tool" /\ SideEffect[x.step]) =>
        /\ <<x.run, x.step>> \in DOMAIN effects'
        /\ v = effects'[<<x.run, x.step>>] \/ (x.pc = "record" /\ v = x.out)

\* They cost the same in the run and in the events, and leave at most one
\* result, which is in the audit log when a tool has returned it.
Worked(x, y) ==
    /\ y.run = x.run /\ y.step = x.step /\ y.comp = x.comp /\ SameProgress(x.mem, y.mem)
    /\ \E c \in Nat : y.mem.cost = x.mem.cost + c /\ y.buf.cost = x.buf.cost + c
    /\ x.buf.audit \subseteq y.buf.audit
    /\ x.pc \in {"step", "call", "execute", "record"}
    /\ y.pc \in {"commit", "fail", "call", "step", "record"}
    /\ y.pc = "commit" => ~y.comp
    /\ y.pc = "record" => x.pc = "execute" /\ SideEffect[x.step]
    /\ \/ y.mem.ctx = x.mem.ctx /\ y.pc # "commit"
       \/ \E v \in Values :
             /\ y.pc \in {"commit", "fail"}
             /\ y.mem.ctx = [x.mem.ctx EXCEPT ![x.step] = v] /\ Ledgered(x, v)
             /\ NodeType[x.step] = "tool" =>
                    \E t \in {"tool_result", "tool_result_replayed"} : <<t, x.step>> \in y.buf.audit

\* What they do to the driver and to the tables.
LEMMA WorkView ==
  ASSUME TypeOK, NEW d \in Drivers, Works(d)
  PROVE  /\ Put(d, dr'[d]) /\ Worked(dr[d], dr'[d])
         /\ UNCHANGED <<runs, trace, approvals>>
         /\ UNCHANGED effects \/ (dr[d].pc = "record" /\ RecordEffect(Key(d), dr[d].out))
  <1>0. Active(dr[d])
    BY DEF Works, Active, ModelAnswers, ModelCalls, InLoop, ExecuteCall, ExecuteOk, RecordTool, ReplayTool
  <1>u. /\ UNCHANGED <<runs, trace, approvals>>
        /\ UNCHANGED effects \/ (dr[d].pc = "record" /\ RecordEffect(Key(d), dr[d].out))
    BY DEF Works, ModelAnswers, ModelCalls, ExecuteCall, ExecuteOk, RecordTool, ReplayTool,
           RecordEffect, storeVars
  <1>t. /\ dr[d] \in Driver /\ At(d) \in Steps /\ dr[d].step = At(d) /\ Mem(d) = dr[d].mem
        /\ Mem(d) \in RunState /\ dr[d].buf \in Batch /\ Args(d) \in Slot
        /\ Key(d) = <<dr[d].run, dr[d].step>> /\ Key(d) \in EffectKeys
        /\ Cost[At(d)] \in Nat /\ AgentOf[At(d)].cost \in Nat
        /\ \A v \in Replies(Key(d), Args(d)) : v \in Values
        /\ \A v \in Outcomes(At(d), Args(d)) : v \in Values
        /\ dr[d].mem.cost \in Nat /\ dr[d].buf.cost \in Nat
    <2>1. /\ dr[d] \in Driver /\ At(d) \in Steps /\ dr[d].step = At(d) /\ Mem(d) = dr[d].mem
          /\ Mem(d) \in RunState /\ dr[d].buf \in Batch /\ Args(d) \in Slot
          /\ Key(d) = <<dr[d].run, dr[d].step>> /\ Key(d) \in EffectKeys
      BY <1>0, ActiveType DEF At, Mem, Key
    <2>2. dr[d].mem.cost \in Nat /\ dr[d].buf.cost \in Nat
      BY <2>1 DEF RunState, Batch
    <2>3. Cost[At(d)] \in Nat /\ AgentOf[At(d)].cost \in Nat
      BY <2>1, WorkflowAssumption DEF Agent
    <2> QED BY <2>1, <2>2, <2>3, PostType, FunctionAssumption DEF TypeOK
  <1>q. SUFFICES \E y : Put(d, y) /\ Worked(dr[d], y)
    BY <1>u, PutView
  <1> DEFINE x == dr[d]
  <1>1. CASE ModelAnswers(d)
    <2>1. PICK v \in Outcomes(At(d), Args(d)) : Put(d, StepDone(Stored(Booked(x, Cost[At(d)]), v)))
      BY <1>1 DEF ModelAnswers
    <2>2. x.pc = "step" /\ NodeType[x.step] = "agent" /\ v \in Values
      BY <1>1, <1>t DEF ModelAnswers, InLoop
    <2> DEFINE b == Booked(x, Cost[At(d)])
               w == Stored(b, v)
               y == StepDone(w)
    <2>3. /\ b \in Driver /\ SamePlace(x, b) /\ SameProgress(x.mem, b.mem) /\ b.mem.ctx = x.mem.ctx
          /\ b.mem.cost = x.mem.cost + Cost[At(d)] /\ b.buf.cost = x.buf.cost + Cost[At(d)]
          /\ b.buf.audit = x.buf.audit
      BY <1>t, BookedView
    <2> HIDE DEF b
    <2>4. /\ w \in Driver /\ SamePlace(b, w) /\ SameProgress(b.mem, w.mem)
          /\ w.mem.ctx = [b.mem.ctx EXCEPT ![b.step] = v] /\ w.mem.cost = b.mem.cost /\ w.buf = b.buf
      <3>1. b.step \in Steps
        BY <1>t, <2>3 DEF SamePlace
      <3> QED BY <2>2, <2>3, <3>1, StoredView
    <2> HIDE DEF w
    <2>5. /\ y.pc = (IF w.comp THEN "fail" ELSE "commit")
          /\ SamePlace(w, y) /\ y.mem = w.mem /\ y.buf = w.buf
      BY <2>4, StepDoneView
    <2>6. Put(d, y)
      BY <2>1 DEF w, b
    <2> HIDE DEF y
    <2>7. Worked(x, y)
      BY <1>t, <2>2, <2>3, <2>4, <2>5 DEF Worked, SamePlace, SameProgress, Ledgered
    <2> QED BY <2>6, <2>7
  <1>2. CASE ModelCalls(d)
    <2> DEFINE b == Booked(x, Cost[At(d)])
    <2>1. PICK n \in 1 .. MaxCalls : Put(d, Asked(b, n))
      BY <1>2 DEF ModelCalls
    <2>2. x.pc = "step"
      BY <1>2 DEF ModelCalls, InLoop
    <2>3. /\ b \in Driver /\ SamePlace(x, b) /\ SameProgress(x.mem, b.mem) /\ b.mem.ctx = x.mem.ctx
          /\ b.mem.cost = x.mem.cost + Cost[At(d)] /\ b.buf.cost = x.buf.cost + Cost[At(d)]
          /\ b.buf.audit = x.buf.audit
      BY <1>t, BookedView
    <2> HIDE DEF b
    <2> DEFINE y == Asked(b, n)
    <2>4. /\ y.pc = "call" /\ y.run = b.run /\ y.step = b.step /\ y.comp = b.comp
          /\ y.mem = b.mem /\ y.buf = b.buf
      BY <2>3 DEF Asked, Driver
    <2>5. Put(d, y)
      BY <2>1
    <2> HIDE DEF y
    <2>6. Worked(x, y)
      BY <1>t, <2>2, <2>3, <2>4 DEF Worked, SamePlace, SameProgress
    <2> QED BY <2>5, <2>6
  <1>3. CASE ExecuteCall(d)
    <2> DEFINE b == Booked(x, AgentOf[At(d)].cost)
    <2>1. Put(d, Answered(b)) /\ x.pc = "call"
      BY <1>3 DEF ExecuteCall
    <2>2. /\ b \in Driver /\ SamePlace(x, b) /\ SameProgress(x.mem, b.mem) /\ b.mem.ctx = x.mem.ctx
          /\ b.mem.cost = x.mem.cost + AgentOf[At(d)].cost
          /\ b.buf.cost = x.buf.cost + AgentOf[At(d)].cost
          /\ b.buf.audit = x.buf.audit
      BY <1>t, BookedView
    <2> HIDE DEF b
    <2> DEFINE y == Answered(b)
    <2>3. /\ y.pc \in {"call", "step"} /\ y.run = b.run /\ y.step = b.step /\ y.comp = b.comp
          /\ y.mem = b.mem /\ y.buf = b.buf
      BY <2>2 DEF Answered, Driver
    <2>4. Put(d, y)
      BY <2>1
    <2> HIDE DEF y
    <2>5. Worked(x, y)
      BY <1>t, <2>1, <2>2, <2>3 DEF Worked, SamePlace, SameProgress
    <2> QED BY <2>4, <2>5
  <1>4. CASE ExecuteOk(d)
    <2>1. PICK v \in Replies(Key(d), Args(d)) :
            IF SideEffect[At(d)]
            THEN Put(d, [x EXCEPT !.pc = "record", !.out = v])
            ELSE Put(d, StepDone(Stored(Noted(Booked(x, Cost[At(d)]), "tool_result"), v)))
      BY <1>4 DEF ExecuteOk
    <2>2. x.pc = "execute" /\ v \in Values
      BY <1>4, <1>t DEF ExecuteOk
    <2>3. CASE SideEffect[At(d)]
      <3> DEFINE y == [x EXCEPT !.pc = "record", !.out = v]
      <3>1. /\ y.pc = "record" /\ y.run = x.run /\ y.step = x.step /\ y.comp = x.comp
            /\ y.mem = x.mem /\ y.buf = x.buf
        BY <1>t DEF Driver
      <3>2. Put(d, y)
        BY <2>1, <2>3
      <3> HIDE DEF y
      <3>3. x.mem.cost = x.mem.cost + 0 /\ x.buf.cost = x.buf.cost + 0
        BY <1>t
      <3>4. Worked(x, y)
        BY <2>2, <2>3, <3>1, <3>3 DEF Worked, SameProgress, At
      <3> QED BY <3>2, <3>4
    <2>4. CASE ~SideEffect[At(d)]
      <3> DEFINE y == StepDone(Stored(Noted(Booked(x, Cost[At(d)]), "tool_result"), v))
      <3>1. /\ y.pc = (IF x.comp THEN "fail" ELSE "commit")
            /\ SamePlace(x, y) /\ SameProgress(x.mem, y.mem)
            /\ y.mem.ctx = [x.mem.ctx EXCEPT ![x.step] = v]
            /\ y.mem.cost = x.mem.cost + Cost[At(d)] /\ y.buf.cost = x.buf.cost + Cost[At(d)]
            /\ y.buf.audit = x.buf.audit \cup {<<"tool_result", x.step>>}
        <4>1. v \in Values /\ "tool_result" \in AuditTypes /\ x \in Driver /\ x.step \in Steps
          BY <1>t, <2>2 DEF AuditTypes
        <4> HIDE DEF x
        <4> QED BY <1>t, <4>1, ResultView
      <3>2. Put(d, y)
        BY <2>1, <2>4
      <3> HIDE DEF y
      <3>3. Worked(x, y)
        BY <1>t, <2>2, <2>4, <3>1 DEF Worked, SamePlace, Ledgered
      <3> QED BY <3>2, <3>3
    <2> QED BY <2>3, <2>4
  <1>5. CASE RecordTool(d)
    <2>1. x.pc = "record" /\ x.out \in Values
      BY <1>5 DEF RecordTool, TypeOK, DriverTypeOK
    <2>2. PICK v \in Values :
             /\ v = x.out /\ RecordEffect(Key(d), v)
             /\ Put(d, StepDone(Stored(Noted(Booked(x, Cost[At(d)]), "tool_result"), v)))
      BY <1>5, <2>1 DEF RecordTool
    <2> DEFINE y == StepDone(Stored(Noted(Booked(x, Cost[At(d)]), "tool_result"), v))
    <2>3. /\ y.pc = (IF x.comp THEN "fail" ELSE "commit")
          /\ SamePlace(x, y) /\ SameProgress(x.mem, y.mem)
          /\ y.mem.ctx = [x.mem.ctx EXCEPT ![x.step] = v]
          /\ y.mem.cost = x.mem.cost + Cost[At(d)] /\ y.buf.cost = x.buf.cost + Cost[At(d)]
          /\ y.buf.audit = x.buf.audit \cup {<<"tool_result", x.step>>}
      <3>1. v \in Values /\ "tool_result" \in AuditTypes /\ x \in Driver /\ x.step \in Steps
        BY <1>t, <2>2 DEF AuditTypes
      <3> HIDE DEF x
      <3> QED BY <1>t, <3>1, ResultView
    <2>4. Ledgered(x, v)
      BY <1>t, <2>1, <2>2 DEF Ledgered, RecordEffect, Insert
    <2>6. Put(d, y)
      BY <2>2
    <2> HIDE DEF y
    <2>5. Worked(x, y)
      BY <1>t, <2>1, <2>3, <2>4 DEF Worked, SamePlace
    <2> QED BY <2>5, <2>6
  <1>6. CASE ReplayTool(d)
    <2> DEFINE v == effects[Key(d)]
               n == Noted(x, "tool_result_replayed")
               w == Stored(n, v)
               y == StepDone(w)
    <2>1. Put(d, y) /\ x.pc = "step" /\ Key(d) \in DOMAIN effects /\ effects' = effects
      BY <1>6 DEF ReplayTool, HasEffect, storeVars
    <2>2. v \in Values
      BY <2>1 DEF TypeOK, StoreTypeOK
    <2>3. Ledgered(x, v)
      BY <1>t, <2>1 DEF Ledgered
    <2> HIDE DEF v
    <2>4. /\ n \in Driver /\ SamePlace(x, n) /\ n.mem = x.mem /\ n.buf.cost = x.buf.cost
          /\ n.buf.audit = x.buf.audit \cup {<<"tool_result_replayed", x.step>>}
      BY <1>t, NotedView DEF AuditTypes
    <2>5. /\ w \in Driver /\ SamePlace(n, w) /\ SameProgress(n.mem, w.mem)
          /\ w.mem.ctx = [n.mem.ctx EXCEPT ![n.step] = v] /\ w.mem.cost = n.mem.cost /\ w.buf = n.buf
      <3>1. n.step \in Steps
        BY <1>t, <2>4 DEF SamePlace
      <3> HIDE DEF n
      <3> QED BY <2>2, <2>4, <3>1, StoredView
    <2>6. /\ y.pc = (IF w.comp THEN "fail" ELSE "commit")
          /\ SamePlace(w, y) /\ y.mem = w.mem /\ y.buf = w.buf
      <3> HIDE DEF w
      <3> QED BY <2>5, StepDoneView
    <2> HIDE DEF y, w, n
    <2>7. /\ y.run = x.run /\ y.step = x.step /\ y.comp = x.comp /\ SameProgress(x.mem, y.mem)
          /\ y.pc = (IF x.comp THEN "fail" ELSE "commit")
          /\ y.mem.ctx = [x.mem.ctx EXCEPT ![x.step] = v] /\ y.mem.cost = x.mem.cost
          /\ y.buf.cost = x.buf.cost
          /\ y.buf.audit = x.buf.audit \cup {<<"tool_result_replayed", x.step>>}
      BY <2>4, <2>5, <2>6 DEF SamePlace, SameProgress
    <2>8. x.mem.cost = x.mem.cost + 0 /\ x.buf.cost = x.buf.cost + 0
      BY <1>t
    <2>9. Worked(x, y)
      BY <2>1, <2>2, <2>3, <2>7, <2>8 DEF Worked
    <2> QED BY <2>1, <2>9
  <1> QED BY <1>1, <1>2, <1>3, <1>4, <1>5, <1>6 DEF Works

\* A checkpoint writes one run and adds its events.
LEMMA CheckpointView ==
  ASSUME TypeOK, NEW r \in DOMAIN runs, NEW st, NEW b, Checkpoint(r, st, b)
  PROVE  /\ DOMAIN runs' = DOMAIN runs /\ runs'[r].st = st
         /\ \A q \in DOMAIN runs : runs'[q].tenant = runs[q].tenant /\ runs'[q].key = runs[q].key
         /\ \A q \in DOMAIN runs : q # r => runs'[q] = runs[q]
         /\ trace'[r].cost = trace[r].cost + b.cost
         /\ trace'[r].audit = trace[r].audit \cup b.audit
         /\ trace'[r].announced = trace[r].announced \cup b.announced
         /\ \A q \in RunIds : q # r => trace'[q] = trace[q]
         /\ UNCHANGED <<approvals, effects>>
  <1>1. /\ runs \in [DOMAIN runs -> RunRow] /\ r \in RunIds /\ trace \in [RunIds -> Batch]
        /\ runs' = [runs EXCEPT ![r] = [runs[r] EXCEPT !.st = st]]
        /\ trace' = [trace EXCEPT ![r] = Join(trace[r], b)]
        /\ UNCHANGED <<approvals, effects>>
    BY DEF TypeOK, StoreTypeOK, Checkpoint
  <1> DEFINE row == [runs[r] EXCEPT !.st = st]
  <1>2. row.st = st /\ row.tenant = runs[r].tenant /\ row.key = runs[r].key
    BY <1>1 DEF RunRow
  <1>3. trace'[r] = Join(trace[r], b) /\ \A q \in RunIds : q # r => trace'[q] = trace[q]
    BY <1>1
  <1>4. /\ trace'[r].cost = trace[r].cost + b.cost /\ trace'[r].audit = trace[r].audit \cup b.audit
        /\ trace'[r].announced = trace[r].announced \cup b.announced
    BY <1>3 DEF Join
  <1>5. /\ DOMAIN runs' = DOMAIN runs /\ runs'[r] = row
        /\ \A q \in DOMAIN runs : q # r => runs'[q] = runs[q]
    <2> HIDE DEF row
    <2> QED BY <1>1 DEF row
  <1> HIDE DEF row
  <1> QED BY <1>1, <1>2, <1>3, <1>4, <1>5

\* The steps that checkpoint.
Saves(d) == BudgetFail(d) \/ Fail(d) \/ Commit(d) \/ Pause(d)

\* The driver x becomes y and leaves st in its row: the run fails, or the
\* step is committed, or the run waits for an approval.
Saved(x, y, st) ==
    /\ st.ctx = x.mem.ctx /\ st.cost = x.mem.cost /\ st.steps = x.mem.steps
    /\ \/ /\ x.pc \in {"loop", "fail"} /\ st.status = "failed" /\ st.cursor = x.mem.cursor
          /\ y = [x EXCEPT !.pc = "raised"]
          /\ y.pc = "raised" /\ y.run = x.run /\ y.mem = x.mem /\ y.buf = x.buf
       \/ /\ x.pc = "commit" /\ st.cursor = Successor(x.step, x.mem.ctx)
          /\ st.status = (IF st.cursor = None THEN "succeeded" ELSE x.mem.status)
          /\ \/ y = Idle /\ st.cursor = None
             \/ /\ st.cursor \in Steps
                /\ y.pc = "loop" /\ y.run = x.run /\ y.step = st.cursor /\ y.comp = x.comp
                /\ y.mem = st /\ y.buf = NoEvents /\ y.turn = 0
       \/ /\ x.pc = "pause" /\ st.status = "waiting_approval" /\ st.cursor = x.mem.cursor
          /\ \/ ~x.comp /\ y = Idle
             \/ /\ x.comp /\ y.pc = "fail" /\ y.run = x.run /\ y.step = x.step /\ y.comp = x.comp
                /\ y.mem = st /\ y.buf = NoEvents

\* A checkpoint of a driver's copy and events, and how the driver goes on.
LEMMA SaveView ==
  ASSUME TypeOK, NEW d \in Drivers, Saves(d)
  PROVE  /\ Put(d, dr'[d]) /\ dr[d].run \in DOMAIN runs /\ UNCHANGED envVars
         /\ \E st \in RunState :
                Saved(dr[d], dr'[d], st) /\ Checkpoint(dr[d].run, st, dr[d].buf)
  <1>0. Active(dr[d])
    BY DEF Saves, Active, BudgetFail, Fail, Commit, Pause
  <1>u. UNCHANGED envVars
    BY DEF Saves, BudgetFail, Fail, Commit, Pause
  <1>t. /\ dr[d] \in Driver /\ At(d) \in Steps /\ dr[d].step = At(d) /\ Mem(d) = dr[d].mem
        /\ dr[d].mem \in RunState /\ dr[d].buf \in Batch /\ dr[d].run \in DOMAIN runs
        /\ dr[d].mem.ctx \in Context
    BY <1>0, ActiveType DEF At, Mem, RunState
  <1>q. SUFFICES \E y : /\ Put(d, y)
                        /\ \E st \in RunState :
                               Saved(dr[d], y, st) /\ Checkpoint(dr[d].run, st, dr[d].buf)
    BY <1>t, <1>u, PutView
  <1> DEFINE x == dr[d]
  <1>1. CASE BudgetFail(d) \/ Fail(d)
    <2> DEFINE st == [x.mem EXCEPT !.status = "failed"]
               y == [x EXCEPT !.pc = "raised"]
    <2>1. Checkpoint(x.run, st, x.buf) /\ Put(d, y) /\ x.pc \in {"loop", "fail"}
      BY <1>1, <1>t DEF BudgetFail, Fail
    <2>2. st \in RunState
      BY <1>t, StatusType DEF RunStatus, Terminal
    <2>3. /\ st.ctx = x.mem.ctx /\ st.cost = x.mem.cost /\ st.steps = x.mem.steps
          /\ st.status = "failed" /\ st.cursor = x.mem.cursor
      BY <1>t DEF RunState
    <2>4. y.pc = "raised" /\ y.run = x.run /\ y.mem = x.mem /\ y.buf = x.buf
      BY <1>t DEF Driver
    <2>5. Saved(x, y, st)
      <3> HIDE DEF st
      <3> QED BY <2>1, <2>3, <2>4 DEF Saved
    <2> QED BY <2>1, <2>2, <2>5
  <1>2. CASE Commit(d)
    <2> DEFINE next == Successor(x.step, x.mem.ctx)
               st == Advance(x.mem, next)
               y == Continue(x, st, next)
    <2>1. Checkpoint(x.run, st, x.buf) /\ Put(d, y) /\ x.pc = "commit"
      BY <1>2, <1>t DEF Commit
    <2>2. next \in Steps \cup {None}
      BY <1>t, SuccessorType
    <2> HIDE DEF next
    <2>3. st \in RunState
      BY <1>t, <2>2, AdvanceType
    <2>4. /\ st.ctx = x.mem.ctx /\ st.cost = x.mem.cost /\ st.steps = x.mem.steps
          /\ st.cursor = next /\ st.status = (IF next = None THEN "succeeded" ELSE x.mem.status)
      BY <1>t DEF RunState, Advance
    <2> HIDE DEF st
    <2>5. IF next = None THEN y = Idle
          ELSE /\ y.pc = "loop" /\ y.run = x.run /\ y.step = next /\ y.comp = x.comp
               /\ y.mem = st /\ y.buf = NoEvents /\ y.turn = 0
      BY <1>t DEF Continue, Driver
    <2> HIDE DEF y
    <2>6. Saved(x, y, st)
      BY <2>1, <2>2, <2>4, <2>5 DEF Saved, next
    <2> QED BY <2>1, <2>3, <2>6
  <1>3. CASE Pause(d)
    <2> DEFINE st == [x.mem EXCEPT !.status = "waiting_approval"]
               z == [x EXCEPT !.pc = "fail", !.mem = st, !.buf = NoEvents]
               y == IF x.comp THEN z ELSE Idle
    <2>1. Checkpoint(x.run, st, x.buf) /\ Put(d, y) /\ x.pc = "pause"
      BY <1>3, <1>t DEF Pause
    <2>2. st \in RunState
      BY <1>t, StatusType DEF RunStatus
    <2>3. /\ st.ctx = x.mem.ctx /\ st.cost = x.mem.cost /\ st.steps = x.mem.steps
          /\ st.status = "waiting_approval" /\ st.cursor = x.mem.cursor
      BY <1>t DEF RunState
    <2> HIDE DEF st
    <2>4. /\ z.pc = "fail" /\ z.run = x.run /\ z.step = x.step /\ z.comp = x.comp
          /\ z.mem = st /\ z.buf = NoEvents
      BY <1>t DEF Driver
    <2> HIDE DEF z
    <2>5. Saved(x, y, st)
      BY <2>1, <2>3, <2>4 DEF Saved
    <2> QED BY <2>1, <2>2, <2>5
  <1> QED BY <1>1, <1>2, <1>3 DEF Saves

\* The requests that start a driver on a run with state st: a new run, a
\* stored one, or the copy that resolve_approval has loaded.
LEMMA StartView ==
  ASSUME TypeOK, NEW d \in Drivers, Request(d)
  PROVE  \/ \E t \in Tenants, k \in Keys, r \in RunIds : Fire(d, t, k, r)
         \/ \E r \in DOMAIN runs :
               /\ runs[r].st \in RunState /\ r \in RunIds /\ Claim(r) /\ dr[d].pc = "idle"
               /\ Put(d, Begin(r, runs[r].st)) \/ Put(d, [Idle EXCEPT !.pc = "resolving", !.run = r,
                                                                   !.mem = runs[r].st])
               /\ UNCHANGED <<storeVars, posted, inflight, granted, crashes>>
         \/ /\ dr[d].pc = "resolving" /\ dr[d].run \in DOMAIN runs /\ dr[d].run \in RunIds
            /\ dr[d].mem \in RunState /\ Put(d, Begin(dr[d].run, dr[d].mem))
            /\ UNCHANGED <<runs, trace, effects, posted, inflight, crashes, overlaps>>
  <1>1. ASSUME NEW r \in RunIds, Resume(d, r) \/ ResolveLoad(d, r)
        PROVE  /\ r \in DOMAIN runs /\ runs[r].st \in RunState /\ Claim(r) /\ dr[d].pc = "idle"
               /\ Put(d, Begin(r, runs[r].st)) \/ Put(d, [Idle EXCEPT !.pc = "resolving", !.run = r,
                                                                   !.mem = runs[r].st])
               /\ UNCHANGED <<storeVars, posted, inflight, granted, crashes>>
    BY <1>1 DEF Resume, ResolveLoad, TypeOK, StoreTypeOK, RunRow
  <1>2. ASSUME NEW a, NEW ok, ResolveCommit(d, a, ok)
        PROVE  /\ dr[d].pc = "resolving" /\ dr[d].run \in DOMAIN runs /\ dr[d].run \in RunIds
               /\ dr[d].mem \in RunState /\ Put(d, Begin(dr[d].run, dr[d].mem))
               /\ UNCHANGED <<runs, trace, effects, posted, inflight, crashes, overlaps>>
    BY <1>2 DEF ResolveCommit, ResolveApproval, TypeOK, StoreTypeOK, DriverTypeOK, Driver
  <1> QED BY <1>1, <1>2 DEF Request

\* Every step of a driver is one of the four kinds.
LEMMA StepKinds ==
  ASSUME NEW d, DriverStep(d)
  PROVE  Moves(d) \/ Works(d) \/ Saves(d) \/ Return(d)
  BY DEF DriverStep, Moves, Works, Saves

\* fire inserts one row, with a key no other run of the tenant has.
LEMMA FireView ==
  ASSUME TypeOK, NEW d \in Drivers, NEW t \in Tenants, NEW k \in Keys, NEW r \in RunIds,
         Fire(d, t, k, r)
  PROVE  /\ r \notin DOMAIN runs /\ ~KeyTaken(t, k) /\ DOMAIN runs' = DOMAIN runs \cup {r}
         /\ runs'[r].tenant = t /\ runs'[r].key = k /\ runs'[r].st = NewRun
         /\ \A q \in DOMAIN runs : runs'[q] = runs[q]
         /\ dr[d].pc = "idle" /\ Put(d, Begin(r, NewRun))
         /\ UNCHANGED <<trace, approvals, effects, posted, inflight, granted, crashes, overlaps>>
  <1> DEFINE row == [tenant |-> t, key |-> k, st |-> NewRun]
  <1>1. row.tenant = t /\ row.key = k /\ row.st = NewRun
    OBVIOUS
  <1> HIDE DEF row
  <1>2. /\ r \notin DOMAIN runs /\ ~KeyTaken(t, k) /\ runs' = Insert(runs, r, row)
        /\ dr[d].pc = "idle" /\ Put(d, Begin(r, NewRun))
        /\ UNCHANGED <<trace, approvals, effects>> /\ UNCHANGED envVars
    BY DEF Fire, CreateRun, row
  <1>3. /\ DOMAIN runs' = DOMAIN runs \cup {r} /\ runs'[r] = row
        /\ \A q \in DOMAIN runs : runs'[q] = runs[q]
    BY <1>2 DEF Insert
  <1> QED BY <1>1, <1>2, <1>3 DEF envVars

\* cancel changes one status, of a run that has not ended.
LEMMA CancelView ==
  ASSUME TypeOK, NEW r, Cancel(r)
  PROVE  /\ r \in DOMAIN runs /\ runs[r].st.status \notin Terminal /\ Claim(r)
         /\ DOMAIN runs' = DOMAIN runs /\ \A q \in DOMAIN runs : q # r => runs'[q] = runs[q]
         /\ runs'[r].tenant = runs[r].tenant /\ runs'[r].key = runs[r].key
         /\ runs'[r].st.status = "canceled" /\ runs'[r].st.cursor = runs[r].st.cursor
         /\ runs'[r].st.ctx = runs[r].st.ctx /\ runs'[r].st.cost = runs[r].st.cost
         /\ runs'[r].st.steps = runs[r].st.steps
         /\ UNCHANGED <<trace, approvals, effects, dr, posted, inflight, granted, crashes>>
  <1> DEFINE st == [runs[r].st EXCEPT !.status = "canceled"]
             row == [runs[r] EXCEPT !.st = st]
  <1>1. /\ r \in DOMAIN runs /\ runs[r].st.status \notin Terminal /\ Claim(r)
        /\ runs' = [runs EXCEPT ![r] = row] /\ runs[r] \in RunRow /\ runs[r].st \in RunState
        /\ UNCHANGED <<trace, approvals, effects, dr, posted, inflight, granted, crashes>>
    BY DEF Cancel, CancelRun, TypeOK, StoreTypeOK, RunRow
  <1>2. /\ st.status = "canceled" /\ st.cursor = runs[r].st.cursor /\ st.ctx = runs[r].st.ctx
        /\ st.cost = runs[r].st.cost /\ st.steps = runs[r].st.steps
    BY <1>1 DEF RunState
  <1>3. row.tenant = runs[r].tenant /\ row.key = runs[r].key /\ row.st = st
    <2> HIDE DEF st
    <2> QED BY <1>1 DEF RunRow
  <1> HIDE DEF row, st
  <1>4. /\ DOMAIN runs' = DOMAIN runs /\ runs'[r] = row
        /\ \A q \in DOMAIN runs : q # r => runs'[q] = runs[q]
    BY <1>1
  <1> QED BY <1>1, <1>2, <1>3, <1>4

\* A purge leaves costs and audit events.
LEMMA PurgeView ==
  ASSUME TypeOK, NEW t, NEW old, Purge(t, old)
  PROVE  /\ \A r \in RunIds : /\ trace'[r].cost = trace[r].cost /\ trace'[r].audit = trace[r].audit
                              /\ trace'[r].announced \subseteq trace[r].announced
         /\ UNCHANGED <<runs, approvals, effects, dr, posted, inflight, granted, crashes, overlaps>>
  <1>1. ASSUME NEW r \in RunIds
        PROVE  /\ trace'[r].cost = trace[r].cost /\ trace'[r].audit = trace[r].audit
               /\ trace'[r].announced \subseteq trace[r].announced
    <2>1. trace[r] \in Batch
      BY DEF TypeOK, StoreTypeOK
    <2> DEFINE b == [trace[r] EXCEPT !.announced = @ \ old]
    <2>2. /\ b.cost = trace[r].cost /\ b.audit = trace[r].audit
          /\ b.announced \subseteq trace[r].announced
      BY <2>1 DEF Batch
    <2>3. trace'[r] = b \/ trace'[r] = trace[r]
      BY DEF Purge, PurgeEventPayloads
    <2> HIDE DEF b
    <2> QED BY <2>2, <2>3
  <1>2. UNCHANGED <<runs, approvals, effects, dr, posted, inflight, granted, crashes, overlaps>>
    BY DEF Purge, PurgeEventPayloads
  <1> QED BY <1>1, <1>2

\* A thread that dies or returns leaves the tables and the outside as they are.
LEMMA StopView ==
  ASSUME NEW d, Crash(d) \/ Return(d)
  PROVE  Put(d, Idle) /\ UNCHANGED <<storeVars, posted, inflight, granted, overlaps>>
  BY DEF Crash, Return, envVars

\* The kinds of steps of the whole system.
LEMMA NextKinds ==
  ASSUME [Next]_vars
  PROVE  \/ \E d \in Drivers : Request(d) \/ Moves(d) \/ Works(d) \/ Saves(d)
         \/ \E d \in Drivers : Crash(d) \/ Return(d)
         \/ \E r \in RunIds : Cancel(r)
         \/ \E t, old : Purge(t, old)
         \/ \E c \in inflight : Land(c)
         \/ UNCHANGED vars
  BY StepKinds DEF Next

\* What an external system may answer to a call.
LEMMA RepliesType ==
  ASSUME TypeOK, NEW k \in EffectKeys, NEW a \in Slot
  PROVE  Replies(k, a) \subseteq Values
  <1>1. posted[k] \in Seq(Posting) /\ Outcomes(k[2], a) \subseteq Values
    BY FunctionAssumption DEF TypeOK, EnvTypeOK, EffectKeys
  <1>2. Len(posted[k]) > 0 => posted[k][1] \in Posting
    BY <1>1
  <1> QED BY <1>1, <1>2 DEF Replies, Holds, Posting
=============================================================================
