-------------------------- MODULE GovernanceProofs --------------------------
(***************************************************************************)
(* No posting escapes the policy gate, for every workflow, every policy    *)
(* and any number of drivers.  With one driver on a run at a time, also:   *)
(* whoever waits for an approval has said so, and what is posted is what   *)
(* the approver saw.                                                       *)
(*                                                                         *)
(* NoUngatedPosting is not inductive: a driver that has passed the gate    *)
(* carries its permission from _run_tool to the external call, across      *)
(* _await_approval, and a timed-out call carries it even further.  The     *)
(* inductive invariant Governed says what each of them is entitled to;     *)
(* Announced and AsApproved, further down, do so for the other two.        *)
(***************************************************************************)
EXTENDS SoloProofs

\* Given the grants g so far, the policy allows a call of step s of run r
\* with arguments a, or an approver has granted a request of that run and step.
Permitted(g, r, s, a) ==
    /\ Decide(s, a) # "deny"
    /\ Decide(s, a) = "require_approval" => \E shown \in Slot : <<r, s, shown>> \in g

ArgsOf(x) == Resolve(x.step, x.mem.ctx)

\* A driver about to execute is permitted to; one that sees to an approval
\* of a tool call was sent there by the policy.
GatedDriver(g, x) ==
    /\ x.pc = "execute" => Permitted(g, x.run, x.step, ArgsOf(x))
    /\ (x.pc \in {"await", "request", "asked"} /\ NodeType[x.step] = "tool") =>
           Decide(x.step, ArgsOf(x)) = "require_approval"

GatedDrivers == \A d \in Drivers : GatedDriver(granted, dr[d])
GatedCalls == \A c \in inflight : Permitted(granted, c[1][1], c[1][2], c[2])
GatedPostings ==
    \A k \in EffectKeys : \A i \in 1 .. Len(posted[k]) :
        Permitted(granted, k[1], k[2], posted[k][i].args)

\* Every approval in the table that reads "approved" was granted.
ApprovedIsGranted ==
    \A a \in 1 .. Len(approvals) : approvals[a].status = "approved" =>
        <<approvals[a].run, approvals[a].step, approvals[a].shown>> \in granted

\* A driver waiting for approval_fn's answer waits for its own request: the
\* row of the approvals table q it has just inserted.
ShownBy(x) == IF NodeType[x.step] = "tool" THEN ArgsOf(x) ELSE Unset
OwnRequest(q, x) ==
    x.pc = "asked" => /\ x.ask \in 1 .. Len(q)
                      /\ q[x.ask].run = x.run /\ q[x.ask].step = x.step
                      /\ q[x.ask].shown = ShownBy(x)
Asking == \A d \in Drivers : OwnRequest(approvals, dr[d])

\* The inductive invariant.
Governed ==
    TypeOK /\ GatedDrivers /\ GatedCalls /\ GatedPostings /\ ApprovedIsGranted /\ Asking

-----------------------------------------------------------------------------
(* Permissions are never revoked.                                          *)

\* A permission holds under any larger set of grants.
LEMMA PermittedStays ==
  ASSUME NEW g, NEW h, g \subseteq h, NEW r, NEW s, NEW a, Permitted(g, r, s, a)
  PROVE  Permitted(h, r, s, a)
  BY DEF Permitted

\* A driver entitled under some grants is entitled under more.
LEMMA GatedDriverStays ==
  ASSUME NEW g, NEW h, g \subseteq h, NEW x, GatedDriver(g, x)
  PROVE  GatedDriver(h, x)
  BY PermittedStays DEF GatedDriver

\* So are the calls in flight, when none is added.
LEMMA GatedCallsStay ==
  ASSUME GatedCalls, granted \subseteq granted', inflight' \subseteq inflight
  PROVE  GatedCalls'
  BY PermittedStays DEF GatedCalls

\* So are the postings, when none is added.
LEMMA GatedPostingsStay ==
  ASSUME GatedPostings, granted \subseteq granted', UNCHANGED posted
  PROVE  GatedPostings'
  BY PermittedStays DEF GatedPostings

\* Replacing one driver by an entitled one keeps all drivers entitled.
LEMMA GatedPut ==
  ASSUME TypeOK, GatedDrivers, granted \subseteq granted', NEW d \in Drivers, NEW x, Put(d, x),
         GatedDriver(granted', x)
  PROVE  GatedDrivers'
  <1> SUFFICES ASSUME NEW e \in Drivers PROVE GatedDriver(granted', dr'[e])
    BY DEF GatedDrivers
  <1>1. dr'[e] = IF e = d THEN x ELSE dr[e]
    BY DEF Put, TypeOK, DriverTypeOK
  <1> QED BY <1>1, GatedDriverStays DEF GatedDrivers

\* No row is deleted and none changes what it is a request for.
Extends(p, q) ==
    \A a \in 1 .. Len(p) : /\ a \in 1 .. Len(q)
                           /\ q[a].run = p[a].run /\ q[a].step = p[a].step
                           /\ q[a].shown = p[a].shown

\* Replacing one driver by one that asks for nothing foreign keeps Asking.
LEMMA AskingPut ==
  ASSUME TypeOK, Asking, Extends(approvals, approvals'), NEW d \in Drivers, NEW x, Put(d, x),
         OwnRequest(approvals', x)
  PROVE  Asking'
  <1> SUFFICES ASSUME NEW e \in Drivers PROVE OwnRequest(approvals', dr'[e])
    BY DEF Asking
  <1>1. dr'[e] = IF e = d THEN x ELSE dr[e]
    BY DEF Put, TypeOK, DriverTypeOK
  <1>2. OwnRequest(approvals, dr[e])
    BY DEF Asking
  <1>3. OwnRequest(approvals', dr[e])
    BY <1>2 DEF OwnRequest, Extends
  <1> QED BY <1>1, <1>3

\* A driver that neither executes nor awaits has nothing to show.
LEMMA HarmlessDriver ==
  ASSUME NEW g, NEW x, x.pc \notin {"execute", "await", "request", "asked"}
  PROVE  GatedDriver(g, x)
  BY DEF GatedDriver

\* A posting of a permitted call keeps the postings permitted.
LEMMA GatedPost ==
  ASSUME TypeOK, GatedPostings, granted \subseteq granted', NEW k \in EffectKeys, NEW a \in Slot,
         NEW v \in Values, Post(k, a, v), Permitted(granted, k[1], k[2], a)
  PROVE  GatedPostings'
  <1>1. CASE posted' = posted
    BY <1>1, GatedPostingsStay
  <1>2. CASE posted' = [posted EXCEPT ![k] = Append(@, [args |-> a, result |-> v])]
    <2> SUFFICES ASSUME NEW j \in EffectKeys, NEW i \in 1 .. Len(posted'[j])
                 PROVE  Permitted(granted', j[1], j[2], posted'[j][i].args)
      BY DEF GatedPostings
    <2>1. posted[j] \in Seq(Posting) /\ posted[k] \in Seq(Posting)
      BY DEF TypeOK, EnvTypeOK
    <2>2. CASE j # k
      <3>1. posted'[j] = posted[j]
        BY <1>2, <2>2 DEF TypeOK, EnvTypeOK
      <3>2. Permitted(granted, j[1], j[2], posted[j][i].args)
        BY <3>1 DEF GatedPostings
      <3> QED BY <3>1, <3>2, PermittedStays
    <2>3. CASE j = k
      <3>1. posted'[j] = Append(posted[k], [args |-> a, result |-> v])
        BY <1>2, <2>3 DEF TypeOK, EnvTypeOK
      <3>2. \/ i \in 1 .. Len(posted[k]) /\ posted'[j][i] = posted[k][i]
            \/ posted'[j][i] = [args |-> a, result |-> v]
        BY <2>1, <3>1
      <3>3. CASE posted'[j][i] = [args |-> a, result |-> v]
        BY <2>3, <3>3, PermittedStays
      <3>4. CASE i \in 1 .. Len(posted[k]) /\ posted'[j][i] = posted[k][i]
        <4>1. Permitted(granted, k[1], k[2], posted[k][i].args)
          BY <3>4 DEF GatedPostings
        <4> QED BY <2>3, <3>4, <4>1, PermittedStays
      <3> QED BY <3>2, <3>3, <3>4
    <2> QED BY <2>2, <2>3
  <1> QED BY <1>1, <1>2 DEF Post

-----------------------------------------------------------------------------
(* Preservation, action by action.  TypeOK' is TypeStep's.                 *)

\* Steps that concern neither approvals nor external systems.
LEMMA QuietStep ==
  ASSUME Governed, TypeOK', NEW d \in Drivers, NEW x, Put(d, x), GatedDriver(granted, x),
         x.pc # "asked", UNCHANGED <<posted, inflight, granted, approvals>>
  PROVE  Governed'
  <1>1. GatedDrivers'
    BY GatedPut DEF Governed
  <1>2. GatedCalls' /\ GatedPostings'
    BY GatedCallsStay, GatedPostingsStay DEF Governed
  <1>3. ApprovedIsGranted'
    BY DEF Governed, ApprovedIsGranted
  <1>4. Extends(approvals, approvals') /\ OwnRequest(approvals', x)
    BY DEF Extends, OwnRequest
  <1>5. Asking'
    BY <1>4, AskingPut DEF Governed
  <1> QED BY <1>1, <1>2, <1>3, <1>5 DEF Governed

\* Starting a driver without answering an approval, and freeing one.
LEMMA QuietRequest ==
  ASSUME Governed, TypeOK', NEW d \in Drivers,
         \/ \E t \in Tenants, k \in Keys, r \in RunIds : Fire(d, t, k, r)
         \/ \E r \in RunIds : Resume(d, r) \/ ResolveLoad(d, r)
         \/ Return(d) \/ Crash(d)
  PROVE  Governed'
  <1>1. PICK x : /\ Put(d, x) /\ UNCHANGED <<posted, inflight, granted, approvals>>
                 /\ x.pc \in {"idle", "loop", "resolving"}
    <2>1. Idle.pc = "idle"
      BY DEF Idle
    <2>2. ASSUME NEW t \in Tenants, NEW k \in Keys, NEW r \in RunIds, Fire(d, t, k, r)
          PROVE  /\ Put(d, Begin(r, NewRun)) /\ UNCHANGED <<posted, inflight, granted, approvals>>
                 /\ Begin(r, NewRun).pc \in {"idle", "loop"}
      BY <2>2, BeginType, IdleType DEF Fire, CreateRun, envVars
    <2>3. ASSUME NEW r \in RunIds, Resume(d, r)
          PROVE  /\ Put(d, Begin(r, runs[r].st)) /\ UNCHANGED <<posted, inflight, granted, approvals>>
                 /\ Begin(r, runs[r].st).pc \in {"idle", "loop"}
      <3>1. runs[r].st \in RunState
        BY <2>3 DEF Resume, Governed, TypeOK, StoreTypeOK, RunRow
      <3> QED BY <2>3, <3>1, BeginType DEF Resume, storeVars
    <2>4. ASSUME NEW r \in RunIds, ResolveLoad(d, r)
          PROVE  LET x == [Idle EXCEPT !.pc = "resolving", !.run = r, !.mem = runs[r].st]
                 IN  /\ Put(d, x) /\ UNCHANGED <<posted, inflight, granted, approvals>>
                     /\ x.pc = "resolving"
      BY <2>4 DEF ResolveLoad, storeVars, Idle
    <2>5. ASSUME Return(d) \/ Crash(d)
          PROVE  Put(d, Idle) /\ UNCHANGED <<posted, inflight, granted, approvals>>
      BY <2>5 DEF Return, Crash, storeVars, envVars
    <2> QED BY <2>1, <2>2, <2>3, <2>4, <2>5
  <1>2. GatedDriver(granted, x)
    BY <1>1, HarmlessDriver
  <1> QED BY <1>1, <1>2, QuietStep

\* Driver steps before the gate, after the call, and around checkpoints.
LEMMA QuietDriver ==
  ASSUME Governed, TypeOK', NEW d \in Drivers,
         \/ BudgetFail(d) \/ Fail(d) \/ Commit(d) \/ Pause(d) \/ EnterStep(d) \/ Escape(d)
         \/ RunBranch(d) \/ ReplayTool(d) \/ RecordTool(d)
         \/ ModelAnswers(d) \/ ModelCalls(d) \/ TurnsUsedUp(d) \/ RefuseCall(d)
  PROVE  Governed'
  <1>0. Active(dr[d])
    BY DEF Active, BudgetFail, Fail, Commit, Pause, EnterStep, Escape, RunBranch, ReplayTool,
           RecordTool, InLoop, ModelAnswers, ModelCalls, TurnsUsedUp, RefuseCall
  <1>t. dr[d] \in Driver /\ At(d) \in Steps /\ dr[d].step = At(d) /\ TypeOK
    BY <1>0, ActiveType DEF At, Governed
  <1>u. UNCHANGED <<posted, inflight, granted, approvals>>
    BY DEF BudgetFail, Fail, Commit, Pause, EnterStep, Escape, RunBranch, ReplayTool, RecordTool,
           ModelAnswers, ModelCalls, TurnsUsedUp, RefuseCall,
           Checkpoint, RecordEffect, storeVars, envVars
  <1>p. dr'[d] \in Driver /\ Put(d, dr'[d])
    <2>1. dr' = [dr EXCEPT ![d] = dr'[d]]
      BY DEF BudgetFail, Fail, Commit, Pause, EnterStep, Escape, RunBranch, ReplayTool,
             RecordTool, ModelAnswers, ModelCalls, TurnsUsedUp, RefuseCall,
             Put, Governed, TypeOK, DriverTypeOK
    <2> QED BY <2>1 DEF Put, TypeOK, DriverTypeOK
  <1>1. dr'[d].pc \notin {"execute", "await", "request", "asked"}
    <2>1. \A x : Put(d, x) => dr'[d] = x
      BY DEF Put, Governed, TypeOK, DriverTypeOK
    <2>2. Idle.pc = "idle"
      BY DEF Idle
    <2>3. CASE BudgetFail(d) \/ Fail(d)
      <3>1. dr'[d] = [dr[d] EXCEPT !.pc = "raised"]
        BY <2>1, <2>3 DEF BudgetFail, Fail
      <3> QED BY <1>t, <3>1 DEF Driver
    <2>4. CASE Commit(d)
      <3>1. \A st, next : Continue(dr[d], st, next).pc \in {"idle", "loop"}
        BY <1>t, <2>2 DEF Continue, Driver
      <3> QED BY <2>1, <2>4, <3>1 DEF Commit
    <2>5. CASE Pause(d)
      BY <1>t, <2>1, <2>2, <2>5 DEF Pause, Driver
    <2>6. CASE EnterStep(d)
      BY <1>t, <2>1, <2>6 DEF EnterStep, Driver
    <2>7. CASE Escape(d) \/ TurnsUsedUp(d)
      BY <1>t, <2>1, <2>7 DEF Escape, TurnsUsedUp, Escaped, Driver
    <2>8. CASE ModelAnswers(d) \/ ModelCalls(d)
      <3> DEFINE b == Booked(dr[d], Cost[At(d)])
      <3>1. b \in Driver /\ b.step = At(d)
        BY <1>t, BookedType, WorkflowAssumption
      <3>2. ASSUME NEW v \in Outcomes(At(d), Args(d)) PROVE StepDone(Stored(b, v)).pc \in {"commit", "fail"}
        <4>1. v \in Values
          BY <1>0, <1>t, ActiveType, FunctionAssumption
        <4>2. Stored(b, v) \in Driver
          BY <1>t, <3>1, <4>1, StoredType
        <4> QED BY <4>2, StepDoneType
      <3>3. \A n \in 1 .. MaxCalls : Asked(b, n).pc = "call"
        BY <3>1, AskedType, WorkflowAssumption
      <3> QED BY <2>1, <2>8, <3>2, <3>3 DEF ModelAnswers, ModelCalls
    <2>12. CASE RefuseCall(d)
      <3>1. dr[d].left > 0
        BY <1>t, <2>12 DEF RefuseCall, TypeOK, DriverTypeOK
      <3> QED BY <1>t, <2>1, <2>12, <3>1, AnsweredType DEF RefuseCall
    <2>9. CASE RunBranch(d)
      BY <1>t, <2>1, <2>9, StepDoneType DEF RunBranch
    <2>10. CASE ReplayTool(d)
      <3>1. PICK x : dr'[d] = StepDone(x)
        BY <2>1, <2>10 DEF ReplayTool
      <3> QED BY <1>p, <2>10, <3>1 DEF StepDone, Driver
    <2>11. CASE RecordTool(d)
      <3>1. PICK x : dr'[d] = StepDone(x)
        BY <2>1, <2>11 DEF RecordTool
      <3> QED BY <1>p, <2>11, <3>1 DEF StepDone, Driver
    <2> QED BY <2>3, <2>4, <2>5, <2>6, <2>7, <2>8, <2>9, <2>10, <2>11, <2>12
  <1>2. GatedDriver(granted, dr'[d])
    BY <1>1, HarmlessDriver
  <1> QED BY <1>p, <1>u, <1>1, <1>2, QuietStep

\* The step handlers up to the gate, and _await_approval without an answer.
LEMMA GateStep ==
  ASSUME Governed, TypeOK', NEW d \in Drivers, RunApproval(d) \/ GateTool(d) \/ CheckApproval(d)
  PROVE  Governed'
  <1>0. Active(dr[d])
    BY DEF Active, RunApproval, GateTool, CheckApproval
  <1>t. /\ dr[d] \in Driver /\ At(d) \in Steps /\ dr[d].step = At(d) /\ TypeOK
        /\ dr[d].run \in RunIds /\ Args(d) \in Slot /\ Args(d) = ArgsOf(dr[d])
    BY <1>0, ActiveType DEF At, Governed, Args, ArgsOf, Mem
  <1>u. UNCHANGED <<posted, inflight, granted, approvals>>
    BY DEF RunApproval, GateTool, CheckApproval, storeVars, envVars
  <1>1. CASE RunApproval(d)
    <2> DEFINE x == [dr[d] EXCEPT !.pc = "await"]
    <2>1. x.pc = "await" /\ NodeType[x.step] # "tool"
      BY <1>t, <1>1 DEF RunApproval, Driver
    <2>2. GatedDriver(granted, x)
      BY <2>1 DEF GatedDriver
    <2>3. Put(d, x)
      BY <1>1 DEF RunApproval
    <2> QED BY <1>u, <2>1, <2>2, <2>3, QuietStep
  <1>2. CASE GateTool(d)
    <2> DEFINE n == Noted(dr[d], "policy_decision")
               e == Decide(At(d), Args(d))
               x == Gate(n, e)
    <2>1. n \in Driver /\ n.run = dr[d].run /\ n.step = At(d) /\ n.mem = dr[d].mem
      BY <1>t DEF Noted, Driver, Batch, AuditTypes
    <2>2. e \in PolicyEffect
      BY <1>t, FunctionAssumption
    <2>3. ArgsOf(n) = Args(d)
      BY <1>t, <2>1 DEF ArgsOf
    <2>4. /\ x.pc \in {"fail", "await", "execute"}
          /\ x.pc = "await" => e = "require_approval"
          /\ x.pc = "execute" => e = "allow"
          /\ x.step = At(d) /\ x.mem = n.mem
      <3> HIDE DEF n, e
      <3> QED BY <2>1, <2>2 DEF Gate, Denied, PolicyEffect, Driver
    <2>5. ArgsOf(x) = Args(d)
      BY <1>t, <2>1, <2>4 DEF ArgsOf
    <2>6. GatedDriver(granted, x)
      <3> HIDE DEF x
      <3> QED BY <2>4, <2>5 DEF GatedDriver, Permitted
    <2>7. Put(d, x)
      BY <1>2 DEF GateTool
    <2> QED BY <1>u, <2>4, <2>6, <2>7, QuietStep
  <1>3. CASE CheckApproval(d)
    <2>1. CASE Put(d, [dr[d] EXCEPT !.pc = "request"])
      <3> DEFINE x == [dr[d] EXCEPT !.pc = "request"]
      <3>1. x.pc = "request" /\ x.step = dr[d].step /\ x.mem = dr[d].mem
        BY <1>t DEF Driver
      <3>2. dr[d].pc = "await" /\ GatedDriver(granted, dr[d])
        BY <1>3 DEF CheckApproval, Governed, GatedDrivers
      <3>3. GatedDriver(granted, x)
        BY <3>1, <3>2 DEF GatedDriver, ArgsOf
      <3> QED BY <1>u, <2>1, <3>1, <3>3, QuietStep
    <2>2. ASSUME NEW a \in Latest(dr[d].run, At(d)),
                 Put(d, IF approvals[a].status = "pending" THEN [dr[d] EXCEPT !.pc = "pause"]
                        ELSE Decided(dr[d], approvals[a].status))
          PROVE  Governed'
      <3> DEFINE x == IF approvals[a].status = "pending" THEN [dr[d] EXCEPT !.pc = "pause"]
                      ELSE Decided(dr[d], approvals[a].status)
      <3>1. x.step = dr[d].step /\ x.mem = dr[d].mem /\ x.run = dr[d].run
        BY <1>t DEF Decided, Proceed, Denied, StepDone, Driver
      <3>2. /\ x.pc \in {"pause", "fail", "commit", "execute"}
            /\ x.pc = "execute" => approvals[a].status = "approved" /\ NodeType[dr[d].step] = "tool"
        BY <1>t DEF Decided, Proceed, Denied, StepDone, Driver
      <3>3. dr[d].pc = "await" /\ GatedDriver(granted, dr[d])
        BY <1>3 DEF CheckApproval, Governed, GatedDrivers
      <3>4. CASE x.pc # "execute"
        BY <1>u, <2>2, <3>2, <3>4, HarmlessDriver, QuietStep
      <3>5. CASE x.pc = "execute"
        <4>1. a \in 1 .. Len(approvals) /\ approvals[a].run = dr[d].run /\ approvals[a].step = At(d)
          BY <2>2 DEF Latest, RequestsFor
        <4>2. <<dr[d].run, At(d), approvals[a].shown>> \in granted
          BY <3>2, <3>5, <4>1 DEF Governed, ApprovedIsGranted
        <4>3. approvals[a].shown \in Slot
          <5>1. approvals[a] \in ApprovalRow
            BY <4>1, <1>t DEF TypeOK, StoreTypeOK
          <5> QED BY <5>1 DEF ApprovalRow
        <4>4. Decide(At(d), Args(d)) = "require_approval"
          BY <1>t, <3>2, <3>3, <3>5 DEF GatedDriver
        <4>5. ArgsOf(x) = Args(d) /\ x.step = At(d) /\ x.run = dr[d].run
          BY <1>t, <3>1 DEF ArgsOf
        <4>6. GatedDriver(granted, x)
          <5> HIDE DEF x
          <5> QED BY <3>5, <4>2, <4>3, <4>4, <4>5 DEF GatedDriver, Permitted
        <4> QED BY <1>u, <2>2, <3>5, <4>6, QuietStep
      <3> QED BY <3>4, <3>5
    <2> QED BY <1>3, <2>1, <2>2 DEF CheckApproval
  <1> QED BY <1>1, <1>2, <1>3

\* A new request is pending, so it grants nothing.
LEMMA NewRequest ==
  ASSUME TypeOK, ApprovedIsGranted, UNCHANGED granted, NEW r, NEW s, NEW shown,
         CreateApproval(r, s, shown)
  PROVE  /\ ApprovedIsGranted' /\ Extends(approvals, approvals')
         /\ LET a == Len(approvals) + 1
            IN  /\ a \in 1 .. Len(approvals') /\ approvals'[a].run = r
                /\ approvals'[a].step = s /\ approvals'[a].shown = shown
  <1> DEFINE row == [tenant |-> runs[r].tenant, run |-> r, step |-> s,
                     status |-> "pending", shown |-> shown]
  <1>1. approvals' = Append(approvals, row) /\ approvals \in Seq(ApprovalRow)
    BY DEF CreateApproval, TypeOK, StoreTypeOK
  <1>2. /\ Len(approvals') = Len(approvals) + 1 /\ Len(approvals) \in Nat
        /\ approvals'[Len(approvals) + 1] = row
        /\ \A a \in 1 .. Len(approvals) : approvals'[a] = approvals[a]
    <2> HIDE DEF row
    <2> QED BY <1>1
  <1>3. Extends(approvals, approvals')
    BY <1>2 DEF Extends
  <1>4. ASSUME NEW a \in 1 .. Len(approvals'), approvals'[a].status = "approved"
        PROVE  <<approvals'[a].run, approvals'[a].step, approvals'[a].shown>> \in granted'
    <2>1. a \in 1 .. Len(approvals) /\ approvals'[a] = approvals[a]
      BY <1>2, <1>4
    <2> QED BY <1>4, <2>1 DEF ApprovedIsGranted
  <1>5. ApprovedIsGranted'
    BY <1>4 DEF ApprovedIsGranted
  <1> QED BY <1>2, <1>3, <1>5

\* An answer grants what the answered row is a request for.
LEMMA AnsweredRequest ==
  ASSUME TypeOK, ApprovedIsGranted, NEW t, NEW a, NEW ok \in BOOLEAN, ResolveApproval(t, a, ok),
         granted \subseteq granted',
         ok => <<approvals[a].run, approvals[a].step, approvals[a].shown>> \in granted'
  PROVE  ApprovedIsGranted' /\ Extends(approvals, approvals')
  <1> DEFINE row == [approvals[a] EXCEPT !.status = IF ok THEN "approved" ELSE "rejected"]
  <1>1. /\ approvals' = [approvals EXCEPT ![a] = row]
        /\ approvals \in Seq(ApprovalRow) /\ a \in 1 .. Len(approvals)
    BY DEF ResolveApproval, TypeOK, StoreTypeOK
  <1>2. /\ Len(approvals') = Len(approvals) /\ approvals'[a] = row
        /\ \A b \in 1 .. Len(approvals) : b # a => approvals'[b] = approvals[b]
    <2> HIDE DEF row
    <2> QED BY <1>1
  <1>3. /\ row.run = approvals[a].run /\ row.step = approvals[a].step
        /\ row.shown = approvals[a].shown
        /\ row.status = "approved" => ok
    <2>1. approvals[a] \in ApprovalRow
      BY <1>1
    <2> QED BY <2>1 DEF ApprovalRow
  <1>4. Extends(approvals, approvals')
    <2> HIDE DEF row
    <2> QED BY <1>2, <1>3 DEF Extends
  <1>5. ASSUME NEW b \in 1 .. Len(approvals'), approvals'[b].status = "approved"
        PROVE  <<approvals'[b].run, approvals'[b].step, approvals'[b].shown>> \in granted'
    <2> HIDE DEF row
    <2>1. CASE b = a
      BY <1>2, <1>3, <1>5, <2>1
    <2>2. CASE b # a
      BY <1>2, <1>5, <2>2 DEF ApprovedIsGranted
    <2> QED BY <2>1, <2>2
  <1>6. ApprovedIsGranted'
    BY <1>5 DEF ApprovedIsGranted
  <1> QED BY <1>4, <1>6

\* Steps that create or answer a request.
LEMMA ApprovalStep ==
  ASSUME Governed, TypeOK', NEW d \in Drivers, NEW x, Put(d, x), GatedDriver(granted', x),
         OwnRequest(approvals', x), Extends(approvals, approvals'), ApprovedIsGranted',
         granted \subseteq granted', UNCHANGED <<posted, inflight>>
  PROVE  Governed'
  <1>1. GatedDrivers' /\ Asking'
    BY GatedPut, AskingPut DEF Governed
  <1>2. GatedCalls' /\ GatedPostings'
    BY GatedCallsStay, GatedPostingsStay DEF Governed
  <1> QED BY <1>1, <1>2 DEF Governed

\* Asking for an approval: a pending row, and the asker owns it.
LEMMA RequestStep ==
  ASSUME Governed, TypeOK', NEW d \in Drivers, RequestApproval(d) \/ AskApproval(d)
  PROVE  Governed'
  <1>0. Active(dr[d])
    BY DEF Active, RequestApproval, AskApproval
  <1>t. /\ dr[d] \in Driver /\ dr[d].step = At(d) /\ TypeOK /\ dr[d].buf \in Batch
        /\ Shown(d) = ShownBy(dr[d]) /\ ApprovedIsGranted /\ GatedDriver(granted, dr[d])
    BY <1>0, ActiveType
       DEF At, Governed, Args, ArgsOf, Mem, Shown, ShownBy, GatedDrivers
  <1>u. CreateApproval(dr[d].run, At(d), Shown(d)) /\ UNCHANGED <<posted, inflight, granted>>
    BY DEF RequestApproval, AskApproval, envVars
  <1>n. /\ ApprovedIsGranted' /\ Extends(approvals, approvals')
        /\ LET a == Len(approvals) + 1
           IN  /\ a \in 1 .. Len(approvals') /\ approvals'[a].run = dr[d].run
               /\ approvals'[a].step = At(d) /\ approvals'[a].shown = Shown(d)
    BY <1>t, <1>u, NewRequest
  <1>1. CASE RequestApproval(d)
    <2> DEFINE x == [dr[d] EXCEPT !.pc = "pause", !.buf.announced = @ \cup {Len(approvals) + 1}]
    <2>1. Put(d, x) /\ x.pc = "pause"
      BY <1>t, <1>1 DEF RequestApproval, Driver
    <2> HIDE DEF x
    <2>2. GatedDriver(granted', x) /\ OwnRequest(approvals', x)
      BY <2>1, HarmlessDriver DEF OwnRequest
    <2> QED BY <1>n, <1>u, <2>1, <2>2, ApprovalStep
  <1>2. CASE AskApproval(d)
    <2> DEFINE x == [dr[d] EXCEPT !.pc = "asked", !.ask = Len(approvals) + 1,
                                  !.buf.announced = @ \cup {Len(approvals) + 1}]
    <2>1. /\ Put(d, x) /\ x.pc = "asked" /\ x.ask = Len(approvals) + 1
          /\ x.run = dr[d].run /\ x.step = dr[d].step /\ x.mem = dr[d].mem
      BY <1>t, <1>2 DEF AskApproval, Driver
    <2> HIDE DEF x
    <2>2. GatedDriver(granted', x)
      BY <1>2, <1>t, <1>u, <2>1 DEF AskApproval, GatedDriver, ArgsOf
    <2>3. OwnRequest(approvals', x)
      BY <1>n, <1>t, <2>1 DEF OwnRequest, ShownBy, ArgsOf
    <2> QED BY <1>n, <1>u, <2>1, <2>2, <2>3, ApprovalStep
  <1> QED BY <1>1, <1>2

\* Answering one: the grant is recorded with the row it approves.
LEMMA AnswerStep ==
  ASSUME Governed, TypeOK', NEW d \in Drivers,
         \/ \E ok \in BOOLEAN : AnswerApproval(d, ok)
         \/ \E a \in 1 .. Len(approvals), ok \in BOOLEAN : ResolveCommit(d, a, ok)
  PROVE  Governed'
  <1>t. TypeOK /\ ApprovedIsGranted /\ dr[d] \in Driver
    BY DEF Governed, TypeOK, DriverTypeOK
  <1>1. ASSUME NEW a \in 1 .. Len(approvals), NEW ok \in BOOLEAN, ResolveCommit(d, a, ok)
        PROVE  Governed'
    <2>1. ApprovedIsGranted' /\ Extends(approvals, approvals')
      BY <1>1, <1>t, AnsweredRequest DEF ResolveCommit
    <2> DEFINE x == Begin(dr[d].run, dr[d].mem)
    <2>2. Put(d, x) /\ granted \subseteq granted' /\ UNCHANGED <<posted, inflight>>
      BY <1>1 DEF ResolveCommit
    <2>3. x.pc \in {"idle", "loop"}
      <3>1. dr[d].pc # "idle" /\ dr[d].run \in RunIds /\ dr[d].mem \in RunState
        BY <1>1, <1>t DEF ResolveCommit, TypeOK, DriverTypeOK, StoreTypeOK, Driver
      <3> QED BY <3>1, BeginType
    <2>4. GatedDriver(granted', x) /\ OwnRequest(approvals', x)
      BY <2>3, HarmlessDriver DEF OwnRequest
    <2> QED BY <2>1, <2>2, <2>4, ApprovalStep
  <1>2. ASSUME NEW ok \in BOOLEAN, AnswerApproval(d, ok) PROVE Governed'
    <2>0. /\ dr[d].pc = "asked" /\ Active(dr[d]) /\ OwnRequest(approvals, dr[d])
          /\ GatedDriver(granted, dr[d])
      BY <1>2 DEF AnswerApproval, Active, Governed, Asking, GatedDrivers
    <2>t. At(d) \in Steps /\ dr[d].run \in RunIds /\ Shown(d) \in Slot /\ dr[d].step = At(d)
      BY <1>t, <2>0, ActiveType DEF At
    <2>s. Shown(d) = ShownBy(dr[d])
      BY DEF Shown, ShownBy, Args, ArgsOf, Mem, At
    <2>g. granted \subseteq granted' /\ (ok => <<dr[d].run, At(d), Shown(d)>> \in granted')
      BY <1>2 DEF AnswerApproval
    <2>1. ApprovedIsGranted' /\ Extends(approvals, approvals')
      <3>1. ResolveApproval(runs[dr[d].run].tenant, dr[d].ask, ok)
        BY <1>2 DEF AnswerApproval
      <3>2. /\ approvals[dr[d].ask].run = dr[d].run /\ approvals[dr[d].ask].step = At(d)
            /\ approvals[dr[d].ask].shown = Shown(d)
        BY <2>0, <2>s, <2>t DEF OwnRequest
      <3> QED BY <1>t, <2>g, <3>1, <3>2, AnsweredRequest
    <2> DEFINE y == [dr[d] EXCEPT !.ask = 0]
               x == Decided(y, IF ok THEN "approved" ELSE "rejected")
    <2>2. y \in Driver /\ y.run = dr[d].run /\ y.step = At(d) /\ y.mem = dr[d].mem
      BY <1>t, <2>t DEF Driver
    <2>3. /\ x.step = At(d) /\ x.mem = dr[d].mem /\ x.run = dr[d].run
          /\ x.pc \in {"fail", "commit", "execute"}
          /\ x.pc = "execute" => ok /\ NodeType[At(d)] = "tool"
      <3> HIDE DEF y
      <3> QED BY <2>2 DEF Decided, Proceed, Denied, StepDone, Driver
    <2>4. GatedDriver(granted', x)
      <3> HIDE DEF x
      <3>1. CASE x.pc # "execute"
        BY <2>3, <3>1, HarmlessDriver
      <3>2. CASE x.pc = "execute"
        <4>1. Decide(At(d), ArgsOf(x)) = "require_approval"
          BY <2>0, <2>3, <2>t, <3>2 DEF GatedDriver, ArgsOf
        <4> QED BY <2>3, <2>g, <2>t, <3>2, <4>1 DEF GatedDriver, Permitted
      <3> QED BY <3>1, <3>2
    <2>5. OwnRequest(approvals', x)
      <3> HIDE DEF x
      <3> QED BY <2>3 DEF OwnRequest
    <2>6. Put(d, x) /\ UNCHANGED <<posted, inflight>>
      BY <1>2 DEF AnswerApproval
    <2> QED BY <2>1, <2>4, <2>5, <2>6, <2>g, ApprovalStep
  <1> QED BY <1>1, <1>2

\* Calls that leave or reach the connectors.
LEMMA ExecuteStep ==
  ASSUME Governed, TypeOK', NEW d \in Drivers, ExecuteOk(d) \/ ExecuteFail(d)
  PROVE  Governed'
  <1>0. dr[d].pc = "execute" /\ Active(dr[d])
    BY DEF Active, ExecuteOk, ExecuteFail
  <1>t. /\ dr[d] \in Driver /\ At(d) \in Steps /\ dr[d].step = At(d) /\ TypeOK
        /\ Key(d) \in EffectKeys /\ Args(d) \in Slot /\ Args(d) = ArgsOf(dr[d])
        /\ Key(d)[1] = dr[d].run /\ Key(d)[2] = At(d)
    BY <1>0, ActiveType DEF At, Governed, Args, ArgsOf, Mem, Key
  <1>p. Permitted(granted, Key(d)[1], Key(d)[2], Args(d))
    BY <1>0, <1>t DEF Governed, GatedDrivers, GatedDriver
  <1>u. UNCHANGED <<granted, approvals>>
    BY DEF ExecuteOk, ExecuteFail, storeVars
  <1>1. GatedCalls'
    <2>1. PICK l \in Left(Key(d), Args(d)) : inflight' = inflight \cup l
      BY DEF ExecuteOk, ExecuteFail, Left
    <2>2. \A c \in l : c[1] = Key(d) /\ c[2] = Args(d)
      BY LeftCalls
    <2> QED BY <1>p, <1>u, <2>1, <2>2 DEF Governed, GatedCalls
  <1>2. GatedPostings'
    <2>1. CASE UNCHANGED posted
      BY <1>u, <2>1, GatedPostingsStay DEF Governed
    <2>2. ASSUME NEW v \in Replies(Key(d), Args(d)), Post(Key(d), Args(d), v)
          PROVE  GatedPostings'
      <3>1. v \in Values
        BY <1>t, PostType DEF TypeOK
      <3> QED BY <1>p, <1>t, <1>u, <2>2, <3>1, GatedPost DEF Governed
    <2> QED BY <2>1, <2>2 DEF ExecuteOk, ExecuteFail
  <1>3. GatedDrivers' /\ Asking'
    <2>1. PICK x : Put(d, x) /\ x.pc \notin {"execute", "await", "request", "asked"}
      <3>1. ASSUME NEW v \in Values
            PROVE  /\ [dr[d] EXCEPT !.pc = "record", !.out = v].pc = "record"
                   /\ StepDone(Stored(Noted(Booked(dr[d], Cost[At(d)]), "tool_result"), v)).pc
                        \in {"commit", "fail"}
        <4> DEFINE b == Booked(dr[d], Cost[At(d)])
                   n == Noted(b, "tool_result")
                   w == Stored(n, v)
        <4>1. b \in Driver /\ b.step = At(d)
          BY <1>t, BookedType, WorkflowAssumption
        <4>2. n \in Driver /\ n.step = At(d)
          <5> HIDE DEF b
          <5> QED BY <1>t, <4>1, NotedType DEF AuditTypes
        <4>3. w \in Driver
          <5> HIDE DEF n
          <5> QED BY <1>t, <4>2, StoredType
        <4>4. StepDone(w).pc \in {"commit", "fail"}
          <5> HIDE DEF w
          <5> QED BY <4>3, StepDoneType
        <4> QED BY <1>t, <4>4 DEF Driver
      <3>2. \A v \in Replies(Key(d), Args(d)) : v \in Values
        BY <1>t, PostType DEF TypeOK
      <3>3. ConnectorFailed(dr[d]).pc \in {"step", "fail"}
        BY <1>t, ConnectorFailedType
      <3>4. CASE ExecuteFail(d)
        BY <3>3, <3>4 DEF ExecuteFail
      <3>5. CASE ExecuteOk(d)
        <4>1. PICK v \in Replies(Key(d), Args(d)) :
                 \/ Put(d, [dr[d] EXCEPT !.pc = "record", !.out = v])
                 \/ Put(d, StepDone(Stored(Noted(Booked(dr[d], Cost[At(d)]), "tool_result"), v)))
          BY <3>5 DEF ExecuteOk
        <4> QED BY <3>1, <3>2, <4>1
      <3> QED BY <3>4, <3>5
    <2>2. GatedDriver(granted', x) /\ OwnRequest(approvals', x) /\ Extends(approvals, approvals')
      BY <1>u, <2>1, HarmlessDriver DEF OwnRequest, Extends
    <2> QED BY <1>t, <1>u, <2>1, <2>2, GatedPut, AskingPut DEF Governed
  <1>4. ApprovedIsGranted'
    BY <1>u DEF Governed, ApprovedIsGranted
  <1> QED BY <1>1, <1>2, <1>3, <1>4 DEF Governed

\* An agent's call is executed only when the policy allows it outright.
LEMMA AgentCallStep ==
  ASSUME Governed, TypeOK', NEW d \in Drivers, ExecuteCall(d) \/ FailCall(d)
  PROVE  Governed'
  <1>0. Active(dr[d]) /\ dr[d].left > 0
    BY DEF Active, ExecuteCall, FailCall, Governed, TypeOK, DriverTypeOK
  <1>t. /\ dr[d] \in Driver /\ At(d) \in Steps /\ dr[d].step = At(d) /\ TypeOK
        /\ Key(d) \in EffectKeys /\ Key(d)[2] = At(d)
        /\ AgentOf[At(d)].cost \in Nat /\ AgentOf[At(d)].calls \subseteq Slot
    BY <1>0, ActiveType, WorkflowAssumption DEF At, Governed, Agent, Slot
  <1>u. UNCHANGED <<granted, approvals>>
    BY DEF ExecuteCall, FailCall, storeVars
  <1>1. PICK a \in AgentOf[At(d)].calls :
          /\ AgentMay(At(d), a)
          /\ \/ \E v \in Replies(Key(d), a) : Post(Key(d), a, v)
             \/ UNCHANGED posted
          /\ \E l \in Left(Key(d), a) : inflight' = inflight \cup l
    BY DEF ExecuteCall, FailCall, Left
  <1>p. Permitted(granted, Key(d)[1], Key(d)[2], a)
    BY <1>t, <1>1 DEF AgentMay, Permitted
  <1>2. GatedCalls'
    <2>1. PICK l \in Left(Key(d), a) : inflight' = inflight \cup l
      BY <1>1
    <2>2. \A c \in l : c[1] = Key(d) /\ c[2] = a
      BY LeftCalls
    <2> QED BY <1>p, <1>u, <2>1, <2>2 DEF Governed, GatedCalls
  <1>3. GatedPostings'
    <2>1. CASE UNCHANGED posted
      BY <1>u, <2>1, GatedPostingsStay DEF Governed
    <2>2. ASSUME NEW v \in Replies(Key(d), a), Post(Key(d), a, v) PROVE GatedPostings'
      <3>1. v \in Values /\ a \in Slot
        BY <1>t, PostType DEF TypeOK
      <3> QED BY <1>p, <1>t, <1>u, <2>2, <3>1, GatedPost DEF Governed
    <2> QED BY <1>1, <2>1, <2>2
  <1>4. GatedDrivers' /\ Asking'
    <2> DEFINE b == Booked(dr[d], AgentOf[At(d)].cost)
    <2>1. b \in Driver /\ b.left > 0
      BY <1>0, <1>t, BookedType
    <2>2. Answered(b).pc \in {"call", "step"}
      <3> HIDE DEF b
      <3> QED BY <2>1, AnsweredType
    <2>3. ConnectorFailed(dr[d]).pc \in {"step", "fail"}
      BY <1>t, ConnectorFailedType
    <2>4. PICK x : Put(d, x) /\ x.pc \notin {"execute", "await", "request", "asked"}
      BY <2>2, <2>3 DEF ExecuteCall, FailCall
    <2>5. GatedDriver(granted', x) /\ OwnRequest(approvals', x) /\ Extends(approvals, approvals')
      BY <1>u, <2>4, HarmlessDriver DEF OwnRequest, Extends
    <2> QED BY <1>t, <1>u, <2>4, <2>5, GatedPut, AskingPut DEF Governed
  <1>5. ApprovedIsGranted'
    BY <1>u DEF Governed, ApprovedIsGranted
  <1> QED BY <1>2, <1>3, <1>4, <1>5 DEF Governed

\* A timed-out call that lands posts what it was permitted to.
LEMMA LandStep ==
  ASSUME Governed, TypeOK', NEW c \in inflight, Land(c)
  PROVE  Governed'
  <1>t. c[1] \in EffectKeys /\ c[2] \in Slot /\ TypeOK /\ Permitted(granted, c[1][1], c[1][2], c[2])
    BY DEF Governed, TypeOK, EnvTypeOK, GatedCalls
  <1>u. UNCHANGED <<dr, granted, approvals>> /\ inflight' \subseteq inflight
    BY DEF Land, storeVars
  <1>1. PICK v \in Replies(c[1], c[2]) : Post(c[1], c[2], v)
    BY DEF Land
  <1>2. v \in Values
    BY <1>t, PostType DEF TypeOK
  <1>3. GatedPostings'
    BY <1>t, <1>u, <1>1, <1>2, GatedPost DEF Governed
  <1>4. GatedCalls'
    BY <1>u, GatedCallsStay DEF Governed
  <1>5. GatedDrivers' /\ ApprovedIsGranted' /\ Asking'
    BY <1>u DEF Governed, GatedDrivers, ApprovedIsGranted, Asking
  <1> QED BY <1>3, <1>4, <1>5 DEF Governed

\* Steps that leave drivers, calls, grants and approvals alone: cancels,
\* purges, stuttering.
LEMMA StillStep ==
  ASSUME Governed, TypeOK', UNCHANGED <<dr, posted, inflight, granted, approvals>>
  PROVE  Governed'
  BY DEF Governed, GatedDrivers, GatedCalls, GatedPostings, ApprovedIsGranted, Asking

\* Governed is inductive.
LEMMA GovernedStep == Governed /\ [Next]_vars => Governed'
  <1> SUFFICES ASSUME Governed, [Next]_vars PROVE Governed'
    OBVIOUS
  <1>t. TypeOK'
    BY TypeStep DEF Governed
  <1>1. CASE \/ UNCHANGED vars \/ \E r \in RunIds : Cancel(r)
             \/ \E t \in Tenants, old \in SUBSET (1 .. Len(approvals)) : Purge(t, old)
    BY <1>t, <1>1, StillStep DEF vars, Cancel, CancelRun, Purge, PurgeEventPayloads
  <1>2. ASSUME NEW d \in Drivers, Request(d) PROVE Governed'
    BY <1>t, <1>2, QuietRequest, AnswerStep DEF Request
  <1>3. ASSUME NEW d \in Drivers, DriverStep(d) PROVE Governed'
    BY <1>t, <1>3, QuietRequest, QuietDriver, GateStep, RequestStep, AnswerStep, ExecuteStep,
       AgentCallStep
       DEF DriverStep
  <1>4. ASSUME NEW d \in Drivers, Crash(d) PROVE Governed'
    BY <1>t, <1>4, QuietRequest
  <1>5. CASE \E c \in inflight : Land(c)
    BY <1>t, <1>5, LandStep
  <1> QED BY <1>1, <1>2, <1>3, <1>4, <1>5 DEF Next

\* Governed holds at the start: nothing is posted, asked or granted.
LEMMA GovernedInit == Init => Governed
  <1> SUFFICES ASSUME Init PROVE Governed
    OBVIOUS
  <1>1. TypeOK
    BY InitType
  <1>2. GatedDrivers /\ Asking
    BY DEF Init, Idle, GatedDrivers, GatedDriver, Asking, OwnRequest
  <1>3. GatedCalls /\ GatedPostings /\ ApprovedIsGranted
    BY DEF Init, StoreInit, GatedCalls, GatedPostings, ApprovedIsGranted
  <1> QED BY <1>1, <1>2, <1>3 DEF Governed

\* Governed implies what is claimed of the external systems.
LEMMA GovernedImplies == Governed => NoUngatedPosting
  BY DEF Governed, GatedPostings, NoUngatedPosting, Postings, Permitted

\* Governance of side effects (workflow.py _run_tool and _await_approval, and
\* agent.py _exec_call): for every workflow, agent, policy, receiver and number
\* of drivers, whether a workflow step or a model makes the call, no external system
\* ever holds a posting the policy denies, nor one that needs an approval no
\* approver has granted for that run and step.
THEOREM Governance == Spec => []NoUngatedPosting
  <1>1. Init => Governed
    BY GovernedInit
  <1>2. Governed /\ [Next]_vars => Governed'
    BY GovernedStep
  <1>3. Governed => NoUngatedPosting
    BY GovernedImplies
  <1> QED BY <1>1, <1>2, <1>3, PTL DEF Spec

-----------------------------------------------------------------------------
(* What is on file: the requests in the approvals table p, with what each  *)
(* has shown to the approver.                                              *)

Filed(p) == {<<p[a].run, p[a].step, p[a].shown>> : a \in 1 .. Len(p)}

\* create_approval files one request.
LEMMA FileOne ==
  ASSUME TypeOK, NEW r, NEW s, NEW shown, CreateApproval(r, s, shown)
  PROVE  Filed(approvals') = Filed(approvals) \cup {<<r, s, shown>>}
  <1> DEFINE row == [tenant |-> runs[r].tenant, run |-> r, step |-> s, status |-> "pending",
                     shown |-> shown]
             n == Len(approvals)
  <1>1. row.run = r /\ row.step = s /\ row.shown = shown
    OBVIOUS
  <1>2. approvals' = Append(approvals, row) /\ approvals \in Seq(ApprovalRow)
    BY DEF CreateApproval, TypeOK, StoreTypeOK
  <1> HIDE DEF row
  <1>3. /\ Len(approvals') = n + 1 /\ n \in Nat /\ approvals'[n + 1] = row
        /\ \A a \in 1 .. n : approvals'[a] = approvals[a]
    BY <1>2
  <1>4. 1 .. (n + 1) = (1 .. n) \cup {n + 1}
    BY <1>3
  <1> HIDE DEF n
  <1> QED BY <1>1, <1>3, <1>4 DEF Filed, n

\* resolve_approval files none and withdraws none.
LEMMA FileNone ==
  ASSUME TypeOK, NEW t, NEW a, NEW ok, ResolveApproval(t, a, ok)
  PROVE  Filed(approvals') = Filed(approvals)
  <1> DEFINE status == IF ok THEN "approved" ELSE "rejected"
             row == [approvals[a] EXCEPT !.status = status]
  <1>1. /\ approvals \in Seq(ApprovalRow) /\ a \in 1 .. Len(approvals)
        /\ approvals' = [approvals EXCEPT ![a] = row]
    BY DEF ResolveApproval, TypeOK, StoreTypeOK
  <1>2. row.run = approvals[a].run /\ row.step = approvals[a].step /\ row.shown = approvals[a].shown
    <2>1. approvals[a] \in ApprovalRow
      BY <1>1
    <2> HIDE DEF status
    <2> QED BY <2>1 DEF ApprovalRow
  <1> HIDE DEF row
  <1>3. /\ Len(approvals') = Len(approvals) /\ approvals'[a] = row
        /\ \A b \in 1 .. Len(approvals) : b # a => approvals'[b] = approvals[b]
    BY <1>1
  <1> QED BY <1>1, <1>2, <1>3 DEF Filed

\* What the moves of a driver file and grant.
LEMMA MoveFiles ==
  ASSUME TypeOK, NEW d \in Drivers, Moves(d)
  PROVE  /\ granted \subseteq granted' /\ UNCHANGED crashes
         /\ \/ Filed(approvals') = Filed(approvals)
            \/ /\ dr[d].pc \in {"await", "request"}
               /\ Filed(approvals') = Filed(approvals) \cup {<<dr[d].run, dr[d].step, ShownBy(dr[d])>>}
               /\ AsyncApprovals => dr'[d].pc = "pause" /\ dr'[d].buf.announced # {}
         /\ dr'[d].pc = "request" => AsyncApprovals
         /\ dr'[d].pc = "pause" => AsyncApprovals \/ dr[d].pc = "request"
  <1>0. Active(dr[d])
    BY MoveView DEF Moved, Active, Gating
  <1>t. dr[d] \in Driver /\ At(d) \in Steps /\ dr[d].step = At(d) /\ dr[d].buf \in Batch
    BY <1>0, ActiveType DEF At
  <1>s. Shown(d) = ShownBy(dr[d])
    BY DEF Shown, ShownBy, Args, ArgsOf, Mem, At
  <1>p. \A y : Put(d, y) => dr'[d] = y
    BY PutView
  <1>g. granted \subseteq granted' /\ UNCHANGED crashes
    BY DEF Moves, EnterStep, Escape, TurnsUsedUp, RunBranch, RunApproval, GateTool, CheckApproval,
           RefuseCall, ExecuteFail, FailCall, RequestApproval, AskApproval, AnswerApproval, envVars
  <1>1. CASE \/ EnterStep(d) \/ Escape(d) \/ TurnsUsedUp(d) \/ RunBranch(d) \/ RunApproval(d)
             \/ RefuseCall(d) \/ ExecuteFail(d) \/ FailCall(d)
    <2>1. UNCHANGED approvals
      BY <1>1 DEF EnterStep, Escape, TurnsUsedUp, RunBranch, RunApproval, RefuseCall, ExecuteFail,
                  FailCall, storeVars
    <2>2. dr'[d].pc \notin {"request", "pause"}
      <3>1. CASE EnterStep(d)
        BY <1>p, <1>t, <3>1 DEF EnterStep, Driver
      <3>2. CASE Escape(d) \/ TurnsUsedUp(d)
        BY <1>p, <1>t, <3>2 DEF Escape, TurnsUsedUp, Escaped, Driver
      <3>3. CASE RunBranch(d)
        BY <1>p, <1>t, <3>3, StepDoneType DEF RunBranch
      <3>4. CASE RunApproval(d)
        BY <1>p, <1>t, <3>4 DEF RunApproval, Driver
      <3>5. CASE RefuseCall(d)
        <4>1. dr[d].left > 0
          BY <3>5 DEF RefuseCall, TypeOK, DriverTypeOK
        <4> QED BY <1>p, <1>t, <3>5, <4>1, AnsweredType DEF RefuseCall
      <3>6. CASE ExecuteFail(d) \/ FailCall(d)
        BY <1>p, <1>t, <3>6, ConnectorFailedType DEF ExecuteFail, FailCall
      <3> QED BY <1>1, <3>1, <3>2, <3>3, <3>4, <3>5, <3>6
    <2> QED BY <1>g, <2>1, <2>2
  <1>2. CASE GateTool(d)
    <2> DEFINE n == Noted(dr[d], "policy_decision")
               e == Decide(At(d), Args(d))
    <2>1. n \in Driver
      BY <1>t, NotedType DEF AuditTypes
    <2>2. e \in PolicyEffect
      BY <1>0, <1>t, ActiveType, FunctionAssumption
    <2>3. dr'[d] = Gate(n, e) /\ UNCHANGED approvals
      BY <1>2, <1>p DEF GateTool, storeVars
    <2> HIDE DEF n, e
    <2>4. dr'[d].pc \in {"fail", "await", "execute"}
      BY <2>1, <2>2, <2>3 DEF Gate, Denied, PolicyEffect, Driver
    <2> QED BY <1>g, <2>3, <2>4
  <1>3. CASE CheckApproval(d)
    BY <1>3, <1>g DEF CheckApproval, storeVars
  <1>4. CASE RequestApproval(d)
    <2> DEFINE b == [dr[d].buf EXCEPT !.announced = @ \cup {Len(approvals) + 1}]
               y == [dr[d] EXCEPT !.pc = "pause", !.buf = b]
    <2>1. b.announced # {}
      BY <1>t DEF Batch
    <2>2. Put(d, y)
      BY <1>4, <1>t DEF RequestApproval, Driver
    <2>3. y.pc = "pause" /\ y.buf = b
      <3> HIDE DEF b
      <3> QED BY <1>t DEF Driver
    <2>4. dr'[d] = y
      BY <1>p, <2>2
    <2> HIDE DEF y, b
    <2>5. Filed(approvals') = Filed(approvals) \cup {<<dr[d].run, dr[d].step, ShownBy(dr[d])>>}
      BY <1>4, <1>s, <1>t, FileOne DEF RequestApproval
    <2>6. dr[d].pc = "request"
      BY <1>4 DEF RequestApproval
    <2> QED BY <1>g, <2>1, <2>3, <2>4, <2>5, <2>6
  <1>5. CASE AskApproval(d)
    <2>1. /\ ~AsyncApprovals /\ dr[d].pc = "await"
          /\ Filed(approvals') = Filed(approvals) \cup {<<dr[d].run, dr[d].step, ShownBy(dr[d])>>}
      BY <1>5, <1>s, <1>t, FileOne DEF AskApproval
    <2>2. dr'[d].pc = "asked"
      BY <1>5, <1>p, <1>t DEF AskApproval, Driver
    <2> QED BY <1>g, <2>1, <2>2
  <1>6. ASSUME NEW ok \in BOOLEAN, AnswerApproval(d, ok)
        PROVE  Filed(approvals') = Filed(approvals) /\ dr'[d].pc \notin {"request", "pause"}
    <2>1. Filed(approvals') = Filed(approvals)
      BY <1>6, FileNone DEF AnswerApproval
    <2> DEFINE y == [dr[d] EXCEPT !.ask = 0]
               z == IF ok THEN "approved" ELSE "rejected"
    <2>2. y \in Driver /\ dr'[d] = Decided(y, z)
      BY <1>6, <1>p, <1>t DEF AnswerApproval, Driver
    <2> HIDE DEF y, z
    <2>3. Decided(y, z).pc \in {"fail", "commit", "execute"}
      BY <2>2 DEF Decided, Proceed, Denied, StepDone, Driver
    <2> QED BY <2>1, <2>2, <2>3
  <1> QED BY <1>1, <1>2, <1>3, <1>4, <1>5, <1>6, <1>g DEF Moves

-----------------------------------------------------------------------------
(* Waiting runs are announced.  create_approval commits at once, while the *)
(* approval_requested event waits in the buffer for the checkpoint that    *)
(* pauses the run: in between, the request is on file and only the driver  *)
(* knows of it.                                                            *)

\* Driver x is about to announce the request it has made for run r.
Announces(x, r) == x.pc = "pause" /\ x.run = r /\ x.buf.announced # {}

\* Only asynchronous approvals pause a run.
PausesAreAsync == \A d \in Drivers : dr[d].pc \in {"request", "pause"} => AsyncApprovals

\* A request on file is announced, or about to be.
RequestsAnnounced ==
    (AsyncApprovals /\ crashes = 0) =>
        \A f \in Filed(approvals) : \/ f[1] \in RunIds /\ trace[f[1]].announced # {}
                                    \/ \E d \in Drivers : Announces(dr[d], f[1])

\* The inductive invariant.
Announced == Solo /\ PausesAreAsync /\ RequestsAnnounced /\ (crashes = 0 => WaitingIsAnnounced)

\* Nothing is filed, no driver about to announce is stopped, and no row
\* begins to wait.
LEMMA AnnouncedStays ==
  ASSUME Announced, Filed(approvals') = Filed(approvals), UNCHANGED <<crashes, trace>>,
         DOMAIN runs \subseteq DOMAIN runs',
         \A r \in DOMAIN runs' : runs'[r].st.status = "waiting_approval" =>
             r \in DOMAIN runs /\ runs[r].st.status = "waiting_approval",
         \A d \in Drivers : \/ dr'[d] = dr[d]
                            \/ dr[d].pc # "pause" /\ dr'[d].pc \notin {"request", "pause"}
  PROVE  PausesAreAsync' /\ RequestsAnnounced' /\ (crashes' = 0 => WaitingIsAnnounced')
  <1>1. PausesAreAsync'
    BY DEF Announced, PausesAreAsync
  <1>2. \A d \in Drivers : \A r : Announces(dr[d], r) => Announces(dr'[d], r)
    BY DEF Announces
  <1>3. RequestsAnnounced'
    BY <1>2 DEF Announced, RequestsAnnounced
  <1>4. crashes' = 0 => WaitingIsAnnounced'
    BY DEF Announced, WaitingIsAnnounced
  <1> QED BY <1>1, <1>3, <1>4

\* Requests.
LEMMA RequestAnnounced ==
  ASSUME Announced, NEW d \in Drivers, Request(d)
  PROVE  PausesAreAsync' /\ RequestsAnnounced' /\ (crashes' = 0 => WaitingIsAnnounced')
  <1>t. TypeOK
    BY DEF Announced, Solo, LifecycleInv
  <1>i. Idle.pc = "idle" /\ NewRun.status = "pending"
    BY DEF Idle, NewRun
  <1>1. dr[d].pc \in {"idle", "resolving"} /\ UNCHANGED <<trace, crashes>>
    BY <1>t, StartView, FireView DEF storeVars
  <1>2. dr'[d].pc \in {"idle", "loop", "resolving"} /\ \A e \in Drivers : e # d => dr'[e] = dr[e]
    <2>1. PICK y : Put(d, y) /\ y.pc \in {"idle", "loop", "resolving"}
      <3>1. \A r \in RunIds, st \in RunState : Begin(r, st).pc \in {"idle", "loop"}
        BY <1>i, BeginView
      <3>2. \A r, st : [Idle EXCEPT !.pc = "resolving", !.run = r, !.mem = st].pc = "resolving"
        BY DEF Idle
      <3>3. ASSUME NEW t \in Tenants, NEW k \in Keys, NEW r \in RunIds, Fire(d, t, k, r)
            PROVE  Put(d, Begin(r, NewRun)) /\ Begin(r, NewRun).pc \in {"idle", "loop"}
        BY <1>t, <3>1, <3>3, IdleType, FireView
      <3>4. ASSUME NEW r \in DOMAIN runs, runs[r].st \in RunState, r \in RunIds,
                   \/ Put(d, Begin(r, runs[r].st))
                   \/ Put(d, [Idle EXCEPT !.pc = "resolving", !.run = r, !.mem = runs[r].st])
            PROVE  \E y : Put(d, y) /\ y.pc \in {"idle", "loop", "resolving"}
        BY <3>1, <3>2, <3>4, Zenon
      <3>5. ASSUME dr[d].run \in RunIds, dr[d].mem \in RunState, Put(d, Begin(dr[d].run, dr[d].mem))
            PROVE  \E y : Put(d, y) /\ y.pc \in {"idle", "loop", "resolving"}
        BY <3>1, <3>5, Zenon
      <3> QED BY <1>t, <3>3, <3>4, <3>5, StartView, Zenon
    <2> QED BY <1>t, <2>1, PutView
  <1>3. Filed(approvals') = Filed(approvals)
    <2>1. ASSUME NEW a, NEW ok, ResolveCommit(d, a, ok) PROVE Filed(approvals') = Filed(approvals)
      BY <1>t, <2>1, FileNone DEF ResolveCommit
    <2>2. ASSUME NEW t, NEW k, NEW r, Fire(d, t, k, r) PROVE UNCHANGED approvals
      BY <2>2 DEF Fire, CreateRun
    <2>3. ASSUME NEW r, Resume(d, r) \/ ResolveLoad(d, r) PROVE UNCHANGED approvals
      BY <2>3 DEF Resume, ResolveLoad, storeVars
    <2> QED BY <2>1, <2>2, <2>3 DEF Request
  <1>4. /\ DOMAIN runs \subseteq DOMAIN runs'
        /\ \A r \in DOMAIN runs' : runs'[r].st.status = "waiting_approval" =>
               r \in DOMAIN runs /\ runs[r].st.status = "waiting_approval"
    <2>1. ASSUME NEW t \in Tenants, NEW k \in Keys, NEW r \in RunIds, Fire(d, t, k, r)
          PROVE  /\ DOMAIN runs' = DOMAIN runs \cup {r} /\ runs'[r].st = NewRun
                 /\ \A q \in DOMAIN runs : runs'[q] = runs[q]
      BY <1>t, <2>1, FireView
    <2>2. CASE UNCHANGED runs
      BY <2>2
    <2> QED BY <1>i, <1>t, <2>1, <2>2, StartView DEF storeVars
  <1> QED BY <1>1, <1>2, <1>3, <1>4, AnnouncedStays

\* Between two checkpoints: who files a request is about to announce it.
LEMMA WorkAnnounced ==
  ASSUME Announced, NEW d \in Drivers, Moves(d) \/ Works(d)
  PROVE  PausesAreAsync' /\ RequestsAnnounced' /\ (crashes' = 0 => WaitingIsAnnounced')
  <1>t. TypeOK /\ PausesAreAsync /\ RequestsAnnounced /\ (crashes = 0 => WaitingIsAnnounced)
    BY DEF Announced, Solo, LifecycleInv
  <1>1. /\ UNCHANGED <<runs, trace>> /\ Put(d, dr'[d]) /\ dr[d].pc # "pause"
        /\ dr'[d].run = dr[d].run
    BY <1>t, MoveView, WorkView DEF Moved, Worked, Gating
  <1>2. \A e \in Drivers : e # d => dr'[e] = dr[e]
    BY <1>t, <1>1, PutView
  <1>3. CASE Works(d)
    <2>1. UNCHANGED approvals /\ dr'[d].pc \notin {"request", "pause"}
      BY <1>t, <1>3, WorkView DEF Worked
    <2>2. UNCHANGED crashes
      BY <1>3 DEF Works, ModelAnswers, ModelCalls, ExecuteCall, ExecuteOk, RecordTool, ReplayTool,
                  envVars
    <2> QED BY <1>1, <1>2, <2>1, <2>2, AnnouncedStays
  <1>4. CASE Moves(d)
    <2>1. /\ UNCHANGED crashes
          /\ \/ Filed(approvals') = Filed(approvals)
             \/ /\ Filed(approvals') = Filed(approvals) \cup {<<dr[d].run, dr[d].step, ShownBy(dr[d])>>}
                /\ AsyncApprovals => dr'[d].pc = "pause" /\ dr'[d].buf.announced # {}
          /\ dr'[d].pc = "request" => AsyncApprovals
          /\ dr'[d].pc = "pause" => AsyncApprovals \/ dr[d].pc = "request"
      BY <1>t, <1>4, MoveFiles
    <2>2. PausesAreAsync'
      BY <1>t, <1>2, <2>1 DEF PausesAreAsync
    <2>3. \A e \in Drivers : \A r : Announces(dr[e], r) => Announces(dr'[e], r)
      BY <1>1, <1>2 DEF Announces
    <2>4. ASSUME AsyncApprovals, crashes' = 0, NEW f \in Filed(approvals')
          PROVE  \/ f[1] \in RunIds /\ trace'[f[1]].announced # {}
                 \/ \E e \in Drivers : Announces(dr'[e], f[1])
      <3>1. CASE f \in Filed(approvals)
        BY <1>t, <1>1, <2>1, <2>3, <2>4, <3>1 DEF RequestsAnnounced
      <3>2. CASE f \notin Filed(approvals)
        <4>1. f[1] = dr[d].run /\ dr'[d].pc = "pause" /\ dr'[d].buf.announced # {}
          BY <2>1, <2>4, <3>2
        <4> QED BY <1>1, <4>1 DEF Announces
      <3> QED BY <3>1, <3>2
    <2>5. RequestsAnnounced'
      BY <2>4 DEF RequestsAnnounced
    <2> QED BY <1>t, <1>1, <2>1, <2>2, <2>5 DEF WaitingIsAnnounced
  <1> QED BY <1>3, <1>4

\* Checkpoints: the one that pauses the run flushes the announcement.
LEMMA SaveAnnounced ==
  ASSUME Announced, NEW d \in Drivers, Saves(d)
  PROVE  PausesAreAsync' /\ RequestsAnnounced' /\ (crashes' = 0 => WaitingIsAnnounced')
  <1> DEFINE x == dr[d]
             r == x.run
  <1>t. /\ TypeOK /\ Solo /\ PausesAreAsync /\ RequestsAnnounced
        /\ (crashes = 0 => WaitingIsAnnounced) /\ DOMAIN runs \subseteq RunIds
    BY DEF Announced, Solo, LifecycleInv, TypeOK, StoreTypeOK
  <1>1. /\ Put(d, dr'[d]) /\ r \in DOMAIN runs /\ UNCHANGED crashes
        /\ \E st \in RunState : Saved(x, dr'[d], st) /\ Checkpoint(r, st, x.buf)
    BY <1>t, SaveView DEF envVars
  <1>2. PICK st \in RunState : Saved(x, dr'[d], st) /\ Checkpoint(r, st, x.buf)
    BY <1>1
  <1>3. /\ DOMAIN runs' = DOMAIN runs /\ runs'[r].st = st
        /\ \A q \in DOMAIN runs : q # r => runs'[q] = runs[q]
        /\ trace'[r].announced = trace[r].announced \cup x.buf.announced
        /\ \A q \in RunIds : q # r => trace'[q] = trace[q]
        /\ UNCHANGED approvals
    BY <1>t, <1>1, <1>2, CheckpointView
  <1>4. \A e \in Drivers : e # d => dr'[e] = dr[e]
    BY <1>t, <1>1, PutView
  <1>5. PausesAreAsync'
    <2>1. dr'[d].pc \notin {"request", "pause"}
      BY <1>2, IdleOnTrack DEF Saved
    <2> QED BY <1>t, <1>4, <2>1 DEF PausesAreAsync
  <1>6. \A q \in RunIds : trace[q].announced # {} => trace'[q].announced # {}
    BY <1>3
  <1>7. ASSUME AsyncApprovals, crashes' = 0, NEW f \in Filed(approvals')
        PROVE  \/ f[1] \in RunIds /\ trace'[f[1]].announced # {}
               \/ \E e \in Drivers : Announces(dr'[e], f[1])
    <2>1. \/ f[1] \in RunIds /\ trace[f[1]].announced # {}
          \/ \E e \in Drivers : Announces(dr[e], f[1])
      BY <1>t, <1>1, <1>3, <1>7 DEF RequestsAnnounced
    <2>2. ASSUME NEW e \in Drivers, Announces(dr[e], f[1]), e = d
          PROVE  f[1] \in RunIds /\ trace'[f[1]].announced # {}
      BY <1>t, <1>1, <1>3, <2>2 DEF Announces
    <2> QED BY <1>4, <1>6, <2>1, <2>2
  <1>8. RequestsAnnounced'
    BY <1>7 DEF RequestsAnnounced
  <1>9. ASSUME crashes' = 0, NEW q \in DOMAIN runs', runs'[q].st.status = "waiting_approval"
        PROVE  trace'[q].announced # {}
    <2>1. CASE q # r
      BY <1>t, <1>1, <1>3, <1>9, <2>1 DEF WaitingIsAnnounced
    <2>2. CASE q = r
      <3>1. OnTrack(approvals, x)
        BY <1>t DEF Solo, LifecycleInv, DriversOnTrack
      <3>2. x.pc = "pause"
        BY <1>2, <1>3, <1>9, <2>2, <3>1 DEF Saved, OnTrack, Active
      <3>3. AsyncApprovals /\ Requested(approvals, r, x.step)
        BY <1>t, <3>1, <3>2 DEF PausesAreAsync, OnTrack
      <3>4. PICK f \in Filed(approvals) : f[1] = r
        <4>1. PICK a \in 1 .. Len(approvals) : approvals[a].run = r
          BY <3>3 DEF Requested
        <4>2. <<approvals[a].run, approvals[a].step, approvals[a].shown>> \in Filed(approvals)
          BY DEF Filed
        <4> QED BY <4>1, <4>2
      <3>5. trace[r].announced # {} \/ \E e \in Drivers : Announces(dr[e], r)
        BY <1>t, <1>1, <1>9, <3>3, <3>4 DEF RequestsAnnounced
      <3>6. ASSUME NEW e \in Drivers, Announces(dr[e], r) PROVE x.buf.announced # {}
        <4>1. e = d
          BY <1>t, <3>2, <3>6, DriverAlone DEF Announces
        <4> QED BY <3>6, <4>1 DEF Announces
      <3> QED BY <1>3, <2>2, <3>5, <3>6
    <2> QED BY <2>1, <2>2
  <1> QED BY <1>5, <1>8, <1>9 DEF WaitingIsAnnounced

\* Crashes, returns, cancels and late calls; the retention job does not run.
LEMMA OtherAnnounced ==
  ASSUME Announced, Retention = FALSE,
         \/ \E d \in Drivers : Crash(d) \/ Return(d)
         \/ \E r \in RunIds : Cancel(r)
         \/ \E t, old : Purge(t, old)
         \/ \E c \in inflight : Land(c)
         \/ UNCHANGED vars
  PROVE  PausesAreAsync' /\ RequestsAnnounced' /\ (crashes' = 0 => WaitingIsAnnounced')
  <1>t. TypeOK /\ crashes \in Nat /\ PausesAreAsync
    BY DEF Announced, Solo, LifecycleInv, TypeOK, EnvTypeOK
  <1>i. Idle.pc = "idle"
    BY DEF Idle
  <1>1. ASSUME NEW d \in Drivers, Crash(d)
        PROVE  PausesAreAsync' /\ RequestsAnnounced' /\ (crashes' = 0 => WaitingIsAnnounced')
    <2>1. crashes' = crashes + 1 /\ Put(d, Idle)
      BY <1>1 DEF Crash
    <2>2. crashes' # 0
      BY <1>t, <2>1
    <2>3. PausesAreAsync'
      BY <1>i, <1>t, <2>1, PutView DEF PausesAreAsync
    <2> QED BY <2>2, <2>3 DEF RequestsAnnounced
  <1>2. ASSUME NEW d \in Drivers, Return(d)
        PROVE  PausesAreAsync' /\ RequestsAnnounced' /\ (crashes' = 0 => WaitingIsAnnounced')
    <2>1. Put(d, Idle) /\ dr[d].pc = "raised" /\ UNCHANGED <<runs, trace, approvals, crashes>>
      BY <1>2 DEF Return, storeVars, envVars
    <2>2. dr'[d] = Idle /\ \A e \in Drivers : e # d => dr'[e] = dr[e]
      BY <1>t, <2>1, PutView
    <2> QED BY <1>i, <2>1, <2>2, AnnouncedStays
  <1>3. ASSUME NEW r \in RunIds, Cancel(r)
        PROVE  PausesAreAsync' /\ RequestsAnnounced' /\ (crashes' = 0 => WaitingIsAnnounced')
    <2>1. /\ DOMAIN runs' = DOMAIN runs /\ \A q \in DOMAIN runs : q # r => runs'[q] = runs[q]
          /\ runs'[r].st.status = "canceled" /\ UNCHANGED <<trace, approvals, dr, crashes>>
      BY <1>t, <1>3, CancelView
    <2> QED BY <2>1, AnnouncedStays
  <1>4. ~\E t, old : Purge(t, old)
    BY DEF Purge
  <1>5. CASE (\E c \in inflight : Land(c)) \/ UNCHANGED vars
    <2>1. UNCHANGED <<runs, trace, approvals, dr, crashes>>
      BY <1>5 DEF Land, storeVars, vars
    <2> QED BY <2>1, AnnouncedStays
  <1> QED BY <1>1, <1>2, <1>3, <1>4, <1>5

\* The approvers are told: while no process has died and no retention job
\* deletes the announcement, a run that is stored as WAITING_APPROVAL has an
\* approval_requested event on file, whatever the retries, compensations,
\* cancels and earlier requests of the same step (workflow.py _await_approval).
THEOREM WaitingRunsAreAnnounced ==
  ASSUME MaxOverlaps = 0, Retention = FALSE
  PROVE  Spec => [](crashes = 0 => WaitingIsAnnounced)
  <1>1. Init => Announced
    <2> SUFFICES ASSUME Init PROVE Announced
      OBVIOUS
    <2>1. Solo
      BY SoloStep
    <2>2. PausesAreAsync /\ WaitingIsAnnounced
      BY DEF Init, StoreInit, Idle, PausesAreAsync, WaitingIsAnnounced
    <2>3. Filed(approvals) = {}
      BY DEF Init, StoreInit, Filed
    <2> QED BY <2>1, <2>2, <2>3 DEF Announced, RequestsAnnounced
  <1>2. Announced /\ [Next]_vars => Announced'
    <2> SUFFICES ASSUME Announced, [Next]_vars PROVE Announced'
      OBVIOUS
    <2>1. Solo'
      BY SoloStep DEF Announced
    <2>2. PausesAreAsync' /\ RequestsAnnounced' /\ (crashes' = 0 => WaitingIsAnnounced')
      BY NextKinds, RequestAnnounced, WorkAnnounced, SaveAnnounced, OtherAnnounced
    <2> QED BY <2>1, <2>2 DEF Announced
  <1>3. Announced => (crashes = 0 => WaitingIsAnnounced)
    BY DEF Announced
  <1> QED BY <1>1, <1>2, <1>3, PTL DEF Spec

-----------------------------------------------------------------------------
(* What was posted is what the approver saw.  latest_approval looks for    *)
(* the run and the step only: an approval is used for whatever arguments   *)
(* the step has by then.  They are the ones it was asked for because they  *)
(* are computed from the stored context, which does not change while the   *)
(* run stands at the step, and because the run does not come back to it    *)
(* (Acyclic), nor to its compensation (CompensationOffPath) from another   *)
(* step (CompensationsDiffer).                                             *)

\* A driver that has not finished its step has the context as it is stored.
Reading == {"loop", "step", "call", "pause", "record"} \cup Gating
CopiesCurrent ==
    \A d \in Drivers : dr[d].pc \in Reading => dr[d].mem.ctx = runs[dr[d].run].st.ctx

\* What a request of step s shows where the context is ctx.
ShownFor(s, ctx) == IF NodeType[s] = "tool" THEN Resolve(s, ctx) ELSE Unset

\* Request f was made at step u of a run that is now in state st: the run has
\* moved on, or would make the same request again.
MadeAt(f, u, st) ==
    /\ ~Compensates(u) /\ Rank[u] <= Rank[st.cursor]
    /\ f[2] = u \/ f[2] = CompensateWith[u]
    /\ u = st.cursor => f[3] = ShownFor(f[2], st.ctx)
RequestsCurrent ==
    \A f \in Filed(approvals) :
        /\ f[1] \in DOMAIN runs
        /\ runs[f[1]].st.status \notin Terminal => \E u \in Steps : MadeAt(f, u, runs[f[1]].st)

\* A call that needs an approval has one for just its arguments.
Faithful(g, r, s, a) == Decide(s, a) = "require_approval" => <<r, s, a>> \in g
FaithfulDrivers ==
    \A d \in Drivers : dr[d].pc = "execute" =>
        Faithful(granted, dr[d].run, dr[d].step, ArgsOf(dr[d]))
FaithfulCalls == \A c \in inflight : Faithful(granted, c[1][1], c[1][2], c[2])
FaithfulPostings ==
    \A k \in EffectKeys : \A i \in 1 .. Len(posted[k]) :
        Faithful(granted, k[1], k[2], posted[k][i].args)

\* The inductive invariant.
AsApproved ==
    /\ Saga /\ Governed /\ CopiesCurrent /\ RequestsCurrent
    /\ FaithfulDrivers /\ FaithfulCalls /\ FaithfulPostings

\* A posting adds at most its own arguments.
LEMMA PostAddsArgs ==
  ASSUME TypeOK, NEW k \in EffectKeys, NEW a, NEW v, Post(k, a, v),
         NEW j \in EffectKeys, NEW i \in 1 .. Len(posted'[j])
  PROVE  \/ j = k /\ posted'[j][i].args = a
         \/ \E n \in 1 .. Len(posted[j]) : posted'[j][i] = posted[j][n]
  <1> DEFINE new == [args |-> a, result |-> v]
  <1>1. posted[j] \in Seq(Posting) /\ posted \in [EffectKeys -> Seq(Posting)]
    BY DEF TypeOK, EnvTypeOK
  <1>2. new.args = a
    OBVIOUS
  <1>3. posted' = posted \/ posted' = [posted EXCEPT ![k] = Append(posted[k], new)]
    BY DEF Post
  <1> HIDE DEF new
  <1>4. CASE posted'[j] = posted[j]
    BY <1>4
  <1>5. CASE j = k /\ posted'[j] = Append(posted[j], new)
    <2>1. posted'[j][i] = new \/ (i \in 1 .. Len(posted[j]) /\ posted'[j][i] = posted[j][i])
      BY <1>1, <1>5
    <2> QED BY <1>2, <1>5, <2>1
  <1> QED BY <1>1, <1>3, <1>4, <1>5

\* A faithful call stays one, and what it posts is as faithful.
LEMMA FaithfulKept ==
  ASSUME TypeOK, FaithfulCalls, FaithfulPostings, granted \subseteq granted',
         NEW k \in EffectKeys, NEW a, Faithful(granted, k[1], k[2], a),
         \A c \in inflight' : c \in inflight \/ (c[1] = k /\ c[2] = a),
         UNCHANGED posted \/ \E v : Post(k, a, v)
  PROVE  FaithfulCalls' /\ FaithfulPostings'
  <1>1. \A r, s, b : Faithful(granted, r, s, b) => Faithful(granted', r, s, b)
    BY DEF Faithful
  <1>2. FaithfulCalls'
    BY <1>1 DEF FaithfulCalls
  <1>3. ASSUME NEW j \in EffectKeys, NEW i \in 1 .. Len(posted'[j])
        PROVE  Faithful(granted, j[1], j[2], posted'[j][i].args)
    BY <1>3, PostAddsArgs DEF FaithfulPostings
  <1>4. FaithfulPostings'
    BY <1>1, <1>3 DEF FaithfulPostings
  <1> QED BY <1>2, <1>4

\* So it is when nothing is called.
LEMMA FaithfulStays ==
  ASSUME FaithfulCalls, FaithfulPostings, granted \subseteq granted', UNCHANGED posted,
         inflight' \subseteq inflight
  PROVE  FaithfulCalls' /\ FaithfulPostings'
  BY DEF FaithfulCalls, FaithfulPostings, Faithful

\* The steps that end no step: no cursor moves, no context changes, and who
\* starts, starts from the row.
LEMMA CurrentStays ==
  ASSUME AsApproved, Filed(approvals') = Filed(approvals), granted \subseteq granted',
         DOMAIN runs \subseteq DOMAIN runs',
         \A q \in DOMAIN runs :
             /\ runs'[q].st.cursor = runs[q].st.cursor /\ runs'[q].st.ctx = runs[q].st.ctx
             /\ runs'[q].st.status = runs[q].st.status \/ runs'[q].st.status \in Terminal,
         \A d \in Drivers :
             \/ dr'[d] = dr[d]
             \/ dr'[d].pc \notin Reading
             \/ dr'[d].pc = "loop" /\ dr'[d].mem.ctx = runs'[dr'[d].run].st.ctx
  PROVE  CopiesCurrent' /\ RequestsCurrent' /\ FaithfulDrivers'
  <1>t. \A d \in Drivers : dr[d].pc \in Reading => dr[d].run \in DOMAIN runs
    BY DEF AsApproved, Governed, TypeOK, DriverTypeOK, Reading, Gating
  <1>1. CopiesCurrent'
    BY <1>t DEF AsApproved, CopiesCurrent
  <1>2. RequestsCurrent'
    <2> SUFFICES ASSUME NEW f \in Filed(approvals)
                 PROVE  /\ f[1] \in DOMAIN runs'
                        /\ runs'[f[1]].st.status \notin Terminal =>
                               \E u \in Steps : MadeAt(f, u, runs'[f[1]].st)
      BY DEF RequestsCurrent, MadeAt
    <2>1. /\ f[1] \in DOMAIN runs
          /\ runs[f[1]].st.status \notin Terminal => \E u \in Steps : MadeAt(f, u, runs[f[1]].st)
      BY DEF AsApproved, RequestsCurrent
    <2> QED BY <2>1 DEF MadeAt
  <1>3. FaithfulDrivers'
    <2> SUFFICES ASSUME NEW d \in Drivers, dr'[d].pc = "execute"
                 PROVE  Faithful(granted', dr'[d].run, dr'[d].step, ArgsOf(dr'[d]))
      BY DEF FaithfulDrivers, ArgsOf, Faithful
    <2>1. dr'[d] = dr[d]
      BY DEF Reading, Gating
    <2> QED BY <2>1 DEF AsApproved, FaithfulDrivers, Faithful
  <1> QED BY <1>1, <1>2, <1>3

\* Requests.
LEMMA RequestAsApproved ==
  ASSUME AsApproved, NEW d \in Drivers, Request(d)
  PROVE  /\ CopiesCurrent' /\ RequestsCurrent' /\ FaithfulDrivers'
         /\ FaithfulCalls' /\ FaithfulPostings'
  <1>t. TypeOK /\ InSync /\ FaithfulCalls /\ FaithfulPostings
    BY DEF AsApproved, Governed, Saga, Solo
  <1>i. Idle.pc = "idle" /\ "idle" \notin Reading /\ "resolving" \notin Reading
    BY DEF Idle, Reading, Gating
  <1>1. UNCHANGED <<posted, inflight>> /\ granted \subseteq granted'
    BY DEF Request, Fire, Resume, ResolveLoad, ResolveCommit, envVars
  <1>2. Filed(approvals') = Filed(approvals)
    <2>1. ASSUME NEW a, NEW ok, ResolveCommit(d, a, ok) PROVE Filed(approvals') = Filed(approvals)
      BY <1>t, <2>1, FileNone DEF ResolveCommit
    <2>2. ASSUME NEW t, NEW k, NEW r, Fire(d, t, k, r) PROVE UNCHANGED approvals
      BY <2>2 DEF Fire, CreateRun
    <2>3. ASSUME NEW r, Resume(d, r) \/ ResolveLoad(d, r) PROVE UNCHANGED approvals
      BY <2>3 DEF Resume, ResolveLoad, storeVars
    <2> QED BY <2>1, <2>2, <2>3 DEF Request
  <1>3. ASSUME NEW y, Put(d, y),
               y.pc \notin Reading \/ (y.pc = "loop" /\ y.mem.ctx = runs'[y.run].st.ctx),
               DOMAIN runs \subseteq DOMAIN runs', \A q \in DOMAIN runs : runs'[q] = runs[q]
        PROVE  /\ CopiesCurrent' /\ RequestsCurrent' /\ FaithfulDrivers'
               /\ FaithfulCalls' /\ FaithfulPostings'
    <2>1. dr'[d] = y /\ \A e \in Drivers : e # d => dr'[e] = dr[e]
      BY <1>t, <1>3, PutView
    <2>2. CopiesCurrent' /\ RequestsCurrent' /\ FaithfulDrivers'
      BY <1>1, <1>2, <1>3, <2>1, CurrentStays
    <2> QED BY <1>t, <1>1, <2>2, FaithfulStays
  <1>4. ASSUME NEW r \in RunIds, NEW st \in RunState, st = runs'[r].st
        PROVE  LET y == Begin(r, st)
               IN  y.pc \notin Reading \/ (y.pc = "loop" /\ y.mem.ctx = runs'[y.run].st.ctx)
    BY <1>4, <1>i, BeginView
  <1>5. CASE \E t \in Tenants, k \in Keys, r \in RunIds : Fire(d, t, k, r)
    <2>0. PICK t \in Tenants, k \in Keys, r \in RunIds : Fire(d, t, k, r)
      BY <1>5
    <2>1. /\ DOMAIN runs' = DOMAIN runs \cup {r} /\ runs'[r].st = NewRun
          /\ \A q \in DOMAIN runs : runs'[q] = runs[q] /\ Put(d, Begin(r, NewRun))
      BY <1>t, <2>0, FireView
    <2>2. NewRun \in RunState
      BY IdleType
    <2> DEFINE y == Begin(r, NewRun)
    <2>3. Put(d, y) /\ (y.pc \notin Reading \/ (y.pc = "loop" /\ y.mem.ctx = runs'[y.run].st.ctx))
      BY <1>4, <1>t, <2>0, <2>1, <2>2, FireView
    <2> HIDE DEF y
    <2> QED BY <1>3, <2>1, <2>3
  <1>6. ASSUME NEW r \in DOMAIN runs, runs[r].st \in RunState, r \in RunIds, UNCHANGED runs,
               \/ Put(d, Begin(r, runs[r].st))
               \/ Put(d, [Idle EXCEPT !.pc = "resolving", !.run = r, !.mem = runs[r].st])
        PROVE  /\ CopiesCurrent' /\ RequestsCurrent' /\ FaithfulDrivers'
               /\ FaithfulCalls' /\ FaithfulPostings'
    <2> DEFINE y == Begin(r, runs[r].st)
               z == [Idle EXCEPT !.pc = "resolving", !.run = r, !.mem = runs[r].st]
    <2>1. z.pc = "resolving" /\ (Put(d, y) \/ Put(d, z))
      BY <1>6 DEF Idle
    <2>2. y.pc \notin Reading \/ (y.pc = "loop" /\ y.mem.ctx = runs'[y.run].st.ctx)
      BY <1>4, <1>6
    <2> HIDE DEF y, z
    <2> QED BY <1>3, <1>6, <1>i, <2>1, <2>2
  <1>7. ASSUME dr[d].pc = "resolving", dr[d].run \in RunIds, dr[d].mem \in RunState,
               Put(d, Begin(dr[d].run, dr[d].mem)), UNCHANGED runs
        PROVE  /\ CopiesCurrent' /\ RequestsCurrent' /\ FaithfulDrivers'
               /\ FaithfulCalls' /\ FaithfulPostings'
    <2>1. dr[d].mem = runs'[dr[d].run].st
      BY <1>t, <1>7 DEF InSync, Synced
    <2> DEFINE y == Begin(dr[d].run, dr[d].mem)
    <2>2. Put(d, y) /\ (y.pc \notin Reading \/ (y.pc = "loop" /\ y.mem.ctx = runs'[y.run].st.ctx))
      BY <1>4, <1>7, <2>1
    <2> HIDE DEF y
    <2> QED BY <1>3, <1>7, <2>2
  <1>8. CASE \E r \in DOMAIN runs :
               /\ runs[r].st \in RunState /\ r \in RunIds /\ UNCHANGED runs
               /\ \/ Put(d, Begin(r, runs[r].st))
                  \/ Put(d, [Idle EXCEPT !.pc = "resolving", !.run = r, !.mem = runs[r].st])
    BY <1>6, <1>8
  <1> QED BY <1>5, <1>7, <1>8, <1>t, StartView DEF storeVars

\* The calls a driver makes: the tool's, with the arguments of the step, and
\* those of an agent that the policy allows.
LEMMA CallsMade ==
  ASSUME TypeOK, NEW d \in Drivers, Moves(d) \/ Works(d)
  PROVE  \/ UNCHANGED <<posted, inflight>>
         \/ \E a \in Slot :
               /\ \/ dr[d].pc = "execute" /\ a = ArgsOf(dr[d])
                  \/ Decide(dr[d].step, a) = "allow"
               /\ \A c \in inflight' : c \in inflight \/ (c[1] = Key(d) /\ c[2] = a)
               /\ UNCHANGED posted \/ \E v : Post(Key(d), a, v)
  <1>1. CASE ExecuteOk(d) \/ ExecuteFail(d)
    <2>1. PICK a \in Slot : dr[d].pc = "execute" /\ a = Args(d) /\ a = ArgsOf(dr[d])
      BY <1>1, ActiveType, Zenon DEF ExecuteOk, ExecuteFail, Active, Args, ArgsOf, Mem, At
    <2>2. UNCHANGED posted \/ \E v : Post(Key(d), a, v)
      BY <1>1, <2>1 DEF ExecuteOk, ExecuteFail
    <2>3. \E l \in Left(Key(d), a) : inflight' = inflight \cup l
      BY <1>1, <2>1 DEF ExecuteOk, ExecuteFail, Left
    <2>4. \A c \in inflight' : c \in inflight \/ (c[1] = Key(d) /\ c[2] = a)
      BY <2>3, LeftCalls
    <2>5. dr[d].pc = "execute" /\ a = ArgsOf(dr[d])
      BY <2>1
    <2> SUFFICES \E b \in Slot :
                   /\ \/ dr[d].pc = "execute" /\ b = ArgsOf(dr[d])
                      \/ Decide(dr[d].step, b) = "allow"
                   /\ \A c \in inflight' : c \in inflight \/ (c[1] = Key(d) /\ c[2] = b)
                   /\ UNCHANGED posted \/ \E v : Post(Key(d), b, v)
      OBVIOUS
    <2> WITNESS a \in Slot
    <2> QED BY <2>2, <2>4, <2>5
  <1>2. CASE ExecuteCall(d) \/ FailCall(d)
    <2>1. PICK a \in AgentOf[At(d)].calls :
            /\ AgentMay(At(d), a)
            /\ UNCHANGED posted \/ \E v : Post(Key(d), a, v)
            /\ \E l \in Left(Key(d), a) : inflight' = inflight \cup l
      BY <1>2 DEF ExecuteCall, FailCall, Left
    <2>2. At(d) \in Steps
      BY <1>2, ActiveType DEF ExecuteCall, FailCall, Active
    <2>3. a \in Slot
      BY <2>2, WorkflowAssumption DEF Agent, Slot
    <2>4. \A c \in inflight' : c \in inflight \/ (c[1] = Key(d) /\ c[2] = a)
      BY <2>1, LeftCalls
    <2> QED BY <2>1, <2>3, <2>4 DEF AgentMay, At
  <1>3. CASE ~(ExecuteOk(d) \/ ExecuteFail(d) \/ ExecuteCall(d) \/ FailCall(d))
    BY <1>3 DEF Moves, Works, EnterStep, Escape, TurnsUsedUp, RunBranch, RunApproval, GateTool,
                CheckApproval, RefuseCall, RequestApproval, AskApproval, AnswerApproval,
                ModelAnswers, ModelCalls, RecordTool, ReplayTool, envVars
  <1> QED BY <1>1, <1>2, <1>3

\* What sends a driver to execute its tool: the policy, an approval on file,
\* or the approver's answer.
LEMMA SentToExecute ==
  ASSUME TypeOK, NEW d \in Drivers, Moves(d), dr'[d].pc = "execute"
  PROVE  /\ dr'[d].step = dr[d].step /\ dr'[d].mem = dr[d].mem /\ dr'[d].run = dr[d].run
         /\ NodeType[dr[d].step] = "tool"
         /\ \/ Decide(dr[d].step, ArgsOf(dr[d])) = "allow"
            \/ \E a \in 1 .. Len(approvals) :
                  /\ approvals[a].run = dr[d].run /\ approvals[a].step = dr[d].step
                  /\ approvals[a].status = "approved"
            \/ <<dr[d].run, dr[d].step, ArgsOf(dr[d])>> \in granted'
  <1>1. /\ Moved(dr[d], dr'[d]) /\ dr'[d].step = dr[d].step /\ dr'[d].mem = dr[d].mem
        /\ dr'[d].run = dr[d].run /\ NodeType[dr[d].step] = "tool"
    BY MoveView DEF Moved
  <1>0. Active(dr[d])
    BY <1>1 DEF Moved, Active, Gating
  <1>t. dr[d] \in Driver /\ At(d) \in Steps /\ dr[d].step = At(d) /\ Args(d) = ArgsOf(dr[d])
    BY <1>0, ActiveType DEF At, Args, ArgsOf, Mem
  <1>p. \A y : Put(d, y) => dr'[d] = y
    BY PutView
  <1>2. CASE GateTool(d)
    <2> DEFINE n == Noted(dr[d], "policy_decision")
               e == Decide(At(d), Args(d))
    <2>1. n \in Driver
      BY <1>t, NotedType DEF AuditTypes
    <2>2. e \in PolicyEffect
      BY <1>0, <1>t, ActiveType, FunctionAssumption
    <2>3. dr'[d] = Gate(n, e)
      BY <1>2, <1>p DEF GateTool
    <2>4. e = "allow"
      <3> HIDE DEF n, e
      <3> QED BY <2>1, <2>2, <2>3 DEF Gate, Denied, PolicyEffect, Driver
    <2> QED BY <1>1, <1>t, <2>4
  <1>3. CASE CheckApproval(d)
    <2>1. \/ dr'[d].pc = "request"
          \/ \E a \in Latest(dr[d].run, At(d)) :
                dr'[d] = IF approvals[a].status = "pending" THEN [dr[d] EXCEPT !.pc = "pause"]
                         ELSE Decided(dr[d], approvals[a].status)
      BY <1>3, <1>p, <1>t DEF CheckApproval, Driver
    <2>2. PICK a \in Latest(dr[d].run, At(d)) :
             dr'[d] = IF approvals[a].status = "pending" THEN [dr[d] EXCEPT !.pc = "pause"]
                      ELSE Decided(dr[d], approvals[a].status)
      BY <2>1
    <2>3. approvals[a].status = "approved"
      BY <1>t, <2>2 DEF Decided, Denied, Driver
    <2>4. a \in 1 .. Len(approvals) /\ approvals[a].run = dr[d].run /\ approvals[a].step = dr[d].step
      BY <1>t, <2>2 DEF Latest, RequestsFor
    <2> QED BY <1>1, <2>3, <2>4
  <1>4. ASSUME NEW ok \in BOOLEAN, AnswerApproval(d, ok)
        PROVE  <<dr[d].run, dr[d].step, ArgsOf(dr[d])>> \in granted'
    <2> DEFINE y == [dr[d] EXCEPT !.ask = 0]
    <2>1. y \in Driver /\ dr'[d] = Decided(y, IF ok THEN "approved" ELSE "rejected")
      BY <1>4, <1>p, <1>t DEF AnswerApproval, Driver
    <2> HIDE DEF y
    <2>2. ok
      BY <2>1 DEF Decided, Denied, Driver
    <2>3. Shown(d) = ArgsOf(dr[d])
      BY <1>1, <1>t DEF Shown
    <2> QED BY <1>4, <1>t, <2>2, <2>3 DEF AnswerApproval
  <1>5. CASE RequestApproval(d) \/ AskApproval(d) \/ EnterStep(d) \/ RunApproval(d)
    <2>1. dr'[d].pc \in {"pause", "asked", "step", "await"}
      BY <1>5, <1>p, <1>t DEF RequestApproval, AskApproval, EnterStep, RunApproval, Driver
    <2> QED BY <2>1
  <1>6. CASE Escape(d) \/ TurnsUsedUp(d) \/ RunBranch(d)
    <2>1. dr'[d].pc \in {"raised", "fail", "commit"}
      BY <1>6, <1>p, <1>t DEF Escape, TurnsUsedUp, Escaped, RunBranch, StepDone, Driver
    <2> QED BY <2>1
  <1>7. CASE RefuseCall(d) \/ ExecuteFail(d) \/ FailCall(d)
    <2>1. RefuseCall(d) => dr[d].left > 0
      BY DEF RefuseCall, TypeOK, DriverTypeOK
    <2>2. dr'[d].pc \in {"call", "step", "fail"}
      BY <1>7, <1>p, <1>t, <2>1, AnsweredType, ConnectorFailedType DEF RefuseCall, ExecuteFail, FailCall
    <2> QED BY <2>2
  <1> QED BY <1>1, <1>2, <1>3, <1>4, <1>5, <1>6, <1>7 DEF Moves

\* An approval on file for the step a driver is at was asked for the very
\* arguments the step has now.
LEMMA ApprovalFits ==
  ASSUME CompensationsDiffer, AsApproved, NEW d \in Drivers, dr[d].pc \in Reading,
         NodeType[dr[d].step] = "tool", NEW a \in 1 .. Len(approvals),
         approvals[a].run = dr[d].run, approvals[a].step = dr[d].step
  PROVE  approvals[a].shown = ArgsOf(dr[d])
  <1> DEFINE x == dr[d]
             f == <<approvals[a].run, approvals[a].step, approvals[a].shown>>
             st == runs[x.run].st
  <1>1. Active(x) /\ x.pc # "raised" /\ x.pc # "idle"
    BY DEF Active, Gating, Reading
  <1>2. /\ OnTrack(approvals, x) /\ Synced(x, st, trace[x.run].cost, effects)
        /\ x.run \in DOMAIN runs /\ x.mem.ctx = st.ctx /\ CursorsOnPath
    BY <1>1 DEF AsApproved, Saga, Solo, LifecycleInv, DriversOnTrack, InSync, TypeOK, DriverTypeOK,
                CopiesCurrent
  <1>3. /\ st.status \notin Terminal /\ st.cursor = x.mem.cursor /\ st.cursor \in Steps
        /\ x.step = st.cursor \/ x.step = CompensateWith[st.cursor]
        /\ ~Compensates(st.cursor)
    BY <1>1, <1>2 DEF OnTrack, Synced, CursorsOnPath
  <1>4. x.step \in Steps /\ x.step # None
    BY <1>1, StepAssumption DEF AsApproved, Governed, TypeOK, DriverTypeOK, Active
  <1>5. f \in Filed(approvals) /\ f[1] = x.run /\ f[2] = x.step /\ f[3] = approvals[a].shown
    BY DEF Filed
  <1> HIDE DEF f
  <1>6. PICK u \in Steps : MadeAt(f, u, st)
    BY <1>3, <1>5 DEF AsApproved, RequestsCurrent
  <1>7. u = st.cursor
    BY <1>3, <1>4, <1>5, <1>6 DEF MadeAt, Compensates, CompensationsDiffer
  <1>8. f[3] = ShownFor(x.step, st.ctx)
    BY <1>5, <1>6, <1>7 DEF MadeAt
  <1> QED BY <1>2, <1>5, <1>8 DEF ShownFor, ArgsOf

\* Between two checkpoints.
LEMMA WorkAsApproved ==
  ASSUME Acyclic, CompensationsDiffer, AsApproved, NEW d \in Drivers, Moves(d) \/ Works(d)
  PROVE  /\ CopiesCurrent' /\ RequestsCurrent' /\ FaithfulDrivers'
         /\ FaithfulCalls' /\ FaithfulPostings'
  <1> DEFINE x == dr[d]
             y == dr'[d]
             st == runs[x.run].st
  <1>t. /\ TypeOK /\ CopiesCurrent /\ RequestsCurrent /\ FaithfulDrivers /\ FaithfulCalls
        /\ FaithfulPostings /\ ApprovedIsGranted
    BY DEF AsApproved, Governed
  <1>1. /\ UNCHANGED runs /\ Put(d, y) /\ y.run = x.run /\ x.pc \in Reading /\ Active(x)
        /\ x.pc # "raised"
    BY <1>t, MoveView, WorkView DEF Moved, Worked, Reading, Active, Gating
  <1>2. \A e \in Drivers : e # d => dr'[e] = dr[e]
    BY <1>t, <1>1, PutView
  <1>3. granted \subseteq granted'
    <2>1. Works(d) => UNCHANGED granted
      BY DEF Works, ModelAnswers, ModelCalls, ExecuteCall, ExecuteOk, RecordTool, ReplayTool, envVars
    <2> QED BY <1>t, <2>1, MoveFiles
  <1>4. CopiesCurrent'
    <2>1. y.pc \in Reading => y.mem.ctx = x.mem.ctx
      <3>1. CASE Moves(d)
        BY <1>t, <3>1, MoveView DEF Moved, SameCopy
      <3>2. CASE Works(d)
        BY <1>t, <3>2, WorkView DEF Worked, Reading, Gating
      <3> QED BY <3>1, <3>2
    <2> QED BY <1>t, <1>1, <1>2, <2>1 DEF CopiesCurrent
  <1>5. /\ x.run \in DOMAIN runs /\ x.mem.ctx = st.ctx /\ st.cursor \in Steps
        /\ x.step = st.cursor \/ x.step = CompensateWith[st.cursor]
        /\ ~Compensates(st.cursor)
    <2>1. /\ OnTrack(approvals, x) /\ Synced(x, st, trace[x.run].cost, effects)
          /\ x.run \in DOMAIN runs /\ x.mem.ctx = st.ctx /\ CursorsOnPath
      BY <1>1, <1>t DEF AsApproved, Saga, Solo, LifecycleInv, DriversOnTrack, InSync, TypeOK,
                        DriverTypeOK, CopiesCurrent, Active
    <2> QED BY <1>1, <2>1 DEF OnTrack, Synced, CursorsOnPath
  <1>6. RequestsCurrent'
    <2>1. \/ Filed(approvals') = Filed(approvals)
          \/ Filed(approvals') = Filed(approvals) \cup {<<x.run, x.step, ShownBy(x)>>}
      BY <1>t, MoveFiles, WorkView
    <2> DEFINE g == <<x.run, x.step, ShownBy(x)>>
    <2>2. g[1] = x.run /\ g[2] = x.step /\ g[3] = ShownFor(x.step, st.ctx)
      BY <1>5 DEF ShownBy, ShownFor, ArgsOf
    <2>3. Rank[st.cursor] \in Nat
      BY <1>5, RankForward
    <2> HIDE DEF g
    <2>4. MadeAt(g, st.cursor, st)
      BY <1>5, <2>2, <2>3 DEF MadeAt
    <2>5. ASSUME NEW f \in Filed(approvals')
          PROVE  /\ f[1] \in DOMAIN runs
                 /\ runs[f[1]].st.status \notin Terminal =>
                        \E u \in Steps : MadeAt(f, u, runs[f[1]].st)
      <3>1. CASE f \in Filed(approvals)
        BY <1>t, <3>1 DEF RequestsCurrent
      <3>2. CASE f = g
        BY <1>5, <2>2, <2>4, <3>2
      <3> QED BY <2>1, <2>5, <3>1, <3>2 DEF g
    <2> QED BY <1>1, <2>5 DEF RequestsCurrent, MadeAt
  <1>7. y.pc = "execute" => Faithful(granted', y.run, y.step, ArgsOf(y))
    <2> SUFFICES ASSUME y.pc = "execute" PROVE Faithful(granted', y.run, y.step, ArgsOf(y))
      OBVIOUS
    <2>1. Moves(d)
      BY <1>t, WorkView DEF Worked
    <2>2. /\ y.step = x.step /\ y.mem = x.mem /\ NodeType[x.step] = "tool"
          /\ \/ Decide(x.step, ArgsOf(x)) = "allow"
             \/ \E a \in 1 .. Len(approvals) :
                   /\ approvals[a].run = x.run /\ approvals[a].step = x.step
                   /\ approvals[a].status = "approved"
             \/ <<x.run, x.step, ArgsOf(x)>> \in granted'
      BY <1>t, <2>1, SentToExecute
    <2>3. ArgsOf(y) = ArgsOf(x)
      BY <2>2 DEF ArgsOf
    <2>4. ASSUME NEW a \in 1 .. Len(approvals), approvals[a].run = x.run,
                 approvals[a].step = x.step, approvals[a].status = "approved"
          PROVE  <<x.run, x.step, ArgsOf(x)>> \in granted'
      <3>1. approvals[a].shown = ArgsOf(x)
        BY <1>1, <2>2, <2>4, ApprovalFits
      <3> QED BY <1>3, <1>t, <2>4, <3>1 DEF ApprovedIsGranted
    <2> QED BY <1>1, <2>2, <2>3, <2>4 DEF Faithful
  <1>8. FaithfulDrivers'
    <2> SUFFICES ASSUME NEW e \in Drivers, dr'[e].pc = "execute"
                 PROVE  Faithful(granted', dr'[e].run, dr'[e].step, ArgsOf(dr'[e]))
      BY DEF FaithfulDrivers, ArgsOf, Faithful
    <2>1. CASE e = d
      BY <1>7, <2>1
    <2>2. CASE e # d
      BY <1>2, <1>3, <1>t, <2>2 DEF FaithfulDrivers, Faithful
    <2> QED BY <2>1, <2>2
  <1>9. FaithfulCalls' /\ FaithfulPostings'
    <2>1. CASE UNCHANGED <<posted, inflight>>
      BY <1>3, <1>t, <2>1, FaithfulStays
    <2>2. ASSUME NEW a \in Slot,
                 (x.pc = "execute" /\ a = ArgsOf(x)) \/ Decide(x.step, a) = "allow",
                 \A c \in inflight' : c \in inflight \/ (c[1] = Key(d) /\ c[2] = a),
                 UNCHANGED posted \/ \E v : Post(Key(d), a, v)
          PROVE  FaithfulCalls' /\ FaithfulPostings'
      <3>1. Key(d) \in EffectKeys /\ Key(d)[1] = x.run /\ Key(d)[2] = x.step
        BY <1>1, <1>t, ActiveType DEF Key
      <3>2. Faithful(granted, x.run, x.step, a)
        BY <1>t, <2>2 DEF FaithfulDrivers, Faithful
      <3> QED BY <1>3, <1>t, <2>2, <3>1, <3>2, FaithfulKept
    <2> QED BY <1>t, <2>1, <2>2, CallsMade
  <1> QED BY <1>4, <1>6, <1>8, <1>9

\* Checkpoints: a commit moves past every request made so far.
LEMMA SaveAsApproved ==
  ASSUME Acyclic, AsApproved, NEW d \in Drivers, Saves(d)
  PROVE  /\ CopiesCurrent' /\ RequestsCurrent' /\ FaithfulDrivers'
         /\ FaithfulCalls' /\ FaithfulPostings'
  <1> DEFINE x == dr[d]
             r == x.run
  <1>t. /\ TypeOK /\ Solo /\ CopiesCurrent /\ RequestsCurrent /\ FaithfulDrivers /\ FaithfulCalls
        /\ FaithfulPostings
    BY DEF AsApproved, Governed, Saga
  <1>1. /\ Put(d, dr'[d]) /\ r \in DOMAIN runs /\ UNCHANGED <<posted, inflight, granted>>
        /\ \E st \in RunState : Saved(x, dr'[d], st) /\ Checkpoint(r, st, x.buf)
    BY <1>t, SaveView DEF envVars
  <1>2. PICK st \in RunState : Saved(x, dr'[d], st) /\ Checkpoint(r, st, x.buf)
    BY <1>1
  <1>3. /\ DOMAIN runs' = DOMAIN runs /\ runs'[r].st = st
        /\ \A q \in DOMAIN runs : q # r => runs'[q] = runs[q]
        /\ UNCHANGED approvals
    BY <1>t, <1>1, <1>2, CheckpointView
  <1>4. \A e \in Drivers : e # d => dr'[e] = dr[e]
    BY <1>t, <1>1, PutView
  <1>5. Active(x) /\ x.pc # "raised" /\ x.step \in Steps /\ x.mem.ctx \in Context
    <2>1. Active(x) /\ x.pc # "raised"
      BY <1>2 DEF Saved, Active
    <2> QED BY <1>t, <2>1, ActiveType DEF At, Mem, RunState
  <1>6. Synced(x, runs[r].st, trace[r].cost, effects) /\ OnTrack(approvals, x)
    BY <1>t, <1>5 DEF Solo, InSync, LifecycleInv, DriversOnTrack, Active
  <1>7. \A e \in Drivers : e # d /\ dr[e].pc # "idle" => dr[e].run # r
    BY <1>t, <1>5, DriverAlone DEF Active
  <1>8. \/ dr'[d].pc \notin Reading
        \/ dr'[d].pc = "loop" /\ dr'[d].run = r /\ dr'[d].mem.ctx = runs'[r].st.ctx
    BY <1>2, <1>3, IdleOnTrack DEF Saved, Reading, Gating
  <1>9. CopiesCurrent'
    <2> SUFFICES ASSUME NEW e \in Drivers, dr'[e].pc \in Reading
                 PROVE  dr'[e].mem.ctx = runs'[dr'[e].run].st.ctx
      BY DEF CopiesCurrent
    <2>1. CASE e = d
      BY <1>8, <2>1
    <2>2. CASE e # d
      <3>1. dr'[e] = dr[e] /\ dr[e].pc # "idle"
        BY <1>4, <2>2 DEF Reading, Gating
      <3>2. dr[e].run # r /\ dr[e].run \in DOMAIN runs
        BY <1>7, <1>t, <2>2, <3>1 DEF TypeOK, DriverTypeOK
      <3> QED BY <1>3, <1>t, <3>1, <3>2 DEF CopiesCurrent
    <2> QED BY <2>1, <2>2
  <1>10. ASSUME NEW f \in Filed(approvals)
         PROVE  /\ f[1] \in DOMAIN runs'
                /\ runs'[f[1]].st.status \notin Terminal =>
                       \E u \in Steps : MadeAt(f, u, runs'[f[1]].st)
    <2>1. /\ f[1] \in DOMAIN runs
          /\ runs[f[1]].st.status \notin Terminal => \E u \in Steps : MadeAt(f, u, runs[f[1]].st)
      BY <1>t DEF RequestsCurrent
    <2>2. CASE f[1] # r
      BY <1>3, <2>1, <2>2
    <2>3. CASE f[1] = r /\ st.status \notin Terminal
      <3>1. runs[r].st.status \notin Terminal /\ runs[r].st.cursor = x.mem.cursor
        BY <1>5, <1>6 DEF Synced
      <3>2. PICK u \in Steps : MadeAt(f, u, runs[r].st)
        BY <2>1, <2>3, <3>1
      <3>3. MadeAt(f, u, st)
        <4>1. CASE x.pc = "pause"
          <5>1. st.cursor = runs[r].st.cursor /\ st.ctx = runs[r].st.ctx
            BY <1>2, <1>t, <3>1, <4>1 DEF Saved, CopiesCurrent, Reading
          <5> QED BY <3>2, <5>1 DEF MadeAt
        <4>2. CASE x.pc = "commit"
          <5>1. x.step = runs[r].st.cursor
            BY <1>5, <1>6, <3>1, <4>2 DEF OnTrack
          <5>2. st.cursor \in Steps /\ st.cursor = Successor(x.step, x.mem.ctx)
            BY <1>2, <2>3, <4>2 DEF Saved, RunState, Terminal
          <5>3. /\ Rank[st.cursor] > Rank[x.step] /\ Rank[st.cursor] \in Nat /\ Rank[x.step] \in Nat
                /\ Rank[u] \in Nat
            BY <1>5, <5>2, RankForward, StepAssumption DEF Forward
          <5>4. Rank[u] <= Rank[x.step]
            BY <3>2, <5>1 DEF MadeAt
          <5>5. Rank[u] <= Rank[st.cursor] /\ u # st.cursor
            BY <5>3, <5>4
          <5> QED BY <3>2, <5>5 DEF MadeAt
        <4>3. CASE x.pc \notin {"pause", "commit"}
          BY <1>2, <2>3, <4>3 DEF Saved, Terminal
        <4> QED BY <4>1, <4>2, <4>3
      <3> QED BY <1>1, <1>3, <2>3, <3>3
    <2>4. CASE f[1] = r /\ st.status \in Terminal
      BY <1>1, <1>3, <2>4
    <2> QED BY <2>2, <2>3, <2>4
  <1>11. RequestsCurrent'
    BY <1>3, <1>10 DEF RequestsCurrent, MadeAt
  <1>12. FaithfulDrivers'
    <2> SUFFICES ASSUME NEW e \in Drivers, dr'[e].pc = "execute"
                 PROVE  Faithful(granted', dr'[e].run, dr'[e].step, ArgsOf(dr'[e]))
      BY DEF FaithfulDrivers, ArgsOf, Faithful
    <2>1. dr'[e] = dr[e]
      BY <1>4, <1>8 DEF Reading, Gating
    <2> QED BY <1>1, <1>t, <2>1 DEF FaithfulDrivers
  <1>13. FaithfulCalls' /\ FaithfulPostings'
    BY <1>1, <1>t, FaithfulStays
  <1> QED BY <1>9, <1>11, <1>12, <1>13

\* Crashes, returns, cancels, purges and late calls.
LEMMA OtherAsApproved ==
  ASSUME AsApproved,
         \/ \E d \in Drivers : Crash(d) \/ Return(d)
         \/ \E r \in RunIds : Cancel(r)
         \/ \E t, old : Purge(t, old)
         \/ \E c \in inflight : Land(c)
         \/ UNCHANGED vars
  PROVE  /\ CopiesCurrent' /\ RequestsCurrent' /\ FaithfulDrivers'
         /\ FaithfulCalls' /\ FaithfulPostings'
  <1>t. TypeOK /\ FaithfulCalls /\ FaithfulPostings
    BY DEF AsApproved, Governed
  <1>1. ASSUME NEW d \in Drivers, Crash(d) \/ Return(d)
        PROVE  /\ CopiesCurrent' /\ RequestsCurrent' /\ FaithfulDrivers'
               /\ FaithfulCalls' /\ FaithfulPostings'
    <2>1. Put(d, Idle) /\ UNCHANGED <<runs, approvals, posted, inflight, granted>>
      BY <1>1, StopView DEF storeVars
    <2>2. dr'[d].pc = "idle" /\ \A e \in Drivers : e # d => dr'[e] = dr[e]
      BY <1>t, <2>1, PutView, IdleOnTrack
    <2>3. \A e \in Drivers : dr'[e] = dr[e] \/ dr'[e].pc \notin Reading
      BY <2>2 DEF Reading, Gating
    <2>4. CopiesCurrent' /\ RequestsCurrent' /\ FaithfulDrivers'
      BY <2>1, <2>3, CurrentStays
    <2> QED BY <1>t, <2>1, <2>4, FaithfulStays
  <1>2. ASSUME NEW r \in RunIds, Cancel(r)
        PROVE  /\ CopiesCurrent' /\ RequestsCurrent' /\ FaithfulDrivers'
               /\ FaithfulCalls' /\ FaithfulPostings'
    <2>1. /\ DOMAIN runs' = DOMAIN runs /\ \A q \in DOMAIN runs : q # r => runs'[q] = runs[q]
          /\ runs'[r].st.status = "canceled" /\ runs'[r].st.cursor = runs[r].st.cursor
          /\ runs'[r].st.ctx = runs[r].st.ctx
          /\ UNCHANGED <<approvals, dr, posted, inflight, granted>>
      BY <1>t, <1>2, CancelView
    <2>2. CopiesCurrent' /\ RequestsCurrent' /\ FaithfulDrivers'
      BY <2>1, CurrentStays DEF Terminal
    <2> QED BY <1>t, <2>1, <2>2, FaithfulStays
  <1>3. CASE (\E t, old : Purge(t, old)) \/ UNCHANGED vars
    <2>1. UNCHANGED <<runs, approvals, dr, posted, inflight, granted>>
      BY <1>t, <1>3, PurgeView DEF vars
    <2>2. CopiesCurrent' /\ RequestsCurrent' /\ FaithfulDrivers'
      BY <2>1, CurrentStays
    <2> QED BY <1>t, <2>1, <2>2, FaithfulStays
  <1>4. ASSUME NEW c \in inflight, Land(c)
        PROVE  /\ CopiesCurrent' /\ RequestsCurrent' /\ FaithfulDrivers'
               /\ FaithfulCalls' /\ FaithfulPostings'
    <2>1. /\ UNCHANGED <<runs, approvals, dr, granted>> /\ inflight' \subseteq inflight
          /\ \E v : Post(c[1], c[2], v)
      BY <1>4 DEF Land, storeVars
    <2>2. c[1] \in EffectKeys /\ Faithful(granted, c[1][1], c[1][2], c[2])
      BY <1>t DEF TypeOK, EnvTypeOK, FaithfulCalls
    <2>3. CopiesCurrent' /\ RequestsCurrent' /\ FaithfulDrivers'
      BY <2>1, CurrentStays
    <2>4. FaithfulCalls' /\ FaithfulPostings'
      BY <1>t, <2>1, <2>2, FaithfulKept
    <2> QED BY <2>3, <2>4
  <1> QED BY <1>1, <1>2, <1>3, <1>4

\* What was posted is what the approver saw: in a workflow without cycles,
\* whose compensating steps each undo one step and do nothing else, an
\* external system holds a posting that needed an approval only if an
\* approver has granted that run and step with just those arguments, across
\* crashes, resumes, repeated requests, changed decisions and calls that land
\* late (workflow.py _await_approval, store.py latest_approval).
THEOREM PostingsAreAsApproved ==
  ASSUME MaxOverlaps = 0, Acyclic, CompensationOffPath, CompensationsDiffer
  PROVE  Spec => []PostedAsApproved
  <1>1. Init => AsApproved
    <2> SUFFICES ASSUME Init PROVE AsApproved
      OBVIOUS
    <2>1. Saga /\ Governed
      BY SagaStep, GovernedInit
    <2>2. CopiesCurrent /\ FaithfulDrivers
      BY DEF Init, Idle, CopiesCurrent, FaithfulDrivers, Reading, Gating
    <2>3. Filed(approvals) = {}
      BY DEF Init, StoreInit, Filed
    <2>4. FaithfulCalls /\ FaithfulPostings
      BY DEF Init, FaithfulCalls, FaithfulPostings
    <2> QED BY <2>1, <2>2, <2>3, <2>4 DEF AsApproved, RequestsCurrent
  <1>2. AsApproved /\ [Next]_vars => AsApproved'
    <2> SUFFICES ASSUME AsApproved, [Next]_vars PROVE AsApproved'
      OBVIOUS
    <2>1. Saga' /\ Governed'
      BY SagaStep, GovernedStep DEF AsApproved
    <2>2. /\ CopiesCurrent' /\ RequestsCurrent' /\ FaithfulDrivers'
          /\ FaithfulCalls' /\ FaithfulPostings'
      BY NextKinds, RequestAsApproved, WorkAsApproved, SaveAsApproved, OtherAsApproved
    <2> QED BY <2>1, <2>2 DEF AsApproved
  <1>3. AsApproved => PostedAsApproved
    BY DEF AsApproved, FaithfulPostings, Faithful, PostedAsApproved, Postings
  <1> QED BY <1>1, <1>2, <1>3, PTL DEF Spec
=============================================================================
