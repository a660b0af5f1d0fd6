------------------------------- MODULE Engine -------------------------------
(***************************************************************************)
(* The durable workflow engine (workflow.py) driving runs of one workflow  *)
(* over the store, with its callers: the API service and the orchestrator  *)
(* (fire, resolve_approval, cancel, resume_run), the out-of-band runner    *)
(* (runner.py, temporal_adapter.py) and the external systems the tools     *)
(* post to.                                                                *)
(*                                                                         *)
(* A driver is a thread inside engine.resume (an API request or a worker   *)
(* activity).  It works on its own copy of the Run, loaded once, and       *)
(* writes the copy back at every checkpoint; nothing in the code keeps two *)
(* drivers off the same run.  One action is one call to the store or to an *)
(* external system together with the local computation around it, so       *)
(* other drivers, a cancel or a crash can come between any two calls.      *)
(*                                                                         *)
(* Bounds, all named: MaxCrashes process deaths, MaxOverlaps requests that *)
(* start on a run (or cancel it) while another driver is executing it, and *)
(* MaxPosts postings remembered per ledger key (and as many late calls     *)
(* alike), MaxCalls tool calls in one answer of a model.                   *)
(***************************************************************************)
EXTENDS Store, FiniteSets

CONSTANTS
    Drivers,          \* threads that can run the engine
    Start,            \* Workflow.start
    NodeType,         \* step -> "agent" | "tool" | "branch" | "approval" | "terminate"
    NextOf,           \* step -> Step.next
    MaxAttempts,      \* step -> Step.max_attempts
    CompensateWith,   \* step -> Step.compensate_with, or None
    SideEffect,       \* step -> Tool.side_effect of its tool
    Cost,             \* step -> what one execution books: a tool call, or one model call
    AgentOf,          \* step -> its agent: turns = Agent.max_steps, calls = the tool calls
                      \*   its model may ask for, busy = the rounds in which it may ask
                      \*   for them, cost = what one of them books
    Dedupes,          \* step -> the receiver honours _idempotency_key
    FaultyAt,         \* steps whose execution can end in ConnectorError
    EscapeAt,         \* steps that can raise an error _drive does not handle
    MaxUsd, MaxSteps, \* the workflow's Budget
    MaxRetries,       \* the connectors' ReliabilityConfig.max_retries
    AsyncApprovals,   \* approval_fn is None
    OutOfBandResume,  \* a worker or operator calls resume on stored runs
    Retention,        \* a retention job purges event payloads
    MaxCrashes, MaxOverlaps, MaxPosts, MaxCalls,
    Resolve(_, _),    \* step, context -> the arguments its lambdas compute
    Decide(_, _),     \* step, arguments (or agent's tool call) -> the policy's effect
    Arm(_, _),        \* branch step, context -> the step it goes to
    Outcomes(_, _)    \* step, arguments -> results the model or tool may return

NodeTypes == {"agent", "tool", "branch", "approval", "terminate"}
PolicyEffect == {"allow", "deny", "require_approval"}
Agent == [turns : Nat, busy : Nat, calls : SUBSET Values, cost : Nat]

ASSUME WorkflowAssumption ==
    /\ Start \in Steps
    /\ NodeType \in [Steps -> NodeTypes]
    /\ NextOf \in [Steps -> Steps \cup {None}]
    /\ MaxAttempts \in [Steps -> Nat \ {0}]
    /\ CompensateWith \in [Steps -> Steps \cup {None}]
    /\ SideEffect \in [Steps -> BOOLEAN]
    /\ Cost \in [Steps -> Nat]
    /\ AgentOf \in [Steps -> Agent]
    /\ Dedupes \in [Steps -> BOOLEAN]
    /\ MaxUsd \in Nat /\ MaxSteps \in Nat /\ MaxPosts \in Nat \ {0} /\ MaxCalls \in Nat
    /\ MaxRetries \in Nat
ASSUME FunctionAssumption ==
    /\ \A s \in Steps, c \in Context : Resolve(s, c) \in Slot /\ Arm(s, c) \in Steps \cup {None}
    /\ \A s \in Steps, a \in Slot : Decide(s, a) \in PolicyEffect /\ Outcomes(s, a) \subseteq Values

VARIABLES
    dr,         \* driver -> its local state
    posted,     \* external systems: ledger key -> the postings they hold
    inflight,   \* timed-out calls still running in a connector's pool, numbered
    granted,    \* history: <<run, step, shown>> some approver has granted
    crashes, overlaps

vars == <<runs, trace, approvals, effects, dr, posted, inflight, granted, crashes, overlaps>>

-----------------------------------------------------------------------------
(* The driver's local state: the Run object (mem), the event buffer (buf), *)
(* the step and attempt it is at, whether it is in _compensate, the id of  *)
(* the approval it has just asked for (ask, synchronous approvals only),   *)
(* the result a tool returned (out) and, in the agent loop, the rounds     *)
(* taken (turn) and the tool calls of the round still to do (left).        *)

Control == {"idle", "resolving", "loop", "step", "call", "await", "request", "asked",
            "execute", "record", "commit", "pause", "fail", "raised"}
Driver == [pc : Control, run : RunIds \cup {None}, step : Steps \cup {None}, try : Nat,
           comp : BOOLEAN, ask : Nat, out : Slot, turn : Nat, left : Nat,
           mem : RunState, buf : Batch]

\* Run(...): status PENDING, cursor_step=wf.start, empty context.
NewRun == [status |-> "pending", cursor |-> Start, ctx |-> [s \in Steps |-> Unset],
           cost |-> 0, steps |-> 0]
Idle == [pc |-> "idle", run |-> None, step |-> None, try |-> 0, comp |-> FALSE,
         ask |-> 0, out |-> Unset, turn |-> 0, left |-> 0, mem |-> NewRun, buf |-> NoEvents]

\* What an external system holds for one ledger key.
Holds(k) == Len(posted[k]) > 0
Posting == [args : Slot, result : Values]
Postings(k) == {posted[k][i] : i \in 1 .. Len(posted[k])}

\* A driver inside resume works on a stored run and has a step in hand.
DriverTypeOK ==
    /\ dr \in [Drivers -> Driver]
    /\ \A d \in Drivers : dr[d].pc # "idle" => dr[d].run \in DOMAIN runs
    /\ \A d \in Drivers : dr[d].pc \notin {"idle", "resolving"} => dr[d].step \in Steps
    /\ \A d \in Drivers : dr[d].pc = "record" => dr[d].out \in Values
    /\ \A d \in Drivers : dr[d].pc = "call" => dr[d].left > 0
EnvTypeOK ==
    /\ posted \in [EffectKeys -> Seq(Posting)]
    /\ inflight \subseteq EffectKeys \X Slot \X Nat
    /\ granted \subseteq RunIds \X Steps \X Slot
    /\ crashes \in Nat /\ overlaps \in Nat

\* Type invariant: rows, drivers and the environment keep their types, and
\* nobody drives a run that is not stored.
TypeOK == StoreTypeOK /\ DriverTypeOK /\ EnvTypeOK

Init ==
    /\ StoreInit
    /\ dr = [d \in Drivers |-> Idle]
    /\ posted = [k \in EffectKeys |-> <<>>]
    /\ inflight = {}
    /\ granted = {}
    /\ crashes = 0
    /\ overlaps = 0

Put(d, x) == dr' = [dr EXCEPT ![d] = x]
envVars == <<posted, inflight, granted, crashes, overlaps>>

Driven(r) == \E d \in Drivers : dr[d].run = r

\* A request that touches a run some driver is executing is an overlap.
Claim(r) ==
    /\ Driven(r) => overlaps < MaxOverlaps
    /\ overlaps' = IF Driven(r) THEN overlaps + 1 ELSE overlaps

-----------------------------------------------------------------------------
(* Entering the engine.                                                    *)

\* resume: a terminal run is returned at once; otherwise the copy is RUNNING
\* and the loop starts at the cursor, or at wf.start when there is none.
Begin_BugNoTerminalCheck(r, st) ==
    [Idle EXCEPT !.pc = "loop", !.run = r,
                 !.step = IF st.cursor = None THEN Start ELSE st.cursor,
                 !.mem = [st EXCEPT !.status = "running"]]
Begin(r, st) ==
    IF st.status \in Terminal THEN Idle
    ELSE [Idle EXCEPT !.pc = "loop", !.run = r,
                      !.step = IF st.cursor = None THEN Start ELSE st.cursor,
                      !.mem = [st EXCEPT !.status = "running"]]

\* fire with a new key: insert the run, then drive it in the same thread.
\* A duplicate returns the existing run without resuming it: no change.
Fire(d, t, k, r) ==
    /\ dr[d].pc = "idle"
    /\ CreateRun(t, k, r, NewRun)
    /\ Put(d, Begin(r, NewRun))
    /\ UNCHANGED envVars

\* SystemRunner.resume: load_run, then resume on an engine of its own, whose
\* buffer is empty.  (Orchestrator.resume_run does it on the engine it keeps.)
Resume(d, r) ==
    /\ OutOfBandResume
    /\ dr[d].pc = "idle"
    /\ r \in DOMAIN runs /\ runs[r].st.status \notin Terminal
    /\ Claim(r)
    /\ Put(d, Begin(r, runs[r].st))
    /\ UNCHANGED <<storeVars, posted, inflight, granted, crashes>>

\* ApiService.resolve_approval, first call: load_run.
ResolveLoad(d, r) ==
    /\ AsyncApprovals
    /\ dr[d].pc = "idle"
    /\ r \in DOMAIN runs
    /\ trace[r].announced # {}
    /\ Claim(r)
    /\ Put(d, [Idle EXCEPT !.pc = "resolving", !.run = r, !.mem = runs[r].st])
    /\ UNCHANGED <<storeVars, posted, inflight, granted, crashes>>

\* An approver learns an approval id from an approval_requested event.
Known(a) == \E r \in RunIds : a \in trace[r].announced

\* Then store.resolve_approval on any approval of the tenant, and resume of
\* the Run object loaded before.
ResolveCommit(d, a, ok) ==
    /\ dr[d].pc = "resolving"
    /\ Known(a)
    /\ ResolveApproval(runs[dr[d].run].tenant, a, ok)
    /\ granted' = IF ok THEN granted \cup {<<approvals[a].run, approvals[a].step, approvals[a].shown>>}
                        ELSE granted
    /\ Put(d, Begin(dr[d].run, dr[d].mem))
    /\ UNCHANGED <<posted, inflight, crashes, overlaps>>

\* ApiService.cancel.
Cancel(r) ==
    /\ CancelRun(r)
    /\ Claim(r)
    /\ UNCHANGED <<dr, posted, inflight, granted, crashes>>

\* The retention job: purge_event_payloads with a cut-off in time.
Purge(t, old) ==
    /\ Retention
    /\ PurgeEventPayloads(t, old)
    /\ UNCHANGED <<dr, posted, inflight, granted, crashes, overlaps>>

\* The process dies: the Run object and the event buffer are gone.
Crash(d) ==
    /\ dr[d].pc \notin {"idle", "raised"}
    /\ crashes < MaxCrashes
    /\ crashes' = crashes + 1
    /\ Put(d, Idle)
    /\ UNCHANGED <<storeVars, posted, inflight, granted, overlaps>>

-----------------------------------------------------------------------------
(* _drive: the loop around the steps.                                      *)

Mem(d) == dr[d].mem
At(d) == dr[d].step
Key(d) == <<dr[d].run, dr[d].step>>
Args(d) == Resolve(At(d), Mem(d).ctx)

\* Budget.check: both comparisons are strict.
OverBudget_BugNoStepCap(st) == st.cost > MaxUsd
OverBudget_BugNoUsdCap(st) == st.steps > MaxSteps
OverBudget(st) == st.cost > MaxUsd \/ st.steps > MaxSteps

BudgetFail(d) ==
    /\ dr[d].pc = "loop"
    /\ OverBudget(Mem(d))
    /\ Checkpoint(dr[d].run, [Mem(d) EXCEPT !.status = "failed"], dr[d].buf)
    /\ Put(d, [dr[d] EXCEPT !.pc = "raised"])
    /\ UNCHANGED envVars

EnterStep(d) ==
    /\ dr[d].pc = "loop"
    /\ ~OverBudget(Mem(d))
    /\ Put(d, [dr[d] EXCEPT !.pc = "step", !.try = 1, !.mem.steps = @ + 1])
    /\ UNCHANGED <<storeVars, envVars>>

\* _run_step returned: _compensate ignores the value, _drive commits.
StepDone_Bug(x) == [x EXCEPT !.pc = "commit"]
StepDone(x) == [x EXCEPT !.pc = IF x.comp THEN "fail" ELSE "commit"]

\* PolicyDenied: _drive fails the run; _compensate swallows it, then fails it.
Denied(x) == [x EXCEPT !.pc = "fail"]

\* ConnectorError: retry up to max_attempts, then compensate once, then fail.
\* In _compensate there is one attempt and the error is swallowed.
\* An agent's next attempt starts its loop anew.
ConnectorFailed_BugForever(x) == [x EXCEPT !.pc = "step"]
ConnectorFailed_BugSwallowed(x) == [x EXCEPT !.pc = "commit"]
ConnectorFailed(x) ==
    IF ~x.comp /\ x.try < MaxAttempts[x.step]
    THEN [x EXCEPT !.pc = "step", !.try = @ + 1, !.turn = 0]
    ELSE IF ~x.comp /\ CompensateWith[x.step] # None
    THEN [x EXCEPT !.pc = "step", !.step = CompensateWith[x.step], !.comp = TRUE, !.turn = 0]
    ELSE [x EXCEPT !.pc = "fail"]

\* Any other error propagates out of resume with nothing saved, except that
\* _compensate swallows it.
Escaped(x) == [x EXCEPT !.pc = IF x.comp THEN "fail" ELSE "raised"]

\* WorkflowError, a lambda's KeyError, an unknown tool, a model that cannot be
\* reached or answers no JSON.
Escape(d) ==
    /\ dr[d].pc \in {"step", "call"} /\ At(d) \in EscapeAt
    /\ Put(d, Escaped(dr[d]))
    /\ UNCHANGED <<storeVars, envVars>>

\* The caller gets the exception (_safe_resume reloads the run) and the
\* thread is free again.
Return(d) ==
    /\ dr[d].pc = "raised"
    /\ Put(d, Idle)
    /\ UNCHANGED <<storeVars, envVars>>

\* The step that follows s.
Successor(s, ctx) == CASE NodeType[s] = "branch" -> Arm(s, ctx)
                       [] NodeType[s] = "terminate" -> None
                       [] OTHER -> NextOf[s]

\* cursor_step = next_id, SUCCEEDED at the end of the graph.
Advance_BugNoCursor(st, next) ==
    [st EXCEPT !.status = IF next = None THEN "succeeded" ELSE @]
Advance_BugSkip(st, next) ==
    [st EXCEPT !.cursor = IF next = None THEN None ELSE NextOf[next],
               !.status = IF next = None THEN "succeeded" ELSE @]
Advance(st, next) ==
    [st EXCEPT !.cursor = next, !.status = IF next = None THEN "succeeded" ELSE @]

\* `while step_id is not None`.
Continue_BugRunsOn(x, st, next) ==
    [x EXCEPT !.pc = "loop", !.step = next, !.mem = st, !.out = Unset, !.buf = NoEvents]
Continue(x, st, next) ==
    IF next = None THEN Idle
    ELSE [x EXCEPT !.pc = "loop", !.step = next, !.mem = st, !.out = Unset, !.turn = 0,
                   !.buf = NoEvents]

\* The durable barrier between two steps.
Commit(d) ==
    LET next == Successor(At(d), Mem(d).ctx)
        st   == Advance(Mem(d), next)
    IN  /\ dr[d].pc = "commit"
        /\ Checkpoint(dr[d].run, st, dr[d].buf)
        /\ Put(d, Continue(dr[d], st, next))
        /\ UNCHANGED envVars

\* status = FAILED, checkpoint, raise.
Fail(d) ==
    /\ dr[d].pc = "fail"
    /\ Checkpoint(dr[d].run, [Mem(d) EXCEPT !.status = "failed"], dr[d].buf)
    /\ Put(d, [dr[d] EXCEPT !.pc = "raised"])
    /\ UNCHANGED envVars

-----------------------------------------------------------------------------
(* Node handlers.                                                          *)

Booked(x, cost) == [x EXCEPT !.mem.cost = @ + cost, !.buf.cost = @ + cost]
Noted(x, type) == [x EXCEPT !.buf.audit = @ \cup {<<type, x.step>>}]
Stored(x, v) == [x EXCEPT !.mem.ctx[x.step] = v]

\* _run_branch and "terminate": no effect but the choice of the successor.
RunBranch(d) ==
    /\ dr[d].pc = "step" /\ NodeType[At(d)] \in {"branch", "terminate"}
    /\ Put(d, StepDone(dr[d]))
    /\ UNCHANGED <<storeVars, envVars>>

RunApproval(d) ==
    /\ dr[d].pc = "step" /\ NodeType[At(d)] = "approval"
    /\ Put(d, [dr[d] EXCEPT !.pc = "await"])
    /\ UNCHANGED <<storeVars, envVars>>

\* _run_tool, ledger hit: the recorded result, no policy check, no cost.
ReplayTool(d) ==
    /\ dr[d].pc = "step" /\ NodeType[At(d)] = "tool"
    /\ SideEffect[At(d)] /\ HasEffect(Key(d))
    /\ Put(d, StepDone(Stored(Noted(dr[d], "tool_result_replayed"), effects[Key(d)])))
    /\ UNCHANGED <<storeVars, envVars>>

\* Where the policy decision sends the driver.
Gate_BugNoApproval(x, effect) == [x EXCEPT !.pc = IF effect = "deny" THEN "fail" ELSE "execute"]
Gate(x, effect) == CASE effect = "deny"             -> Denied(x)
                     [] effect = "require_approval" -> [x EXCEPT !.pc = "await"]
                     [] effect = "allow"            -> [x EXCEPT !.pc = "execute"]

\* _run_tool, ledger miss: the policy decision on the resolved arguments.
GateTool(d) ==
    /\ dr[d].pc = "step" /\ NodeType[At(d)] = "tool"
    /\ ~(SideEffect[At(d)] /\ HasEffect(Key(d)))
    /\ Put(d, Gate(Noted(dr[d], "policy_decision"), Decide(At(d), Args(d))))
    /\ UNCHANGED <<storeVars, envVars>>

-----------------------------------------------------------------------------
(* _await_approval.                                                        *)

\* The tool name and amount in the approval_requested payload; an approval
\* node shows neither.
Shown(d) == IF NodeType[At(d)] = "tool" THEN Args(d) ELSE Unset

\* True: a tool goes on to execute, an approval node is done.
Proceed(x) == IF NodeType[x.step] = "tool" THEN [x EXCEPT !.pc = "execute"] ELSE StepDone(x)
Decided(x, status) == IF status = "approved" THEN Proceed(x) ELSE Denied(x)

\* Asynchronous: latest_approval, then request, pause again or go on.
CheckApproval(d) ==
    /\ AsyncApprovals
    /\ dr[d].pc = "await"
    /\ \/ /\ RequestsFor(dr[d].run, At(d)) = {}
          /\ Put(d, [dr[d] EXCEPT !.pc = "request"])
       \/ \E a \in Latest(dr[d].run, At(d)) :
             Put(d, IF approvals[a].status = "pending" THEN [dr[d] EXCEPT !.pc = "pause"]
                    ELSE Decided(dr[d], approvals[a].status))
    /\ UNCHANGED <<storeVars, envVars>>

\* create_approval; the request is announced when the buffer is flushed.
RequestApproval(d) ==
    /\ dr[d].pc = "request"
    /\ CreateApproval(dr[d].run, At(d), Shown(d))
    /\ Put(d, [dr[d] EXCEPT !.pc = "pause", !.buf.announced = @ \cup {Len(approvals) + 1}])
    /\ UNCHANGED envVars

\* WAITING_APPROVAL, checkpoint, raise _Paused: resume returns, while
\* _compensate swallows it and the run goes on to FAILED.
Pause(d) ==
    LET st == [Mem(d) EXCEPT !.status = "waiting_approval"]
    IN  /\ dr[d].pc = "pause"
        /\ Checkpoint(dr[d].run, st, dr[d].buf)
        /\ Put(d, IF dr[d].comp THEN [dr[d] EXCEPT !.pc = "fail", !.mem = st, !.buf = NoEvents]
                  ELSE Idle)
        /\ UNCHANGED envVars

\* Synchronous: a new request every time the step is tried...
AskApproval(d) ==
    /\ ~AsyncApprovals
    /\ dr[d].pc = "await"
    /\ CreateApproval(dr[d].run, At(d), Shown(d))
    /\ Put(d, [dr[d] EXCEPT !.pc = "asked", !.ask = Len(approvals) + 1,
                            !.buf.announced = @ \cup {Len(approvals) + 1}])
    /\ UNCHANGED envVars

\* ... which approval_fn answers and store.resolve_approval records.
AnswerApproval(d, ok) ==
    /\ dr[d].pc = "asked"
    /\ ResolveApproval(runs[dr[d].run].tenant, dr[d].ask, ok)
    /\ granted' = IF ok THEN granted \cup {<<dr[d].run, At(d), Shown(d)>>} ELSE granted
    /\ Put(d, Decided([dr[d] EXCEPT !.ask = 0], IF ok THEN "approved" ELSE "rejected"))
    /\ UNCHANGED <<posted, inflight, crashes, overlaps>>

-----------------------------------------------------------------------------
(* Executing the tool through its connector, and the external system.      *)

\* The receiver has an entry under the key of this call.  An agent's calls
\* carry no key: create_ap_entry falls back on the invoice number, a part of
\* the arguments, whoever calls.
Repeats(k, a) == IF NodeType[k[2]] = "agent"
                 THEN \E r \in RunIds : \E p \in Postings(<<r, k[2]>>) : p.args = a
                 ELSE Holds(k)

\* A receiver that honours the key keeps its first entry (create_ap_entry);
\* another posts every call (a webhook).
Post_BugIgnoresKey(k, a, v) ==
    posted' = IF Len(posted[k]) >= MaxPosts THEN posted
              ELSE [posted EXCEPT ![k] = Append(@, [args |-> a, result |-> v])]
Post(k, a, v) ==
    posted' = IF (Dedupes[k[2]] /\ Repeats(k, a)) \/ Len(posted[k]) >= MaxPosts THEN posted
              ELSE [posted EXCEPT ![k] = Append(@, [args |-> a, result |-> v])]

\* What it returns; the agent loop only shows it to the model.
Replies_Bug(k, a) == Outcomes(k[2], a)
Replies(k, a) == IF Holds(k) /\ Dedupes[k[2]] /\ NodeType[k[2]] = "tool"
                 THEN {posted[k][1].result} ELSE Outcomes(k[2], a)

\* What Connector.run leaves in its pool: of its attempts, every one that
\* timed out, which is at most `most`.  Calls alike differ by their number.
Leftovers(k, a, most) ==
    IF SideEffect[k[2]] /\ k[2] \in FaultyAt
    THEN {l \in {{<<k, a, i>> : i \in 1 .. n} \ inflight : n \in 0 .. MaxPosts} :
              Cardinality(l) <= most}
    ELSE {{}}
\* An attempt that answers ends the loop; a ConnectorError may follow them all.
LeftByAnswer(k, a) == Leftovers(k, a, MaxRetries)
LeftByError_BugOneMore(k, a) == Leftovers(k, a, MaxRetries + 2)
LeftByError(k, a) == Leftovers(k, a, MaxRetries + 1)

ExecuteOk(d) ==
    /\ dr[d].pc = "execute"
    /\ \E v \in Replies(Key(d), Args(d)) :
          /\ IF SideEffect[At(d)]
             THEN /\ Post(Key(d), Args(d), v)
                  /\ Put(d, [dr[d] EXCEPT !.pc = "record", !.out = v])
             ELSE /\ UNCHANGED posted
                  /\ Put(d, StepDone(Stored(Noted(Booked(dr[d], Cost[At(d)]), "tool_result"), v)))
    /\ \E l \in LeftByAnswer(Key(d), Args(d)) : inflight' = inflight \cup l
    /\ UNCHANGED <<storeVars, granted, crashes, overlaps>>

\* ConnectorError after the connector's own retries, or CircuitOpen.
ExecuteFail(d) ==
    /\ dr[d].pc = "execute" /\ At(d) \in FaultyAt
    /\ \E l \in LeftByError(Key(d), Args(d)) : inflight' = inflight \cup l
    /\ Put(d, ConnectorFailed(dr[d]))
    /\ UNCHANGED <<storeVars, posted, granted, crashes, overlaps>>

\* A timed-out call reaches the external system after all; of calls alike,
\* which cannot be told apart, the one with the highest number.
Land(c) ==
    /\ c \in inflight
    /\ \A b \in inflight : (b[1] = c[1] /\ b[2] = c[2]) => b[3] <= c[3]
    /\ \E v \in Replies(c[1], c[2]) : Post(c[1], c[2], v)
    /\ inflight' = inflight \ {c}
    /\ UNCHANGED <<storeVars, dr, granted, crashes, overlaps>>

\* record_effect, then the cost, the event and the context.
RecordTool(d) ==
    /\ dr[d].pc = "record"
    /\ RecordEffect(Key(d), dr[d].out)
    /\ Put(d, StepDone(Stored(Noted(Booked(dr[d], Cost[At(d)]), "tool_result"), dr[d].out)))
    /\ UNCHANGED envVars

-----------------------------------------------------------------------------
(* The agent loop (AgentRuntime.run, inside _run_agent): rounds of one     *)
(* model call, each answered with the result or with tool calls.  No store *)
(* call is made before the step's checkpoint: a call is gated by the       *)
(* policy, but it has neither an entry in the ledger nor an idempotency    *)
(* key, and a retry, crash or escape starts the loop anew.  Its events     *)
(* name no step and count by their cost only.                              *)

InLoop(d) == dr[d].pc = "step" /\ NodeType[At(d)] = "agent"
TurnLeft(d) == dr[d].turn < AgentOf[At(d)].turns

\* model.respond returns the result of the step...
ModelAnswers(d) ==
    /\ InLoop(d) /\ TurnLeft(d)
    /\ \E v \in Outcomes(At(d), Args(d)) :
          Put(d, StepDone(Stored(Booked(dr[d], Cost[At(d)]), v)))
    /\ UNCHANGED <<storeVars, envVars>>

\* ... or asks for n tool calls.
Asked_BugNoCount(x, n) == [x EXCEPT !.pc = "call", !.left = n]
Asked(x, n) == [x EXCEPT !.pc = "call", !.left = n, !.turn = @ + 1]
ModelCalls(d) ==
    /\ InLoop(d) /\ TurnLeft(d)
    /\ AgentOf[At(d)].calls # {} /\ dr[d].turn < AgentOf[At(d)].busy
    /\ \E n \in 1 .. MaxCalls : Put(d, Asked(Booked(dr[d], Cost[At(d)]), n))
    /\ UNCHANGED <<storeVars, envVars>>

\* MaxStepsExceeded.
TurnsUsedUp(d) ==
    /\ InLoop(d) /\ ~TurnLeft(d)
    /\ Put(d, Escaped(dr[d]))
    /\ UNCHANGED <<storeVars, envVars>>

\* _exec_call has returned: the next call of the round, or the next round.
Answered(x) == [x EXCEPT !.left = @ - 1, !.pc = IF x.left > 1 THEN "call" ELSE "step"]

\* An approval cannot be asked for inside the loop.
AgentMay_BugNoEscalation(s, a) == Decide(s, a) # "deny"
AgentMay(s, a) == Decide(s, a) = "allow"

RefuseCall(d) ==
    /\ dr[d].pc = "call"
    /\ \E a \in AgentOf[At(d)].calls : ~AgentMay(At(d), a)
    /\ Put(d, Answered(dr[d]))
    /\ UNCHANGED <<storeVars, envVars>>

ExecuteCall(d) ==
    /\ dr[d].pc = "call"
    /\ \E a \in AgentOf[At(d)].calls :
          /\ AgentMay(At(d), a)
          /\ IF SideEffect[At(d)] THEN \E v \in Replies(Key(d), a) : Post(Key(d), a, v)
                                  ELSE UNCHANGED posted
          /\ \E l \in LeftByAnswer(Key(d), a) : inflight' = inflight \cup l
    /\ Put(d, Answered(Booked(dr[d], AgentOf[At(d)].cost)))
    /\ UNCHANGED <<storeVars, granted, crashes, overlaps>>

\* ConnectorError in a call ends the loop: _run_step_with_retry sees it.
FailCall(d) ==
    /\ dr[d].pc = "call" /\ At(d) \in FaultyAt
    /\ \E a \in AgentOf[At(d)].calls :
          /\ AgentMay(At(d), a)
          /\ \E l \in LeftByError(Key(d), a) : inflight' = inflight \cup l
    /\ Put(d, ConnectorFailed(dr[d]))
    /\ UNCHANGED <<storeVars, posted, granted, crashes, overlaps>>

-----------------------------------------------------------------------------
(* What a driver does by itself once a request or a worker has started it. *)
DriverStep(d) ==
    \/ BudgetFail(d) \/ EnterStep(d) \/ Escape(d) \/ Return(d) \/ Commit(d) \/ Fail(d)
    \/ ModelAnswers(d) \/ ModelCalls(d) \/ TurnsUsedUp(d)
    \/ RefuseCall(d) \/ ExecuteCall(d) \/ FailCall(d)
    \/ RunBranch(d) \/ RunApproval(d) \/ ReplayTool(d) \/ GateTool(d)
    \/ CheckApproval(d) \/ RequestApproval(d) \/ Pause(d)
    \/ AskApproval(d) \/ (\E ok \in BOOLEAN : AnswerApproval(d, ok))
    \/ ExecuteOk(d) \/ ExecuteFail(d) \/ RecordTool(d)

Request(d) ==
    \/ \E t \in Tenants, k \in Keys, r \in RunIds : Fire(d, t, k, r)
    \/ \E r \in RunIds : Resume(d, r) \/ ResolveLoad(d, r)
    \/ \E a \in 1 .. Len(approvals), ok \in BOOLEAN : ResolveCommit(d, a, ok)

Next ==
    \/ \E d \in Drivers : Request(d) \/ DriverStep(d) \/ Crash(d)
    \/ \E r \in RunIds : Cancel(r)
    \/ \E t \in Tenants, old \in SUBSET (1 .. Len(approvals)) : Purge(t, old)
    \/ \E c \in inflight : Land(c)

Spec == Init /\ [][Next]_vars

-----------------------------------------------------------------------------
(* Properties that hold under any interleaving of drivers, cancels,        *)
(* approvals, crashes and late calls.                                      *)

\* Governance (workflow.py _run_tool): whatever interleaving, retry, crash
\* replay or late connector call happens, an external system never holds a
\* posting whose arguments the policy denies, nor one whose arguments need
\* approval unless an approver has granted a request of that run and step.
NoUngatedPosting ==
    \A k \in EffectKeys : \A p \in Postings(k) :
        /\ Decide(k[2], p.args) # "deny"
        /\ Decide(k[2], p.args) = "require_approval" =>
               \E shown \in Slot : <<k[1], k[2], shown>> \in granted

\* Exactly-once, the ledger's half: what record_effect has stored is an
\* effect the external system really holds, with the result it returned.
LedgerBacked ==
    \A k \in DOMAIN effects :
        /\ Holds(k)
        /\ Dedupes[k[2]] => effects[k] = posted[k][1].result

\* Exactly-once, the run's half: a checkpointed result of a mutating tool is
\* in the ledger, and against a receiver that honours the key it is the
\* ledger's result, even when two drivers executed the step at once.
ResultsAgree ==
    \A r \in DOMAIN runs, s \in Steps :
        (runs[r].st.ctx[s] # Unset /\ NodeType[s] = "tool" /\ SideEffect[s]) =>
            /\ <<r, s>> \in DOMAIN effects
            /\ Dedupes[s] => runs[r].st.ctx[s] = effects[<<r, s>>]

\* resume starts at wf.start when the cursor is None: a stored run has no
\* cursor exactly when it has succeeded, so a finished run is never started
\* again from the top and an unfinished one never looks finished.
FinishedIffSucceeded ==
    \A r \in DOMAIN runs : runs[r].st.cursor = None <=> runs[r].st.status = "succeeded"

\* A run stored as WAITING_APPROVAL waits for something: the approvals table
\* has a request for the step it stands at, or for that step's compensation.
WaitingHasRequest ==
    \A r \in DOMAIN runs : runs[r].st.status = "waiting_approval" =>
        \/ RequestsFor(r, runs[r].st.cursor) # {}
        \/ RequestsFor(r, CompensateWith[runs[r].st.cursor]) # {}

\* What one pass through step s can book: every attempt, with every round and
\* call of an agent, then one compensation.
AttemptCost(s) == IF NodeType[s] # "agent" THEN Cost[s]
                  ELSE AgentOf[s].turns * (Cost[s] + MaxCalls * AgentOf[s].cost)
StepCost(s) == MaxAttempts[s] * AttemptCost(s) +
               (IF CompensateWith[s] = None THEN 0 ELSE AttemptCost(CompensateWith[s]))

\* _drive calls Budget.check before a step, and not also "after each cost is
\* booked" as budgets.py says: a run can exceed its budget in its last step
\* and succeed.  What the code does keep: however often a run pauses, crashes
\* and is resumed, by however many drivers, it stops at most one step past
\* max_steps and one step's cost past budget_usd.
OvershootIsOneStep ==
    \A r \in DOMAIN runs :
        /\ runs[r].st.steps <= MaxSteps + 1
        /\ \E s \in Steps : runs[r].st.cost <= MaxUsd + StepCost(s)

\* Checkpoints are atomic: a tool result in the stored context always comes
\* with its tool_result or tool_result_replayed event in the trace.
ResultsAudited ==
    \A r \in DOMAIN runs, s \in Steps :
        (runs[r].st.ctx[s] # Unset /\ NodeType[s] = "tool") =>
            \E type \in {"tool_result", "tool_result_replayed"} : <<type, s>> \in trace[r].audit

\* Trigger dedup and the ledger key together: for one trigger of a tenant a
\* step posts in the name of one run only.
OnePostingPerTrigger ==
    \A j, k \in EffectKeys :
        (/\ Holds(j) /\ Holds(k) /\ j[2] = k[2]
         /\ runs[j[1]].tenant = runs[k[1]].tenant /\ runs[j[1]].key = runs[k[1]].key) => j = k

-----------------------------------------------------------------------------
(* Shapes of a workflow that some properties are about.  The engine does   *)
(* not insist on them: a step may name any other.                          *)

\* Step c undoes some step.
Compensates(c) == c \in Steps /\ \E s \in Steps : CompensateWith[s] = c

\* A compensating step is reached through compensate_with only.
CompensationOffPath ==
    \A c \in Steps : Compensates(c) =>
        c # Start /\ \A s \in Steps, ctx \in Context : Successor(s, ctx) # c

\* A compensating step undoes one step only.
CompensationsDiffer ==
    \A s, t \in Steps : (CompensateWith[s] # None /\ CompensateWith[s] = CompensateWith[t]) => s = t

\* The steps have ranks that grow along the graph: no run visits one twice.
Forward(rank) ==
    \A s \in Steps, ctx \in Context :
        Successor(s, ctx) # None => rank[Successor(s, ctx)] > rank[s]
Acyclic == \E rank \in [Steps -> Nat] : Forward(rank)

\* Models can be reached and answer within their turns.
AgentsAnswer ==
    \A s \in Steps : NodeType[s] = "agent" => s \notin EscapeAt /\ AgentOf[s].busy < AgentOf[s].turns

-----------------------------------------------------------------------------
(* Properties of one driver per run at a time (MaxOverlaps = 0), with      *)
(* crashes at every point.                                                 *)

\* A terminal run never changes again.
TerminalIsFinal ==
    [][\A r \in DOMAIN runs : runs[r].st.status \in Terminal => runs'[r].st = runs[r].st]_vars

\* The durable cursor only moves along the graph: from a step to the
\* successor the stored context selects.
CursorFollowsGraph ==
    [][\A r \in DOMAIN runs : runs'[r].st.cursor # runs[r].st.cursor =>
           runs'[r].st.cursor = Successor(runs[r].st.cursor, runs'[r].st.ctx)]_vars

\* Cost is rolled up from events to the run: the stored total is the sum of
\* the cost of the stored events, across pauses, retries and crashes.
CostIsTraced == \A r \in DOMAIN runs : runs[r].st.cost = trace[r].cost

\* A driver about to execute a mutating tool has not overlooked a ledger
\* entry: once recorded, a side effect is replayed and not executed again.
\* (A recorded null is the exception: get_effect cannot tell it from none.)
RecordedIsNotExecuted ==
    \A d \in Drivers : (dr[d].pc = "execute" /\ SideEffect[At(d)] /\ Key(d) \in DOMAIN effects) =>
        effects[Key(d)] = Null

\* Saga: a compensating step runs "on terminal failure" (workflow.py), so it
\* posts only for a run that does not succeed.  True without crashes: one
\* between the compensation and the FAILED checkpoint lets the resumed run try
\* the compensated step again.
CompensatedNeverSucceeds ==
    \A r \in DOMAIN runs, s \in Steps :
        (CompensateWith[s] # None /\ Holds(<<r, CompensateWith[s]>>)) =>
            runs[r].st.status # "succeeded"

\* An agent's calls are not in the ledger: every attempt and every crash
\* before the step's checkpoint may repeat them, and each of the max_retries + 1
\* attempts of a connector may land, at once or late.  That is all: where
\* models answer within their turns, a finished loop is never entered again,
\* so what a receiver that ignores keys holds of an agent step is bounded by
\* the crashes (agent.py _exec_call, connectors.py Connector.run).
AgentEffort(s) == MaxAttempts[s] * AgentOf[s].busy * MaxCalls *
                  (IF s \in FaultyAt THEN MaxRetries + 1 ELSE 1)
AgentRepeatsAreBounded ==
    \A k \in EffectKeys : NodeType[k[2]] = "agent" =>
        Len(posted[k]) <= (crashes + 1) * AgentEffort(k[2])

\* What was posted is what the approver saw ("Approvers see the proposed
\* action, arguments, ...", docs/05-security-governance.md): same run, step and
\* arguments, although latest_approval knows run and step only.
PostedAsApproved ==
    \A k \in EffectKeys : \A p \in Postings(k) :
        Decide(k[2], p.args) = "require_approval" => <<k[1], k[2], p.args>> \in granted

-----------------------------------------------------------------------------
(* Liveness.  A started thread keeps running until it returns or dies;     *)
(* where a worker exists, it resumes a run that a crash left behind; an    *)
(* approver answers an announced request of a waiting run.                 *)

Recover(d, r) == runs[r].st.status \in {"pending", "running"} /\ ~Driven(r) /\ Resume(d, r)
Review(d, r) == runs[r].st.status = "waiting_approval" /\ ~Driven(r) /\ ResolveLoad(d, r)
Answer(d) == \E a \in 1 .. Len(approvals), ok \in BOOLEAN :
                 approvals[a].run = dr[d].run /\ ResolveCommit(d, a, ok)

Fairness ==
    \A d \in Drivers :
        /\ WF_vars(DriverStep(d))
        /\ WF_vars(Answer(d))
        /\ \A r \in RunIds : WF_vars(r \in DOMAIN runs /\ Recover(d, r))
        /\ \A r \in RunIds : WF_vars(r \in DOMAIN runs /\ Review(d, r))

FairSpec == Spec /\ Fairness

\* Every accepted run ends: no crash, retry, rejected approval, failed
\* compensation or spent budget leaves it in limbo.
EveryRunEnds ==
    \A r \in RunIds : (r \in DOMAIN runs) ~> (r \in DOMAIN runs /\ runs[r].st.status \in Terminal)

-----------------------------------------------------------------------------
(* What the repository's text says of the program and the code does not    *)
(* guarantee.                                                              *)

\* docs/10-operations.md, incident response: "a canceled run posts nothing".
CanceledPostsNothing ==
    [][\A k \in EffectKeys : (k[1] \in DOMAIN runs /\ runs[k[1]].st.status = "canceled") =>
           posted'[k] = posted[k]]_vars

\* docs/05-security-governance.md: "The run pauses; approvers are notified":
\* a waiting run has announced a request.
WaitingIsAnnounced ==
    \A r \in DOMAIN runs : runs[r].st.status = "waiting_approval" => trace[r].announced # {}
=============================================================================
