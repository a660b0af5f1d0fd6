------------------------------- MODULE Store -------------------------------
(***************************************************************************)
(* The durable store (SQLiteStore in store.py, PostgresStore in            *)
(* store_postgres.py, both behind the Store protocol): the tables runs,    *)
(* events, approvals and tool_effects, and the operations on them.  Every  *)
(* method takes the lock (or a transaction) for its whole body, so each    *)
(* operation below is one atomic step; a caller that needs two of them     *)
(* can be interleaved with other callers, or die, in between.              *)
(*                                                                         *)
(* Data abstraction:                                                       *)
(*  - a table is a partial function, a key is in its DOMAIN iff the row    *)
(*    exists; the approvals table is a sequence in order of requested_at,  *)
(*    rowid, and an approval's id is its position;                         *)
(*  - a context maps each step to the value it left there, or Unset;       *)
(*  - the event log of a run is what the properties read in it: the sum of *)
(*    cost_usd, the approval ids its approval_requested payloads carry,    *)
(*    and which audit events it holds for which step;                      *)
(*  - money is counted in whole units; timestamps, names, results (a       *)
(*    function of the context) and payload texts are left out.             *)
(***************************************************************************)
EXTENDS Naturals, Sequences

CONSTANTS
    Tenants,    \* tenant ids
    RunIds,     \* fresh ids handed out by new_id("run")
    Keys,       \* idempotency keys derived from triggers
    Steps,      \* step ids of the workflow
    Values,     \* what a step may leave in the context
    Null,       \* JSON null, one of the Values
    Unset,      \* the context has no entry
    None        \* Python's None for a cursor or a step

ASSUME ValueAssumption == Null \in Values /\ Unset \notin Values
ASSUME StepAssumption == None \notin Steps

VARIABLES
    runs,       \* run id -> row
    trace,      \* run id -> what its event rows say
    approvals,  \* sequence of approval rows
    effects     \* <<run, step>> -> recorded result: the side-effect ledger

storeVars == <<runs, trace, approvals, effects>>

-----------------------------------------------------------------------------
(* Rows.                                                                   *)

Terminal == {"succeeded", "failed", "canceled"}
RunStatus == {"pending", "running", "waiting_approval"} \cup Terminal

Slot == Values \cup {Unset}
Context == [Steps -> Slot]

\* What a checkpoint writes: the mutable part of a Run.
RunState == [status : RunStatus, cursor : Steps \cup {None}, ctx : Context,
             cost : Nat, steps : Nat]
RunRow == [tenant : Tenants, key : Keys, st : RunState]

AuditTypes == {"policy_decision", "tool_result", "tool_result_replayed"}

\* A batch of events, and equally the sum of a run's batches.
Batch == [cost : Nat, announced : SUBSET Nat, audit : SUBSET (AuditTypes \X Steps)]
NoEvents == [cost |-> 0, announced |-> {}, audit |-> {}]
Join(a, b) == [cost |-> a.cost + b.cost, announced |-> a.announced \cup b.announced,
               audit |-> a.audit \cup b.audit]

\* `shown` is not a column: it is the arguments the approval_requested event
\* of the request displays to the approver.
ApprovalStatus == {"pending", "approved", "rejected"}
ApprovalRow == [tenant : Tenants, run : RunIds, step : Steps,
                status : ApprovalStatus, shown : Slot]

\* The ledger key f"{run.id}:{step.id}:{step.tool}": a step names one tool.
EffectKeys == RunIds \X Steps

Insert(f, k, v) == [x \in DOMAIN f \cup {k} |-> IF x = k THEN v ELSE f[x]]

StoreTypeOK ==
    /\ DOMAIN runs \subseteq RunIds /\ runs \in [DOMAIN runs -> RunRow]
    /\ trace \in [RunIds -> Batch]
    /\ approvals \in Seq(ApprovalRow)
    /\ DOMAIN effects \subseteq EffectKeys /\ effects \in [DOMAIN effects -> Values]

StoreInit ==
    /\ runs = <<>>
    /\ trace = [r \in RunIds |-> NoEvents]
    /\ approvals = <<>>
    /\ effects = <<>>

-----------------------------------------------------------------------------
(* Runs.                                                                   *)

\* UNIQUE (tenant_id, idempotency_key) of the runs table.
KeyTaken_Bug(t, k) == FALSE
KeyTaken(t, k) == \E r \in DOMAIN runs : runs[r].tenant = t /\ runs[r].key = k

\* create_or_get_run when the key is new.  When it is taken the method
\* returns the existing run and changes nothing.
CreateRun(t, k, r, st) ==
    /\ r \notin DOMAIN runs
    /\ ~KeyTaken(t, k)
    /\ runs' = Insert(runs, r, [tenant |-> t, key |-> k, st |-> st])
    /\ UNCHANGED <<trace, approvals, effects>>

\* checkpoint: run state and new events in one transaction, whatever the
\* row holds by now.
Checkpoint_BugDropsEvents(r, st, batch) ==
    /\ runs' = [runs EXCEPT ![r].st = st]
    /\ trace' = trace
    /\ UNCHANGED <<approvals, effects>>
Checkpoint(r, st, batch) ==
    /\ runs' = [runs EXCEPT ![r].st = st]
    /\ trace' = [trace EXCEPT ![r] = Join(@, batch)]
    /\ UNCHANGED <<approvals, effects>>

\* cancel_run on a run that is not terminal; on a terminal one it returns
\* False and changes nothing.  The run_canceled event carries no cost.
CancelRun(r) ==
    /\ r \in DOMAIN runs
    /\ runs[r].st.status \notin Terminal
    /\ runs' = [runs EXCEPT ![r].st.status = "canceled"]
    /\ UNCHANGED <<trace, approvals, effects>>

\* purge_event_payloads empties the payloads of a tenant's older events, the
\* announced approval ids with them; rows, types and costs stay.  Which ids
\* are `old` is a matter of when their events were written.
PurgeEventPayloads_BugDeletesRows(t, old) ==
    /\ \E r \in DOMAIN runs : runs[r].tenant = t /\ trace[r].announced \cap old # {}
    /\ trace' = [r \in RunIds |-> IF r \in DOMAIN runs /\ runs[r].tenant = t
                                  THEN NoEvents ELSE trace[r]]
    /\ UNCHANGED <<runs, approvals, effects>>
PurgeEventPayloads(t, old) ==
    /\ \E r \in DOMAIN runs : runs[r].tenant = t /\ trace[r].announced \cap old # {}
    /\ trace' = [r \in RunIds |-> IF r \in DOMAIN runs /\ runs[r].tenant = t
                                  THEN [trace[r] EXCEPT !.announced = @ \ old] ELSE trace[r]]
    /\ UNCHANGED <<runs, approvals, effects>>

-----------------------------------------------------------------------------
(* The side-effect ledger.                                                 *)

\* get_effect(key) is not None.  A recorded null decodes to None and cannot
\* be told from a missing row.
HasEffect_Bug(k) == FALSE
HasEffect(k) == k \in DOMAIN effects /\ effects[k] # Null

\* record_effect: INSERT OR IGNORE, the first result stays.
RecordEffect_BugLost(k, v) == UNCHANGED storeVars
RecordEffect(k, v) ==
    /\ effects' = IF k \in DOMAIN effects THEN effects ELSE Insert(effects, k, v)
    /\ UNCHANGED <<runs, trace, approvals>>

-----------------------------------------------------------------------------
(* Approvals.                                                              *)

CreateApproval_BugLost(r, s, shown) == UNCHANGED storeVars
CreateApproval(r, s, shown) ==
    /\ approvals' = Append(approvals, [tenant |-> runs[r].tenant, run |-> r, step |-> s,
                                       status |-> "pending", shown |-> shown])
    /\ UNCHANGED <<runs, trace, effects>>

\* resolve_approval checks the tenant only: a decided approval can be
\* decided again.
ResolveApproval(t, a, granted) ==
    /\ a \in 1 .. Len(approvals)
    /\ approvals[a].tenant = t
    /\ approvals' = [approvals EXCEPT ![a].status = IF granted THEN "approved" ELSE "rejected"]
    /\ UNCHANGED <<runs, trace, effects>>

RequestsFor(r, s) == {a \in 1 .. Len(approvals) : approvals[a].run = r /\ approvals[a].step = s}

\* latest_approval: the newest request, if there is one.
Latest(r, s) == {a \in RequestsFor(r, s) : \A b \in RequestsFor(r, s) : b <= a}
=============================================================================
