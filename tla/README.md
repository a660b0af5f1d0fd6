# TLA+ verification of the Bass platform

Bass (`reference/bass`) runs business workflows with AI agents in them: a
trigger starts a *run*, the engine drives it through a graph of steps, every
tool call passes a policy gate and possibly a human approval, and the run must
survive crashes without doing anything twice. This directory models that core in
TLA+, model-checks it with TLC and proves its safety properties, and the refinement
of an abstract specification, for every instance with TLAPS.

## 1. Inventory

| Part | State | Operations | Talks to |
|------|-------|------------|----------|
| Durable store `store.py`, `store_postgres.py` | tables runs, events, approvals, tool_effects | create_or_get_run, checkpoint, cancel_run, get_effect / record_effect, create_approval / resolve_approval / latest_approval, reads, purge_event_payloads | everybody; one lock or transaction per method |
| Workflow engine `workflow.py`, `budgets.py` | a Run object and an event buffer per driver | resume, _drive, one handler per node type, _run_step_with_retry, _compensate, _await_approval | store, policy, connectors, agent runtime |
| API service `api.py` | none of its own | fire, resolve_approval, cancel, reads | engine in the request's thread, store, rate limiter |
| Orchestrator `orchestrator.py` | none | fire (trigger dedup), resume_run | engine, store |
| Out-of-band runner `runner.py`, `temporal_adapter.py` | none | resume a stored run by id | engine |
| Policy `policy.py` | an ordered list of policies | check | engine, agent runtime |
| Connector `connectors.py` | breaker counters, a thread pool | run: breaker, timeout, retries | external systems |
| Tools, accounting system `tools.py`, `webhook.py` | entries by idempotency key | create_ap_entry, lookup_vendor, webhook post | – |
| Agent runtime `agent.py` | none between steps | run: model calls and tool calls in a loop | model provider, tools, policy |
| Scheduler `schedule.py` | a list of schedules | due, tick | orchestrator |
| Migrations `migrate.py`, row security | schema_migrations, policies on the tables | run, apply_row_level_security | PostgreSQL |
| Rate limiter `ratelimit.py` | counters per tenant and window | allow | API |
| Redaction, auth, providers, config, secrets, observability, tracing, console | none that changes over time | – | – |

What is hard here, and what correctness means for each part (`PROJECT.json`
lists every hazard at its line):

* **Engine and store.** Nothing keeps two drivers off one run: an approver who
  clicks twice, a worker whose activity timed out, an operator's resume. Each
  works on a copy loaded earlier and a checkpoint overwrites the whole row. A
  process can die between any two store or external calls. Correct means: no
  posting without the policy's leave, the ledger agrees with the outside world
  and with the runs, a terminal run stays as it is, cost and audit trail agree
  with the run, the budget bounds it, and every run ends.
* **Approvals.** The request, its announcement and the pause are separate
  writes; the answer arrives from another thread at any time, more than once.
  Correct means: a waiting run can be answered, and what is posted is what was
  approved.
* **Agent loop.** The model chooses tools in the middle of a step; what it does there
  is gated, but neither keyed nor recorded, and a retry, a resume or a crash starts
  the loop again. Correct means: no call gets past the policy, and what is repeated
  is bounded by the restarts.
* **Connector.** Request threads share a breaker without a lock; a timed-out call
  is not cancelled but goes on in the pool. Correct means: an open breaker sheds
  load and closes again, every call returns.
* **Intake.** Replicas of the scheduler tick in the same minute, ticks outlast
  minutes, a fire may raise in the middle; sources deliver a message twice; HTTP
  callers compute their rate-limit window before they take the limiter's lock.
  Correct means: one run per event on whichever path it comes, only due schedules,
  every due one reached, and no more requests in a window than the limit, but for
  the late callers of one that is over.
* **PostgreSQL.** Migrators race and die while requests run. Correct means: tenants
  stay apart, the migration ledger is true, the store keeps working.

## 2. Modules

```
Store        the tables and the store's methods           (no behaviour of its own)
  Engine     drivers, API, worker, approvals, agent loop, external systems; properties
    EngineProofs         type correctness, for every workflow
      ExactlyOnceProofs  ledger, results, audit trail, trigger dedup
      LifecycleProofs    cursor and status, pending requests, the budget
        SoloProofs       one driver per run: cost, replay, finality, the refinement,
                         the saga, an agent's repeated calls (uses Durability)
          GovernanceProofs   no posting without the policy's leave, requests are
                             announced, postings are as approved
    Durability           the refinement: Engine implements RunLifecycle
      MCInvoice          the reference workflow under the default policies (with Policy)
      MCSaga             approval node, retries, compensation, an agent with tools
RunLifecycle what a run promises to somebody who sees no drivers  (abstract)
Policy       PolicyEngine.check and default_policies as operators
Connector    one connector with its breaker and pool
  ConnectorProofs        types, ownership of pool calls, load shedding
Postgres     PostgresStore, row security and bass-migrate together;  MCPostgres: symmetry
  PostgresProofs         types, tenant isolation, the migration ledger
Triggers     derive_idempotency_key and the dedup         (no behaviour of its own)
  Scheduler  cron matcher and tick                        (composed in Intake)
    Intake   HTTP callers behind RateLimiter next to the scheduler's replicas
      IntakeProofs       types, dedup, due slots, catching up, the rate limit
      MCIntake           sample schedules, requests and dates
RateLimiter  both fixed-window limiters                   (no behaviour of its own)
```

`PROJECT.json` maps every definition to its source lines. The main
correspondences:

* **Store.** Tables are partial functions (`runs`, `effects`) or sequences
  (`approvals`: an approval's id is its position). The event table is kept as
  `trace[r]`: the sum of costs, the announced approval ids, the audit events per
  step. `HasEffect` has the code's quirk that a recorded `null` reads as no entry.
* **Engine.** `dr[d]` is a thread inside `engine.resume`: its program counter, its
  copy of the Run (`mem`) and its event buffer (`buf`). One action is one call to
  the store or to an external system with the local computation around it:
  `loop` is the head of `_drive`; `step` the dispatch on the node type; `await`,
  `request`, `pause`, `asked` are `_await_approval`; `execute`, `record` the two
  halves of `_run_tool`; `commit`, `fail` the checkpoints of `_drive`; `raised`
  the exception on its way to the caller; `call` is `_exec_call` of the agent loop,
  with the rounds taken (`turn`) and the calls of the round still to do (`left`). `resolving` is an API
  `resolve_approval` between its `load_run` and its commit. `Crash` drops a
  thread's copy and buffer. `posted` is what external systems hold per ledger
  key, `inflight` the timed-out calls still in a connector's pool: a call of
  `Connector.run` leaves up to `MaxRetries` behind when it answers and `MaxRetries + 1`
  when it fails, each of which may land later (`Leftovers`, `Land`); `granted` is a
  history of what approvers have granted. The workflow, the policy and the
  receivers are CONSTANTS.
* **Agent loop.** `ModelAnswers` and `ModelCalls` are a round that ends the step or asks
  for tools; each call is refused (`RefuseCall`: an approval cannot be asked for in
  the loop), executed or fails; `TurnsUsedUp` is MaxStepsExceeded. What the model may
  ask for is the constant `AgentOf`. Its calls carry no ledger key, so `Repeats` is
  what `create_ap_entry` falls back on, the invoice number. Nothing is stored before
  the step's checkpoint: the events and bookings of a loop that is cut off are lost.
* **RunLifecycle and Durability.** The abstract specification has the phase of a run,
  the step it has reached, what the outside world holds and which calls are on their
  way; it knows no drivers, copies, retries, ledger or crashes. The mapping reads
  `phase` and `at` off the runs table, `held` off `posted` and `sent` off `inflight`.
* **Connector.** `caller[c]` is a thread inside `Connector.run`, `queue` and `worker`
  the pool. A thread can lose the processor where the code calls out of the
  breaker: to the pool, the operation, or the clock, so `allow` and
  `record_failure` are two steps each (the comparison reads `_opened_at` again).
* **Postgres.** A store method is one transaction. `Visible` is what the policy of
  `RLS_SQL` lets through for the session's `bass.tenant_id`, which no statement of
  the store sets. `mig[m]` is a `Migrator.run`: DDL and ledger row are separate
  statements, committed together.
* **Triggers.** A trigger is what happened (`event`, which the code does not see), its
  identifying fields and the rest of it. The key is the first field that is filled
  in, or else a hash of the rest.
* **Intake and RateLimiter.** `caller[c]` is a thread in `ApiService.fire`: `Enter` computes
  the bucket, `Count` takes the limiter's lock, `Fire` creates or finds the run; other
  callers, ticks, a new minute or a restart come in between. One tenant is modelled;
  whether the other tenants have filled the table, so that this call purges it, is
  a free choice. A window is a minute of the calendar.
* **Scheduler.** A cron field is `{}` for `*` or a set of parts from/to/step.
  `tick[r]` has what a replica still has to fire, as positions in the list of
  schedules, which it takes in order; creating a run and
  driving it are separate steps, since the latter lasts and may raise.

## 3. Runs

| Run | Instance | Shows |
|-----|----------|-------|
| InvoiceOverlap | invoice workflow, 2 drivers, 1 crash, 2 overlapping requests, late calls | governance, ledger, results, cursor, pending requests, budget, audit trail and trigger dedup hold under any interleaving |
| InvoiceSequential | 2 runs, one driver at a time, 2 crashes, an escaping error, a retention job | cost equals the trace, a recorded effect is not executed again, postings are as approved, terminal runs are final, the cursor follows the graph; Engine implements RunLifecycle |
| SagaAsync | compensation, approval node, compensation that needs approval, an agent that calls a mutating tool and may use up its turns, no crash | a compensated run never succeeds; a waiting run has an announced request; the agent never posts what needs approval; Engine implements RunLifecycle |
| SagaLive | synchronous approvals, 2 crashes, faulty connectors with a retry each, an agent whose calls the receiver does not dedupe, fairness | every run ends; cost equals the trace; an agent's calls reach (crashes + 1) × attempts × rounds × calls × (max_retries + 1) postings, here 6, and no more |
| Connector | 2 callers, 2 workers, 1 outage, fairness | load is shed, every call returns, the breaker closes once the system is healthy |
| Postgres | 2 tenants, 2 migrators, exempt and bound role | tenant isolation in reads and writes, truthful migration ledger |
| Scheduler | 2 replicas, 4 schedules, 2 minutes, 2 HTTP callers with 4 requests, both limiters, 1 restart | one run per event, only due slots, repeated ticks reach every due schedule, the limit of a window is kept while it lasts, and exceeded later by its late callers only; the cron matcher agrees with the calendar of a month |
| CancelRace | expected violation | a canceled run can still post |
| LostAnnouncement | expected violation | a crash can leave a run waiting for a request nobody was told of |
| NoRecovery | expected violation, fairness | without a worker, nothing resumes a run after a crash |
| BreakerRace | expected violation | the breaker can raise TypeError |
| RlsLockout | expected violation | the second migration locks out a store of the documented role |

The violations are disagreements between the code and what the repository says of
it; `PROJECT.json` ("findings") quotes the lines. Two more findings belong to passing runs,
whose properties state what the code keeps where the text claims more:
`OvershootIsOneStep` (`budgets.py` also speaks of a check after each cost; without it a run
that overspends in its last step succeeds) and `WithinLimit` (the limiter's docstring knows
no late callers).

**The refinement.** `Implements` says that with one driver on a run at a time, crashes,
retries, resumes, ledger replays, compensations and late connector calls are invisible
to somebody who sees only the runs table and the external systems: a run is accepted
once, moves along the graph and ends for good; only a live run calls out, for the step
it has durably reached or its compensation; a receiver that honours the key gets one
posting of a step; a run does not leave a mutating step before its effect is there.
With overlapping drivers it does not hold (CancelRace is one reason).

**Bounds.** `MaxCrashes`, `MaxOverlaps`, `MaxPosts` and `MaxCalls` (Engine; its
`MaxRetries` is the connector's setting), `MaxStrays`
and `MaxOutages` (Connector), `MaxTicks` (Scheduler), `MaxRequests` and `MaxRestarts`
(Intake); the limiter's counters stop at one above `Limit`. One crash with two overlapping
requests lets a crashed driver's run be picked up twice, once from a stale copy;
two crashes without overlap reach a crash during the recovery from a crash. Two
postings per key are enough to see a second one; SagaLive remembers seven, one more than its
bound of six, which is reached. With one retry a call that fails leaves two in flight. In InvoiceOverlap the extraction costs 1 and the posting 3 against a budget
of 2, so that both halves of `OvershootIsOneStep`, steps and cost, are reached. One call per round, or two in SagaAsync, let an allowed
call and a refused one follow each other. The invoice workflow has every
node type but approval and terminate, which the saga has; its two amounts lie on
both sides of the policy's limit. Two callers and a threshold of two let a
success, a trip and a trial of different threads interleave; one remembered
stray call shows a late answer, more of them only lengthen the queue. In
Postgres two tenants that use the same key with two run ids make duplicates and
foreign ids happen; symmetry of tenants, runs and migrators is used, no temporal property is
checked there. In Scheduler, `MaxTicks` is the largest number of schedules due in a
minute, where the counter stops mattering; two minutes are two rate-limit windows, the
first with two due schedules, the second with an expression that raises; four requests
against a limit of one let a late caller, one that purges its window, a caller within the
limit and one beyond it meet. Replicas and callers are symmetric there, runs, keys and drivers in the invoice
runs; no property of these runs is a liveness property.

CHECK_DEADLOCK is off for the Engine runs only: when every run has ended and the
triggers are used up, the system rightly stops.

**Fairness.** Engine (`FairSpec`): a started thread keeps running until it returns
or dies (Python threads are scheduled); where a worker exists it resumes a run
left pending or running (Temporal redelivers activities); an approver answers an
announced request of a waiting run; models answer within `Agent.max_steps` rounds
(`SagaTimely`): one that never does raises MaxStepsExceeded on every resume, its run
stays RUNNING, and no budget stops it because nothing is checkpointed. Nothing forces triggers, cancels, crashes or
late calls. NoRecovery drops only the worker. Connector: threads and workers run,
time passes, tools keep being called, and a call that hangs ends once the
external system is healthy; a hung call during an outage need never end.

## 4. Proofs

Every theorem holds for any number of drivers, runs, tenants, replicas, callers,
workers and migrators, for every workflow graph, policy, receiver, list of schedules and
calendar, and for any bound. `PROJECT.json` ("theorems") lists them with the property
each states; the runs check the same properties on the instances of section 3.

**Assumptions.** The named ASSUMEs of the modules, which TLC evaluates on every run.
Engine: `ValueAssumption` and `StepAssumption` (null is a value, "unset" is none, `None`
is no step), `WorkflowAssumption` (the workflow's fields have their types; a step has at
least one attempt, `MaxRetries` is a number), `FunctionAssumption` (arguments, decisions, branches and outcomes are
of their types). Connector: `ConfigAssumption` (numbers are numbers, callers are finitely
many, the markers `Stray` and `Free` are no callers). Postgres: its migrations have
distinct ids and no tenant is the marker for none. Intake: `DistinctIds`,
`SlotsAreEvents`, `ScheduleAssumption`, `LimitAssumption`, `IntakeAssumption` (among others,
that the callers are finitely many). Where a
theorem needs more, it says so in its own hypotheses; these are described below.

**Engine, any overlap of drivers.**

* `TypeCorrect`. `TypeOK` is inductive as it stands because it says, beyond the types, that
  an active driver works on a stored run, has a step in hand, has a result in hand when it
  records one, and has calls left to do when it is between two calls of an agent.
* `Governance`. `NoUngatedPosting` is not inductive: a driver carries the permission it got
  at the gate to the external call across an approval, a pause or a retry, and a timed-out
  call carries it past the end of the run. `Governed` says what each is entitled to:
  `GatedDrivers`, `GatedCalls`, `GatedPostings`, `ApprovedIsGranted` (an approved row was
  granted by somebody), `Asking` (a synchronous request's answer belongs to the asking
  driver). The heart is that permissions are never revoked (`PermittedStays`) and that a
  driver's arguments do not change between the gate and the call.
* `LedgerIsBacked`, `StoredResultsAgree`. The invariant `ExactlyOnce` adds `DriversBacked` (a
  driver about to record holds a result the external system holds, the first one where
  the key is honoured) and `CopiesAgree` (the contexts of copies agree with the ledger too,
  since any of them may be the next to overwrite the row). The first posting of a key and
  a ledger entry never change (`Keeps`, `Includes`).
* `StoredResultsAreAudited`. The invariant `Audit` follows the events of a result through
  the buffer: what a copy knows is in the trace or in its own buffer (`CopiesLogged`).
* `TriggersPostOnce`. `Dedup`: keys are unique in the table, and whatever is posted or in
  flight is in the name of a stored run.
* `OnlyFinishedRunsHaveNoCursor`, `WaitingRunsHaveARequest`. `LifecycleInv` states them for the
  copies as well: a driver's copy has a cursor until the run is done, and one that is about
  to pause has its request on file.
* `BudgetIsOvershotOnce`. `Budgeted` is an account: what a copy has spent plus what the
  current attempt may still book is within `MaxUsd` plus the cost of the attempts, agent
  rounds and calls made so far in this pass. The check before a step is all there is:
  `budgets.py` also speaks of one after each cost, which the code does not make.

**Engine, one driver per run at a time** (`SoloProofs`; every theorem assumes
`MaxOverlaps = 0`, the case of the runs InvoiceSequential, SagaAsync and SagaLive; with
overlapping drivers each of them is false, CancelRace shows one way). `Solo` says that no
two drivers are on one run (`Alone`) and that a driver's copy is in step with the row, the
trace and the ledger (`InSync`); a step of one driver leaves the runs of all others
`Untouched`. From it follow `StoredCostIsTraced`, `RecordedEffectsAreReplayed`, the action
properties `EndedRunsStay` and `CursorStaysOnGraph`, and `EngineImplementsLifecycle`, the
refinement: initial states map to initial states, and each kind of step maps to one action
of RunLifecycle or to a stutter.

Four more properties depend on the shape of the workflow, which the engine accepts as it
is given. The section "Shapes of a workflow" of Engine names what the theorems assume:
`CompensationOffPath` (a compensating step is reached through `compensate_with` only),
`CompensationsDiffer` (it undoes one step only), `Acyclic` (no run comes back to a step) and
`AgentsAnswer` (models can be reached and answer within `max_steps` rounds). The first three
are true of the invoice and the saga workflow: TLC evaluates them as the ASSUMEs
`InvoiceShape` and `SagaShape`; `AgentsAnswer` is what `SagaTimely` adds in SagaLive.

* `CompensatedRunsFail` (`CompensationOffPath`, as long as no process has died). The invariant
  `Saga`: stored cursors are no compensating steps, and a run for which a compensating step
  has posted, or may still post through a late call, is lost: it is failed or
  canceled, or its driver is still compensating, on the way to the FAILED checkpoint (a
  compensation that pauses for an approval has not called out yet). After a crash it is
  false: the resumed run tries the compensated step again, and may succeed.
* `AgentCallsAreBounded` (`CompensationOffPath`, `Acyclic`, `AgentsAnswer`). A receiver that
  ignores keys holds at most one effort of an agent step (attempts × rounds × calls, times
  `MaxRetries + 1` where the connector may time out, since each of its attempts may land) for
  the run and one for each crash. `RepeatsInv` counts: what is `Used` of a key
  are its postings and the late calls that can still become one; while its step is `Fresh`
  only crashes have used something, and a driver in the loop has used no more than its
  attempts and rounds so far (`Begot`), with room left for the calls `Coming`. A crash raises
  the bound by what the lost driver may have used.
* `WaitingRunsAreAnnounced` (no retention job, as long as no process has died). `Announced`:
  every request on file has its run's announcement in the trace, or in the buffer of a driver
  that is about to write it with the pause. LostAnnouncement shows the crash.
* `PostingsAreAsApproved` (`Acyclic`, `CompensationOffPath`, `CompensationsDiffer`, any number of
  crashes). `latest_approval` is looked up by run and step, not by arguments, so an approval
  given on one visit of a step would open the gate to other arguments on the next.
  `AsApproved` says why it does not: a driver that has not finished its step has the stored
  context (`CopiesCurrent`), every request was made at a step of no higher rank, and one made
  at the step the run is at shows what the step would ask for again (`RequestsCurrent`,
  `MadeAt`); so drivers, late calls and postings are `Faithful`.

**Postgres.** `Migrated` follows each migrator through its list (`OnCourse`: what it has
passed is in the ledger, and what it took for recorded at the start still is) and gives
`MigrationsAreRecorded` and `MigratorsReturnUpToDate`. `Isolated` adds that rows of the other
tables belong to stored runs and gives `TenantsReadTheirOwn` and `TenantsWriteTheirOwn`.

**Intake.** Four theorems, beside the types:

* `EventsRunOnce` assumes `SameKey`, the contract of a source: the triggers of one event have
  the same key, in whatever other fields they differ. `Deduped`: an event that has a run has
  its key taken.
* `RunsAreDue` assumes `CalendarAgrees` (where it does not raise, the matcher finds due what
  the calendar says; MatcherAgrees and the instance check this) and `HandFiredIsDue` (nobody
  posts, by hand, a slot that is not due). `Planned`: a tick has only left what was due in
  the minute it started in.
* `EndedTicksCatchUp` assumes `SameKey`, `OwnKey` (two events never share a key) and
  `CalendarAgrees`. The argument counts: a tick that ends has either fired everything
  (`Reached`) or raised in a run it was driving, which no other replica drives (`Apart`) and
  which from then on is behind everybody. So the ticks that have ended are at most the slots
  left `Behind`, until all have a run (`Progress`).
* `WindowsAreLimited`. Every admission counts for the bucket it was made in, whenever that is.
  While a window lasts, what was admitted since the table was last lost is within what is
  counted (`MeteredNow`): late callers purge only older windows. When it is over, its count
  may be purged or expire, but no new caller can take its bucket: what was admitted plus the
  callers that still hold the bucket stays within the limit plus one for each caller
  (`MeteredLate`). The excess is real: a newer caller purges the count, a late one starts it
  again.

The sample instance of MCIntake satisfies all four hypotheses. They are hypotheses and not
ASSUMEs because they are about what the code computes (`DeriveKey`, `CronMatches`).

**Connector.** `Pooled` joins the types with `Owned`: a caller that waits has one call, with
a worker or in the queue, any other has none. `OpenBreakerShedsLoad` rests on `Shed`: the
attempts that callers inside `run` may still submit (`Tokens`) only shrink while the breaker
is open, and each submission uses one up.

**Only model-checked.** The liveness properties `EveryRunEnds`, `EveryCallReturns` and
`ClosesOnceHealthy` (fairness is out of the prover's reach). `MatcherAgrees` and what the
policy's first-match order computes: pure functions on concrete data, settled by evaluation.
Every other invariant and action property that a passing run checks is stated by a theorem;
two of them, `CompensatedNeverSucceeds` and `WaitingIsAnnounced`, for the time before the
first crash, which is where they hold.

## 5. What is not modelled

* The event buffer of the Orchestrator's single engine, which keeps the events of a run
  that left `resume` by an escaping error until the next run's checkpoint writes them.
  The API service and the runner build a fresh engine per call, as the model's drivers do:
  `Resume` is `SystemRunner.resume`, and `CostIsTraced` is not claimed of
  `Orchestrator.resume_run` after an escaping error.
* What the code does not guarantee, although comments suggest some of it; these are listed
  as hazards without a property: a crash between a compensation and the FAILED checkpoint; two drivers
  whose agents extract different arguments under one approval; more than one half-open
  trial; a recorded null that is executed again; minutes in which a malformed expression
  raises; a model that never answers within its turns.
* What a purge takes from a waiting run: `approval_requested` payloads are emptied too, and
  with them the only record of the approval id. No property covers it.
* The choice of workflow: one workflow is driven. The dedup key is unique per tenant, not
  per workflow, so one message fired at two workflows starts a run of the first only;
  two triggers without ids and with equal contents are one run.
* Schedules are assumed to share their ids between replicas and restarts; the default of
  `Schedule.id` is a fresh random id, and with it two replicas would start a run each.
* A webhook tool registered behind a second connector: both retry, so one step may make
  (max_retries + 1)^2 attempts. The model has one connector per tool.
* The SQLite dialect of the migrator, which only serves its tests and commits DDL before
  the ledger row.
* Payload texts and with them redaction; token and signature checks; the HTTP
  layer; providers beyond what the agent loop sees of them; configuration; logs, metrics,
  traces; the console; deployment files. They either keep no state or compute pure
  functions of their input.
* Time: backoff delays, timestamps, and ties of `requested_at`.

## 6. Plan

Done: Store, Engine with the agent loop and retention, Policy, the invoice and saga
instances; the refinement of RunLifecycle; Connector; Postgres; the intake paths (Triggers,
Scheduler, RateLimiter, Intake); the proofs of section 4. What is left to TLC is out of the
provers' reach (section 4, "Only model-checked"). Next would be the parts of section 5 that
keep state: the Orchestrator's shared event buffer and a second connector around a webhook.
