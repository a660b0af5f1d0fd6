------------------------------ MODULE Postgres ------------------------------
(***************************************************************************)
(* The production state layer: PostgresStore (store_postgres.py) serving   *)
(* several tenants while bass-migrate (migrate.py) brings the schema up to *)
(* date underneath it.  The second migration turns on row-level security,  *)
(* which PostgreSQL then applies to every statement of a role that is not  *)
(* exempt from it.                                                         *)
(*                                                                         *)
(* A store method is one transaction (or statement) and one action;        *)
(* create_or_get_run is two.  A migration is a transaction of two          *)
(* statements, and its DDL locks the tables until it ends.                 *)
(*                                                                         *)
(* Clients choose the run and approval ids of load_run, list_events,       *)
(* cancel_run and resolve_approval, so those actions range over every id;  *)
(* the engine calls the other methods on a run it holds.                   *)
(*                                                                         *)
(* Data abstraction: a run is its tenant, key and whether it is terminal,  *)
(* an event its run and tenant, and a run has one ledger entry.            *)
(***************************************************************************)
EXTENDS Naturals, Sequences, Functions

CONSTANTS
    Tenants, RunIds, ApprovalIds, Keys,
    Migrators,  \* processes running bass-migrate
    None        \* no such row; no such setting

ASSUME TenantAssumption == None \notin Tenants

VARIABLES
    applied,    \* migrations whose DDL is in force
    ledger,     \* rows of schema_migrations
    byHand,     \* history: DDL run outside of bass-migrate
    mig,        \* migrator -> its state
    bypass,     \* the store's role is exempt from row security
    runs, events, approvals, effects,
    reloading,  \* duplicates between the two halves of create_or_get_run
    reply       \* what the last request was answered with

schemaVars == <<applied, ledger, byHand, mig>>
tables == <<runs, events, approvals, effects>>
vars == <<schemaVars, bypass, tables, reloading, reply>>

\* POSTGRES_MIGRATIONS.
Migrations == <<"0001_baseline_schema", "0002_row_level_security">>
Ids == Range(Migrations)
Migrator == [pc : {"idle", "next", "ddl", "row", "returned"}, done : SUBSET Ids,
             at : 1 .. Len(Migrations) + 1]

RunRow == [tenant : Tenants, key : Keys, done : BOOLEAN]
ApprovalRow == [run : RunIds, tenant : Tenants, status : {"pending", "decided"}]

\* A request has changed something ("done"), is handed a row of its own or of
\* another tenant, or cannot use what is its own.
Answer == {"done", "own", "foreign", "refused"}

\* Type invariant.
TypeOK ==
    /\ applied \subseteq Ids /\ ledger \subseteq Ids /\ byHand \subseteq Ids
    /\ mig \in [Migrators -> Migrator] /\ bypass \in BOOLEAN
    /\ DOMAIN runs \subseteq RunIds /\ runs \in [DOMAIN runs -> RunRow]
    /\ events \subseteq [run : RunIds, tenant : Tenants]
    /\ DOMAIN approvals \subseteq ApprovalIds /\ approvals \in [DOMAIN approvals -> ApprovalRow]
    /\ DOMAIN effects \subseteq RunIds /\ effects \in [DOMAIN effects -> Tenants]
    /\ reloading \subseteq Tenants \X Keys /\ reply \in Answer

AtRest == [pc |-> "idle", done |-> {}, at |-> 1]

Init ==
    /\ applied = {} /\ ledger = {} /\ byHand = {}
    /\ mig = [m \in Migrators |-> AtRest] /\ bypass \in BOOLEAN
    /\ runs = <<>> /\ events = {} /\ approvals = <<>> /\ effects = <<>>
    /\ reloading = {} /\ reply = "done"

-----------------------------------------------------------------------------
(* bass-migrate.                                                           *)

Step(m, x) == mig' = [mig EXCEPT ![m] = x]
Current(m) == Migrations[mig[m].at]

\* A migrator that has run its DDL holds the tables' locks until it ends.
Locked == \E m \in Migrators : mig[m].pc = "row"

\* run: connect, create schema_migrations if needed, read it.
ReadApplied(m) ==
    /\ mig[m].pc \in {"idle", "returned"}
    /\ Step(m, [pc |-> "next", done |-> ledger, at |-> 1])
    /\ UNCHANGED <<applied, ledger, byHand>>

\* The loop: skip what was done, return behind the last one.
NextMigration(m) ==
    /\ mig[m].pc = "next"
    /\ IF mig[m].at > Len(Migrations) THEN Step(m, [mig[m] EXCEPT !.pc = "returned"])
       ELSE IF Current(m) \in mig[m].done THEN Step(m, [mig[m] EXCEPT !.at = @ + 1])
       ELSE Step(m, [mig[m] EXCEPT !.pc = "ddl"])
    /\ UNCHANGED <<applied, ledger, byHand>>

\* _exec_ddl: the script runs, uncommitted; both scripts can be repeated.
ExecDdl_BugCommits(m) ==
    /\ mig[m].pc = "ddl" /\ ~Locked
    /\ Step(m, [mig[m] EXCEPT !.pc = "row"])
    /\ applied' = applied \cup {Current(m)}
    /\ UNCHANGED <<ledger, byHand>>
ExecDdl(m) ==
    /\ mig[m].pc = "ddl" /\ ~Locked
    /\ Step(m, [mig[m] EXCEPT !.pc = "row"])
    /\ UNCHANGED <<applied, ledger, byHand>>

\* INSERT of the ledger row (its id is the primary key) and commit.
CommitMigration(m) ==
    /\ mig[m].pc = "row" /\ Current(m) \notin ledger
    /\ applied' = applied \cup {Current(m)}
    /\ ledger' = ledger \cup {Current(m)}
    /\ Step(m, [mig[m] EXCEPT !.pc = "next", !.at = @ + 1])
    /\ UNCHANGED byHand

\* A statement fails, the INSERT for instance when another migrator was
\* faster: roll back and raise out of run.
Abort_BugRunsOff(x) == [x EXCEPT !.at = @ + 1]
Abort_BugGoesOn(x) == [x EXCEPT !.pc = "next", !.at = @ + 1]
Abort(x) == AtRest
RollBack(m) ==
    /\ mig[m].pc \in {"ddl", "row"}
    /\ Step(m, Abort(mig[m]))
    /\ UNCHANGED <<applied, ledger, byHand>>

\* The process dies; PostgreSQL rolls its transaction back.
MigratorDies(m) ==
    /\ mig[m].pc # "idle"
    /\ Step(m, AtRest)
    /\ UNCHANGED <<applied, ledger, byHand>>

\* PostgresStore.__init__ runs the baseline script itself.
RunByHand(id) ==
    /\ ~Locked
    /\ applied' = applied \cup {id} /\ byHand' = byHand \cup {id}
    /\ UNCHANGED <<ledger, mig>>
Connect == RunByHand(Migrations[1])
ApplyRowLevelSecurity == Migrations[1] \in byHand /\ RunByHand(Migrations[2])

SchemaStep ==
    /\ \/ \E m \in Migrators : \/ ReadApplied(m) \/ NextMigration(m) \/ ExecDdl(m)
                               \/ CommitMigration(m) \/ RollBack(m) \/ MigratorDies(m)
       \/ Connect \/ ApplyRowLevelSecurity
    /\ UNCHANGED <<bypass, tables, reloading, reply>>

-----------------------------------------------------------------------------
(* Row security, as PostgreSQL applies it.                                 *)

\* A store is connected and no migration holds the tables.
Ready == Migrations[1] \in byHand /\ ~Locked
Enforced == Migrations[2] \in applied /\ ~bypass

\* current_setting('bass.tenant_id', true): no statement of the store sets it.
Setting == None

\* USING and WITH CHECK of the policy tenant_isolation.
Visible(t) == ~Enforced \/ t = Setting

\* The tenant a SELECT by id reads in the row it finds.
Own(t, r) == r \in DOMAIN runs /\ runs[r].tenant = t
Owner(r) == IF r \in DOMAIN runs /\ Visible(runs[r].tenant) THEN runs[r].tenant ELSE None
Insert(f, k, v) == [x \in DOMAIN f \cup {k} |-> IF x = k THEN v ELSE f[x]]

\* Tenant t is handed a row of tenant o; or is refused its own; or neither.
Show(t, o) == reply' = IF o = t THEN "own" ELSE "foreign"
Refuse == reply' = "refused" /\ UNCHANGED tables
Done == reply' = "done"

\* A SELECT ... WHERE tenant_id=%s that has rows to return.
SelectOwn(t) ==
    /\ IF Visible(t) THEN Show(t, t) ELSE reply' = "refused"
    /\ UNCHANGED <<tables, reloading>>

\* The check of _row_to_run, get_effect and resolve_approval: a row of another
\* tenant raises TenantIsolationError.
Mine_Bug(t, o) == TRUE
Mine(t, o) == o = t

\* _assert_owns: a row that is missing, or not visible, passes.
AssertOwns(t, r) == Owner(r) \in {t, None}

-----------------------------------------------------------------------------
(* The methods of PostgresStore.                                           *)

\* create_or_get_run, the INSERT ... ON CONFLICT DO NOTHING.
CreateOrGetRun(t, k, r) ==
    /\ r \notin DOMAIN runs
    /\ \/ ~Visible(t) /\ Refuse /\ UNCHANGED reloading
       \/ /\ Visible(t) /\ Done
          /\ IF \E q \in DOMAIN runs : runs[q].tenant = t /\ runs[q].key = k
             THEN reloading' = reloading \cup {<<t, k>>} /\ UNCHANGED tables
             ELSE /\ runs' = Insert(runs, r, [tenant |-> t, key |-> k, done |-> FALSE])
                  /\ UNCHANGED <<events, approvals, effects, reloading>>

\* ... and, for a duplicate, _load_by_key and the assertion behind it.
LoadByKey(t, k) ==
    /\ <<t, k>> \in reloading
    /\ reloading' = reloading \ {<<t, k>>}
    /\ IF Visible(t) THEN Show(t, t) ELSE reply' = "refused"
    /\ UNCHANGED tables

LoadRun(t, r) ==
    /\ \/ Owner(r) # None /\ Mine(t, Owner(r)) /\ Show(t, Owner(r)) /\ UNCHANGED tables
       \/ Owner(r) = None /\ Own(t, r) /\ Refuse
    /\ UNCHANGED reloading

ListRuns(t) == (\E r \in RunIds : Own(t, r)) /\ SelectOwn(t)

\* The UPDATE of a row that is not visible changes nothing and the INSERT of
\* the events is refused, which rolls both back.
Checkpoint(t, r, done) ==
    /\ Own(t, r) /\ AssertOwns(t, r)
    /\ \/ ~Visible(t) /\ Refuse
       \/ /\ Visible(t) /\ Done
          /\ runs' = [runs EXCEPT ![r].done = done]
          /\ events' = events \cup {[run |-> r, tenant |-> t]}
          /\ UNCHANGED <<approvals, effects>>
    /\ UNCHANGED reloading

ListEvents(t, r) == AssertOwns(t, r) /\ [run |-> r, tenant |-> t] \in events /\ SelectOwn(t)

\* cancel_run: SELECT ... WHERE id=%s AND tenant_id=%s; False without a row.
Selects_Bug(t, r) == Owner(r) # None
Selects(t, r) == Owner(r) = t
CancelRun(t, r) ==
    /\ \/ /\ Selects(t, r) /\ ~runs[r].done /\ Done
          /\ runs' = [runs EXCEPT ![r].done = TRUE]
          /\ events' = events \cup {[run |-> r, tenant |-> t]}
          /\ UNCHANGED <<approvals, effects>>
       \/ ~Selects(t, r) /\ Own(t, r) /\ Refuse
    /\ UNCHANGED reloading

\* get_effect: an entry that is not visible reads as none.
GetEffect(t, r) ==
    /\ Own(t, r) /\ r \in DOMAIN effects
    /\ IF Visible(effects[r]) THEN Mine(t, effects[r]) /\ Show(t, effects[r])
       ELSE reply' = "refused"
    /\ UNCHANGED <<tables, reloading>>

\* record_effect: INSERT ... ON CONFLICT DO NOTHING.
RecordEffect(t, r) ==
    /\ Own(t, r)
    /\ \/ ~Visible(t) /\ Refuse
       \/ /\ Visible(t) /\ r \notin DOMAIN effects /\ Done
          /\ effects' = Insert(effects, r, t)
          /\ UNCHANGED <<runs, events, approvals>>
    /\ UNCHANGED reloading

CreateApproval(t, r, a) ==
    /\ Own(t, r) /\ AssertOwns(t, r) /\ a \notin DOMAIN approvals
    /\ \/ ~Visible(t) /\ Refuse
       \/ /\ Visible(t) /\ Done
          /\ approvals' = Insert(approvals, a, [run |-> r, tenant |-> t, status |-> "pending"])
          /\ UNCHANGED <<runs, events, effects>>
    /\ UNCHANGED reloading

\* resolve_approval: KeyError when no row is visible.
ResolveApproval(t, a) ==
    /\ a \in DOMAIN approvals
    /\ \/ /\ Visible(approvals[a].tenant) /\ Mine(t, approvals[a].tenant)
          /\ Show(t, approvals[a].tenant)
          /\ approvals' = [approvals EXCEPT ![a].status = "decided"]
          /\ UNCHANGED <<runs, events, effects>>
       \/ ~Visible(t) /\ approvals[a].tenant = t /\ Refuse
    /\ UNCHANGED reloading

\* purge_event_payloads: an event here has no payload, what shows is whether
\* the UPDATE finds the tenant's rows.
PurgeEventPayloads(t) ==
    /\ \E e \in events : e.tenant = t
    /\ IF Visible(t) THEN Done ELSE reply' = "refused"
    /\ UNCHANGED <<tables, reloading>>

LatestApproval(t, r) ==
    /\ Own(t, r) /\ \E a \in DOMAIN approvals : approvals[a].run = r /\ approvals[a].tenant = t
    /\ SelectOwn(t)

RunMethod(t, r) ==
    \/ \E k \in Keys : CreateOrGetRun(t, k, r)
    \/ \E done \in BOOLEAN : Checkpoint(t, r, done)
    \/ \E a \in ApprovalIds : CreateApproval(t, r, a)
    \/ LoadRun(t, r) \/ ListEvents(t, r) \/ CancelRun(t, r)
    \/ GetEffect(t, r) \/ RecordEffect(t, r) \/ LatestApproval(t, r)

StoreStep ==
    /\ Ready
    /\ \E t \in Tenants :
           \/ \E r \in RunIds : RunMethod(t, r)
           \/ \E k \in Keys : LoadByKey(t, k)
           \/ \E a \in ApprovalIds : ResolveApproval(t, a)
           \/ ListRuns(t) \/ PurgeEventPayloads(t)
    /\ UNCHANGED <<schemaVars, bypass>>

Next == SchemaStep \/ StoreStep

Spec == Init /\ [][Next]_vars

-----------------------------------------------------------------------------
\* Tenant isolation, reading: whatever run or approval id a request carries
\* and wherever the migrations stand, a tenant is only handed its own rows.
TenantIsolation == reply # "foreign"

\* Tenant isolation, writing: the rows of a run in the other tables belong to
\* the run's tenant, so no tenant has written into another's run.
RowsAgree ==
    /\ \A e \in events : e.run \in DOMAIN runs /\ e.tenant = runs[e.run].tenant
    /\ \A a \in DOMAIN approvals : approvals[a].tenant = runs[approvals[a].run].tenant
    /\ \A r \in DOMAIN effects : effects[r] = runs[r].tenant

\* migrate.py: DDL and ledger row commit together.  Whatever two migrators,
\* failing statements, deaths and stores that create tables do, what is in
\* force is recorded or was run by hand, and versions are recorded in order.
AppliedIsRecorded ==
    /\ applied = ledger \cup byHand
    /\ \A i \in 1 .. Len(Migrations) : Migrations[i] \in ledger =>
           \A j \in 1 .. i : Migrations[j] \in ledger

\* When bass-migrate returns, the database is up to date, although what it
\* read at the start may be out of date and others migrate at the same time.
UpToDate == \A m \in Migrators : mig[m].pc = "returned" => ledger = Ids /\ applied = Ids

-----------------------------------------------------------------------------
\* docs/10-operations.md: "Migrations run before new code so the old replicas
\* keep working against the new schema": as long as nobody has called
\* apply_row_level_security, a tenant can use its own data.
OldReplicasKeepWorking == Migrations[2] \notin byHand => reply # "refused"
=============================================================================
