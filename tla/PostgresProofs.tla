--------------------------- MODULE PostgresProofs ---------------------------
(***************************************************************************)
(* Proofs about Postgres, for any number of tenants, runs, approvals and   *)
(* migrators and any role of the store: its type invariant, tenant         *)
(* isolation of reads and writes, and that bass-migrate records what it    *)
(* applies, in order, and returns only when the schema is up to date.      *)
(*                                                                         *)
(* The migrators never write the tables and the store never writes the     *)
(* schema, so there are two inductive invariants: Migrated of the schema   *)
(* and Isolated of the tables.                                             *)
(***************************************************************************)
EXTENDS Postgres, TLAPS

\* The list of migrations: no id twice.  The proofs use nothing else about it.
LEMMA MigrationList ==
  /\ Len(Migrations) \in Nat /\ 1 \in 1 .. Len(Migrations) /\ 2 \in 1 .. Len(Migrations)
  /\ Ids = {Migrations[i] : i \in 1 .. Len(Migrations)}
  /\ \A i, j \in 1 .. Len(Migrations) : Migrations[i] = Migrations[j] => i = j
  BY DEF Ids, Range, Migrations

-----------------------------------------------------------------------------
(* The schema.                                                             *)

SchemaTypeOK ==
    /\ applied \subseteq Ids /\ ledger \subseteq Ids /\ byHand \subseteq Ids
    /\ mig \in [Migrators -> Migrator]

\* A migrator has read what is recorded and passed only what is recorded; it
\* runs a script of the list, and returns behind the last one.
OnCourse(x, rows) ==
    /\ x.done \subseteq rows
    /\ \A j \in 1 .. Len(Migrations) : j < x.at => Migrations[j] \in rows
    /\ x.pc \in {"ddl", "row"} => x.at <= Len(Migrations)
    /\ x.pc = "returned" => x.at > Len(Migrations)

\* The inductive invariant of bass-migrate.
Migrated ==
    /\ SchemaTypeOK /\ AppliedIsRecorded
    /\ \A m \in Migrators : OnCourse(mig[m], ledger)

\* A migrator takes one of its steps, and at most adds a row to the ledger.
LEMMA OthersOnCourse ==
  ASSUME Migrated, NEW m \in Migrators, NEW x, Step(m, x), x \in Migrator, OnCourse(x, ledger'),
         ledger \subseteq ledger'
  PROVE  mig' \in [Migrators -> Migrator] /\ \A n \in Migrators : OnCourse(mig'[n], ledger')
  <1>1. /\ mig' \in [Migrators -> Migrator]
        /\ \A n \in Migrators : mig'[n] = IF n = m THEN x ELSE mig[n]
    BY DEF Migrated, SchemaTypeOK, Step
  <1> QED BY <1>1 DEF Migrated, OnCourse

\* A migrator that has stopped has passed nothing.
LEMMA AtRestOnCourse == AtRest \in Migrator /\ \A rows : OnCourse(AtRest, rows)
  <1>1. /\ AtRest.pc = "idle" /\ AtRest.done = {} /\ AtRest.at = 1
        /\ AtRest \in Migrator
    BY MigrationList DEF AtRest, Migrator
  <1> QED BY <1>1, MigrationList DEF OnCourse

\* The schema's part of the type invariant and the ledger's order survive
\* every step of a migrator and of a store that creates its tables.
LEMMA SchemaStepMigrated ==
  ASSUME Migrated, SchemaStep
  PROVE  Migrated'
  <1>t. SchemaTypeOK /\ AppliedIsRecorded
    BY DEF Migrated
  <1>1. ASSUME NEW m \in Migrators, NEW x, Step(m, x), x \in Migrator, OnCourse(x, ledger),
               UNCHANGED <<applied, ledger, byHand>>
        PROVE  Migrated'
    <2>1. mig' \in [Migrators -> Migrator] /\ \A n \in Migrators : OnCourse(mig'[n], ledger')
      BY <1>1, OthersOnCourse
    <2> QED BY <1>t, <1>1, <2>1 DEF Migrated, SchemaTypeOK, AppliedIsRecorded
  <1>m. \A m \in Migrators :
           /\ OnCourse(mig[m], ledger) /\ mig[m] \in Migrator /\ mig[m].done \subseteq Ids
           /\ mig[m].at \in 1 .. Len(Migrations) + 1
    BY DEF Migrated, SchemaTypeOK, Migrator
  <1>2. ASSUME NEW m \in Migrators, ReadApplied(m)
        PROVE  Migrated'
    <2> DEFINE x == [pc |-> "next", done |-> ledger, at |-> 1]
    <2>1. x.pc = "next" /\ x.done = ledger /\ x.at = 1 /\ x \in Migrator /\ Step(m, x)
      BY <1>t, <1>2, MigrationList DEF ReadApplied, SchemaTypeOK, Migrator
    <2> HIDE DEF x
    <2>2. OnCourse(x, ledger)
      BY <2>1, MigrationList DEF OnCourse
    <2> QED BY <1>1, <1>2, <2>1, <2>2 DEF ReadApplied
  <1>3. ASSUME NEW m \in Migrators, NextMigration(m)
        PROVE  Migrated'
    <2>1. UNCHANGED <<applied, ledger, byHand>> /\ mig[m].pc = "next"
      BY <1>3 DEF NextMigration
    <2>2. CASE mig[m].at > Len(Migrations)
      <3> DEFINE x == [mig[m] EXCEPT !.pc = "returned"]
      <3>1. Step(m, x) /\ x \in Migrator /\ x.pc = "returned" /\ x.done = mig[m].done /\ x.at = mig[m].at
        BY <1>m, <1>3, <2>2 DEF NextMigration, Migrator
      <3> HIDE DEF x
      <3>2. OnCourse(x, ledger)
        BY <1>m, <2>2, <3>1 DEF OnCourse
      <3> QED BY <1>1, <2>1, <3>1, <3>2
    <2>3. CASE mig[m].at <= Len(Migrations) /\ Current(m) \in mig[m].done
      <3> DEFINE x == [mig[m] EXCEPT !.at = mig[m].at + 1]
      <3>1. mig[m].at + 1 \in 1 .. Len(Migrations) + 1 /\ ~(mig[m].at > Len(Migrations))
        BY <1>m, <2>3, MigrationList
      <3>2. Step(m, x) /\ x \in Migrator /\ x.pc = "next" /\ x.done = mig[m].done /\ x.at = mig[m].at + 1
        BY <1>m, <1>3, <2>1, <2>3, <3>1 DEF NextMigration, Migrator
      <3> HIDE DEF x
      <3>3. OnCourse(x, ledger)
        BY <1>m, <2>3, <3>2, MigrationList DEF OnCourse, Current
      <3> QED BY <1>1, <2>1, <3>2, <3>3
    <2>4. CASE mig[m].at <= Len(Migrations) /\ Current(m) \notin mig[m].done
      <3> DEFINE x == [mig[m] EXCEPT !.pc = "ddl"]
      <3>1. ~(mig[m].at > Len(Migrations))
        BY <1>m, <2>4, MigrationList
      <3>2. Step(m, x) /\ x \in Migrator /\ x.pc = "ddl" /\ x.done = mig[m].done /\ x.at = mig[m].at
        BY <1>m, <1>3, <2>4, <3>1 DEF NextMigration, Migrator
      <3> HIDE DEF x
      <3>3. OnCourse(x, ledger)
        BY <1>m, <2>4, <3>2 DEF OnCourse
      <3> QED BY <1>1, <2>1, <3>2, <3>3
    <2> QED BY <1>m, <2>2, <2>3, <2>4, MigrationList
  <1>4. ASSUME NEW m \in Migrators, ExecDdl(m)
        PROVE  Migrated'
    <2> DEFINE x == [mig[m] EXCEPT !.pc = "row"]
    <2>1. Step(m, x) /\ x \in Migrator /\ x.pc = "row" /\ x.done = mig[m].done /\ x.at = mig[m].at
      BY <1>m, <1>4 DEF ExecDdl, Migrator
    <2> HIDE DEF x
    <2>2. OnCourse(x, ledger)
      BY <1>m, <1>4, <2>1 DEF OnCourse, ExecDdl
    <2> QED BY <1>1, <1>4, <2>1, <2>2 DEF ExecDdl
  <1>5. ASSUME NEW m \in Migrators, RollBack(m) \/ MigratorDies(m)
        PROVE  Migrated'
    <2>1. Step(m, AtRest) /\ UNCHANGED <<applied, ledger, byHand>>
      BY <1>5 DEF RollBack, MigratorDies, Abort
    <2> QED BY <1>1, <2>1, AtRestOnCourse
  <1>6. ASSUME NEW m \in Migrators, CommitMigration(m)
        PROVE  Migrated'
    <2> DEFINE x == [mig[m] EXCEPT !.pc = "next", !.at = mig[m].at + 1]
               id == Migrations[mig[m].at]
    <2>1. /\ mig[m].at <= Len(Migrations) /\ mig[m].at \in 1 .. Len(Migrations)
          /\ mig[m].at + 1 \in 1 .. Len(Migrations) + 1
      BY <1>m, <1>6, MigrationList DEF OnCourse, CommitMigration
    <2>2. /\ Step(m, x) /\ x \in Migrator /\ x.pc = "next" /\ x.done = mig[m].done
          /\ x.at = mig[m].at + 1
      BY <1>m, <1>6, <2>1 DEF CommitMigration, Migrator
    <2>3. /\ applied' = applied \cup {id} /\ ledger' = ledger \cup {id} /\ UNCHANGED byHand
          /\ id \in Ids
      BY <1>6, <2>1, MigrationList DEF CommitMigration, Current
    <2> HIDE DEF x, id
    <2>4. \A j \in 1 .. Len(Migrations) : j <= mig[m].at => Migrations[j] \in ledger'
      BY <1>m, <2>1, <2>3, MigrationList DEF OnCourse, id
    <2>5. OnCourse(x, ledger')
      <3>1. x.done \subseteq ledger'
        BY <1>m, <2>2, <2>3 DEF OnCourse
      <3>2. \A j \in 1 .. Len(Migrations) : j < x.at => Migrations[j] \in ledger'
        BY <2>1, <2>2, <2>4, MigrationList
      <3> QED BY <2>2, <3>1, <3>2 DEF OnCourse
    <2>6. mig' \in [Migrators -> Migrator] /\ \A n \in Migrators : OnCourse(mig'[n], ledger')
      BY <2>2, <2>3, <2>5, OthersOnCourse
    <2>7. ASSUME NEW i \in 1 .. Len(Migrations), Migrations[i] \in ledger', NEW j \in 1 .. i
          PROVE  Migrations[j] \in ledger'
      <3>1. j \in 1 .. Len(Migrations)
        BY MigrationList
      <3>2. CASE Migrations[i] \in ledger
        BY <1>t, <2>3, <3>2 DEF AppliedIsRecorded
      <3>3. CASE Migrations[i] = id
        <4>1. i = mig[m].at
          BY <2>1, <3>3, MigrationList DEF id
        <4> QED BY <2>4, <3>1, <4>1
      <3> QED BY <2>3, <2>7, <3>2, <3>3
    <2>8. AppliedIsRecorded'
      BY <1>t, <2>3, <2>7 DEF AppliedIsRecorded
    <2> QED BY <1>t, <2>3, <2>6, <2>8 DEF Migrated, SchemaTypeOK
  <1>7. CASE Connect \/ ApplyRowLevelSecurity
    <2>1. PICK id \in Ids : /\ applied' = applied \cup {id} /\ byHand' = byHand \cup {id}
                            /\ UNCHANGED <<ledger, mig>>
      BY <1>7, MigrationList DEF Connect, ApplyRowLevelSecurity, RunByHand
    <2> QED BY <1>t, <2>1 DEF Migrated, SchemaTypeOK, AppliedIsRecorded
  <1> QED BY <1>2, <1>3, <1>4, <1>5, <1>6, <1>7 DEF SchemaStep

-----------------------------------------------------------------------------
(* The tables.                                                             *)

DataTypeOK ==
    /\ bypass \in BOOLEAN
    /\ DOMAIN runs \subseteq RunIds /\ runs \in [DOMAIN runs -> RunRow]
    /\ events \subseteq [run : RunIds, tenant : Tenants]
    /\ DOMAIN approvals \subseteq ApprovalIds /\ approvals \in [DOMAIN approvals -> ApprovalRow]
    /\ DOMAIN effects \subseteq RunIds /\ effects \in [DOMAIN effects -> Tenants]
    /\ reloading \subseteq Tenants \X Keys /\ reply \in Answer

\* The rows of the other tables are rows of stored runs.
RowsKnown ==
    /\ \A a \in DOMAIN approvals : approvals[a].run \in DOMAIN runs
    /\ DOMAIN effects \subseteq DOMAIN runs

\* The inductive invariant of the store.
Isolated == DataTypeOK /\ RowsAgree /\ RowsKnown /\ TenantIsolation

\* A method that writes nothing and answers with nobody else's row.
LEMMA ReadIsolated ==
  ASSUME Isolated, UNCHANGED <<tables, bypass>>, reloading' \subseteq Tenants \X Keys,
         reply' \in {"done", "own", "refused"}
  PROVE  Isolated'
  BY DEF Isolated, DataTypeOK, RowsAgree, RowsKnown, TenantIsolation, tables, Answer

\* A row that is selected by a tenant's id is the tenant's.
LEMMA SelectedIsOwn ==
  ASSUME NEW t \in Tenants, NEW r, Owner(r) = t
  PROVE  r \in DOMAIN runs /\ runs[r].tenant = t
  BY TenantAssumption DEF Owner

\* A tenant writes the state of its own run and an event of it.
LEMMA RunWriteIsolated ==
  ASSUME Isolated, NEW t \in Tenants, NEW r \in RunIds, Own(t, r), NEW done \in BOOLEAN,
         runs' = [runs EXCEPT ![r].done = done],
         events' = events \cup {[run |-> r, tenant |-> t]},
         UNCHANGED <<approvals, effects, reloading, bypass>>, reply' = "done"
  PROVE  Isolated'
  <1> DEFINE row == [runs[r] EXCEPT !.done = done]
             e == [run |-> r, tenant |-> t]
  <1>t. DataTypeOK /\ RowsAgree /\ RowsKnown
    BY DEF Isolated
  <1>0. r \in DOMAIN runs /\ runs[r].tenant = t /\ runs[r] \in RunRow
    BY <1>t DEF Own, DataTypeOK
  <1>1. row \in RunRow /\ row.tenant = t /\ runs' = [runs EXCEPT ![r] = row]
    BY <1>0 DEF RunRow
  <1>2. e \in [run : RunIds, tenant : Tenants] /\ e.run = r /\ e.tenant = t /\ events' = events \cup {e}
    OBVIOUS
  <1> HIDE DEF row, e
  <1>3. /\ DOMAIN runs' = DOMAIN runs /\ runs' \in [DOMAIN runs -> RunRow]
        /\ \A q \in DOMAIN runs : runs'[q].tenant = runs[q].tenant
    BY <1>t, <1>0, <1>1 DEF DataTypeOK
  <1>4. DataTypeOK'
    BY <1>t, <1>2, <1>3 DEF DataTypeOK, Answer
  <1>5. RowsAgree' /\ RowsKnown'
    BY <1>t, <1>0, <1>2, <1>3 DEF RowsAgree, RowsKnown
  <1> QED BY <1>4, <1>5 DEF Isolated, TenantIsolation

\* Every method of the store keeps the tenants apart.
LEMMA StoreStepIsolated ==
  ASSUME Isolated, StoreStep
  PROVE  Isolated'
  <1>t. DataTypeOK /\ RowsAgree /\ RowsKnown /\ TenantIsolation
    BY DEF Isolated
  <1>b. UNCHANGED bypass
    BY DEF StoreStep
  <1>l. reloading \subseteq Tenants \X Keys
    BY <1>t DEF DataTypeOK
  <1>s. \A t : SelectOwn(t) => /\ UNCHANGED <<tables, reloading>>
                              /\ reply' \in {"done", "own", "refused"}
    BY DEF SelectOwn, Show
  <1>1. ASSUME NEW t \in Tenants, NEW r \in RunIds, NEW k \in Keys, CreateOrGetRun(t, k, r)
        PROVE  Isolated'
    <2>1. CASE UNCHANGED tables
      <3>1. reloading' \subseteq Tenants \X Keys /\ reply' \in {"done", "own", "refused"}
        BY <1>l, <1>1 DEF CreateOrGetRun, Refuse, Done
      <3> QED BY <1>b, <2>1, <3>1, ReadIsolated
    <2>2. CASE ~UNCHANGED tables
      <3> DEFINE row == [tenant |-> t, key |-> k, done |-> FALSE]
      <3>1. /\ r \notin DOMAIN runs /\ runs' = Insert(runs, r, row) /\ reply' = "done"
            /\ UNCHANGED <<events, approvals, effects, reloading>>
        BY <1>1, <2>2 DEF CreateOrGetRun, Refuse, Done
      <3>2. row \in RunRow
        BY DEF RunRow
      <3> HIDE DEF row
      <3>3. /\ DOMAIN runs' = DOMAIN runs \cup {r} /\ runs' \in [DOMAIN runs' -> RunRow]
            /\ \A q \in DOMAIN runs : runs'[q] = runs[q]
        BY <1>t, <3>1, <3>2 DEF Insert, DataTypeOK
      <3>4. DataTypeOK'
        BY <1>t, <1>b, <3>1, <3>3 DEF DataTypeOK, Answer
      <3>5. RowsAgree' /\ RowsKnown'
        BY <1>t, <3>1, <3>3 DEF RowsAgree, RowsKnown
      <3> QED BY <3>1, <3>4, <3>5 DEF Isolated, TenantIsolation
    <2> QED BY <2>1, <2>2
  <1>2. ASSUME NEW t \in Tenants, NEW k \in Keys, LoadByKey(t, k)
        PROVE  Isolated'
    <2>1. /\ UNCHANGED tables /\ reloading' \subseteq Tenants \X Keys
          /\ reply' \in {"done", "own", "refused"}
      BY <1>l, <1>2 DEF LoadByKey, Show
    <2> QED BY <1>b, <2>1, ReadIsolated
  <1>3. ASSUME NEW t \in Tenants, NEW r \in RunIds,
               LoadRun(t, r) \/ ListEvents(t, r) \/ GetEffect(t, r) \/ LatestApproval(t, r)
        PROVE  Isolated'
    <2>1. UNCHANGED <<tables, reloading>> /\ reply' \in {"done", "own", "refused"}
      BY <1>s, <1>3 DEF LoadRun, ListEvents, GetEffect, LatestApproval, Mine, Show, Refuse
    <2> QED BY <1>b, <1>l, <2>1, ReadIsolated
  <1>4. ASSUME NEW t \in Tenants, NEW r \in RunIds, NEW done \in BOOLEAN, Checkpoint(t, r, done)
        PROVE  Isolated'
    <2>1. \/ UNCHANGED <<tables, reloading>> /\ reply' = "refused"
          \/ /\ Own(t, r) /\ runs' = [runs EXCEPT ![r].done = done]
             /\ events' = events \cup {[run |-> r, tenant |-> t]}
             /\ UNCHANGED <<approvals, effects, reloading>> /\ reply' = "done"
      BY <1>4 DEF Checkpoint, Refuse, Done
    <2> QED BY <1>b, <1>l, <2>1, ReadIsolated, RunWriteIsolated
  <1>5. ASSUME NEW t \in Tenants, NEW r \in RunIds, CancelRun(t, r)
        PROVE  Isolated'
    <2>1. \/ UNCHANGED <<tables, reloading>> /\ reply' = "refused"
          \/ /\ Own(t, r) /\ runs' = [runs EXCEPT ![r].done = TRUE]
             /\ events' = events \cup {[run |-> r, tenant |-> t]}
             /\ UNCHANGED <<approvals, effects, reloading>> /\ reply' = "done"
      BY <1>5, SelectedIsOwn DEF CancelRun, Selects, Own, Refuse, Done
    <2> QED BY <1>b, <1>l, <2>1, ReadIsolated, RunWriteIsolated
  <1>6. ASSUME NEW t \in Tenants, NEW r \in RunIds, RecordEffect(t, r)
        PROVE  Isolated'
    <2>1. CASE UNCHANGED tables /\ reply' = "refused"
      BY <1>b, <1>l, <1>6, <2>1, ReadIsolated DEF RecordEffect
    <2>2. CASE /\ Own(t, r) /\ effects' = Insert(effects, r, t) /\ reply' = "done"
               /\ UNCHANGED <<runs, events, approvals, reloading>>
      <3>1. /\ DOMAIN effects' = DOMAIN effects \cup {r} /\ effects' \in [DOMAIN effects' -> Tenants]
            /\ \A q \in DOMAIN effects' : effects'[q] = IF q = r THEN t ELSE effects[q]
        BY <1>t, <2>2 DEF Insert, DataTypeOK
      <3>2. DataTypeOK'
        BY <1>t, <1>b, <2>2, <3>1 DEF DataTypeOK, Answer
      <3>3. RowsAgree' /\ RowsKnown'
        BY <1>t, <2>2, <3>1 DEF RowsAgree, RowsKnown, Own
      <3> QED BY <2>2, <3>2, <3>3 DEF Isolated, TenantIsolation
    <2> QED BY <1>6, <2>1, <2>2 DEF RecordEffect, Refuse, Done
  <1>7. ASSUME NEW t \in Tenants, NEW r \in RunIds, NEW a \in ApprovalIds, CreateApproval(t, r, a)
        PROVE  Isolated'
    <2> DEFINE row == [run |-> r, tenant |-> t, status |-> "pending"]
    <2>0. row \in ApprovalRow /\ row.run = r /\ row.tenant = t
      BY DEF ApprovalRow
    <2>1. CASE UNCHANGED tables /\ reply' = "refused"
      BY <1>b, <1>l, <1>7, <2>1, ReadIsolated DEF CreateApproval
    <2>2. CASE ~(UNCHANGED tables /\ reply' = "refused")
      <3>1. /\ Own(t, r) /\ approvals' = Insert(approvals, a, row) /\ reply' = "done"
            /\ UNCHANGED <<runs, events, effects, reloading>>
        BY <1>7, <2>2 DEF CreateApproval, Refuse, Done
      <3> HIDE DEF row
      <3>2. /\ DOMAIN approvals' = DOMAIN approvals \cup {a}
            /\ approvals' \in [DOMAIN approvals' -> ApprovalRow]
            /\ \A b \in DOMAIN approvals' : approvals'[b] = IF b = a THEN row ELSE approvals[b]
        BY <1>t, <2>0, <3>1 DEF Insert, DataTypeOK
      <3>3. DataTypeOK'
        BY <1>t, <1>b, <3>1, <3>2 DEF DataTypeOK, Answer
      <3>4. RowsAgree' /\ RowsKnown'
        BY <1>t, <2>0, <3>1, <3>2 DEF RowsAgree, RowsKnown, Own
      <3> QED BY <3>1, <3>3, <3>4 DEF Isolated, TenantIsolation
    <2> QED BY <2>1, <2>2
  <1>8. ASSUME NEW t \in Tenants, NEW a \in ApprovalIds, ResolveApproval(t, a)
        PROVE  Isolated'
    <2> DEFINE row == [approvals[a] EXCEPT !.status = "decided"]
    <2>0. a \in DOMAIN approvals /\ approvals[a] \in ApprovalRow
      BY <1>t, <1>8 DEF ResolveApproval, DataTypeOK
    <2>1. row \in ApprovalRow /\ row.run = approvals[a].run /\ row.tenant = approvals[a].tenant
      BY <2>0 DEF ApprovalRow
    <2>2. CASE UNCHANGED tables /\ reply' = "refused"
      BY <1>b, <1>l, <1>8, <2>2, ReadIsolated DEF ResolveApproval
    <2>3. CASE ~(UNCHANGED tables /\ reply' = "refused")
      <3>1. /\ approvals' = [approvals EXCEPT ![a] = row] /\ reply' = "own"
            /\ UNCHANGED <<runs, events, effects, reloading>>
        BY <1>8, <2>3 DEF ResolveApproval, Refuse, Mine, Show
      <3> HIDE DEF row
      <3>2. /\ DOMAIN approvals' = DOMAIN approvals
            /\ approvals' \in [DOMAIN approvals -> ApprovalRow]
            /\ \A b \in DOMAIN approvals : /\ approvals'[b].run = approvals[b].run
                                           /\ approvals'[b].tenant = approvals[b].tenant
        BY <1>t, <2>0, <2>1, <3>1 DEF DataTypeOK
      <3>3. DataTypeOK'
        BY <1>t, <1>b, <3>1, <3>2 DEF DataTypeOK, Answer
      <3>4. RowsAgree' /\ RowsKnown'
        BY <1>t, <3>1, <3>2 DEF RowsAgree, RowsKnown
      <3> QED BY <3>1, <3>3, <3>4 DEF Isolated, TenantIsolation
    <2> QED BY <2>2, <2>3
  <1>r. PICK t \in Tenants : \/ \E r \in RunIds : RunMethod(t, r)
                             \/ \E k \in Keys : LoadByKey(t, k)
                             \/ \E a \in ApprovalIds : ResolveApproval(t, a)
                             \/ ListRuns(t) \/ PurgeEventPayloads(t)
    BY DEF StoreStep
  <1>9. CASE ListRuns(t) \/ PurgeEventPayloads(t)
    <2>1. UNCHANGED <<tables, reloading>> /\ reply' \in {"done", "own", "refused"}
      BY <1>s, <1>9 DEF ListRuns, PurgeEventPayloads, Done
    <2> QED BY <1>b, <1>l, <2>1, ReadIsolated
  <1> QED BY <1>r, <1>1, <1>2, <1>3, <1>4, <1>5, <1>6, <1>7, <1>8, <1>9 DEF RunMethod

-----------------------------------------------------------------------------
(* The theorems.                                                           *)

\* Both invariants hold at the start, and each survives the other's steps.
LEMMA InitPostgres == Init => Migrated /\ Isolated
  <1> SUFFICES ASSUME Init PROVE Migrated /\ Isolated
    OBVIOUS
  <1>1. /\ applied = {} /\ ledger = {} /\ byHand = {} /\ bypass \in BOOLEAN
        /\ mig = [m \in Migrators |-> AtRest]
        /\ DOMAIN runs = {} /\ runs = <<>> /\ events = {} /\ DOMAIN approvals = {} /\ approvals = <<>>
        /\ DOMAIN effects = {} /\ effects = <<>> /\ reloading = {} /\ reply = "done"
    BY DEF Init
  <1>2. Migrated
    BY <1>1, AtRestOnCourse DEF Migrated, SchemaTypeOK, AppliedIsRecorded
  <1>3. Isolated
    BY <1>1 DEF Isolated, DataTypeOK, RowsAgree, RowsKnown, TenantIsolation, Answer
  <1> QED BY <1>2, <1>3

\* Every step keeps the schema's invariant...
LEMMA MigratedStep == Migrated /\ [Next]_vars => Migrated'
  <1>1. ASSUME Migrated, UNCHANGED schemaVars PROVE Migrated'
    BY <1>1 DEF Migrated, SchemaTypeOK, AppliedIsRecorded, OnCourse, schemaVars
  <1> QED BY <1>1, SchemaStepMigrated DEF Next, StoreStep, vars

\* ... and the tables'.
LEMMA IsolatedStep == Isolated /\ [Next]_vars => Isolated'
  <1>1. ASSUME Isolated, UNCHANGED <<bypass, tables, reloading, reply>> PROVE Isolated'
    BY <1>1 DEF Isolated, DataTypeOK, RowsAgree, RowsKnown, TenantIsolation, tables
  <1> QED BY <1>1, StoreStepIsolated DEF Next, SchemaStep, vars

\* Rows, migrators and answers keep their types (store_postgres.py,
\* migrate.py): no migrator runs off the end of the list.
THEOREM PostgresTypeCorrect == Spec => []TypeOK
  <1>1. Migrated /\ Isolated => TypeOK
    BY DEF Migrated, Isolated, SchemaTypeOK, DataTypeOK, TypeOK
  <1> QED BY <1>1, InitPostgres, MigratedStep, IsolatedStep, PTL DEF Spec

\* Whatever id a request carries, whichever role the store has and wherever
\* the migrations stand, a tenant is handed only its own rows
\* (store_postgres.py _row_to_run, get_effect, resolve_approval).
THEOREM TenantsReadTheirOwn == Spec => []TenantIsolation
  <1>1. Isolated => TenantIsolation
    BY DEF Isolated
  <1> QED BY <1>1, InitPostgres, IsolatedStep, PTL DEF Spec

\* No tenant writes into another's run: the events, approvals and ledger
\* entries of a run are its tenant's (store_postgres.py _assert_owns,
\* cancel_run).
THEOREM TenantsWriteTheirOwn == Spec => []RowsAgree
  <1>1. Isolated => RowsAgree
    BY DEF Isolated
  <1> QED BY <1>1, InitPostgres, IsolatedStep, PTL DEF Spec

\* However many migrators run, fail or die at any point, what is in force is
\* recorded or was run by hand, and versions are recorded in order
\* (migrate.py).
THEOREM MigrationsAreRecorded == Spec => []AppliedIsRecorded
  <1>1. Migrated => AppliedIsRecorded
    BY DEF Migrated
  <1> QED BY <1>1, InitPostgres, MigratedStep, PTL DEF Spec

\* bass-migrate returns only when every migration is recorded and in force,
\* although what it read at the start may be out of date (migrate.py).
THEOREM MigratorsReturnUpToDate == Spec => []UpToDate
  <1>1. Migrated => UpToDate
    <2> SUFFICES ASSUME Migrated, NEW m \in Migrators, mig[m].pc = "returned"
                 PROVE  ledger = Ids /\ applied = Ids
      BY DEF UpToDate
    <2>1. mig[m].at > Len(Migrations) /\ mig[m].at \in 1 .. Len(Migrations) + 1
      BY DEF Migrated, OnCourse, SchemaTypeOK, Migrator
    <2>2. \A j \in 1 .. Len(Migrations) : Migrations[j] \in ledger
      BY <2>1, MigrationList DEF Migrated, OnCourse
    <2> QED BY <2>2, MigrationList DEF Migrated, SchemaTypeOK, AppliedIsRecorded
  <1> QED BY <1>1, InitPostgres, MigratedStep, PTL DEF Spec
=============================================================================
