\* Two tenants, two migrators, both kinds of database role.
SPECIFICATION Spec
CONSTANTS
    Tenants = {t1, t2}
    RunIds = {r1, r2}
    ApprovalIds = {a1}
    Keys = {k1}
    Migrators = {m1, m2}
    None = None
SYMMETRY Symmetry
INVARIANTS
    TypeOK
    TenantIsolation
    RowsAgree
    AppliedIsRecorded
    UpToDate
