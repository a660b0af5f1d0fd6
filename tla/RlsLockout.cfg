\* The documented role: row security binds the store.
SPECIFICATION Spec
CONSTANTS
    Tenants = {t1, t2}
    RunIds = {r1, r2}
    ApprovalIds = {a1}
    Keys = {k1}
    Migrators = {m1, m2}
    None = None
INVARIANT
    OldReplicasKeepWorking
