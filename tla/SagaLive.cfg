\* Synchronous approvals, crashes and recovery, under fairness.
SPECIFICATION FairSpec
CONSTANTS
    Tenants = {t1}
    RunIds = {r1}
    Keys = {k1}
    Null = Null
    Unset = Unset
    None = None
    Drivers = {d1}
    Steps <- SagaSteps
    Values <- SagaValues
    Start = "review"
    NodeType <- SagaNodeType
    NextOf <- SagaNext
    MaxAttempts <- SagaAttempts
    CompensateWith <- SagaCompensation
    SideEffect <- SagaSideEffect
    Cost <- SagaCost
    AgentOf <- SagaTimely
    Dedupes <- SagaDedupes
    FaultyAt = {"draft", "book", "notify"}
    EscapeAt = {}
    MaxUsd = 3
    MaxSteps = 5
    AsyncApprovals = FALSE
    OutOfBandResume = TRUE
    Retention = FALSE
    MaxCrashes = 2
    MaxOverlaps = 0
    MaxPosts = 7
    MaxCalls = 1
    MaxRetries = 1
    Resolve <- SagaResolve
    Decide <- SagaDecide
    Arm <- SagaArm
    Outcomes <- SagaOutcomes
CHECK_DEADLOCK FALSE
INVARIANTS
    CostIsTraced
    
PROPERTIES
    EveryRunEnds
