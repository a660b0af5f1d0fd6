\* Asynchronous approvals, compensation, cancellation, no crash.
SPECIFICATION Spec
CONSTANTS
    Tenants = {t1}
    RunIds = {r1}
    Keys = {k1}
    Null = Null
    Unset = Unset
    None = None
    Drivers = {d1}
    Steps <- SagaSteps
    Values <- SagaValues
    Start = "review"
    NodeType <- SagaNodeType
    NextOf <- SagaNext
    MaxAttempts <- SagaAttempts
    CompensateWith <- SagaCompensation
    SideEffect <- SagaSideEffect
    Cost <- SagaCost
    AgentOf <- SagaStubborn
    Dedupes <- SagaDedupes
    FaultyAt = {"draft", "book", "notify", "undo"}
    EscapeAt = {"retract"}
    MaxUsd = 3
    MaxSteps = 5
    AsyncApprovals = TRUE
    OutOfBandResume = TRUE
    Retention = FALSE
    MaxCrashes = 0
    MaxOverlaps = 0
    MaxPosts = 2
    MaxCalls = 2
    MaxRetries = 1
    Resolve <- SagaResolve
    Decide <- SagaDecide
    Arm <- SagaArm
    Outcomes <- SagaOutcomes
CHECK_DEADLOCK FALSE
INVARIANTS
    CompensatedNeverSucceeds
    WaitingHasRequest
    WaitingIsAnnounced
    NoUngatedPosting
PROPERTIES
    Implements
