\* Two runs, one driver on a run at a time, crashes at every point.
SPECIFICATION Spec
CONSTANTS
    Tenants = {t1}
    RunIds = {r1, r2}
    Keys = {k1, k2}
    Null = Null
    Unset = Unset
    None = None
    Drivers = {d1}
    Steps <- InvoiceSteps
    Values <- InvoiceValues
    Start = "extract"
    NodeType <- InvoiceNodeType
    NextOf <- InvoiceNext
    MaxAttempts <- InvoiceAttempts
    CompensateWith <- InvoiceNoCompensation
    SideEffect <- InvoiceSideEffect
    Cost <- InvoiceCost
    AgentOf <- InvoiceQuiet
    Dedupes <- InvoiceDedupes
    FaultyAt = {"post"}
    EscapeAt = {"extract"}
    MaxUsd = 2
    MaxSteps = 5
    AsyncApprovals = TRUE
    OutOfBandResume = TRUE
    Retention = TRUE
    MaxCrashes = 2
    MaxOverlaps = 0
    MaxPosts = 2
    MaxCalls = 1
    MaxRetries = 1
    Resolve <- InvoiceResolve
    Decide <- InvoiceDecide
    Arm <- InvoiceArm
    Outcomes <- InvoiceOutcomes
SYMMETRY Symmetry
CHECK_DEADLOCK FALSE
INVARIANTS
    CostIsTraced
    RecordedIsNotExecuted
    PostedAsApproved
PROPERTIES
    TerminalIsFinal
    CursorFollowsGraph
    Implements
