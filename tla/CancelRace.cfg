\* One cancel that overlaps with the driver of the run.
SPECIFICATION Spec
CONSTANTS
    Tenants = {t1}
    RunIds = {r1}
    Keys = {k1}
    Null = Null
    Unset = Unset
    None = None
    Drivers = {d1}
    Steps <- InvoiceSteps
    Values <- InvoiceValues
    Start = "extract"
    NodeType <- InvoiceNodeType
    NextOf <- InvoiceNext
    MaxAttempts <- InvoiceAttempts
    CompensateWith <- InvoiceNoCompensation
    SideEffect <- InvoiceSideEffect
    Cost <- InvoiceCost
    AgentOf <- InvoiceQuiet
    Dedupes <- InvoiceDedupes
    FaultyAt = {}
    EscapeAt = {}
    MaxUsd = 2
    MaxSteps = 5
    AsyncApprovals = TRUE
    OutOfBandResume = TRUE
    Retention = FALSE
    MaxCrashes = 0
    MaxOverlaps = 1
    MaxPosts = 2
    MaxCalls = 1
    MaxRetries = 1
    Resolve <- InvoiceResolve
    Decide <- InvoiceDecide
    Arm <- InvoiceArm
    Outcomes <- InvoiceOutcomes
CHECK_DEADLOCK FALSE
PROPERTIES
    CanceledPostsNothing
