\* Two drivers, a crash and up to two requests that overlap with a running driver;
\* a second run id lets a lost trigger dedup show.
SPECIFICATION Spec
CONSTANTS
    Tenants = {t1}
    RunIds = {r1, r2}
    Keys = {k1}
    Null = Null
    Unset = Unset
    None = None
    Drivers = {d1, d2}
    Steps <- InvoiceSteps
    Values <- InvoiceValues
    Start = "extract"
    NodeType <- InvoiceNodeType
    NextOf <- InvoiceNext
    MaxAttempts <- InvoiceAttempts
    CompensateWith <- InvoiceNoCompensation
    SideEffect <- InvoiceSideEffect
    Cost <- InvoiceCost
    AgentOf <- InvoiceBusy
    Dedupes <- InvoiceDedupes
    FaultyAt = {"post"}
    EscapeAt = {}
    MaxUsd = 2
    MaxSteps = 5
    AsyncApprovals = TRUE
    OutOfBandResume = TRUE
    Retention = FALSE
    MaxCrashes = 1
    MaxOverlaps = 2
    MaxPosts = 2
    MaxCalls = 1
    MaxRetries = 1
    Resolve <- InvoiceResolve
    Decide <- InvoiceDecide
    Arm <- InvoiceArm
    Outcomes <- InvoiceOutcomes
SYMMETRY Symmetry
CHECK_DEADLOCK FALSE
INVARIANTS
    TypeOK
    NoUngatedPosting
    LedgerBacked
    ResultsAgree
    FinishedIffSucceeded
    WaitingHasRequest
    OvershootIsOneStep
    ResultsAudited
    OnePostingPerTrigger
