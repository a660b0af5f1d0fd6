\* Two replicas, two minutes, runs that fail and ticks that die, next to two
\* HTTP callers behind either of the rate limiters.
SPECIFICATION Spec
CONSTANTS
    Replicas = {p1, p2}
    Schedules <- SampleSchedules
    Calendar <- SampleCalendar
    Expected <- SampleExpected
    CanFail = {"monthly_or_monday", "five_minutes"}
    MaxTicks = 2
    Events <- SampleEvents
    Limit = 1
    Windows = {1, 2}
    Callers = {c1, c2}
    Requests <- SampleRequests
    MaxRequests = 4
    MaxRestarts = 1
SYMMETRY Symmetry
INVARIANTS
    TypeOK
    OneRunPerEvent
    OnlyDueSlots
    TicksCatchUp
    WithinLimit
    MatcherAgrees
