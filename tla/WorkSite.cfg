CONSTANTS
    t1 = t1
    t2 = t2
    Trucks <- MCTrucks
    NoTruck = NoTruck
    BlankRow = BlankRow
    Reports <- MCReports
    MaxReports = 2
    MaxCommands = 2
    RESEND_TIMEVAL = 2
    ClockSteps <- MCClockSteps
    MaxWait = 5
    Timers <- MCTimers
SPECIFICATION Spec
SYMMETRY Symmetry
INVARIANTS
    TypeOK
    ListedOnce
    FinishIsFresh
    ResentInTime
    KeptUntilArrived
