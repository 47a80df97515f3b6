SPECIFICATION FairSpec
CONSTANTS
    Total = 4
    Overrun = 1
    MaxTransitionPolls = 2
    MaxEndPolls = 2
    ReportEvery = 3
    Advance = 2
INVARIANTS
    NaturalEndIsConfirmed
    ReportsAreTimely
PROPERTIES
    PositionNeverLost
    MonitoringEnds
CHECK_DEADLOCK FALSE
