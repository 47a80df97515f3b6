SPECIFICATION FairSpec
CONSTANTS
    Apps = {emby, other}
    Hdmi = Hdmi
    NoApp = NoApp
    NormalPolls = 1
    ReplacementPolls = 2
INVARIANTS
    CleanEndIsSettled
    FailedEndIsRecovered
    ServerHearsTheEnd
    IInv
PROPERTIES
    OutputsFollowThePlayer
    PromiseKept
    RunsConclude
CHECK_DEADLOCK FALSE
