SPECIFICATION Spec
CONSTANTS
    Apps = {emby, other}
    Hdmi = Hdmi
    NoApp = NoApp
    NormalPolls = 1
    ReplacementPolls = 2
INVARIANT ObeyedStartupSucceeds
CHECK_DEADLOCK FALSE
