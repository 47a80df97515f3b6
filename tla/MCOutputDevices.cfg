SPECIFICATION DevicesSpec
CONSTANTS
    Apps = {emby, other}
    HdmiInputs = {hdmi, hdmi1}
    Emby = emby
    Hdmi = hdmi
    NoApp = none
    Delays <- CodeDelays
    MinStable = 4
    MaxRetries = 2
    StableCount = 3
    SettlePolls = 6
    Redirects = 3
    Horizon = 8
INVARIANTS
    FlowReturns
    SettledIsStable
    RedirectIsUndone
CHECK_DEADLOCK FALSE
