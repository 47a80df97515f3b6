SPECIFICATION Spec
CONSTANTS
    WsRequests = {w1, w2}
    HttpRequests = {h1}
    Items = {film, episode}
    None = None
INVARIANTS
    EventHasAnOwner
    ActiveIsTheLatest
    QuietIsFree
    FailureIsSeldomOverlooked
    OutputsComeHome
CHECK_DEADLOCK FALSE
SYMMETRY Symmetry
