SPECIFICATION Spec
CONSTANTS
    WsRequests = {w1}
    HttpRequests = {h1}
    Items = {film, episode}
    None = None
INVARIANTS
    NoStartOverAPlayingSession
CHECK_DEADLOCK FALSE
