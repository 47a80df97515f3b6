SPECIFICATION FairSpec
CONSTANTS
    Streams <- MCStreams
    Requests <- MCRequests
    Commands <- MCCommands
    MaxAttempts = 2
    MaxPlaybacks = 2
    MaxCommands = 2
    MaxViewer = 1
    Raised = Raised
    None = None
INVARIANTS
    StartupSelectsWhatWasAsked
    NotedIsSelected
    RefusedIsUnderWay
PROPERTIES
    SelectionsEnd
CHECK_DEADLOCK FALSE
