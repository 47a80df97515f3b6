SPECIFICATION FairSpec
CONSTANTS
    Titles = {t1, t2}
    Copies = {1, 2}
    ActiveTitles = {t1}
    Nothing = Nothing
    MaxViewings = 2
    MaxInbox = 2
INVARIANTS
    HandedOverInOrder
PROPERTIES
    WatchedIsHandedOver
    SilenceIsNoticed
CHECK_DEADLOCK FALSE
