SPECIFICATION Spec
CONSTANTS
    Settings = {s1, old, new}
    Old = old
    New = new
    Passwords = {p1, p2}
    None = None
    Torn = torn
    Blank = blank
INVARIANTS
    PasswordIsKept
    PublicIsClean
    OldOnlyAfterReload
    UsedIsSaved
CHECK_DEADLOCK FALSE
