SPECIFICATION Spec
CONSTANTS
    MAXJOBS = 2
    Pids = {1, 2}
    NULL = NULL
    Commands = {"job", "job&", "fg", "bg", "blank"}
    MaxJid = 3
INVARIANTS
    TypeOK
    OneForeground
    ForegroundIsAwaited
    JobsAreChildren
    ChildrenAreListed
PROPERTIES
    BackgroundUntouched
    ZombiesAreReaped
