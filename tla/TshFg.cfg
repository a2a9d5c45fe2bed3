SPECIFICATION Spec
CONSTANTS
    MAXJOBS = 2
    Pids = {1, 2}
    NULL = NULL
    Commands = {"job", "job&", "fg", "bg"}
    MaxJid = 3
PROPERTY
    PromptReturns
