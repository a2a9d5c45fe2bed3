SPECIFICATION Spec
CONSTANTS
    MAXJOBS = 2
    Pids = {1, 2}
    NULL = NULL
    Commands = {"job", "job&"}
    MaxJid = 3
INVARIANT
    EvalSurvives
