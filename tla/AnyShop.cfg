SPECIFICATION Spec
CONSTANTS
    visitors = 3
    barbers = 2
    chairs = 1
    MaxComplaints = 1
    NULL = NULL
INVARIANTS
    ThrlabTypeOK
    CountsAgree
    RoomsAgree
    OvercrowdingReported
    VerdictIsEarned
