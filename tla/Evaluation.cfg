\* One trace of up to four requests over two blocks is validated, replayed
\* for its utilization and timed by two runs between readings of the time of
\* day; a trace of up to two requests by the interval timer, and by fcyc with
\* the two best of four samples.  Words of 4 values and seconds of
\* 4 microseconds: the counter's low word, its high word and the seconds all
\* wrap around while f runs.
CONSTANTS
    Packages = {"mm", "mm-firstfit"}
    MAX_HEAP = 112
    mem_start_brk = 8
    Span = 65536
    CHUNKSIZE = 48
    Memcpy = {"up"}
    Ids = {1, 2}
    Sizes = {8, 12, 36}
    Word = 4
    Micro = 4
    MAX_ETIME = 9
    kbest = 2
    maxsamples = 4
    EpsNum = 1
    EpsDen = 4
    compensate = TRUE
    cyc_per_tick = 2
    Readings = {14}
    Cycles = {3, 5}
    Ticks = {0, 1}
    Methods = {"fcyc", "gettod", "itimer"}
    MaxOps = 4
    TimedOps = 2
    Runs = 2
SPECIFICATION EvalSpec
INVARIANTS
    EvalTypeOK
    ReplaysAgree
    HighWater
    KBest
    SamplesAreExact
    TimeIsElapsed
PROPERTY
    ValidIsScored
\* A trace ends in a score, or with an error.
CHECK_DEADLOCK FALSE
