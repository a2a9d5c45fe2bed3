\* Three blocks, and requests that need 16, 24 and 48 bytes in chunks of 48:
\* a block may fill a chunk, be split off one, or span two that merged.
CONSTANTS
    Packages = {"mm", "mm-firstfit"}
    MAX_HEAP = 112
    mem_start_brk = 8
    Span = 65536
    CHUNKSIZE = 48
    Memcpy = {"up"}
    Ids = {1, 2, 3}
    Sizes = {8, 12, 36}
SPECIFICATION Spec
\* Words no block uses are left out of the comparison of states.
VIEW View
INVARIANTS
    TypeOK
    HeapChecks
    FreeListIsTheFreeBlocks
    ClientOwnsAllocated
    PayloadsKept
    FailsOnlyWhenFull
PROPERTY
    ImplementsArena
\* After exit(1) nothing runs.
CHECK_DEADLOCK FALSE
