\* A block may be asked to grow by as much as a chunk.
CONSTANTS
    Packages = {"mm"}
    MAX_HEAP = 208
    mem_start_brk = 8
    Span = 65536
    CHUNKSIZE = 48
    Memcpy = {"up"}
    Ids = {1, 2}
    Sizes = {8, 24, 72}
SPECIFICATION Spec
VIEW View
INVARIANT HeapChecks
CHECK_DEADLOCK FALSE
