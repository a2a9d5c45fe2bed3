------------------------------ MODULE Mdriver -------------------------------
(***************************************************************************)
(* mdriver.c, eval_mm_valid: a client that runs traces of requests against *)
(* an allocator and checks every answer.  mm.o is built from mm.c, or from *)
(* the handout's mm-firstfit.c; both have the functions mm.h declares.     *)
(*                                                                         *)
(* A trace is a sequence of requests a, r and f over block numbers; the    *)
(* model takes every sequence that allocates before it reallocates or      *)
(* frees.  A trace ends at any request; the next one resets the heap, and  *)
(* finds in the memory whatever the last one left there.                   *)
(***************************************************************************)
EXTENDS Tags, SequencesExt

CONSTANTS
    Packages,   \* the sources mm.o may be built from: "mm", "mm-firstfit"
    Ids,    \* the block numbers of the traces; below 128, because the driver
            \* compares a signed char with the number's low byte
    Sizes   \* the bytes they request, in whole words

ASSUME PackagesAssumption == Packages \subseteq {"mm", "mm-firstfit"}

ASSUME TraceAssumption ==
    /\ Ids \subseteq 1 .. 15
    /\ Sizes \subseteq {s \in 1 .. MAX_HEAP : s % WSIZE = 0}
    /\ Span >= 4096    \* a word holds what the driver fills a block with

VARIABLES
    package,      \* the allocator the driver is linked with
    heap,         \* the memory and the allocator's list head
    blocks,       \* trace->blocks: where each number's block is, NULL if nowhere
    block_sizes,  \* trace->block_sizes
    ranges,       \* the range list: the payloads that are out
    verdict       \* what the driver has to say of the trace so far

vars == <<package, heap, blocks, block_sizes, ranges, verdict>>

Mm == INSTANCE Mm
FirstFit == INSTANCE FirstFit

mm_init(h) == IF package = "mm" THEN Mm!mm_init(h) ELSE FirstFit!mm_init(h)

mm_malloc(h, size) ==
    IF package = "mm" THEN Mm!mm_malloc(h, size) ELSE FirstFit!mm_malloc(h, size)

mm_free(h, bp) == IF package = "mm" THEN Mm!mm_free(h, bp) ELSE FirstFit!mm_free(h, bp)

mm_realloc(h, ptr, size, order) ==
    IF package = "mm" THEN Mm!mm_realloc(h, ptr, size, order)
    ELSE FirstFit!mm_realloc(h, ptr, size)

Live == {i \in Ids : blocks[i] # NULL}

(* A word every byte of which is the number of the block. *)
Filler(index) == 257 * index

memset(h, p, index, size) ==
    [h EXCEPT !.mem = [a \in Storage |->
        IF a \in p .. p + size - 1 THEN Filler(index) ELSE @[a]]]

(* What add_range objects to, "ok" if nothing. *)
RangeVerdict(rs, h, lo, size) ==
    LET hi == lo + size - 1
        inHeap(a) == mem_heap_lo <= a /\ a <= mem_heap_hi(h)
        overlaps(p) == \/ p.lo <= lo /\ lo <= p.hi
                       \/ p.lo <= hi /\ hi <= p.hi
    IN  CASE lo % 8 # 0 -> "not aligned"
          [] lo % 8 = 0 /\ ~(inHeap(lo) /\ inHeap(hi)) -> "outside heap"
          [] OTHER -> IF \E p \in rs : overlaps(p) THEN "overlaps" ELSE "ok"

add_range(rs, lo, size) == rs \cup {[lo |-> lo, hi |-> lo + size - 1]}

remove_range(rs, lo) == {p \in rs : p.lo # lo}

(* The first bytes of the block, as far as they are still asked for, hold  *)
(* what the driver wrote into them.                                        *)
Preserved(h, p, index, size) ==
    \A a \in Storage \cap (p .. p + size - 1) : GET(h, a) = Filler(index)

(* The start of a trace, over the memory h. *)
Started(h) == mm_init(mem_reset_brk(h))

Init ==
    /\ package \in Packages
    /\ heap = Started(mem_init)
    /\ blocks = [i \in Ids |-> NULL]
    /\ block_sizes = [i \in Ids |-> 0]
    /\ ranges = {}
    /\ verdict = IF heap.ret < 0 THEN "mm_init failed" ELSE "ok"

(* The answer p passed every check: the number's block is p. *)
Remember(i, h, p, size, rs) ==
    /\ verdict' = "ok"
    /\ heap' = memset(h, p, i, size)
    /\ blocks' = [blocks EXCEPT ![i] = p]
    /\ block_sizes' = [block_sizes EXCEPT ![i] = size]
    /\ ranges' = add_range(rs, p, size)

(* An error ends the trace. *)
malloc_error(what, h, rs) ==
    /\ verdict' = what
    /\ heap' = h
    /\ ranges' = rs
    /\ UNCHANGED <<blocks, block_sizes>>

Alloc(i, size) ==
    /\ verdict = "ok" /\ i \notin Live
    /\ \E h \in {mm_malloc(heap, size)} :
          LET said == IF h.ret = NULL THEN "mm_malloc failed"
                      ELSE RangeVerdict(ranges, h, h.ret, size)
          IN  \/ said = "ok" /\ Remember(i, h, h.ret, size, ranges)
              \/ said # "ok" /\ malloc_error(said, h, ranges)

(* What the driver says of realloc's answer, rs being the other ranges. *)
ReallocVerdict(i, h, size, rs) ==
    CASE h.ret = NULL -> "mm_realloc failed"
      [] h.ret = Exited -> "exited"
      [] OTHER ->
            LET said == RangeVerdict(rs, h, h.ret, size)
                oldsize == Min({size, block_sizes[i]})
            IN  IF said = "ok" /\ ~Preserved(h, h.ret, i, oldsize)
                THEN "not preserved" ELSE said

Realloc(i, size, order) ==
    /\ verdict = "ok" /\ i \in Live
    /\ \E h \in {mm_realloc(heap, blocks[i], size, order)} :
          LET rs == remove_range(ranges, blocks[i])
              said == ReallocVerdict(i, h, size, rs)
          IN  \/ said = "ok" /\ Remember(i, h, h.ret, size, rs)
              \/ said # "ok"
                 /\ malloc_error(said, h, IF h.ret \in {NULL, Exited} THEN ranges ELSE rs)

Free(i) ==
    /\ verdict = "ok" /\ i \in Live
    /\ ranges' = remove_range(ranges, blocks[i])
    /\ heap' = mm_free(heap, blocks[i])
    /\ blocks' = [blocks EXCEPT ![i] = NULL]
    /\ UNCHANGED <<block_sizes, verdict>>

NextTrace ==
    /\ verdict # "exited"
    /\ heap' = Started(heap)
    /\ blocks' = [i \in Ids |-> NULL]
    /\ block_sizes' = [i \in Ids |-> 0]
    /\ ranges' = {}
    /\ verdict' = IF heap'.ret < 0 THEN "mm_init failed" ELSE "ok"

Next ==
    /\ UNCHANGED package
    /\ \/ \E i \in Ids, size \in Sizes : Alloc(i, size)
       \/ \E i \in Ids, size \in Sizes, order \in Memcpy : Realloc(i, size, order)
       \/ \E i \in Ids : Free(i)
       \/ NextTrace

Spec == Init /\ [][Next]_vars

-----------------------------------------------------------------------------
(* The heap as mm_checkheap walks it. *)
Walked == LET walk == Walk(heap) IN {walk[n] : n \in Steps}
Epilogue == Walk(heap)[MaxBlocks]
Blocks == Walked \ {Epilogue}
FreeBlocks == {bp \in Blocks : GET_ALLOC(heap, HDRP(bp)) = 0}

(* The words that mean something: the tags of every block, the links of    *)
(* every free one, and the payloads the client is using.  No other word is *)
(* read before it is written, so states that agree on these have the same  *)
(* futures.                                                                *)
Meant ==
    LET walked == Walked
        linked == {bp \in walked : package = "mm" /\ GET_ALLOC(heap, HDRP(bp)) = 0}
    IN  {HDRP(bp) : bp \in walked} \cup {FTRP(heap, bp) : bp \in walked}
        \cup linked \cup {bp + WSIZE : bp \in linked}
        \cup UNION {Storage \cap (blocks[i] .. blocks[i] + block_sizes[i] - 1) : i \in Live}

View == <<package, [a \in Meant |-> GET(heap, a)], heap.mem_brk, heap.free_listp,
          blocks, block_sizes, ranges, verdict>>
-----------------------------------------------------------------------------
Verdicts ==
    {"ok", "mm_init failed", "mm_malloc failed", "mm_realloc failed", "exited",
     "not aligned", "outside heap", "overlaps", "not preserved"}

(* The state is well formed: words of one machine word, a break inside the *)
(* area, a list head and block addresses in the heap or NULL.              *)
TypeOK ==
    /\ package \in Packages
    /\ heap.mem \in [Storage -> 0 .. Span - 1]
    /\ heap.mem_brk \in mem_start_brk .. mem_max_addr
    /\ heap.free_listp \in Storage \cup {NULL}
    /\ blocks \in [Ids -> Storage \cup {NULL}]
    /\ block_sizes \in [Ids -> Sizes \cup {0}]
    /\ \A p \in ranges : p.lo \in Storage /\ p.hi \in Nat
    /\ verdict \in Verdicts

(* mm_checkheap has nothing to report after any request: the prologue is a *)
(* block of 8 allocated bytes, every block is aligned, its footer equal to *)
(* its header, no two free blocks touch, and the walk ends at the break in *)
(* an allocated header of size 0.                                          *)
HeapChecks ==
    /\ GET(heap, HDRP(heap_listp)) = PACK(DSIZE, 1)
    /\ \A bp \in Blocks :
          /\ bp % 8 = 0
          /\ GET(heap, HDRP(bp)) = GET(heap, FTRP(heap, bp))
    /\ \A bp \in FreeBlocks :
          /\ GET_ALLOC(heap, HDRP(PREV_BLKP(heap, bp))) = 1
          /\ GET_ALLOC(heap, HDRP(NEXT_BLKP(heap, bp))) = 1
    /\ Epilogue = heap.mem_brk /\ GET(heap, HDRP(Epilogue)) = PACK(0, 1)

(* The explicit list is the free blocks of the heap, each once, and can be *)
(* walked both ways: what insertBlock, removeBlock and the tags that place *)
(* and coalesce write must agree on after any sequence of requests.        *)
FreeListIsTheFreeBlocks ==
    package = "mm" =>
        LET list == Mm!Listed(heap)
            nodes == {n \in Steps : list[n] # NULL}
        IN  /\ {list[n] : n \in nodes} = FreeBlocks
            /\ Cardinality(nodes) = Cardinality(FreeBlocks)
            /\ \A n \in nodes :
                  Mm!PrevFree(heap, list[n]) = IF n = 0 THEN NULL ELSE list[n - 1]

(* The allocated blocks are the ones the client holds, no more and no      *)
(* less, and each has room for its payload between its tags: nothing       *)
(* leaks, nothing is handed out twice, no neighbour is inside a payload.   *)
ClientOwnsAllocated ==
    /\ Blocks \ FreeBlocks = {heap_listp} \cup {blocks[i] : i \in Live}
    /\ \A i, j \in Live : blocks[i] = blocks[j] => i = j
    /\ \A i \in Live :
          block_sizes[i] + OVERHEAD <= GET_SIZE(heap, HDRP(blocks[i]))

(* A payload keeps what its owner wrote while other blocks are allocated,  *)
(* freed, merged, split and moved around it: no tag, link or copy of mm.c  *)
(* lands in it.                                                            *)
PayloadsKept ==
    \A i \in Live : Preserved(heap, blocks[i], i, block_sizes[i])

(* The only error the driver ever reports is that memory is exhausted, and *)
(* it is: the break has no room for another chunk.                         *)
FailsOnlyWhenFull ==
    verdict # "ok" =>
        /\ verdict \in {"mm_malloc failed", "mm_realloc failed", "exited"}
        /\ heap.mem_brk + CHUNKSIZE > mem_max_addr

(* The extent of a block, from its payload to the next one's. *)
Extent(i) ==
    LET bp == blocks[i]
    IN  IF bp = NULL THEN [lo |-> 0, hi |-> 0]
        ELSE [lo |-> bp, hi |-> bp + GET_SIZE(heap, HDRP(bp))]

Promise == INSTANCE Arena WITH
    Needs <- {Adjusted(size) : size \in Sizes},
    Base <- mem_start_brk + 2 * DSIZE,
    Limit <- mem_max_addr,
    Chunk <- CHUNKSIZE,
    Smallest <- MINIMUM,
    lowest <- package = "mm-firstfit",
    stays <- package = "mm",
    extents <- [i \in Ids |-> Extent(i)],
    top <- heap.mem_brk,
    refused <- verdict # "ok"

(* Whatever tags and links say, the client sees an arena: room that no     *)
(* block of his covers is used as one gap however it came about, the heap  *)
(* grows only when no gap is large enough, mm-firstfit takes the lowest    *)
(* gap, mm.c moves a block only when there is no room beside it or when it *)
(* is too large by less than a minimal block (mm.c:329, Loose in Arena).   *)
ImplementsArena == Promise!Spec
=============================================================================
