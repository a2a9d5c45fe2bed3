-------------------------------- MODULE Tags --------------------------------
(***************************************************************************)
(* What mm.c and mm-firstfit.c have in common: a heap of blocks with       *)
(* boundary tags.  A block is named by its payload address bp: its header  *)
(* is the word before it, its footer the last word; both hold the size of  *)
(* the block, a multiple of 8, and in the low bit whether it is allocated. *)
(* The heap starts with an allocated block of 8 bytes and ends with an     *)
(* allocated header of size 0.                                             *)
(***************************************************************************)
EXTENDS Memlib, Sequences, FiniteSetsExt

CONSTANTS
    CHUNKSIZE,  \* bytes by which an exhausted heap grows
    Memcpy      \* the orders in which memcpy may copy: "up", "down"

ASSUME ChunkAssumption == CHUNKSIZE \in Nat /\ CHUNKSIZE % 8 = 0 /\ CHUNKSIZE >= 16

ASSUME MemcpyAssumption == Memcpy \subseteq {"up", "down"} /\ Memcpy # {}

DSIZE == 8
OVERHEAD == 8
MINIMUM == 16

(* The process has ended in exit(1), or in the C library's free. *)
Exited == -2

PACK(size, alloc) == size + alloc
SizeOf(word) == word - (word % 8)
AllocOf(word) == word % 2

GET_SIZE(h, a) == SizeOf(GET(h, a))
GET_ALLOC(h, a) == AllocOf(GET(h, a))

HDRP(bp) == (bp - WSIZE) % Span
FTRP(h, bp) == (bp + GET_SIZE(h, HDRP(bp)) - DSIZE) % Span
NEXT_BLKP(h, bp) == (bp + GET_SIZE(h, HDRP(bp))) % Span
PREV_BLKP(h, bp) == (bp - GET_SIZE(h, (bp - DSIZE) % Span)) % Span

(* PUT(HDRP(bp), w); PUT(FTRP(bp), w): the footer is where the new header  *)
(* says.                                                                   *)
Tag(h, bp, size, alloc) ==
    LET PutFooter(g) == PUT(g, FTRP(g, bp), PACK(size, alloc))
    IN  PutFooter(PUT(h, HDRP(bp), PACK(size, alloc)))

(* Mutant: only the header is counted as overhead. *)
MutAdjusted(size) ==
    IF size <= DSIZE THEN DSIZE + OVERHEAD
    ELSE DSIZE * ((size + WSIZE + (DSIZE - 1)) \div DSIZE)

(* The size of the block that serves a request: rounded up, with its tags. *)
Adjusted(size) ==
    IF size <= DSIZE THEN DSIZE + OVERHEAD
    ELSE DSIZE * ((size + OVERHEAD + (DSIZE - 1)) \div DSIZE)

heap_listp == mem_start_brk + DSIZE

(* The blocks from the prologue on, by the sizes in their headers, to the  *)
(* first size 0, from which the next block is the same again: the loop of  *)
(* mm_checkheap, and of find_fit in mm-firstfit.c.  The bound is more than *)
(* the area has room for.                                                  *)
MaxBlocks == MAX_HEAP \div 8
Steps == 0 .. MaxBlocks
Walk(h) ==
    LET block[n \in Steps] ==
            IF n = 0 THEN heap_listp ELSE NEXT_BLKP(h, block[n - 1])
    IN  block

(* Of the blocks that a walk comes to in the steps fits, the first one. *)
FirstOf(walk, fits) == IF fits = {} THEN NULL ELSE walk[Min(fits)]

(* The padding, the prologue and the epilogue of an empty heap at base. *)
EmptyHeap(h, base) ==
    LET Prologue(g) == PUT(PUT(PUT(g, base, 0), base + WSIZE, PACK(OVERHEAD, 1)),
                           base + DSIZE, PACK(OVERHEAD, 1))
    IN  PUT(Prologue(h), base + WSIZE + DSIZE, PACK(0, 1))

(* The heap grows by a free block, ret, not joined with its neighbour yet; *)
(* NULL when the break is at its limit.                                    *)
Grown(h, words) ==
    LET size == (words + (words % 2)) * WSIZE
        PutEpilogue(g, bp) == PUT(g, HDRP(NEXT_BLKP(g, bp)), PACK(0, 1))
        Extend(g) == IF g.ret = Failed THEN [g EXCEPT !.ret = NULL]
                     ELSE PutEpilogue(Tag(g, g.ret, size, 0), g.ret)
    IN  Extend(mem_sbrk(h, size))

(* Mutant: of three blocks that join, the middle one's footer is written. *)
MutJoined(h, bp) ==
    LET prev == PREV_BLKP(h, bp)
        next == NEXT_BLKP(h, bp)
        prev_alloc == GET_ALLOC(h, FTRP(h, prev))
        next_alloc == GET_ALLOC(h, HDRP(next))
        size == GET_SIZE(h, HDRP(bp))
        Ends(first, last, s) ==
            [PUT(PUT(h, FTRP(h, last), PACK(s, 0)), HDRP(first), PACK(s, 0)) EXCEPT !.ret = first]
    IN  CASE prev_alloc = 1 /\ next_alloc = 1 -> [h EXCEPT !.ret = bp]
          [] prev_alloc = 1 /\ next_alloc = 0 -> Ends(bp, next, size + GET_SIZE(h, HDRP(next)))
          [] prev_alloc = 0 /\ next_alloc = 1 -> Ends(prev, bp, size + GET_SIZE(h, HDRP(prev)))
          [] prev_alloc = 0 /\ next_alloc = 0 ->
                Ends(prev, bp, size + GET_SIZE(h, HDRP(prev)) + GET_SIZE(h, FTRP(h, next)))

(* The free block bp and its free neighbours become one: a header at the   *)
(* first of them, a footer at the end of the last.                         *)
Joined(h, bp) ==
    LET prev == PREV_BLKP(h, bp)
        next == NEXT_BLKP(h, bp)
        prev_alloc == GET_ALLOC(h, FTRP(h, prev))
        next_alloc == GET_ALLOC(h, HDRP(next))
        size == GET_SIZE(h, HDRP(bp))
        Ends(first, last, s) ==
            [PUT(PUT(h, FTRP(h, last), PACK(s, 0)), HDRP(first), PACK(s, 0)) EXCEPT !.ret = first]
    IN  CASE prev_alloc = 1 /\ next_alloc = 1 -> [h EXCEPT !.ret = bp]
          [] prev_alloc = 1 /\ next_alloc = 0 -> Ends(bp, next, size + GET_SIZE(h, HDRP(next)))
          [] prev_alloc = 0 /\ next_alloc = 1 -> Ends(prev, bp, size + GET_SIZE(h, HDRP(prev)))
          [] prev_alloc = 0 /\ next_alloc = 0 ->
                Ends(prev, next, size + GET_SIZE(h, HDRP(prev)) + GET_SIZE(h, FTRP(h, next)))

(* memcpy of n bytes, word by word.  When the areas overlap, a word that   *)
(* is read late may have been written already: copying in the order that   *)
(* runs from dst towards src.  C leaves the order open.                    *)
memcpy(h, dst, src, n, order) ==
    LET words == n \div WSIZE
        gap == (src - dst) \div WSIZE
        late(k) == /\ k + gap \in 0 .. words - 1
                   /\ \/ order = "down" /\ gap > 0
                      \/ order = "up" /\ gap < 0
        val[k \in 0 .. words - 1] ==
            IF late(k) THEN val[k + gap] ELSE GET(h, src + WSIZE * k)
        into == {dst + WSIZE * k : k \in 0 .. words - 1} \cap Storage
    IN  [h EXCEPT !.mem = [a \in Storage |->
            IF a \in into THEN val[(a - dst) \div WSIZE] ELSE @[a]]]
=============================================================================
