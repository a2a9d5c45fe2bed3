--------------------------------- MODULE Mm ---------------------------------
(***************************************************************************)
(* mm.c: an allocator with boundary tags and an explicit free list.        *)
(*                                                                         *)
(* Every function of mm.c is an operator from the heap it finds to the     *)
(* heap it leaves, its result in the field ret; the PUTs come in the order *)
(* of the code, because each address is computed from the tags the earlier *)
(* PUTs wrote.  While a block is free its first two words are the links    *)
(* prev and next.                                                          *)
(***************************************************************************)
EXTENDS Tags

-----------------------------------------------------------------------------
(* The free list.                                                          *)

PrevFree(h, p) == GET(h, p)
NextFree(h, p) == GET(h, p + WSIZE)
SetPrev(h, p, q) == PUT(h, p, q)
SetNext(h, p, q) == PUT(h, p + WSIZE, q)

insertBlock(h, bp) ==
    IF h.free_listp = NULL
    THEN SetNext(SetPrev([h EXCEPT !.free_listp = bp], bp, NULL), bp, NULL)
    ELSE LET p == h.free_listp
             g == SetNext(SetPrev(SetPrev(h, p, bp), bp, NULL), bp, p)
         IN  [g EXCEPT !.free_listp = bp]

(* Mutant: the successor keeps pointing back at the removed block. *)
MutremoveBlock(h, bp) ==
    IF PrevFree(h, bp) # NULL
    THEN SetNext(h, PrevFree(h, bp), NextFree(h, bp))
    ELSE [h EXCEPT !.free_listp = NextFree(h, bp)]

removeBlock(h, bp) ==
    LET Behind(g) == IF NextFree(g, bp) # NULL THEN SetPrev(g, NextFree(g, bp), PrevFree(g, bp))
                     ELSE g
        Front(g) == IF NextFree(g, bp) # NULL THEN SetPrev(g, NextFree(g, bp), NULL) ELSE g
        Ahead(g) == IF PrevFree(g, bp) # NULL
                    THEN SetNext(g, PrevFree(g, bp), NextFree(g, bp))
                    ELSE Front([g EXCEPT !.free_listp = NextFree(g, bp)])
    IN  Ahead(Behind(h))

(* The list from its head on, and NULL from its end on; a list that is     *)
(* longer than the heap has blocks is followed no further.                 *)
Listed(h) ==
    LET After(p) == IF p = NULL THEN NULL ELSE NextFree(h, p)
        node[n \in Steps] == IF n = 0 THEN h.free_listp ELSE After(node[n - 1])
    IN  node

(* First fit: the first listed block that is free and large enough. *)
find_fit(h, asize) ==
    LET list == Listed(h)
        Fits(p) ==
            p # NULL /\ GET_ALLOC(h, HDRP(p)) = 0 /\ asize <= GET_SIZE(h, HDRP(p))
    IN  FirstOf(list, {n \in Steps : Fits(list[n])})

-----------------------------------------------------------------------------
(* Coalescing: bp is tagged free and not listed; the free block it becomes *)
(* part of is put at the front of the list.                                *)

coalesce(h, bp) ==
    LET next == NEXT_BLKP(h, bp)
        prev == PREV_BLKP(h, bp)
        OffNext(g) == IF GET_ALLOC(h, HDRP(next)) = 0 THEN removeBlock(g, next) ELSE g
        OffPrev(g) == IF GET_ALLOC(h, FTRP(h, prev)) = 0 THEN removeBlock(g, prev) ELSE g
        Listing(g) == insertBlock(g, g.ret)
    IN  Listing(Joined(OffPrev(OffNext(h)), bp))

extend_heap(h, words) ==
    LET Join(g) == IF g.ret = NULL THEN g ELSE coalesce(g, g.ret)
    IN  Join(Grown(h, words))

(* Mutant: a remainder too small for a block is split off as well. *)
Mutplace(h, bp, asize) ==
    LET csize == GET_SIZE(h, HDRP(bp))
        Coalesce(g) == coalesce(g, NEXT_BLKP(g, bp))
        TagRest(g) == Tag(g, NEXT_BLKP(g, bp), csize - asize, 0)
    IN  IF csize - asize >= DSIZE
        THEN Coalesce(TagRest(removeBlock(Tag(h, bp, asize, 1), bp)))
        ELSE removeBlock(Tag(h, bp, csize, 1), bp)

(* The free block bp becomes allocated; what it can spare stays free. *)
place(h, bp, asize) ==
    LET csize == GET_SIZE(h, HDRP(bp))
        Coalesce(g) == coalesce(g, NEXT_BLKP(g, bp))
        TagRest(g) == Tag(g, NEXT_BLKP(g, bp), csize - asize, 0)
    IN  IF csize - asize >= DSIZE + OVERHEAD
        THEN Coalesce(TagRest(removeBlock(Tag(h, bp, asize, 1), bp)))
        ELSE removeBlock(Tag(h, bp, csize, 1), bp)

-----------------------------------------------------------------------------
(* The package's functions.                                                *)

(* Mutant: the list keeps the head it had. *)
Mutmm_init(h) ==
    LET Status(g) == [g EXCEPT !.ret = IF g.ret = NULL THEN -1 ELSE 0]
    IN  Status(extend_heap(EmptyHeap(mem_sbrk(h, 4 * WSIZE), mem_start_brk),
                           CHUNKSIZE \div WSIZE))

(* The test of mem_sbrk's answer for NULL is dead: a failure is -1. *)
mm_init(h) ==
    LET Status(g) == [g EXCEPT !.ret = IF g.ret = NULL THEN -1 ELSE 0]
        Fresh(g) == [EmptyHeap(g, g.ret) EXCEPT !.free_listp = NULL]
    IN  Status(extend_heap(Fresh(mem_sbrk(h, 4 * WSIZE)), CHUNKSIZE \div WSIZE))

mm_malloc(h, size) ==
    LET asize == Adjusted(size)
        Place(g, bp) == [place(g, bp, asize) EXCEPT !.ret = bp]
        Grow(g) == IF g.ret = NULL THEN g ELSE Place(g, g.ret)
        Fit(bp) == IF bp # NULL THEN Place(h, bp)
                   ELSE Grow(extend_heap(h, Max({asize, CHUNKSIZE}) \div WSIZE))
    IN  IF size <= 0 THEN [h EXCEPT !.ret = NULL] ELSE Fit(find_fit(h, asize))

mm_free(h, bp) == coalesce(Tag(h, bp, GET_SIZE(h, HDRP(bp)), 0), bp)

(* The cases of mm_realloc, in the order the code tries them: the first    *)
(* whose condition holds is taken.                                         *)
Shrinks(h, ptr, newsize) == newsize + MINIMUM <= GET_SIZE(h, HDRP(ptr))

Grows(h, ptr, newsize) == newsize > GET_SIZE(h, HDRP(ptr))

(* The room of those neighbours of ptr that ns names. *)
Room(h, ptr, ns) ==
    LET size(n) == IF n \in ns THEN GET_SIZE(h, HDRP(n)) ELSE 0
    IN  size(PREV_BLKP(h, ptr)) + size(NEXT_BLKP(h, ptr))

(* What is missing fits into the neighbours ns, all of them free. *)
FitsInto(h, ptr, newsize, ns) ==
    /\ Grows(h, ptr, newsize)
    /\ \A n \in ns : GET_ALLOC(h, HDRP(n)) = 0
    /\ newsize - GET_SIZE(h, HDRP(ptr)) <= Room(h, ptr, ns)

(* Mutant: only the neighbours' room is counted. *)
MutMergedWith(h, ptr, ns, first) ==
    LET total == Room(h, ptr, ns)
        Off(g, n) == IF n \in ns THEN removeBlock(g, n) ELSE g
    IN  Tag(Off(Off(h, PREV_BLKP(h, ptr)), NEXT_BLKP(h, ptr)), first, total, 1)

(* The free neighbours ns leave the list, the block that starts at first   *)
(* takes all their room: newsize and what is left over.                    *)
MergedWith(h, ptr, ns, first) ==
    LET total == GET_SIZE(h, HDRP(ptr)) + Room(h, ptr, ns)
        Off(g, n) == IF n \in ns THEN removeBlock(g, n) ELSE g
    IN  Tag(Off(Off(h, PREV_BLKP(h, ptr)), NEXT_BLKP(h, ptr)), first, total, 1)

(* Past the end of the heap: a chunk is added and split, and the rest of   *)
(* it, an unsigned number, is freed as a block of its own.                 *)
Extended(h, ptr, newsize) ==
    LET copySize == GET_SIZE(h, HDRP(ptr))
        Rest(g) == NEXT_BLKP(g, ptr)
        FreeSize(e) == (GET_SIZE(e, HDRP(Rest(e))) - (newsize - copySize)) % Span
        TagRest(g, freesize) == Tag(g, Rest(g), freesize, 1)
        Free(g) == [mm_free(g, Rest(g)) EXCEPT !.ret = ptr]
        Split(e) == IF e.ret = NULL THEN e
                    ELSE Free(TagRest(Tag(removeBlock(e, Rest(e)), ptr, newsize, 1),
                                      FreeSize(e)))
    IN  Split(extend_heap(h, CHUNKSIZE \div WSIZE))

(* Mutant: the old block is not freed. *)
MutMoved(h, ptr, size, order) ==
    LET n == Min({size, GET_SIZE(h, HDRP(ptr))})
        Move(g) == IF g.ret = NULL THEN [g EXCEPT !.ret = Exited]
                   ELSE memcpy(g, g.ret, ptr, n, order)
    IN  Move(mm_malloc(h, size))

(* A new block is allocated, the old payload copied, the old block freed.  *)
Moved(h, ptr, size, order) ==
    LET n == Min({size, GET_SIZE(h, HDRP(ptr))})
        Move(g) == IF g.ret = NULL THEN [g EXCEPT !.ret = Exited]
                   ELSE [mm_free(memcpy(g, g.ret, ptr, n, order), ptr) EXCEPT !.ret = g.ret]
    IN  Move(mm_malloc(h, size))

(* A block ptr gets another size above 0. *)
Resized(h, ptr, size, order) ==
    LET newsize == Adjusted(size)
        copySize == GET_SIZE(h, HDRP(ptr))
        prev == PREV_BLKP(h, ptr)
        next == NEXT_BLKP(h, ptr)
        Return(g, p) == [g EXCEPT !.ret = p]
        FreeRest(g) == coalesce(Tag(g, NEXT_BLKP(g, ptr), copySize - newsize, 0),
                                NEXT_BLKP(g, ptr))
        Back(ns) == Return(memcpy(MergedWith(h, ptr, ns, prev), prev, ptr, copySize, order), prev)
    IN  CASE newsize = copySize -> Return(h, ptr)
          [] Shrinks(h, ptr, newsize) -> Return(FreeRest(Tag(h, ptr, newsize, 1)), ptr)
          [] FitsInto(h, ptr, newsize, {next}) -> Return(MergedWith(h, ptr, {next}, ptr), ptr)
          [] /\ FitsInto(h, ptr, newsize, {prev})
             /\ ~FitsInto(h, ptr, newsize, {next}) -> Back({prev})
          [] /\ FitsInto(h, ptr, newsize, {prev, next})
             /\ ~FitsInto(h, ptr, newsize, {next})
             /\ ~FitsInto(h, ptr, newsize, {prev}) -> Back({prev, next})
          [] OTHER ->
                IF Grows(h, ptr, newsize) /\ GET_SIZE(h, HDRP(next)) = 0
                THEN Extended(h, ptr, newsize)
                ELSE Moved(h, ptr, size, order)

(* Size 0 calls the C library's free on an address it never gave out, and  *)
(* that ends the process.                                                  *)
mm_realloc(h, ptr, size, order) ==
    CASE ptr = NULL -> mm_malloc(h, size)
      [] ptr # NULL /\ size = 0 -> [h EXCEPT !.ret = Exited]
      [] OTHER -> Resized(h, ptr, size, order)
=============================================================================
