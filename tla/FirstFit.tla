------------------------------ MODULE FirstFit ------------------------------
(***************************************************************************)
(* mm-firstfit.c: the other allocator of the handout.  It has the tags of  *)
(* mm.c and no list: free blocks are found by walking over all blocks from *)
(* the start of the heap, and mm_realloc always moves.                     *)
(***************************************************************************)
EXTENDS Tags

(* Mutant: a block of exactly the size that is needed is passed over. *)
Mutfind_fit(h, asize) ==
    LET walk == Walk(h)
        Fits(bp) == GET_ALLOC(h, HDRP(bp)) = 0 /\ asize < GET_SIZE(h, HDRP(bp))
    IN  FirstOf(walk, {n \in Steps : Fits(walk[n])})

(* The first block of the heap that is free and large enough; the epilogue *)
(* at the end of the walk is tagged allocated.                             *)
find_fit(h, asize) ==
    LET walk == Walk(h)
        Fits(bp) == GET_ALLOC(h, HDRP(bp)) = 0 /\ asize <= GET_SIZE(h, HDRP(bp))
    IN  FirstOf(walk, {n \in Steps : Fits(walk[n])})

coalesce(h, bp) == Joined(h, bp)

extend_heap(h, words) ==
    LET Join(g) == IF g.ret = NULL THEN g ELSE coalesce(g, g.ret)
    IN  Join(Grown(h, words))

(* The free block bp becomes allocated; what it can spare stays free.      *)
place(h, bp, asize) ==
    LET csize == GET_SIZE(h, HDRP(bp))
        TagRest(g) == Tag(g, NEXT_BLKP(g, bp), csize - asize, 0)
    IN  IF csize - asize >= DSIZE + OVERHEAD
        THEN TagRest(Tag(h, bp, asize, 1))
        ELSE Tag(h, bp, csize, 1)

-----------------------------------------------------------------------------
(* The test of mem_sbrk's answer for NULL is dead: a failure is -1. *)
mm_init(h) ==
    LET Status(g) == [g EXCEPT !.ret = IF g.ret = NULL THEN -1 ELSE 0]
        Fresh(g) == EmptyHeap(g, g.ret)
    IN  Status(extend_heap(Fresh(mem_sbrk(h, 4 * WSIZE)), CHUNKSIZE \div WSIZE))

mm_malloc(h, size) ==
    LET asize == Adjusted(size)
        Place(g, bp) == [place(g, bp, asize) EXCEPT !.ret = bp]
        Grow(g) == IF g.ret = NULL THEN g ELSE Place(g, g.ret)
        Fit(bp) == IF bp # NULL THEN Place(h, bp)
                   ELSE Grow(extend_heap(h, Max({asize, CHUNKSIZE}) \div WSIZE))
    IN  IF size <= 0 THEN [h EXCEPT !.ret = NULL] ELSE Fit(find_fit(h, asize))

mm_free(h, bp) == coalesce(Tag(h, bp, GET_SIZE(h, HDRP(bp)), 0), bp)

(* The size copied is that of the whole block, tags included, unless fewer *)
(* bytes are asked for.  The two blocks do not overlap, so the order of    *)
(* copying is of no matter.                                                *)
mm_realloc(h, ptr, size) ==
    LET Copied(g) == memcpy(g, g.ret, ptr, Min({size, GET_SIZE(g, HDRP(ptr))}), "up")
        Move(g) == IF g.ret = NULL THEN [g EXCEPT !.ret = Exited]
                   ELSE [mm_free(Copied(g), ptr) EXCEPT !.ret = g.ret]
    IN  Move(mm_malloc(h, size))
=============================================================================
