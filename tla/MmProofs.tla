------------------------------ MODULE MmProofs ------------------------------
(***************************************************************************)
(* What is proved of the tags, and of the functions of mm-firstfit.c and   *)
(* mm.c: given a heap in order, each leaves one in order and does what its *)
(* caller relies on.                                                       *)
(***************************************************************************)
EXTENDS Mdriver, WellFoundedInduction, FiniteSetTheorems, TLAPS

-----------------------------------------------------------------------------
(* Words.                                                                  *)

(* The values of a word, and the heaps made of them. *)
Words == 0 .. Span - 1

Heaps == [mem : [Storage -> Words], mem_brk : Nat, free_listp : Words, ret : Int]

(* The area, by its addresses. *)
LEMMA StorageIsTheArea ==
    \A a \in Int :
        a \in Storage <=> a % 4 = 0 /\ mem_start_brk <= a /\ a < mem_max_addr
<1> SUFFICES ASSUME NEW a \in Int
             PROVE  a \in Storage <=> a % 4 = 0 /\ mem_start_brk <= a /\ a < mem_max_addr
  OBVIOUS
<1>1. /\ MAX_HEAP \in Nat /\ MAX_HEAP % 8 = 0
      /\ mem_start_brk \in Nat /\ mem_start_brk % 8 = 0
  BY AreaAssumption
<1>2. a \in Storage => a % 4 = 0 /\ mem_start_brk <= a /\ a < mem_max_addr
  BY <1>1 DEF Storage, mem_max_addr, WSIZE
<1>3. ASSUME a % 4 = 0, mem_start_brk <= a, a < mem_max_addr
      PROVE  a \in Storage
  <2> DEFINE k == (a - mem_start_brk) \div 4
  <2>1. k \in 0 .. (MAX_HEAP \div 4) - 1 /\ a = mem_start_brk + 4 * k
    BY <1>1, <1>3 DEF mem_max_addr
  <2> QED
    BY <2>1 DEF Storage, WSIZE
<1> QED
  BY <1>2, <1>3

(* Every word of the memory is a word. *)
LEMMA GetIsWord ==
    ASSUME NEW h \in Heaps
    PROVE  \A a : GET(h, a) \in Words
BY AreaAssumption DEF Heaps, GET, Words

(* A word that is written is read again, and no other has changed. *)
LEMMA PutThenGet ==
    ASSUME NEW h \in Heaps, NEW a \in Storage, NEW v \in Words
    PROVE  /\ PUT(h, a, v) \in Heaps
           /\ PUT(h, a, v).mem_brk = h.mem_brk
           /\ PUT(h, a, v).free_listp = h.free_listp
           /\ PUT(h, a, v).ret = h.ret
           /\ \A c : GET(PUT(h, a, v), c) = IF c = a THEN v ELSE GET(h, c)
<1>1. v % Span = v
  BY AreaAssumption DEF Words
<1>2. PUT(h, a, v) = [h EXCEPT !.mem[a] = v]
  BY <1>1 DEF PUT
<1>3. h.mem \in [Storage -> Words]
  BY DEF Heaps
<1> QED
  BY <1>2, <1>3 DEF Heaps, GET

(* An address in the area is not changed by computing modulo Span. *)
LEMMA InSpan ==
    ASSUME NEW a \in Nat, a <= mem_max_addr
    PROVE  a % Span = a
BY AreaAssumption DEF mem_max_addr

-----------------------------------------------------------------------------
(* Tags.                                                                   *)

(* What the header of a block says of it. *)
Size(h, b) == SizeOf(GET(h, b - 4))
Used(h, b) == AllocOf(GET(h, b - 4))
After(h, b) == b + Size(h, b)

(* A tag is a multiple of 8 and a bit. *)
IsTag(w) == w % 8 \in {0, 1}

(* A tag is its size and its bit. *)
LEMMA TagIsPacked ==
    ASSUME NEW w \in Nat, IsTag(w)
    PROVE  /\ SizeOf(w) \in Nat /\ SizeOf(w) % 8 = 0
           /\ AllocOf(w) \in {0, 1}
           /\ w = PACK(SizeOf(w), AllocOf(w))
BY DEF IsTag, SizeOf, AllocOf, PACK

(* A multiple of 8 and a bit are a tag. *)
LEMMA PackIsTag ==
    ASSUME NEW s \in Nat, s % 8 = 0, NEW f \in {0, 1}
    PROVE  /\ IsTag(PACK(s, f)) /\ PACK(s, f) \in Nat
           /\ SizeOf(PACK(s, f)) = s /\ AllocOf(PACK(s, f)) = f
BY DEF IsTag, SizeOf, AllocOf, PACK

(* The same words but for the tags of the s bytes of a block at b. *)
Tagged(h, g, b, s, f) ==
    /\ g \in Heaps
    /\ g.mem_brk = h.mem_brk
    /\ g.free_listp = h.free_listp
    /\ \A a : GET(g, a) = IF a \in {b - 4, b + s - 8} THEN PACK(s, f) ELSE GET(h, a)

(* Tag writes the tags of a block that lies in the area. *)
LEMMA TagTags ==
    ASSUME NEW h \in Heaps, NEW b \in Nat, b % 8 = 0, mem_start_brk < b,
           NEW s \in Nat, s % 8 = 0, s > 0, b + s <= mem_max_addr, NEW f \in {0, 1}
    PROVE  Tagged(h, Tag(h, b, s, f), b, s, f) /\ Tag(h, b, s, f).ret = h.ret
<1> DEFINE w == PACK(s, f)
           g == PUT(h, b - 4, w)
           k == PUT(g, b + s - 8, w)
<1>1. /\ b - 4 \in Storage /\ b + s - 8 \in Storage /\ b - 4 # b + s - 8
      /\ b - 4 \in Nat /\ b + s - 8 \in Nat /\ b + s - 8 <= mem_max_addr
  BY StorageIsTheArea, AreaAssumption DEF mem_max_addr
<1>2. HDRP(b) = b - 4
  BY <1>1, InSpan, AreaAssumption DEF HDRP, WSIZE, mem_max_addr
<1>3. w \in Words
  BY AreaAssumption DEF PACK, Words, mem_max_addr
<1>4. SizeOf(w) = s
  BY PackIsTag
<1> HIDE DEF w
<1>5. /\ g \in Heaps /\ g.mem_brk = h.mem_brk /\ g.free_listp = h.free_listp
      /\ g.ret = h.ret
      /\ \A c : GET(g, c) = IF c = b - 4 THEN w ELSE GET(h, c)
  BY <1>1, <1>3, PutThenGet
<1> HIDE DEF g
<1>6. FTRP(g, b) = b + s - 8
  BY <1>1, <1>2, <1>4, <1>5, InSpan DEF FTRP, GET_SIZE, DSIZE
<1>7. Tag(h, b, s, f) = k
  BY <1>2, <1>6 DEF Tag, g, w
<1>8. /\ k \in Heaps /\ k.mem_brk = g.mem_brk /\ k.free_listp = g.free_listp
      /\ k.ret = g.ret
      /\ \A c : GET(k, c) = IF c = b + s - 8 THEN w ELSE GET(g, c)
  BY <1>1, <1>3, <1>5, PutThenGet
<1> HIDE DEF k
<1> QED
  BY <1>5, <1>7, <1>8 DEF Tagged, w

(* For any request the block is a whole number of doublewords, large       *)
(* enough for the payload, both tags and, once free, both links, and       *)
(* never larger by a whole minimal block than what is needed (mm.c:175-179 *)
(* and 230-239, mm-firstfit.c:121-125).                                    *)
THEOREM AdjustedIsEnough ==
    ASSUME NEW size \in Nat \ {0}
    PROVE  /\ Adjusted(size) \in Nat
           /\ Adjusted(size) % DSIZE = 0
           /\ Adjusted(size) >= MINIMUM
           /\ Adjusted(size) >= size + OVERHEAD
           /\ Adjusted(size) < size + OVERHEAD + MINIMUM
<1>1. CASE size <= DSIZE
  BY <1>1 DEF Adjusted, DSIZE, OVERHEAD, MINIMUM
<1>2. CASE size > DSIZE
  <2> DEFINE q == (size + OVERHEAD + (DSIZE - 1)) \div DSIZE
  <2>1. /\ q \in Nat
        /\ DSIZE * q <= size + 15
        /\ size + 15 < DSIZE * q + DSIZE
    BY <1>2 DEF DSIZE, OVERHEAD
  <2>2. Adjusted(size) = DSIZE * q
    BY <1>2 DEF Adjusted, DSIZE
  <2> HIDE DEF q
  <2>3. (DSIZE * q) % DSIZE = 0
    BY <2>1 DEF DSIZE
  <2> QED
    BY <1>2, <2>1, <2>2, <2>3 DEF DSIZE, OVERHEAD, MINIMUM
<1> QED
  BY <1>1, <1>2 DEF DSIZE

-----------------------------------------------------------------------------
(* Tilings: the blocks B cover the heap without gap or overlap, from the   *)
(* prologue to the epilogue at the break, each with equal tags at both     *)
(* ends.                                                                   *)

(* The blocks lie between the prologue and the epilogue, doubleword by     *)
(* doubleword.                                                             *)
Bounds(h, B) ==
    /\ h \in Heaps
    /\ heap_listp \in B /\ h.mem_brk \in B /\ heap_listp < h.mem_brk
    /\ h.mem_brk <= mem_max_addr
    /\ \A b \in B : b \in Nat /\ b % 8 = 0 /\ heap_listp <= b /\ b <= h.mem_brk
    /\ GET(h, heap_listp - 4) = PACK(8, 1)
    /\ GET(h, h.mem_brk - 4) = PACK(0, 1)

(* Each block ends where the next one starts. *)
Chain(h, B) ==
    /\ \A b \in B \ {h.mem_brk} :
          /\ After(h, b) \in B /\ b < After(h, b)
          /\ \A c \in B : b < c => After(h, b) <= c
    /\ \A c \in B \ {heap_listp} : \E b \in B \ {h.mem_brk} : After(h, b) = c

(* Header and footer are equal, and the block is not too small. *)
BothTags(h, B) ==
    \A b \in B \ {h.mem_brk} :
        /\ IsTag(GET(h, b - 4))
        /\ GET(h, After(h, b) - 8) = GET(h, b - 4)
        /\ b # heap_listp => Size(h, b) >= MINIMUM

(* The blocks tile the heap. *)
Tiling(h, B) == Bounds(h, B) /\ Chain(h, B) /\ BothTags(h, B)

(* No two free blocks touch. *)
Coalesced(h, B) ==
    \A b \in B \ {h.mem_brk} : Used(h, b) = 0 => Used(h, After(h, b)) = 1

(* The blocks in use, with the prologue. *)
InUse(h, B) == {b \in B \ {h.mem_brk} : Used(h, b) = 1}

(* The words between the tags of b are those they were. *)
Untouched(h, g, b) == \A a \in b .. After(h, b) - 9 : GET(g, a) = GET(h, a)

(* What is to be known of a block of a tiling. *)
LEMMA BlockFacts ==
    ASSUME NEW h, NEW B, Tiling(h, B), NEW b \in B
    PROVE  /\ b \in Nat /\ b % 8 = 0 /\ heap_listp <= b /\ b <= h.mem_brk
           /\ GET(h, b - 4) \in Words
           /\ b # h.mem_brk =>
                /\ Size(h, b) \in Nat /\ Size(h, b) % 8 = 0
                /\ Used(h, b) \in {0, 1}
                /\ GET(h, b - 4) = PACK(Size(h, b), Used(h, b))
                /\ After(h, b) \in B /\ After(h, b) \in Nat /\ After(h, b) % 8 = 0
                /\ b < After(h, b) /\ After(h, b) <= h.mem_brk
                /\ \A c \in B : b < c => After(h, b) <= c
                /\ \A c \in B \ {h.mem_brk} : c < b => After(h, c) <= b
           /\ Size(h, h.mem_brk) = 0 /\ Used(h, h.mem_brk) = 1
           /\ Size(h, heap_listp) = 8 /\ Used(h, heap_listp) = 1
           /\ heap_listp = mem_start_brk + 8 /\ heap_listp \in Nat
           /\ h \in Heaps /\ h.mem_brk \in Nat /\ h.mem_brk % 8 = 0
           /\ h.mem_brk <= mem_max_addr /\ mem_max_addr < Span
<1>1. /\ b \in Nat /\ b % 8 = 0 /\ heap_listp <= b /\ b <= h.mem_brk
      /\ h \in Heaps /\ h.mem_brk \in B /\ h.mem_brk \in Nat /\ h.mem_brk % 8 = 0
      /\ h.mem_brk <= mem_max_addr /\ mem_max_addr < Span
      /\ heap_listp = mem_start_brk + 8 /\ heap_listp \in Nat
  BY AreaAssumption DEF Tiling, Bounds, heap_listp, DSIZE, mem_max_addr
<1>2. GET(h, b - 4) \in Words /\ GET(h, b - 4) \in Nat
  BY <1>1, GetIsWord DEF Words
<1>3. /\ Size(h, h.mem_brk) = 0 /\ Used(h, h.mem_brk) = 1
      /\ Size(h, heap_listp) = 8 /\ Used(h, heap_listp) = 1
  BY PackIsTag DEF Tiling, Bounds, Size, Used
<1>4. ASSUME b # h.mem_brk
      PROVE  /\ Size(h, b) \in Nat /\ Size(h, b) % 8 = 0
             /\ Used(h, b) \in {0, 1}
             /\ GET(h, b - 4) = PACK(Size(h, b), Used(h, b))
             /\ After(h, b) \in B /\ b < After(h, b)
             /\ \A c \in B : b < c => After(h, b) <= c
             /\ \A c \in B \ {h.mem_brk} : c < b => After(h, c) <= b
  <2>1. IsTag(GET(h, b - 4))
    BY <1>4 DEF Tiling, BothTags
  <2>2. /\ Size(h, b) \in Nat /\ Size(h, b) % 8 = 0
        /\ Used(h, b) \in {0, 1}
        /\ GET(h, b - 4) = PACK(Size(h, b), Used(h, b))
    BY <1>2, <2>1, TagIsPacked DEF Size, Used
  <2> QED
    BY <1>4, <2>2 DEF Tiling, Chain
<1>5. \A c \in B : c \in Nat /\ c % 8 = 0 /\ c <= h.mem_brk
  BY DEF Tiling, Bounds
<1> QED
  BY <1>1, <1>2, <1>3, <1>4, <1>5

(* Tags are not written into what lies between the tags of any block.      *)
LEMMA TagsSpareContents ==
    ASSUME NEW h, NEW B, Tiling(h, B), NEW g, NEW b \in B, NEW e \in B, b < e,
           NEW f, Tagged(h, g, b, e - b, f), NEW c \in B \ {h.mem_brk}
    PROVE  Untouched(h, g, c)
<1> SUFFICES ASSUME NEW a \in c .. After(h, c) - 9
             PROVE  GET(g, a) = GET(h, a)
  BY DEF Untouched
<1>1. /\ b \in Nat /\ e \in Nat /\ c \in Nat /\ After(h, c) \in Nat
      /\ c < b => After(h, c) <= b
      /\ c < e => After(h, c) <= e
  BY BlockFacts
<1>2. a # b - 4 /\ a # b + (e - b) - 8
  BY <1>1
<1> QED
  BY <1>2 DEF Tagged

(* New tags around what was one or several blocks, the first of them at b  *)
(* and the next one after them at e, make one block of them.               *)
Fused(B, b, e) == {c \in B : c <= b \/ e <= c}

(* The other blocks are those they were. *)
LEMMA FuseTiles ==
    ASSUME NEW h, NEW B, Tiling(h, B), NEW g, NEW b \in B \ {heap_listp}, NEW e \in B, b < e,
           NEW f \in {0, 1}, Tagged(h, g, b, e - b, f)
    PROVE  /\ Tiling(g, Fused(B, b, e))
           /\ Size(g, b) = e - b /\ Used(g, b) = f /\ After(g, b) = e
           /\ \A c \in Fused(B, b, e) \ {b} :
                 Size(g, c) = Size(h, c) /\ Used(g, c) = Used(h, c) /\ After(g, c) = After(h, c)
<1> DEFINE C == Fused(B, b, e)
<1>1. /\ h \in Heaps /\ h.mem_brk \in B /\ heap_listp \in B /\ heap_listp < h.mem_brk
      /\ b \in B /\ C \subseteq B /\ b \in C /\ e \in C
  <2>1. b \in Nat /\ e \in Nat
    BY BlockFacts
  <2> QED
    BY <2>1 DEF Tiling, Bounds, Fused
<1>2. /\ h.mem_brk \in Nat /\ h.mem_brk <= mem_max_addr /\ h.mem_brk % 8 = 0
      /\ heap_listp \in Nat /\ heap_listp % 8 = 0
      /\ b \in Nat /\ b % 8 = 0 /\ heap_listp < b /\ b < h.mem_brk
      /\ e \in Nat /\ e % 8 = 0 /\ e <= h.mem_brk
      /\ heap_listp \in C /\ h.mem_brk \in C
      /\ After(h, b) \in Nat /\ After(h, b) <= e
  <2>1. /\ h.mem_brk \in Nat /\ h.mem_brk <= mem_max_addr /\ h.mem_brk % 8 = 0
        /\ heap_listp \in Nat /\ heap_listp % 8 = 0
    BY <1>1, BlockFacts
  <2>2. /\ b \in Nat /\ b % 8 = 0 /\ heap_listp <= b /\ b <= h.mem_brk
        /\ e \in Nat /\ e % 8 = 0 /\ e <= h.mem_brk
    BY BlockFacts
  <2>3. b < h.mem_brk /\ heap_listp < b
    BY <2>1, <2>2
  <2>4. After(h, b) \in Nat /\ After(h, b) <= e
    BY <2>3, BlockFacts
  <2> QED
    BY <1>1, <2>1, <2>2, <2>3, <2>4 DEF Fused
<1>3. \A c \in B : /\ c \in Nat /\ c % 8 = 0 /\ heap_listp <= c /\ c <= h.mem_brk
  BY BlockFacts
<1>4. \A c \in B \ {h.mem_brk} :
        /\ Size(h, c) \in Nat /\ After(h, c) \in B /\ c < After(h, c)
        /\ After(h, c) \in Nat /\ After(h, c) % 8 = 0
        /\ \A d \in B : c < d => After(h, c) <= d
  BY BlockFacts
<1>5. /\ g \in Heaps /\ g.mem_brk = h.mem_brk
      /\ \A a : GET(g, a) = IF a \in {b - 4, e - 8} THEN PACK(e - b, f) ELSE GET(h, a)
  BY <1>2 DEF Tagged
<1>6. /\ e - b \in Nat /\ (e - b) % 8 = 0
      /\ IsTag(PACK(e - b, f)) /\ SizeOf(PACK(e - b, f)) = e - b /\ AllocOf(PACK(e - b, f)) = f
  BY <1>2, PackIsTag
<1>7. \A c \in B \ {b} : GET(g, c - 4) = GET(h, c - 4)
  BY <1>2, <1>3, <1>5
<1>8. GET(g, b - 4) = PACK(e - b, f) /\ GET(g, e - 8) = PACK(e - b, f)
  BY <1>5
<1>9. Size(g, b) = e - b /\ Used(g, b) = f /\ After(g, b) = e
  BY <1>2, <1>6, <1>8 DEF Size, Used, After
<1>10. \A c \in B \ {b} :
         Size(g, c) = Size(h, c) /\ Used(g, c) = Used(h, c) /\ After(g, c) = After(h, c)
  BY <1>7 DEF Size, Used, After
<1> HIDE DEF C
<1>11. ASSUME NEW c \in C \ {b, h.mem_brk}
       PROVE  /\ After(h, c) \in C
              /\ After(h, c) - 8 # e - 8 /\ After(h, c) - 8 # b - 4
  <2>1. c \in B \ {h.mem_brk} /\ (c < b \/ e <= c)
    BY <1>1, <1>2, <1>3, <1>11 DEF C, Fused
  <2>2. /\ c \in Nat /\ After(h, c) \in B /\ c < After(h, c)
        /\ After(h, c) \in Nat /\ After(h, c) % 8 = 0
        /\ c < b => After(h, c) <= b
    BY <1>1, <1>3, <1>4, <2>1
  <2>3. After(h, c) \in C
    BY <1>2, <2>1, <2>2 DEF C, Fused
  <2> QED
    BY <1>2, <2>1, <2>2, <2>3
<1>12. Bounds(g, C)
  <2>1. GET(g, heap_listp - 4) = GET(h, heap_listp - 4) /\ GET(g, h.mem_brk - 4) = GET(h, h.mem_brk - 4)
    BY <1>1, <1>2, <1>7
  <2> QED
    BY <1>1, <1>2, <1>3, <1>5, <2>1 DEF Tiling, Bounds
<1>13. Chain(g, C)
  <2>1. ASSUME NEW c \in C \ {g.mem_brk}
        PROVE  /\ After(g, c) \in C /\ c < After(g, c)
               /\ \A d \in C : c < d => After(g, c) <= d
    <3>1. CASE c = b
      BY <1>1, <1>2, <1>3, <1>9, <3>1 DEF C, Fused
    <3>2. CASE c # b
      BY <1>1, <1>4, <1>5, <1>10, <1>11, <2>1, <3>2
    <3> QED
      BY <3>1, <3>2
  <2>2. ASSUME NEW c \in C \ {heap_listp}
        PROVE  \E d \in C \ {g.mem_brk} : After(g, d) = c
    <3>1. PICK d \in B \ {h.mem_brk} : After(h, d) = c
      BY <1>1, <2>2 DEF Tiling, Chain
    <3>2. CASE d \in C /\ d # b
      BY <1>5, <1>10, <3>1, <3>2
    <3>3. CASE ~(d \in C /\ d # b)
      <4>1. d \in Nat /\ b <= d /\ d < e /\ c \in Nat /\ c \in B
        BY <1>1, <1>2, <1>3, <3>3 DEF C, Fused
      <4>2. d < c /\ c <= e
        BY <1>1, <1>4, <3>1, <4>1
      <4>3. c = e
        BY <1>2, <2>2, <4>1, <4>2 DEF C, Fused
      <4> QED
        BY <1>1, <1>2, <1>5, <1>9, <4>3
    <3> QED
      BY <3>2, <3>3
  <2> QED
    BY <2>1, <2>2 DEF Chain
<1>14. BothTags(g, C)
  <2> SUFFICES ASSUME NEW c \in C \ {g.mem_brk}
               PROVE  /\ IsTag(GET(g, c - 4))
                      /\ GET(g, After(g, c) - 8) = GET(g, c - 4)
                      /\ c # heap_listp => Size(g, c) >= MINIMUM
    BY DEF BothTags
  <2>1. CASE c = b
    <3>1. Size(h, b) >= MINIMUM /\ Size(h, b) \in Nat /\ Size(h, b) <= e - b
      <4>1. b \in B \ {h.mem_brk} /\ b # heap_listp
        BY <1>1, <1>2
      <4>2. Size(h, b) >= MINIMUM /\ Size(h, b) \in Nat
        BY <1>4, <4>1 DEF Tiling, BothTags
      <4>3. b + Size(h, b) <= e
        BY <1>2 DEF After
      <4> QED
        BY <1>2, <4>2, <4>3
    <3> QED
      BY <1>2, <1>6, <1>8, <1>9, <2>1, <3>1 DEF MINIMUM
  <2>2. CASE c # b
    <3>1. c \in B \ {h.mem_brk}
      BY <1>1, <1>5
    <3>2. /\ After(g, c) = After(h, c) /\ Size(g, c) = Size(h, c)
          /\ GET(g, c - 4) = GET(h, c - 4)
      BY <1>7, <1>10, <2>2, <3>1
    <3>3. After(h, c) - 8 # e - 8 /\ After(h, c) - 8 # b - 4
      BY <1>5, <1>11, <2>2
    <3>4. GET(g, After(h, c) - 8) = GET(h, After(h, c) - 8)
      BY <1>5, <3>3
    <3> QED
      BY <3>1, <3>2, <3>4 DEF Tiling, BothTags
  <2> QED
    BY <2>1, <2>2
<1> QED
  BY <1>1, <1>9, <1>10, <1>12, <1>13, <1>14 DEF Tiling, C

(* The s bytes of a block b up to m are enough for a block, and so are the *)
(* r bytes from there on.                                                  *)
Halves(h, b, s, m, r) ==
    /\ s \in Nat /\ s % 8 = 0 /\ MINIMUM <= s /\ s + MINIMUM <= Size(h, b)
    /\ m = b + s /\ r = Size(h, b) - s

(* Tags within a block make two blocks of it.                              *)
LEMMA SplitTiles ==
    ASSUME NEW h, NEW B, Tiling(h, B), NEW b \in B \ {heap_listp, h.mem_brk},
           NEW s, NEW m, NEW r, Halves(h, b, s, m, r),
           NEW f1 \in {0, 1}, NEW f2 \in {0, 1},
           NEW k, Tagged(h, k, b, s, f1),
           NEW g, Tagged(k, g, m, r, f2), NEW C, C = B \cup {m}
    PROVE  /\ Tiling(g, C) /\ m \notin B
           /\ Size(g, b) = s /\ Used(g, b) = f1 /\ After(g, b) = m
           /\ Size(g, m) = r /\ Used(g, m) = f2
           /\ After(g, m) = After(h, b)
           /\ \A c \in B \ {b} :
                 Size(g, c) = Size(h, c) /\ Used(g, c) = Used(h, c) /\ After(g, c) = After(h, c)
           /\ \A c \in B \ {b, h.mem_brk} : Untouched(h, g, c)
           /\ \A a \in b .. b + s - 9 : GET(g, a) = GET(h, a)
<1> DEFINE e == After(h, b)
<1>0. /\ s \in Nat /\ s % 8 = 0 /\ MINIMUM <= s /\ s + MINIMUM <= Size(h, b)
      /\ m = b + s /\ r = Size(h, b) - s /\ C = B \cup {m}
  BY DEF Halves
<1>1. /\ h \in Heaps /\ h.mem_brk \in B /\ heap_listp \in B /\ heap_listp < h.mem_brk
      /\ h.mem_brk \in Nat /\ h.mem_brk <= mem_max_addr /\ h.mem_brk % 8 = 0
      /\ heap_listp \in Nat /\ heap_listp % 8 = 0
  <2>1. h \in Heaps /\ h.mem_brk \in B /\ heap_listp \in B /\ heap_listp < h.mem_brk
    BY DEF Tiling, Bounds
  <2> QED
    BY <2>1, BlockFacts
<1>2. /\ b \in Nat /\ b % 8 = 0 /\ heap_listp <= b /\ b <= h.mem_brk
      /\ Size(h, b) \in Nat /\ Size(h, b) % 8 = 0
      /\ e \in B /\ e \in Nat /\ e % 8 = 0 /\ b < e /\ e <= h.mem_brk
      /\ \A c \in B : b < c => e <= c
      /\ \A c \in B \ {h.mem_brk} : c < b => After(h, c) <= b
  BY BlockFacts
<1>3. /\ m \in Nat /\ m % 8 = 0 /\ r \in Nat /\ r % 8 = 0 /\ r >= MINIMUM
      /\ b < m /\ m < e /\ e = m + r /\ heap_listp < b
  BY <1>0, <1>1, <1>2 DEF After, MINIMUM
<1>4. \A c \in B : c \in Nat /\ c % 8 = 0 /\ heap_listp <= c /\ c <= h.mem_brk
  BY BlockFacts
<1>5. \A c \in B \ {h.mem_brk} :
        /\ Size(h, c) \in Nat /\ After(h, c) \in B /\ c < After(h, c)
        /\ After(h, c) \in Nat /\ After(h, c) % 8 = 0
        /\ \A d \in B : c < d => After(h, c) <= d
  BY BlockFacts
<1>6. /\ g \in Heaps /\ g.mem_brk = h.mem_brk
      /\ \A a : GET(g, a) = IF a \in {m - 4, e - 8} THEN PACK(r, f2)
                            ELSE IF a \in {b - 4, m - 8} THEN PACK(s, f1)
                            ELSE GET(h, a)
  <2>1. m + r - 8 = e - 8 /\ b + s - 8 = m - 8
    BY <1>0, <1>2, <1>3
  <2> QED
    BY <2>1 DEF Tagged
<1>7. /\ IsTag(PACK(s, f1)) /\ SizeOf(PACK(s, f1)) = s /\ AllocOf(PACK(s, f1)) = f1
      /\ IsTag(PACK(r, f2)) /\ SizeOf(PACK(r, f2)) = r /\ AllocOf(PACK(r, f2)) = f2
  BY <1>0, <1>3, PackIsTag
<1> HIDE DEF e
<1>8. m \notin B
  BY <1>2, <1>3
<1>9. \A c \in B \ {b} : GET(g, c - 4) = GET(h, c - 4)
  BY <1>2, <1>3, <1>4, <1>6, <1>8
<1>10. /\ GET(g, b - 4) = PACK(s, f1) /\ GET(g, m - 8) = PACK(s, f1)
       /\ GET(g, m - 4) = PACK(r, f2) /\ GET(g, e - 8) = PACK(r, f2)
  BY <1>2, <1>3, <1>6
<1>11. /\ Size(g, b) = s /\ Used(g, b) = f1 /\ After(g, b) = m
       /\ Size(g, m) = r /\ Used(g, m) = f2 /\ After(g, m) = e
  BY <1>0, <1>3, <1>7, <1>10 DEF Size, Used, After
<1>12. \A c \in B \ {b} :
         Size(g, c) = Size(h, c) /\ Used(g, c) = Used(h, c) /\ After(g, c) = After(h, c)
  BY <1>9 DEF Size, Used, After
<1>13. \A c \in B \ {b, h.mem_brk} : (c < b /\ After(h, c) <= b) \/ (e <= c /\ e < After(h, c))
  <2> SUFFICES ASSUME NEW c \in B \ {b, h.mem_brk}
               PROVE  (c < b /\ After(h, c) <= b) \/ (e <= c /\ e < After(h, c))
    OBVIOUS
  <2>1. c \in Nat /\ After(h, c) \in Nat /\ c < After(h, c)
    BY <1>4, <1>5
  <2>2. CASE c < b
    BY <1>2, <2>2
  <2>3. CASE c > b
    <3>1. e <= c
      BY <1>2, <2>3
    <3>2. e \in Nat
      BY <1>2
    <3> QED
      BY <2>1, <3>1, <3>2
  <2>4. b \in Nat /\ c # b
    BY <1>2
  <2> QED
    BY <2>1, <2>2, <2>3, <2>4
<1>14. Bounds(g, C)
  <2>1. GET(g, heap_listp - 4) = GET(h, heap_listp - 4) /\ GET(g, h.mem_brk - 4) = GET(h, h.mem_brk - 4)
    BY <1>1, <1>3, <1>9
  <2>2. \A c \in C : c \in Nat /\ c % 8 = 0 /\ heap_listp <= c /\ c <= h.mem_brk
    BY <1>0, <1>1, <1>2, <1>3, <1>4
  <2> QED
    BY <1>0, <1>1, <1>6, <2>1, <2>2 DEF Tiling, Bounds
<1>15. Chain(g, C)
  <2>1. ASSUME NEW c \in C \ {g.mem_brk}
        PROVE  /\ After(g, c) \in C /\ c < After(g, c)
               /\ \A d \in C : c < d => After(g, c) <= d
    <3>1. CASE c = b
      BY <1>0, <1>2, <1>3, <1>4, <1>11, <3>1
    <3>2. CASE c = m
      BY <1>0, <1>2, <1>3, <1>4, <1>11, <3>2
    <3>3. CASE c # b /\ c # m
      <4>1. /\ c \in B \ {b, h.mem_brk} /\ c \in Nat /\ After(g, c) = After(h, c)
            /\ After(h, c) \in Nat
        BY <1>0, <1>4, <1>5, <1>6, <1>12, <2>1, <3>3
      <4>2. c < m => After(h, c) <= m
        BY <1>2, <1>3, <1>13, <4>1
      <4> QED
        BY <1>0, <1>5, <4>1, <4>2
    <3> QED
      BY <3>1, <3>2, <3>3
  <2>2. ASSUME NEW c \in C \ {heap_listp}
        PROVE  \E d \in C \ {g.mem_brk} : After(g, d) = c
    <3>1. CASE c = m
      BY <1>0, <1>6, <1>11, <3>1
    <3>2. CASE c # m
      <4>1. PICK d \in B \ {h.mem_brk} : After(h, d) = c
        BY <1>0, <2>2, <3>2 DEF Tiling, Chain
      <4>2. CASE d = b
        <5>1. c = e /\ m # h.mem_brk
          BY <1>1, <1>8, <4>1, <4>2 DEF e
        <5> QED
          BY <1>0, <1>6, <1>11, <5>1
      <4>3. CASE d # b
        BY <1>0, <1>6, <1>12, <4>1, <4>3
      <4> QED
        BY <4>2, <4>3
    <3> QED
      BY <3>1, <3>2
  <2> QED
    BY <2>1, <2>2 DEF Chain
<1>16. BothTags(g, C)
  <2> SUFFICES ASSUME NEW c \in C \ {g.mem_brk}
               PROVE  /\ IsTag(GET(g, c - 4))
                      /\ GET(g, After(g, c) - 8) = GET(g, c - 4)
                      /\ c # heap_listp => Size(g, c) >= MINIMUM
    BY DEF BothTags
  <2>1. CASE c = b
    BY <1>0, <1>7, <1>10, <1>11, <2>1
  <2>2. CASE c = m
    BY <1>3, <1>7, <1>10, <1>11, <2>2
  <2>3. CASE c # b /\ c # m
    <3>1. c \in B \ {b, h.mem_brk} /\ c \in Nat /\ After(h, c) \in Nat /\ After(h, c) % 8 = 0
      BY <1>0, <1>4, <1>5, <1>6, <2>3
    <3>2. /\ After(g, c) = After(h, c) /\ Size(g, c) = Size(h, c)
          /\ GET(g, c - 4) = GET(h, c - 4)
      BY <1>9, <1>12, <3>1
    <3>3. After(h, c) - 8 \notin {m - 4, e - 8, b - 4, m - 8}
      BY <1>2, <1>3, <1>13, <3>1
    <3>4. GET(g, After(h, c) - 8) = GET(h, After(h, c) - 8)
      BY <1>6, <3>3
    <3> QED
      BY <3>1, <3>2, <3>4 DEF Tiling, BothTags
  <2> QED
    BY <2>1, <2>2, <2>3
<1>17. \A c \in B \ {b, h.mem_brk} : Untouched(h, g, c)
  <2> SUFFICES ASSUME NEW c \in B \ {b, h.mem_brk}, NEW a \in c .. After(h, c) - 9
               PROVE  GET(g, a) = GET(h, a)
    BY DEF Untouched
  <2>1. c \in Nat /\ After(h, c) \in Nat
    BY <1>4, <1>5
  <2>2. a \notin {m - 4, e - 8, b - 4, m - 8}
    BY <1>2, <1>3, <1>13, <2>1
  <2> QED
    BY <1>6, <2>2
<1>18. \A a \in b .. b + s - 9 : GET(g, a) = GET(h, a)
  <2>1. m = b + s
    BY <1>0
  <2> QED
    BY <1>0, <1>2, <1>3, <1>6, <2>1
<1>19. Tiling(g, C)
  BY <1>14, <1>15, <1>16 DEF Tiling
<1>20. Tiling(g, C) /\ m \notin B
  BY <1>8, <1>19
<1>21. /\ Size(g, b) = s /\ Used(g, b) = f1 /\ After(g, b) = m
       /\ Size(g, m) = r /\ Used(g, m) = f2
       /\ After(g, m) = After(h, b)
  BY <1>11 DEF e
<1> QED
  BY <1>12, <1>17, <1>18, <1>20, <1>21

-----------------------------------------------------------------------------
(* The heap grows.                                                         *)

(* The bytes that extend_heap asks for. *)
Bytes(words) == (words + (words % 2)) * WSIZE

(* A block is added where the epilogue was, and a new epilogue after it;   *)
(* or the break cannot move, and nothing happens.                          *)
LEMMA GrownTiles ==
    ASSUME NEW h, NEW B, Tiling(h, B), NEW words \in Nat, words >= 4,
           h.mem_brk + Bytes(words) <= mem_max_addr
    PROVE  LET b == h.mem_brk
               g == Grown(h, words)
           IN  /\ Tiling(g, B \cup {b + Bytes(words)}) /\ g.ret = b
               /\ g.mem_brk = b + Bytes(words) /\ g.free_listp = h.free_listp
               /\ b + Bytes(words) \notin B /\ Bytes(words) \in Nat
               /\ Size(g, b) = Bytes(words) /\ Used(g, b) = 0
               /\ After(g, b) = b + Bytes(words)
               /\ \A c \in B \ {b} :
                     /\ Size(g, c) = Size(h, c) /\ Used(g, c) = Used(h, c)
                     /\ After(g, c) = After(h, c) /\ Untouched(h, g, c)
<1> DEFINE b == h.mem_brk
           size == Bytes(words)
           e == b + size
           i == mem_sbrk(h, size)
           k == Tag(i, b, size, 0)
           g == PUT(k, e - 4, PACK(0, 1))
           C == B \cup {e}
<1>1. /\ h \in Heaps /\ heap_listp \in B /\ b \in B /\ heap_listp < b
      /\ b \in Nat /\ b % 8 = 0 /\ b <= mem_max_addr
      /\ heap_listp \in Nat /\ heap_listp % 8 = 0 /\ heap_listp = mem_start_brk + 8
      /\ mem_max_addr < Span /\ mem_start_brk \in Nat /\ mem_max_addr \in Nat
  <2>1. h \in Heaps /\ heap_listp \in B /\ b \in B /\ heap_listp < b
    BY DEF Tiling, Bounds
  <2>2. mem_start_brk \in Nat /\ mem_max_addr \in Nat
    BY AreaAssumption DEF mem_max_addr
  <2>3. heap_listp % 8 = 0
    BY <2>1, BlockFacts
  <2> QED
    BY <2>1, <2>2, <2>3, BlockFacts
<1>2. size \in Nat /\ size % 8 = 0 /\ size >= 16
  BY DEF Bytes, WSIZE
<1> HIDE DEF size
<1>3. e \in Nat /\ e % 8 = 0 /\ b < e /\ e <= mem_max_addr /\ e = b + size
  BY <1>1, <1>2 DEF size
<1>4. i = [h EXCEPT !.mem_brk = e, !.ret = b]
  BY <1>1, <1>2, <1>3 DEF mem_sbrk
<1>5. /\ i \in Heaps /\ i.mem_brk = e /\ i.ret = b /\ i.free_listp = h.free_listp
      /\ \A a : GET(i, a) = GET(h, a)
  <2>1. h \in Heaps /\ e \in Nat /\ b \in Int
    BY <1>1, <1>3
  <2> HIDE DEF e, b
  <2>2. i \in Heaps /\ i.mem_brk = e /\ i.ret = b /\ i.free_listp = h.free_listp
    BY <1>4, <2>1 DEF Heaps
  <2>3. i.mem = h.mem
    BY <1>4, <2>1 DEF Heaps
  <2> QED
    BY <2>2, <2>3 DEF GET
<1> HIDE DEF i
<1>6. Tagged(i, k, b, size, 0) /\ k.ret = b
  BY <1>1, <1>2, <1>3, <1>5, TagTags
<1> HIDE DEF k
<1>7. /\ k \in Heaps /\ k.mem_brk = e /\ k.free_listp = h.free_listp
      /\ \A a : GET(k, a) = IF a \in {b - 4, e - 8} THEN PACK(size, 0) ELSE GET(h, a)
  <2>1. b + size - 8 = e - 8
    BY <1>1, <1>2
  <2> QED
    BY <1>5, <1>6, <2>1, Zenon DEF Tagged
<1>8. e - 4 \in Storage /\ PACK(0, 1) \in Words
  <2>1. PACK(0, 1) \in Words
    BY AreaAssumption DEF PACK, Words
  <2> QED
    BY <1>1, <1>3, <2>1, StorageIsTheArea
<1>9. /\ g \in Heaps /\ g.mem_brk = e /\ g.free_listp = h.free_listp /\ g.ret = b
      /\ \A a : GET(g, a) = IF a = e - 4 THEN PACK(0, 1)
                            ELSE IF a \in {b - 4, e - 8} THEN PACK(size, 0)
                            ELSE GET(h, a)
  BY <1>6, <1>7, <1>8, PutThenGet
<1>10. /\ IsTag(PACK(size, 0)) /\ SizeOf(PACK(size, 0)) = size /\ AllocOf(PACK(size, 0)) = 0
  BY <1>2, PackIsTag
<1>11. Grown(h, words) = g
  <2>1. NEXT_BLKP(k, b) = e
    <3>1. HDRP(b) = b - 4
      BY <1>1, InSpan DEF HDRP, WSIZE
    <3>2. GET_SIZE(k, HDRP(b)) = size
      BY <1>7, <1>10, <3>1 DEF GET_SIZE
    <3> QED
      BY <1>3, <3>2, InSpan DEF NEXT_BLKP
  <2>2. HDRP(e) = e - 4
    BY <1>1, <1>3, InSpan DEF HDRP, WSIZE
  <2>3. i.ret # Failed
    BY <1>1, <1>5 DEF Failed
  <2> QED
    BY <1>5, <2>1, <2>2, <2>3 DEF Grown, g, k, i, size, Bytes
<1> HIDE DEF g
<1>12. \A c \in B : c \in Nat /\ c % 8 = 0 /\ heap_listp <= c /\ c <= b
  BY BlockFacts
<1>13. \A c \in B \ {b} :
         /\ Size(h, c) \in Nat /\ After(h, c) \in B /\ c < After(h, c)
         /\ After(h, c) \in Nat /\ After(h, c) % 8 = 0 /\ After(h, c) <= b
         /\ \A d \in B : c < d => After(h, c) <= d
  BY BlockFacts
<1>14. e \notin B
  <2>1. ~(e <= b)
    BY <1>1, <1>3
  <2> QED
    BY <1>12, <2>1
<1>15. \A c \in B \ {b} : GET(g, c - 4) = GET(h, c - 4)
  <2> SUFFICES ASSUME NEW c \in B \ {b}
               PROVE  c - 4 \notin {e - 4, b - 4, e - 8}
    BY <1>9
  <2> QED
    BY <1>1, <1>3, <1>12
<1>16. \A c \in B \ {b} :
         Size(g, c) = Size(h, c) /\ Used(g, c) = Used(h, c) /\ After(g, c) = After(h, c)
  BY <1>15 DEF Size, Used, After
<1>17. GET(g, b - 4) = PACK(size, 0) /\ GET(g, e - 8) = PACK(size, 0) /\ GET(g, e - 4) = PACK(0, 1)
  BY <1>1, <1>2, <1>3, <1>9
<1>18. Size(g, b) = size /\ Used(g, b) = 0 /\ After(g, b) = e
  BY <1>3, <1>10, <1>17 DEF Size, Used, After
<1> HIDE DEF e, C
<1>19. Bounds(g, C)
  <2>1. GET(g, heap_listp - 4) = PACK(8, 1)
    BY <1>1, <1>15 DEF Tiling, Bounds
  <2>2. \A c \in C : c \in Nat /\ c % 8 = 0 /\ heap_listp <= c /\ c <= e
    BY <1>1, <1>3, <1>12 DEF C
  <2> QED
    BY <1>1, <1>3, <1>9, <1>17, <2>1, <2>2 DEF Bounds, C
<1>20. Chain(g, C)
  <2>1. ASSUME NEW c \in C \ {g.mem_brk}
        PROVE  /\ After(g, c) \in C /\ c < After(g, c)
               /\ \A d \in C : c < d => After(g, c) <= d
    <3>0. c \in B /\ c \in Nat
      BY <1>9, <1>12 DEF C
    <3>1. CASE c = b
      BY <1>3, <1>12, <1>18, <3>1 DEF C
    <3>2. CASE c # b
      <4>1. After(g, c) = After(h, c) /\ After(h, c) \in Nat /\ After(h, c) < e
        BY <1>1, <1>3, <1>13, <1>16, <3>0, <3>2
      <4> QED
        BY <1>3, <1>13, <3>0, <3>2, <4>1 DEF C
    <3> QED
      BY <3>1, <3>2
  <2>2. ASSUME NEW c \in C \ {heap_listp}
        PROVE  \E d \in C \ {g.mem_brk} : After(g, d) = c
    <3>1. CASE c = e
      <4>1. b \in C \ {g.mem_brk}
        BY <1>1, <1>3, <1>9 DEF C
      <4> QED
        BY <1>18, <3>1, <4>1
    <3>2. CASE c # e
      <4>1. PICK d \in B \ {b} : After(h, d) = c
        BY <2>2, <3>2 DEF Tiling, Chain, C
      <4> QED
        BY <1>9, <1>14, <1>16, <4>1 DEF C
    <3> QED
      BY <3>1, <3>2
  <2> QED
    BY <2>1, <2>2 DEF Chain
<1>21. BothTags(g, C)
  <2> SUFFICES ASSUME NEW c \in C \ {g.mem_brk}
               PROVE  /\ IsTag(GET(g, c - 4))
                      /\ GET(g, After(g, c) - 8) = GET(g, c - 4)
                      /\ c # heap_listp => Size(g, c) >= MINIMUM
    BY DEF BothTags
  <2>1. CASE c = b
    BY <1>2, <1>10, <1>17, <1>18, <2>1 DEF MINIMUM
  <2>2. CASE c # b
    <3>1. c \in B \ {b}
      BY <1>9, <2>2 DEF C
    <3>2. /\ After(g, c) = After(h, c) /\ Size(g, c) = Size(h, c)
          /\ GET(g, c - 4) = GET(h, c - 4)
          /\ After(h, c) \in Nat /\ After(h, c) % 8 = 0 /\ After(h, c) <= b
      BY <1>13, <1>15, <1>16, <3>1
    <3>3. After(h, c) - 8 \notin {e - 4, b - 4, e - 8}
      BY <1>1, <1>3, <3>2
    <3>4. GET(g, After(h, c) - 8) = GET(h, After(h, c) - 8)
      BY <1>9, <3>3
    <3> QED
      BY <3>1, <3>2, <3>4 DEF Tiling, BothTags
  <2> QED
    BY <2>1, <2>2
<1>22. ASSUME NEW c \in B \ {b}
       PROVE  Untouched(h, g, c)
  <2> SUFFICES ASSUME NEW a \in c .. After(h, c) - 9
               PROVE  GET(g, a) = GET(h, a)
    BY DEF Untouched
  <2>1. c \in Nat /\ After(h, c) \in Nat /\ After(h, c) <= b
    BY <1>12, <1>13
  <2>2. a \notin {e - 4, b - 4, e - 8}
    BY <1>1, <1>3, <2>1
  <2> QED
    BY <1>9, <2>2
<1>23. Tiling(g, C)
  BY <1>19, <1>20, <1>21 DEF Tiling
<1> QED
  BY <1>2, <1>9, <1>11, <1>14, <1>16, <1>18, <1>22, <1>23, Zenon DEF C, e, size

(* The break cannot move.                                                  *)
LEMMA NotGrown ==
    ASSUME NEW h \in Heaps, NEW words \in Nat, h.mem_brk + Bytes(words) > mem_max_addr
    PROVE  Grown(h, words) = [h EXCEPT !.ret = NULL]
<1>1. mem_sbrk(h, Bytes(words)) = [h EXCEPT !.ret = Failed]
  BY DEF mem_sbrk
<1>2. [h EXCEPT !.ret = Failed].ret = Failed
  BY DEF Heaps
<1>3. [[h EXCEPT !.ret = Failed] EXCEPT !.ret = NULL] = [h EXCEPT !.ret = NULL]
  BY DEF Heaps
<1> QED
  BY <1>1, <1>2, <1>3 DEF Grown, Bytes

-----------------------------------------------------------------------------
(* The code's way from block to block.                                     *)

(* The macros of the code find the next block and both tags of this one. *)
LEMMA TagsTell ==
    ASSUME NEW h, NEW B, Tiling(h, B), NEW b \in B
    PROVE  /\ HDRP(b) = b - 4
           /\ GET_SIZE(h, HDRP(b)) = Size(h, b) /\ GET_ALLOC(h, HDRP(b)) = Used(h, b)
           /\ b # h.mem_brk =>
                /\ NEXT_BLKP(h, b) = After(h, b)
                /\ FTRP(h, b) = After(h, b) - 8
                /\ GET_SIZE(h, FTRP(h, b)) = Size(h, b)
                /\ GET_ALLOC(h, FTRP(h, b)) = Used(h, b)
           /\ b = h.mem_brk => NEXT_BLKP(h, b) = b
<1>1. /\ b \in Nat /\ heap_listp <= b /\ b <= h.mem_brk /\ heap_listp = mem_start_brk + 8
      /\ h.mem_brk \in Nat /\ h.mem_brk <= mem_max_addr /\ Size(h, h.mem_brk) = 0
  BY BlockFacts
<1>2. HDRP(b) = b - 4
  BY <1>1, InSpan, AreaAssumption DEF HDRP, WSIZE
<1>3. GET_SIZE(h, HDRP(b)) = Size(h, b) /\ GET_ALLOC(h, HDRP(b)) = Used(h, b)
  BY <1>2 DEF GET_SIZE, GET_ALLOC, Size, Used
<1>4. ASSUME b # h.mem_brk
      PROVE  /\ NEXT_BLKP(h, b) = After(h, b)
             /\ FTRP(h, b) = After(h, b) - 8
             /\ GET_SIZE(h, FTRP(h, b)) = Size(h, b)
             /\ GET_ALLOC(h, FTRP(h, b)) = Used(h, b)
  <2>0. Size(h, b) \in Nat
    BY <1>4, BlockFacts
  <2>1. /\ After(h, b) \in Nat /\ b < After(h, b) /\ After(h, b) <= h.mem_brk
        /\ GET(h, After(h, b) - 8) = GET(h, b - 4)
        /\ After(h, b) % 8 = 0
    BY <1>4, BlockFacts DEF Tiling, BothTags
  <2>2. After(h, b) - 8 \in Nat
    BY <1>1, <2>1
  <2>3. After(h, b) % Span = After(h, b) /\ (After(h, b) - 8) % Span = After(h, b) - 8
    BY <1>1, <2>1, <2>2, InSpan, AreaAssumption DEF mem_max_addr
  <2>4. NEXT_BLKP(h, b) = After(h, b)
    BY <1>3, <2>3 DEF NEXT_BLKP, After
  <2>5. FTRP(h, b) = After(h, b) - 8
    <3>1. FTRP(h, b) = (b + Size(h, b) - 8) % Span
      BY <1>3 DEF FTRP, DSIZE
    <3>2. b + Size(h, b) - 8 = After(h, b) - 8
      BY <1>1, <2>0 DEF After
    <3> QED
      BY <2>3, <3>1, <3>2, Zenon
  <2> QED
    BY <2>1, <2>4, <2>5 DEF GET_SIZE, GET_ALLOC, Size, Used
<1>5. ASSUME b = h.mem_brk
      PROVE  NEXT_BLKP(h, b) = b
  <2>1. b % Span = b
    BY <1>1, <1>5, InSpan
  <2> QED
    BY <1>1, <1>3, <1>5, <2>1 DEF NEXT_BLKP
<1> QED
  BY <1>2, <1>3, <1>4, <1>5

(* The block before b is where b's predecessor's footer says. *)
LEMMA PrevTells ==
    ASSUME NEW h, NEW B, Tiling(h, B), NEW b \in B \ {heap_listp}
    PROVE  /\ PREV_BLKP(h, b) \in B \ {h.mem_brk} /\ PREV_BLKP(h, b) < b
           /\ After(h, PREV_BLKP(h, b)) = b
           /\ \A c \in B \ {h.mem_brk} : After(h, c) = b => c = PREV_BLKP(h, b)
<1>1. PICK p \in B \ {h.mem_brk} : After(h, p) = b
  BY DEF Tiling, Chain
<1>2. /\ p \in Nat /\ p < b /\ b = p + Size(h, p) /\ Size(h, p) \in Nat /\ p <= h.mem_brk
      /\ h.mem_brk \in Nat /\ h.mem_brk <= mem_max_addr
      /\ GET(h, b - 8) = GET(h, p - 4)
  BY <1>1, BlockFacts DEF After, Tiling, BothTags
<1>3. b \in Nat /\ b <= mem_max_addr /\ b - 8 \in Nat /\ b - 8 <= mem_max_addr
  <2>1. /\ b \in Nat /\ heap_listp <= b /\ b <= h.mem_brk /\ heap_listp = mem_start_brk + 8
        /\ b # heap_listp /\ b % 8 = 0
    BY BlockFacts
  <2>2. mem_max_addr \in Nat /\ mem_start_brk \in Nat
    BY AreaAssumption DEF mem_max_addr
  <2> QED
    BY <1>2, <2>1, <2>2
<1>4. GET_SIZE(h, (b - DSIZE) % Span) = Size(h, p)
  <2>1. (b - 8) % Span = b - 8
    BY <1>3, InSpan
  <2> QED
    BY <1>2, <2>1 DEF GET_SIZE, Size, DSIZE
<1>5. PREV_BLKP(h, b) = p
  <2>1. b - Size(h, p) = p /\ p <= mem_max_addr
    BY <1>2, AreaAssumption DEF mem_max_addr
  <2> QED
    BY <1>2, <1>4, <2>1, InSpan DEF PREV_BLKP
<1>6. ASSUME NEW c \in B \ {h.mem_brk}, After(h, c) = b
      PROVE  c = p
  <2>1. /\ c \in Nat /\ c < b
        /\ c < p => After(h, c) <= p
        /\ p < c => After(h, p) <= c
    BY <1>1, <1>6, BlockFacts
  <2> QED
    BY <1>1, <1>2, <1>6, <2>1
<1> QED
  BY <1>1, <1>2, <1>5, <1>6

-----------------------------------------------------------------------------
(* A free block joins its free neighbours.                                 *)

(* Where the block that b becomes part of starts, and where it ends. *)
JoinFirst(h, b) == IF Used(h, PREV_BLKP(h, b)) = 0 THEN PREV_BLKP(h, b) ELSE b
JoinEnd(h, b) ==
    IF Used(h, After(h, b)) = 0 THEN After(h, After(h, b)) ELSE After(h, b)

(* It starts and ends at blocks. *)
LEMMA JoinBounds ==
    ASSUME NEW h, NEW B, Tiling(h, B), NEW b \in B \ {heap_listp, h.mem_brk}
    PROVE  LET first == JoinFirst(h, b)
               e == JoinEnd(h, b)
           IN  /\ first \in B \ {heap_listp, h.mem_brk} /\ e \in B
               /\ first <= b /\ b < e /\ first < e /\ After(h, b) <= e
               /\ first \in Nat /\ e \in Nat /\ b \in Nat
               /\ After(h, b) # h.mem_brk \/ e = h.mem_brk
<1>1. /\ b \in Nat /\ After(h, b) \in B /\ After(h, b) \in Nat /\ b < After(h, b)
      /\ Used(h, h.mem_brk) = 1 /\ Used(h, heap_listp) = 1
  BY BlockFacts
<1>2. /\ PREV_BLKP(h, b) \in B \ {h.mem_brk} /\ PREV_BLKP(h, b) < b
  BY PrevTells
<1>3. PREV_BLKP(h, b) \in Nat
  BY <1>2, BlockFacts
<1>4. ASSUME Used(h, After(h, b)) = 0
      PROVE  /\ After(h, b) # h.mem_brk
             /\ After(h, After(h, b)) \in B /\ After(h, After(h, b)) \in Nat
             /\ After(h, b) < After(h, After(h, b))
  <2>1. After(h, b) # h.mem_brk
    BY <1>1, <1>4
  <2> QED
    BY <1>1, <2>1, BlockFacts
<1> QED
  BY <1>1, <1>2, <1>3, <1>4 DEF JoinFirst, JoinEnd

(* The cases of coalesce come to one pair of tags. *)
LEMMA JoinedTags ==
    ASSUME NEW h, NEW B, Tiling(h, B), NEW b \in B \ {heap_listp, h.mem_brk}, Used(h, b) = 0
    PROVE  LET first == JoinFirst(h, b)
               e == JoinEnd(h, b)
           IN  Tagged(h, Joined(h, b), first, e - first, 0) /\ Joined(h, b).ret = first
<1> DEFINE first == JoinFirst(h, b)
           e == JoinEnd(h, b)
           prev == PREV_BLKP(h, b)
           next == After(h, b)
           Ends(fst, last, s) ==
              [PUT(PUT(h, FTRP(h, last), PACK(s, 0)), HDRP(fst), PACK(s, 0)) EXCEPT !.ret = fst]
<1>1. /\ b \in Nat /\ b % 8 = 0 /\ Size(h, b) \in Nat /\ Size(h, b) % 8 = 0
      /\ next \in B /\ next \in Nat /\ next % 8 = 0 /\ b < next /\ next = b + Size(h, b)
      /\ h \in Heaps /\ Used(h, h.mem_brk) = 1 /\ Used(h, heap_listp) = 1
      /\ h.mem_brk \in Nat /\ h.mem_brk <= mem_max_addr /\ mem_max_addr < Span
      /\ heap_listp \in Nat /\ heap_listp = mem_start_brk + 8
      /\ GET(h, b - 4) = PACK(Size(h, b), 0)
  BY BlockFacts DEF After
<1>2. prev \in B \ {h.mem_brk} /\ prev < b /\ After(h, prev) = b
  BY PrevTells
<1>3. /\ prev \in Nat /\ prev % 8 = 0 /\ Size(h, prev) \in Nat /\ Size(h, prev) % 8 = 0
      /\ b = prev + Size(h, prev) /\ Used(h, prev) \in {0, 1} /\ Used(h, next) \in {0, 1}
  <2>1. b = prev + Size(h, prev)
    BY <1>2 DEF After
  <2>2. next # h.mem_brk => Used(h, next) \in {0, 1}
    BY <1>1, BlockFacts
  <2> QED
    BY <1>1, <1>2, <2>1, <2>2, BlockFacts
<1>4. /\ first \in B \ {heap_listp, h.mem_brk} /\ e \in B /\ first < e
      /\ first \in Nat /\ e \in Nat
  BY JoinBounds
<1>5. /\ first % 8 = 0 /\ e % 8 = 0 /\ heap_listp <= first /\ e <= h.mem_brk
  BY <1>4, BlockFacts
<1>6. ASSUME NEW last \in B \ {h.mem_brk}, After(h, last) = e
      PROVE  /\ Tagged(h, Ends(first, last, e - first), first, e - first, 0)
             /\ Ends(first, last, e - first).ret = first
  <2> DEFINE w == PACK(e - first, 0)
             k == PUT(h, e - 8, w)
             g == PUT(k, first - 4, w)
  <2>1. FTRP(h, last) = e - 8 /\ HDRP(first) = first - 4
    BY <1>4, <1>6, TagsTell
  <2>2. e - 8 \in Storage /\ first - 4 \in Storage
    BY <1>1, <1>4, <1>5, StorageIsTheArea, AreaAssumption DEF mem_max_addr
  <2>3. w \in Words
    <3>1. e - first \in Nat /\ e - first < Span
      BY <1>1, <1>4, <1>5, AreaAssumption DEF mem_max_addr
    <3> QED
      BY <3>1, AreaAssumption DEF PACK, Words
  <2> HIDE DEF w
  <2>4. /\ k \in Heaps /\ k.mem_brk = h.mem_brk /\ k.free_listp = h.free_listp
        /\ \A c : GET(k, c) = IF c = e - 8 THEN w ELSE GET(h, c)
    BY <1>1, <2>2, <2>3, PutThenGet
  <2> HIDE DEF k
  <2>5. /\ g \in Heaps /\ g.mem_brk = k.mem_brk /\ g.free_listp = k.free_listp
        /\ \A c : GET(g, c) = IF c = first - 4 THEN w ELSE GET(k, c)
    BY <2>2, <2>3, <2>4, PutThenGet
  <2> HIDE DEF g
  <2>6. Ends(first, last, e - first) = [g EXCEPT !.ret = first]
    BY <2>1 DEF g, k, w
  <2> DEFINE f == [g EXCEPT !.ret = first]
  <2>7. /\ f \in Heaps /\ f.mem_brk = g.mem_brk /\ f.free_listp = g.free_listp
        /\ f.mem = g.mem /\ f.ret = first
    BY <1>4, <2>5 DEF Heaps
  <2>8. \A c : GET(f, c) = GET(g, c)
    BY <2>7 DEF GET
  <2>9. first + (e - first) - 8 = e - 8
    BY <1>4
  <2> HIDE DEF f
  <2>10. Tagged(h, f, first, e - first, 0)
    BY <2>4, <2>5, <2>7, <2>8, <2>9 DEF Tagged, w
  <2> QED
    BY <2>6, <2>7, <2>10 DEF f
<1>7. /\ GET_ALLOC(h, FTRP(h, prev)) = Used(h, prev)
      /\ GET_SIZE(h, HDRP(prev)) = Size(h, prev)
      /\ GET_SIZE(h, HDRP(b)) = Size(h, b)
      /\ NEXT_BLKP(h, b) = next
      /\ GET_ALLOC(h, HDRP(next)) = Used(h, next)
      /\ GET_SIZE(h, HDRP(next)) = Size(h, next)
  BY <1>1, <1>2, TagsTell
<1> HIDE DEF prev, next, Ends
<1>8. CASE Used(h, prev) = 1 /\ Used(h, next) = 1
  <2>1. Joined(h, b) = [h EXCEPT !.ret = b]
    BY <1>7, <1>8 DEF Joined, prev, next
  <2>2. first = b /\ e = next /\ e - first = Size(h, b) /\ b + Size(h, b) - 8 = next - 8
    BY <1>1, <1>8 DEF JoinFirst, JoinEnd, prev, next
  <2>3. GET(h, next - 8) = PACK(Size(h, b), 0)
    BY <1>1 DEF Tiling, BothTags, next
  <2>4. /\ [h EXCEPT !.ret = b] \in Heaps /\ [h EXCEPT !.ret = b].mem_brk = h.mem_brk
        /\ [h EXCEPT !.ret = b].free_listp = h.free_listp
        /\ [h EXCEPT !.ret = b].mem = h.mem /\ [h EXCEPT !.ret = b].ret = b
    BY <1>1 DEF Heaps
  <2>5. \A a : GET([h EXCEPT !.ret = b], a) = GET(h, a)
    BY <2>4 DEF GET
  <2> QED
    BY <1>1, <2>1, <2>2, <2>3, <2>4, <2>5 DEF Tagged
<1>9. CASE Used(h, prev) = 1 /\ Used(h, next) = 0
  <2>1. Joined(h, b) = Ends(b, next, Size(h, b) + Size(h, next))
    BY <1>7, <1>9 DEF Joined, prev, next, Ends
  <2>2. next # h.mem_brk
    BY <1>1, <1>9
  <2>3. first = b /\ e = After(h, next)
    BY <1>9 DEF JoinFirst, JoinEnd, prev, next
  <2>4. e - first = Size(h, b) + Size(h, next)
    <3>1. Size(h, next) \in Nat
      BY <1>1, <2>2, BlockFacts
    <3> QED
      BY <1>1, <2>3, <3>1 DEF After
  <2> QED
    BY <1>1, <1>6, <2>1, <2>2, <2>3, <2>4
<1>10. CASE Used(h, prev) = 0 /\ Used(h, next) = 1
  <2>1. Joined(h, b) = Ends(prev, b, Size(h, b) + Size(h, prev))
    BY <1>7, <1>10 DEF Joined, prev, next, Ends
  <2>2. first = prev /\ e = After(h, b)
    BY <1>10 DEF JoinFirst, JoinEnd, prev, next
  <2>3. e - first = Size(h, b) + Size(h, prev)
    BY <1>1, <1>3, <2>2 DEF next
  <2> QED
    BY <1>6, <2>1, <2>2, <2>3
<1>11. CASE Used(h, prev) = 0 /\ Used(h, next) = 0
  <2>2. next # h.mem_brk
    BY <1>1, <1>11
  <2>1. Joined(h, b) = Ends(prev, next, Size(h, b) + Size(h, prev) + Size(h, next))
    <3>1. GET_SIZE(h, FTRP(h, next)) = Size(h, next)
      BY <1>1, <2>2, TagsTell
    <3> QED
      BY <1>7, <1>11, <3>1 DEF Joined, prev, next, Ends
  <2>3. first = prev /\ e = After(h, next)
    BY <1>11 DEF JoinFirst, JoinEnd, prev, next
  <2>4. e - first = Size(h, b) + Size(h, prev) + Size(h, next)
    <3>1. Size(h, next) \in Nat
      BY <1>1, <2>2, BlockFacts
    <3> QED
      BY <1>1, <1>3, <2>3, <3>1 DEF After
  <2> QED
    BY <1>1, <1>6, <2>1, <2>2, <2>3, <2>4
<1> QED
  BY <1>3, <1>8, <1>9, <1>10, <1>11

(* The block it becomes touches no free block, if b was the only one that  *)
(* did; the blocks in use are the same.                                    *)
OnlyTouching(h, B, b) ==
    \A c \in B \ {h.mem_brk} :
        Used(h, c) = 0 /\ c # b /\ After(h, c) # b => Used(h, After(h, c)) = 1

(* What coalesce leaves of a block and its neighbours. *)
LEMMA JoinedCoalesces ==
    ASSUME NEW h, NEW B, Tiling(h, B), NEW b \in B \ {heap_listp, h.mem_brk}, Used(h, b) = 0,
           OnlyTouching(h, B, b)
    PROVE  LET g == Joined(h, b)
               C == Fused(B, JoinFirst(h, b), JoinEnd(h, b))
           IN  /\ Tiling(g, C) /\ Coalesced(g, C)
               /\ g.mem_brk = h.mem_brk /\ g.free_listp = h.free_listp
               /\ InUse(g, C) = InUse(h, B)
               /\ \A c \in B \ {h.mem_brk} : Untouched(h, g, c)
               /\ \A c \in InUse(h, B) : After(g, c) = After(h, c)
               /\ g.ret = JoinFirst(h, b) /\ g.ret \in C \ {heap_listp, h.mem_brk}
               /\ Used(g, g.ret) = 0 /\ After(g, g.ret) = JoinEnd(h, b)
<1> DEFINE first == JoinFirst(h, b)
           e == JoinEnd(h, b)
           prev == PREV_BLKP(h, b)
           next == After(h, b)
           g == Joined(h, b)
           C == Fused(B, first, e)
<1>1. Tagged(h, g, first, e - first, 0) /\ g.ret = first
  BY JoinedTags
<1>2. /\ first \in B \ {heap_listp, h.mem_brk} /\ e \in B
      /\ first <= b /\ b < e /\ first < e /\ next <= e
      /\ first \in Nat /\ e \in Nat /\ b \in Nat
  BY JoinBounds
<1>3. /\ prev \in B \ {h.mem_brk} /\ prev < b /\ After(h, prev) = b
      /\ \A c \in B \ {h.mem_brk} : After(h, c) = b => c = prev
  BY PrevTells
<1>4. /\ next \in B /\ next \in Nat /\ b < next
      /\ \A c \in B : b < c => next <= c
      /\ Used(h, h.mem_brk) = 1
  BY BlockFacts
<1>5. \A c \in B : c \in Nat
  BY BlockFacts
<1>6. prev \in Nat /\ \A c \in B : prev < c => b <= c
  BY <1>3, BlockFacts
<1>7. first = (IF Used(h, prev) = 0 THEN prev ELSE b)
  BY DEF JoinFirst
<1>8. e = (IF Used(h, next) = 0 THEN After(h, next) ELSE next)
  BY DEF JoinEnd
<1> HIDE DEF g, first, e, prev
<1>9. /\ g.mem_brk = h.mem_brk /\ g.free_listp = h.free_listp
  BY <1>1 DEF Tagged
<1>10. /\ Tiling(g, C)
       /\ Size(g, first) = e - first /\ Used(g, first) = 0 /\ After(g, first) = e
       /\ \A c \in C \ {first} :
            Size(g, c) = Size(h, c) /\ Used(g, c) = Used(h, c) /\ After(g, c) = After(h, c)
  BY <1>1, <1>2, FuseTiles
<1>11. \A c \in B \ {h.mem_brk} : Untouched(h, g, c)
  BY <1>1, <1>2, TagsSpareContents
<1>12. C \subseteq B /\ first \in C
  BY <1>2 DEF Fused
<1>13. ASSUME Used(h, next) = 0
       PROVE  /\ next # h.mem_brk /\ After(h, next) \in B
              /\ \A c \in B : next < c => After(h, next) <= c
  BY <1>4, <1>13, BlockFacts
<1>14. ASSUME NEW c \in B, first < c, c < e
       PROVE  c # h.mem_brk /\ Used(h, c) = 0
  <2>1. c \in Nat /\ b <= c
    BY <1>2, <1>5, <1>6, <1>7, <1>14
  <2>2. CASE c = b
    BY <2>2
  <2>3. CASE c # b
    <3>1. next <= c
      BY <1>2, <1>4, <2>1, <2>3
    <3>2. Used(h, next) = 0
      BY <1>2, <1>4, <1>8, <1>14, <2>1, <3>1
    <3>3. ~(next < c)
      BY <1>2, <1>8, <1>13, <1>14, <2>1, <3>2
    <3> QED
      BY <1>4, <1>13, <2>1, <3>1, <3>2, <3>3
  <2> QED
    BY <2>2, <2>3
<1>15. InUse(g, C) = InUse(h, B)
  <2>1. ASSUME NEW c \in InUse(h, B)
        PROVE  c \in C /\ c # first
    <3>1. c \in B /\ Used(h, c) = 1 /\ c \in Nat
      BY <1>5 DEF InUse
    <3>2. ~(first < c /\ c < e) /\ c # first
      BY <1>7, <1>14, <3>1
    <3> QED
      BY <1>2, <3>1, <3>2 DEF Fused
  <2>2. ASSUME NEW c \in InUse(g, C)
        PROVE  c \in InUse(h, B)
    <3>1. c \in C /\ c # g.mem_brk /\ Used(g, c) = 1
      BY DEF InUse
    <3> QED
      BY <1>9, <1>10, <1>12, <3>1 DEF InUse
  <2>3. ASSUME NEW c \in InUse(h, B)
        PROVE  c \in InUse(g, C)
    BY <1>9, <1>10, <2>1 DEF InUse
  <2> QED
    BY <2>2, <2>3
<1>16. \A c \in InUse(h, B) : After(g, c) = After(h, c)
  <2> SUFFICES ASSUME NEW c \in InUse(h, B)
               PROVE  After(g, c) = After(h, c)
    OBVIOUS
  <2>1. c \in InUse(g, C) /\ Used(g, c) = 1
    BY <1>15 DEF InUse
  <2> QED
    BY <1>10, <2>1 DEF InUse
<1>17. Used(h, e) = 1 /\ e # first
  <2>1. CASE Used(h, next) = 0
    <3>1. Used(h, After(h, next)) = 1
      <4>1. next \in B \ {h.mem_brk} /\ next # b /\ After(h, next) \in Nat /\ next < After(h, next)
        BY <1>4, <1>13, <2>1, BlockFacts
      <4> QED
        BY <1>4, <2>1, <4>1 DEF OnlyTouching
    <3> QED
      BY <1>2, <1>8, <2>1, <3>1
  <2>2. CASE Used(h, next) # 0
    <3>1. Used(h, next) = 1
      BY <1>4, <2>2, BlockFacts
    <3> QED
      BY <1>2, <1>8, <2>2, <3>1
  <2> QED
    BY <2>1, <2>2
<1>18. Coalesced(g, C)
  <2> SUFFICES ASSUME NEW c \in C \ {g.mem_brk}, Used(g, c) = 0
               PROVE  Used(g, After(g, c)) = 1
    BY DEF Coalesced
  <2>1. CASE c = first
    <3>1. e \in C
      BY <1>2 DEF Fused
    <3> QED
      BY <1>10, <1>17, <2>1, <3>1
  <2>2. CASE c # first
    <3>1. /\ c \in B \ {h.mem_brk} /\ Used(h, c) = 0 /\ After(g, c) = After(h, c)
      BY <1>9, <1>10, <1>12, <2>2
    <3>2. c # b
      BY <1>2, <1>3, <1>7, <2>2 DEF Fused
    <3>3. After(h, c) # b
      BY <1>3, <1>7, <2>2, <3>1
    <3>4. Used(h, After(h, c)) = 1
      BY <3>1, <3>2, <3>3 DEF OnlyTouching
    <3>5. After(h, c) # first
      BY <1>7, <3>3, <3>4
    <3>6. After(g, c) \in C
      BY <1>9, <1>10 DEF Tiling, Chain
    <3> QED
      BY <1>10, <3>1, <3>4, <3>5, <3>6
  <2> QED
    BY <2>1, <2>2
<1> QED
  BY <1>1, <1>2, <1>9, <1>10, <1>11, <1>12, <1>15, <1>16, <1>18, Zenon DEF g, first, e

-----------------------------------------------------------------------------
(* The walk.                                                               *)

(* Of some natural numbers one is the least. *)
LEMMA LeastNumber ==
    ASSUME NEW S, S \subseteq Nat, S # {}
    PROVE  \E m \in S : \A n \in S : m <= n
<1> DEFINE R == OpToRel(<, Nat)
<1>1. IsWellFoundedOn(R, Nat)
  BY NatLessThanWellFounded
<1>2. \A x \in S, y \in S : <<y, x>> \in R <=> y < x
  BY DEF OpToRel
<1> HIDE DEF R
<1>3. PICK x \in S : \A y \in S : ~ (<<y, x>> \in R)
  BY <1>1, WFMin
<1>4. \A y \in S : ~(y < x) /\ y \in Nat /\ x \in Nat
  BY <1>2, <1>3
<1>5. \A y \in S : x <= y
  BY <1>4
<1> QED
  BY <1>5

(* A set that has 0 and with every number the next has all of them. *)
LEMMA AllNumbers ==
    ASSUME NEW S, 0 \in S, \A n \in Nat : n \in S => n + 1 \in S
    PROVE  \A n \in Nat : n \in S
<1> DEFINE T == {n \in Nat : n \notin S}
<1> SUFFICES ASSUME T # {}
             PROVE  FALSE
  OBVIOUS
<1>1. PICK m \in T : \A n \in T : m <= n
  BY LeastNumber
<1>2. m - 1 \in Nat /\ m - 1 \notin T
  BY <1>1
<1>3. m - 1 \in S /\ m - 1 + 1 = m
  BY <1>2
<1> QED
  BY <1>1, <1>2, <1>3

(* There is a walk of every length. *)
LEMMA WalkUnfolds ==
    ASSUME NEW h
    PROVE  /\ Walk(h)[0] = heap_listp
           /\ \A n \in Steps : n + 1 \in Steps => Walk(h)[n + 1] = NEXT_BLKP(h, Walk(h)[n])
<1> DEFINE Way(k, f) ==
              f = [n \in 0 .. k |-> IF n = 0 THEN heap_listp ELSE NEXT_BLKP(h, f[n - 1])]
           Ways == {k \in Nat : \E f : Way(k, f)}
<1>1. MaxBlocks \in Nat
  BY AreaAssumption DEF MaxBlocks
<1>2. 0 \in Ways
  <2>1. PICK f : f = [n \in 0 .. 0 |-> heap_listp]
    OBVIOUS
  <2>2. Way(0, f)
    <3>1. \A n \in 0 .. 0 : n = 0
      OBVIOUS
    <3> QED
      BY <2>1, <3>1
  <2> QED
    BY <2>2
<1>3. ASSUME NEW k \in Nat, k \in Ways
      PROVE  k + 1 \in Ways
  <2>1. PICK f : Way(k, f)
    BY <1>3
  <2>2. PICK g : g = [n \in 0 .. k + 1 |-> IF n = k + 1 THEN NEXT_BLKP(h, f[k]) ELSE f[n]]
    OBVIOUS
  <2>3. \A n \in 0 .. k : g[n] = f[n]
    BY <2>2
  <2>4. \A n \in 0 .. k + 1 :
          g[n] = IF n = 0 THEN heap_listp ELSE NEXT_BLKP(h, g[n - 1])
    <3> SUFFICES ASSUME NEW n \in 0 .. k + 1
                 PROVE  g[n] = IF n = 0 THEN heap_listp ELSE NEXT_BLKP(h, g[n - 1])
      OBVIOUS
    <3>1. CASE n = k + 1
      <4>1. g[n] = NEXT_BLKP(h, f[k]) /\ n # 0 /\ n - 1 = k /\ k \in 0 .. k
        BY <2>2, <3>1
      <4> QED
        BY <2>3, <4>1
    <3>2. CASE n # k + 1
      <4>1. n \in 0 .. k /\ (n # 0 => n - 1 \in 0 .. k)
        BY <3>2
      <4>2. f[n] = IF n = 0 THEN heap_listp ELSE NEXT_BLKP(h, f[n - 1])
        BY <2>1, <4>1
      <4> QED
        BY <2>3, <4>1, <4>2
    <3> QED
      BY <3>1, <3>2
  <2>5. Way(k + 1, g)
    BY <2>2, <2>4
  <2> QED
    BY <2>5
<1> HIDE DEF Ways
<1>4. MaxBlocks \in Ways
  BY <1>1, <1>2, <1>3, AllNumbers
<1>5. \E f : Way(MaxBlocks, f)
  BY <1>4 DEF Ways
<1>6. Way(MaxBlocks, Walk(h))
  BY <1>5 DEF Walk, Steps
<1>7. \A n \in Steps : Walk(h)[n] = IF n = 0 THEN heap_listp ELSE NEXT_BLKP(h, Walk(h)[n - 1])
  BY <1>6 DEF Steps
<1> HIDE DEF Way
<1>8. 0 \in Steps /\ \A n \in Steps : n \in Nat /\ n + 1 # 0 /\ n + 1 - 1 = n
  BY <1>1 DEF Steps
<1>9. Walk(h)[0] = heap_listp
  BY <1>7, <1>8
<1>10. ASSUME NEW n \in Steps, n + 1 \in Steps
       PROVE  Walk(h)[n + 1] = NEXT_BLKP(h, Walk(h)[n])
  <2>1. Walk(h)[n + 1] = NEXT_BLKP(h, Walk(h)[n + 1 - 1])
    BY <1>7, <1>8, <1>10
  <2> QED
    BY <1>8, <2>1
<1> QED
  BY <1>9, <1>10

(* It goes over the blocks and ends at the break. *)
LEMMA WalkIsTiles ==
    ASSUME NEW h, NEW B, Tiling(h, B)
    PROVE  /\ {Walk(h)[n] : n \in Steps} = B
           /\ Walk(h)[MaxBlocks] = h.mem_brk
<1> DEFINE walk == Walk(h)
           Far == {n \in Nat : n \in Steps =>
                      walk[n] \in B /\ (walk[n] = h.mem_brk \/ walk[n] >= heap_listp + 8 * n)}
<1>1. MaxBlocks \in Nat /\ 8 * MaxBlocks = MAX_HEAP /\ Steps = 0 .. MaxBlocks
  BY AreaAssumption DEF MaxBlocks, Steps
<1>2. /\ heap_listp \in B /\ heap_listp \in Nat /\ heap_listp = mem_start_brk + 8
      /\ h.mem_brk \in B /\ h.mem_brk \in Nat /\ h.mem_brk <= mem_max_addr
      /\ mem_max_addr = mem_start_brk + MAX_HEAP /\ MAX_HEAP \in Nat /\ mem_start_brk \in Nat
  <2>1. heap_listp \in B /\ h.mem_brk \in B
    BY DEF Tiling, Bounds
  <2> QED
    BY <2>1, BlockFacts, AreaAssumption DEF mem_max_addr
<1>3. /\ walk[0] = heap_listp
      /\ \A n \in Steps : n + 1 \in Steps => walk[n + 1] = NEXT_BLKP(h, walk[n])
  BY WalkUnfolds
<1>4. \A b \in B : /\ b \in Nat /\ b % 8 = 0
                   /\ b # h.mem_brk => /\ NEXT_BLKP(h, b) = After(h, b) /\ After(h, b) \in B
                                       /\ After(h, b) \in Nat /\ After(h, b) % 8 = 0
                                       /\ b < After(h, b)
                   /\ b = h.mem_brk => NEXT_BLKP(h, b) = b
  BY BlockFacts, TagsTell
<1> HIDE DEF walk
<1>5. 0 \in Far
  BY <1>2, <1>3
<1>6. ASSUME NEW n \in Nat, n \in Far
      PROVE  n + 1 \in Far
  <2> SUFFICES ASSUME n + 1 \in Steps
               PROVE  /\ walk[n + 1] \in B
                      /\ walk[n + 1] = h.mem_brk \/ walk[n + 1] >= heap_listp + 8 * (n + 1)
    OBVIOUS
  <2>1. n \in Steps /\ walk[n] \in B /\ (walk[n] = h.mem_brk \/ walk[n] >= heap_listp + 8 * n)
    BY <1>1, <1>6
  <2>2. walk[n + 1] = NEXT_BLKP(h, walk[n])
    BY <1>3, <2>1
  <2>3. CASE walk[n] = h.mem_brk
    BY <1>2, <1>4, <2>1, <2>2, <2>3
  <2>4. CASE walk[n] # h.mem_brk
    <3>1. /\ walk[n + 1] \in B /\ walk[n + 1] \in Nat /\ walk[n + 1] % 8 = 0
          /\ walk[n] \in Nat /\ walk[n] % 8 = 0 /\ walk[n] < walk[n + 1]
          /\ walk[n] >= heap_listp + 8 * n
      BY <1>4, <2>1, <2>2, <2>4
    <3>2. walk[n + 1] >= walk[n] + 8
      BY <3>1
    <3> QED
      BY <1>2, <3>1, <3>2
  <2> QED
    BY <2>3, <2>4
<1>7. \A n \in Steps : walk[n] \in B /\ (walk[n] = h.mem_brk \/ walk[n] >= heap_listp + 8 * n)
  <2> HIDE DEF Far
  <2>1. \A n \in Nat : n \in Far
    BY <1>5, <1>6, AllNumbers
  <2> QED
    BY <1>1, <2>1 DEF Far
<1>8. walk[MaxBlocks] = h.mem_brk
  <2>1. MaxBlocks \in Steps
    BY <1>1
  <2>2. ~(walk[MaxBlocks] >= heap_listp + 8 * MaxBlocks)
    <3>1. walk[MaxBlocks] \in Nat /\ walk[MaxBlocks] <= h.mem_brk
      BY <1>7, <2>1, BlockFacts
    <3> QED
      BY <1>1, <1>2, <3>1
  <2> QED
    BY <1>7, <2>1, <2>2
<1>9. ASSUME NEW b \in B, \A n \in Steps : walk[n] # b
      PROVE  FALSE
  <2> DEFINE M == {c \in B : \A n \in Steps : walk[n] # c}
  <2>1. PICK m \in M : \A c \in M : m <= c
    <3>1. M \subseteq Nat /\ M # {}
      BY <1>4, <1>9
    <3> HIDE DEF M
    <3> QED
      BY <3>1, LeastNumber
  <2>2. m \in B \ {heap_listp}
    <3>1. 0 \in Steps
      BY <1>1
    <3> QED
      BY <1>3, <3>1
  <2>3. PICK p \in B \ {h.mem_brk} : After(h, p) = m
    BY <2>2 DEF Tiling, Chain
  <2>4. p < m /\ p \in Nat /\ m \in Nat
    BY <1>4, <2>3
  <2>5. PICK n \in Steps : walk[n] = p
    BY <2>1, <2>4
  <2>6. n + 1 \in Steps
    BY <1>1, <1>8, <2>3, <2>5
  <2>7. walk[n + 1] = m
    BY <1>3, <1>4, <2>3, <2>5, <2>6
  <2> QED
    BY <2>1, <2>6, <2>7
<1>10. {walk[n] : n \in Steps} = B
  BY <1>7, <1>9
<1> QED
  BY <1>8, <1>10 DEF walk

(* It never goes back. *)
LEMMA WalkAscends ==
    ASSUME NEW h, NEW B, Tiling(h, B), NEW m \in Steps
    PROVE  \A n \in Steps : m <= n => Walk(h)[m] <= Walk(h)[n]
<1> DEFINE walk == Walk(h)
           Up == {n \in Nat : n \in Steps /\ m <= n => walk[m] <= walk[n]}
<1>1. MaxBlocks \in Nat /\ Steps = 0 .. MaxBlocks /\ m \in Nat
  BY AreaAssumption DEF MaxBlocks, Steps
<1>2. \A n \in Steps : walk[n] \in B /\ walk[n] \in Nat
  <2>1. {Walk(h)[n] : n \in Steps} = B
    BY WalkIsTiles
  <2>2. \A b \in B : b \in Nat
    BY BlockFacts
  <2> QED
    BY <2>1, <2>2
<1>3. \A n \in Steps : n + 1 \in Steps => walk[n] <= walk[n + 1]
  <2> SUFFICES ASSUME NEW n \in Steps, n + 1 \in Steps
               PROVE  walk[n] <= walk[n + 1]
    OBVIOUS
  <2>1. walk[n + 1] = NEXT_BLKP(h, walk[n])
    BY WalkUnfolds
  <2>2. CASE walk[n] = h.mem_brk
    <3>1. walk[n + 1] = walk[n]
      BY <1>2, <2>1, <2>2, TagsTell
    <3> QED
      BY <1>2, <3>1
  <2>3. CASE walk[n] # h.mem_brk
    <3>1. walk[n + 1] = After(h, walk[n])
      BY <1>2, <2>1, <2>3, TagsTell
    <3>2. walk[n] < After(h, walk[n])
      BY <1>2, <2>3, BlockFacts
    <3> QED
      BY <1>2, <3>1, <3>2
  <2> QED
    BY <2>2, <2>3
<1> HIDE DEF walk
<1>4. 0 \in Up
  BY <1>1, <1>2
<1>5. ASSUME NEW n \in Nat, n \in Up
      PROVE  n + 1 \in Up
  <2> SUFFICES ASSUME n + 1 \in Steps, m <= n + 1
               PROVE  walk[m] <= walk[n + 1]
    OBVIOUS
  <2>1. n \in Steps
    BY <1>1
  <2>2. CASE m = n + 1
    BY <1>2, <2>2
  <2>3. CASE m <= n
    <3>1. walk[m] <= walk[n] /\ walk[n] <= walk[n + 1]
      BY <1>3, <1>5, <2>1, <2>3
    <3> QED
      BY <1>2, <2>1, <3>1
  <2> QED
    BY <1>1, <2>2, <2>3
<1> HIDE DEF Up
<1>6. \A n \in Nat : n \in Up
  BY <1>4, <1>5, AllNumbers
<1> QED
  BY <1>1, <1>6 DEF Up, walk

(* The first block that fits is the lowest one; NULL if none does.         *)
LEMMA FirstOfFits ==
    ASSUME NEW h, NEW B, Tiling(h, B), NEW S,
           NEW fits \in SUBSET Steps, \A n \in Steps : n \in fits <=> Walk(h)[n] \in S,
           NEW found, found = IF fits = {} THEN NULL ELSE Walk(h)[Min(fits)]
    PROVE  /\ found # NULL => found \in B \cap S /\ \A b \in B \cap S : found <= b
           /\ found = NULL => B \cap S = {}
<1>1. {Walk(h)[n] : n \in Steps} = B
  BY WalkIsTiles
<1>2. CASE fits = {}
  BY <1>1, <1>2 DEF NULL
<1>3. CASE fits # {}
  <2>1. fits \subseteq Nat
    BY AreaAssumption DEF Steps, MaxBlocks
  <2>2. PICK m \in fits : \A n \in fits : m <= n
    <3> QED
      BY <1>3, <2>1, LeastNumber
  <2>3. Min(fits) \in fits /\ \A n \in fits : Min(fits) <= n
    <3> QED
      BY <2>2 DEF Min
  <2>4. Walk(h)[Min(fits)] \in B \cap S
    BY <1>1, <2>3
  <2>5. \A b \in B \cap S : Walk(h)[Min(fits)] <= b
    BY <1>1, <2>3, WalkAscends
  <2>6. Walk(h)[Min(fits)] # NULL
    <3>1. /\ Walk(h)[Min(fits)] \in Nat /\ heap_listp <= Walk(h)[Min(fits)]
          /\ heap_listp = mem_start_brk + 8
      BY <2>4, BlockFacts
    <3> QED
      BY <3>1, AreaAssumption DEF NULL
  <2> QED
    BY <1>3, <2>4, <2>5, <2>6
<1> QED
  BY <1>2, <1>3

-----------------------------------------------------------------------------
(* What the packages make of a heap that is in order.                      *)

(* The heap is in order: what mm_checkheap looks for. *)
Sound(h, B) == Tiling(h, B) /\ Coalesced(h, B)

(* The blocks S are where and as large as they were, with what is in them. *)
Keeps(h, g, S) == \A c \in S : After(g, c) = After(h, c) /\ Untouched(h, g, c)

(* What is kept twice is kept. *)
LEMMA KeepsOn ==
    ASSUME NEW h, NEW g, NEW k, NEW S, NEW T, S \subseteq T, Keeps(h, g, T), Keeps(g, k, S)
    PROVE  Keeps(h, k, S)
BY DEF Keeps, Untouched

(* What a function returns is no part of the memory. *)
Returning(h, g, r) == g = [h EXCEPT !.ret = r]

(* So it disturbs nothing. *)
LEMMA Returns ==
    ASSUME NEW h \in Heaps, NEW r \in Int, NEW g, Returning(h, g, r)
    PROVE  /\ g \in Heaps /\ g.ret = r /\ g.mem_brk = h.mem_brk
           /\ g.free_listp = h.free_listp /\ g.mem = h.mem
           /\ \A a : GET(g, a) = GET(h, a)
           /\ \A b : Size(g, b) = Size(h, b) /\ Used(g, b) = Used(h, b) /\ After(g, b) = After(h, b)
           /\ \A B : Tiling(h, B) => Tiling(g, B)
           /\ \A B : Coalesced(h, B) => Coalesced(g, B)
           /\ \A B : InUse(g, B) = InUse(h, B)
           /\ \A S : Keeps(h, g, S)
           /\ \A k, S : Keeps(k, h, S) => Keeps(k, g, S)
<1>1. /\ g \in Heaps /\ g.ret = r /\ g.mem_brk = h.mem_brk
      /\ g.free_listp = h.free_listp /\ g.mem = h.mem
  BY DEF Heaps, Returning
<1>2. \A a : GET(g, a) = GET(h, a)
  BY <1>1 DEF GET
<1>3. \A b : Size(g, b) = Size(h, b) /\ Used(g, b) = Used(h, b) /\ After(g, b) = After(h, b)
  BY <1>2 DEF Size, Used, After
<1>4. ASSUME NEW B, Tiling(h, B)
      PROVE  Tiling(g, B)
  BY <1>1, <1>2, <1>3, <1>4 DEF Tiling, Bounds, Chain, BothTags
<1>5. ASSUME NEW B, Coalesced(h, B)
      PROVE  Coalesced(g, B)
  BY <1>1, <1>3, <1>5 DEF Coalesced
<1>6. \A B : InUse(g, B) = InUse(h, B)
  BY <1>1, <1>3 DEF InUse
<1>7. \A S : Keeps(h, g, S)
  BY <1>2, <1>3 DEF Keeps, Untouched
<1>8. \A k, S : Keeps(k, h, S) => Keeps(k, g, S)
  BY <1>2, <1>3 DEF Keeps, Untouched
<1> QED
  BY <1>1, <1>2, <1>3, <1>4, <1>5, <1>6, <1>7, <1>8

(* The smallest heap: the prologue, and the epilogue after it. *)
LEMMA EmptyHeapTiles ==
    ASSUME NEW h \in Heaps, h.mem_brk = mem_start_brk + 16, 16 <= MAX_HEAP
    PROVE  LET g == EmptyHeap(h, mem_start_brk)
               B == {heap_listp, heap_listp + 8}
           IN  /\ Sound(g, B) /\ InUse(g, B) = {heap_listp}
               /\ g.mem_brk = h.mem_brk /\ g.free_listp = h.free_listp /\ g.ret = h.ret
<1> DEFINE s == mem_start_brk
           k0 == PUT(h, s, 0)
           k1 == PUT(k0, s + 4, 9)
           k2 == PUT(k1, s + 8, 9)
           g == PUT(k2, s + 12, 1)
           B == {heap_listp, heap_listp + 8}
<1>1. /\ s \in Nat /\ s % 8 = 0 /\ mem_max_addr = s + MAX_HEAP /\ MAX_HEAP \in Nat
      /\ heap_listp = s + 8 /\ Span \in Nat /\ s + MAX_HEAP < Span
  BY AreaAssumption DEF mem_max_addr, heap_listp, DSIZE
<1>2. s \in Storage /\ s + 4 \in Storage /\ s + 8 \in Storage /\ s + 12 \in Storage
  BY <1>1, StorageIsTheArea
<1>3. 0 \in Words /\ 9 \in Words /\ 1 \in Words
  BY <1>1 DEF Words
<1>4. EmptyHeap(h, mem_start_brk) = g
  <2>1. PACK(OVERHEAD, 1) = 9 /\ PACK(0, 1) = 1 /\ s + WSIZE + DSIZE = s + 12
    BY <1>1 DEF PACK, OVERHEAD, WSIZE, DSIZE
  <2> QED
    BY <2>1 DEF EmptyHeap, WSIZE, DSIZE
<1> HIDE DEF g, k2, k1, k0, s
<1>5. /\ k0 \in Heaps /\ k0.mem_brk = h.mem_brk /\ k0.free_listp = h.free_listp /\ k0.ret = h.ret
  BY <1>2, <1>3, PutThenGet DEF k0
<1>6. /\ k1 \in Heaps /\ k1.mem_brk = h.mem_brk /\ k1.free_listp = h.free_listp /\ k1.ret = h.ret
      /\ GET(k1, s + 4) = 9
  BY <1>2, <1>3, <1>5, PutThenGet DEF k1
<1>7. /\ k2 \in Heaps /\ k2.mem_brk = h.mem_brk /\ k2.free_listp = h.free_listp /\ k2.ret = h.ret
      /\ GET(k2, s + 4) = 9 /\ GET(k2, s + 8) = 9
  <2>1. s + 4 # s + 8
    BY <1>1
  <2> QED
    BY <1>2, <1>3, <1>6, <2>1, PutThenGet DEF k2
<1>8. /\ g \in Heaps /\ g.mem_brk = h.mem_brk /\ g.free_listp = h.free_listp /\ g.ret = h.ret
      /\ GET(g, s + 4) = 9 /\ GET(g, s + 8) = 9 /\ GET(g, s + 12) = 1
  <2>1. s + 4 # s + 12 /\ s + 8 # s + 12
    BY <1>1
  <2> QED
    BY <1>2, <1>3, <1>7, <2>1, PutThenGet DEF g
<1>9. /\ PACK(8, 1) = 9 /\ PACK(0, 1) = 1
      /\ SizeOf(9) = 8 /\ AllocOf(9) = 1 /\ SizeOf(1) = 0 /\ AllocOf(1) = 1 /\ IsTag(9)
  BY DEF PACK, SizeOf, AllocOf, IsTag
<1>10. /\ heap_listp - 4 = s + 4 /\ heap_listp + 8 - 4 = s + 12 /\ heap_listp + 8 - 8 = s + 8
       /\ g.mem_brk = heap_listp + 8 /\ heap_listp \in Nat /\ heap_listp % 8 = 0
       /\ heap_listp < heap_listp + 8 /\ heap_listp + 8 <= mem_max_addr
       /\ (heap_listp + 8) % 8 = 0
  BY <1>1, <1>8 DEF s
<1>11. /\ Size(g, heap_listp) = 8 /\ Used(g, heap_listp) = 1 /\ After(g, heap_listp) = heap_listp + 8
       /\ Used(g, heap_listp + 8) = 1
  BY <1>8, <1>9, <1>10 DEF Size, Used, After
<1>12. Bounds(g, B)
  BY <1>8, <1>9, <1>10 DEF Bounds
<1>13. Chain(g, B)
  BY <1>10, <1>11 DEF Chain
<1>14. BothTags(g, B)
  BY <1>8, <1>9, <1>10, <1>11 DEF BothTags
<1>15. Coalesced(g, B)
  BY <1>10, <1>11 DEF Coalesced
<1>16. InUse(g, B) = {heap_listp}
  BY <1>10, <1>11 DEF InUse
<1> QED
  BY <1>4, <1>8, <1>12, <1>13, <1>14, <1>15, <1>16 DEF Sound, Tiling

(* A free block that is large enough becomes allocated; what it can spare  *)
(* stays free (place of mm-firstfit.c).                                    *)
Placed(h, b, n) ==
    IF Size(h, b) - n >= MINIMUM
    THEN Tag(Tag(h, b, n, 1), b + n, Size(h, b) - n, 0)
    ELSE Tag(h, b, Size(h, b), 1)

(* The free block b has room for n bytes. *)
RoomFor(h, B, b, n) ==
    /\ b \in B /\ Used(h, b) = 0
    /\ n \in Nat /\ n % 8 = 0 /\ MINIMUM <= n /\ n <= Size(h, b)

(* The free block is one in use then, and no two free blocks touch. *)
LEMMA PlacedTiles ==
    ASSUME NEW h, NEW B, Sound(h, B), NEW b \in B, Used(h, b) = 0,
           NEW n \in Nat, n % 8 = 0, MINIMUM <= n, n <= Size(h, b)
    PROVE  LET g == Placed(h, b, n)
           IN  \E C :
                 /\ Sound(g, C)
                 /\ InUse(g, C) = InUse(h, B) \cup {b} /\ b \notin InUse(h, B)
                 /\ g.mem_brk = h.mem_brk /\ g.free_listp = h.free_listp /\ g.ret = h.ret
                 /\ Keeps(h, g, InUse(h, B))
                 /\ After(g, b) = IF Size(h, b) - n >= MINIMUM THEN b + n ELSE After(h, b)
<1>1. Tiling(h, B) /\ Coalesced(h, B)
  BY DEF Sound
<1>2. /\ h \in Heaps /\ h.mem_brk \in Nat /\ h.mem_brk <= mem_max_addr
      /\ b \in Nat /\ b % 8 = 0 /\ heap_listp <= b /\ heap_listp = mem_start_brk + 8
      /\ b \in B \ {heap_listp, h.mem_brk} /\ mem_start_brk \in Nat /\ mem_max_addr \in Nat
      /\ Size(h, b) \in Nat /\ Size(h, b) % 8 = 0
      /\ After(h, b) \in B /\ After(h, b) <= h.mem_brk /\ After(h, b) = b + Size(h, b)
      /\ b < After(h, b) /\ After(h, b) \in Nat
      /\ \A c \in B : b < c => After(h, b) <= c
  <2>1. Used(h, h.mem_brk) = 1 /\ Used(h, heap_listp) = 1
    BY <1>1, BlockFacts
  <2>2. b \in B \ {heap_listp, h.mem_brk}
    BY <2>1
  <2> QED
    <3>1. mem_start_brk \in Nat /\ mem_max_addr \in Nat
      BY AreaAssumption DEF mem_max_addr
    <3> QED
      BY <1>1, <2>2, <3>1, BlockFacts DEF After
<1>3. b \notin InUse(h, B)
  BY DEF InUse
<1>4. CASE Size(h, b) - n >= MINIMUM
  <2> DEFINE k == Tag(h, b, n, 1)
             g == Tag(k, b + n, Size(h, b) - n, 0)
             C == B \cup {b + n}
  <2>1. /\ Size(h, b) - n \in Nat /\ (Size(h, b) - n) % 8 = 0 /\ Size(h, b) - n > 0
        /\ b + n \in Nat /\ (b + n) % 8 = 0 /\ mem_start_brk < b + n /\ mem_start_brk < b /\ n > 0
        /\ b + n <= mem_max_addr /\ b + n + (Size(h, b) - n) <= mem_max_addr
        /\ n + MINIMUM <= Size(h, b) /\ mem_max_addr \in Nat
    BY <1>2, <1>4, AreaAssumption DEF MINIMUM, mem_max_addr
  <2>2. Tagged(h, k, b, n, 1) /\ k.ret = h.ret
    BY <1>2, <2>1, TagTags
  <2>3. k \in Heaps
    BY <2>2 DEF Tagged
  <2> HIDE DEF k
  <2>4. Tagged(k, g, b + n, Size(h, b) - n, 0) /\ g.ret = k.ret
    BY <2>1, <2>3, TagTags
  <2>5. Placed(h, b, n) = g
    BY <1>4 DEF Placed, k
  <2> HIDE DEF g
  <2>6. /\ Tiling(g, C) /\ b + n \notin B
        /\ Used(g, b) = 1 /\ After(g, b) = b + n
        /\ Used(g, b + n) = 0 /\ After(g, b + n) = After(h, b)
        /\ \A c \in B \ {b} : Used(g, c) = Used(h, c) /\ After(g, c) = After(h, c)
        /\ \A c \in B \ {b, h.mem_brk} : Untouched(h, g, c)
    <3>2. PICK m, r : m = b + n /\ r = Size(h, b) - n
      OBVIOUS
    <3>1. b \in B \ {heap_listp, h.mem_brk} /\ Halves(h, b, n, m, r) /\ C = B \cup {m}
      BY <1>2, <2>1, <3>2 DEF Halves
    <3>3. Tagged(h, k, b, n, 1) /\ Tagged(k, g, m, r, 0)
      BY <2>2, <2>4, <3>2
    <3> HIDE DEF C
    <3>4. /\ Tiling(g, C) /\ m \notin B
          /\ Used(g, b) = 1 /\ After(g, b) = m /\ Used(g, m) = 0 /\ After(g, m) = After(h, b)
          /\ \A c \in B \ {b} : Used(g, c) = Used(h, c) /\ After(g, c) = After(h, c)
          /\ \A c \in B \ {b, h.mem_brk} : Untouched(h, g, c)
      BY <1>1, <3>1, <3>3, SplitTiles
    <3> QED
      BY <3>2, <3>4
  <2>7. g.mem_brk = h.mem_brk /\ g.free_listp = h.free_listp /\ g.ret = h.ret
    BY <2>2, <2>4 DEF Tagged
  <2>8. Coalesced(g, C)
    <3> SUFFICES ASSUME NEW c \in C \ {g.mem_brk}, Used(g, c) = 0
                 PROVE  Used(g, After(g, c)) = 1
      BY DEF Coalesced
    <3>1. CASE c = b + n
      <4>1. Used(h, After(h, b)) = 1
        BY <1>1, <1>2 DEF Coalesced
      <4>2. After(h, b) \in B \ {b}
        BY <1>2
      <4> QED
        BY <2>6, <3>1, <4>1, <4>2
    <3>2. CASE c # b + n
      <4>1. c \in B \ {b, h.mem_brk}
        BY <2>6, <2>7, <3>2
      <4>2. Used(h, After(h, c)) = 1 /\ After(h, c) \in B
        BY <1>1, <2>6, <4>1 DEF Coalesced, Tiling, Chain
      <4> QED
        BY <2>6, <4>1, <4>2
    <3> QED
      BY <3>1, <3>2
  <2>9. InUse(g, C) = InUse(h, B) \cup {b}
    <3>1. \A c : c \in InUse(g, C) => c \in InUse(h, B) \cup {b}
      BY <2>6, <2>7 DEF InUse
    <3>2. \A c : c \in InUse(h, B) \cup {b} => c \in InUse(g, C)
      BY <1>2, <2>6, <2>7 DEF InUse
    <3> HIDE DEF C
    <3> QED
      BY <3>1, <3>2
  <2>10. Keeps(h, g, InUse(h, B))
    <3> SUFFICES ASSUME NEW c \in InUse(h, B)
                 PROVE  After(g, c) = After(h, c) /\ Untouched(h, g, c)
      BY DEF Keeps
    <3>1. c \in B \ {b, h.mem_brk}
      BY DEF InUse
    <3> QED
      BY <2>6, <3>1
  <2> HIDE DEF C
  <2> QED
    BY <1>3, <1>4, <2>5, <2>6, <2>7, <2>8, <2>9, <2>10 DEF Sound, C
<1>5. CASE ~(Size(h, b) - n >= MINIMUM)
  <2> DEFINE g == Tag(h, b, Size(h, b), 1)
  <2>1. Size(h, b) > 0 /\ b + Size(h, b) <= mem_max_addr /\ mem_start_brk < b
    BY <1>2 DEF MINIMUM
  <2>2. Tagged(h, g, b, Size(h, b), 1) /\ g.ret = h.ret
    BY <1>2, <2>1, TagTags
  <2>3. Placed(h, b, n) = g
    BY <1>5 DEF Placed
  <2> HIDE DEF g
  <2>4. After(h, b) - b = Size(h, b)
    BY <1>2
  <2>5. Fused(B, b, After(h, b)) = B
    <3>1. \A c \in B : c \in Nat
      BY <1>1, BlockFacts
    <3>2. \A c \in B : c <= b \/ After(h, b) <= c
      BY <1>2, <3>1
    <3> QED
      BY <3>2 DEF Fused
  <2>6. /\ Tiling(g, B) /\ Used(g, b) = 1 /\ After(g, b) = After(h, b)
        /\ \A c \in B \ {b} : Used(g, c) = Used(h, c) /\ After(g, c) = After(h, c)
    <3>1. /\ b \in B \ {heap_listp} /\ After(h, b) \in B /\ b < After(h, b) /\ 1 \in {0, 1}
          /\ Tagged(h, g, b, After(h, b) - b, 1)
      BY <1>2, <2>2, <2>4
    <3> QED
      BY <1>1, <2>5, <3>1, FuseTiles
  <2>7. \A c \in B \ {h.mem_brk} : Untouched(h, g, c)
    BY <1>1, <1>2, <2>2, <2>4, TagsSpareContents
  <2>8. g.mem_brk = h.mem_brk /\ g.free_listp = h.free_listp /\ g.ret = h.ret
    BY <2>2 DEF Tagged
  <2>9. Coalesced(g, B)
    <3> SUFFICES ASSUME NEW c \in B \ {g.mem_brk}, Used(g, c) = 0
                 PROVE  Used(g, After(g, c)) = 1
      BY DEF Coalesced
    <3>1. c \in B \ {b, h.mem_brk}
      BY <2>6, <2>8
    <3>2. Used(h, After(h, c)) = 1 /\ After(h, c) \in B
      BY <1>1, <2>6, <3>1 DEF Coalesced, Tiling, Chain
    <3> QED
      BY <2>6, <3>1, <3>2
  <2>10. InUse(g, B) = InUse(h, B) \cup {b}
    BY <1>2, <2>6, <2>8 DEF InUse
  <2>11. Keeps(h, g, InUse(h, B))
    <3> SUFFICES ASSUME NEW c \in InUse(h, B)
                 PROVE  After(g, c) = After(h, c) /\ Untouched(h, g, c)
      BY DEF Keeps
    <3>1. c \in B \ {b, h.mem_brk}
      BY DEF InUse
    <3> QED
      BY <2>6, <2>7, <3>1
  <2> QED
    BY <1>3, <1>5, <2>3, <2>6, <2>8, <2>9, <2>10, <2>11 DEF Sound
<1> QED
  BY <1>4, <1>5

(* A block in use is freed and joins its free neighbours (mm_free of       *)
(* mm-firstfit.c).                                                         *)
LEMMA FreedTiles ==
    ASSUME NEW h, NEW B, Sound(h, B), NEW b \in InUse(h, B) \ {heap_listp}
    PROVE  LET g == Joined(Tag(h, b, Size(h, b), 0), b)
           IN  \E C :
                 /\ Sound(g, C)
                 /\ InUse(g, C) = InUse(h, B) \ {b}
                 /\ g.mem_brk = h.mem_brk /\ g.free_listp = h.free_listp
                 /\ Keeps(h, g, InUse(h, B) \ {b})
<1> DEFINE k == Tag(h, b, Size(h, b), 0)
           g == Joined(k, b)
           C == Fused(B, JoinFirst(k, b), JoinEnd(k, b))
           S == InUse(h, B) \ {b}
<1>1. Tiling(h, B) /\ Coalesced(h, B)
  BY DEF Sound
<1>2. b \in B \ {heap_listp, h.mem_brk} /\ Used(h, b) = 1
  BY DEF InUse
<1>3. /\ h \in Heaps /\ h.mem_brk \in Nat /\ h.mem_brk <= mem_max_addr
      /\ b \in Nat /\ b % 8 = 0 /\ heap_listp <= b /\ heap_listp = mem_start_brk + 8
      /\ Size(h, b) \in Nat /\ Size(h, b) % 8 = 0
      /\ After(h, b) \in B /\ After(h, b) <= h.mem_brk /\ After(h, b) = b + Size(h, b)
      /\ b < After(h, b) /\ After(h, b) \in Nat
      /\ \A c \in B : b < c => After(h, b) <= c
  BY <1>1, <1>2, BlockFacts DEF After
<1>4. mem_start_brk \in Nat /\ mem_max_addr \in Nat
  BY AreaAssumption DEF mem_max_addr
<1>5. Size(h, b) > 0 /\ b + Size(h, b) <= mem_max_addr /\ mem_start_brk < b
  BY <1>3, <1>4
<1>6. Tagged(h, k, b, Size(h, b), 0)
  BY <1>3, <1>5, TagTags
<1> HIDE DEF k
<1>7. After(h, b) - b = Size(h, b)
  BY <1>3
<1>8. Fused(B, b, After(h, b)) = B
  <2>1. \A c \in B : c \in Nat
    BY <1>1, BlockFacts
  <2>2. \A c \in B : c <= b \/ After(h, b) <= c
    BY <1>3, <2>1
  <2> QED
    BY <2>2 DEF Fused
<1>9. /\ Tiling(k, B) /\ Used(k, b) = 0 /\ After(k, b) = After(h, b)
      /\ \A c \in B \ {b} : Used(k, c) = Used(h, c) /\ After(k, c) = After(h, c)
  <2>1. /\ b \in B \ {heap_listp} /\ After(h, b) \in B /\ b < After(h, b) /\ 0 \in {0, 1}
        /\ Tagged(h, k, b, After(h, b) - b, 0)
    BY <1>2, <1>3, <1>6, <1>7
  <2> QED
    BY <1>1, <1>8, <2>1, FuseTiles
<1>10. \A c \in B \ {h.mem_brk} : Untouched(h, k, c)
  BY <1>1, <1>2, <1>3, <1>6, <1>7, TagsSpareContents
<1>11. k.mem_brk = h.mem_brk /\ k.free_listp = h.free_listp
  BY <1>6 DEF Tagged
<1>12. OnlyTouching(k, B, b)
  <2> SUFFICES ASSUME NEW c \in B \ {k.mem_brk}, Used(k, c) = 0, c # b, After(k, c) # b
               PROVE  Used(k, After(k, c)) = 1
    BY DEF OnlyTouching
  <2>1. c \in B \ {b, h.mem_brk} /\ Used(h, c) = 0 /\ After(h, c) # b
    BY <1>9, <1>11
  <2>2. Used(h, After(h, c)) = 1 /\ After(h, c) \in B
    BY <1>1, <2>1 DEF Coalesced, Tiling, Chain
  <2> QED
    BY <1>9, <2>1, <2>2
<1>13. InUse(k, B) = S
  <2>1. \A c : c \in InUse(k, B) => c \in S
    BY <1>9, <1>11 DEF InUse
  <2>2. \A c : c \in S => c \in InUse(k, B)
    BY <1>9, <1>11 DEF InUse
  <2> HIDE DEF S
  <2> QED
    BY <2>1, <2>2
<1>14. Keeps(h, k, S)
  <2>1. \A c \in S : c \in B \ {b, h.mem_brk}
    BY DEF InUse
  <2> HIDE DEF S
  <2> QED
    BY <1>9, <1>10, <2>1 DEF Keeps
<1>15. /\ Tiling(g, C) /\ Coalesced(g, C)
       /\ g.mem_brk = k.mem_brk /\ g.free_listp = k.free_listp
       /\ InUse(g, C) = InUse(k, B)
       /\ \A c \in B \ {k.mem_brk} : Untouched(k, g, c)
       /\ \A c \in InUse(k, B) : After(g, c) = After(k, c)
  <2>1. b \in B \ {heap_listp, k.mem_brk}
    BY <1>2, <1>11
  <2> QED
    BY <1>9, <1>12, <2>1, JoinedCoalesces
<1> HIDE DEF g, C
<1>16. Keeps(k, g, S)
  <2>1. \A c \in S : c \in B \ {k.mem_brk}
    BY <1>11 DEF InUse
  <2> HIDE DEF S
  <2> QED
    BY <1>13, <1>15, <2>1 DEF Keeps
<1>17. Keeps(h, g, S)
  BY <1>14, <1>16, KeepsOn
<1>18. /\ Sound(g, C) /\ InUse(g, C) = S
       /\ g.mem_brk = h.mem_brk /\ g.free_listp = h.free_listp
  BY <1>11, <1>13, <1>15 DEF Sound
<1> HIDE DEF S
<1>19. \E D : /\ Sound(g, D) /\ InUse(g, D) = S
              /\ g.mem_brk = h.mem_brk /\ g.free_listp = h.free_listp
              /\ Keeps(h, g, S)
  BY <1>17, <1>18
<1> QED
  BY <1>19 DEF g, k, S

(* The heap grows by a free block, which joins the last one if that is     *)
(* free (extend_heap of mm-firstfit.c).                                    *)
LEMMA ExtendedTiles ==
    ASSUME NEW h, NEW B, Sound(h, B), NEW words \in Nat, words >= 4,
           h.mem_brk + Bytes(words) <= mem_max_addr
    PROVE  LET g == Joined(Grown(h, words), h.mem_brk)
           IN  \E C :
                 /\ Sound(g, C)
                 /\ InUse(g, C) = InUse(h, B)
                 /\ g.mem_brk = h.mem_brk + Bytes(words) /\ g.free_listp = h.free_listp
                 /\ Keeps(h, g, InUse(h, B))
                 /\ g.ret \in C /\ Used(g, g.ret) = 0 /\ g.ret \in Nat
                 /\ g.ret <= h.mem_brk /\ After(g, g.ret) = g.mem_brk
<1> DEFINE b == h.mem_brk
           e == b + Bytes(words)
           k == Grown(h, words)
           A == B \cup {e}
           g == Joined(k, b)
           C == Fused(A, JoinFirst(k, b), JoinEnd(k, b))
           S == InUse(h, B)
<1>1. Tiling(h, B) /\ Coalesced(h, B)
  BY DEF Sound
<1>2. b \in B /\ heap_listp \in B /\ heap_listp < b
  BY <1>1 DEF Tiling, Bounds
<1>3. /\ Tiling(k, A) /\ k.mem_brk = e /\ k.free_listp = h.free_listp
      /\ e \notin B /\ Used(k, b) = 0 /\ After(k, b) = e
      /\ \A c \in B \ {b} :
            Used(k, c) = Used(h, c) /\ After(k, c) = After(h, c) /\ Untouched(h, k, c)
  BY <1>1, GrownTiles
<1> HIDE DEF k, e
<1>4. /\ Used(k, k.mem_brk) = 1 /\ e \in A /\ Used(h, b) = 1 /\ e # b
      /\ heap_listp \in Nat /\ b \in Nat
  <2>1. Used(k, k.mem_brk) = 1 /\ k.mem_brk \in A
    BY <1>2, <1>3, BlockFacts
  <2>2. Used(h, b) = 1 /\ heap_listp \in Nat /\ b \in Nat
    BY <1>1, <1>2, BlockFacts
  <2> QED
    BY <1>2, <1>3, <2>1, <2>2
<1>5. b \in A \ {heap_listp, k.mem_brk}
  BY <1>2, <1>3, <1>4
<1>6. OnlyTouching(k, A, b)
  <2> SUFFICES ASSUME NEW c \in A \ {k.mem_brk}, Used(k, c) = 0, c # b, After(k, c) # b
               PROVE  Used(k, After(k, c)) = 1
    BY DEF OnlyTouching
  <2>1. c \in B \ {b} /\ Used(h, c) = 0 /\ After(h, c) # b
    BY <1>3
  <2>2. Used(h, After(h, c)) = 1 /\ After(h, c) \in B
    BY <1>1, <2>1 DEF Coalesced, Tiling, Chain
  <2> QED
    BY <1>3, <2>1, <2>2
<1>7. InUse(k, A) = S
  <2>1. \A c : c \in InUse(k, A) => c \in S
    BY <1>3 DEF InUse
  <2>2. \A c : c \in S => c \in InUse(k, A)
    BY <1>3 DEF InUse
  <2> HIDE DEF S, A
  <2> QED
    BY <2>1, <2>2
<1>8. Keeps(h, k, S)
  <2>1. \A c \in S : c \in B \ {b}
    BY DEF InUse
  <2> HIDE DEF S
  <2> QED
    BY <1>3, <2>1 DEF Keeps
<1> HIDE DEF A
<1>9. /\ Tiling(g, C) /\ Coalesced(g, C)
      /\ g.mem_brk = k.mem_brk /\ g.free_listp = k.free_listp
      /\ InUse(g, C) = InUse(k, A)
      /\ \A c \in A \ {k.mem_brk} : Untouched(k, g, c)
      /\ \A c \in InUse(k, A) : After(g, c) = After(k, c)
      /\ g.ret = JoinFirst(k, b) /\ g.ret \in C
      /\ Used(g, g.ret) = 0 /\ After(g, g.ret) = JoinEnd(k, b)
  BY <1>3, <1>5, <1>6, JoinedCoalesces
<1>10. JoinEnd(k, b) = e
  BY <1>3, <1>4 DEF JoinEnd
<1>11. JoinFirst(k, b) <= b /\ JoinFirst(k, b) \in Nat
  BY <1>3, <1>5, JoinBounds
<1> HIDE DEF g, C
<1>12. Keeps(k, g, S)
  <2>1. \A c \in S : c \in A \ {k.mem_brk}
    BY <1>7 DEF InUse
  <2> HIDE DEF S
  <2> QED
    BY <1>7, <1>9, <2>1 DEF Keeps
<1>13. Keeps(h, g, S)
  BY <1>8, <1>12, KeepsOn
<1> HIDE DEF S, b
<1>14. \E D :
         /\ Sound(g, D) /\ InUse(g, D) = S
         /\ g.mem_brk = e /\ g.free_listp = h.free_listp
         /\ Keeps(h, g, S)
         /\ g.ret \in D /\ Used(g, g.ret) = 0 /\ g.ret \in Nat
         /\ g.ret <= b /\ After(g, g.ret) = g.mem_brk
  BY <1>3, <1>7, <1>9, <1>10, <1>11, <1>13 DEF Sound
<1> QED
  BY <1>14 DEF g, k, S, b, e

(* Whatever is written between the tags of a block in use leaves the heap  *)
(* in order and the other blocks as they were.                             *)
LEMMA PayloadWritten ==
    ASSUME NEW h, NEW B, Sound(h, B), NEW b \in InUse(h, B),
           NEW g \in Heaps, g.mem_brk = h.mem_brk,
           \A a \in Int : a \notin b .. After(h, b) - 9 => GET(g, a) = GET(h, a)
    PROVE  /\ Sound(g, B) /\ InUse(g, B) = InUse(h, B)
           /\ Keeps(h, g, InUse(h, B) \ {b}) /\ After(g, b) = After(h, b)
<1>1. Tiling(h, B) /\ Coalesced(h, B)
  BY DEF Sound
<1>2. b \in B \ {h.mem_brk}
  BY DEF InUse
<1>3. /\ b \in Nat /\ After(h, b) \in Nat /\ b < After(h, b) /\ After(h, b) \in B
      /\ \A c \in B : b < c => After(h, b) <= c
  BY <1>1, <1>2, BlockFacts
<1>4. \A c \in B : c \in Nat /\ c % 8 = 0
  BY <1>1, BlockFacts
<1>5. heap_listp \in B /\ h.mem_brk \in B
  BY <1>1 DEF Tiling, Bounds
<1>6. \A c \in B : GET(g, c - 4) = GET(h, c - 4) /\ GET(g, c - 8) = GET(h, c - 8)
  <2> SUFFICES ASSUME NEW c \in B
               PROVE  /\ c - 4 \in Int /\ c - 4 \notin b .. After(h, b) - 9
                      /\ c - 8 \in Int /\ c - 8 \notin b .. After(h, b) - 9
    OBVIOUS
  <2>1. c <= b \/ After(h, b) <= c
    BY <1>3, <1>4
  <2> QED
    BY <1>3, <1>4, <2>1
<1>7. \A c \in B : Size(g, c) = Size(h, c) /\ Used(g, c) = Used(h, c) /\ After(g, c) = After(h, c)
  BY <1>6 DEF Size, Used, After
<1>8. \A c \in B \ {h.mem_brk} : After(h, c) \in B
  BY <1>1 DEF Tiling, Chain
<1>9. Tiling(g, B)
  <2>1. Bounds(g, B)
    BY <1>1, <1>5, <1>6 DEF Tiling, Bounds
  <2>2. Chain(g, B)
    BY <1>1, <1>7 DEF Tiling, Chain
  <2>3. BothTags(g, B)
    BY <1>1, <1>6, <1>7, <1>8 DEF Tiling, BothTags
  <2> QED
    BY <2>1, <2>2, <2>3 DEF Tiling
<1>10. Coalesced(g, B)
  BY <1>1, <1>7, <1>8 DEF Coalesced
<1>11. InUse(g, B) = InUse(h, B)
  BY <1>7 DEF InUse
<1>12. ASSUME NEW c \in InUse(h, B) \ {b}
       PROVE  Untouched(h, g, c)
  <2>1. c \in B \ {h.mem_brk}
    BY DEF InUse
  <2>2. /\ c \in Nat /\ After(h, c) \in Nat /\ c < After(h, c)
        /\ c < b => After(h, c) <= b
    BY <1>1, <1>2, <2>1, BlockFacts
  <2>3. ASSUME NEW a \in c .. After(h, c) - 9
        PROVE  a \in Int /\ a \notin b .. After(h, b) - 9
    <3>1. b < c => After(h, b) <= c
      BY <1>3, <2>1
    <3> QED
      BY <1>3, <2>2, <2>3, <3>1
  <2> QED
    BY <2>3 DEF Untouched
<1>13. Keeps(h, g, InUse(h, B) \ {b})
  <2>1. \A c \in InUse(h, B) : c \in B
    BY DEF InUse
  <2> QED
    BY <1>7, <1>12, <2>1 DEF Keeps
<1> QED
  BY <1>2, <1>7, <1>9, <1>10, <1>11, <1>13 DEF Sound

(* memcpy of whole words, word after word, to an area that the first one   *)
(* does not start before and overlap.                                      *)
LEMMA CopyCopies ==
    ASSUME NEW h \in Heaps, NEW dst \in Storage, NEW src \in Storage, NEW n \in Nat,
           n % 4 = 0, src + n <= dst \/ dst <= src
    PROVE  LET g == memcpy(h, dst, src, n, "up")
           IN  /\ g \in Heaps /\ g.mem_brk = h.mem_brk
               /\ g.free_listp = h.free_listp /\ g.ret = h.ret
               /\ \A a \in Int : a \notin dst .. dst + n - 1 => GET(g, a) = GET(h, a)
               /\ \A d \in 0 .. n - 1 :
                    dst + d \in Storage => GET(g, dst + d) = GET(h, src + d)
<1> DEFINE words == n \div WSIZE
           gap == (src - dst) \div WSIZE
           late(k) == /\ k + gap \in 0 .. words - 1
                      /\ \/ "up" = "down" /\ gap > 0
                         \/ "up" = "up" /\ gap < 0
           Val(v) == v = [k \in 0 .. words - 1 |->
                            IF late(k) THEN v[k + gap] ELSE GET(h, src + WSIZE * k)]
           val == CHOOSE v : Val(v)
           into == {dst + WSIZE * k : k \in 0 .. words - 1} \cap Storage
           mem == [a \in Storage |-> IF a \in into THEN val[(a - dst) \div WSIZE] ELSE h.mem[a]]
           g == [h EXCEPT !.mem = mem]
<1>1. /\ src \in Int /\ src % 4 = 0 /\ dst \in Int /\ dst % 4 = 0
  <2>1. \A a \in Storage : a \in Int
    BY AreaAssumption DEF Storage, WSIZE
  <2> QED
    BY <2>1, StorageIsTheArea
<1>2. words \in Nat /\ n = 4 * words
  BY DEF WSIZE
<1>3. gap \in Int /\ (gap < 0 => gap + words <= 0)
  BY <1>1 DEF WSIZE
<1> HIDE DEF words, gap
<1>4. \A k \in 0 .. words - 1 : ~late(k)
  BY <1>2, <1>3
<1> HIDE DEF late
<1>5. val = [k \in 0 .. words - 1 |-> GET(h, src + 4 * k)]
  <2>1. \E v : Val(v)
    <3>1. PICK v : v = [k \in 0 .. words - 1 |-> GET(h, src + WSIZE * k)]
      OBVIOUS
    <3>2. Val(v)
      BY <1>4, <3>1
    <3> QED
      BY <3>2
  <2>2. Val(val)
    <3> HIDE DEF Val
    <3> QED
      BY <2>1
  <2> HIDE DEF val
  <2> QED
    BY <1>4, <2>2 DEF WSIZE
<1> HIDE DEF val
<1>6. memcpy(h, dst, src, n, "up") = g
  BY Zenon DEF memcpy, words, gap, late, val
<1>7. \A a \in Int : a \in into <=> /\ a \in Storage /\ dst <= a /\ a < dst + n
  <2> SUFFICES ASSUME NEW a \in Int
               PROVE  a \in into <=> /\ a \in Storage /\ dst <= a /\ a < dst + n
    OBVIOUS
  <2>1. ASSUME a \in Storage, dst <= a, a < dst + n
        PROVE  a \in into
    <3>1. a % 4 = 0
      BY <2>1, StorageIsTheArea
    <3>2. (a - dst) \div 4 \in 0 .. words - 1 /\ a = dst + 4 * ((a - dst) \div 4)
      BY <1>1, <1>2, <2>1, <3>1
    <3> QED
      BY <2>1, <3>2 DEF WSIZE
  <2>2. ASSUME a \in into
        PROVE  a \in Storage /\ dst <= a /\ a < dst + n
    BY <1>1, <1>2, <2>2 DEF WSIZE
  <2> QED
    BY <2>1, <2>2
<1>8. \A a \in Storage : a \in Int /\ a % 4 = 0
  <2>1. \A a \in Storage : a \in Int
    BY AreaAssumption DEF Storage, WSIZE
  <2> QED
    BY <2>1, StorageIsTheArea
<1>9. ASSUME NEW a \in Storage, dst <= a, a < dst + n
      PROVE  mem[a] = GET(h, src + (a - dst))
  <2>1. a \in into /\ a \in Int /\ a % 4 = 0
    BY <1>7, <1>8, <1>9
  <2>2. /\ (a - dst) \div 4 \in 0 .. words - 1
        /\ src + 4 * ((a - dst) \div 4) = src + (a - dst)
    BY <1>1, <1>2, <1>9, <2>1
  <2>3. mem[a] = val[(a - dst) \div 4]
    BY <2>1 DEF WSIZE
  <2>4. val[(a - dst) \div 4] = GET(h, src + 4 * ((a - dst) \div 4))
    BY <1>5, <2>2
  <2> QED
    BY <2>2, <2>3, <2>4
<1>10. ASSUME NEW a \in Storage, ~(dst <= a /\ a < dst + n)
       PROVE  mem[a] = h.mem[a]
  <2>1. a \notin into
    BY <1>7, <1>8, <1>10
  <2> QED
    BY <2>1
<1>11. mem \in [Storage -> Words]
  <2>1. \A a \in Storage : mem[a] \in Words
    <3> TAKE a \in Storage
    <3>1. h.mem[a] \in Words
      BY DEF Heaps
    <3> QED
      BY <1>9, <1>10, <3>1, GetIsWord
  <2> QED
    BY <2>1
<1> HIDE DEF mem
<1>12. /\ g \in Heaps /\ g.mem_brk = h.mem_brk
       /\ g.free_listp = h.free_listp /\ g.ret = h.ret /\ g.mem = mem
  BY <1>11 DEF Heaps
<1> HIDE DEF g
<1>13. ASSUME NEW a \in Int, a \notin dst .. dst + n - 1
       PROVE  GET(g, a) = GET(h, a)
  <2>1. ~(dst <= a /\ a < dst + n)
    BY <1>1, <1>13
  <2> QED
    BY <1>10, <1>12, <2>1 DEF GET
<1>14. ASSUME NEW d \in 0 .. n - 1, dst + d \in Storage
       PROVE  GET(g, dst + d) = GET(h, src + d)
  <2>1. dst <= dst + d /\ dst + d < dst + n /\ (dst + d) - dst = d
    BY <1>1
  <2>2. GET(g, dst + d) = mem[dst + d]
    BY <1>12, <1>14 DEF GET
  <2>3. mem[dst + d] = GET(h, src + ((dst + d) - dst))
    BY <1>9, <1>14, <2>1
  <2> QED
    BY <2>1, <2>2, <2>3
<1> QED
  BY <1>6, <1>12, <1>13, <1>14

(* Addresses of the heap are of the area. *)
LEMMA BlocksAreInStorage ==
    ASSUME NEW h, NEW C, Tiling(h, C), NEW b \in C \ {h.mem_brk}
    PROVE  b \in Storage
<1>1. b \in Nat /\ b % 8 = 0 /\ heap_listp <= b /\ heap_listp = mem_start_brk + 8
  BY BlockFacts
<1>2. b < After(h, b) /\ After(h, b) <= h.mem_brk /\ After(h, b) \in Nat
      /\ h.mem_brk <= mem_max_addr /\ h.mem_brk \in Nat
  BY BlockFacts
<1>3. b \in Int /\ b % 4 = 0
  BY <1>1
<1>4. mem_start_brk <= b /\ b < mem_max_addr
  BY <1>1, <1>2, AreaAssumption DEF mem_max_addr
<1> QED
  BY <1>3, <1>4, StorageIsTheArea

-----------------------------------------------------------------------------
(* FirstFit has its own instance of Tags, over the same memory.            *)

(* Constants and functions of the memory. *)
LEMMA FirstFitMemory ==
    /\ FirstFit!Storage = Storage /\ FirstFit!mem_max_addr = mem_max_addr
    /\ FirstFit!Exited = Exited /\ FirstFit!NULL = NULL
    /\ FirstFit!Failed = Failed
    /\ FirstFit!WSIZE = 4 /\ FirstFit!DSIZE = 8 /\ FirstFit!OVERHEAD = 8
    /\ FirstFit!heap_listp = heap_listp /\ FirstFit!Steps = Steps
    /\ \A h, a : FirstFit!GET(h, a) = GET(h, a)
    /\ \A h, a, v : FirstFit!PUT(h, a, v) = PUT(h, a, v)
    /\ \A h, i : FirstFit!mem_sbrk(h, i) = mem_sbrk(h, i)
    /\ \A s, f : FirstFit!PACK(s, f) = PACK(s, f)
    /\ \A w : FirstFit!SizeOf(w) = SizeOf(w) /\ FirstFit!AllocOf(w) = AllocOf(w)
    /\ \A s : FirstFit!Adjusted(s) = Adjusted(s)
<1>1. /\ FirstFit!WSIZE = 4 /\ WSIZE = 4 /\ FirstFit!DSIZE = 8 /\ DSIZE = 8
      /\ FirstFit!OVERHEAD = 8 /\ OVERHEAD = 8
      /\ FirstFit!NULL = NULL /\ FirstFit!Failed = Failed /\ FirstFit!Exited = Exited
  BY DEF FirstFit!WSIZE, WSIZE, FirstFit!DSIZE, DSIZE, FirstFit!OVERHEAD, OVERHEAD,
         FirstFit!NULL, NULL, FirstFit!Failed, Failed, FirstFit!Exited, Exited
<1>2. FirstFit!Storage = Storage
  BY <1>1 DEF FirstFit!Storage, Storage
<1>3. /\ FirstFit!mem_max_addr = mem_max_addr /\ FirstFit!heap_listp = heap_listp
      /\ FirstFit!Steps = Steps
  BY <1>1 DEF FirstFit!mem_max_addr, mem_max_addr, FirstFit!heap_listp, heap_listp,
         FirstFit!Steps, Steps, FirstFit!MaxBlocks, MaxBlocks
<1>4. \A h, a : FirstFit!GET(h, a) = GET(h, a)
  BY <1>2, Zenon DEF FirstFit!GET, GET
<1>5. \A h, a, v : FirstFit!PUT(h, a, v) = PUT(h, a, v)
  BY <1>2, Zenon DEF FirstFit!PUT, PUT
<1>6. \A h, i : FirstFit!mem_sbrk(h, i) = mem_sbrk(h, i)
  BY <1>1, <1>3, Zenon DEF FirstFit!mem_sbrk, mem_sbrk
<1>7. \A s, f : FirstFit!PACK(s, f) = PACK(s, f)
  BY Zenon DEF FirstFit!PACK, PACK
<1>8. \A w : FirstFit!SizeOf(w) = SizeOf(w) /\ FirstFit!AllocOf(w) = AllocOf(w)
  BY Zenon DEF FirstFit!SizeOf, SizeOf, FirstFit!AllocOf, AllocOf
<1>9. \A s : FirstFit!Adjusted(s) = Adjusted(s)
  BY <1>1, Zenon DEF FirstFit!Adjusted, Adjusted
<1> QED
  BY <1>1, <1>2, <1>3, <1>4, <1>5, <1>6, <1>7, <1>8, <1>9

(* Functions of tags and blocks. *)
LEMMA FirstFitTags ==
    /\ \A h, a : /\ FirstFit!GET_SIZE(h, a) = GET_SIZE(h, a)
                 /\ FirstFit!GET_ALLOC(h, a) = GET_ALLOC(h, a)
    /\ \A b : FirstFit!HDRP(b) = HDRP(b)
    /\ \A h, b : /\ FirstFit!FTRP(h, b) = FTRP(h, b)
                 /\ FirstFit!NEXT_BLKP(h, b) = NEXT_BLKP(h, b)
                 /\ FirstFit!PREV_BLKP(h, b) = PREV_BLKP(h, b)
    /\ \A h, b, s, f : FirstFit!Tag(h, b, s, f) = Tag(h, b, s, f)
    /\ \A h : FirstFit!Walk(h) = Walk(h)
    /\ \A h, b : FirstFit!EmptyHeap(h, b) = EmptyHeap(h, b)
    /\ \A h, n : FirstFit!Grown(h, n) = Grown(h, n)
    /\ \A h, b : FirstFit!Joined(h, b) = Joined(h, b)
    /\ \A h, d, s, n, o : FirstFit!memcpy(h, d, s, n, o) = memcpy(h, d, s, n, o)
<1>1. \A h, a : /\ FirstFit!GET_SIZE(h, a) = GET_SIZE(h, a)
                /\ FirstFit!GET_ALLOC(h, a) = GET_ALLOC(h, a)
  BY FirstFitMemory, Zenon DEF FirstFit!GET_SIZE, GET_SIZE, FirstFit!GET_ALLOC, GET_ALLOC
<1>2. WSIZE = FirstFit!WSIZE /\ DSIZE = FirstFit!DSIZE /\ OVERHEAD = FirstFit!OVERHEAD
  BY FirstFitMemory DEF WSIZE, DSIZE, OVERHEAD
<1>3. \A b : FirstFit!HDRP(b) = HDRP(b)
  BY <1>2, Zenon DEF FirstFit!HDRP, HDRP
<1>4. \A h, b : /\ FirstFit!FTRP(h, b) = FTRP(h, b)
                /\ FirstFit!NEXT_BLKP(h, b) = NEXT_BLKP(h, b)
                /\ FirstFit!PREV_BLKP(h, b) = PREV_BLKP(h, b)
  BY <1>1, <1>2, <1>3, Zenon
     DEF FirstFit!FTRP, FTRP, FirstFit!NEXT_BLKP, NEXT_BLKP, FirstFit!PREV_BLKP, PREV_BLKP
<1>5. \A h, b, s, f : FirstFit!Tag(h, b, s, f) = Tag(h, b, s, f)
  BY <1>3, <1>4, FirstFitMemory, Zenon DEF FirstFit!Tag, Tag
<1>6. \A h : FirstFit!Walk(h) = Walk(h)
  BY <1>4, FirstFitMemory, Zenon DEF FirstFit!Walk, Walk
<1>7. \A h, b : FirstFit!EmptyHeap(h, b) = EmptyHeap(h, b)
  BY <1>2, FirstFitMemory, Zenon DEF FirstFit!EmptyHeap, EmptyHeap
<1>8. \A h, n : FirstFit!Grown(h, n) = Grown(h, n)
  BY <1>2, <1>3, <1>4, <1>5, FirstFitMemory DEF FirstFit!Grown, Grown
<1>9. \A h, b : FirstFit!Joined(h, b) = Joined(h, b)
  <2> TAKE h, b
  <2> QED
    BY <1>1, <1>3, <1>4, FirstFitMemory DEF FirstFit!Joined, Joined
<1>10. \A h, d, s, n, o : FirstFit!memcpy(h, d, s, n, o) = memcpy(h, d, s, n, o)
  <2> TAKE h, d, s, n, o
  <2> DEFINE gap == (s - d) \div 4
             words == n \div 4
             late(k) == /\ k + gap \in 0 .. words - 1
                        /\ \/ o = "down" /\ gap > 0
                           \/ o = "up" /\ gap < 0
             Ours(v) == v = [k \in 0 .. words - 1 |->
                                IF late(k) THEN v[k + gap] ELSE GET(h, s + 4 * k)]
             Theirs(v) == v = [k \in 0 .. words - 1 |->
                                IF late(k) THEN v[k + gap] ELSE FirstFit!GET(h, s + 4 * k)]
             Copy(area, val) == [h EXCEPT !.mem = [a \in area |->
                             IF a \in {d + 4 * k : k \in 0 .. words - 1} \cap area
                             THEN val[(a - d) \div 4] ELSE @[a]]]
  <2>1. memcpy(h, d, s, n, o) = Copy(Storage, CHOOSE v : Ours(v))
    BY Zenon DEF memcpy, WSIZE
  <2>2. FirstFit!memcpy(h, d, s, n, o) = Copy(FirstFit!Storage, CHOOSE v : Theirs(v))
    BY Zenon DEF FirstFit!memcpy, FirstFit!WSIZE
  <2>3. \A v : Ours(v) <=> Theirs(v)
    <3> TAKE v
    <3>1. \A k : GET(h, s + 4 * k) = FirstFit!GET(h, s + 4 * k)
      BY FirstFitMemory
    <3>2. [k \in 0 .. words - 1 |-> IF late(k) THEN v[k + gap] ELSE GET(h, s + 4 * k)]
            = [k \in 0 .. words - 1 |-> IF late(k) THEN v[k + gap] ELSE FirstFit!GET(h, s + 4 * k)]
      <4> HIDE DEF late, gap, words
      <4> QED
        BY <3>1, Zenon
    <3> QED
      BY <3>2
  <2>4. (CHOOSE v : Ours(v)) = (CHOOSE v : Theirs(v))
    <3> HIDE DEF Ours, Theirs
    <3> QED
      BY <2>3, Zenon
  <2> HIDE DEF Ours, Theirs, Copy
  <2> QED
    BY <2>1, <2>2, <2>4, FirstFitMemory
<1> QED
  BY <1>1, <1>3, <1>4, <1>5, <1>6, <1>7, <1>8, <1>9, <1>10

(* What both use of the library. *)
LEMMA FirstFitExtrema ==
    \A S : FirstFit!Min(S) = Min(S) /\ FirstFit!Max(S) = Max(S)
BY Zenon DEF FirstFit!Min, Min, FirstFit!Max, Max

-----------------------------------------------------------------------------
(* The functions of mm-firstfit.c, on a heap that is in order.             *)

(* find_fit finds the lowest free block that is large enough. *)
LEMMA FirstFitFinds ==
    ASSUME NEW h, NEW B, Sound(h, B), NEW n \in Nat
    PROVE  LET p == FirstFit!find_fit(h, n)
               fitting == {b \in B : Used(h, b) = 0 /\ n <= Size(h, b)}
           IN  /\ p # NULL => p \in fitting /\ \A b \in fitting : p <= b
               /\ p = NULL => fitting = {}
<1> DEFINE fitting == {b \in B : Used(h, b) = 0 /\ n <= Size(h, b)}
           fits == {m \in Steps : Walk(h)[m] \in fitting}
<1>1. Tiling(h, B)
  BY DEF Sound
<1>2. \A m \in Steps : Walk(h)[m] \in B
  BY <1>1, WalkIsTiles
<1>3. \A b \in B : GET_SIZE(h, HDRP(b)) = Size(h, b) /\ GET_ALLOC(h, HDRP(b)) = Used(h, b)
  BY <1>1, TagsTell
<1>4. fits = {m \in Steps : /\ GET_ALLOC(h, HDRP(Walk(h)[m])) = 0
                            /\ n <= GET_SIZE(h, HDRP(Walk(h)[m]))}
  BY <1>2, <1>3
<1>5. FirstFit!find_fit(h, n) = IF fits = {} THEN NULL ELSE Walk(h)[Min(fits)]
  BY <1>4, FirstFitMemory, FirstFitTags, FirstFitExtrema
     DEF FirstFit!find_fit, FirstFit!FirstOf
<1> HIDE DEF fitting, fits
<1>6. PICK p, F : /\ p = FirstFit!find_fit(h, n) /\ F = fits
                  /\ p = IF F = {} THEN NULL ELSE Walk(h)[Min(F)]
                  /\ F \in SUBSET Steps
                  /\ \A m \in Steps : m \in F <=> Walk(h)[m] \in fitting
  BY <1>5 DEF fits
<1>7. /\ p # NULL => p \in B \cap fitting /\ \A b \in B \cap fitting : p <= b
      /\ p = NULL => B \cap fitting = {}
  BY <1>1, <1>6, FirstOfFits
<1>8. B \cap fitting = fitting
  BY DEF fitting
<1> QED
  BY <1>6, <1>7, <1>8 DEF fitting

(* place splits the block or takes all of it. *)
LEMMA FirstFitPlaces ==
    ASSUME NEW h, NEW B, Sound(h, B), NEW b \in B, Used(h, b) = 0,
           NEW n \in Nat, n % 8 = 0, MINIMUM <= n, n <= Size(h, b)
    PROVE  FirstFit!place(h, b, n) = Placed(h, b, n)
<1>1. Tiling(h, B)
  BY DEF Sound
<1>2. /\ h \in Heaps /\ b # h.mem_brk /\ b \in Nat /\ b % 8 = 0 /\ mem_start_brk < b
      /\ Size(h, b) \in Nat /\ b + Size(h, b) <= mem_max_addr
      /\ mem_max_addr \in Nat
  <2>1. /\ b \in Nat /\ b % 8 = 0 /\ heap_listp <= b /\ heap_listp = mem_start_brk + 8
        /\ h \in Heaps /\ h.mem_brk \in Nat /\ h.mem_brk <= mem_max_addr
        /\ Used(h, h.mem_brk) = 1 /\ heap_listp \in Nat
    BY <1>1, BlockFacts
  <2>2. /\ Size(h, b) \in Nat /\ b + Size(h, b) \in Nat /\ b + Size(h, b) <= h.mem_brk
    BY <1>1, <2>1, BlockFacts DEF After
  <2>3. mem_max_addr \in Nat /\ mem_start_brk \in Nat
    BY AreaAssumption DEF mem_max_addr
  <2> QED
    BY <2>1, <2>2, <2>3
<1>3. HDRP(b) = b - 4 /\ GET_SIZE(h, HDRP(b)) = Size(h, b)
  BY <1>1, TagsTell
<1> DEFINE k == Tag(h, b, n, 1)
<1>4. NEXT_BLKP(k, b) = b + n
  <2>1. n > 0 /\ b + n <= mem_max_addr /\ b + n \in Nat
    BY <1>2 DEF MINIMUM
  <2>2. Tagged(h, k, b, n, 1)
    BY <1>2, <2>1, TagTags
  <2>3. GET(k, b - 4) = PACK(n, 1)
    BY <2>2 DEF Tagged
  <2>4. GET_SIZE(k, HDRP(b)) = n
    BY <1>3, <2>3, PackIsTag DEF GET_SIZE
  <2> QED
    BY <2>1, <2>4, InSpan DEF NEXT_BLKP
<1>5. FirstFit!DSIZE + FirstFit!OVERHEAD = MINIMUM
  BY FirstFitMemory DEF MINIMUM
<1> QED
  BY <1>3, <1>4, <1>5, FirstFitTags DEF FirstFit!place, Placed

(* extend_heap adds a number of bytes or leaves the heap alone. *)
LEMMA FirstFitExtends ==
    ASSUME NEW h, NEW B, Sound(h, B),
           NEW bytes \in Nat, bytes % 8 = 0, bytes >= 16,
           NEW g, g = FirstFit!extend_heap(h, bytes \div 4)
    PROVE  /\ h.mem_brk + bytes > mem_max_addr => g = [h EXCEPT !.ret = NULL]
           /\ h.mem_brk + bytes <= mem_max_addr =>
                \E C :
                   /\ Sound(g, C)
                   /\ InUse(g, C) = InUse(h, B)
                   /\ g.mem_brk = h.mem_brk + bytes /\ g.free_listp = h.free_listp
                   /\ Keeps(h, g, InUse(h, B))
                   /\ g.ret \in C /\ Used(g, g.ret) = 0 /\ g.ret \in Nat
                   /\ g.ret <= h.mem_brk /\ After(g, g.ret) = g.mem_brk
<1> DEFINE words == bytes \div 4
           k == Grown(h, words)
<1>1. words \in Nat /\ words >= 4 /\ Bytes(words) = bytes
  BY DEF Bytes, WSIZE
<1> HIDE DEF words
<1>2. /\ Tiling(h, B) /\ h \in Heaps /\ h.mem_brk \in B
      /\ h.mem_brk \in Nat /\ h.mem_brk # NULL
  <2>1. Tiling(h, B) /\ h \in Heaps /\ h.mem_brk \in B /\ heap_listp < h.mem_brk
    BY DEF Sound, Tiling, Bounds
  <2>2. h.mem_brk \in Nat /\ heap_listp \in Nat
    BY <2>1, BlockFacts
  <2> QED
    BY <2>1, <2>2 DEF NULL
<1>3. g = IF k.ret = NULL THEN k ELSE Joined(k, k.ret)
  BY FirstFitMemory, FirstFitTags DEF FirstFit!extend_heap, FirstFit!coalesce, words
<1>4. CASE h.mem_brk + bytes > mem_max_addr
  <2>1. k = [h EXCEPT !.ret = NULL]
    BY <1>1, <1>2, <1>4, NotGrown
  <2>2. k.ret = NULL
    BY <1>2, <2>1 DEF Heaps
  <2>3. ~(h.mem_brk + bytes <= mem_max_addr)
    BY <1>2, <1>4, AreaAssumption DEF mem_max_addr
  <2> QED
    BY <1>3, <2>1, <2>2, <2>3
<1>5. CASE h.mem_brk + bytes <= mem_max_addr
  <2>1. k.ret = h.mem_brk
    BY <1>1, <1>2, <1>5, GrownTiles
  <2>2. g = Joined(Grown(h, words), h.mem_brk)
    BY <1>2, <1>3, <2>1
  <2>3. ~(h.mem_brk + bytes > mem_max_addr)
    BY <1>2, <1>5, AreaAssumption DEF mem_max_addr
  <2>4. \E C :
          /\ Sound(g, C)
          /\ InUse(g, C) = InUse(h, B)
          /\ g.mem_brk = h.mem_brk + Bytes(words) /\ g.free_listp = h.free_listp
          /\ Keeps(h, g, InUse(h, B))
          /\ g.ret \in C /\ Used(g, g.ret) = 0 /\ g.ret \in Nat
          /\ g.ret <= h.mem_brk /\ After(g, g.ret) = g.mem_brk
    BY <1>1, <1>5, <2>2, ExtendedTiles
  <2> QED
    BY <1>1, <2>3, <2>4
<1> QED
  BY <1>2, <1>4, <1>5, AreaAssumption DEF mem_max_addr

(* Where the n bytes end that are taken of the free bytes from b to e. *)
TakenTo(b, e, n) == IF e - b - n >= MINIMUM THEN b + n ELSE e

(* The blocks in use of g are S, as they were in h, and one of n bytes. *)
Serves(h, S, g, n) ==
    \E C :
        /\ Sound(g, C)
        /\ InUse(g, C) = S \cup {g.ret} /\ g.ret \notin S
        /\ Keeps(h, g, S)
        /\ g.ret \in Nat /\ After(g, g.ret) \in Nat /\ g.ret + n <= After(g, g.ret)

(* A free block is placed and returned. *)
LEMMA FirstFitServes ==
    ASSUME NEW h, NEW B, Sound(h, B), NEW b, NEW n, RoomFor(h, B, b, n),
           NEW g, Returning(FirstFit!place(h, b, n), g, b)
    PROVE  /\ Serves(h, InUse(h, B), g, n) /\ g.ret = b /\ g.mem_brk = h.mem_brk
           /\ After(g, b) = TakenTo(b, After(h, b), n) /\ g.free_listp = h.free_listp
<1>0. /\ b \in B /\ Used(h, b) = 0
      /\ n \in Nat /\ n % 8 = 0 /\ MINIMUM <= n /\ n <= Size(h, b)
  BY DEF RoomFor
<1> DEFINE k == Placed(h, b, n)
<1>1. PICK C :
        /\ Sound(k, C)
        /\ InUse(k, C) = InUse(h, B) \cup {b} /\ b \notin InUse(h, B)
        /\ k.mem_brk = h.mem_brk /\ k.free_listp = h.free_listp /\ k.ret = h.ret
        /\ Keeps(h, k, InUse(h, B))
        /\ After(k, b) = IF Size(h, b) - n >= MINIMUM THEN b + n ELSE After(h, b)
  BY <1>0, PlacedTiles
<1>2. k = FirstFit!place(h, b, n)
  BY <1>0, FirstFitPlaces
<1> HIDE DEF k
<1>3. k \in Heaps /\ Tiling(k, C) /\ Tiling(h, B)
  BY <1>1 DEF Sound, Tiling, Bounds
<1>4. b \in Nat /\ Size(h, b) \in Nat /\ After(h, b) = b + Size(h, b) /\ b # h.mem_brk
  <2>1. Used(h, h.mem_brk) = 1
    BY <1>0, <1>3, BlockFacts
  <2> QED
    BY <1>0, <1>3, <2>1, BlockFacts DEF After
<1>5. /\ g \in Heaps /\ g.ret = b /\ g.mem_brk = k.mem_brk /\ g.free_listp = k.free_listp
      /\ After(g, b) = After(k, b)
      /\ Tiling(g, C) /\ (Coalesced(k, C) => Coalesced(g, C))
      /\ InUse(g, C) = InUse(k, C)
      /\ Keeps(h, g, InUse(h, B))
  <2>1. Returning(k, g, b) /\ b \in Int
    BY <1>2, <1>4
  <2> QED
    BY <1>1, <1>3, <2>1, Returns
<1>6. Sound(g, C)
  BY <1>1, <1>5 DEF Sound
<1>7. /\ After(g, b) = TakenTo(b, After(h, b), n) /\ After(g, b) \in Nat
      /\ b + n <= After(g, b)
  <2>1. After(h, b) - b - n = Size(h, b) - n
    BY <1>4
  <2> QED
    BY <1>0, <1>1, <1>4, <1>5, <2>1 DEF TakenTo, MINIMUM
<1> QED
  BY <1>1, <1>4, <1>5, <1>6, <1>7 DEF Serves

(* What comes before a free block is in use. *)
LEMMA InUseBefore ==
    ASSUME NEW h, NEW B, Sound(h, B), NEW b \in B, Used(h, b) = 0
    PROVE  \E c \in InUse(h, B) : After(h, c) = b
<1>1. Tiling(h, B) /\ Coalesced(h, B)
  BY DEF Sound
<1>2. b # heap_listp
  BY <1>1, BlockFacts
<1>3. PICK c \in B \ {h.mem_brk} : After(h, c) = b
  BY <1>1, <1>2 DEF Tiling, Chain
<1>4. Used(h, c) = 1
  <2>1. Used(h, c) \in {0, 1}
    BY <1>1, <1>3, BlockFacts
  <2> QED
    BY <1>1, <1>3, <2>1 DEF Coalesced
<1> QED
  BY <1>3, <1>4 DEF InUse

(* By how much the heap grows for n bytes. *)
GrowsBy(n) == IF n > CHUNKSIZE THEN n ELSE CHUNKSIZE

(* The free blocks with room for n bytes. *)
Fitting(h, B, n) == {b \in B : Used(h, b) = 0 /\ n <= Size(h, b)}

(* The block g.ret is the low end of one that fits. *)
InGap(h, B, g, n) ==
    /\ g.ret \in Fitting(h, B, n)
    /\ g.mem_brk = h.mem_brk
    /\ After(g, g.ret) = TakenTo(g.ret, After(h, g.ret), n)

(* None fits, and the block starts where the last one in use ends. *)
AtEnd(h, B, g, n) ==
    /\ Fitting(h, B, n) = {}
    /\ g.mem_brk = h.mem_brk + GrowsBy(n) /\ g.mem_brk <= mem_max_addr
    /\ \E c \in InUse(h, B) : After(h, c) = g.ret
    /\ \A c \in InUse(h, B) : After(h, c) <= g.ret
    /\ After(g, g.ret) = TakenTo(g.ret, g.mem_brk, n)

(* The heap cannot grow for n bytes. *)
Exhausted(h, n) == h.mem_brk + GrowsBy(n) > mem_max_addr

(* None fits, and the heap cannot grow. *)
Full(h, B, n) == Fitting(h, B, n) = {} /\ Exhausted(h, n)

(* The block g.ret was a free one, or it is where the heap grew. *)
Placement(h, B, g, n) == InGap(h, B, g, n) \/ AtEnd(h, B, g, n)

(* Of the free ones it was the lowest, and the list head was not used. *)
PlacedFirst(h, B, g, n) ==
    /\ Placement(h, B, g, n)
    /\ \A b \in Fitting(h, B, n) : g.ret <= b
    /\ g.free_listp = h.free_listp

(* mm_malloc takes the lowest free block that is large enough; if there    *)
(* is none, the end of the heap, which grows; and only if it cannot grow,  *)
(* the answer is NULL.                                                     *)
LEMMA FirstFitAllocates ==
    ASSUME NEW h, NEW B, Sound(h, B), NEW size \in Nat \ {0},
           NEW n, n = Adjusted(size), NEW g, g = FirstFit!mm_malloc(h, size)
    PROVE  \/ Serves(h, InUse(h, B), g, n) /\ PlacedFirst(h, B, g, n)
           \/ Full(h, B, n) /\ Returning(h, g, NULL)
<1> DEFINE bp == FirstFit!find_fit(h, n)
           fitting == Fitting(h, B, n)
           bytes == GrowsBy(n)
           k == FirstFit!extend_heap(h, bytes \div 4)
<1>1. n \in Nat /\ n % 8 = 0 /\ MINIMUM <= n
  BY AdjustedIsEnough DEF DSIZE
<1>2. /\ bytes \in Nat /\ bytes % 8 = 0 /\ bytes >= 16 /\ n <= bytes
      /\ Max({n, CHUNKSIZE}) = bytes
  <2>1. bytes \in Nat /\ bytes % 8 = 0 /\ bytes >= 16 /\ n <= bytes /\ CHUNKSIZE <= bytes
    BY <1>1, ChunkAssumption DEF GrowsBy, MINIMUM
  <2>2. bytes \in {n, CHUNKSIZE} /\ n \in Nat /\ CHUNKSIZE \in Nat
    BY <1>1, ChunkAssumption DEF GrowsBy
  <2> HIDE DEF bytes
  <2>3. \A x \in {n, CHUNKSIZE} : (\A y \in {n, CHUNKSIZE} : x >= y) <=> x = bytes
    BY <2>1, <2>2
  <2>4. Max({n, CHUNKSIZE}) = bytes
    BY <2>2, <2>3 DEF Max
  <2> QED
    BY <2>1, <2>4
<1>3. g = IF bp # NULL THEN [FirstFit!place(h, bp, n) EXCEPT !.ret = bp]
          ELSE IF k.ret = NULL THEN k
          ELSE [FirstFit!place(k, k.ret, n) EXCEPT !.ret = k.ret]
  <2>1. FirstFit!Adjusted(size) = n /\ FirstFit!Max({n, CHUNKSIZE}) \div FirstFit!WSIZE = bytes \div 4
        /\ FirstFit!NULL = NULL
    BY <1>2, FirstFitMemory, FirstFitExtrema
  <2>2. ~(size <= 0)
    OBVIOUS
  <2> HIDE DEF bytes
  <2> QED
    BY <2>1, <2>2, Zenon DEF FirstFit!mm_malloc
<1>4. /\ bp # NULL => bp \in fitting /\ \A b \in fitting : bp <= b
      /\ bp = NULL => fitting = {}
  BY <1>1, FirstFitFinds DEF Fitting
<1> HIDE DEF bp, bytes
<1>5. CASE bp # NULL
  <2>1. bp \in B /\ Used(h, bp) = 0 /\ n <= Size(h, bp)
    BY <1>4, <1>5 DEF Fitting
  <2>2. Returning(FirstFit!place(h, bp, n), g, bp) /\ RoomFor(h, B, bp, n)
    BY <1>1, <1>3, <1>5, <2>1 DEF Returning, RoomFor
  <2>3. /\ Serves(h, InUse(h, B), g, n) /\ g.ret = bp /\ g.mem_brk = h.mem_brk
        /\ After(g, bp) = TakenTo(bp, After(h, bp), n) /\ g.free_listp = h.free_listp
    BY <2>2, FirstFitServes
  <2> QED
    BY <1>4, <1>5, <2>3 DEF InGap, Placement, PlacedFirst
<1>6. CASE bp = NULL /\ h.mem_brk + bytes > mem_max_addr
  <2>1. k = [h EXCEPT !.ret = NULL] /\ h \in Heaps
    BY <1>2, <1>6, FirstFitExtends DEF Sound, Tiling, Bounds
  <2>2. k.ret = NULL
    BY <2>1 DEF Heaps
  <2> QED
    BY <1>3, <1>4, <1>6, <2>1, <2>2 DEF bytes, Full, Exhausted, Returning
<1>7. CASE bp = NULL /\ h.mem_brk + bytes <= mem_max_addr
  <2>1. PICK C :
          /\ Sound(k, C)
          /\ InUse(k, C) = InUse(h, B)
          /\ k.mem_brk = h.mem_brk + bytes /\ k.free_listp = h.free_listp
          /\ Keeps(h, k, InUse(h, B))
          /\ k.ret \in C /\ Used(k, k.ret) = 0 /\ k.ret \in Nat
          /\ k.ret <= h.mem_brk /\ After(k, k.ret) = k.mem_brk
    BY <1>2, <1>7, FirstFitExtends
  <2> HIDE DEF k
  <2>2. Tiling(k, C) /\ Tiling(h, B) /\ h.mem_brk \in Nat /\ k.mem_brk \in Nat
    <3>1. Tiling(k, C) /\ Tiling(h, B)
      BY <2>1 DEF Sound
    <3> QED
      BY <3>1, <2>1, BlockFacts DEF Tiling, Bounds
  <2>3. k.ret # NULL
    <3>1. heap_listp <= k.ret /\ heap_listp = mem_start_brk + 8
      BY <2>1, <2>2, BlockFacts
    <3> QED
      BY <2>1, <3>1, AreaAssumption DEF NULL
  <2>4. n <= Size(k, k.ret)
    <3>1. k.ret # k.mem_brk
      BY <2>1, <2>2, BlockFacts
    <3>2. Size(k, k.ret) \in Nat /\ k.ret + Size(k, k.ret) = h.mem_brk + bytes
      BY <2>1, <2>2, <3>1, BlockFacts DEF After
    <3> QED
      BY <1>1, <1>2, <2>1, <2>2, <3>2
  <2>5. Returning(FirstFit!place(k, k.ret, n), g, k.ret) /\ RoomFor(k, C, k.ret, n)
    BY <1>1, <1>3, <1>7, <2>1, <2>3, <2>4 DEF Returning, RoomFor
  <2>6. /\ Serves(k, InUse(k, C), g, n) /\ g.ret = k.ret /\ g.mem_brk = k.mem_brk
        /\ After(g, k.ret) = TakenTo(k.ret, k.mem_brk, n) /\ g.free_listp = k.free_listp
    BY <2>1, <2>5, FirstFitServes
  <2>7. Serves(h, InUse(h, B), g, n)
    <3>1. PICK D :
            /\ Sound(g, D)
            /\ InUse(g, D) = InUse(k, C) \cup {g.ret} /\ g.ret \notin InUse(k, C)
            /\ Keeps(k, g, InUse(k, C))
            /\ g.ret \in Nat /\ After(g, g.ret) \in Nat /\ g.ret + n <= After(g, g.ret)
      BY <2>6 DEF Serves
    <3>2. Keeps(h, g, InUse(h, B))
      BY <2>1, <3>1, KeepsOn
    <3> QED
      BY <2>1, <3>1, <3>2 DEF Serves
  <2>8. \E c \in InUse(h, B) : After(h, c) = k.ret
    <3>1. PICK c \in InUse(k, C) : After(k, c) = k.ret
      BY <2>1, InUseBefore
    <3> QED
      BY <2>1, <3>1 DEF Keeps
  <2>9. \A c \in InUse(h, B) : After(h, c) <= k.ret
    <3> SUFFICES ASSUME NEW c \in InUse(h, B)
                 PROVE  After(h, c) <= k.ret
      OBVIOUS
    <3>1. c \in C \ {k.mem_brk} /\ Used(k, c) = 1 /\ After(k, c) = After(h, c)
      BY <2>1 DEF InUse, Keeps
    <3>2. k.ret \in C \ {k.mem_brk} /\ c # k.ret
      BY <2>1, <2>2, <3>1, BlockFacts
    <3>3. /\ c \in Nat /\ c <= k.mem_brk
          /\ c < k.ret => After(k, c) <= k.ret
          /\ k.ret < c => After(k, k.ret) <= c
      BY <2>1, <2>2, <3>1, <3>2, BlockFacts
    <3> QED
      BY <2>1, <2>2, <3>1, <3>2, <3>3
  <2> QED
    BY <1>4, <1>7, <2>1, <2>6, <2>7, <2>8, <2>9 DEF bytes, AtEnd, Placement, PlacedFirst
<1>8. h.mem_brk \in Nat /\ mem_max_addr \in Nat /\ bytes \in Nat
  <2>1. h.mem_brk \in Nat
    BY BlockFacts DEF Sound, Tiling, Bounds
  <2> QED
    BY <1>2, <2>1, AreaAssumption DEF mem_max_addr
<1> QED
  BY <1>5, <1>6, <1>7, <1>8

(* mm_free gives a block back, and leaves the others alone. *)
LEMMA FirstFitFrees ==
    ASSUME NEW h, NEW B, Sound(h, B), NEW b \in InUse(h, B) \ {heap_listp},
           NEW g, g = FirstFit!mm_free(h, b)
    PROVE  \E C :
             /\ Sound(g, C)
             /\ InUse(g, C) = InUse(h, B) \ {b}
             /\ g.mem_brk = h.mem_brk /\ g.free_listp = h.free_listp
             /\ Keeps(h, g, InUse(h, B) \ {b})
<1>1. Tiling(h, B) /\ b \in B
  BY DEF Sound, InUse
<1>2. GET_SIZE(h, HDRP(b)) = Size(h, b)
  BY <1>1, TagsTell
<1>3. g = Joined(Tag(h, b, Size(h, b), 0), b)
  BY <1>2, FirstFitTags DEF FirstFit!mm_free, FirstFit!coalesce
<1> QED
  BY <1>3, FreedTiles

(* mm_init makes a heap of one free block in the empty area. *)
LEMMA FirstFitStarts ==
    ASSUME 16 + CHUNKSIZE <= MAX_HEAP,
           NEW h \in Heaps, NEW g, g = FirstFit!mm_init(mem_reset_brk(h))
    PROVE  \E C :
             /\ Sound(g, C)
             /\ InUse(g, C) = {heap_listp}
             /\ g.mem_brk = mem_start_brk + 16 + CHUNKSIZE
             /\ g.free_listp = h.free_listp /\ g.ret = 0
<1> DEFINE k0 == mem_sbrk(mem_reset_brk(h), 16)
           k1 == EmptyHeap(k0, mem_start_brk)
           k2 == FirstFit!extend_heap(k1, CHUNKSIZE \div 4)
           B == {heap_listp, heap_listp + 8}
<1>1. /\ CHUNKSIZE \in Nat /\ CHUNKSIZE % 8 = 0 /\ CHUNKSIZE >= 16
      /\ mem_start_brk \in Nat \ {0} /\ MAX_HEAP \in Nat
      /\ mem_max_addr = mem_start_brk + MAX_HEAP
  BY ChunkAssumption, AreaAssumption DEF mem_max_addr
<1>2. PICK r : r = mem_reset_brk(h)
  OBVIOUS
<1>3. /\ k0 \in Heaps /\ k0.mem_brk = mem_start_brk + 16 /\ k0.ret = mem_start_brk
      /\ k0.free_listp = h.free_listp
  <2>1. r \in Heaps /\ r.mem_brk = mem_start_brk /\ r.free_listp = h.free_listp
    BY <1>1, <1>2 DEF mem_reset_brk, Heaps
  <2>2. ~(16 < 0 \/ r.mem_brk + 16 > mem_max_addr)
    BY <1>1, <2>1
  <2>3. PICK e : e = mem_start_brk + 16 /\ e \in Nat
    BY <1>1
  <2>4. k0 = [r EXCEPT !.mem_brk = e, !.ret = mem_start_brk]
    BY <1>2, <2>1, <2>2, <2>3 DEF mem_sbrk
  <2> HIDE DEF k0
  <2>5. mem_start_brk \in Int
    BY <1>1
  <2>6. k0 \in Heaps /\ k0.mem_brk = e /\ k0.ret = mem_start_brk /\ k0.free_listp = r.free_listp
    BY <2>1, <2>3, <2>4, <2>5 DEF Heaps
  <2> QED
    BY <2>1, <2>3, <2>6
<1> HIDE DEF k0
<1>4. /\ Sound(k1, B) /\ InUse(k1, B) = {heap_listp}
      /\ k1.mem_brk = k0.mem_brk /\ k1.free_listp = k0.free_listp
  <2>1. 16 <= MAX_HEAP
    BY <1>1
  <2> QED
    BY <1>3, <2>1, EmptyHeapTiles
<1> HIDE DEF k1, B
<1>5. k1.mem_brk + CHUNKSIZE <= mem_max_addr
  BY <1>1, <1>3, <1>4
<1>6. PICK C :
        /\ Sound(k2, C)
        /\ InUse(k2, C) = InUse(k1, B)
        /\ k2.mem_brk = k1.mem_brk + CHUNKSIZE /\ k2.free_listp = k1.free_listp
        /\ k2.ret \in C
  BY <1>1, <1>4, <1>5, FirstFitExtends
<1>7. FirstFit!mm_init(mem_reset_brk(h))
        = [k2 EXCEPT !.ret = IF k2.ret = NULL THEN -1 ELSE 0]
  <2>1. FirstFit!mem_sbrk(mem_reset_brk(h), 4 * FirstFit!WSIZE) = k0
    BY FirstFitMemory DEF k0
  <2>2. FirstFit!EmptyHeap(k0, k0.ret) = k1
    BY <1>3, FirstFitTags DEF k1
  <2>3. CHUNKSIZE \div FirstFit!WSIZE = CHUNKSIZE \div 4 /\ FirstFit!NULL = NULL
    BY FirstFitMemory
  <2> QED
    BY <2>1, <2>2, <2>3, Zenon DEF FirstFit!mm_init
<1> HIDE DEF k2
<1>8. k2.ret # NULL /\ k2 \in Heaps
  <2>1. Tiling(k2, C)
    BY <1>6 DEF Sound
  <2>2. heap_listp <= k2.ret /\ heap_listp = mem_start_brk + 8 /\ k2 \in Heaps
    BY <1>6, <2>1, BlockFacts
  <2> QED
    BY <1>1, <2>2 DEF NULL, Heaps
<1>9. Returning(k2, g, 0)
  BY <1>7, <1>8 DEF Returning
<1>10. /\ g.ret = 0 /\ g.mem_brk = k2.mem_brk /\ g.free_listp = k2.free_listp
       /\ Sound(g, C) /\ InUse(g, C) = InUse(k2, C)
  BY <1>6, <1>8, <1>9, Returns DEF Sound
<1> QED
  BY <1>1, <1>3, <1>4, <1>6, <1>10

(* The words of the block ptr of h are those of the block g.ret, as far as *)
(* size bytes of it go.                                                    *)
Carried(h, g, ptr, size) ==
    \A d \in 0 .. size - 1 :
        ptr + d <= After(h, ptr) - 9 /\ g.ret + d \in Storage =>
            GET(g, g.ret + d) = GET(h, ptr + d)

(* mm_realloc moves a block as mm_malloc would place a new one, with what  *)
(* was in it; or the process ends.                                         *)
LEMMA FirstFitMoves ==
    ASSUME NEW h, NEW B, Sound(h, B), NEW ptr \in InUse(h, B) \ {heap_listp},
           NEW size \in Nat \ {0}, size % 4 = 0, NEW n, n = Adjusted(size),
           NEW g, g = FirstFit!mm_realloc(h, ptr, size)
    PROVE  \/ /\ Serves(h, InUse(h, B) \ {ptr}, g, n) /\ Carried(h, g, ptr, size)
              /\ g.ret \notin InUse(h, B) /\ PlacedFirst(h, B, g, n)
           \/ Full(h, B, n) /\ Returning(h, g, Exited)
<1> DEFINE k == FirstFit!mm_malloc(h, size)
           amount == Min({size, GET_SIZE(k, HDRP(ptr))})
           c == memcpy(k, k.ret, ptr, amount, "up")
           f == FirstFit!mm_free(c, ptr)
           S == InUse(h, B)
<1>1. g = IF k.ret = NULL THEN [k EXCEPT !.ret = Exited] ELSE [f EXCEPT !.ret = k.ret]
  <2>1. FirstFit!NULL = NULL /\ FirstFit!Exited = Exited
    BY FirstFitMemory
  <2>2. FirstFit!memcpy(k, k.ret, ptr, FirstFit!Min({size, FirstFit!GET_SIZE(k, FirstFit!HDRP(ptr))}), "up") = c
    BY FirstFitTags, FirstFitExtrema
  <2> QED
    BY <2>1, <2>2, Zenon DEF FirstFit!mm_realloc
<1>2. Tiling(h, B) /\ h \in Heaps /\ ptr \in B \ {h.mem_brk} /\ Used(h, ptr) = 1
  BY DEF Sound, InUse, Tiling, Bounds
<1> HIDE DEF f
<1>3. CASE Full(h, B, n) /\ Returning(h, k, NULL)
  <2>1. k.ret = NULL /\ [k EXCEPT !.ret = Exited] = [h EXCEPT !.ret = Exited]
    BY <1>2, <1>3 DEF Returning, Heaps
  <2> QED
    BY <1>1, <1>3, <2>1 DEF Returning
<1>4. CASE Serves(h, S, k, n) /\ PlacedFirst(h, B, k, n)
  <2>0. PICK new : new = k.ret
    OBVIOUS
  <2>1. PICK C :
          /\ Sound(k, C)
          /\ InUse(k, C) = S \cup {new} /\ new \notin S
          /\ Keeps(h, k, S)
          /\ new \in Nat /\ After(k, new) \in Nat /\ new + n <= After(k, new)
          /\ k.free_listp = h.free_listp
    BY <1>4, <2>0 DEF Serves, PlacedFirst
  <2> HIDE DEF k
  <2>2. Tiling(k, C) /\ k \in Heaps /\ ptr \in C \ {k.mem_brk} /\ new \in C \ {k.mem_brk}
        /\ ptr \in InUse(k, C) /\ new \in InUse(k, C) /\ new # ptr
    BY <1>2, <2>0, <2>1 DEF Sound, Tiling, Bounds, InUse
  <2>3. /\ ptr \in Nat /\ ptr % 8 = 0 /\ new \in Nat /\ new % 8 = 0
        /\ heap_listp <= ptr /\ heap_listp <= new
        /\ heap_listp = mem_start_brk + 8 /\ heap_listp \in Nat
        /\ After(k, ptr) = ptr + Size(k, ptr) /\ Size(k, ptr) \in Nat /\ Size(k, ptr) % 8 = 0
        /\ After(k, new) \in Nat
        /\ After(k, ptr) <= k.mem_brk /\ After(k, new) <= k.mem_brk
        /\ k.mem_brk <= mem_max_addr /\ k.mem_brk \in Nat
        /\ ptr < new => After(k, ptr) <= new
        /\ new < ptr => After(k, new) <= ptr
        /\ new < After(k, new) /\ ptr < After(k, ptr)
    <3>1. /\ ptr \in Nat /\ ptr % 8 = 0 /\ heap_listp <= ptr
          /\ heap_listp = mem_start_brk + 8 /\ heap_listp \in Nat
          /\ Size(k, ptr) \in Nat /\ Size(k, ptr) % 8 = 0
          /\ After(k, ptr) <= k.mem_brk /\ ptr < After(k, ptr)
          /\ k.mem_brk <= mem_max_addr /\ k.mem_brk \in Nat
          /\ ptr < new => After(k, ptr) <= new
      BY <2>2, BlockFacts
    <3>2. /\ new \in Nat /\ new % 8 = 0 /\ heap_listp <= new
          /\ After(k, new) \in Nat /\ new < After(k, new)
          /\ After(k, new) <= k.mem_brk
          /\ new < ptr => After(k, new) <= ptr
      BY <2>2, BlockFacts
    <3> QED
      BY <3>1, <3>2 DEF After
  <2>4. GET_SIZE(k, HDRP(ptr)) = Size(k, ptr) /\ After(k, ptr) = After(h, ptr)
    BY <2>1, <2>2, TagsTell DEF Keeps
  <2>5. amount = IF size <= Size(k, ptr) THEN size ELSE Size(k, ptr)
    <3> DEFINE m == IF size <= Size(k, ptr) THEN size ELSE Size(k, ptr)
    <3>1. \A x \in {size, Size(k, ptr)} : (\A y \in {size, Size(k, ptr)} : x <= y) <=> x = m
      BY <2>3
    <3>2. m \in {size, Size(k, ptr)}
      OBVIOUS
    <3> HIDE DEF m
    <3>3. Min({size, Size(k, ptr)}) = m
      BY <3>1, <3>2 DEF Min
    <3> QED
      BY <2>4, <3>3 DEF m
  <2> HIDE DEF amount
  <2>6. /\ amount \in Nat /\ amount % 4 = 0 /\ amount <= size /\ amount <= Size(k, ptr)
        /\ size <= amount \/ amount = Size(k, ptr)
    <3>1. size % 4 = 0 /\ Size(k, ptr) % 4 = 0
      BY <2>3
    <3> QED
      BY <2>3, <2>5, <3>1
  <2>7. n \in Nat /\ size + 8 <= n
    BY AdjustedIsEnough DEF OVERHEAD
  <2>8. new \in Storage /\ ptr \in Storage
    <3>1. new % 4 = 0 /\ ptr % 4 = 0
      BY <2>3
    <3>2. new < mem_max_addr /\ ptr < mem_max_addr /\ mem_start_brk <= new /\ mem_start_brk <= ptr
      BY <2>3, AreaAssumption DEF mem_max_addr
    <3> QED
      BY <2>3, <3>1, <3>2, StorageIsTheArea
  <2>9. ptr + amount <= new \/ new + amount <= ptr
    BY <2>1, <2>2, <2>3, <2>6, <2>7
  <2>10. /\ c \in Heaps /\ c.mem_brk = k.mem_brk
         /\ c.free_listp = k.free_listp /\ c.ret = k.ret
         /\ \A a \in Int : a \notin new .. new + amount - 1 => GET(c, a) = GET(k, a)
         /\ \A d \in 0 .. amount - 1 : new + d \in Storage => GET(c, new + d) = GET(k, ptr + d)
    <3>1. ptr + amount <= new \/ new <= ptr
      BY <2>3, <2>6, <2>9
    <3> QED
      BY <2>0, <2>2, <2>6, <2>8, <3>1, CopyCopies DEF c
  <2> HIDE DEF c
  <2>11. \A a \in Int : a \notin new .. After(k, new) - 9 => GET(c, a) = GET(k, a)
    <3>1. new + amount - 1 <= After(k, new) - 9
      BY <2>1, <2>3, <2>6, <2>7
    <3> QED
      BY <2>3, <2>6, <2>10, <3>1
  <2>12. /\ Sound(c, C) /\ InUse(c, C) = InUse(k, C)
         /\ Keeps(k, c, InUse(k, C) \ {new}) /\ After(c, new) = After(k, new)
    <3>1. PICK u : u = c
      OBVIOUS
    <3>2. /\ u \in Heaps /\ u.mem_brk = k.mem_brk /\ Sound(k, C) /\ new \in InUse(k, C)
          /\ \A a \in Int : a \notin new .. After(k, new) - 9 => GET(u, a) = GET(k, a)
      BY <2>1, <2>2, <2>10, <2>11, <3>1
    <3>3. /\ Sound(u, C) /\ InUse(u, C) = InUse(k, C)
          /\ Keeps(k, u, InUse(k, C) \ {new}) /\ After(u, new) = After(k, new)
      BY <3>2, PayloadWritten
    <3> QED
      BY <3>1, <3>3
  <2>13. PICK D :
           /\ Sound(f, D)
           /\ InUse(f, D) = InUse(c, C) \ {ptr}
           /\ f.mem_brk = c.mem_brk /\ f.free_listp = c.free_listp
           /\ Keeps(c, f, InUse(c, C) \ {ptr})
    BY <2>2, <2>12, FirstFitFrees DEF f
  <2>14. f \in Heaps
    BY <2>13 DEF Sound, Tiling, Bounds
  <2>15. Returning(f, g, new)
    <3>1. new # NULL
      BY <2>3, AreaAssumption DEF NULL
    <3> QED
      BY <1>1, <2>0, <3>1 DEF Returning
  <2>16. /\ g \in Heaps /\ g.ret = new /\ g.mem_brk = f.mem_brk
         /\ g.free_listp = f.free_listp
         /\ \A a : GET(g, a) = GET(f, a)
         /\ After(g, new) = After(f, new)
         /\ Sound(g, D) /\ InUse(g, D) = InUse(f, D)
         /\ \A q, T : Keeps(q, f, T) => Keeps(q, g, T)
    <3>1. new \in Int
      BY <2>3
    <3> QED
      BY <2>13, <2>14, <2>15, <3>1, Returns DEF Sound
  <2>17. InUse(g, D) = (S \ {ptr}) \cup {new} /\ new \notin S
    BY <2>1, <2>2, <2>12, <2>13, <2>16
  <2>18. Keeps(h, g, S \ {ptr})
    <3> DEFINE T == S \ {ptr}
    <3>1. Keeps(h, k, T)
      BY <2>1 DEF Keeps
    <3>2. Keeps(k, c, T)
      BY <2>1, <2>12 DEF Keeps
    <3>3. Keeps(c, f, T)
      BY <2>1, <2>12, <2>13 DEF Keeps
    <3> HIDE DEF T
    <3>4. Keeps(h, c, T)
      BY <3>1, <3>2, KeepsOn
    <3>5. Keeps(h, f, T)
      BY <3>3, <3>4, KeepsOn
    <3> QED
      BY <2>16, <3>5 DEF T
  <2>19. Untouched(c, f, new) /\ After(f, new) = After(c, new)
    BY <2>2, <2>12, <2>13 DEF Keeps
  <2>20. After(g, new) = After(k, new) /\ g.mem_brk = k.mem_brk /\ g.free_listp = h.free_listp
    BY <2>1, <2>10, <2>12, <2>13, <2>16, <2>19
  <2>21. Carried(h, g, ptr, size)
    <3> SUFFICES ASSUME NEW d \in 0 .. size - 1,
                        ptr + d <= After(h, ptr) - 9, new + d \in Storage
                 PROVE  GET(g, new + d) = GET(h, ptr + d)
      BY <2>16 DEF Carried
    <3>1. d \in 0 .. amount - 1
      BY <2>3, <2>4, <2>6
    <3>2. GET(c, new + d) = GET(k, ptr + d)
      BY <2>10, <3>1
    <3>3. new + d \in new .. After(k, new) - 9
      BY <2>1, <2>3, <2>7
    <3>4. GET(f, new + d) = GET(c, new + d)
      BY <2>12, <2>19, <3>3 DEF Untouched
    <3>5. ptr + d \in ptr .. After(h, ptr) - 9
      BY <2>3, <2>4
    <3>6. GET(k, ptr + d) = GET(h, ptr + d)
      <4>1. Untouched(h, k, ptr)
        BY <2>1 DEF Keeps
      <4> QED
        BY <3>5, <4>1 DEF Untouched
    <3> QED
      BY <2>16, <3>2, <3>4, <3>6
  <2>22. Serves(h, S \ {ptr}, g, n)
    BY <2>1, <2>16, <2>17, <2>18, <2>20 DEF Serves
  <2>23. PlacedFirst(h, B, g, n)
    BY <1>4, <2>0, <2>16, <2>20 DEF PlacedFirst, Placement, InGap, AtEnd
  <2> QED
    BY <2>16, <2>17, <2>21, <2>22, <2>23
<1> QED
  BY <1>3, <1>4, FirstFitAllocates

-----------------------------------------------------------------------------
(* Mm has its own instance of Tags, over the same memory.            *)

(* Constants and functions of the memory. *)
LEMMA MmMemory ==
    /\ Mm!Storage = Storage /\ Mm!mem_max_addr = mem_max_addr
    /\ Mm!Exited = Exited /\ Mm!NULL = NULL
    /\ Mm!Failed = Failed
    /\ Mm!WSIZE = 4 /\ Mm!DSIZE = 8 /\ Mm!OVERHEAD = 8
    /\ Mm!heap_listp = heap_listp /\ Mm!Steps = Steps
    /\ \A h, a : Mm!GET(h, a) = GET(h, a)
    /\ \A h, a, v : Mm!PUT(h, a, v) = PUT(h, a, v)
    /\ \A h, i : Mm!mem_sbrk(h, i) = mem_sbrk(h, i)
    /\ \A s, f : Mm!PACK(s, f) = PACK(s, f)
    /\ \A w : Mm!SizeOf(w) = SizeOf(w) /\ Mm!AllocOf(w) = AllocOf(w)
    /\ \A s : Mm!Adjusted(s) = Adjusted(s)
<1>1. /\ Mm!WSIZE = 4 /\ WSIZE = 4 /\ Mm!DSIZE = 8 /\ DSIZE = 8
      /\ Mm!OVERHEAD = 8 /\ OVERHEAD = 8
      /\ Mm!NULL = NULL /\ Mm!Failed = Failed /\ Mm!Exited = Exited
  BY DEF Mm!WSIZE, WSIZE, Mm!DSIZE, DSIZE, Mm!OVERHEAD, OVERHEAD,
         Mm!NULL, NULL, Mm!Failed, Failed, Mm!Exited, Exited
<1>2. Mm!Storage = Storage
  BY <1>1 DEF Mm!Storage, Storage
<1>3. /\ Mm!mem_max_addr = mem_max_addr /\ Mm!heap_listp = heap_listp
      /\ Mm!Steps = Steps
  BY <1>1 DEF Mm!mem_max_addr, mem_max_addr, Mm!heap_listp, heap_listp,
         Mm!Steps, Steps, Mm!MaxBlocks, MaxBlocks
<1>4. \A h, a : Mm!GET(h, a) = GET(h, a)
  BY <1>2, Zenon DEF Mm!GET, GET
<1>5. \A h, a, v : Mm!PUT(h, a, v) = PUT(h, a, v)
  BY <1>2, Zenon DEF Mm!PUT, PUT
<1>6. \A h, i : Mm!mem_sbrk(h, i) = mem_sbrk(h, i)
  BY <1>1, <1>3, Zenon DEF Mm!mem_sbrk, mem_sbrk
<1>7. \A s, f : Mm!PACK(s, f) = PACK(s, f)
  BY Zenon DEF Mm!PACK, PACK
<1>8. \A w : Mm!SizeOf(w) = SizeOf(w) /\ Mm!AllocOf(w) = AllocOf(w)
  BY Zenon DEF Mm!SizeOf, SizeOf, Mm!AllocOf, AllocOf
<1>9. \A s : Mm!Adjusted(s) = Adjusted(s)
  BY <1>1, Zenon DEF Mm!Adjusted, Adjusted
<1> QED
  BY <1>1, <1>2, <1>3, <1>4, <1>5, <1>6, <1>7, <1>8, <1>9

(* Functions of tags and blocks. *)
LEMMA MmTags ==
    /\ \A h, a : /\ Mm!GET_SIZE(h, a) = GET_SIZE(h, a)
                 /\ Mm!GET_ALLOC(h, a) = GET_ALLOC(h, a)
    /\ \A b : Mm!HDRP(b) = HDRP(b)
    /\ \A h, b : /\ Mm!FTRP(h, b) = FTRP(h, b)
                 /\ Mm!NEXT_BLKP(h, b) = NEXT_BLKP(h, b)
                 /\ Mm!PREV_BLKP(h, b) = PREV_BLKP(h, b)
    /\ \A h, b, s, f : Mm!Tag(h, b, s, f) = Tag(h, b, s, f)
    /\ \A h : Mm!Walk(h) = Walk(h)
    /\ \A h, b : Mm!EmptyHeap(h, b) = EmptyHeap(h, b)
    /\ \A h, n : Mm!Grown(h, n) = Grown(h, n)
    /\ \A h, b : Mm!Joined(h, b) = Joined(h, b)
    /\ \A h, d, s, n, o : Mm!memcpy(h, d, s, n, o) = memcpy(h, d, s, n, o)
<1>1. \A h, a : /\ Mm!GET_SIZE(h, a) = GET_SIZE(h, a)
                /\ Mm!GET_ALLOC(h, a) = GET_ALLOC(h, a)
  BY MmMemory, Zenon DEF Mm!GET_SIZE, GET_SIZE, Mm!GET_ALLOC, GET_ALLOC
<1>2. WSIZE = Mm!WSIZE /\ DSIZE = Mm!DSIZE /\ OVERHEAD = Mm!OVERHEAD
  BY MmMemory DEF WSIZE, DSIZE, OVERHEAD
<1>3. \A b : Mm!HDRP(b) = HDRP(b)
  BY <1>2, Zenon DEF Mm!HDRP, HDRP
<1>4. \A h, b : /\ Mm!FTRP(h, b) = FTRP(h, b)
                /\ Mm!NEXT_BLKP(h, b) = NEXT_BLKP(h, b)
                /\ Mm!PREV_BLKP(h, b) = PREV_BLKP(h, b)
  BY <1>1, <1>2, <1>3, Zenon
     DEF Mm!FTRP, FTRP, Mm!NEXT_BLKP, NEXT_BLKP, Mm!PREV_BLKP, PREV_BLKP
<1>5. \A h, b, s, f : Mm!Tag(h, b, s, f) = Tag(h, b, s, f)
  BY <1>3, <1>4, MmMemory, Zenon DEF Mm!Tag, Tag
<1>6. \A h : Mm!Walk(h) = Walk(h)
  BY <1>4, MmMemory, Zenon DEF Mm!Walk, Walk
<1>7. \A h, b : Mm!EmptyHeap(h, b) = EmptyHeap(h, b)
  BY <1>2, MmMemory, Zenon DEF Mm!EmptyHeap, EmptyHeap
<1>8. \A h, n : Mm!Grown(h, n) = Grown(h, n)
  BY <1>2, <1>3, <1>4, <1>5, MmMemory DEF Mm!Grown, Grown
<1>9. \A h, b : Mm!Joined(h, b) = Joined(h, b)
  <2> TAKE h, b
  <2> QED
    BY <1>1, <1>3, <1>4, MmMemory DEF Mm!Joined, Joined
<1>10. \A h, d, s, n, o : Mm!memcpy(h, d, s, n, o) = memcpy(h, d, s, n, o)
  <2> TAKE h, d, s, n, o
  <2> DEFINE gap == (s - d) \div 4
             words == n \div 4
             late(k) == /\ k + gap \in 0 .. words - 1
                        /\ \/ o = "down" /\ gap > 0
                           \/ o = "up" /\ gap < 0
             Ours(v) == v = [k \in 0 .. words - 1 |->
                                IF late(k) THEN v[k + gap] ELSE GET(h, s + 4 * k)]
             Theirs(v) == v = [k \in 0 .. words - 1 |->
                                IF late(k) THEN v[k + gap] ELSE Mm!GET(h, s + 4 * k)]
             Copy(area, val) == [h EXCEPT !.mem = [a \in area |->
                             IF a \in {d + 4 * k : k \in 0 .. words - 1} \cap area
                             THEN val[(a - d) \div 4] ELSE @[a]]]
  <2>1. memcpy(h, d, s, n, o) = Copy(Storage, CHOOSE v : Ours(v))
    BY Zenon DEF memcpy, WSIZE
  <2>2. Mm!memcpy(h, d, s, n, o) = Copy(Mm!Storage, CHOOSE v : Theirs(v))
    BY Zenon DEF Mm!memcpy, Mm!WSIZE
  <2>3. \A v : Ours(v) <=> Theirs(v)
    <3> TAKE v
    <3>1. \A k : GET(h, s + 4 * k) = Mm!GET(h, s + 4 * k)
      BY MmMemory
    <3>2. [k \in 0 .. words - 1 |-> IF late(k) THEN v[k + gap] ELSE GET(h, s + 4 * k)]
            = [k \in 0 .. words - 1 |-> IF late(k) THEN v[k + gap] ELSE Mm!GET(h, s + 4 * k)]
      <4> HIDE DEF late, gap, words
      <4> QED
        BY <3>1, Zenon
    <3> QED
      BY <3>2
  <2>4. (CHOOSE v : Ours(v)) = (CHOOSE v : Theirs(v))
    <3> HIDE DEF Ours, Theirs
    <3> QED
      BY <2>3, Zenon
  <2> HIDE DEF Ours, Theirs, Copy
  <2> QED
    BY <2>1, <2>2, <2>4, MmMemory
<1> QED
  BY <1>1, <1>3, <1>4, <1>5, <1>6, <1>7, <1>8, <1>9, <1>10

(* What both use of the library. *)
LEMMA MmExtrema ==
    \A S : Mm!Min(S) = Min(S) /\ Mm!Max(S) = Max(S)
BY Zenon DEF Mm!Min, Min, Mm!Max, Max

-----------------------------------------------------------------------------
(* The free list, by the words that hold its links.                        *)

(* The links of a listed block are its first two words. *)
LEMMA MmLinks ==
    /\ \A h, p : Mm!PrevFree(h, p) = GET(h, p) /\ Mm!NextFree(h, p) = GET(h, p + 4)
    /\ \A h, p, q : Mm!SetPrev(h, p, q) = PUT(h, p, q) /\ Mm!SetNext(h, p, q) = PUT(h, p + 4, q)
BY MmMemory DEF Mm!PrevFree, Mm!NextFree, Mm!SetPrev, Mm!SetNext

(* The address of a block that has room for links. *)
IsNode(p) == p \in Nat /\ p % 8 = 0 /\ p \in Storage /\ p + 4 \in Storage

(* It is a word other than NULL, and no link is at two addresses. *)
LEMMA NodeFacts ==
    ASSUME NEW p, IsNode(p)
    PROVE  /\ p \in Words /\ p # NULL
           /\ \A q : IsNode(q) => p # q + 4
<1>1. /\ p \in Nat /\ mem_start_brk <= p /\ p < mem_max_addr
  BY StorageIsTheArea DEF IsNode
<1>2. p \in Words /\ p # NULL
  BY <1>1, AreaAssumption DEF Words, NULL, mem_max_addr
<1> QED
  BY <1>2 DEF IsNode

(* A new list head is no part of the memory. *)
LEMMA HeadSet ==
    ASSUME NEW h \in Heaps, NEW v \in Words, NEW g, g = [h EXCEPT !.free_listp = v]
    PROVE  /\ g \in Heaps /\ g.mem_brk = h.mem_brk /\ g.free_listp = v
           /\ g.ret = h.ret
           /\ \A a : GET(g, a) = GET(h, a)
BY DEF Heaps, GET

(* What is left when a word is written. *)
LEMMA PutLeaves ==
    ASSUME NEW h \in Heaps, NEW a \in Storage, NEW v \in Words, NEW g, g = PUT(h, a, v)
    PROVE  /\ g \in Heaps /\ g.mem_brk = h.mem_brk /\ g.free_listp = h.free_listp
           /\ g.ret = h.ret
           /\ \A c : GET(g, c) = IF c = a THEN v ELSE GET(h, c)
BY PutThenGet

(* What removeBlock does to the words: the neighbours of bp in the list    *)
(* get each other, or the head gets what came after bp.                    *)
LEMMA RemoveWrites ==
    ASSUME NEW h \in Heaps, NEW bp, IsNode(bp),
           NEW prev, prev = GET(h, bp), prev # NULL => IsNode(prev) /\ prev # bp,
           NEW next, next = GET(h, bp + 4), next # NULL => IsNode(next) /\ next # bp,
           NEW g, g = Mm!removeBlock(h, bp)
    PROVE  /\ g \in Heaps /\ g.mem_brk = h.mem_brk
           /\ g.free_listp = IF prev = NULL THEN next ELSE h.free_listp
           /\ \A a : GET(g, a) = IF prev # NULL /\ a = prev + 4 THEN next
                                 ELSE IF next # NULL /\ a = next THEN prev
                                 ELSE GET(h, a)
<1> DEFINE h1 == IF next # NULL THEN PUT(h, next, prev) ELSE h
           Headed(x) == IF next # NULL THEN PUT(x, next, NULL) ELSE x
<1>1. prev \in Words /\ next \in Words /\ NULL \in Words
  BY GetIsWord, AreaAssumption DEF Words, NULL
<1>2. /\ h1 \in Heaps /\ h1.mem_brk = h.mem_brk /\ h1.free_listp = h.free_listp
      /\ \A a : GET(h1, a) = IF next # NULL /\ a = next THEN prev ELSE GET(h, a)
  <2>1. CASE next = NULL
    BY <2>1
  <2>2. CASE next # NULL
    <3>1. next \in Storage
      BY <2>2 DEF IsNode
    <3> QED
      BY <1>1, <2>2, <3>1, PutLeaves
  <2> QED
    BY <2>1, <2>2
<1>3. GET(h1, bp) = prev /\ GET(h1, bp + 4) = next
  <2>1. next # NULL => next # bp + 4
    BY NodeFacts
  <2> QED
    BY <1>2, <2>1
<1>4. g = IF GET(h1, bp) # NULL THEN PUT(h1, GET(h1, bp) + 4, GET(h1, bp + 4))
          ELSE LET x == [h1 EXCEPT !.free_listp = GET(h1, bp + 4)]
               IN  IF GET(x, bp + 4) # NULL THEN PUT(x, GET(x, bp + 4), NULL) ELSE x
  BY MmLinks, MmMemory, Zenon DEF Mm!removeBlock
<1> HIDE DEF h1
<1>5. CASE prev # NULL
  <2>1. g = PUT(h1, prev + 4, next)
    BY <1>3, <1>4, <1>5
  <2>2. prev + 4 \in Storage
    BY <1>5 DEF IsNode
  <2>3. /\ g \in Heaps /\ g.mem_brk = h1.mem_brk /\ g.free_listp = h1.free_listp
        /\ \A a : GET(g, a) = IF a = prev + 4 THEN next ELSE GET(h1, a)
    BY <1>1, <1>2, <2>1, <2>2, PutLeaves
  <2> QED
    BY <1>2, <1>5, <2>3
<1>6. CASE prev = NULL
  <2>1. PICK x : x = [h1 EXCEPT !.free_listp = next]
    OBVIOUS
  <2>2. /\ x \in Heaps /\ x.mem_brk = h1.mem_brk /\ x.free_listp = next
        /\ \A a : GET(x, a) = GET(h1, a)
    BY <1>1, <1>2, <2>1, HeadSet
  <2>3. g = IF next # NULL THEN PUT(x, next, NULL) ELSE x
    BY <1>3, <1>4, <1>6, <2>1, <2>2
  <2>4. CASE next = NULL
    BY <1>2, <1>6, <2>2, <2>3, <2>4
  <2>5. CASE next # NULL
    <3>1. next \in Storage
      BY <2>5 DEF IsNode
    <3>2. /\ g \in Heaps /\ g.mem_brk = x.mem_brk /\ g.free_listp = x.free_listp
          /\ \A a : GET(g, a) = IF a = next THEN NULL ELSE GET(x, a)
      BY <1>1, <2>2, <2>3, <2>5, <3>1, PutLeaves
    <3> QED
      BY <1>2, <1>6, <2>2, <2>5, <3>2
  <2> QED
    BY <2>4, <2>5
<1> QED
  BY <1>5, <1>6

(* What insertBlock writes before the head of a list. *)
Preceded(h, bp, head) ==
    [PUT(PUT(PUT(h, head, bp), bp, NULL), bp + 4, head) EXCEPT !.free_listp = bp]

(* The words when bp is put before the head of a list. *)
LEMMA PutBefore ==
    ASSUME NEW h \in Heaps, NEW bp, IsNode(bp), NEW head, IsNode(head), head # bp,
           NEW g, g = Preceded(h, bp, head)
    PROVE  /\ g \in Heaps /\ g.mem_brk = h.mem_brk /\ g.free_listp = bp /\ g.ret = h.ret
           /\ \A a : GET(g, a) = IF a = bp THEN NULL
                                 ELSE IF a = bp + 4 THEN head
                                 ELSE IF a = head THEN bp
                                 ELSE GET(h, a)
<1>1. /\ bp \in Words /\ head \in Words /\ NULL \in Words /\ bp \in Nat
      /\ bp \in Storage /\ bp + 4 \in Storage /\ bp # bp + 4
      /\ head \in Storage /\ head # bp + 4
  <2>1. bp \in Words /\ head \in Words /\ head # bp + 4
    BY NodeFacts
  <2>2. NULL \in Words
    BY AreaAssumption DEF Words, NULL
  <2> QED
    BY <2>1, <2>2 DEF IsNode
<1>2. PICK x : x = PUT(h, head, bp)
  OBVIOUS
<1>3. PICK y : y = PUT(x, bp, NULL)
  OBVIOUS
<1>4. PICK z : z = PUT(y, bp + 4, head)
  OBVIOUS
<1>5. /\ x \in Heaps /\ x.mem_brk = h.mem_brk /\ x.ret = h.ret
      /\ \A a : GET(x, a) = IF a = head THEN bp ELSE GET(h, a)
  <2>1. head \in Storage /\ bp \in Words
    BY <1>1
  <2> QED
    BY <2>1, <1>2, PutThenGet
<1>6. /\ y \in Heaps /\ y.mem_brk = x.mem_brk /\ y.ret = x.ret
      /\ \A a : GET(y, a) = IF a = bp THEN NULL ELSE GET(x, a)
  <2>1. x \in Heaps /\ bp \in Storage /\ NULL \in Words
    BY <1>1, <1>5
  <2> QED
    BY <2>1, <1>3, PutThenGet
<1>7. /\ z \in Heaps /\ z.mem_brk = y.mem_brk /\ z.ret = y.ret
      /\ \A a : GET(z, a) = IF a = bp + 4 THEN head ELSE GET(y, a)
  <2>1. y \in Heaps /\ bp + 4 \in Storage /\ head \in Words
    BY <1>1, <1>6
  <2> QED
    BY <2>1, <1>4, PutThenGet
<1>8. g = [z EXCEPT !.free_listp = bp]
  BY <1>2, <1>3, <1>4 DEF Preceded
<1>9. /\ g \in Heaps /\ g.mem_brk = z.mem_brk /\ g.ret = z.ret /\ g.free_listp = bp
      /\ \A a : GET(g, a) = GET(z, a)
  BY <1>1, <1>7, <1>8, HeadSet
<1> QED
  BY <1>1, <1>5, <1>6, <1>7, <1>9

(* What insertBlock does to the words: bp comes before what was the head.  *)
LEMMA InsertWrites ==
    ASSUME NEW h \in Heaps, NEW bp, IsNode(bp),
           NEW head, head = h.free_listp, head # NULL => IsNode(head) /\ head # bp,
           NEW g, g = Mm!insertBlock(h, bp)
    PROVE  /\ g \in Heaps /\ g.mem_brk = h.mem_brk /\ g.free_listp = bp /\ g.ret = h.ret
           /\ \A a : GET(g, a) = IF a = bp THEN NULL
                                 ELSE IF a = bp + 4 THEN head
                                 ELSE IF head # NULL /\ a = head THEN bp
                                 ELSE GET(h, a)
<1>1. /\ bp \in Words /\ head \in Words /\ NULL \in Words /\ bp \in Nat
      /\ bp \in Storage /\ bp + 4 \in Storage /\ bp # bp + 4
  <2>1. bp \in Words
    BY NodeFacts
  <2>2. head \in Words /\ NULL \in Words
    BY AreaAssumption DEF Heaps, Words, NULL
  <2> QED
    BY <2>1, <2>2 DEF IsNode
<1>2. g = IF h.free_listp = NULL
          THEN PUT(PUT([h EXCEPT !.free_listp = bp], bp, NULL), bp + 4, NULL)
          ELSE [PUT(PUT(PUT(h, h.free_listp, bp), bp, NULL), bp + 4, h.free_listp)
                  EXCEPT !.free_listp = bp]
  BY MmLinks, MmMemory, Zenon DEF Mm!insertBlock
<1>3. CASE head = NULL
  <2>1. PICK x : x = [h EXCEPT !.free_listp = bp]
    OBVIOUS
  <2>6. PICK y : y = PUT(x, bp, NULL)
    OBVIOUS
  <2>2. /\ x \in Heaps /\ x.mem_brk = h.mem_brk /\ x.ret = h.ret /\ x.free_listp = bp
        /\ \A a : GET(x, a) = GET(h, a)
    BY <1>1, <2>1, HeadSet
  <2>3. /\ y \in Heaps /\ y.mem_brk = x.mem_brk /\ y.ret = x.ret /\ y.free_listp = x.free_listp
        /\ \A a : GET(y, a) = IF a = bp THEN NULL ELSE GET(x, a)
    BY <1>1, <2>2, <2>6, PutLeaves
  <2>4. g = PUT(y, bp + 4, NULL)
    BY <1>2, <1>3, <2>1, <2>6
  <2>5. /\ g \in Heaps /\ g.mem_brk = y.mem_brk /\ g.ret = y.ret /\ g.free_listp = y.free_listp
        /\ \A a : GET(g, a) = IF a = bp + 4 THEN NULL ELSE GET(y, a)
    BY <1>1, <2>3, <2>4, PutLeaves
  <2> QED
    BY <1>1, <1>3, <2>2, <2>3, <2>5
<1>4. CASE head # NULL
  <2>1. g = Preceded(h, bp, head)
    BY <1>2, <1>4 DEF Preceded
  <2> QED
    BY <1>4, <2>1, PutBefore
<1> QED
  BY <1>3, <1>4

-----------------------------------------------------------------------------
(* The free list as a list.                                                *)

(* The nodes F are linked to a list, both ways.  Going from the head on,   *)
(* the nodes get younger.                                                  *)
Linked(h, F, age, N) ==
    /\ N \in Nat
    /\ h.free_listp \in F \cup {NULL}
    /\ \A p \in F :
          /\ age[p] \in Nat /\ age[p] < N
          /\ GET(h, p) \in F \cup {NULL} /\ GET(h, p + 4) \in F \cup {NULL}
          /\ GET(h, p) = NULL <=> h.free_listp = p
          /\ GET(h, p) # NULL => GET(h, GET(h, p) + 4) = p
          /\ GET(h, p + 4) # NULL => /\ GET(h, GET(h, p + 4)) = p
                                     /\ age[GET(h, p + 4)] < age[p]

(* The free list has the blocks F. *)
Listing(h, F) == (\A p \in F : IsNode(p)) /\ \E age, N : Linked(h, F, age, N)

(* The same words but for the links of F and the head. *)
Relinks(h, g, F) ==
    /\ g \in Heaps /\ g.mem_brk = h.mem_brk
    /\ \A a : (\A p \in F : a # p /\ a # p + 4) => GET(g, a) = GET(h, a)

(* A list with the same links is the same list. *)
LEMMA ListStays ==
    ASSUME NEW h, NEW F, Listing(h, F), NEW g, g.free_listp = h.free_listp,
           \A p \in F : GET(g, p) = GET(h, p) /\ GET(g, p + 4) = GET(h, p + 4)
    PROVE  Listing(g, F)
<1>1. PICK age, N : Linked(h, F, age, N)
  BY DEF Listing
<1>2. Linked(g, F, age, N)
  <2>1. N \in Nat /\ g.free_listp \in F \cup {NULL}
    BY <1>1 DEF Linked
  <2>2. ASSUME NEW p \in F
        PROVE  /\ age[p] \in Nat /\ age[p] < N
               /\ GET(g, p) \in F \cup {NULL} /\ GET(g, p + 4) \in F \cup {NULL}
               /\ GET(g, p) = NULL <=> g.free_listp = p
               /\ GET(g, p) # NULL => GET(g, GET(g, p) + 4) = p
               /\ GET(g, p + 4) # NULL => /\ GET(g, GET(g, p + 4)) = p
                                          /\ age[GET(g, p + 4)] < age[p]
    BY <1>1, <2>2 DEF Linked
  <2> QED
    BY <2>1, <2>2 DEF Linked
<1> QED
  BY <1>2 DEF Listing

(* removeBlock takes a node off the list. *)
LEMMA RemoveUnlinks ==
    ASSUME NEW h \in Heaps, NEW F, Listing(h, F), NEW bp \in F,
           NEW g, g = Mm!removeBlock(h, bp)
    PROVE  Listing(g, F \ {bp}) /\ Relinks(h, g, F)
<1>1. PICK age, N : Linked(h, F, age, N)
  BY DEF Listing
<1>2. PICK prev : prev = GET(h, bp)
  OBVIOUS
<1>3. PICK next : next = GET(h, bp + 4)
  OBVIOUS
<1>4. /\ prev \in F \cup {NULL} /\ next \in F \cup {NULL}
      /\ prev = NULL <=> h.free_listp = bp
      /\ prev # NULL => GET(h, prev + 4) = bp
      /\ next # NULL => GET(h, next) = bp /\ age[next] < age[bp]
      /\ age[bp] \in Nat
  BY <1>1, <1>2, <1>3 DEF Linked
<1>5. next # bp /\ prev # bp
  <2>1. bp # NULL
    BY NodeFacts DEF Listing
  <2> QED
    BY <1>3, <1>4, <2>1
<1>6. /\ prev # NULL => IsNode(prev) /\ prev # bp
      /\ next # NULL => IsNode(next) /\ next # bp
      /\ IsNode(bp)
  BY <1>4, <1>5 DEF Listing
<1>7. /\ g \in Heaps /\ g.mem_brk = h.mem_brk
      /\ g.free_listp = IF prev = NULL THEN next ELSE h.free_listp
      /\ \A a : GET(g, a) = IF prev # NULL /\ a = prev + 4 THEN next
                            ELSE IF next # NULL /\ a = next THEN prev
                            ELSE GET(h, a)
  BY <1>2, <1>3, <1>6, RemoveWrites
<1>8. Relinks(h, g, F)
  BY <1>4, <1>7 DEF Relinks
<1>9. \A p, q \in F : p # NULL /\ p # q + 4 /\ (p + 4 = q + 4 => p = q)
  <2> TAKE p \in F, q \in F
  <2>1. IsNode(p) /\ IsNode(q)
    BY DEF Listing
  <2>2. p # NULL /\ p # q + 4
    BY <2>1, NodeFacts
  <2> QED
    BY <2>1, <2>2 DEF IsNode
<1>10. Linked(g, F \ {bp}, age, N)
  <2>1. N \in Nat
    BY <1>1 DEF Linked
  <2>2. g.free_listp \in (F \ {bp}) \cup {NULL}
    BY <1>1, <1>4, <1>5, <1>7 DEF Linked
  <2>3. \A p \in F :
          /\ GET(g, p) = IF p = next THEN prev ELSE GET(h, p)
          /\ GET(g, p + 4) = IF p = prev THEN next ELSE GET(h, p + 4)
    <3> TAKE p \in F
    <3>1. /\ prev # NULL => p # prev + 4 /\ (p + 4 = prev + 4 => p = prev)
          /\ next # NULL => p + 4 # next
          /\ p # NULL
      BY <1>4, <1>9
    <3> QED
      BY <1>7, <3>1
  <2>4. ASSUME NEW p \in F \ {bp}
        PROVE  /\ age[p] \in Nat /\ age[p] < N
               /\ GET(g, p) \in (F \ {bp}) \cup {NULL}
               /\ GET(g, p + 4) \in (F \ {bp}) \cup {NULL}
               /\ GET(g, p) = NULL <=> g.free_listp = p
               /\ GET(g, p) # NULL => GET(g, GET(g, p) + 4) = p
               /\ GET(g, p + 4) # NULL => /\ GET(g, GET(g, p + 4)) = p
                                          /\ age[GET(g, p + 4)] < age[p]
    <3>1. /\ age[p] \in Nat /\ age[p] < N
          /\ GET(h, p) \in F \cup {NULL} /\ GET(h, p + 4) \in F \cup {NULL}
          /\ GET(h, p) = NULL <=> h.free_listp = p
          /\ GET(h, p) # NULL => GET(h, GET(h, p) + 4) = p
          /\ GET(h, p + 4) # NULL => /\ GET(h, GET(h, p + 4)) = p
                                     /\ age[GET(h, p + 4)] < age[p]
      BY <1>1 DEF Linked
    <3>2. /\ p # NULL
          /\ p # next => GET(h, p) # bp
          /\ p # prev => GET(h, p + 4) # bp
      BY <1>2, <1>3, <1>9, <3>1
    <3>3. GET(g, p) \in (F \ {bp}) \cup {NULL} /\ GET(g, p + 4) \in (F \ {bp}) \cup {NULL}
      BY <1>4, <1>5, <2>3, <3>1, <3>2
    <3>4. GET(g, p) = NULL <=> g.free_listp = p
      <4>1. bp # NULL /\ p # bp
        BY <1>9
      <4>2. CASE p = next
        BY <1>4, <1>7, <2>3, <3>1, <3>2, <4>1, <4>2
      <4>3. CASE p # next
        BY <1>4, <1>7, <2>3, <3>1, <3>2, <4>1, <4>3
      <4> QED
        BY <4>2, <4>3
    <3>5. GET(g, p) # NULL => GET(g, GET(g, p) + 4) = p
      <4>1. CASE p = next
        BY <1>4, <2>3, <3>2, <4>1
      <4>2. CASE p # next
        BY <1>3, <2>3, <3>1, <3>2, <4>2, <1>4
      <4> QED
        BY <4>1, <4>2
    <3>6. GET(g, p + 4) # NULL => GET(g, GET(g, p + 4)) = p /\ age[GET(g, p + 4)] < age[p]
      <4>1. CASE p = prev
        <5>1. GET(g, p + 4) = next
          BY <2>3, <4>1
        <5>2. ASSUME next # NULL
              PROVE  GET(g, next) = p /\ age[next] < age[p]
          <6>1. GET(g, next) = p
            BY <1>4, <2>3, <4>1, <5>2
          <6>2. age[bp] < age[p]
            BY <1>4, <3>1, <3>2, <4>1, <1>9
          <6>3. age[next] \in Nat
            BY <1>1, <1>4, <5>2 DEF Linked
          <6> QED
            BY <1>4, <3>1, <5>2, <6>1, <6>2, <6>3
        <5> QED
          BY <5>1, <5>2
      <4>2. CASE p # prev
        BY <1>2, <2>3, <3>1, <3>2, <4>2, <1>4
      <4> QED
        BY <4>1, <4>2
    <3> QED
      BY <3>1, <3>3, <3>4, <3>5, <3>6
  <2> QED
    BY <2>1, <2>2, <2>4 DEF Linked
<1> QED
  BY <1>8, <1>10 DEF Listing

(* insertBlock puts a node in front. *)
LEMMA InsertLinks ==
    ASSUME NEW h \in Heaps, NEW F, Listing(h, F), NEW bp, IsNode(bp), bp \notin F,
           NEW g, g = Mm!insertBlock(h, bp)
    PROVE  Listing(g, F \cup {bp}) /\ Relinks(h, g, F \cup {bp}) /\ g.ret = h.ret
<1>1. PICK age, N : Linked(h, F, age, N)
  BY DEF Listing
<1>2. PICK head : head = h.free_listp
  OBVIOUS
<1>3. head \in F \cup {NULL}
  BY <1>1, <1>2 DEF Linked
<1>4. head # NULL => IsNode(head) /\ head # bp
  BY <1>3 DEF Listing
<1>5. /\ g \in Heaps /\ g.mem_brk = h.mem_brk /\ g.free_listp = bp /\ g.ret = h.ret
      /\ \A a : GET(g, a) = IF a = bp THEN NULL
                            ELSE IF a = bp + 4 THEN head
                            ELSE IF head # NULL /\ a = head THEN bp
                            ELSE GET(h, a)
  BY <1>2, <1>4, InsertWrites
<1>6. Relinks(h, g, F \cup {bp})
  BY <1>3, <1>5 DEF Relinks
<1>7. bp # NULL /\ bp # bp + 4
  BY NodeFacts
<1>8. \A p \in F : p # NULL /\ p # bp + 4 /\ p + 4 # bp /\ p + 4 # bp + 4 /\ p # bp
  <2> TAKE p \in F
  <2>1. IsNode(p)
    BY DEF Listing
  <2>2. p # NULL /\ p # bp + 4
    BY <2>1, NodeFacts
  <2>3. bp # p + 4
    BY <2>1, NodeFacts
  <2> QED
    BY <2>1, <2>2, <2>3 DEF IsNode
<1>9. \A p \in F : head # NULL => p + 4 # head
  <2> TAKE p \in F
  <2> QED
    BY <1>4, NodeFacts DEF Listing
<1>10. /\ GET(g, bp) = NULL /\ GET(g, bp + 4) = head
       /\ \A p \in F : /\ GET(g, p) = IF p = head THEN bp ELSE GET(h, p)
                       /\ GET(g, p + 4) = GET(h, p + 4)
  <2>1. GET(g, bp) = NULL /\ GET(g, bp + 4) = head
    BY <1>5, <1>7
  <2>2. ASSUME NEW p \in F
        PROVE  /\ GET(g, p) = IF p = head THEN bp ELSE GET(h, p)
               /\ GET(g, p + 4) = GET(h, p + 4)
    BY <1>5, <1>8, <1>9
  <2> QED
    BY <2>1, <2>2
<1>11. PICK old : old = [p \in F \cup {bp} |-> IF p = bp THEN N ELSE age[p]]
  OBVIOUS
<1>12. Linked(g, F \cup {bp}, old, N + 1)
  <2>1. N \in Nat /\ N + 1 \in Nat /\ old[bp] = N /\ \A p \in F : old[p] = age[p]
    BY <1>1, <1>11 DEF Linked
  <2>2. g.free_listp \in (F \cup {bp}) \cup {NULL}
    BY <1>5
  <2>3. ASSUME NEW p \in F \cup {bp}
        PROVE  /\ old[p] \in Nat /\ old[p] < N + 1
               /\ GET(g, p) \in (F \cup {bp}) \cup {NULL}
               /\ GET(g, p + 4) \in (F \cup {bp}) \cup {NULL}
               /\ GET(g, p) = NULL <=> g.free_listp = p
               /\ GET(g, p) # NULL => GET(g, GET(g, p) + 4) = p
               /\ GET(g, p + 4) # NULL => /\ GET(g, GET(g, p + 4)) = p
                                          /\ old[GET(g, p + 4)] < old[p]
    <3>1. CASE p = bp
      <4>1. head # NULL => age[head] < N /\ GET(g, head) = bp
        BY <1>1, <1>3, <1>10 DEF Linked
      <4> QED
        BY <1>3, <1>5, <1>7, <1>10, <2>1, <3>1, <4>1
    <3>2. CASE p \in F
      <4>1. /\ age[p] \in Nat /\ age[p] < N
            /\ GET(h, p) \in F \cup {NULL} /\ GET(h, p + 4) \in F \cup {NULL}
            /\ GET(h, p) = NULL <=> h.free_listp = p
            /\ GET(h, p) # NULL => GET(h, GET(h, p) + 4) = p
            /\ GET(h, p + 4) # NULL => /\ GET(h, GET(h, p + 4)) = p
                                       /\ age[GET(h, p + 4)] < age[p]
        BY <1>1, <3>2 DEF Linked
      <4>2. /\ GET(g, p) = IF p = head THEN bp ELSE GET(h, p)
            /\ GET(g, p + 4) = GET(h, p + 4) /\ p # bp /\ p # NULL
        BY <1>8, <1>10, <3>2
      <4>3. GET(g, p) = NULL <=> g.free_listp = p
        BY <1>2, <1>5, <1>7, <4>1, <4>2
      <4>4. GET(g, p) # NULL => GET(g, GET(g, p) + 4) = p
        <5>1. CASE p = head
          BY <1>10, <4>2, <5>1
        <5>2. CASE p # head
          BY <1>10, <4>1, <4>2, <5>2
        <5> QED
          BY <5>1, <5>2
      <4>5. GET(g, p + 4) # NULL => GET(g, GET(g, p + 4)) = p /\ old[GET(g, p + 4)] < old[p]
        <5>1. ASSUME GET(h, p + 4) # NULL
              PROVE  GET(h, p + 4) # head
          <6>1. GET(h, GET(h, p + 4)) # NULL /\ GET(h, p + 4) \in F
            BY <4>1, <4>2, <5>1
          <6> QED
            BY <1>1, <1>2, <6>1 DEF Linked
        <5> QED
          BY <1>10, <2>1, <3>2, <4>1, <4>2, <5>1
      <4>6. old[p] \in Nat /\ old[p] < N + 1
        BY <2>1, <3>2, <4>1
      <4> QED
        BY <4>1, <4>2, <4>3, <4>4, <4>5, <4>6
    <3> QED
      BY <3>1, <3>2
  <2> QED
    BY <2>1, <2>2, <2>3 DEF Linked
<1>13. \A p \in F \cup {bp} : IsNode(p)
  BY DEF Listing
<1> QED
  BY <1>5, <1>6, <1>12, <1>13 DEF Listing

-----------------------------------------------------------------------------
(* Links lie in the free blocks, and tags do not.                          *)

(* The free blocks of a tiling. *)
FreeIn(h, B) == {b \in B : Used(h, b) = 0}

(* A free block can be listed; its links are no tags, and in no other      *)
(* block.                                                                  *)
LEMMA FreeAreNodes ==
    ASSUME NEW h, NEW B, Tiling(h, B), NEW c \in FreeIn(h, B)
    PROVE  /\ IsNode(c) /\ c \in B \ {heap_listp, h.mem_brk} /\ c \in Nat
           /\ c \in c .. After(h, c) - 9 /\ c + 4 \in c .. After(h, c) - 9
           /\ \A b \in B : b - 4 \notin {c, c + 4} /\ b - 8 \notin {c, c + 4}
           /\ \A b \in B \ {c, h.mem_brk} : \A a \in b .. After(h, b) - 9 : a \notin {c, c + 4}
<1>1. c \in B /\ Used(h, c) = 0
  BY DEF FreeIn
<1>2. /\ c \in Nat /\ c % 8 = 0 /\ heap_listp <= c /\ c <= h.mem_brk
      /\ Used(h, h.mem_brk) = 1 /\ Used(h, heap_listp) = 1
      /\ heap_listp = mem_start_brk + 8 /\ heap_listp \in Nat
      /\ h.mem_brk \in Nat /\ h.mem_brk % 8 = 0 /\ h.mem_brk <= mem_max_addr
      /\ c # h.mem_brk => /\ Size(h, c) \in Nat /\ After(h, c) \in Nat
                          /\ After(h, c) <= h.mem_brk
                          /\ \A b \in B : c < b => After(h, c) <= b
  BY <1>1, BlockFacts
<1>3. c # h.mem_brk /\ c # heap_listp
  BY <1>1, <1>2
<1>4. Size(h, c) >= 16
  BY <1>1, <1>3 DEF Tiling, BothTags, MINIMUM
<1>5. After(h, c) = c + Size(h, c)
  BY DEF After
<1>6. IsNode(c)
  <2>1. c + 4 < mem_max_addr /\ (c + 4) % 4 = 0 /\ c % 4 = 0 /\ c + 4 \in Int /\ mem_start_brk <= c
    BY <1>2, <1>3, <1>4, <1>5, AreaAssumption DEF mem_max_addr
  <2>2. mem_start_brk \in Nat /\ mem_max_addr \in Nat
    BY AreaAssumption DEF mem_max_addr
  <2>3. c \in Storage
    BY <1>2, <2>1, <2>2, StorageIsTheArea
  <2>4. c + 4 \in Storage
    BY <1>2, <2>1, <2>2, StorageIsTheArea
  <2> QED
    BY <1>2, <2>3, <2>4 DEF IsNode
<1>7. ASSUME NEW b \in B
      PROVE  b - 4 \notin {c, c + 4} /\ b - 8 \notin {c, c + 4}
  <2>1. b \in Nat /\ b % 8 = 0
    BY BlockFacts
  <2>2. c < b => c + 16 <= b
    BY <1>2, <1>3, <1>4, <1>5, <2>1
  <2> QED
    BY <1>2, <2>1, <2>2
<1>8. ASSUME NEW b \in B \ {c, h.mem_brk}, NEW a \in b .. After(h, b) - 9
      PROVE  a \notin {c, c + 4}
  <2>1. /\ b \in Nat /\ b % 8 = 0 /\ After(h, b) \in Nat
        /\ \A x \in B : b < x => After(h, b) <= x
    BY BlockFacts
  <2>2. c < b => c + 16 <= b
    BY <1>2, <1>3, <1>4, <1>5, <2>1
  <2>3. b < c => After(h, b) <= c
    BY <1>1, <2>1
  <2> QED
    BY <1>2, <2>1, <2>2, <2>3
<1> QED
  BY <1>1, <1>2, <1>3, <1>4, <1>5, <1>6, <1>7, <1>8

(* The blocks B of h are those of g. *)
SameBlocks(h, g, B) ==
    /\ Tiling(g, B) /\ g \in Heaps /\ g.mem_brk = h.mem_brk
    /\ \A b \in B : /\ Size(g, b) = Size(h, b) /\ Used(g, b) = Used(h, b)
                    /\ After(g, b) = After(h, b)
    /\ Coalesced(h, B) => Coalesced(g, B)
    /\ InUse(g, B) = InUse(h, B) /\ FreeIn(g, B) = FreeIn(h, B)
    /\ Keeps(h, g, InUse(h, B))

(* What the links are is nothing to the tiling. *)
LEMMA RelinkTiles ==
    ASSUME NEW h, NEW B, Tiling(h, B), NEW F, F \subseteq FreeIn(h, B),
           NEW g, Relinks(h, g, F)
    PROVE  SameBlocks(h, g, B)
<1>1. /\ g \in Heaps /\ g.mem_brk = h.mem_brk
      /\ \A a : (\A p \in F : a # p /\ a # p + 4) => GET(g, a) = GET(h, a)
  BY DEF Relinks
<1>2. ASSUME NEW b \in B
      PROVE  GET(g, b - 4) = GET(h, b - 4) /\ GET(g, b - 8) = GET(h, b - 8)
  <2>1. ASSUME NEW p \in F
        PROVE  b - 4 # p /\ b - 4 # p + 4 /\ b - 8 # p /\ b - 8 # p + 4
    <3>1. p \in FreeIn(h, B)
      OBVIOUS
    <3> QED
      BY <3>1, FreeAreNodes
  <2> QED
    BY <1>1, <2>1
<1>3. \A b \in B : /\ Size(g, b) = Size(h, b) /\ Used(g, b) = Used(h, b)
                   /\ After(g, b) = After(h, b)
  BY <1>2 DEF Size, Used, After
<1>4. heap_listp \in B /\ h.mem_brk \in B
  BY DEF Tiling, Bounds
<1>5. Bounds(g, B)
  BY <1>1, <1>2, <1>4 DEF Tiling, Bounds
<1>6. Chain(g, B)
  <2>1. ASSUME NEW b \in B \ {g.mem_brk}
        PROVE  /\ After(g, b) \in B /\ b < After(g, b)
               /\ \A c \in B : b < c => After(g, b) <= c
    <3>1. b \in B \ {h.mem_brk} /\ After(g, b) = After(h, b)
      BY <1>1, <1>3
    <3> QED
      BY <3>1, BlockFacts
  <2>2. ASSUME NEW c \in B \ {heap_listp}
        PROVE  \E b \in B \ {g.mem_brk} : After(g, b) = c
    <3>1. PICK b \in B \ {h.mem_brk} : After(h, b) = c
      BY DEF Tiling, Chain
    <3> QED
      BY <1>1, <1>3, <3>1
  <2> QED
    BY <2>1, <2>2 DEF Chain
<1>7. BothTags(g, B)
  <2> SUFFICES ASSUME NEW b \in B \ {g.mem_brk}
               PROVE  /\ IsTag(GET(g, b - 4))
                      /\ GET(g, After(g, b) - 8) = GET(g, b - 4)
                      /\ b # heap_listp => Size(g, b) >= MINIMUM
    BY DEF BothTags
  <2>1. /\ b \in B \ {h.mem_brk} /\ After(g, b) = After(h, b)
        /\ Size(g, b) = Size(h, b) /\ GET(g, b - 4) = GET(h, b - 4)
    BY <1>1, <1>2, <1>3
  <2>2. After(h, b) \in B
    BY <2>1, BlockFacts
  <2>3. GET(g, After(h, b) - 8) = GET(h, After(h, b) - 8)
    BY <1>2, <2>2
  <2> QED
    BY <2>1, <2>3 DEF Tiling, BothTags
<1>8. ASSUME NEW b \in InUse(h, B)
      PROVE  After(g, b) = After(h, b) /\ Untouched(h, g, b)
  <2>1. b \in B \ {h.mem_brk} /\ Used(h, b) = 1
    BY DEF InUse
  <2>2. ASSUME NEW a \in b .. After(h, b) - 9, NEW p \in F
        PROVE  a # p /\ a # p + 4
    <3>1. p \in FreeIn(h, B) /\ Used(h, p) = 0
      BY DEF FreeIn
    <3>2. b \in B \ {p, h.mem_brk}
      BY <2>1, <3>1
    <3> QED
      BY <3>1, <3>2, FreeAreNodes
  <2>3. Untouched(h, g, b)
    BY <1>1, <2>2 DEF Untouched
  <2> QED
    BY <1>3, <2>1, <2>3
<1>9. Keeps(h, g, InUse(h, B))
  BY <1>8 DEF Keeps
<1>10. InUse(g, B) = InUse(h, B) /\ FreeIn(g, B) = FreeIn(h, B)
  BY <1>1, <1>3 DEF InUse, FreeIn
<1>11. Coalesced(h, B) => Coalesced(g, B)
  <2> SUFFICES ASSUME Coalesced(h, B), NEW b \in B \ {g.mem_brk}, Used(g, b) = 0
               PROVE  Used(g, After(g, b)) = 1
    BY DEF Coalesced
  <2>1. b \in B \ {h.mem_brk} /\ Used(h, b) = 0 /\ After(g, b) = After(h, b)
    BY <1>1, <1>3
  <2>2. After(h, b) \in B /\ Used(h, After(h, b)) = 1
    BY <2>1, BlockFacts DEF Coalesced
  <2> QED
    BY <1>3, <2>1, <2>2
<1> QED
  BY <1>1, <1>3, <1>5, <1>6, <1>7, <1>9, <1>10, <1>11 DEF Tiling, SameBlocks

(* The links of F may be those of more nodes. *)
LEMMA RelinksMore ==
    ASSUME NEW h, NEW g, NEW F, NEW G, Relinks(h, g, F), F \subseteq G
    PROVE  Relinks(h, g, G)
BY DEF Relinks

(* Nothing is linked anew. *)
LEMMA RelinksNone ==
    ASSUME NEW h \in Heaps, NEW F
    PROVE  Relinks(h, h, F)
BY DEF Relinks

(* Links may be set twice. *)
LEMMA RelinksOn ==
    ASSUME NEW h, NEW g, NEW k, NEW F, Relinks(h, g, F), Relinks(g, k, F)
    PROVE  Relinks(h, k, F)
BY DEF Relinks

-----------------------------------------------------------------------------
(* The functions of mm.c that tag and list.                                *)

(* Equal tilings have equal neighbours. *)
LEMMA JoinKept ==
    ASSUME NEW h, NEW B, Tiling(h, B), NEW g, Tiling(g, B), g.mem_brk = h.mem_brk,
           \A c \in B : Used(g, c) = Used(h, c) /\ After(g, c) = After(h, c),
           NEW b \in B \ {heap_listp, h.mem_brk}
    PROVE  /\ PREV_BLKP(g, b) = PREV_BLKP(h, b)
           /\ JoinFirst(g, b) = JoinFirst(h, b) /\ JoinEnd(g, b) = JoinEnd(h, b)
<1>1. /\ PREV_BLKP(g, b) \in B \ {g.mem_brk} /\ After(g, PREV_BLKP(g, b)) = b
  BY PrevTells
<1>2. \A c \in B \ {h.mem_brk} : After(h, c) = b => c = PREV_BLKP(h, b)
  BY PrevTells
<1>3. PREV_BLKP(g, b) = PREV_BLKP(h, b)
  BY <1>1, <1>2
<1>4. After(h, b) \in B
  BY BlockFacts
<1>5. Used(g, PREV_BLKP(h, b)) = Used(h, PREV_BLKP(h, b))
  BY <1>1, <1>3
<1>6. /\ After(g, b) = After(h, b) /\ Used(g, After(h, b)) = Used(h, After(h, b))
      /\ After(g, After(h, b)) = After(h, After(h, b))
  BY <1>4
<1> QED
  BY <1>3, <1>5, <1>6 DEF JoinFirst, JoinEnd

(* The free block n leaves the list. *)
Without(g, n) == IF Used(g, n) = 0 THEN Mm!removeBlock(g, n) ELSE g

(* One that is not free does not have to. *)
LEMMA WithoutTiles ==
    ASSUME NEW g, NEW B, Tiling(g, B), NEW F, F \subseteq FreeIn(g, B), Listing(g, F),
           NEW n \in B, Used(g, n) = 0 => n \in F, NEW x, x = Without(g, n)
    PROVE  Listing(x, F \ {n}) /\ Relinks(g, x, F)
<1>1. g \in Heaps
  BY DEF Tiling, Bounds
<1>2. CASE Used(g, n) = 0
  BY <1>1, <1>2, RemoveUnlinks DEF Without
<1>3. CASE Used(g, n) # 0
  <2>1. F \ {n} = F
    BY <1>3 DEF FreeIn
  <2> QED
    BY <1>1, <1>3, <2>1, RelinksNone DEF Without
<1> QED
  BY <1>2, <1>3

(* What coalesce computes: both neighbours leave the list, and what they   *)
(* become with b enters it.                                                *)
LEMMA MmCoalesceIs ==
    ASSUME NEW h, NEW B, Tiling(h, B), NEW b \in B \ {heap_listp, h.mem_brk},
           NEW F, F \subseteq FreeIn(h, B), Listing(h, F),
           \A c \in B : Used(h, c) = 0 /\ c # b => c \in F, b \notin F
    PROVE  \E h2 : /\ Mm!coalesce(h, b) = LET h3 == Joined(h2, b) IN Mm!insertBlock(h3, h3.ret)
                   /\ Listing(h2, F \ {After(h, b), PREV_BLKP(h, b)})
                   /\ Relinks(h, h2, F)
                   /\ h2 = Without(Without(h, After(h, b)), PREV_BLKP(h, b))
<1>1. PICK next : next = After(h, b)
  OBVIOUS
<1>2. PICK prev : prev = PREV_BLKP(h, b)
  OBVIOUS
<1>3. /\ next \in B /\ next # b /\ NEXT_BLKP(h, b) = next
      /\ GET_ALLOC(h, HDRP(next)) = Used(h, next)
  <2>1. next \in B /\ next # b
    BY <1>1, BlockFacts
  <2>2. NEXT_BLKP(h, b) = next
    BY <1>1, TagsTell
  <2> QED
    BY <2>1, <2>2, TagsTell
<1>4. /\ prev \in B \ {h.mem_brk} /\ prev # b /\ prev # next
      /\ GET_ALLOC(h, FTRP(h, prev)) = Used(h, prev)
  <2>1. prev \in B \ {h.mem_brk} /\ prev < b /\ b \in Nat
    BY <1>2, PrevTells, BlockFacts
  <2>2. b < next
    BY <1>1, BlockFacts
  <2>3. prev # b /\ prev # next
    <3>1. prev \in Nat /\ next \in Nat
      BY <1>3, <2>1, BlockFacts
    <3> QED
      BY <2>1, <2>2, <3>1
  <2> QED
    BY <2>1, <2>3, TagsTell
<1>5. PICK h1 : h1 = Without(h, next)
  OBVIOUS
<1>6. Listing(h1, F \ {next}) /\ Relinks(h, h1, F)
  BY <1>3, <1>5, WithoutTiles
<1>7. /\ Tiling(h1, B) /\ FreeIn(h1, B) = FreeIn(h, B)
      /\ \A c \in B : Used(h1, c) = Used(h, c)
  BY <1>6, RelinkTiles DEF SameBlocks
<1>8. PICK h2 : h2 = Without(h1, prev)
  OBVIOUS
<1>9. Listing(h2, (F \ {next}) \ {prev}) /\ Relinks(h1, h2, F \ {next})
  <2>1. PICK G : G = F \ {next}
    OBVIOUS
  <2>2. Used(h1, prev) = 0 => prev \in G
    BY <1>4, <1>7, <2>1
  <2>3. G \subseteq FreeIn(h1, B) /\ Listing(h1, G) /\ prev \in B
    BY <1>4, <1>6, <1>7, <2>1
  <2>4. Listing(h2, G \ {prev}) /\ Relinks(h1, h2, G)
    BY <1>7, <1>8, <2>2, <2>3, WithoutTiles
  <2> QED
    BY <2>1, <2>4
<1>10. Relinks(h, h2, F)
  <2>1. Relinks(h1, h2, F)
    <3>1. F \ {next} \subseteq F
      OBVIOUS
    <3> QED
      BY <1>9, <3>1, RelinksMore
  <2> QED
    BY <1>6, <2>1, RelinksOn
<1>11. Mm!coalesce(h, b) = LET h3 == Joined(h2, b) IN Mm!insertBlock(h3, h3.ret)
  <2>1. /\ Mm!NEXT_BLKP(h, b) = next /\ Mm!PREV_BLKP(h, b) = prev
        /\ Mm!GET_ALLOC(h, Mm!HDRP(next)) = Used(h, next)
        /\ Mm!GET_ALLOC(h, Mm!FTRP(h, prev)) = Used(h, prev)
    BY <1>2, <1>3, <1>4, MmTags
  <2>2. h1 = IF Used(h, next) = 0 THEN Mm!removeBlock(h, next) ELSE h
    BY <1>5 DEF Without
  <2>3. h2 = IF Used(h, prev) = 0 THEN Mm!removeBlock(h1, prev) ELSE h1
    BY <1>4, <1>7, <1>8 DEF Without
  <2>4. Mm!Joined(h2, b) = Joined(h2, b)
    BY MmTags
  <2> QED
    BY <2>1, <2>2, <2>3, <2>4, Zenon DEF Mm!coalesce
<1>12. (F \ {next}) \ {prev} = F \ {next, prev}
  OBVIOUS
<1> QED
  BY <1>1, <1>2, <1>5, <1>8, <1>9, <1>10, <1>11, <1>12

(* The free list has the free blocks, all but b. *)
ListedBut(h, B, b) == Listing(h, FreeIn(h, B) \ {b})

(* The heap is in order, and the free list has its free blocks. *)
Tidy(h, B) == Sound(h, B) /\ Listing(h, FreeIn(h, B))

(* Of the free blocks, those stay free that b does not join. *)
LEMMA FreeButJoined ==
    ASSUME NEW h, NEW B, Tiling(h, B), NEW b \in B \ {heap_listp, h.mem_brk},
           NEW first, first = JoinFirst(h, b), NEW F,
           F = (FreeIn(h, B) \ {b}) \ {After(h, b), PREV_BLKP(h, b)}
    PROVE  /\ \A c \in F : c \in Fused(B, first, JoinEnd(h, b)) /\ c # first
           /\ \A c \in FreeIn(h, B) : c \in Fused(B, first, JoinEnd(h, b)) => c \in F \cup {first}
<1>1. PICK next : next = After(h, b)
  OBVIOUS
<1>2. PICK prev : prev = PREV_BLKP(h, b)
  OBVIOUS
<1>3. PICK e : e = JoinEnd(h, b)
  OBVIOUS
<1>4. /\ next \in B /\ b < next /\ b \in Nat /\ next \in Nat
      /\ \A c \in B : b < c => next <= c
  BY <1>1, BlockFacts
<1>5. /\ prev \in B \ {h.mem_brk} /\ prev < b /\ prev \in Nat /\ After(h, prev) = b
  BY <1>2, PrevTells, BlockFacts
<1>6. \A c \in B : prev < c => b <= c
  BY <1>5, BlockFacts
<1>7. /\ first = IF Used(h, prev) = 0 THEN prev ELSE b
      /\ e = IF Used(h, next) = 0 THEN After(h, next) ELSE next
  BY <1>1, <1>2, <1>3 DEF JoinFirst, JoinEnd
<1>8. Used(h, next) = 0 => /\ After(h, next) \in Nat /\ next < After(h, next)
                           /\ \A c \in B : next < c => After(h, next) <= c
  <2>1. Used(h, next) = 0 => next # h.mem_brk
    BY <1>4, BlockFacts
  <2> QED
    BY <1>4, <2>1, BlockFacts
<1>9. \A c \in B : c \in Nat
  BY BlockFacts
<1>10. ASSUME NEW c \in F
       PROVE  c \in Fused(B, first, e) /\ c # first
  <2>1. c \in B /\ c \in Nat /\ Used(h, c) = 0 /\ c # b /\ c # next /\ c # prev
    BY <1>1, <1>2, <1>9 DEF FreeIn
  <2>2. c < prev \/ next < c
    BY <1>4, <1>5, <1>6, <2>1
  <2>3. c # first
    BY <1>7, <2>1
  <2>4. c <= first \/ e <= c
    BY <1>4, <1>5, <1>7, <1>8, <2>1, <2>2
  <2> QED
    BY <2>1, <2>3, <2>4 DEF Fused
<1>11. ASSUME NEW c \in FreeIn(h, B), c \in Fused(B, first, e)
       PROVE  c \in F \cup {first}
  <2>1. c \in B /\ c \in Nat /\ Used(h, c) = 0 /\ (c <= first \/ e <= c)
    BY <1>9, <1>11 DEF FreeIn, Fused
  <2>2. c # first => c # b /\ c # next /\ c # prev
    BY <1>4, <1>5, <1>7, <1>8, <2>1
  <2> QED
    BY <1>1, <1>2, <2>1, <2>2 DEF FreeIn
<1> QED
  BY <1>3, <1>10, <1>11

(* A list is not the worse for tags, if they are not written into links. *)
LEMMA ListUntouched ==
    ASSUME NEW h, NEW B, Tiling(h, B), NEW F, F \subseteq FreeIn(h, B), Listing(h, F),
           NEW g, g.free_listp = h.free_listp, \A c \in F : Untouched(h, g, c)
    PROVE  Listing(g, F)
<1>1. ASSUME NEW c \in F
      PROVE  GET(g, c) = GET(h, c) /\ GET(g, c + 4) = GET(h, c + 4)
  <2>1. c \in FreeIn(h, B)
    OBVIOUS
  <2>2. c \in c .. After(h, c) - 9 /\ c + 4 \in c .. After(h, c) - 9
    BY <2>1, FreeAreNodes
  <2>3. Untouched(h, g, c)
    OBVIOUS
  <2> QED
    BY <2>2, <2>3 DEF Untouched
<1> QED
  BY <1>1, ListStays

(* The blocks of a tiling that are not in use are free. *)
LEMMA FreeIsUnused ==
    ASSUME NEW h, NEW B, Tiling(h, B)
    PROVE  FreeIn(h, B) = {c \in B \ {h.mem_brk} : c \notin InUse(h, B)}
<1>1. \A c \in B : Used(h, c) \in {0, 1} /\ Used(h, h.mem_brk) = 1
  BY BlockFacts
<1> QED
  BY <1>1 DEF FreeIn, InUse

(* A free block enters the list. *)
LEMMA InsertTidies ==
    ASSUME NEW j, NEW C, Sound(j, C), NEW p \in FreeIn(j, C), Listing(j, FreeIn(j, C) \ {p}),
           NEW g, g = Mm!insertBlock(j, p)
    PROVE  /\ Tidy(g, C) /\ g.mem_brk = j.mem_brk /\ g.ret = j.ret
           /\ \A c \in C : Used(g, c) = Used(j, c) /\ After(g, c) = After(j, c)
           /\ InUse(g, C) = InUse(j, C)
           /\ Keeps(j, g, InUse(j, C))
<1>1. PICK F : F = FreeIn(j, C) \ {p}
  OBVIOUS
<1>2. Tiling(j, C) /\ Coalesced(j, C) /\ j \in Heaps
  BY DEF Sound, Tiling, Bounds
<1>3. IsNode(p)
  BY <1>2, FreeAreNodes
<1>4. p \notin F /\ Listing(j, F) /\ F \cup {p} = FreeIn(j, C)
  BY <1>1
<1>5. Listing(g, F \cup {p}) /\ Relinks(j, g, F \cup {p}) /\ g.ret = j.ret
  BY <1>2, <1>3, <1>4, InsertLinks
<1>6. PICK L : L = FreeIn(j, C)
  OBVIOUS
<1>7. L \subseteq FreeIn(j, C) /\ Relinks(j, g, L) /\ Listing(g, L)
  BY <1>4, <1>5, <1>6
<1>8. /\ Tiling(g, C) /\ g.mem_brk = j.mem_brk
      /\ \A c \in C : Used(g, c) = Used(j, c) /\ After(g, c) = After(j, c)
      /\ Coalesced(g, C)
      /\ InUse(g, C) = InUse(j, C) /\ FreeIn(g, C) = FreeIn(j, C)
      /\ Keeps(j, g, InUse(j, C))
  BY <1>2, <1>7, RelinkTiles DEF SameBlocks
<1> QED
  BY <1>5, <1>6, <1>7, <1>8 DEF Tidy, Sound

(* A free block leaves the list. *)
LEMMA RemoveTidies ==
    ASSUME NEW j, NEW C, Sound(j, C), NEW F, F \subseteq FreeIn(j, C), Listing(j, F), NEW p \in F,
           NEW g, g = Mm!removeBlock(j, p)
    PROVE  /\ Sound(g, C) /\ Listing(g, F \ {p}) /\ g.mem_brk = j.mem_brk
           /\ \A c \in C : /\ Size(g, c) = Size(j, c) /\ Used(g, c) = Used(j, c)
                           /\ After(g, c) = After(j, c)
           /\ InUse(g, C) = InUse(j, C) /\ FreeIn(g, C) = FreeIn(j, C)
           /\ Keeps(j, g, InUse(j, C))
<1>1. Tiling(j, C) /\ Coalesced(j, C) /\ j \in Heaps
  BY DEF Sound, Tiling, Bounds
<1>2. Listing(g, F \ {p}) /\ Relinks(j, g, F)
  BY <1>1, RemoveUnlinks
<1>3. /\ Tiling(g, C) /\ g.mem_brk = j.mem_brk
      /\ \A c \in C : /\ Size(g, c) = Size(j, c) /\ Used(g, c) = Used(j, c)
                      /\ After(g, c) = After(j, c)
      /\ Coalesced(g, C)
      /\ InUse(g, C) = InUse(j, C) /\ FreeIn(g, C) = FreeIn(j, C)
      /\ Keeps(j, g, InUse(j, C))
  BY <1>1, <1>2, RelinkTiles DEF SameBlocks
<1> QED
  BY <1>2, <1>3 DEF Sound

(* The block b of h, which is free and not listed, and the free blocks      *)
(* beside it, which are, become one in g.                                  *)
Coalesces(h, B, b, g, C) ==
    /\ Tidy(g, C)
    /\ InUse(g, C) = InUse(h, B)
    /\ g.mem_brk = h.mem_brk
    /\ Keeps(h, g, InUse(h, B))
    /\ g.ret = JoinFirst(h, b) /\ g.ret \in C \ {heap_listp, h.mem_brk}
    /\ Used(g, g.ret) = 0 /\ After(g, g.ret) = JoinEnd(h, b)
    /\ FreeIn(g, C) \subseteq (FreeIn(h, B) \ {b}) \cup {g.ret}

(* That is what coalesce does. *)
LEMMA MmJoins ==
    ASSUME NEW h, NEW B, Tiling(h, B), NEW b \in B \ {heap_listp, h.mem_brk}, Used(h, b) = 0,
           OnlyTouching(h, B, b), ListedBut(h, B, b),
           NEW g, g = Mm!coalesce(h, b)
    PROVE  \E C : Coalesces(h, B, b, g, C)
<1>1. PICK F : F = FreeIn(h, B) \ {b}
  OBVIOUS
<1>2. PICK E : E = F \ {After(h, b), PREV_BLKP(h, b)}
  OBVIOUS
<1>3. /\ F \subseteq FreeIn(h, B) /\ Listing(h, F) /\ b \notin F
      /\ \A c \in B : Used(h, c) = 0 /\ c # b => c \in F
  BY <1>1 DEF FreeIn, ListedBut
<1>4. PICK k : /\ Mm!coalesce(h, b) = LET j == Joined(k, b) IN Mm!insertBlock(j, j.ret)
               /\ Listing(k, F \ {After(h, b), PREV_BLKP(h, b)})
               /\ Relinks(h, k, F)
  BY <1>3, MmCoalesceIs
<1>5. /\ Tiling(k, B) /\ k \in Heaps /\ k.mem_brk = h.mem_brk
      /\ \A c \in B : /\ Size(k, c) = Size(h, c) /\ Used(k, c) = Used(h, c)
                      /\ After(k, c) = After(h, c)
      /\ InUse(k, B) = InUse(h, B) /\ FreeIn(k, B) = FreeIn(h, B)
      /\ Keeps(h, k, InUse(h, B))
  <2>1. F \subseteq FreeIn(h, B) /\ Relinks(h, k, F)
    BY <1>3, <1>4
  <2>2. SameBlocks(h, k, B)
    BY <2>1, RelinkTiles
  <2> QED
    BY <2>2 DEF SameBlocks
<1>6. JoinFirst(k, b) = JoinFirst(h, b) /\ JoinEnd(k, b) = JoinEnd(h, b)
  BY <1>5, JoinKept
<1>7. OnlyTouching(k, B, b)
  <2> SUFFICES ASSUME NEW c \in B \ {k.mem_brk}, Used(k, c) = 0, c # b, After(k, c) # b
               PROVE  Used(k, After(k, c)) = 1
    BY DEF OnlyTouching
  <2>1. c \in B \ {h.mem_brk} /\ Used(h, c) = 0 /\ After(h, c) # b /\ After(k, c) = After(h, c)
    BY <1>5
  <2>2. Used(h, After(h, c)) = 1 /\ After(h, c) \in B
    BY <2>1, BlockFacts DEF OnlyTouching
  <2> QED
    BY <1>5, <2>1, <2>2
<1>8. PICK j : j = Joined(k, b)
  OBVIOUS
<1>9. PICK C : C = Fused(B, JoinFirst(h, b), JoinEnd(h, b))
  OBVIOUS
<1>10. /\ Tiling(j, C) /\ Coalesced(j, C)
       /\ j.mem_brk = h.mem_brk /\ j.free_listp = k.free_listp
       /\ InUse(j, C) = InUse(h, B)
       /\ \A c \in B \ {h.mem_brk} : Untouched(k, j, c)
       /\ \A c \in InUse(h, B) : After(j, c) = After(k, c)
       /\ j.ret = JoinFirst(h, b) /\ j.ret \in C \ {heap_listp, h.mem_brk}
       /\ Used(j, j.ret) = 0 /\ After(j, j.ret) = JoinEnd(h, b)
  <2>1. b \in B \ {heap_listp, k.mem_brk} /\ Used(k, b) = 0
    BY <1>5
  <2> QED
    BY <1>5, <1>6, <1>7, <1>8, <1>9, <2>1, JoinedCoalesces
<1>11. Listing(j, E)
  <2>1. E \subseteq FreeIn(k, B) /\ Listing(k, E)
    BY <1>1, <1>2, <1>4, <1>5
  <2>2. \A c \in E : c \in B \ {h.mem_brk}
    BY <1>1, <1>2, FreeIsUnused
  <2>3. \A c \in E : Untouched(k, j, c)
    BY <1>10, <2>2
  <2> QED
    BY <1>5, <1>10, <2>1, <2>3, ListUntouched
<1>12. j.ret \notin E /\ FreeIn(j, C) = E \cup {j.ret}
  <2>1. /\ \A c \in E : c \in C /\ c # j.ret
        /\ \A c \in FreeIn(h, B) : c \in C => c \in E \cup {j.ret}
    <3>1. PICK first : first = JoinFirst(h, b)
      OBVIOUS
    <3>2. E = (FreeIn(h, B) \ {b}) \ {After(h, b), PREV_BLKP(h, b)}
      BY <1>1, <1>2
    <3>3. /\ \A c \in E : c \in Fused(B, first, JoinEnd(h, b)) /\ c # first
          /\ \A c \in FreeIn(h, B) : c \in Fused(B, first, JoinEnd(h, b)) => c \in E \cup {first}
      BY <3>1, <3>2, FreeButJoined
    <3> QED
      BY <1>9, <1>10, <3>1, <3>3
  <2>2. C \subseteq B
    BY <1>9 DEF Fused
  <2>3. FreeIn(j, C) = {c \in C \ {h.mem_brk} : c \notin InUse(h, B)}
    BY <1>10, FreeIsUnused
  <2>4. FreeIn(h, B) = {c \in B \ {h.mem_brk} : c \notin InUse(h, B)}
    BY FreeIsUnused
  <2>5. j.ret \in FreeIn(j, C)
    BY <1>10 DEF FreeIn
  <2>6. E \subseteq FreeIn(h, B)
    BY <1>1, <1>2
  <2> QED
    BY <2>1, <2>2, <2>3, <2>4, <2>5, <2>6
<1>13. PICK p : p = j.ret
  OBVIOUS
<1>14. g = Mm!insertBlock(j, p)
  BY <1>4, <1>8, <1>13
<1>15. /\ Sound(j, C) /\ p \in FreeIn(j, C) /\ Listing(j, FreeIn(j, C) \ {p})
  <2>1. FreeIn(j, C) \ {p} = E
    BY <1>12, <1>13
  <2> QED
    BY <1>10, <1>11, <1>12, <1>13, <2>1 DEF Sound
<1>16. /\ Tidy(g, C) /\ g.mem_brk = j.mem_brk /\ g.ret = j.ret
       /\ \A c \in C : Used(g, c) = Used(j, c) /\ After(g, c) = After(j, c)
       /\ InUse(g, C) = InUse(j, C)
       /\ Keeps(j, g, InUse(j, C))
  BY <1>14, <1>15, InsertTidies
<1>17. Keeps(h, g, InUse(h, B))
  <2>1. Keeps(k, j, InUse(h, B))
    BY <1>10 DEF Keeps, InUse
  <2>2. Keeps(h, j, InUse(h, B))
    BY <1>5, <2>1, KeepsOn
  <2>3. Keeps(j, g, InUse(h, B))
    BY <1>10, <1>16
  <2> QED
    BY <2>2, <2>3, KeepsOn
<1>18. FreeIn(g, C) \subseteq (FreeIn(h, B) \ {b}) \cup {g.ret}
  <2>1. FreeIn(g, C) = FreeIn(j, C)
    BY <1>16 DEF FreeIn
  <2> QED
    BY <1>1, <1>2, <1>12, <1>16, <2>1
<1> QED
  BY <1>10, <1>16, <1>17, <1>18 DEF Coalesces

(* What its callers need of that.                                          *)
LEMMA MmCoalesces ==
    ASSUME NEW h, NEW B, Tiling(h, B), NEW b \in B \ {heap_listp, h.mem_brk}, Used(h, b) = 0,
           OnlyTouching(h, B, b), ListedBut(h, B, b),
           NEW g, g = Mm!coalesce(h, b)
    PROVE  \E C :
             /\ Tidy(g, C)
             /\ InUse(g, C) = InUse(h, B)
             /\ g.mem_brk = h.mem_brk
             /\ Keeps(h, g, InUse(h, B))
             /\ g.ret = JoinFirst(h, b) /\ g.ret \in C \ {heap_listp, h.mem_brk}
             /\ Used(g, g.ret) = 0 /\ After(g, g.ret) = JoinEnd(h, b)
BY MmJoins DEF Coalesces

(* The block at b is what the heap grows by, and A the blocks then. *)
Growing(h, B, words, k, b, A) ==
    /\ words \in Nat /\ words >= 4 /\ h.mem_brk + Bytes(words) <= mem_max_addr
    /\ k = Grown(h, words) /\ b = h.mem_brk /\ A = B \cup {k.mem_brk}

(* It is free and not listed yet. *)
LEMMA GrownUnlisted ==
    ASSUME NEW h, NEW B, Tidy(h, B), NEW words, NEW k, NEW b, NEW A, Growing(h, B, words, k, b, A)
    PROVE  /\ Tiling(k, A) /\ b \in A \ {heap_listp, k.mem_brk} /\ Used(k, b) = 0
           /\ OnlyTouching(k, A, b) /\ ListedBut(k, A, b)
           /\ InUse(k, A) = InUse(h, B) /\ Keeps(h, k, InUse(h, B))
           /\ k.ret = b /\ k.mem_brk = b + Bytes(words) /\ After(k, b) = k.mem_brk
           /\ b \in Nat /\ Bytes(words) \in Nat
<1> DEFINE e == b + Bytes(words)
           S == InUse(h, B)
<1>0. /\ words \in Nat /\ words >= 4 /\ h.mem_brk + Bytes(words) <= mem_max_addr
      /\ k = Grown(h, words) /\ b = h.mem_brk /\ A = B \cup {k.mem_brk}
  BY DEF Growing
<1>1. Tiling(h, B) /\ Coalesced(h, B) /\ Listing(h, FreeIn(h, B))
  BY DEF Tidy, Sound
<1>2. b \in B /\ heap_listp \in B /\ heap_listp < b
  BY <1>0, <1>1 DEF Tiling, Bounds
<1>3. /\ Tiling(k, A) /\ k.mem_brk = e /\ k.free_listp = h.free_listp /\ k.ret = b
      /\ e \notin B /\ Used(k, b) = 0 /\ After(k, b) = e /\ Bytes(words) \in Nat
      /\ \A c \in B \ {b} :
            Used(k, c) = Used(h, c) /\ After(k, c) = After(h, c) /\ Untouched(h, k, c)
  <2>1. h.mem_brk + Bytes(words) <= mem_max_addr /\ words \in Nat /\ words >= 4
    BY <1>0
  <2>2. LET b0 == h.mem_brk
            g == Grown(h, words)
        IN  /\ Tiling(g, B \cup {b0 + Bytes(words)}) /\ g.ret = b0
            /\ g.mem_brk = b0 + Bytes(words) /\ g.free_listp = h.free_listp
            /\ b0 + Bytes(words) \notin B /\ Bytes(words) \in Nat
            /\ Size(g, b0) = Bytes(words) /\ Used(g, b0) = 0
            /\ After(g, b0) = b0 + Bytes(words)
            /\ \A c \in B \ {b0} :
                  /\ Size(g, c) = Size(h, c) /\ Used(g, c) = Used(h, c)
                  /\ After(g, c) = After(h, c) /\ Untouched(h, g, c)
    BY <1>1, <2>1, GrownTiles
  <2> QED
    BY <1>0, <2>2
<1> HIDE DEF e
<1>4. /\ Used(k, k.mem_brk) = 1 /\ e \in A /\ Used(h, b) = 1 /\ e # b
      /\ heap_listp \in Nat /\ b \in Nat
  <2>1. Used(k, k.mem_brk) = 1 /\ k.mem_brk \in A
    BY <1>0, <1>2, <1>3, BlockFacts
  <2>2. Used(h, b) = 1 /\ heap_listp \in Nat /\ b \in Nat
    BY <1>0, <1>1, <1>2, BlockFacts
  <2> QED
    BY <1>0, <1>2, <1>3, <2>1, <2>2
<1>5. b \in A \ {heap_listp, k.mem_brk}
  BY <1>0, <1>2, <1>3, <1>4
<1>6. OnlyTouching(k, A, b)
  <2> SUFFICES ASSUME NEW c \in A \ {k.mem_brk}, Used(k, c) = 0, c # b, After(k, c) # b
               PROVE  Used(k, After(k, c)) = 1
    BY DEF OnlyTouching
  <2>1. c \in B \ {b} /\ Used(h, c) = 0 /\ After(h, c) # b
    BY <1>0, <1>3
  <2>2. Used(h, After(h, c)) = 1 /\ After(h, c) \in B
    BY <1>0, <1>1, <2>1 DEF Coalesced, Tiling, Chain
  <2> QED
    BY <1>3, <2>1, <2>2
<1>7. InUse(k, A) = S
  <2>1. \A c : c \in InUse(k, A) => c \in S
    BY <1>0, <1>3 DEF InUse
  <2>2. \A c : c \in S => c \in InUse(k, A)
    BY <1>0, <1>3 DEF InUse
  <2> HIDE DEF S
  <2> QED
    BY <2>1, <2>2
<1>8. Keeps(h, k, S)
  <2>1. \A c \in S : c \in B \ {b}
    BY <1>0 DEF InUse
  <2> HIDE DEF S
  <2> QED
    BY <1>3, <2>1 DEF Keeps
<1>9. FreeIn(k, A) \ {b} = FreeIn(h, B)
  <2>1. \A c : c \in FreeIn(k, A) \ {b} => c \in FreeIn(h, B)
    BY <1>0, <1>3, <1>4 DEF FreeIn
  <2>2. \A c : c \in FreeIn(h, B) => c \in FreeIn(k, A) \ {b}
    BY <1>0, <1>3, <1>4 DEF FreeIn
  <2> QED
    BY <2>1, <2>2, Zenon
<1>10. Listing(k, FreeIn(h, B))
  <2>1. \A c \in FreeIn(h, B) : Untouched(h, k, c)
    BY <1>0, <1>3, <1>4 DEF FreeIn
  <2>2. PICK F : F = FreeIn(h, B)
    OBVIOUS
  <2>3. F \subseteq FreeIn(h, B) /\ Listing(h, F) /\ \A c \in F : Untouched(h, k, c)
    BY <1>1, <2>1, <2>2
  <2>4. Listing(k, F)
    BY <1>1, <1>3, <2>3, ListUntouched
  <2> QED
    BY <2>2, <2>4
<1> QED
  BY <1>3, <1>4, <1>5, <1>6, <1>7, <1>8, <1>9, <1>10 DEF e, ListedBut

(* What extend_heap makes of a heap when it can grow. *)
HasGrown(h, B, g, bytes) ==
    \E C :
       /\ Tidy(g, C)
       /\ InUse(g, C) = InUse(h, B)
       /\ g.mem_brk = h.mem_brk + bytes
       /\ Keeps(h, g, InUse(h, B))
       /\ g.ret \in C /\ Used(g, g.ret) = 0 /\ g.ret \in Nat
       /\ g.ret <= h.mem_brk /\ After(g, g.ret) = g.mem_brk

(* extend_heap adds a number of bytes or leaves the heap alone. *)
LEMMA MmExtends ==
    ASSUME NEW h, NEW B, Tidy(h, B),
           NEW bytes \in Nat, bytes % 8 = 0, bytes >= 16,
           NEW g, g = Mm!extend_heap(h, bytes \div 4)
    PROVE  /\ h.mem_brk + bytes > mem_max_addr => Returning(h, g, NULL)
           /\ h.mem_brk + bytes <= mem_max_addr => HasGrown(h, B, g, bytes)
<1>1. PICK words : words = bytes \div 4
  OBVIOUS
<1>2. words \in Nat /\ words >= 4 /\ Bytes(words) = bytes
  BY <1>1 DEF Bytes, WSIZE
<1>3. PICK k : k = Grown(h, words)
  OBVIOUS
<1>4. /\ Tiling(h, B) /\ h \in Heaps /\ h.mem_brk \in B
      /\ h.mem_brk \in Nat /\ h.mem_brk # NULL
  <2>1. Tiling(h, B) /\ h \in Heaps /\ h.mem_brk \in B /\ heap_listp < h.mem_brk
    BY DEF Tidy, Sound, Tiling, Bounds
  <2>2. h.mem_brk \in Nat /\ heap_listp \in Nat
    BY <2>1, BlockFacts
  <2> QED
    BY <2>1, <2>2 DEF NULL
<1>5. g = IF k.ret = NULL THEN k ELSE Mm!coalesce(k, k.ret)
  <2>1. g = LET j == Mm!Grown(h, words) IN IF j.ret = Mm!NULL THEN j ELSE Mm!coalesce(j, j.ret)
    BY <1>1, Zenon DEF Mm!extend_heap
  <2> QED
    BY <1>3, <2>1, MmMemory, MmTags
<1>6. CASE h.mem_brk + bytes > mem_max_addr
  <2>1. k = [h EXCEPT !.ret = NULL]
    BY <1>2, <1>3, <1>4, <1>6, NotGrown
  <2>2. k.ret = NULL
    BY <1>4, <2>1 DEF Heaps
  <2>3. ~(h.mem_brk + bytes <= mem_max_addr)
    BY <1>4, <1>6, AreaAssumption DEF mem_max_addr
  <2> QED
    BY <1>5, <2>1, <2>2, <2>3 DEF Returning
<1>7. CASE h.mem_brk + bytes <= mem_max_addr
  <2>1. PICK b : b = h.mem_brk
    OBVIOUS
  <2>2. PICK A : A = B \cup {k.mem_brk}
    OBVIOUS
  <2>3. /\ Tiling(k, A) /\ b \in A \ {heap_listp, k.mem_brk} /\ Used(k, b) = 0
        /\ OnlyTouching(k, A, b) /\ ListedBut(k, A, b)
        /\ InUse(k, A) = InUse(h, B) /\ Keeps(h, k, InUse(h, B))
        /\ k.ret = b /\ k.mem_brk = b + bytes /\ After(k, b) = k.mem_brk
        /\ b \in Nat
    <3>1. h.mem_brk + Bytes(words) <= mem_max_addr
      BY <1>2, <1>7
    <3>2. words \in Nat /\ words >= 4
      BY <1>2
    <3>4. Growing(h, B, words, k, b, A)
      BY <1>3, <2>1, <2>2, <3>1, <3>2 DEF Growing
    <3>3. /\ Tiling(k, A) /\ b \in A \ {heap_listp, k.mem_brk} /\ Used(k, b) = 0
          /\ OnlyTouching(k, A, b) /\ ListedBut(k, A, b)
          /\ InUse(k, A) = InUse(h, B) /\ Keeps(h, k, InUse(h, B))
          /\ k.ret = b /\ k.mem_brk = b + Bytes(words) /\ After(k, b) = k.mem_brk
          /\ b \in Nat
      BY <3>4, GrownUnlisted
    <3> QED
      BY <1>2, <3>3
  <2>4. g = Mm!coalesce(k, b)
    BY <1>4, <1>5, <2>1, <2>3
  <2>5. PICK C : /\ Tidy(g, C)
                 /\ InUse(g, C) = InUse(k, A)
                 /\ g.mem_brk = k.mem_brk
                 /\ Keeps(k, g, InUse(k, A))
                 /\ g.ret = JoinFirst(k, b) /\ g.ret \in C \ {heap_listp, k.mem_brk}
                 /\ Used(g, g.ret) = 0 /\ After(g, g.ret) = JoinEnd(k, b)
    BY <2>3, <2>4, MmCoalesces
  <2>6. JoinEnd(k, b) = k.mem_brk
    <3>1. Used(k, k.mem_brk) = 1
      BY <2>2, <2>3, BlockFacts
    <3> QED
      BY <2>3, <3>1 DEF JoinEnd
  <2>7. g.ret <= b /\ g.ret \in Nat
    BY <2>3, <2>5, JoinBounds
  <2>8. Keeps(h, g, InUse(h, B))
    BY <2>3, <2>5, KeepsOn
  <2>9. HasGrown(h, B, g, bytes)
    BY <2>1, <2>3, <2>5, <2>6, <2>7, <2>8 DEF HasGrown
  <2>10. ~(h.mem_brk + bytes > mem_max_addr)
    BY <1>4, <1>7, AreaAssumption DEF mem_max_addr
  <2> QED
    BY <2>9, <2>10
<1> QED
  BY <1>4, <1>6, <1>7, AreaAssumption DEF mem_max_addr

-----------------------------------------------------------------------------
(* Blocks are placed and split.                                            *)

(* Where tags and links do not meet, they can be written in either order.  *)
LEMMA TagThenRelink ==
    ASSUME NEW h \in Heaps, NEW k, NEW b, NEW s, NEW f, Tagged(h, k, b, s, f),
           NEW g, NEW F, Relinks(k, g, F),
           \A p \in F : b - 4 # p /\ b - 4 # p + 4 /\ b + s - 8 # p /\ b + s - 8 # p + 4
    PROVE  \E x : /\ Relinks(h, x, F) /\ Tagged(x, g, b, s, f)
                  /\ \A p \in F : GET(x, p) = GET(g, p) /\ GET(x, p + 4) = GET(g, p + 4)
<1> DEFINE T == {b - 4, b + s - 8}
           x == [mem |-> [a \in Storage |-> IF a \in T THEN h.mem[a] ELSE g.mem[a]],
                 mem_brk |-> g.mem_brk, free_listp |-> g.free_listp, ret |-> g.ret]
<1>1. /\ k \in Heaps /\ k.mem_brk = h.mem_brk
      /\ \A a : GET(k, a) = IF a \in T THEN PACK(s, f) ELSE GET(h, a)
  BY DEF Tagged
<1>2. /\ g \in Heaps /\ g.mem_brk = k.mem_brk
      /\ \A a : (\A p \in F : a # p /\ a # p + 4) => GET(g, a) = GET(k, a)
  BY DEF Relinks
<1>3. x \in Heaps
  BY <1>2 DEF Heaps
<1>4. \A a : GET(x, a) = IF a \in T THEN GET(h, a) ELSE GET(g, a)
  BY DEF GET
<1>5. x.mem_brk = g.mem_brk /\ x.free_listp = g.free_listp
  OBVIOUS
<1> HIDE DEF x, T
<1>6. \A a \in T : \A p \in F : a # p /\ a # p + 4
  BY DEF T
<1>7. Relinks(h, x, F)
  BY <1>1, <1>2, <1>3, <1>4, <1>5, <1>6 DEF Relinks
<1>8. Tagged(x, g, b, s, f)
  <2>1. \A a : GET(g, a) = IF a \in T THEN PACK(s, f) ELSE GET(x, a)
    BY <1>1, <1>2, <1>4, <1>6
  <2> QED
    BY <1>2, <1>5, <2>1 DEF Tagged, T
<1>9. \A p \in F : GET(x, p) = GET(g, p) /\ GET(x, p + 4) = GET(g, p + 4)
  BY <1>4, <1>6
<1> QED
  BY <1>7, <1>8, <1>9

(* A free block that is tagged and then taken off the list might as well   *)
(* be taken off the list first.                                            *)
LEMMA TagThenRemove ==
    ASSUME NEW h, NEW B, Tidy(h, B), NEW b \in FreeIn(h, B),
           NEW s \in Nat, s % 8 = 0, MINIMUM <= s, s <= Size(h, b),
           NEW f, NEW k, Tagged(h, k, b, s, f), NEW g, g = Mm!removeBlock(k, b)
    PROVE  /\ \E x : /\ Sound(x, B) /\ ListedBut(x, B, b) /\ SameBlocks(h, x, B)
                    /\ Tagged(x, g, b, s, f)
           /\ Listing(k, FreeIn(h, B)) /\ k \in Heaps
<1>1. PICK F : F = FreeIn(h, B)
  OBVIOUS
<1>2. Tiling(h, B) /\ Coalesced(h, B) /\ Listing(h, F) /\ h \in Heaps /\ b \in F
  BY <1>1 DEF Tidy, Sound, Tiling, Bounds
<1>3. /\ b \in B \ {h.mem_brk} /\ b \in Nat /\ Size(h, b) \in Nat /\ Size(h, b) % 8 = 0
      /\ After(h, b) = b + Size(h, b) /\ After(h, b) \in B
  BY <1>2, FreeAreNodes, BlockFacts DEF After
<1>4. ASSUME NEW p \in F
      PROVE  b - 4 # p /\ b - 4 # p + 4 /\ b + s - 8 # p /\ b + s - 8 # p + 4
  <2>1. p \in FreeIn(h, B) /\ p \in Nat
    BY <1>1, <1>2, FreeAreNodes
  <2>2. b - 4 # p /\ b - 4 # p + 4
    BY <1>2, <1>3, <2>1, FreeAreNodes
  <2>3. CASE s = Size(h, b)
    BY <1>2, <1>3, <2>1, <2>2, <2>3, FreeAreNodes
  <2>4. CASE s # Size(h, b) /\ p = b
    BY <1>3, <2>1, <2>2, <2>4 DEF MINIMUM
  <2>5. CASE s # Size(h, b) /\ p # b
    <3>1. b + s - 8 \in b .. After(h, b) - 9
      BY <1>3, <2>5 DEF MINIMUM
    <3>2. b \in B \ {p, h.mem_brk}
      BY <1>3, <2>5
    <3> QED
      BY <1>2, <2>1, <2>2, <3>1, <3>2, FreeAreNodes
  <2> QED
    BY <2>3, <2>4, <2>5
<1>5. k \in Heaps /\ Listing(k, F)
  <2>1. /\ k \in Heaps /\ k.free_listp = h.free_listp
        /\ \A a : GET(k, a) = IF a \in {b - 4, b + s - 8} THEN PACK(s, f) ELSE GET(h, a)
    BY DEF Tagged
  <2>2. \A p \in F : GET(k, p) = GET(h, p) /\ GET(k, p + 4) = GET(h, p + 4)
    BY <1>4, <2>1
  <2> QED
    BY <1>2, <2>1, <2>2, ListStays
<1>6. Listing(g, F \ {b}) /\ Relinks(k, g, F)
  BY <1>2, <1>5, RemoveUnlinks
<1>7. \A p \in F : b - 4 # p /\ b - 4 # p + 4 /\ b + s - 8 # p /\ b + s - 8 # p + 4
  BY <1>4
<1>8. PICK x : /\ Relinks(h, x, F) /\ Tagged(x, g, b, s, f)
               /\ \A p \in F : GET(x, p) = GET(g, p) /\ GET(x, p + 4) = GET(g, p + 4)
  BY <1>2, <1>6, <1>7, TagThenRelink
<1>9. SameBlocks(h, x, B)
  <2>1. F \subseteq FreeIn(h, B)
    BY <1>1
  <2> QED
    BY <1>2, <1>8, <2>1, RelinkTiles
<1>10. Sound(x, B) /\ FreeIn(x, B) = F
  BY <1>1, <1>2, <1>9 DEF Sound, SameBlocks
<1>11. ListedBut(x, B, b)
  <2>1. PICK E : E = F \ {b}
    OBVIOUS
  <2>2. x.free_listp = g.free_listp
    BY <1>8 DEF Tagged
  <2>3. Listing(x, E)
    BY <1>6, <1>8, <2>1, <2>2, ListStays
  <2> QED
    BY <1>10, <2>1, <2>3 DEF ListedBut
<1> QED
  BY <1>1, <1>5, <1>8, <1>9, <1>10, <1>11

(* The block b has n bytes and is in use; what is left of it, from m on,   *)
(* is tagged free.                                                         *)
SplitAt(x, b, n, m, g) ==
    /\ Halves(x, b, n, m, Size(x, b) - n)
    /\ \E k : Tagged(x, k, b, n, 1) /\ Tagged(k, g, m, Size(x, b) - n, 0)

(* It is not listed yet, and nothing else has to be. *)
HalfFree(x, B, b, n, m, g, C) ==
    /\ Tiling(g, C) /\ m \in C \ {heap_listp, g.mem_brk} /\ Used(g, m) = 0
    /\ OnlyTouching(g, C, m) /\ ListedBut(g, C, m)
    /\ InUse(g, C) = InUse(x, B) \cup {b} /\ Keeps(x, g, InUse(x, B) \ {b})
    /\ g.mem_brk = x.mem_brk /\ After(g, b) = m /\ m = b + n
    /\ \A a \in b .. b + n - 9 : GET(g, a) = GET(x, a)

(* So it is with the tags. *)
LEMMA SplitUnlisted ==
    ASSUME NEW x, NEW B, Sound(x, B), NEW b \in B \ {heap_listp, x.mem_brk}, ListedBut(x, B, b),
           NEW n, NEW m, NEW g, SplitAt(x, b, n, m, g), NEW C, C = B \cup {m}
    PROVE  HalfFree(x, B, b, n, m, g, C)
<1>1. PICK r : r = Size(x, b) - n
  OBVIOUS
<1>2. PICK k : Halves(x, b, n, m, r) /\ Tagged(x, k, b, n, 1) /\ Tagged(k, g, m, r, 0)
  BY <1>1 DEF SplitAt
<1>3. Tiling(x, B) /\ Coalesced(x, B)
  BY DEF Sound
<1>4. /\ Tiling(g, C) /\ m \notin B
      /\ Used(g, b) = 1 /\ After(g, b) = m /\ Used(g, m) = 0
      /\ \A c \in B \ {b} : Used(g, c) = Used(x, c) /\ After(g, c) = After(x, c)
      /\ \A c \in B \ {b, x.mem_brk} : Untouched(x, g, c)
      /\ \A a \in b .. b + n - 9 : GET(g, a) = GET(x, a)
  BY <1>2, <1>3, SplitTiles
<1>5. g.mem_brk = x.mem_brk /\ g.free_listp = x.free_listp /\ m = b + n
  BY <1>2 DEF Tagged, Halves
<1>6. /\ heap_listp \in B /\ x.mem_brk \in B /\ Used(x, x.mem_brk) = 1
  BY <1>3, BlockFacts DEF Tiling, Bounds
<1>7. OnlyTouching(g, C, m)
  <2> SUFFICES ASSUME NEW c \in C \ {g.mem_brk}, Used(g, c) = 0, c # m, After(g, c) # m
               PROVE  Used(g, After(g, c)) = 1
    BY DEF OnlyTouching
  <2>1. c \in B \ {b, x.mem_brk}
    BY <1>4, <1>5
  <2>2. Used(x, c) = 0 /\ After(g, c) = After(x, c) /\ After(x, c) \in B
    BY <1>3, <1>4, <2>1, BlockFacts
  <2>3. Used(x, After(x, c)) = 1
    BY <1>3, <2>1, <2>2 DEF Coalesced
  <2> QED
    BY <1>4, <2>2, <2>3
<1>8. InUse(g, C) = InUse(x, B) \cup {b}
  <2>1. \A c : c \in InUse(g, C) => c \in InUse(x, B) \cup {b}
    BY <1>4, <1>5 DEF InUse
  <2>2. \A c : c \in InUse(x, B) \cup {b} => c \in InUse(g, C)
    BY <1>4, <1>5 DEF InUse
  <2> QED
    BY <2>1, <2>2, Zenon
<1>9. Keeps(x, g, InUse(x, B) \ {b})
  <2> SUFFICES ASSUME NEW c \in InUse(x, B) \ {b}
               PROVE  After(g, c) = After(x, c) /\ Untouched(x, g, c)
    BY DEF Keeps
  <2>1. c \in B \ {b, x.mem_brk}
    BY DEF InUse
  <2> QED
    BY <1>4, <2>1
<1>10. ListedBut(g, C, m)
  <2>1. PICK F : F = FreeIn(x, B) \ {b}
    OBVIOUS
  <2>2. F \subseteq FreeIn(x, B) /\ Listing(x, F)
    BY <2>1 DEF ListedBut
  <2>3. \A c \in F : c \in B \ {b, x.mem_brk}
    BY <1>6, <2>1 DEF FreeIn
  <2>4. \A c \in F : Untouched(x, g, c)
    BY <1>4, <2>3
  <2>5. Listing(g, F)
    BY <1>3, <1>5, <2>2, <2>4, ListUntouched
  <2>6. FreeIn(g, C) \ {m} = F
    <3>1. \A c : c \in FreeIn(g, C) \ {m} => c \in F
      BY <1>4, <2>1 DEF FreeIn
    <3>2. \A c : c \in F => c \in FreeIn(g, C) \ {m}
      BY <1>4, <2>1, <2>3 DEF FreeIn
    <3> QED
      BY <3>1, <3>2, Zenon
  <2> QED
    BY <2>5, <2>6 DEF ListedBut
<1>11. m \in C \ {heap_listp, g.mem_brk}
  BY <1>4, <1>5, <1>6
<1> QED
  BY <1>4, <1>5, <1>7, <1>8, <1>9, <1>10, <1>11 DEF HalfFree

(* The block b has n bytes and is in use, and the heap is in order. *)
WasSplit(x, B, b, n, g) ==
    \E C : /\ Tidy(g, C)
           /\ InUse(g, C) = InUse(x, B) \cup {b} /\ Keeps(x, g, InUse(x, B) \ {b})
           /\ g.mem_brk = x.mem_brk /\ After(g, b) = b + n
           /\ \A a \in b .. b + n - 9 : GET(g, a) = GET(x, a)

(* coalesce lists the rest, and what it joins. *)
LEMMA SplitTidies ==
    ASSUME NEW x, NEW B, Sound(x, B), NEW b \in B \ {heap_listp, x.mem_brk}, ListedBut(x, B, b),
           NEW n, NEW m, NEW k, SplitAt(x, b, n, m, k), NEW g, g = Mm!coalesce(k, m)
    PROVE  WasSplit(x, B, b, n, g)
<1>1. PICK A : A = B \cup {m}
  OBVIOUS
<1>2. /\ Tiling(k, A) /\ m \in A \ {heap_listp, k.mem_brk} /\ Used(k, m) = 0
      /\ OnlyTouching(k, A, m) /\ ListedBut(k, A, m)
      /\ InUse(k, A) = InUse(x, B) \cup {b} /\ Keeps(x, k, InUse(x, B) \ {b})
      /\ k.mem_brk = x.mem_brk /\ After(k, b) = m /\ m = b + n
      /\ \A a \in b .. b + n - 9 : GET(k, a) = GET(x, a)
  <2>1. HalfFree(x, B, b, n, m, k, A)
    BY <1>1, SplitUnlisted
  <2> QED
    BY <2>1 DEF HalfFree
<1>3. PICK C : /\ Tidy(g, C)
               /\ InUse(g, C) = InUse(k, A)
               /\ g.mem_brk = k.mem_brk
               /\ Keeps(k, g, InUse(k, A))
  BY <1>2, MmCoalesces
<1>4. PICK S : S = InUse(x, B) \ {b}
  OBVIOUS
<1>5. Keeps(x, g, S)
  <2>1. S \subseteq InUse(k, A) /\ Keeps(x, k, S)
    BY <1>2, <1>4
  <2>2. Keeps(k, g, S)
    BY <1>3, <2>1 DEF Keeps
  <2>3. S \subseteq S
    OBVIOUS
  <2> QED
    BY <2>1, <2>2, <2>3, KeepsOn
<1>6. b \in InUse(k, A)
  BY <1>2
<1>7. After(g, b) = b + n /\ \A a \in b .. b + n - 9 : GET(g, a) = GET(x, a)
  <2>1. After(g, b) = After(k, b) /\ Untouched(k, g, b)
    BY <1>3, <1>6 DEF Keeps
  <2>2. \A a \in b .. b + n - 9 : GET(g, a) = GET(k, a)
    <3>1. After(k, b) = b + n /\ b \in Nat /\ n \in Nat
      BY <1>2, BlockFacts DEF Sound, SplitAt, Halves
    <3> QED
      BY <2>1, <3>1 DEF Untouched
  <2> QED
    BY <1>2, <2>1, <2>2
<1> QED
  BY <1>2, <1>3, <1>4, <1>5, <1>7 DEF WasSplit

(* The free blocks are listed, but for those from b on and before e. *)
ListedAround(x, B, b, e) == Listing(x, FreeIn(x, Fused(B, b, e)) \ {b})

(* The blocks from b on and before e have become one in use. *)
Fuses(x, B, b, e, g) ==
    /\ b \in B \ {heap_listp} /\ e \in B /\ b < e
    /\ Tagged(x, g, b, e - b, 1)

(* What is so when they have. *)
OneInUse(x, B, b, e, g, C) ==
    /\ Tidy(g, C) /\ g.mem_brk = x.mem_brk
    /\ \A c : c \in InUse(g, C) <=> c = b \/ (c \in InUse(x, B) /\ c \in C)
    /\ After(g, b) = e
    /\ \A c \in InUse(x, B) : c \in C /\ c # b => After(g, c) = After(x, c)
    /\ \A c \in B \ {x.mem_brk} : Untouched(x, g, c)

(* The heap is in order then, if they were not listed. *)
LEMMA FuseTidies ==
    ASSUME NEW x, NEW B, Sound(x, B), NEW b, NEW e, NEW g, Fuses(x, B, b, e, g),
           ListedAround(x, B, b, e), NEW C, C = Fused(B, b, e)
    PROVE  OneInUse(x, B, b, e, g, C)
<1>1. /\ b \in B \ {heap_listp} /\ e \in B /\ b < e /\ 1 \in {0, 1}
      /\ Tagged(x, g, b, e - b, 1)
  BY DEF Fuses
<1>2. Tiling(x, B) /\ Coalesced(x, B)
  BY DEF Sound
<1>3. /\ Tiling(g, C) /\ Used(g, b) = 1 /\ After(g, b) = e
      /\ \A c \in C \ {b} : Used(g, c) = Used(x, c) /\ After(g, c) = After(x, c)
  BY <1>1, <1>2, FuseTiles
<1>4. \A c \in B \ {x.mem_brk} : Untouched(x, g, c)
  BY <1>1, <1>2, TagsSpareContents
<1>5. g.mem_brk = x.mem_brk /\ g.free_listp = x.free_listp
  BY <1>1 DEF Tagged
<1>6. C \subseteq B
  BY DEF Fused
<1>7. b \in C /\ x.mem_brk \in C /\ b # x.mem_brk /\ Used(x, x.mem_brk) = 1
  <2>1. b \in Nat /\ e \in Nat /\ x.mem_brk \in Nat /\ e <= x.mem_brk /\ x.mem_brk \in B
    BY <1>1, <1>2, BlockFacts DEF Tiling, Bounds
  <2>2. Used(x, x.mem_brk) = 1
    BY <1>2, <2>1, BlockFacts
  <2> QED
    BY <1>1, <2>1, <2>2 DEF Fused
<1>8. Coalesced(g, C)
  <2> SUFFICES ASSUME NEW c \in C \ {g.mem_brk}, Used(g, c) = 0
               PROVE  Used(g, After(g, c)) = 1
    BY DEF Coalesced
  <2>1. c # b /\ c \in B \ {x.mem_brk} /\ Used(x, c) = 0 /\ After(g, c) = After(x, c)
    BY <1>3, <1>5, <1>6
  <2>2. After(g, c) \in C
    BY <1>3, BlockFacts
  <2>3. Used(x, After(x, c)) = 1
    BY <1>2, <2>1 DEF Coalesced
  <2> QED
    BY <1>3, <2>1, <2>2, <2>3
<1>9. ASSUME NEW c
      PROVE  c \in InUse(g, C) <=> c = b \/ (c \in InUse(x, B) /\ c \in C)
  BY <1>3, <1>5, <1>6, <1>7 DEF InUse
<1>10. Listing(g, FreeIn(g, C))
  <2>1. PICK F : F = FreeIn(x, C) \ {b}
    OBVIOUS
  <2>2. F \subseteq FreeIn(x, B) /\ Listing(x, F)
    BY <1>6, <2>1 DEF ListedAround, FreeIn
  <2>3. \A c \in F : c \in B \ {x.mem_brk}
    BY <1>6, <1>7, <2>1 DEF FreeIn
  <2>4. \A c \in F : Untouched(x, g, c)
    BY <1>4, <2>3
  <2>5. Listing(g, F)
    BY <1>2, <1>5, <2>2, <2>4, ListUntouched
  <2>6. FreeIn(g, C) = F
    <3>1. \A c : c \in FreeIn(g, C) <=> c \in F
      BY <1>3, <2>1 DEF FreeIn
    <3> QED
      BY <3>1 DEF FreeIn
  <2> QED
    BY <2>5, <2>6
<1>11. \A c \in InUse(x, B) : c \in C /\ c # b => After(g, c) = After(x, c)
  BY <1>3
<1> QED
  BY <1>3, <1>4, <1>5, <1>8, <1>9, <1>10, <1>11 DEF OneInUse, Tidy, Sound

(* The free block b of h is in use in g, and nothing of it is wasted. *)
HasPlaced(h, B, b, n, g) ==
    \E C : /\ Tidy(g, C)
           /\ InUse(g, C) = InUse(h, B) \cup {b} /\ b \notin InUse(h, B)
           /\ g.mem_brk = h.mem_brk
           /\ Keeps(h, g, InUse(h, B))
           /\ After(g, b) = TakenTo(b, After(h, b), n)

(* What place does with all of a block. *)
LEMMA MmPlacesWhole ==
    ASSUME NEW h, NEW B, Tidy(h, B), NEW b, NEW n, RoomFor(h, B, b, n),
           ~(Size(h, b) - n >= MINIMUM),
           NEW k, Tagged(h, k, b, Size(h, b), 1), NEW g, g = Mm!removeBlock(k, b)
    PROVE  HasPlaced(h, B, b, n, g)
<1>1. /\ b \in FreeIn(h, B) /\ n \in Nat /\ n % 8 = 0 /\ MINIMUM <= n /\ n <= Size(h, b)
  BY DEF RoomFor, FreeIn
<1>2. Tiling(h, B) /\ Coalesced(h, B)
  BY DEF Tidy, Sound
<1>3. /\ b \in B \ {heap_listp, h.mem_brk} /\ b \in Nat
      /\ Size(h, b) \in Nat /\ Size(h, b) % 8 = 0
      /\ After(h, b) = b + Size(h, b) /\ After(h, b) \in B /\ b < After(h, b)
      /\ \A c \in B : c \in Nat /\ (b < c => After(h, b) <= c)
  <2>1. b \in B \ {heap_listp, h.mem_brk}
    BY <1>1, <1>2, FreeAreNodes
  <2> QED
    BY <1>2, <2>1, BlockFacts DEF After
<1>4. MINIMUM <= Size(h, b) /\ Size(h, b) <= Size(h, b)
  BY <1>1, <1>3 DEF MINIMUM
<1>5. PICK s : s = Size(h, b)
  OBVIOUS
<1>6. PICK x : Sound(x, B) /\ ListedBut(x, B, b) /\ SameBlocks(h, x, B) /\ Tagged(x, g, b, s, 1)
  BY <1>1, <1>3, <1>4, <1>5, TagThenRemove
<1>7. PICK e : e = After(h, b)
  OBVIOUS
<1>8. Fuses(x, B, b, e, g)
  <2>1. e - b = s
    BY <1>3, <1>5, <1>7
  <2> QED
    BY <1>3, <1>6, <1>7, <2>1 DEF Fuses
<1>9. B = Fused(B, b, e)
  <2>1. \A c \in B : c <= b \/ e <= c
    BY <1>3, <1>7
  <2> QED
    BY <2>1 DEF Fused
<1>10. ListedAround(x, B, b, e)
  BY <1>6, <1>9 DEF ListedAround, ListedBut
<1>11. OneInUse(x, B, b, e, g, B)
  BY <1>6, <1>8, <1>9, <1>10, FuseTidies
<1>12. /\ x.mem_brk = h.mem_brk /\ InUse(x, B) = InUse(h, B) /\ Keeps(h, x, InUse(h, B))
  BY <1>6 DEF SameBlocks
<1>13. b \notin InUse(h, B)
  BY <1>1 DEF InUse, FreeIn
<1>14. InUse(g, B) = InUse(h, B) \cup {b}
  <2>1. \A c : c \in InUse(g, B) <=> c \in InUse(h, B) \cup {b}
    BY <1>11, <1>12 DEF OneInUse, InUse
  <2> QED
    BY <2>1 DEF InUse
<1>15. Keeps(h, g, InUse(h, B))
  <2>1. \A c \in InUse(h, B) : c \in B \ {h.mem_brk} /\ c # b
    BY <1>13 DEF InUse
  <2>2. Keeps(x, g, InUse(h, B))
    BY <1>11, <1>12, <2>1 DEF OneInUse, Keeps
  <2> QED
    BY <1>12, <2>2, KeepsOn
<1>16. After(g, b) = TakenTo(b, After(h, b), n)
  <2>1. After(h, b) - b - n = Size(h, b) - n
    BY <1>1, <1>3
  <2> QED
    BY <1>7, <1>11, <2>1 DEF OneInUse, TakenTo
<1> QED
  BY <1>11, <1>12, <1>13, <1>14, <1>15, <1>16 DEF OneInUse, HasPlaced

(* What it does with the first n bytes of a block. *)
LEMMA MmPlacesHalf ==
    ASSUME NEW h, NEW B, Tidy(h, B), NEW b, NEW n, RoomFor(h, B, b, n),
           Size(h, b) - n >= MINIMUM, NEW m, m = b + n, NEW r, r = Size(h, b) - n,
           NEW j, Tagged(h, j, b, n, 1), NEW k, Tagged(Mm!removeBlock(j, b), k, m, r, 0),
           NEW g, g = Mm!coalesce(k, m)
    PROVE  HasPlaced(h, B, b, n, g)
<1>1. /\ b \in FreeIn(h, B) /\ n \in Nat /\ n % 8 = 0 /\ MINIMUM <= n /\ n <= Size(h, b)
  BY DEF RoomFor, FreeIn
<1>2. Tiling(h, B) /\ Coalesced(h, B)
  BY DEF Tidy, Sound
<1>3. /\ b \in B \ {heap_listp, h.mem_brk} /\ b \in Nat
      /\ Size(h, b) \in Nat /\ Size(h, b) % 8 = 0
      /\ After(h, b) = b + Size(h, b)
  <2>1. b \in B \ {heap_listp, h.mem_brk}
    BY <1>1, <1>2, FreeAreNodes
  <2> QED
    BY <1>2, <2>1, BlockFacts DEF After
<1>4. PICK i : i = Mm!removeBlock(j, b)
  OBVIOUS
<1>5. PICK x : Sound(x, B) /\ ListedBut(x, B, b) /\ SameBlocks(h, x, B) /\ Tagged(x, i, b, n, 1)
  BY <1>1, <1>4, TagThenRemove
<1>6. /\ x.mem_brk = h.mem_brk /\ InUse(x, B) = InUse(h, B) /\ Keeps(h, x, InUse(h, B))
      /\ Size(x, b) = Size(h, b)
  BY <1>3, <1>5 DEF SameBlocks
<1>7. SplitAt(x, b, n, m, k)
  <2>1. Halves(x, b, n, m, Size(x, b) - n)
    BY <1>1, <1>3, <1>6 DEF Halves, MINIMUM
  <2>2. Tagged(i, k, m, Size(x, b) - n, 0)
    BY <1>4, <1>6
  <2> QED
    BY <1>5, <2>1, <2>2 DEF SplitAt
<1>8. b \in B \ {heap_listp, x.mem_brk}
  BY <1>3, <1>6
<1>9. PICK C :
        /\ Tidy(g, C)
        /\ InUse(g, C) = InUse(x, B) \cup {b} /\ Keeps(x, g, InUse(x, B) \ {b})
        /\ g.mem_brk = x.mem_brk /\ After(g, b) = b + n
  <2>1. WasSplit(x, B, b, n, g)
    BY <1>5, <1>7, <1>8, SplitTidies
  <2> QED
    BY <2>1 DEF WasSplit
<1>10. b \notin InUse(h, B)
  BY <1>1 DEF InUse, FreeIn
<1>11. Keeps(h, g, InUse(h, B))
  <2>1. InUse(x, B) \ {b} = InUse(h, B)
    BY <1>6, <1>10
  <2>2. Keeps(x, g, InUse(h, B))
    BY <1>9, <2>1
  <2> QED
    BY <1>6, <2>2, KeepsOn
<1>12. After(g, b) = TakenTo(b, After(h, b), n)
  <2>1. After(h, b) - b - n = Size(h, b) - n
    BY <1>1, <1>3
  <2> QED
    BY <1>9, <2>1 DEF TakenTo
<1> QED
  BY <1>6, <1>9, <1>10, <1>11, <1>12 DEF HasPlaced

(* What place computes: all of the block b leaves the list, or its first n *)
(* bytes do.                                                               *)
TakesWhole(h, b, n, g) ==
    /\ ~(Size(h, b) - n >= MINIMUM)
    /\ \E k : Tagged(h, k, b, Size(h, b), 1) /\ g = Mm!removeBlock(k, b)

TakesHalf(h, b, n, g) ==
    /\ Size(h, b) - n >= MINIMUM
    /\ \E j, k : /\ Tagged(h, j, b, n, 1)
                 /\ Tagged(Mm!removeBlock(j, b), k, b + n, Size(h, b) - n, 0)
                 /\ g = Mm!coalesce(k, b + n)

(* It computes one of these. *)
LEMMA MmPlaceIs ==
    ASSUME NEW h, NEW B, Tidy(h, B), NEW b, NEW n, RoomFor(h, B, b, n),
           NEW g, g = Mm!place(h, b, n)
    PROVE  TakesWhole(h, b, n, g) \/ TakesHalf(h, b, n, g)
<1>1. /\ b \in FreeIn(h, B) /\ n \in Nat /\ n % 8 = 0 /\ MINIMUM <= n /\ n <= Size(h, b)
  BY DEF RoomFor, FreeIn
<1>2. Tiling(h, B)
  BY DEF Tidy, Sound
<1>3. /\ h \in Heaps /\ b \in B /\ b \in Nat /\ b % 8 = 0 /\ mem_start_brk < b
      /\ Size(h, b) \in Nat /\ Size(h, b) % 8 = 0 /\ b + Size(h, b) <= mem_max_addr
      /\ mem_max_addr \in Nat /\ mem_start_brk \in Nat
  <2>1. b \in B \ {heap_listp, h.mem_brk}
    BY <1>1, <1>2, FreeAreNodes
  <2>2. /\ b \in Nat /\ b % 8 = 0 /\ heap_listp <= b /\ heap_listp = mem_start_brk + 8
        /\ h \in Heaps /\ h.mem_brk \in Nat /\ h.mem_brk <= mem_max_addr /\ heap_listp \in Nat
        /\ Size(h, b) \in Nat /\ Size(h, b) % 8 = 0
        /\ b + Size(h, b) \in Nat /\ b + Size(h, b) <= h.mem_brk
    BY <1>2, <2>1, BlockFacts DEF After
  <2>3. mem_max_addr \in Nat /\ mem_start_brk \in Nat
    BY AreaAssumption DEF mem_max_addr
  <2> QED
    BY <2>1, <2>2, <2>3
<1>4. HDRP(b) = b - 4 /\ GET_SIZE(h, HDRP(b)) = Size(h, b)
  BY <1>2, <1>3, TagsTell
<1>5. Mm!DSIZE + Mm!OVERHEAD = MINIMUM
  BY MmMemory DEF MINIMUM
<1>6. g = IF Size(h, b) - n >= MINIMUM
          THEN LET i == Mm!removeBlock(Tag(h, b, n, 1), b)
                   k == Tag(i, NEXT_BLKP(i, b), Size(h, b) - n, 0)
               IN  Mm!coalesce(k, NEXT_BLKP(k, b))
          ELSE Mm!removeBlock(Tag(h, b, Size(h, b), 1), b)
  <2>1. /\ Mm!GET_SIZE(h, Mm!HDRP(b)) = Size(h, b)
        /\ \A i, p, s, f : Mm!Tag(i, p, s, f) = Tag(i, p, s, f)
        /\ \A i, p : Mm!NEXT_BLKP(i, p) = NEXT_BLKP(i, p)
    BY <1>4, MmTags
  <2> QED
    BY <1>5, <2>1 DEF Mm!place
<1>7. CASE ~(Size(h, b) - n >= MINIMUM)
  <2>1. PICK k : k = Tag(h, b, Size(h, b), 1)
    OBVIOUS
  <2>2. Size(h, b) > 0
    BY <1>1, <1>3 DEF MINIMUM
  <2>3. Tagged(h, k, b, Size(h, b), 1)
    BY <1>3, <2>1, <2>2, TagTags
  <2>4. g = Mm!removeBlock(k, b)
    BY <1>6, <1>7, <2>1
  <2> QED
    BY <1>7, <2>3, <2>4 DEF TakesWhole
<1>8. CASE Size(h, b) - n >= MINIMUM
  <2>1. PICK m : m = b + n
    OBVIOUS
  <2>2. PICK r : r = Size(h, b) - n
    OBVIOUS
  <2>3. PICK j : j = Tag(h, b, n, 1)
    OBVIOUS
  <2>4. PICK i : i = Mm!removeBlock(j, b)
    OBVIOUS
  <2>5. PICK k : k = Tag(i, NEXT_BLKP(i, b), r, 0)
    OBVIOUS
  <2>6. /\ n > 0 /\ b + n <= mem_max_addr /\ b + n \in Nat
        /\ r \in Nat /\ r % 8 = 0 /\ r > 0 /\ m \in Nat /\ m % 8 = 0
        /\ mem_start_brk < m /\ m + r <= mem_max_addr
    BY <1>1, <1>3, <1>8, <2>1, <2>2 DEF MINIMUM
  <2>7. Tagged(h, j, b, n, 1)
    BY <1>1, <1>3, <2>3, <2>6, TagTags
  <2>8. PICK x : Tagged(x, i, b, n, 1)
    BY <1>1, <2>4, <2>7, TagThenRemove
  <2>9. NEXT_BLKP(i, b) = m /\ i \in Heaps
    <3>1. GET(i, b - 4) = PACK(n, 1) /\ i \in Heaps
      BY <2>8 DEF Tagged
    <3>2. GET_SIZE(i, HDRP(b)) = n
      BY <1>1, <1>4, <3>1, PackIsTag DEF GET_SIZE
    <3> QED
      BY <2>1, <2>6, <3>1, <3>2, InSpan DEF NEXT_BLKP
  <2>10. Tagged(i, k, m, r, 0)
    <3>1. k = Tag(i, m, r, 0)
      BY <2>5, <2>9
    <3> QED
      BY <2>6, <2>9, <3>1, TagTags
  <2>11. NEXT_BLKP(k, b) = m
    <3>1. GET(k, b - 4) = PACK(n, 1)
      <4>1. GET(i, b - 4) = PACK(n, 1)
        BY <2>8 DEF Tagged
      <4>2. b - 4 # m - 4 /\ b - 4 # m + r - 8
        BY <1>1, <1>3, <1>8, <2>1, <2>2 DEF MINIMUM
      <4>3. GET(k, b - 4) = GET(i, b - 4)
        BY <2>10, <4>2 DEF Tagged
      <4> QED
        BY <4>1, <4>3
    <3>2. GET_SIZE(k, HDRP(b)) = n
      BY <1>1, <1>4, <3>1, PackIsTag DEF GET_SIZE
    <3> QED
      BY <2>1, <2>6, <3>2, InSpan DEF NEXT_BLKP
  <2>12. g = Mm!coalesce(k, m)
    BY <1>6, <1>8, <2>2, <2>3, <2>4, <2>5, <2>11
  <2>13. Tagged(Mm!removeBlock(j, b), k, m, r, 0)
    BY <2>4, <2>10
  <2> QED
    BY <1>8, <2>1, <2>2, <2>7, <2>12, <2>13 DEF TakesHalf
<1> QED
  BY <1>7, <1>8

(* place splits the block or takes all of it. *)
LEMMA MmPlaces ==
    ASSUME NEW h, NEW B, Tidy(h, B), NEW b, NEW n, RoomFor(h, B, b, n),
           NEW g, g = Mm!place(h, b, n)
    PROVE  HasPlaced(h, B, b, n, g)
<1>1. CASE TakesWhole(h, b, n, g)
  BY <1>1, MmPlacesWhole DEF TakesWhole
<1>2. CASE TakesHalf(h, b, n, g)
  <2>1. PICK j, k : /\ Tagged(h, j, b, n, 1)
                    /\ Tagged(Mm!removeBlock(j, b), k, b + n, Size(h, b) - n, 0)
                    /\ g = Mm!coalesce(k, b + n)
    BY <1>2 DEF TakesHalf
  <2>2. Size(h, b) - n >= MINIMUM
    BY <1>2 DEF TakesHalf
  <2> QED
    BY <2>1, <2>2, MmPlacesHalf
<1> QED
  BY <1>1, <1>2, MmPlaceIs

-----------------------------------------------------------------------------
(* The list as find_fit follows it.                                        *)

(* There is a list of every length. *)
LEMMA ListUnfolds ==
    ASSUME NEW h, NEW list, list = Mm!Listed(h)
    PROVE  /\ list[0] = h.free_listp
           /\ \A n \in Steps : n + 1 \in Steps =>
                 list[n + 1] = IF list[n] = NULL THEN NULL ELSE GET(h, list[n] + 4)
<1> DEFINE Follow(p) == IF p = NULL THEN NULL ELSE Mm!NextFree(h, p)
           Way(k, f) ==
              f = [n \in 0 .. k |-> IF n = 0 THEN h.free_listp ELSE Follow(f[n - 1])]
           Ways == {k \in Nat : \E f : Way(k, f)}
<1>1. MaxBlocks \in Nat
  BY AreaAssumption DEF MaxBlocks
<1>0. list = CHOOSE f : Way(MaxBlocks, f)
  <2>1. Mm!Steps = 0 .. MaxBlocks /\ Mm!NULL = NULL
    BY MmMemory DEF Steps
  <2>2. Mm!Listed(h) = CHOOSE f : f = [n \in Mm!Steps |->
            IF n = 0 THEN h.free_listp
            ELSE IF f[n - 1] = Mm!NULL THEN Mm!NULL ELSE Mm!NextFree(h, f[n - 1])]
    BY Zenon DEF Mm!Listed
  <2> QED
    BY <2>1, <2>2
<1> HIDE DEF Follow
<1>2. 0 \in Ways
  <2>1. PICK f : f = [n \in 0 .. 0 |-> h.free_listp]
    OBVIOUS
  <2>2. Way(0, f)
    <3>1. \A n \in 0 .. 0 : n = 0
      OBVIOUS
    <3> QED
      BY <2>1, <3>1
  <2> QED
    BY <2>2
<1>3. ASSUME NEW k \in Nat, k \in Ways
      PROVE  k + 1 \in Ways
  <2>1. PICK f : Way(k, f)
    BY <1>3
  <2>2. PICK g : g = [n \in 0 .. k + 1 |-> IF n = k + 1 THEN Follow(f[k]) ELSE f[n]]
    OBVIOUS
  <2>3. \A n \in 0 .. k : g[n] = f[n]
    BY <2>2
  <2>4. \A n \in 0 .. k + 1 :
          g[n] = IF n = 0 THEN h.free_listp ELSE Follow(g[n - 1])
    <3> SUFFICES ASSUME NEW n \in 0 .. k + 1
                 PROVE  g[n] = IF n = 0 THEN h.free_listp ELSE Follow(g[n - 1])
      OBVIOUS
    <3>1. CASE n = k + 1
      <4>1. g[n] = Follow(f[k]) /\ n # 0 /\ n - 1 = k /\ k \in 0 .. k
        BY <2>2, <3>1
      <4> QED
        BY <2>3, <4>1
    <3>2. CASE n # k + 1
      <4>1. n \in 0 .. k /\ (n # 0 => n - 1 \in 0 .. k)
        BY <3>2
      <4>2. f[n] = IF n = 0 THEN h.free_listp ELSE Follow(f[n - 1])
        BY <2>1, <4>1
      <4> QED
        BY <2>3, <4>1, <4>2
    <3> QED
      BY <3>1, <3>2
  <2>5. Way(k + 1, g)
    BY <2>2, <2>4
  <2> QED
    BY <2>5
<1> HIDE DEF Ways
<1>4. MaxBlocks \in Ways
  BY <1>1, <1>2, <1>3, AllNumbers
<1>5. \E f : Way(MaxBlocks, f)
  BY <1>4 DEF Ways
<1>6. Way(MaxBlocks, list)
  BY <1>0, <1>5
<1>7. \A n \in Steps : list[n] = IF n = 0 THEN h.free_listp ELSE Follow(list[n - 1])
  BY <1>6 DEF Steps
<1> HIDE DEF Way
<1>8. 0 \in Steps /\ \A n \in Steps : n \in Nat /\ n + 1 # 0 /\ n + 1 - 1 = n
  BY <1>1 DEF Steps
<1>9. list[0] = h.free_listp
  BY <1>7, <1>8
<1>10. ASSUME NEW n \in Steps, n + 1 \in Steps
       PROVE  list[n + 1] = Follow(list[n])
  <2>1. list[n + 1] = Follow(list[n + 1 - 1])
    BY <1>7, <1>8, <1>10
  <2> QED
    BY <1>8, <2>1
<1>11. \A p : Follow(p) = IF p = NULL THEN NULL ELSE GET(h, p + 4)
  BY MmLinks DEF Follow
<1> QED
  BY <1>9, <1>10, <1>11

(* It has nodes as far as it goes, each younger than those before.         *)
LEMMA ListAges ==
    ASSUME NEW h, NEW F, NEW age, NEW N, Linked(h, F, age, N), \A p \in F : p # NULL,
           NEW list, list = Mm!Listed(h)
    PROVE  \A n \in Steps :
              /\ list[n] \in F \cup {NULL}
              /\ \A m \in Steps : m < n /\ list[n] # NULL =>
                    list[m] \in F /\ age[list[n]] < age[list[m]]
<1> DEFINE Good(n) == /\ list[n] \in F \cup {NULL}
                      /\ \A m \in Steps : m < n /\ list[n] # NULL =>
                            list[m] \in F /\ age[list[n]] < age[list[m]]
           S == {n \in Nat : n \in Steps => Good(n)}
<1>1. /\ list[0] = h.free_listp
      /\ \A n \in Steps : n + 1 \in Steps =>
            list[n + 1] = IF list[n] = NULL THEN NULL ELSE GET(h, list[n] + 4)
  BY ListUnfolds
<1>2. MaxBlocks \in Nat
  BY AreaAssumption DEF MaxBlocks
<1>3. /\ h.free_listp \in F \cup {NULL}
      /\ \A p \in F : /\ age[p] \in Nat /\ GET(h, p + 4) \in F \cup {NULL}
                      /\ GET(h, p + 4) # NULL => age[GET(h, p + 4)] < age[p]
  BY DEF Linked
<1>4. 0 \in S
  BY <1>1, <1>2, <1>3 DEF Steps
<1>5. ASSUME NEW n \in Nat, n \in S
      PROVE  n + 1 \in S
  <2> SUFFICES ASSUME n + 1 \in Steps
               PROVE  Good(n + 1)
    OBVIOUS
  <2>1. n \in Steps
    BY <1>2 DEF Steps
  <2>2. Good(n)
    BY <1>5, <2>1
  <2>3. list[n + 1] = IF list[n] = NULL THEN NULL ELSE GET(h, list[n] + 4)
    BY <1>1, <2>1
  <2>4. list[n + 1] \in F \cup {NULL}
    BY <1>3, <2>2, <2>3
  <2>5. ASSUME NEW m \in Steps, m < n + 1, list[n + 1] # NULL
        PROVE  list[m] \in F /\ age[list[n + 1]] < age[list[m]]
    <3>1. list[n] # NULL /\ list[n] \in F /\ list[n + 1] = GET(h, list[n] + 4)
      BY <2>2, <2>3, <2>5
    <3>2. age[list[n + 1]] < age[list[n]] /\ age[list[n]] \in Nat /\ age[list[n + 1]] \in Nat
      BY <1>3, <2>4, <2>5, <3>1
    <3>3. CASE m = n
      BY <3>1, <3>2, <3>3
    <3>4. CASE m # n
      <4>1. m < n
        BY <2>5, <3>4, <1>2 DEF Steps
      <4>2. list[m] \in F /\ age[list[n]] < age[list[m]]
        BY <2>2, <3>1, <4>1
      <4>3. age[list[m]] \in Nat
        BY <1>3, <4>2
      <4> QED
        BY <3>2, <4>2, <4>3
    <3> QED
      BY <3>3, <3>4
  <2> QED
    BY <2>4, <2>5
<1> HIDE DEF Good, S
<1>6. \A n \in Nat : n \in S
  BY <1>4, <1>5, AllNumbers
<1>7. \A n \in Steps : Good(n)
  BY <1>2, <1>6 DEF S, Steps
<1> QED
  BY <1>7 DEF Good

(* It ends, because there is no room for more nodes. *)
LEMMA ListEnds ==
    ASSUME NEW h, NEW F, Listing(h, F), \A p \in F : heap_listp <= p,
           NEW list, list = Mm!Listed(h)
    PROVE  list[MaxBlocks] = NULL
<1>1. PICK age, N : Linked(h, F, age, N)
  BY DEF Listing
<1>2. /\ MaxBlocks \in Nat /\ MaxBlocks \in Steps /\ heap_listp \in Nat
      /\ mem_max_addr \in Nat /\ heap_listp = mem_start_brk + 8 /\ heap_listp % 8 = 0
      /\ mem_max_addr = mem_start_brk + MAX_HEAP /\ MAX_HEAP = 8 * MaxBlocks
      /\ mem_start_brk \in Nat
  BY AreaAssumption DEF MaxBlocks, Steps, heap_listp, mem_max_addr, DSIZE
<1>3. \A p \in F : p # NULL /\ p \in Nat /\ p % 8 = 0 /\ p < mem_max_addr
  <2> TAKE p \in F
  <2>1. IsNode(p)
    BY DEF Listing
  <2>2. p \in Nat /\ p % 8 = 0 /\ p \in Storage
    BY <2>1 DEF IsNode
  <2> QED
    BY <2>1, <2>2, NodeFacts, StorageIsTheArea
<1>4. \A n \in Steps :
         /\ list[n] \in F \cup {NULL}
         /\ \A m \in Steps : m < n /\ list[n] # NULL =>
               list[m] \in F /\ age[list[n]] < age[list[m]]
  BY <1>1, <1>3, ListAges
<1> SUFFICES ASSUME list[MaxBlocks] # NULL
             PROVE  FALSE
  OBVIOUS
<1>5. \A n \in Steps : list[n] \in F
  <2> TAKE n \in Steps
  <2>1. n \in Nat /\ n <= MaxBlocks
    BY <1>2 DEF Steps
  <2>2. CASE n = MaxBlocks
    BY <1>4, <2>2
  <2>3. CASE n # MaxBlocks
    BY <1>2, <1>4, <2>1, <2>3
  <2> QED
    BY <2>2, <2>3
<1>6. \A m, n \in Steps : m < n => list[m] # list[n]
  <2> TAKE m, n \in Steps
  <2> HAVE m < n
  <2>1. list[n] \in F /\ list[m] \in F
    BY <1>5
  <2>2. age[list[n]] < age[list[m]] /\ age[list[n]] \in Nat
    BY <1>1, <1>3, <1>4, <2>1 DEF Linked
  <2> QED
    BY <2>2
<1> DEFINE T == 0 .. MaxBlocks - 2
           f == [n \in Steps |-> (list[n] - heap_listp) \div 8]
<1>7. \A n \in Steps : list[n] \in Nat /\ list[n] % 8 = 0 /\ heap_listp <= list[n] /\ list[n] < mem_max_addr
  BY <1>3, <1>5
<1>8. \A n \in Steps : /\ f[n] \in T
                       /\ list[n] = heap_listp + 8 * f[n]
  <2> TAKE n \in Steps
  <2>1. f[n] = (list[n] - heap_listp) \div 8
    OBVIOUS
  <2> HIDE DEF f
  <2>2. /\ list[n] \in Nat /\ list[n] % 8 = 0 /\ heap_listp <= list[n] /\ list[n] < mem_max_addr
    BY <1>7
  <2>3. PICK x : x = list[n]
    OBVIOUS
  <2>4. x \in Nat /\ x % 8 = 0 /\ heap_listp <= x /\ x < mem_max_addr
    BY <2>2, <2>3
  <2>5. (x - heap_listp) \div 8 \in 0 .. MaxBlocks - 2 /\ x = heap_listp + 8 * ((x - heap_listp) \div 8)
    BY <1>2, <2>4
  <2> QED
    BY <2>1, <2>3, <2>5
<1>9. f \in [Steps -> T]
  BY <1>8
<1>10. IsFiniteSet(Steps) /\ Cardinality(Steps) = MaxBlocks + 1
  BY <1>2, FS_Interval DEF Steps
<1>11. IsFiniteSet(T) /\ Cardinality(T) < MaxBlocks + 1
  <2>1. MaxBlocks - 2 \in Int /\ 0 \in Int
    BY <1>2
  <2>2. IsFiniteSet(T) /\ Cardinality(T) = IF 0 > MaxBlocks - 2 THEN 0 ELSE MaxBlocks - 2 - 0 + 1
    BY <2>1, FS_Interval
  <2> QED
    BY <1>2, <2>2
<1> HIDE DEF f, T
<1>12. PICK m, n \in Steps : m # n /\ f[m] = f[n]
  BY <1>9, <1>10, <1>11, FS_PigeonHole
<1>13. list[m] = list[n]
  BY <1>8, <1>12
<1>14. m < n \/ n < m
  BY <1>2, <1>12 DEF Steps
<1> QED
  BY <1>6, <1>13, <1>14

(* It has every node, and back links to where it came from.                *)
LEMMA ListCovers ==
    ASSUME NEW h, NEW F, Listing(h, F), \A p \in F : heap_listp <= p,
           NEW list, list = Mm!Listed(h)
    PROVE  /\ \A n \in Steps : list[n] \in F \cup {NULL}
           /\ \A p \in F : p # NULL /\ \E n \in Steps : list[n] = p
           /\ \A m, n \in Steps : list[m] = list[n] /\ list[m] # NULL => m = n
           /\ \A n \in Steps : list[n] # NULL =>
                 GET(h, list[n]) = IF n = 0 THEN NULL ELSE list[n - 1]
<1>1. PICK age, N : Linked(h, F, age, N)
  BY DEF Listing
<1>2. MaxBlocks \in Nat /\ 0 \in Steps /\ \A n \in Steps : n \in Nat /\ n <= MaxBlocks
  BY AreaAssumption DEF MaxBlocks, Steps
<1>3. \A p \in F : p # NULL
  BY NodeFacts DEF Listing
<1>4. \A n \in Steps :
         /\ list[n] \in F \cup {NULL}
         /\ \A m \in Steps : m < n /\ list[n] # NULL =>
               list[m] \in F /\ age[list[n]] < age[list[m]]
  BY <1>1, <1>3, ListAges
<1>5. /\ list[0] = h.free_listp
      /\ \A n \in Steps : n + 1 \in Steps =>
            list[n + 1] = IF list[n] = NULL THEN NULL ELSE GET(h, list[n] + 4)
  BY ListUnfolds
<1>6. list[MaxBlocks] = NULL
  BY ListEnds
<1>7. /\ N \in Nat
      /\ \A p \in F :
          /\ age[p] \in Nat /\ age[p] < N
          /\ GET(h, p) \in F \cup {NULL} /\ GET(h, p + 4) \in F \cup {NULL}
          /\ GET(h, p) = NULL <=> h.free_listp = p
          /\ GET(h, p) # NULL => GET(h, GET(h, p) + 4) = p
          /\ GET(h, p + 4) # NULL => /\ GET(h, GET(h, p + 4)) = p
                                     /\ age[GET(h, p + 4)] < age[p]
  BY <1>1 DEF Linked
<1>8. ASSUME NEW q \in F, \A n \in Steps : list[n] # q
      PROVE  FALSE
  <2> DEFINE U == {p \in F : \A n \in Steps : list[n] # p}
             D == {N - age[p] : p \in U}
  <2>1. D \subseteq Nat /\ D # {}
    BY <1>7, <1>8
  <2>2. PICK d \in D : \A c \in D : d <= c
    BY <2>1, LeastNumber
  <2>3. PICK p \in U : d = N - age[p]
    OBVIOUS
  <2>4. p \in F /\ \A n \in Steps : list[n] # p
    OBVIOUS
  <2>5. GET(h, p) # NULL
    BY <1>2, <1>5, <1>7, <2>4
  <2>6. PICK r : r = GET(h, p)
    OBVIOUS
  <2>7. r \in F /\ GET(h, r + 4) = p
    BY <1>7, <2>4, <2>5, <2>6
  <2>8. age[p] < age[r] /\ p # NULL
    BY <1>3, <1>7, <2>4, <2>7
  <2>9. r \notin U
    <3> SUFFICES ASSUME r \in U
                 PROVE  FALSE
      OBVIOUS
    <3>1. N - age[r] \in D
      OBVIOUS
    <3>2. N - age[p] <= N - age[r]
      BY <2>2, <2>3, <3>1
    <3> QED
      BY <1>7, <2>4, <2>7, <2>8, <3>2
  <2>10. PICK n \in Steps : list[n] = r
    BY <2>7, <2>9
  <2>11. r # NULL
    BY <1>3, <2>7
  <2>12. n + 1 \in Steps
    <3>1. n # MaxBlocks
      BY <1>6, <2>10, <2>11
    <3> QED
      BY <1>2, <3>1 DEF Steps
  <2>13. list[n + 1] = p
    BY <1>5, <2>7, <2>10, <2>11, <2>12
  <2> QED
    BY <2>4, <2>12, <2>13
<1>9. \A p \in F : \E n \in Steps : list[n] = p
  BY <1>8
<1>10. ASSUME NEW m \in Steps, NEW n \in Steps, list[m] = list[n], list[m] # NULL
       PROVE  m = n
  <2>1. age[list[m]] \in Nat
    BY <1>4, <1>7, <1>10
  <2>2. ~(m < n) /\ ~(n < m)
    BY <1>4, <1>10, <2>1
  <2> QED
    BY <1>2, <2>2
<1>11. ASSUME NEW n \in Steps, list[n] # NULL
       PROVE  GET(h, list[n]) = IF n = 0 THEN NULL ELSE list[n - 1]
  <2>1. list[n] \in F
    BY <1>4, <1>11
  <2>2. CASE n = 0
    BY <1>5, <1>7, <2>1, <2>2
  <2>3. CASE n # 0
    <3>1. n - 1 \in Steps /\ n - 1 < n /\ n - 1 + 1 = n
      BY <1>2, <2>3 DEF Steps
    <3>2. list[n - 1] \in F
      BY <1>4, <1>11, <3>1
    <3>3. list[n] = GET(h, list[n - 1] + 4)
      BY <1>3, <1>5, <3>1, <3>2
    <3>4. GET(h, list[n]) = list[n - 1]
      BY <1>7, <1>11, <3>2, <3>3
    <3> QED
      BY <2>3, <3>4
  <2> QED
    BY <2>2, <2>3
<1> QED
  BY <1>3, <1>4, <1>9, <1>10, <1>11

(* There is but one tiling. *)
LEMMA TilingsAreOne ==
    ASSUME NEW h, NEW B, NEW C, Tiling(h, B), Tiling(h, C)
    PROVE  B = C
BY WalkIsTiles

(* So there is but one that is tidy. *)
LEMMA OneTiling ==
    ASSUME NEW h, NEW B, NEW C, Tidy(h, B), Sound(h, C)
    PROVE  B = C
BY TilingsAreOne DEF Tidy, Sound

(* The nodes of a tidy heap lie behind the prologue. *)
LEMMA FreeBehind ==
    ASSUME NEW h, NEW B, Tidy(h, B)
    PROVE  Listing(h, FreeIn(h, B)) /\ \A p \in FreeIn(h, B) : heap_listp <= p
<1>1. Tiling(h, B) /\ Listing(h, FreeIn(h, B))
  BY DEF Tidy, Sound
<1>2. \A p \in FreeIn(h, B) : heap_listp <= p
  <2> TAKE p \in FreeIn(h, B)
  <2>1. p \in B
    BY <1>1, FreeAreNodes
  <2> QED
    BY <1>1, <2>1, BlockFacts
<1> QED
  BY <1>1, <1>2

(* find_fit finds a free block that is large enough, if there is one. *)
LEMMA MmFinds ==
    ASSUME NEW h, NEW B, Tidy(h, B), NEW n \in Nat, NEW p, p = Mm!find_fit(h, n)
    PROVE  /\ p # NULL => p \in Fitting(h, B, n)
           /\ p = NULL => Fitting(h, B, n) = {}
<1>1. PICK F : F = FreeIn(h, B)
  OBVIOUS
<1>2. PICK list : list = Mm!Listed(h)
  OBVIOUS
<1>3. Tiling(h, B) /\ Listing(h, F) /\ \A q \in F : heap_listp <= q
  BY <1>1, FreeBehind DEF Tidy, Sound
<1>4. /\ \A m \in Steps : list[m] \in F \cup {NULL}
      /\ \A q \in F : q # NULL /\ \E m \in Steps : list[m] = q
  BY <1>2, <1>3, ListCovers
<1>5. \A q \in F : q \in B /\ GET_SIZE(h, HDRP(q)) = Size(h, q) /\ GET_ALLOC(h, HDRP(q)) = Used(h, q)
  <2>1. \A q \in F : q \in B
    BY <1>1 DEF FreeIn
  <2> QED
    BY <1>3, <2>1, TagsTell
<1>6. Fitting(h, B, n) = {q \in F : n <= Size(h, q)}
  BY <1>1 DEF Fitting, FreeIn
<1>7. PICK fits : fits = {m \in Steps : /\ list[m] # NULL
                                        /\ GET_ALLOC(h, HDRP(list[m])) = 0
                                        /\ n <= GET_SIZE(h, HDRP(list[m]))}
  OBVIOUS
<1>8. fits \subseteq Steps /\ \A m \in Steps : m \in fits <=> list[m] \in Fitting(h, B, n)
  <2>1. \A m \in Steps : list[m] \in F => Used(h, list[m]) = 0
    BY <1>1 DEF FreeIn
  <2> QED
    BY <1>4, <1>5, <1>6, <1>7, <2>1
<1>9. p = IF fits = {} THEN NULL ELSE list[Min(fits)]
  <2>1. fits = {m \in Mm!Steps : /\ list[m] # Mm!NULL
                                 /\ Mm!GET_ALLOC(h, Mm!HDRP(list[m])) = 0
                                 /\ n <= Mm!GET_SIZE(h, Mm!HDRP(list[m]))}
    BY <1>7, MmMemory, MmTags
  <2>2. p = Mm!FirstOf(list, fits)
    BY <1>2, <2>1, Zenon DEF Mm!find_fit
  <2> QED
    BY <2>2, MmMemory, MmExtrema DEF Mm!FirstOf
<1>10. CASE fits = {}
  <2>1. Fitting(h, B, n) = {}
    BY <1>4, <1>6, <1>8, <1>10
  <2> QED
    BY <1>9, <1>10, <2>1
<1>11. CASE fits # {}
  <2>1. fits \subseteq Nat
    BY <1>8, AreaAssumption DEF Steps, MaxBlocks
  <2>2. PICK m \in fits : \A k \in fits : m <= k
    BY <1>11, <2>1, LeastNumber
  <2>3. Min(fits) \in fits
    BY <2>2 DEF Min
  <2> QED
    BY <1>4, <1>6, <1>8, <1>9, <1>11, <2>3
<1> QED
  BY <1>10, <1>11

(* The free list is in order, whatever the blocks are. *)
Neat(h) == \E C : Tidy(h, C)

(* What is returned is not part of the list. *)
LEMMA NeatReturns ==
    ASSUME NEW h, NEW C, Tidy(h, C), NEW r \in Int, NEW g, Returning(h, g, r)
    PROVE  Tidy(g, C)
<1>1. Tiling(h, C) /\ Coalesced(h, C) /\ Listing(h, FreeIn(h, C)) /\ h \in Heaps
  BY DEF Tidy, Sound, Tiling, Bounds
<1>2. /\ g.free_listp = h.free_listp /\ \A a : GET(g, a) = GET(h, a)
      /\ \A b : Used(g, b) = Used(h, b)
      /\ Tiling(g, C) /\ Coalesced(g, C)
  BY <1>1, Returns
<1>3. PICK F : F = FreeIn(h, C)
  OBVIOUS
<1>4. Listing(g, F)
  BY <1>1, <1>2, <1>3, ListStays
<1>5. FreeIn(g, C) = F
  BY <1>2, <1>3 DEF FreeIn
<1> QED
  BY <1>2, <1>4, <1>5 DEF Tidy, Sound

(* A free block is placed and returned. *)
LEMMA MmServes ==
    ASSUME NEW h, NEW B, Tidy(h, B), NEW b, NEW n, RoomFor(h, B, b, n),
           NEW g, Returning(Mm!place(h, b, n), g, b)
    PROVE  /\ Serves(h, InUse(h, B), g, n) /\ Neat(g) /\ g.ret = b /\ g.mem_brk = h.mem_brk
           /\ After(g, b) = TakenTo(b, After(h, b), n)
<1>0. /\ b \in B /\ Used(h, b) = 0
      /\ n \in Nat /\ n % 8 = 0 /\ MINIMUM <= n /\ n <= Size(h, b)
  BY DEF RoomFor
<1>1. PICK k : k = Mm!place(h, b, n)
  OBVIOUS
<1>2. PICK C :
        /\ Tidy(k, C)
        /\ InUse(k, C) = InUse(h, B) \cup {b} /\ b \notin InUse(h, B)
        /\ k.mem_brk = h.mem_brk
        /\ Keeps(h, k, InUse(h, B))
        /\ After(k, b) = TakenTo(b, After(h, b), n)
  <2>1. HasPlaced(h, B, b, n, k)
    BY <1>1, MmPlaces
  <2> QED
    BY <2>1 DEF HasPlaced
<1>3. k \in Heaps /\ Tiling(k, C) /\ Sound(k, C) /\ Tiling(h, B)
  BY <1>2 DEF Tidy, Sound, Tiling, Bounds
<1>4. b \in Nat /\ Size(h, b) \in Nat /\ After(h, b) = b + Size(h, b) /\ b # h.mem_brk
  <2>1. Used(h, h.mem_brk) = 1
    BY <1>0, <1>3, BlockFacts
  <2> QED
    BY <1>0, <1>3, <2>1, BlockFacts DEF After
<1>5. /\ g.ret = b /\ g.mem_brk = k.mem_brk
      /\ After(g, b) = After(k, b) /\ InUse(g, C) = InUse(k, C)
      /\ Keeps(h, g, InUse(h, B))
  <2>1. Returning(k, g, b) /\ b \in Int
    BY <1>1, <1>4
  <2> QED
    BY <1>2, <1>3, <2>1, Returns
<1>6. Tidy(g, C)
  <2>1. Returning(k, g, b) /\ b \in Int
    BY <1>1, <1>4
  <2> QED
    BY <1>2, <2>1, NeatReturns
<1>7. /\ After(g, b) = TakenTo(b, After(h, b), n) /\ After(g, b) \in Nat
      /\ b + n <= After(g, b)
  <2>1. After(h, b) - b - n = Size(h, b) - n
    BY <1>0, <1>4
  <2> QED
    BY <1>0, <1>2, <1>4, <1>5, <2>1 DEF TakenTo, MINIMUM
<1> QED
  BY <1>2, <1>4, <1>5, <1>6, <1>7 DEF Serves, Neat, Tidy

(* mm_malloc places a block of n bytes in the one that find_fit finds, or   *)
(* in what extend_heap adds.                                               *)
Mallocs(h, n, bp, k, g) ==
    /\ bp = Mm!find_fit(h, n) /\ k = Mm!extend_heap(h, GrowsBy(n) \div 4)
    /\ bp # NULL => Returning(Mm!place(h, bp, n), g, bp)
    /\ bp = NULL /\ k.ret = NULL => g = k
    /\ bp = NULL /\ k.ret # NULL => Returning(Mm!place(k, k.ret, n), g, k.ret)

(* The block is a whole number of doublewords, and so is the growth. *)
LEMMA MmMallocIs ==
    ASSUME NEW h, NEW size \in Nat \ {0},
           NEW n, n = Adjusted(size), NEW g, g = Mm!mm_malloc(h, size)
    PROVE  /\ n \in Nat /\ n % 8 = 0 /\ MINIMUM <= n
           /\ GrowsBy(n) \in Nat /\ GrowsBy(n) % 8 = 0 /\ GrowsBy(n) >= 16 /\ n <= GrowsBy(n)
           /\ \E bp, k : Mallocs(h, n, bp, k, g)
<1> DEFINE bp == Mm!find_fit(h, n)
           bytes == GrowsBy(n)
           k == Mm!extend_heap(h, bytes \div 4)
<1>1. n \in Nat /\ n % 8 = 0 /\ MINIMUM <= n
  BY AdjustedIsEnough DEF DSIZE
<1>2. /\ bytes \in Nat /\ bytes % 8 = 0 /\ bytes >= 16 /\ n <= bytes
      /\ Max({n, CHUNKSIZE}) = bytes
  <2>1. bytes \in Nat /\ bytes % 8 = 0 /\ bytes >= 16 /\ n <= bytes /\ CHUNKSIZE <= bytes
    BY <1>1, ChunkAssumption DEF GrowsBy, MINIMUM
  <2>2. bytes \in {n, CHUNKSIZE} /\ n \in Nat /\ CHUNKSIZE \in Nat
    BY <1>1, ChunkAssumption DEF GrowsBy
  <2> HIDE DEF bytes
  <2>3. \A x \in {n, CHUNKSIZE} : (\A y \in {n, CHUNKSIZE} : x >= y) <=> x = bytes
    BY <2>1, <2>2
  <2>4. Max({n, CHUNKSIZE}) = bytes
    BY <2>2, <2>3 DEF Max
  <2> QED
    BY <2>1, <2>4
<1>3. g = IF bp # NULL THEN [Mm!place(h, bp, n) EXCEPT !.ret = bp]
          ELSE IF k.ret = NULL THEN k
          ELSE [Mm!place(k, k.ret, n) EXCEPT !.ret = k.ret]
  <2>1. Mm!Adjusted(size) = n /\ Mm!Max({n, CHUNKSIZE}) \div Mm!WSIZE = bytes \div 4
        /\ Mm!NULL = NULL
    BY <1>2, MmMemory, MmExtrema
  <2>2. ~(size <= 0)
    OBVIOUS
  <2> HIDE DEF bytes
  <2> QED
    BY <2>1, <2>2, Zenon DEF Mm!mm_malloc
<1>4. Mallocs(h, n, bp, k, g)
  BY <1>3 DEF Mallocs, Returning
<1> QED
  BY <1>1, <1>2, <1>4

(* mm_malloc takes a free block that is large enough; if there is none,    *)
(* the end of the heap, which grows; and only if it cannot grow, the       *)
(* answer is NULL.                                                         *)
LEMMA MmAllocates ==
    ASSUME NEW h, NEW B, Tidy(h, B), NEW size \in Nat \ {0},
           NEW n, n = Adjusted(size), NEW g, g = Mm!mm_malloc(h, size)
    PROVE  \/ Serves(h, InUse(h, B), g, n) /\ Neat(g) /\ Placement(h, B, g, n)
           \/ Full(h, B, n) /\ Returning(h, g, NULL)
<1>0. PICK bytes : bytes = GrowsBy(n)
  OBVIOUS
<1>1. /\ n \in Nat /\ n % 8 = 0 /\ MINIMUM <= n
      /\ bytes \in Nat /\ bytes % 8 = 0 /\ bytes >= 16 /\ n <= bytes
  BY <1>0, MmMallocIs
<1>2. PICK bp, k : Mallocs(h, n, bp, k, g)
  BY MmMallocIs
<1> DEFINE fitting == Fitting(h, B, n)
<1>3. /\ bp = Mm!find_fit(h, n) /\ k = Mm!extend_heap(h, bytes \div 4)
      /\ g = IF bp # NULL THEN [Mm!place(h, bp, n) EXCEPT !.ret = bp]
             ELSE IF k.ret = NULL THEN k
             ELSE [Mm!place(k, k.ret, n) EXCEPT !.ret = k.ret]
  BY <1>0, <1>2 DEF Mallocs, Returning
<1>4. /\ bp # NULL => bp \in fitting
      /\ bp = NULL => fitting = {}
  BY <1>1, <1>3, MmFinds
<1>5. CASE bp # NULL
  <2>1. bp \in B /\ Used(h, bp) = 0 /\ n <= Size(h, bp)
    BY <1>4, <1>5 DEF Fitting
  <2>2. Returning(Mm!place(h, bp, n), g, bp) /\ RoomFor(h, B, bp, n)
    BY <1>1, <1>3, <1>5, <2>1 DEF Returning, RoomFor
  <2>3. /\ Serves(h, InUse(h, B), g, n) /\ Neat(g) /\ g.ret = bp /\ g.mem_brk = h.mem_brk
        /\ After(g, bp) = TakenTo(bp, After(h, bp), n)
    BY <2>2, MmServes
  <2> QED
    BY <1>4, <1>5, <2>3 DEF InGap, Placement
<1>6. CASE bp = NULL /\ h.mem_brk + bytes > mem_max_addr
  <2>1. Returning(h, k, NULL) /\ h \in Heaps
    BY <1>1, <1>3, <1>6, MmExtends DEF Tidy, Sound, Tiling, Bounds
  <2>2. k.ret = NULL
    BY <2>1 DEF Heaps, Returning
  <2> QED
    BY <1>3, <1>4, <1>6, <2>1, <2>2, <1>0 DEF Full, Exhausted
<1>7. CASE bp = NULL /\ h.mem_brk + bytes <= mem_max_addr
  <2>0. HasGrown(h, B, k, bytes)
    BY <1>1, <1>3, <1>7, MmExtends
  <2>1. PICK C :
          /\ Tidy(k, C)
          /\ InUse(k, C) = InUse(h, B)
          /\ k.mem_brk = h.mem_brk + bytes
          /\ Keeps(h, k, InUse(h, B))
          /\ k.ret \in C /\ Used(k, k.ret) = 0 /\ k.ret \in Nat
          /\ k.ret <= h.mem_brk /\ After(k, k.ret) = k.mem_brk
    BY <2>0 DEF HasGrown
  <2>2. Tiling(k, C) /\ Tiling(h, B) /\ h.mem_brk \in Nat /\ k.mem_brk \in Nat /\ Sound(k, C)
    <3>1. Tiling(k, C) /\ Tiling(h, B) /\ Sound(k, C)
      BY <2>1 DEF Tidy, Sound
    <3> QED
      BY <3>1, <2>1, BlockFacts DEF Tiling, Bounds
  <2>3. k.ret # NULL
    <3>1. heap_listp <= k.ret /\ heap_listp = mem_start_brk + 8
      BY <2>1, <2>2, BlockFacts
    <3> QED
      BY <2>1, <3>1, AreaAssumption DEF NULL
  <2>4. n <= Size(k, k.ret)
    <3>1. k.ret # k.mem_brk
      BY <2>1, <2>2, BlockFacts
    <3>2. Size(k, k.ret) \in Nat /\ k.ret + Size(k, k.ret) = h.mem_brk + bytes
      BY <2>1, <2>2, <3>1, BlockFacts DEF After
    <3> QED
      BY <1>1, <2>1, <2>2, <3>2
  <2>5. Returning(Mm!place(k, k.ret, n), g, k.ret) /\ RoomFor(k, C, k.ret, n)
    BY <1>1, <1>3, <1>7, <2>1, <2>3, <2>4 DEF Returning, RoomFor
  <2>6. /\ Serves(k, InUse(k, C), g, n) /\ Neat(g) /\ g.ret = k.ret /\ g.mem_brk = k.mem_brk
        /\ After(g, k.ret) = TakenTo(k.ret, k.mem_brk, n)
    BY <2>1, <2>5, MmServes
  <2>7. Serves(h, InUse(h, B), g, n)
    <3>1. PICK D :
            /\ Sound(g, D)
            /\ InUse(g, D) = InUse(k, C) \cup {g.ret} /\ g.ret \notin InUse(k, C)
            /\ Keeps(k, g, InUse(k, C))
            /\ g.ret \in Nat /\ After(g, g.ret) \in Nat /\ g.ret + n <= After(g, g.ret)
      BY <2>6 DEF Serves
    <3>2. Keeps(h, g, InUse(h, B))
      BY <2>1, <3>1, KeepsOn
    <3> QED
      BY <2>1, <3>1, <3>2 DEF Serves
  <2>8. \E c \in InUse(h, B) : After(h, c) = k.ret
    <3>1. PICK c \in InUse(k, C) : After(k, c) = k.ret
      BY <2>1, <2>2, InUseBefore
    <3> QED
      BY <2>1, <3>1 DEF Keeps
  <2>9. \A c \in InUse(h, B) : After(h, c) <= k.ret
    <3> SUFFICES ASSUME NEW c \in InUse(h, B)
                 PROVE  After(h, c) <= k.ret
      OBVIOUS
    <3>1. c \in C \ {k.mem_brk} /\ Used(k, c) = 1 /\ After(k, c) = After(h, c)
      BY <2>1 DEF InUse, Keeps
    <3>2. k.ret \in C \ {k.mem_brk} /\ c # k.ret
      BY <2>1, <2>2, <3>1, BlockFacts
    <3>3. /\ c \in Nat /\ c <= k.mem_brk
          /\ c < k.ret => After(k, c) <= k.ret
          /\ k.ret < c => After(k, k.ret) <= c
      BY <2>1, <2>2, <3>1, <3>2, BlockFacts
    <3> QED
      BY <2>1, <2>2, <3>1, <3>2, <3>3
  <2> QED
    BY <1>4, <1>7, <2>1, <2>6, <2>7, <2>8, <2>9, <1>0 DEF AtEnd, Placement
<1>8. h.mem_brk \in Nat /\ mem_max_addr \in Nat /\ bytes \in Nat
  <2>1. h.mem_brk \in Nat
    BY BlockFacts DEF Tidy, Sound, Tiling, Bounds
  <2> QED
    BY <1>1, <2>1, AreaAssumption DEF mem_max_addr
<1> QED
  BY <1>5, <1>6, <1>7, <1>8

(* A block in use is tagged free. *)
LEMMA FreedTags ==
    ASSUME NEW h, NEW B, Tiling(h, B), NEW b \in InUse(h, B) \ {heap_listp},
           NEW k, k = Tag(h, b, Size(h, b), 0)
    PROVE  /\ Tagged(h, k, b, Size(h, b), 0) /\ Tiling(k, B)
           /\ Size(k, b) = Size(h, b) /\ Used(k, b) = 0 /\ After(k, b) = After(h, b)
           /\ \A c \in B \ {b} :
                 Size(k, c) = Size(h, c) /\ Used(k, c) = Used(h, c) /\ After(k, c) = After(h, c)
<1>1. Tiling(h, B)
  OBVIOUS
<1>2. b \in B \ {heap_listp, h.mem_brk} /\ Used(h, b) = 1
  BY DEF InUse
<1>3. /\ h \in Heaps /\ h.mem_brk \in Nat /\ h.mem_brk <= mem_max_addr
      /\ b \in Nat /\ b % 8 = 0 /\ heap_listp <= b /\ heap_listp = mem_start_brk + 8
      /\ Size(h, b) \in Nat /\ Size(h, b) % 8 = 0
      /\ After(h, b) \in B /\ After(h, b) <= h.mem_brk /\ After(h, b) = b + Size(h, b)
      /\ b < After(h, b) /\ After(h, b) \in Nat
      /\ \A c \in B : b < c => After(h, b) <= c
  BY <1>1, <1>2, BlockFacts DEF After
<1>4. mem_start_brk \in Nat /\ mem_max_addr \in Nat
  BY AreaAssumption DEF mem_max_addr
<1>5. Size(h, b) > 0 /\ b + Size(h, b) <= mem_max_addr /\ mem_start_brk < b
  BY <1>3, <1>4
<1>6. Tagged(h, k, b, Size(h, b), 0)
  BY <1>3, <1>5, TagTags
<1>7. After(h, b) - b = Size(h, b)
  BY <1>3
<1>8. Fused(B, b, After(h, b)) = B
  <2>1. \A c \in B : c \in Nat
    BY <1>1, BlockFacts
  <2>2. \A c \in B : c <= b \/ After(h, b) <= c
    BY <1>3, <2>1
  <2> QED
    BY <2>2 DEF Fused
<1>9. /\ Tiling(k, B) /\ Size(k, b) = After(h, b) - b /\ Used(k, b) = 0
      /\ After(k, b) = After(h, b)
      /\ \A c \in B \ {b} :
            Size(k, c) = Size(h, c) /\ Used(k, c) = Used(h, c) /\ After(k, c) = After(h, c)
  <2>1. /\ b \in B \ {heap_listp} /\ After(h, b) \in B /\ b < After(h, b) /\ 0 \in {0, 1}
        /\ Tagged(h, k, b, After(h, b) - b, 0)
    BY <1>2, <1>3, <1>6, <1>7
  <2> QED
    BY <1>1, <1>8, <2>1, FuseTiles
<1> QED
  BY <1>6, <1>7, <1>9

(* It is not listed yet. *)
LEMMA FreedUnlisted ==
    ASSUME NEW h, NEW B, Tidy(h, B), NEW b \in InUse(h, B) \ {heap_listp},
           NEW k, k = Tag(h, b, Size(h, b), 0)
    PROVE  /\ Tiling(k, B) /\ b \in B \ {heap_listp, k.mem_brk} /\ Used(k, b) = 0
           /\ OnlyTouching(k, B, b) /\ ListedBut(k, B, b)
           /\ InUse(k, B) = InUse(h, B) \ {b} /\ k.mem_brk = h.mem_brk
           /\ Keeps(h, k, InUse(h, B) \ {b})
<1>1. Tiling(h, B) /\ Coalesced(h, B) /\ Listing(h, FreeIn(h, B))
  BY DEF Tidy, Sound
<1>2. b \in B \ {heap_listp, h.mem_brk} /\ Used(h, b) = 1
  BY DEF InUse
<1>3. /\ After(h, b) \in B /\ b < After(h, b)
  BY <1>1, <1>2, BlockFacts
<1>4. Tagged(h, k, b, After(h, b) - b, 0)
  <2>1. After(h, b) - b = Size(h, b)
    BY <1>1, <1>2, BlockFacts DEF After
  <2> QED
    BY <1>1, <2>1, FreedTags
<1>5. /\ Tiling(k, B) /\ Used(k, b) = 0 /\ After(k, b) = After(h, b)
      /\ \A c \in B \ {b} : Used(k, c) = Used(h, c) /\ After(k, c) = After(h, c)
  BY <1>1, FreedTags
<1>6. \A c \in B \ {h.mem_brk} : Untouched(h, k, c)
  BY <1>1, <1>2, <1>3, <1>4, TagsSpareContents
<1>7. k.mem_brk = h.mem_brk /\ k.free_listp = h.free_listp
  BY <1>4 DEF Tagged
<1>8. OnlyTouching(k, B, b)
  <2> SUFFICES ASSUME NEW c \in B \ {k.mem_brk}, Used(k, c) = 0, c # b, After(k, c) # b
               PROVE  Used(k, After(k, c)) = 1
    BY DEF OnlyTouching
  <2>1. c \in B \ {b, h.mem_brk} /\ Used(h, c) = 0 /\ After(h, c) # b
    BY <1>5, <1>7
  <2>2. Used(h, After(h, c)) = 1 /\ After(h, c) \in B
    BY <1>1, <2>1 DEF Coalesced, Tiling, Chain
  <2> QED
    BY <1>5, <2>1, <2>2
<1>9. InUse(k, B) = InUse(h, B) \ {b}
  <2>1. \A c : c \in InUse(k, B) <=> c \in InUse(h, B) \ {b}
    BY <1>5, <1>7 DEF InUse
  <2> QED
    BY <2>1
<1>10. Keeps(h, k, InUse(h, B) \ {b})
  <2>1. \A c \in InUse(h, B) \ {b} : c \in B \ {b, h.mem_brk}
    BY DEF InUse
  <2> QED
    BY <1>5, <1>6, <2>1 DEF Keeps
<1>11. ListedBut(k, B, b)
  <2>1. PICK F : F = FreeIn(h, B)
    OBVIOUS
  <2>2. FreeIn(k, B) \ {b} = F
    <3>1. \A c : c \in FreeIn(k, B) \ {b} <=> c \in F
      BY <1>2, <1>5, <2>1 DEF FreeIn
    <3> QED
      BY <3>1
  <2>3. \A c \in F : Untouched(h, k, c)
    <3>1. \A c \in F : c \in B \ {h.mem_brk}
      BY <1>1, <2>1, FreeAreNodes
    <3> QED
      BY <1>6, <3>1
  <2>4. Listing(k, F)
    BY <1>1, <1>7, <2>1, <2>3, ListUntouched
  <2> QED
    BY <2>2, <2>4 DEF ListedBut
<1> QED
  BY <1>2, <1>5, <1>7, <1>8, <1>9, <1>10, <1>11

(* mm_free tags the block and coalesces. *)
LEMMA MmFreeIs ==
    ASSUME NEW h, NEW B, Tiling(h, B), NEW b \in B
    PROVE  Mm!mm_free(h, b) = Mm!coalesce(Tag(h, b, Size(h, b), 0), b)
<1>1. Mm!GET_SIZE(h, Mm!HDRP(b)) = Size(h, b)
  BY TagsTell, MmTags
<1> QED
  BY <1>1, MmTags DEF Mm!mm_free

(* mm_free gives a block back, and leaves the others alone. *)
LEMMA MmFrees ==
    ASSUME NEW h, NEW B, Tidy(h, B), NEW b \in InUse(h, B) \ {heap_listp},
           NEW g, g = Mm!mm_free(h, b)
    PROVE  \E C :
             /\ Tidy(g, C)
             /\ InUse(g, C) = InUse(h, B) \ {b}
             /\ g.mem_brk = h.mem_brk
             /\ Keeps(h, g, InUse(h, B) \ {b})
<1>1. Tiling(h, B) /\ b \in B
  BY DEF Tidy, Sound, InUse
<1>2. PICK k : k = Tag(h, b, Size(h, b), 0)
  OBVIOUS
<1>3. g = Mm!coalesce(k, b)
  BY <1>1, <1>2, MmFreeIs
<1>4. PICK S : S = InUse(h, B) \ {b}
  OBVIOUS
<1>5. /\ Tiling(k, B) /\ b \in B \ {heap_listp, k.mem_brk} /\ Used(k, b) = 0
      /\ OnlyTouching(k, B, b) /\ ListedBut(k, B, b)
      /\ InUse(k, B) = S /\ k.mem_brk = h.mem_brk
      /\ Keeps(h, k, S)
  BY <1>2, <1>4, FreedUnlisted
<1>6. PICK C : /\ Tidy(g, C) /\ InUse(g, C) = InUse(k, B) /\ g.mem_brk = k.mem_brk
               /\ Keeps(k, g, InUse(k, B))
  BY <1>3, <1>5, MmCoalesces
<1>7. Keeps(h, g, S)
  BY <1>5, <1>6, KeepsOn
<1> QED
  BY <1>4, <1>5, <1>6, <1>7

(* mm_init adds a chunk to the heap k, which has the prologue only, and      *)
(* nothing in its list.                                                      *)
Starting(k, B, j, g) ==
    /\ Tidy(k, B) /\ InUse(k, B) = {heap_listp} /\ B = {heap_listp, heap_listp + 8}
    /\ k.mem_brk = mem_start_brk + 16 /\ k.free_listp = NULL
    /\ j = Mm!extend_heap(k, CHUNKSIZE \div 4)
    /\ g = [j EXCEPT !.ret = IF j.ret = NULL THEN -1 ELSE 0]

(* That is what it does, whatever was in the area. *)
LEMMA MmStartIs ==
    ASSUME 16 + CHUNKSIZE <= MAX_HEAP,
           NEW h \in Heaps, NEW g, g = Mm!mm_init(mem_reset_brk(h))
    PROVE  \E k, B, j : Starting(k, B, j, g)
<1>1. /\ CHUNKSIZE \in Nat /\ CHUNKSIZE % 8 = 0 /\ CHUNKSIZE >= 16
      /\ mem_start_brk \in Nat \ {0} /\ MAX_HEAP \in Nat
      /\ mem_max_addr = mem_start_brk + MAX_HEAP
  BY ChunkAssumption, AreaAssumption DEF mem_max_addr
<1>2. PICK r : r = mem_reset_brk(h)
  OBVIOUS
<1>3. PICK k0 : k0 = mem_sbrk(r, 16)
  OBVIOUS
<1>4. /\ k0 \in Heaps /\ k0.mem_brk = mem_start_brk + 16 /\ k0.ret = mem_start_brk
  <2>1. r \in Heaps /\ r.mem_brk = mem_start_brk
    BY <1>1, <1>2 DEF mem_reset_brk, Heaps
  <2>2. ~(16 < 0 \/ r.mem_brk + 16 > mem_max_addr)
    BY <1>1, <2>1
  <2>3. PICK e : e = mem_start_brk + 16 /\ e \in Nat
    BY <1>1
  <2>4. k0 = [r EXCEPT !.mem_brk = e, !.ret = mem_start_brk]
    BY <1>3, <2>1, <2>2, <2>3 DEF mem_sbrk
  <2>5. mem_start_brk \in Int
    BY <1>1
  <2> QED
    BY <2>1, <2>3, <2>4, <2>5 DEF Heaps
<1>5. PICK k1 : k1 = EmptyHeap(k0, mem_start_brk)
  OBVIOUS
<1>6. PICK B : B = {heap_listp, heap_listp + 8}
  OBVIOUS
<1>7. /\ Sound(k1, B) /\ InUse(k1, B) = {heap_listp} /\ k1.mem_brk = k0.mem_brk
  <2>1. 16 <= MAX_HEAP
    BY <1>1
  <2> QED
    BY <1>4, <1>5, <1>6, <2>1, EmptyHeapTiles
<1>8. PICK k2 : k2 = [k1 EXCEPT !.free_listp = NULL]
  OBVIOUS
<1>9. /\ Tidy(k2, B) /\ InUse(k2, B) = {heap_listp} /\ k2.mem_brk = k1.mem_brk
      /\ k2.free_listp = NULL
  <2>1. Tiling(k1, B) /\ Coalesced(k1, B) /\ k1 \in Heaps
    BY <1>7 DEF Sound, Tiling, Bounds
  <2>2. /\ k2 \in Heaps /\ k2.mem_brk = k1.mem_brk /\ k2.free_listp = NULL
        /\ \A a : GET(k2, a) = GET(k1, a)
    <3>1. NULL \in Words
      BY AreaAssumption DEF NULL, Words
    <3> QED
      BY <1>8, <2>1, <3>1, HeadSet
  <2>3. FreeIn(k1, B) = {}
    <3>1. \A c \in B : c \in {heap_listp, k1.mem_brk}
      BY <1>1, <1>4, <1>6, <1>7 DEF heap_listp, DSIZE
    <3>2. Used(k1, heap_listp) = 1 /\ Used(k1, k1.mem_brk) = 1
      BY <2>1, BlockFacts DEF Tiling, Bounds
    <3> QED
      BY <3>1, <3>2 DEF FreeIn
  <2>4. Relinks(k1, k2, FreeIn(k1, B))
    BY <2>2 DEF Relinks
  <2>5. SameBlocks(k1, k2, B)
    BY <2>1, <2>4, RelinkTiles
  <2>6. Listing(k2, {})
    <3>1. PICK age : age = 0
      OBVIOUS
    <3>2. Linked(k2, {}, age, 0)
      BY <2>2 DEF Linked
    <3> QED
      BY <3>2 DEF Listing
  <2> QED
    BY <1>7, <2>1, <2>2, <2>3, <2>5, <2>6 DEF SameBlocks, Tidy, Sound
<1>10. PICK k3 : k3 = Mm!extend_heap(k2, CHUNKSIZE \div 4)
  OBVIOUS
<1>11. g = [k3 EXCEPT !.ret = IF k3.ret = NULL THEN -1 ELSE 0]
  <2>1. Mm!mem_sbrk(mem_reset_brk(h), 4 * Mm!WSIZE) = k0
    BY <1>2, <1>3, MmMemory
  <2>2. [Mm!EmptyHeap(k0, k0.ret) EXCEPT !.free_listp = Mm!NULL] = k2
    BY <1>4, <1>5, <1>8, MmTags, MmMemory
  <2>3. CHUNKSIZE \div Mm!WSIZE = CHUNKSIZE \div 4 /\ Mm!NULL = NULL
    BY MmMemory
  <2> QED
    BY <1>10, <2>1, <2>2, <2>3, Zenon DEF Mm!mm_init
<1>12. k2.mem_brk = mem_start_brk + 16
  BY <1>4, <1>7, <1>9
<1>13. Starting(k2, B, k3, g)
  BY <1>6, <1>9, <1>10, <1>11, <1>12 DEF Starting
<1> QED
  BY <1>13

(* mm_init makes a heap of one free block in the empty area. *)
LEMMA MmStarts ==
    ASSUME 16 + CHUNKSIZE <= MAX_HEAP,
           NEW h \in Heaps, NEW g, g = Mm!mm_init(mem_reset_brk(h))
    PROVE  \E C :
             /\ Tidy(g, C)
             /\ InUse(g, C) = {heap_listp}
             /\ g.mem_brk = mem_start_brk + 16 + CHUNKSIZE /\ g.ret = 0
<1>1. /\ CHUNKSIZE \in Nat /\ CHUNKSIZE % 8 = 0 /\ CHUNKSIZE >= 16
      /\ mem_start_brk \in Nat \ {0} /\ MAX_HEAP \in Nat
      /\ mem_max_addr = mem_start_brk + MAX_HEAP
  BY ChunkAssumption, AreaAssumption DEF mem_max_addr
<1>2. PICK k, B, j : Starting(k, B, j, g)
  BY <1>1, MmStartIs
<1>3. /\ Tidy(k, B) /\ InUse(k, B) = {heap_listp}
      /\ k.mem_brk = mem_start_brk + 16
      /\ j = Mm!extend_heap(k, CHUNKSIZE \div 4)
      /\ g = [j EXCEPT !.ret = IF j.ret = NULL THEN -1 ELSE 0]
  BY <1>2 DEF Starting
<1>4. PICK C :
        /\ Tidy(j, C)
        /\ InUse(j, C) = InUse(k, B)
        /\ j.mem_brk = k.mem_brk + CHUNKSIZE
        /\ j.ret \in C
  <2>1. k.mem_brk + CHUNKSIZE <= mem_max_addr
    BY <1>1, <1>3
  <2>2. HasGrown(k, B, j, CHUNKSIZE)
    BY <1>1, <1>3, <2>1, MmExtends
  <2> QED
    BY <2>2 DEF HasGrown
<1>5. j.ret # NULL /\ j \in Heaps
  <2>1. Tiling(j, C)
    BY <1>4 DEF Tidy, Sound
  <2>2. heap_listp <= j.ret /\ heap_listp = mem_start_brk + 8 /\ j \in Heaps
    BY <1>4, <2>1, BlockFacts
  <2> QED
    BY <1>1, <2>2 DEF NULL, Heaps
<1>6. Returning(j, g, 0)
  BY <1>3, <1>5 DEF Returning
<1>7. g.ret = 0 /\ g.mem_brk = j.mem_brk /\ InUse(g, C) = InUse(j, C)
  BY <1>5, <1>6, Returns
<1>8. Tidy(g, C)
  BY <1>4, <1>6, NeatReturns
<1> QED
  BY <1>1, <1>3, <1>4, <1>7, <1>8

-----------------------------------------------------------------------------
(* mm_realloc, case by case.                                               *)

(* What is written between the tags of a block in use is nothing to the    *)
(* list.                                                                   *)
LEMMA PayloadTidies ==
    ASSUME NEW h, NEW B, Tidy(h, B), NEW b \in InUse(h, B),
           NEW g \in Heaps, g.mem_brk = h.mem_brk, g.free_listp = h.free_listp,
           \A a \in Int : a \notin b .. After(h, b) - 9 => GET(g, a) = GET(h, a)
    PROVE  /\ Tidy(g, B) /\ InUse(g, B) = InUse(h, B)
           /\ Keeps(h, g, InUse(h, B) \ {b}) /\ After(g, b) = After(h, b)
<1>1. Sound(h, B) /\ Tiling(h, B) /\ Listing(h, FreeIn(h, B))
  BY DEF Tidy, Sound
<1>2. /\ Sound(g, B) /\ InUse(g, B) = InUse(h, B)
      /\ Keeps(h, g, InUse(h, B) \ {b}) /\ After(g, b) = After(h, b)
  BY <1>1, PayloadWritten
<1>3. PICK F : F = FreeIn(h, B)
  OBVIOUS
<1>4. \A c \in F : GET(g, c) = GET(h, c) /\ GET(g, c + 4) = GET(h, c + 4)
  <2> TAKE c \in F
  <2>1. b \in B \ {c, h.mem_brk}
    BY <1>3 DEF InUse, FreeIn
  <2>2. c \in Nat /\ \A a \in b .. After(h, b) - 9 : a \notin {c, c + 4}
    BY <1>1, <1>3, <2>1, FreeAreNodes
  <2>3. c \in Int /\ c + 4 \in Int /\ c \notin b .. After(h, b) - 9 /\ c + 4 \notin b .. After(h, b) - 9
    BY <2>2
  <2> QED
    BY <2>3
<1>5. Listing(g, F)
  BY <1>1, <1>3, <1>4, ListStays
<1>6. FreeIn(g, B) = F
  <2>1. Tiling(g, B) /\ g.mem_brk = h.mem_brk
    BY <1>2 DEF Sound
  <2>2. FreeIn(g, B) = {c \in B \ {g.mem_brk} : c \notin InUse(g, B)}
    BY <2>1, FreeIsUnused
  <2>3. FreeIn(h, B) = {c \in B \ {h.mem_brk} : c \notin InUse(h, B)}
    BY <1>1, FreeIsUnused
  <2> QED
    BY <1>2, <1>3, <2>1, <2>2, <2>3
<1> QED
  BY <1>2, <1>5, <1>6 DEF Tidy

(* The block ptr of h has become one from lo to hi, with what was in it. *)
Resizes(h, B, ptr, size, g, lo, hi) ==
    /\ Serves(h, InUse(h, B) \ {ptr}, g, Adjusted(size)) /\ Carried(h, g, ptr, size) /\ Neat(g)
    /\ g.ret = lo /\ After(g, lo) = hi /\ g.mem_brk = h.mem_brk

(* A block that the client holds, and a request to resize it. *)
Wanted(h, B, ptr, size, n) ==
    /\ Tidy(h, B) /\ ptr \in InUse(h, B) \ {heap_listp}
    /\ size \in Nat \ {0} /\ size % 4 = 0 /\ n = Adjusted(size)

(* What is known of them. *)
LEMMA WantedFacts ==
    ASSUME NEW h, NEW B, NEW ptr, NEW size, NEW n, Wanted(h, B, ptr, size, n)
    PROVE  /\ Tidy(h, B) /\ Sound(h, B) /\ Tiling(h, B) /\ h \in Heaps
           /\ ptr \in B \ {heap_listp, h.mem_brk} /\ Used(h, ptr) = 1 /\ ptr \in InUse(h, B)
           /\ ptr \in Nat /\ ptr % 8 = 0 /\ mem_start_brk < ptr /\ ptr \in Storage /\ ptr # NULL
           /\ Size(h, ptr) \in Nat /\ Size(h, ptr) % 8 = 0 /\ Size(h, ptr) >= 16
           /\ After(h, ptr) = ptr + Size(h, ptr) /\ After(h, ptr) \in B /\ After(h, ptr) \in Nat
           /\ h.mem_brk \in Nat /\ After(h, ptr) <= h.mem_brk /\ h.mem_brk <= mem_max_addr
           /\ mem_max_addr \in Nat /\ mem_start_brk \in Nat
           /\ n \in Nat /\ n % 8 = 0 /\ n >= 16 /\ size + 8 <= n
           /\ HDRP(ptr) = ptr - 4 /\ GET_SIZE(h, HDRP(ptr)) = Size(h, ptr)
           /\ NEXT_BLKP(h, ptr) = After(h, ptr)
<1>1. /\ Tidy(h, B) /\ Sound(h, B) /\ Tiling(h, B) /\ h \in Heaps
      /\ ptr \in B \ {heap_listp, h.mem_brk} /\ Used(h, ptr) = 1 /\ ptr \in InUse(h, B)
  BY DEF Wanted, Tidy, Sound, Tiling, Bounds, InUse
<1>2. /\ ptr \in Nat /\ ptr % 8 = 0 /\ heap_listp <= ptr /\ heap_listp = mem_start_brk + 8
      /\ Size(h, ptr) \in Nat /\ Size(h, ptr) % 8 = 0
      /\ After(h, ptr) = ptr + Size(h, ptr) /\ After(h, ptr) \in B /\ After(h, ptr) \in Nat
      /\ h.mem_brk \in Nat /\ After(h, ptr) <= h.mem_brk /\ h.mem_brk <= mem_max_addr
  BY <1>1, BlockFacts DEF After
<1>3. mem_max_addr \in Nat /\ mem_start_brk \in Nat
  BY AreaAssumption DEF mem_max_addr
<1>4. mem_start_brk < ptr /\ ptr # NULL
  BY <1>2, <1>3 DEF NULL
<1>5. Size(h, ptr) >= 16
  BY <1>1 DEF Tiling, BothTags, MINIMUM
<1>6. ptr \in Storage
  BY <1>1, BlocksAreInStorage
<1>7. n \in Nat /\ n % 8 = 0 /\ n >= 16 /\ size + 8 <= n
  BY AdjustedIsEnough DEF Wanted, DSIZE, OVERHEAD, MINIMUM
<1>8. /\ HDRP(ptr) = ptr - 4 /\ GET_SIZE(h, HDRP(ptr)) = Size(h, ptr)
      /\ NEXT_BLKP(h, ptr) = After(h, ptr)
  BY <1>1, TagsTell
<1> QED
  BY <1>1, <1>2, <1>3, <1>4, <1>5, <1>6, <1>7, <1>8

(* The block has the size already. *)
LEMMA MmStays ==
    ASSUME NEW h, NEW B, NEW ptr, NEW size, NEW n, Wanted(h, B, ptr, size, n),
           n = Size(h, ptr), NEW g, Returning(h, g, ptr)
    PROVE  Resizes(h, B, ptr, size, g, ptr, After(h, ptr))
<1>1. /\ Tidy(h, B) /\ Sound(h, B) /\ Tiling(h, B) /\ h \in Heaps
      /\ ptr \in InUse(h, B) /\ ptr \in Nat /\ After(h, ptr) \in Nat
      /\ After(h, ptr) = ptr + Size(h, ptr) /\ n \in Nat /\ n = Adjusted(size)
  BY WantedFacts DEF Wanted
<1>2. PICK S : S = InUse(h, B) \ {ptr}
  OBVIOUS
<1>3. /\ g.ret = ptr /\ g.mem_brk = h.mem_brk /\ After(g, ptr) = After(h, ptr)
      /\ \A a : GET(g, a) = GET(h, a)
      /\ InUse(g, B) = InUse(h, B) /\ Keeps(h, g, S)
  <2>1. ptr \in Int
    BY <1>1
  <2> QED
    BY <1>1, <2>1, Returns
<1>4. Tidy(g, B)
  <2>1. ptr \in Int
    BY <1>1
  <2> QED
    BY <1>1, <2>1, NeatReturns
<1>5. Serves(h, S, g, n)
  <2>1. InUse(g, B) = S \cup {ptr} /\ ptr \notin S
    BY <1>1, <1>2, <1>3
  <2>2. ptr + n <= After(g, ptr)
    <3>1. After(g, ptr) = ptr + n
      BY <1>1, <1>3, Zenon
    <3> QED
      BY <1>1, <3>1
  <2> QED
    BY <1>1, <1>3, <1>4, <2>1, <2>2 DEF Serves, Tidy
<1>6. Carried(h, g, ptr, size)
  BY <1>3 DEF Carried
<1> QED
  BY <1>1, <1>2, <1>3, <1>4, <1>5, <1>6 DEF Resizes, Neat

(* The block keeps its low end; what it can spare becomes free. *)
LEMMA MmShrinks ==
    ASSUME NEW h, NEW B, NEW ptr, NEW size, NEW n, Wanted(h, B, ptr, size, n),
           n + 16 <= Size(h, ptr), NEW m, m = ptr + n, NEW k, SplitAt(h, ptr, n, m, k),
           NEW f, f = Mm!coalesce(k, m), NEW g, Returning(f, g, ptr)
    PROVE  Resizes(h, B, ptr, size, g, ptr, ptr + n)
<1>1. /\ Tidy(h, B) /\ Sound(h, B) /\ Tiling(h, B) /\ h \in Heaps
      /\ ptr \in B \ {heap_listp, h.mem_brk} /\ Used(h, ptr) = 1 /\ ptr \in InUse(h, B)
      /\ ptr \in Nat /\ After(h, ptr) \in Nat
      /\ After(h, ptr) = ptr + Size(h, ptr) /\ Size(h, ptr) \in Nat
      /\ n \in Nat /\ size + 8 <= n /\ n = Adjusted(size) /\ size \in Nat
  BY WantedFacts DEF Wanted
<1>2. PICK S : S = InUse(h, B) \ {ptr}
  OBVIOUS
<1>3. ListedBut(h, B, ptr)
  <2>1. FreeIn(h, B) \ {ptr} = FreeIn(h, B)
    BY <1>1 DEF FreeIn
  <2> QED
    BY <1>1, <2>1 DEF ListedBut, Tidy
<1>4. WasSplit(h, B, ptr, n, f)
  BY <1>1, <1>3, SplitTidies
<1>5. PICK C : /\ Tidy(f, C)
               /\ InUse(f, C) = S \cup {ptr} /\ Keeps(h, f, S)
               /\ f.mem_brk = h.mem_brk /\ After(f, ptr) = ptr + n
               /\ \A a \in ptr .. ptr + n - 9 : GET(f, a) = GET(h, a)
  <2>1. InUse(h, B) \cup {ptr} = S \cup {ptr}
    BY <1>2
  <2> QED
    BY <1>2, <1>4, <2>1 DEF WasSplit
<1>6. f \in Heaps /\ ptr \in Int
  BY <1>1, <1>5 DEF Tidy, Sound, Tiling, Bounds
<1>7. /\ g.ret = ptr /\ g.mem_brk = f.mem_brk /\ After(g, ptr) = After(f, ptr)
      /\ \A a : GET(g, a) = GET(f, a)
      /\ InUse(g, C) = InUse(f, C) /\ Keeps(h, g, S)
  BY <1>5, <1>6, Returns
<1>8. Tidy(g, C)
  BY <1>5, <1>6, NeatReturns
<1>9. Serves(h, S, g, n)
  <2>1. ptr \notin S /\ ptr + n \in Nat
    BY <1>1, <1>2
  <2> QED
    BY <1>1, <1>5, <1>7, <1>8, <2>1 DEF Serves, Tidy
<1>10. Carried(h, g, ptr, size)
  <2> SUFFICES ASSUME NEW d \in 0 .. size - 1
               PROVE  GET(g, ptr + d) = GET(h, ptr + d)
    BY <1>7 DEF Carried
  <2>1. ptr + d \in ptr .. ptr + n - 9
    BY <1>1
  <2> QED
    BY <1>5, <1>7, <2>1
<1> QED
  BY <1>1, <1>2, <1>5, <1>7, <1>8, <1>9, <1>10 DEF Resizes, Neat

(* Of the blocks from first on and before e, only ptr is in use. *)
Spans(h, B, ptr, first, e) ==
    /\ first \in B \ {heap_listp} /\ e \in B /\ first \in Nat /\ e \in Nat
    /\ first <= ptr /\ After(h, ptr) <= e
    /\ \A c \in InUse(h, B) : first <= c /\ c < e => c = ptr

(* The free ones of them have left the list. *)
Cleared(h, B, x, first, e) ==
    /\ Sound(x, B) /\ ListedAround(x, B, first, e) /\ x.mem_brk = h.mem_brk
    /\ InUse(x, B) = InUse(h, B) /\ Keeps(h, x, InUse(h, B))

(* What was in the block ptr is at first, too. *)
Copied(k, j, first, e, ptr, c) ==
    /\ j \in Heaps /\ j.mem_brk = k.mem_brk /\ j.free_listp = k.free_listp
    /\ \A a \in Int : a \notin first .. e - 9 => GET(j, a) = GET(k, a)
    /\ \A d \in 0 .. c - 1 : first + d \in Storage => GET(j, first + d) = GET(k, ptr + d)

(* The blocks become one, and what was in ptr goes to its low end.         *)
LEMMA MmMerges ==
    ASSUME NEW h, NEW B, NEW ptr, NEW size, NEW n, Wanted(h, B, ptr, size, n),
           Size(h, ptr) < n, NEW first, NEW e, Spans(h, B, ptr, first, e), first + n <= e,
           NEW x, Cleared(h, B, x, first, e), NEW k, Tagged(x, k, first, e - first, 1),
           NEW j, Copied(k, j, first, e, ptr, Size(h, ptr)), NEW g, Returning(j, g, first)
    PROVE  Resizes(h, B, ptr, size, g, first, e) /\ Tidy(g, Fused(B, first, e))
<1>1. /\ Tidy(h, B) /\ Sound(h, B) /\ Tiling(h, B) /\ h \in Heaps
      /\ ptr \in B \ {heap_listp, h.mem_brk} /\ ptr \in InUse(h, B)
      /\ ptr \in Nat /\ After(h, ptr) \in Nat
      /\ After(h, ptr) = ptr + Size(h, ptr) /\ Size(h, ptr) \in Nat
      /\ n \in Nat /\ size + 8 <= n /\ n = Adjusted(size) /\ size \in Nat /\ n >= 16
  BY WantedFacts DEF Wanted
<1>2. PICK S : S = InUse(h, B) \ {ptr}
  OBVIOUS
<1>3. /\ first \in B \ {heap_listp} /\ e \in B /\ first \in Nat /\ e \in Nat /\ first < e
      /\ \A c \in B : c \in Nat
  <2>1. first \in B \ {heap_listp} /\ e \in B /\ first \in Nat /\ e \in Nat
    BY DEF Spans
  <2>2. \A c \in B : c \in Nat
    BY <1>1, BlockFacts
  <2> QED
    BY <1>1, <2>1, <2>2
<1>4. PICK C : C = Fused(B, first, e)
  OBVIOUS
<1>5. OneInUse(x, B, first, e, k, C)
  <2>1. Fuses(x, B, first, e, k)
    BY <1>3 DEF Fuses
  <2>2. Sound(x, B) /\ ListedAround(x, B, first, e)
    BY DEF Cleared
  <2> QED
    BY <1>4, <2>1, <2>2, FuseTidies
<1>6. \A c : c \in S <=> c \in InUse(h, B) /\ c \in C /\ c # first
  <2>1. \A c \in InUse(h, B) : c \in B
    BY DEF InUse
  <2>2. \A c \in S : c \in C /\ c # first
    <3> TAKE c \in S
    <3>1. c \in InUse(h, B) /\ c # ptr /\ c \in B /\ c \in Nat
      BY <1>2, <1>3, <2>1
    <3>2. ~(first <= c /\ c < e)
      BY <3>1 DEF Spans
    <3> QED
      BY <1>3, <1>4, <3>1, <3>2 DEF Fused
  <2>3. first # ptr => ptr \notin C
    <3>1. first <= ptr /\ After(h, ptr) <= e
      BY DEF Spans
    <3>2. ptr < After(h, ptr)
      BY <1>1, BlockFacts
    <3> QED
      BY <1>1, <1>3, <1>4, <3>1, <3>2 DEF Fused
  <2> QED
    BY <1>2, <2>2, <2>3
<1>7. /\ Tidy(k, C) /\ k.mem_brk = h.mem_brk /\ k \in Heaps
      /\ InUse(k, C) = S \cup {first} /\ first \notin S /\ After(k, first) = e
  <2>1. /\ Tidy(k, C) /\ k.mem_brk = x.mem_brk /\ After(k, first) = e
        /\ \A c : c \in InUse(k, C) <=> c = first \/ (c \in InUse(x, B) /\ c \in C)
    BY <1>5 DEF OneInUse
  <2>2. x.mem_brk = h.mem_brk /\ InUse(x, B) = InUse(h, B)
    BY DEF Cleared
  <2>3. \A c : c \in InUse(k, C) <=> c \in S \cup {first}
    BY <1>6, <2>1, <2>2
  <2>4. InUse(k, C) = S \cup {first}
    BY <2>3
  <2>5. k \in Heaps
    BY <2>1 DEF Tidy, Sound, Tiling, Bounds
  <2> QED
    BY <1>6, <2>1, <2>2, <2>4, <2>5
<1>8. /\ Tidy(j, C) /\ InUse(j, C) = InUse(k, C)
      /\ Keeps(k, j, S) /\ After(j, first) = e
      /\ j \in Heaps /\ j.mem_brk = k.mem_brk
  <2>1. /\ j \in Heaps /\ j.mem_brk = k.mem_brk /\ j.free_listp = k.free_listp
        /\ \A a \in Int : a \notin first .. After(k, first) - 9 => GET(j, a) = GET(k, a)
    BY <1>7 DEF Copied
  <2>2. first \in InUse(k, C) /\ InUse(k, C) \ {first} = S
    BY <1>7
  <2> QED
    BY <1>7, <2>1, <2>2, PayloadTidies
<1>9. Keeps(h, j, S)
  <2>1. Keeps(h, x, S)
    BY <1>2 DEF Cleared, Keeps
  <2>2. Keeps(x, k, S)
    <3>1. \A c \in S : /\ c \in InUse(x, B) /\ c \in C /\ c # first
                       /\ c \in B \ {x.mem_brk}
      BY <1>6 DEF Cleared, InUse
    <3> QED
      BY <1>5, <3>1 DEF OneInUse, Keeps
  <2>3. Keeps(h, k, S)
    BY <2>1, <2>2, KeepsOn
  <2> QED
    BY <1>8, <2>3, KeepsOn
<1>10. /\ g.ret = first /\ g.mem_brk = j.mem_brk /\ After(g, first) = After(j, first)
       /\ \A a : GET(g, a) = GET(j, a)
       /\ InUse(g, C) = InUse(j, C) /\ Keeps(h, g, S)
  <2>1. first \in Int
    BY <1>3
  <2> QED
    BY <1>8, <1>9, <2>1, Returns
<1>11. Tidy(g, C)
  <2>1. first \in Int
    BY <1>3
  <2> QED
    BY <1>8, <2>1, NeatReturns
<1>12. Serves(h, S, g, n)
  BY <1>3, <1>7, <1>8, <1>10, <1>11 DEF Serves, Tidy
<1>13. Carried(h, g, ptr, size)
  <2> SUFFICES ASSUME NEW d \in 0 .. size - 1, ptr + d <= After(h, ptr) - 9, first + d \in Storage
               PROVE  GET(g, first + d) = GET(h, ptr + d)
    BY <1>10 DEF Carried
  <2>1. d \in 0 .. Size(h, ptr) - 1 /\ ptr + d \in ptr .. After(h, ptr) - 9
    BY <1>1
  <2>2. GET(j, first + d) = GET(k, ptr + d)
    BY <2>1 DEF Copied
  <2>3. GET(x, ptr + d) = GET(h, ptr + d) /\ After(x, ptr) = After(h, ptr)
    BY <1>1, <2>1 DEF Cleared, Keeps, Untouched
  <2>4. GET(k, ptr + d) = GET(x, ptr + d)
    <3>1. ptr \in B \ {x.mem_brk}
      BY <1>1 DEF Cleared
    <3> QED
      BY <1>5, <2>1, <2>3, <3>1 DEF OneInUse, Untouched
  <2> QED
    BY <1>10, <2>2, <2>3, <2>4
<1> QED
  BY <1>1, <1>2, <1>4, <1>7, <1>8, <1>10, <1>11, <1>12, <1>13 DEF Resizes, Neat

(* The free list of x has the nodes G, and nothing else is new. *)
Unlisted(j, C, x, G) ==
    /\ Sound(x, C) /\ Listing(x, G) /\ x.mem_brk = j.mem_brk
    /\ \A c \in C : Size(x, c) = Size(j, c) /\ Used(x, c) = Used(j, c) /\ After(x, c) = After(j, c)
    /\ InUse(x, C) = InUse(j, C) /\ FreeIn(x, C) = FreeIn(j, C)
    /\ Keeps(j, x, InUse(j, C))

(* A node leaves the list if it is one of ns. *)
LEMMA LeavesIfIn ==
    ASSUME NEW j, NEW C, Sound(j, C), NEW F, F \subseteq FreeIn(j, C), Listing(j, F),
           NEW p, NEW ns, p \in ns => p \in F,
           NEW x, x = IF p \in ns THEN Mm!removeBlock(j, p) ELSE j
    PROVE  Unlisted(j, C, x, {c \in F : c \in ns => c # p})
<1>1. PICK G : G = {c \in F : c \in ns => c # p}
  OBVIOUS
<1>2. CASE p \in ns
  <2>1. PICK E : E = F \ {p}
    OBVIOUS
  <2>2. G = E
    BY <1>1, <1>2, <2>1
  <2>3. /\ Sound(x, C) /\ Listing(x, E) /\ x.mem_brk = j.mem_brk
        /\ \A c \in C : Size(x, c) = Size(j, c) /\ Used(x, c) = Used(j, c) /\ After(x, c) = After(j, c)
        /\ InUse(x, C) = InUse(j, C) /\ FreeIn(x, C) = FreeIn(j, C)
        /\ Keeps(j, x, InUse(j, C))
    <3>1. p \in F /\ x = Mm!removeBlock(j, p)
      BY <1>2
    <3>2. /\ Sound(x, C) /\ Listing(x, F \ {p}) /\ x.mem_brk = j.mem_brk
          /\ \A c \in C : /\ Size(x, c) = Size(j, c) /\ Used(x, c) = Used(j, c)
                          /\ After(x, c) = After(j, c)
          /\ InUse(x, C) = InUse(j, C) /\ FreeIn(x, C) = FreeIn(j, C)
          /\ Keeps(j, x, InUse(j, C))
      BY <3>1, RemoveTidies
    <3> QED
      BY <2>1, <3>2
  <2> QED
    BY <1>1, <2>2, <2>3 DEF Unlisted
<1>3. CASE p \notin ns
  <2>1. G = F /\ x = j
    BY <1>1, <1>3
  <2> QED
    BY <1>1, <2>1 DEF Unlisted, Keeps, Untouched
<1> QED
  BY <1>2, <1>3

(* The list without the nodes of ns. *)
LEMMA BothLeave ==
    ASSUME NEW h, NEW B, Tidy(h, B), NEW p, NEW q, NEW ns, ns \subseteq {p, q}, p # q,
           ns \subseteq FreeIn(h, B),
           NEW y, y = IF p \in ns THEN Mm!removeBlock(h, p) ELSE h,
           NEW x, x = IF q \in ns THEN Mm!removeBlock(y, q) ELSE y
    PROVE  Unlisted(h, B, x, FreeIn(h, B) \ ns)
<1>1. PICK F : F = FreeIn(h, B)
  OBVIOUS
<1>2. Sound(h, B) /\ Listing(h, F) /\ F \subseteq FreeIn(h, B) /\ (p \in ns => p \in F)
  BY <1>1 DEF Tidy
<1>3. PICK G : G = {c \in F : c \in ns => c # p}
  OBVIOUS
<1>4. Unlisted(h, B, y, G)
  <2>1. Unlisted(h, B, y, {c \in F : c \in ns => c # p})
    BY <1>2, LeavesIfIn
  <2> QED
    BY <1>3, <2>1
<1>5. PICK E : E = {c \in G : c \in ns => c # q}
  OBVIOUS
<1>6. Unlisted(y, B, x, E)
  <2>1. Sound(y, B) /\ Listing(y, G) /\ G \subseteq FreeIn(y, B) /\ (q \in ns => q \in G)
    BY <1>1, <1>3, <1>4 DEF Unlisted
  <2>2. Unlisted(y, B, x, {c \in G : c \in ns => c # q})
    BY <2>1, LeavesIfIn
  <2> QED
    BY <1>5, <2>2
<1>7. E = FreeIn(h, B) \ ns
  <2>1. \A c : c \in E <=> c \in FreeIn(h, B) \ ns
    BY <1>1, <1>3, <1>5
  <2> QED
    BY <2>1
<1>8. Keeps(h, x, InUse(h, B))
  BY <1>4, <1>6, KeepsOn DEF Unlisted
<1>9. Unlisted(h, B, x, E)
  BY <1>4, <1>6, <1>8 DEF Unlisted
<1> QED
  BY <1>7, <1>9

(* The free neighbours ns of ptr make a block with it from first to e. *)
Around(h, ptr, ns, first, e) ==
    /\ ns \subseteq {PREV_BLKP(h, ptr), After(h, ptr)}
    /\ \A q \in ns : Used(h, q) = 0
    /\ first = IF PREV_BLKP(h, ptr) \in ns THEN PREV_BLKP(h, ptr) ELSE ptr
    /\ e = IF After(h, ptr) \in ns THEN After(h, After(h, ptr)) ELSE After(h, ptr)

(* Where it starts and ends, and which other blocks there are. *)
LEMMA AroundFacts ==
    ASSUME NEW h, NEW B, NEW ptr, NEW size, NEW n, Wanted(h, B, ptr, size, n),
           NEW ns, NEW first, NEW e, Around(h, ptr, ns, first, e),
           NEW prev, prev = PREV_BLKP(h, ptr), NEW next, next = After(h, ptr)
    PROVE  /\ prev \in B /\ next \in B /\ prev # next /\ prev \in Nat /\ next \in Nat
           /\ Used(h, heap_listp) = 1 /\ Used(h, h.mem_brk) = 1
           /\ first \in B \ {heap_listp, h.mem_brk} /\ first \in Nat /\ first <= ptr
           /\ e \in B /\ e \in Nat /\ next <= e
           /\ \A c \in B : c \in ns <=> c # ptr /\ first <= c /\ c < e
           /\ Size(h, prev) \in Nat /\ prev + Size(h, prev) = ptr
           /\ next \in ns => Size(h, next) \in Nat /\ e = next + Size(h, next)
<1>1. /\ Tiling(h, B) /\ ptr \in B \ {heap_listp, h.mem_brk} /\ ptr \in Nat
      /\ next = ptr + Size(h, ptr) /\ Size(h, ptr) \in Nat /\ next \in B /\ next \in Nat
      /\ h.mem_brk \in Nat /\ Size(h, ptr) >= 16
  BY WantedFacts
<1>2. /\ prev \in B \ {h.mem_brk} /\ prev < ptr /\ After(h, prev) = ptr
  BY <1>1, PrevTells
<1>3. Used(h, heap_listp) = 1 /\ Used(h, h.mem_brk) = 1
  BY <1>1, BlockFacts
<1>4. prev \in Nat /\ Size(h, prev) \in Nat /\ prev + Size(h, prev) = ptr
  BY <1>1, <1>2, BlockFacts DEF After
<1>5. \A c \in B : c \in Nat /\ (prev < c => ptr <= c) /\ (ptr < c => next <= c)
  <2>1. \A c \in B : c \in Nat
    BY <1>1, BlockFacts
  <2>2. \A c \in B : ptr < c => After(h, ptr) <= c
    BY <1>1, BlockFacts
  <2>3. \A c \in B : prev < c => After(h, prev) <= c
    BY <1>1, <1>2, BlockFacts
  <2> QED
    BY <1>2, <2>1, <2>2, <2>3
<1>6. next \in ns => /\ After(h, next) \in B /\ After(h, next) \in Nat /\ next < After(h, next)
                     /\ Size(h, next) \in Nat /\ After(h, next) = next + Size(h, next)
                     /\ \A c \in B : next < c => After(h, next) <= c
  <2> SUFFICES ASSUME next \in ns
               PROVE  /\ After(h, next) \in B /\ After(h, next) \in Nat /\ next < After(h, next)
                      /\ Size(h, next) \in Nat /\ After(h, next) = next + Size(h, next)
                      /\ \A c \in B : next < c => After(h, next) <= c
    OBVIOUS
  <2>1. Used(h, next) = 0
    BY DEF Around
  <2>2. next # h.mem_brk
    BY <1>3, <2>1
  <2> QED
    BY <1>1, <2>2, BlockFacts DEF After
<1>7. prev \in ns => prev # heap_listp
  BY <1>3 DEF Around
<1>8. /\ ns \subseteq {prev, next}
      /\ first = IF prev \in ns THEN prev ELSE ptr
      /\ e = IF next \in ns THEN After(h, next) ELSE next
  BY DEF Around
<1>9. /\ first \in B \ {heap_listp, h.mem_brk} /\ first \in Nat /\ first <= ptr
      /\ e \in B /\ e \in Nat /\ next <= e
  BY <1>1, <1>2, <1>4, <1>6, <1>7, <1>8
<1>10. ASSUME NEW c \in B
       PROVE  c \in ns <=> c # ptr /\ first <= c /\ c < e
  <2>1. CASE c < ptr
    <3>1. c <= prev
      BY <1>1, <1>4, <1>5, <2>1
    <3>2. c # next /\ c < e
      BY <1>1, <1>5, <1>9, <2>1
    <3> QED
      BY <1>1, <1>4, <1>5, <1>8, <2>1, <3>1, <3>2
  <2>2. CASE c = ptr
    BY <1>1, <1>2, <1>8, <2>2
  <2>3. CASE ptr < c
    <3>1. next <= c /\ c # prev /\ first <= c /\ c # ptr
      BY <1>1, <1>2, <1>4, <1>5, <1>9, <2>3
    <3>2. c = next \/ next < c
      BY <1>1, <1>5, <3>1
    <3>3. CASE next \notin ns
      BY <1>1, <1>5, <1>8, <3>1, <3>3
    <3>4. CASE next \in ns
      BY <1>1, <1>5, <1>6, <1>8, <3>1, <3>2, <3>4
    <3> QED
      BY <3>3, <3>4
  <2> QED
    BY <1>1, <1>5, <2>1, <2>2, <2>3
<1>11. prev # next
  BY <1>1, <1>2, <1>4
<1> QED
  BY <1>1, <1>2, <1>3, <1>4, <1>6, <1>8, <1>9, <1>10, <1>11

(* Once they have left the list, the tags around them can be written. *)
LEMMA AroundSpans ==
    ASSUME NEW h, NEW B, NEW ptr, NEW size, NEW n, Wanted(h, B, ptr, size, n),
           NEW ns, NEW first, NEW e, Around(h, ptr, ns, first, e),
           NEW x, Unlisted(h, B, x, FreeIn(h, B) \ ns)
    PROVE  Spans(h, B, ptr, first, e) /\ Cleared(h, B, x, first, e)
<1>1. PICK prev : prev = PREV_BLKP(h, ptr)
  OBVIOUS
<1>2. PICK next : next = After(h, ptr)
  OBVIOUS
<1>3. /\ Used(h, heap_listp) = 1 /\ Used(h, h.mem_brk) = 1
      /\ first \in B \ {heap_listp, h.mem_brk} /\ first \in Nat /\ first <= ptr
      /\ e \in B /\ e \in Nat /\ next <= e
      /\ \A c \in B : c \in ns <=> c # ptr /\ first <= c /\ c < e
  BY <1>1, <1>2, AroundFacts
<1>4. /\ Tiling(h, B) /\ Used(h, ptr) = 1 /\ ptr \in B /\ \A c \in B : c \in Nat
      /\ ptr < next /\ ptr \in Nat /\ next \in Nat
  <2>1. Tiling(h, B) /\ Used(h, ptr) = 1 /\ ptr \in B \ {heap_listp, h.mem_brk}
    BY WantedFacts
  <2> QED
    BY <1>2, <2>1, BlockFacts
<1>5. Spans(h, B, ptr, first, e)
  <2>1. \A c \in InUse(h, B) : c \in B /\ c \notin ns
    BY DEF InUse, Around
  <2> QED
    BY <1>2, <1>3, <2>1 DEF Spans
<1>6. PICK G : G = FreeIn(h, B) \ ns
  OBVIOUS
<1>7. FreeIn(x, Fused(B, first, e)) \ {first} = G
  <2>1. \A c \in B : Used(x, c) = Used(h, c)
    BY DEF Unlisted
  <2>2. \A c \in B : Used(h, c) = 0 => (c \notin ns <=> c < first \/ e <= c)
    BY <1>3, <1>4
  <2>3. \A c : c \in FreeIn(x, Fused(B, first, e)) \ {first} <=> c \in G
    <3>1. \A c : c \in FreeIn(x, Fused(B, first, e)) <=>
                    c \in B /\ Used(h, c) = 0 /\ (c <= first \/ e <= c)
      BY <2>1 DEF FreeIn, Fused
    <3>2. \A c : c \in G <=> c \in B /\ Used(h, c) = 0 /\ c \notin ns
      BY <1>6 DEF FreeIn
    <3>3. \A c \in B : (c <= first \/ e <= c) /\ c # first <=> c < first \/ e <= c
      BY <1>2, <1>3, <1>4
    <3> QED
      BY <2>2, <3>1, <3>2, <3>3
  <2> QED
    BY <2>3
<1>8. Cleared(h, B, x, first, e)
  <2>1. Sound(x, B) /\ Listing(x, G) /\ x.mem_brk = h.mem_brk
        /\ InUse(x, B) = InUse(h, B) /\ Keeps(h, x, InUse(h, B))
    BY <1>6 DEF Unlisted
  <2>2. ListedAround(x, B, first, e)
    BY <1>7, <2>1 DEF ListedAround
  <2> QED
    BY <2>1, <2>2 DEF Cleared
<1> QED
  BY <1>5, <1>8

(* The neighbours ns of ptr have left the list. *)
Parts(h, ptr, ns, y, x) ==
    /\ y = IF PREV_BLKP(h, ptr) \in ns THEN Mm!removeBlock(h, PREV_BLKP(h, ptr)) ELSE h
    /\ x = IF After(h, ptr) \in ns THEN Mm!removeBlock(y, After(h, ptr)) ELSE y

(* The block from first to e, tagged as one in use. *)
LEMMA MmMergedWith ==
    ASSUME NEW h, NEW B, NEW ptr, NEW size, NEW n, Wanted(h, B, ptr, size, n),
           NEW ns, NEW first, NEW e, Around(h, ptr, ns, first, e),
           NEW k, k = Mm!MergedWith(h, ptr, ns, first)
    PROVE  /\ Mm!Room(h, ptr, ns) \in Nat /\ e - first = Size(h, ptr) + Mm!Room(h, ptr, ns)
           /\ Spans(h, B, ptr, first, e)
           /\ \E x : /\ Cleared(h, B, x, first, e) /\ Tagged(x, k, first, e - first, 1)
                     /\ \E y : Parts(h, ptr, ns, y, x)
           /\ k \in Heaps
<1>1. PICK prev : prev = PREV_BLKP(h, ptr)
  OBVIOUS
<1>2. PICK next : next = After(h, ptr)
  OBVIOUS
<1>3. /\ prev \in B /\ next \in B /\ prev # next /\ prev \in Nat /\ next \in Nat
      /\ Used(h, heap_listp) = 1 /\ Used(h, h.mem_brk) = 1
      /\ first \in B \ {heap_listp, h.mem_brk} /\ first \in Nat /\ first <= ptr
      /\ e \in B /\ e \in Nat /\ next <= e
      /\ Size(h, prev) \in Nat /\ prev + Size(h, prev) = ptr
      /\ next \in ns => Size(h, next) \in Nat /\ e = next + Size(h, next)
  BY <1>1, <1>2, AroundFacts
<1>4. /\ Tidy(h, B) /\ Tiling(h, B) /\ h \in Heaps /\ ptr \in Nat
      /\ next = ptr + Size(h, ptr) /\ Size(h, ptr) \in Nat /\ Size(h, ptr) >= 16
      /\ GET_SIZE(h, HDRP(ptr)) = Size(h, ptr) /\ NEXT_BLKP(h, ptr) = next
      /\ mem_max_addr \in Nat /\ mem_start_brk \in Nat
  BY <1>2, WantedFacts
<1>5. /\ GET_SIZE(h, HDRP(prev)) = Size(h, prev) /\ GET_SIZE(h, HDRP(next)) = Size(h, next)
  BY <1>3, <1>4, TagsTell
<1>6. /\ ns \subseteq {prev, next} /\ \A q \in ns : Used(h, q) = 0
      /\ first = IF prev \in ns THEN prev ELSE ptr
      /\ next \notin ns => e = next
  BY <1>1, <1>2 DEF Around
<1>7. PICK room : room = (IF prev \in ns THEN Size(h, prev) ELSE 0)
                            + (IF next \in ns THEN Size(h, next) ELSE 0)
  OBVIOUS
<1>8. Mm!Room(h, ptr, ns) = room
  <2>1. /\ Mm!PREV_BLKP(h, ptr) = prev /\ Mm!NEXT_BLKP(h, ptr) = next
        /\ Mm!GET_SIZE(h, Mm!HDRP(prev)) = Size(h, prev)
        /\ Mm!GET_SIZE(h, Mm!HDRP(next)) = Size(h, next)
    BY <1>1, <1>4, <1>5, MmTags
  <2> QED
    BY <1>7, <2>1, Zenon DEF Mm!Room
<1>9. room \in Nat /\ e - first = Size(h, ptr) + room
  <2>1. CASE prev \in ns /\ next \in ns
    BY <1>3, <1>4, <1>6, <1>7, <2>1
  <2>2. CASE prev \in ns /\ next \notin ns
    BY <1>3, <1>4, <1>6, <1>7, <2>2
  <2>3. CASE prev \notin ns /\ next \in ns
    BY <1>3, <1>4, <1>6, <1>7, <2>3
  <2>4. CASE prev \notin ns /\ next \notin ns
    BY <1>3, <1>4, <1>6, <1>7, <2>4
  <2> QED
    BY <2>1, <2>2, <2>3, <2>4
<1>10. PICK y : y = IF prev \in ns THEN Mm!removeBlock(h, prev) ELSE h
  OBVIOUS
<1>11. PICK x : x = IF next \in ns THEN Mm!removeBlock(y, next) ELSE y
  OBVIOUS
<1>12. Unlisted(h, B, x, FreeIn(h, B) \ ns)
  <2>1. ns \subseteq FreeIn(h, B)
    BY <1>3, <1>6 DEF FreeIn
  <2> QED
    BY <1>3, <1>4, <1>6, <1>10, <1>11, <2>1, BothLeave
<1>13. Spans(h, B, ptr, first, e) /\ Cleared(h, B, x, first, e)
  BY <1>12, AroundSpans
<1>14. k = Tag(x, first, e - first, 1)
  <2>1. /\ Mm!PREV_BLKP(h, ptr) = prev /\ Mm!NEXT_BLKP(h, ptr) = next
        /\ Mm!GET_SIZE(h, Mm!HDRP(ptr)) = Size(h, ptr)
    BY <1>1, <1>4, MmTags
  <2>2. k = Mm!Tag(x, first, Size(h, ptr) + Mm!Room(h, ptr, ns), 1)
    BY <1>10, <1>11, <2>1, Zenon DEF Mm!MergedWith
  <2> QED
    BY <1>8, <1>9, <2>2, MmTags
<1>15. Tagged(x, k, first, e - first, 1)
  <2>1. x \in Heaps
    BY <1>12 DEF Unlisted, Sound, Tiling, Bounds
  <2>2. /\ first % 8 = 0 /\ e % 8 = 0 /\ heap_listp <= first /\ heap_listp = mem_start_brk + 8
        /\ e <= h.mem_brk /\ h.mem_brk <= mem_max_addr /\ h.mem_brk \in Nat
    BY <1>3, <1>4, BlockFacts
  <2>3. /\ e - first \in Nat /\ e - first > 0 /\ (e - first) % 8 = 0
        /\ first + (e - first) <= mem_max_addr /\ mem_start_brk < first
    BY <1>3, <1>4, <1>9, <2>2
  <2>4. PICK s : s = e - first
    OBVIOUS
  <2>5. Tagged(x, k, first, s, 1)
    BY <1>3, <1>14, <2>1, <2>2, <2>3, <2>4, TagTags
  <2> QED
    BY <2>4, <2>5
<1>16. Parts(h, ptr, ns, y, x)
  BY <1>1, <1>2, <1>10, <1>11 DEF Parts
<1> QED
  BY <1>8, <1>9, <1>13, <1>15, <1>16 DEF Tagged

(* What is needed has room in the block and its free neighbours ns. *)
FitsIn(h, ptr, n, ns) == Size(h, ptr) < n /\ n - Size(h, ptr) <= Mm!Room(h, ptr, ns)

(* The block grows upwards only: what is in it stays where it is. *)
LEMMA MmGrowsUp ==
    ASSUME NEW h, NEW B, NEW ptr, NEW size, NEW n, Wanted(h, B, ptr, size, n),
           NEW ns, NEW e, Around(h, ptr, ns, ptr, e), FitsIn(h, ptr, n, ns),
           NEW k, k = Mm!MergedWith(h, ptr, ns, ptr), NEW g, Returning(k, g, ptr)
    PROVE  Resizes(h, B, ptr, size, g, ptr, e) /\ Tidy(g, Fused(B, ptr, e))
<1>1. /\ ptr \in Nat /\ Size(h, ptr) \in Nat /\ n \in Nat
  BY WantedFacts
<1>2. /\ Mm!Room(h, ptr, ns) \in Nat /\ e - ptr = Size(h, ptr) + Mm!Room(h, ptr, ns)
      /\ Spans(h, B, ptr, ptr, e)
      /\ k \in Heaps
  BY MmMergedWith
<1>3. PICK x : Cleared(h, B, x, ptr, e) /\ Tagged(x, k, ptr, e - ptr, 1)
  BY MmMergedWith
<1>4. Size(h, ptr) < n /\ ptr + n <= e
  BY <1>1, <1>2 DEF FitsIn, Spans
<1>5. Copied(k, k, ptr, e, ptr, Size(h, ptr))
  BY <1>2 DEF Copied
<1> QED
  BY <1>2, <1>3, <1>4, <1>5, MmMerges

(* When a block grows downwards, what is in it is copied to the low end.   *)
LEMMA DownCopied ==
    ASSUME NEW h, NEW B, NEW ptr, NEW size, NEW n, Wanted(h, B, ptr, size, n),
           NEW ns, NEW prev, prev \in ns, prev = PREV_BLKP(h, ptr),
           NEW e, Around(h, ptr, ns, prev, e), FitsIn(h, ptr, n, ns),
           NEW k, k = Mm!MergedWith(h, ptr, ns, prev),
           NEW j, j = memcpy(k, prev, ptr, Size(h, ptr), "up")
    PROVE  Copied(k, j, prev, e, ptr, Size(h, ptr)) /\ Size(h, ptr) < n /\ prev + n <= e
<1>1. /\ ptr \in Nat /\ Size(h, ptr) \in Nat /\ n \in Nat /\ Size(h, ptr) % 8 = 0 /\ n % 8 = 0
      /\ Tiling(h, B) /\ ptr \in Storage /\ mem_start_brk \in Nat
  BY WantedFacts
<1>2. /\ Mm!Room(h, ptr, ns) \in Nat /\ e - prev = Size(h, ptr) + Mm!Room(h, ptr, ns)
      /\ Spans(h, B, ptr, prev, e)
      /\ k \in Heaps
  BY MmMergedWith
<1>3. /\ prev \in B \ {heap_listp} /\ prev \in Nat /\ e \in Nat /\ prev <= ptr
  BY <1>2 DEF Spans
<1>4. /\ Size(h, ptr) < n /\ prev + n <= e /\ Size(h, ptr) + 8 <= n
  BY <1>1, <1>2, <1>3 DEF FitsIn
<1>5. prev \in Storage
  <2>1. prev # h.mem_brk
    <3>1. Used(h, prev) = 0
      BY DEF Around
    <3> QED
      BY <1>1, <1>3, <3>1, BlockFacts
  <2> QED
    BY <1>1, <1>3, <2>1, BlocksAreInStorage
<1>6. PICK c : c = Size(h, ptr)
  OBVIOUS
<1>7. /\ j \in Heaps /\ j.mem_brk = k.mem_brk /\ j.free_listp = k.free_listp
      /\ \A a \in Int : a \notin prev .. prev + c - 1 => GET(j, a) = GET(k, a)
      /\ \A d \in 0 .. c - 1 : prev + d \in Storage => GET(j, prev + d) = GET(k, ptr + d)
  <2>1. c \in Nat /\ c % 4 = 0 /\ (ptr + c <= prev \/ prev <= ptr)
    BY <1>1, <1>3, <1>6
  <2>2. j = memcpy(k, prev, ptr, c, "up")
    BY <1>6
  <2>3. k \in Heaps /\ prev \in Storage /\ ptr \in Storage /\ c \in Nat
        /\ c % 4 = 0 /\ (ptr + c <= prev \/ prev <= ptr)
    BY <1>1, <1>2, <1>5, <2>1
  <2>4. LET q == memcpy(k, prev, ptr, c, "up")
        IN  /\ q \in Heaps /\ q.mem_brk = k.mem_brk
            /\ q.free_listp = k.free_listp /\ q.ret = k.ret
            /\ \A a \in Int : a \notin prev .. prev + c - 1 => GET(q, a) = GET(k, a)
            /\ \A d \in 0 .. c - 1 :
                 prev + d \in Storage => GET(q, prev + d) = GET(k, ptr + d)
    BY <2>3, CopyCopies
  <2> QED
    BY <2>2, <2>4
<1>8. Copied(k, j, prev, e, ptr, c)
  <2>1. \A a \in Int : a \notin prev .. e - 9 => a \notin prev .. prev + c - 1
    BY <1>1, <1>3, <1>4, <1>6
  <2> QED
    BY <1>7, <2>1 DEF Copied
<1> QED
  BY <1>4, <1>6, <1>8

(* The block grows downwards: what is in it moves to the low end. *)
LEMMA MmGrowsDown ==
    ASSUME NEW h, NEW B, NEW ptr, NEW size, NEW n, Wanted(h, B, ptr, size, n),
           NEW ns, NEW prev, prev \in ns, prev = PREV_BLKP(h, ptr),
           NEW e, Around(h, ptr, ns, prev, e), FitsIn(h, ptr, n, ns),
           NEW k, k = Mm!MergedWith(h, ptr, ns, prev),
           NEW j, j = memcpy(k, prev, ptr, Size(h, ptr), "up"), NEW g, Returning(j, g, prev)
    PROVE  Resizes(h, B, ptr, size, g, prev, e) /\ Tidy(g, Fused(B, prev, e))
<1>1. Copied(k, j, prev, e, ptr, Size(h, ptr)) /\ Size(h, ptr) < n /\ prev + n <= e
  BY DownCopied
<1>2. Spans(h, B, ptr, prev, e)
  BY MmMergedWith
<1>3. PICK x : Cleared(h, B, x, prev, e) /\ Tagged(x, k, prev, e - prev, 1)
  BY MmMergedWith
<1> QED
  BY <1>1, <1>2, <1>3, MmMerges

(* The tags of two halves, written over those of the whole or not. *)
LEMMA RetagInside ==
    ASSUME NEW b \in Nat, NEW n \in Nat, NEW r \in Nat, NEW m, m = b + n, NEW e, e = m + r,
           NEW x, NEW y, Tagged(x, y, b, e - b, 1), NEW k1, Tagged(x, k1, b, n, 1),
           NEW k2, Tagged(k1, k2, m, r, 1), NEW k3, Tagged(k2, k3, m, r, 0),
           NEW j, Tagged(y, j, b, n, 1)
    PROVE  Tagged(j, k3, m, r, 0)
<1>1. /\ k3 \in Heaps /\ k3.mem_brk = j.mem_brk /\ k3.free_listp = j.free_listp
  BY DEF Tagged
<1>2. b + (e - b) - 8 = m + r - 8
  OBVIOUS
<1>3. ASSUME NEW a
      PROVE  GET(k3, a) = IF a \in {m - 4, m + r - 8} THEN PACK(r, 0) ELSE GET(j, a)
  <2>1. GET(k3, a) = IF a \in {m - 4, m + r - 8} THEN PACK(r, 0) ELSE GET(k2, a)
    BY DEF Tagged
  <2>2. GET(k2, a) = IF a \in {m - 4, m + r - 8} THEN PACK(r, 1) ELSE GET(k1, a)
    BY DEF Tagged
  <2>3. GET(k1, a) = IF a \in {b - 4, b + n - 8} THEN PACK(n, 1) ELSE GET(x, a)
    BY DEF Tagged
  <2>4. GET(j, a) = IF a \in {b - 4, b + n - 8} THEN PACK(n, 1) ELSE GET(y, a)
    BY DEF Tagged
  <2>5. GET(y, a) = IF a \in {b - 4, b + (e - b) - 8} THEN PACK(e - b, 1) ELSE GET(x, a)
    BY DEF Tagged
  <2>6. a \notin {m - 4, m + r - 8} => GET(k2, a) = GET(j, a)
    BY <1>2, <2>2, <2>3, <2>4, <2>5, Zenon
  <2> QED
    BY <2>1, <2>6, Zenon
<1>4. \A a : GET(k3, a) = IF a \in {m - 4, m + r - 8} THEN PACK(r, 0) ELSE GET(j, a)
  BY <1>3, Zenon
<1> QED
  BY <1>1, <1>4 DEF Tagged

(* The block and the free one r after it are one first, and then n bytes   *)
(* of them are the block.                                                  *)
Stretched(k, C, ptr, n, m, r, e, f) ==
    /\ r = After(k, ptr) /\ r \in C /\ Used(k, r) = 0 /\ e = After(k, r)
    /\ Size(k, ptr) < n /\ m = ptr + n /\ m + 16 <= e
    /\ \E x, k1, k2, k3 :
          /\ x = Mm!removeBlock(k, r) /\ Tagged(x, k1, ptr, n, 1)
          /\ Tagged(k1, k2, m, e - m, 1) /\ Tagged(k2, k3, m, e - m, 0)
          /\ f = Mm!coalesce(k3, m)

(* The block ends at m, and up to r it has what it had. *)
Lengthened(k, B, ptr, m, r, f) ==
    \E C : /\ Tidy(f, C) /\ InUse(f, C) = InUse(k, B)
           /\ Keeps(k, f, InUse(k, B) \ {ptr})
           /\ f.mem_brk = k.mem_brk /\ After(f, ptr) = m
           /\ \A a \in ptr .. r - 9 : GET(f, a) = GET(k, a)

(* That is the block ptr of y, which has taken all of r, split after n     *)
(* bytes.                                                                  *)
Stretching(k, B, ptr, n, m, r, e, f, x, y, D, k3) ==
    /\ x = Mm!removeBlock(k, r) /\ x.mem_brk = k.mem_brk
    /\ InUse(x, B) = InUse(k, B) /\ Keeps(k, x, InUse(k, B))
    /\ D = Fused(B, ptr, e) /\ OneInUse(x, B, ptr, e, y, D) /\ Spans(k, B, ptr, ptr, e)
    /\ InUse(y, D) = InUse(k, B) /\ y.mem_brk = k.mem_brk /\ y \in Heaps
    /\ Sound(y, D) /\ ListedBut(y, D, ptr) /\ ptr \in D \ {heap_listp, y.mem_brk}
    /\ Used(y, ptr) = 1 /\ SplitAt(y, ptr, n, m, k3) /\ f = Mm!coalesce(k3, m)
    /\ \E j1, j2 : /\ Tagged(x, j1, ptr, n, 1) /\ Tagged(j1, j2, m, e - m, 1)
                   /\ Tagged(j2, k3, m, e - m, 0)

(* It comes to that. *)
LEMMA StretchSplits ==
    ASSUME NEW k, NEW B, NEW ptr, NEW size, NEW n, Wanted(k, B, ptr, size, n),
           NEW m, NEW r, NEW e, NEW f, Stretched(k, B, ptr, n, m, r, e, f)
    PROVE  \E x, y, D, k3 : Stretching(k, B, ptr, n, m, r, e, f, x, y, D, k3)
<1>1. /\ Tidy(k, B) /\ Sound(k, B) /\ Tiling(k, B) /\ k \in Heaps
      /\ ptr \in B \ {heap_listp, k.mem_brk} /\ ptr \in InUse(k, B) /\ Used(k, ptr) = 1
      /\ ptr \in Nat /\ ptr % 8 = 0 /\ mem_start_brk < ptr
      /\ After(k, ptr) = ptr + Size(k, ptr) /\ Size(k, ptr) \in Nat /\ Size(k, ptr) >= 16
      /\ n \in Nat /\ n % 8 = 0 /\ n >= 16
      /\ k.mem_brk \in Nat /\ k.mem_brk <= mem_max_addr /\ mem_max_addr \in Nat
  BY WantedFacts
<1>2. /\ r = After(k, ptr) /\ r \in B /\ Used(k, r) = 0 /\ e = After(k, r)
      /\ Size(k, ptr) < n /\ m = ptr + n /\ m + 16 <= e
  BY DEF Stretched
<1>3. PICK x, k1, k2, k3 :
          /\ x = Mm!removeBlock(k, r) /\ Tagged(x, k1, ptr, n, 1)
          /\ Tagged(k1, k2, m, e - m, 1) /\ Tagged(k2, k3, m, e - m, 0)
          /\ f = Mm!coalesce(k3, m)
  BY DEF Stretched
<1>4. /\ r # k.mem_brk /\ r \in Nat /\ e \in B /\ e \in Nat /\ e <= k.mem_brk /\ e % 8 = 0
      /\ r < e /\ ptr < r
  <2>1. r # k.mem_brk
    BY <1>1, <1>2, BlockFacts
  <2> QED
    BY <1>1, <1>2, <2>1, BlockFacts
<1>5. PICK ns : ns = {r}
  OBVIOUS
<1>6. Around(k, ptr, ns, ptr, e)
  <2>1. PREV_BLKP(k, ptr) < ptr
    BY <1>1, PrevTells
  <2>2. PREV_BLKP(k, ptr) \notin ns
    BY <1>1, <1>4, <1>5, <2>1, PrevTells, BlockFacts
  <2> QED
    BY <1>2, <1>5, <2>2 DEF Around
<1>7. Unlisted(k, B, x, FreeIn(k, B) \ ns)
  <2>1. r \in FreeIn(k, B) /\ Listing(k, FreeIn(k, B)) /\ FreeIn(k, B) \subseteq FreeIn(k, B)
    BY <1>1, <1>2 DEF FreeIn, Tidy
  <2>2. PICK F : F = FreeIn(k, B)
    OBVIOUS
  <2>3. /\ Sound(x, B) /\ Listing(x, F \ {r}) /\ x.mem_brk = k.mem_brk
        /\ \A c \in B : /\ Size(x, c) = Size(k, c) /\ Used(x, c) = Used(k, c)
                        /\ After(x, c) = After(k, c)
        /\ InUse(x, B) = InUse(k, B) /\ FreeIn(x, B) = FreeIn(k, B)
        /\ Keeps(k, x, InUse(k, B))
    BY <1>1, <1>3, <2>1, <2>2, RemoveTidies
  <2> QED
    BY <1>5, <2>2, <2>3 DEF Unlisted
<1>8. Spans(k, B, ptr, ptr, e) /\ Cleared(k, B, x, ptr, e)
  BY <1>6, <1>7, AroundSpans
<1>9. PICK y : y = Tag(x, ptr, e - ptr, 1)
  OBVIOUS
<1>10. /\ x \in Heaps /\ x.mem_brk = k.mem_brk /\ Sound(x, B) /\ ListedAround(x, B, ptr, e)
       /\ InUse(x, B) = InUse(k, B) /\ Keeps(k, x, InUse(k, B))
  BY <1>8 DEF Cleared, Sound, Tiling, Bounds
<1>11. Tagged(x, y, ptr, e - ptr, 1)
  <2>1. PICK s : s = e - ptr
    OBVIOUS
  <2>2. s \in Nat /\ s % 8 = 0 /\ s > 0 /\ ptr + s <= mem_max_addr
    BY <1>1, <1>4, <2>1
  <2>3. Tagged(x, y, ptr, s, 1)
    BY <1>1, <1>9, <1>10, <2>1, <2>2, TagTags
  <2> QED
    BY <2>1, <2>3
<1>12. PICK D : D = Fused(B, ptr, e)
  OBVIOUS
<1>13. OneInUse(x, B, ptr, e, y, D)
  <2>1. Fuses(x, B, ptr, e, y)
    BY <1>1, <1>4, <1>11 DEF Fuses
  <2> QED
    BY <1>10, <1>12, <2>1, FuseTidies
<1>14. /\ Tidy(y, D) /\ y.mem_brk = k.mem_brk /\ After(y, ptr) = e /\ y \in Heaps
  BY <1>10, <1>13 DEF OneInUse, Tidy, Sound, Tiling, Bounds
<1>15. InUse(y, D) = InUse(k, B) /\ ptr \in D /\ Sound(y, D) /\ Used(y, ptr) = 1
       /\ ptr \in D \ {heap_listp, y.mem_brk}
  <2>1. \A c \in InUse(k, B) : c = ptr \/ c \in D
    <3> TAKE c \in InUse(k, B)
    <3>1. c \in B /\ c \in Nat /\ ptr \in Nat
      BY <1>1, BlockFacts DEF InUse
    <3>2. ptr <= c /\ c < e => c = ptr
      BY <1>8 DEF Spans
    <3> QED
      BY <1>4, <1>12, <3>1, <3>2 DEF Fused
  <2>2. \A c : c \in InUse(y, D) <=> c = ptr \/ (c \in InUse(x, B) /\ c \in D)
    BY <1>13 DEF OneInUse
  <2>3. \A c : c \in InUse(y, D) <=> c \in InUse(k, B)
    BY <1>1, <1>10, <2>1, <2>2
  <2>4. InUse(y, D) = InUse(k, B)
    BY <2>3
  <2> QED
    BY <1>1, <1>14, <2>4 DEF InUse, Tidy
<1>16. ListedBut(y, D, ptr)
  <2>1. FreeIn(y, D) \ {ptr} = FreeIn(y, D)
    BY <1>15 DEF FreeIn
  <2> QED
    BY <1>14, <2>1 DEF Tidy, ListedBut
<1>17. Size(y, ptr) = e - ptr /\ Size(y, ptr) - n = e - m /\ Size(y, ptr) \in Nat
  <2>1. Size(y, ptr) \in Nat
    BY <1>15, BlockFacts DEF Sound
  <2> QED
    BY <1>1, <1>2, <1>4, <1>14, <2>1 DEF After
<1>18. SplitAt(y, ptr, n, m, k3)
  <2>1. Halves(y, ptr, n, m, Size(y, ptr) - n)
    BY <1>1, <1>2, <1>4, <1>17 DEF Halves, MINIMUM
  <2>2. PICK j : j = Tag(y, ptr, n, 1)
    OBVIOUS
  <2>3. Tagged(y, j, ptr, n, 1)
    <3>1. n > 0 /\ ptr + n <= mem_max_addr
      BY <1>1, <1>2, <1>4
    <3> QED
      BY <1>1, <1>14, <2>2, <3>1, TagTags
  <2>4. PICK rest : rest = e - m
    OBVIOUS
  <2>5. rest \in Nat /\ e = m + rest
    BY <1>1, <1>2, <1>4, <2>4
  <2>6. Tagged(j, k3, m, rest, 0)
    <3>1. Tagged(k1, k2, m, rest, 1) /\ Tagged(k2, k3, m, rest, 0)
      BY <1>3, <2>4
    <3> QED
      BY <1>1, <1>2, <1>3, <1>11, <2>3, <2>5, <3>1, RetagInside
  <2>7. Tagged(j, k3, m, Size(y, ptr) - n, 0)
    BY <1>17, <2>4, <2>6
  <2> QED
    BY <2>1, <2>3, <2>7 DEF SplitAt
<1>19. Stretching(k, B, ptr, n, m, r, e, f, x, y, D, k3)
  BY <1>3, <1>8, <1>10, <1>12, <1>13, <1>14, <1>15, <1>16, <1>18 DEF Stretching
<1> QED
  BY <1>19

(* It leaves the heap in order and the other blocks as they were. *)
LEMMA MmStretches ==
    ASSUME NEW k, NEW B, NEW ptr, NEW size, NEW n, Wanted(k, B, ptr, size, n),
           NEW m, NEW r, NEW e, NEW f, Stretched(k, B, ptr, n, m, r, e, f)
    PROVE  Lengthened(k, B, ptr, m, r, f)
<1>1. /\ Tidy(k, B) /\ Sound(k, B) /\ Tiling(k, B) /\ k \in Heaps
      /\ ptr \in B \ {heap_listp, k.mem_brk} /\ ptr \in InUse(k, B) /\ Used(k, ptr) = 1
      /\ ptr \in Nat /\ ptr % 8 = 0 /\ mem_start_brk < ptr
      /\ After(k, ptr) = ptr + Size(k, ptr) /\ Size(k, ptr) \in Nat /\ Size(k, ptr) >= 16
      /\ n \in Nat /\ n % 8 = 0 /\ n >= 16
      /\ k.mem_brk \in Nat /\ k.mem_brk <= mem_max_addr /\ mem_max_addr \in Nat
  BY WantedFacts
<1>2. /\ r = After(k, ptr) /\ r \in B /\ Used(k, r) = 0 /\ e = After(k, r)
      /\ Size(k, ptr) < n /\ m = ptr + n /\ m + 16 <= e
  BY DEF Stretched
<1>3. PICK x, y, D, k3 : Stretching(k, B, ptr, n, m, r, e, f, x, y, D, k3)
  BY StretchSplits
<1>4. /\ r # k.mem_brk /\ r \in Nat /\ e \in B /\ e \in Nat /\ e <= k.mem_brk /\ e % 8 = 0
      /\ r < e /\ ptr < r
  <2>1. r # k.mem_brk
    BY <1>1, <1>2, BlockFacts
  <2> QED
    BY <1>1, <1>2, <2>1, BlockFacts
<1>5. /\ x.mem_brk = k.mem_brk /\ InUse(x, B) = InUse(k, B) /\ Keeps(k, x, InUse(k, B))
  BY <1>3 DEF Stretching
<1>6. OneInUse(x, B, ptr, e, y, D)
  BY <1>3 DEF Stretching
<1>7. /\ y.mem_brk = k.mem_brk /\ After(y, ptr) = e /\ y \in Heaps
  BY <1>3, <1>6 DEF Stretching, OneInUse
<1>8. InUse(y, D) = InUse(k, B) /\ ptr \in D /\ Sound(y, D) /\ Used(y, ptr) = 1
       /\ ptr \in D \ {heap_listp, y.mem_brk}
  BY <1>3 DEF Stretching
<1>9. ListedBut(y, D, ptr)
  BY <1>3 DEF Stretching
<1>10. SplitAt(y, ptr, n, m, k3) /\ f = Mm!coalesce(k3, m)
  BY <1>3 DEF Stretching
<1>11. WasSplit(y, D, ptr, n, f)
  BY <1>8, <1>9, <1>10, SplitTidies
<1>12. PICK C : /\ Tidy(f, C)
                /\ InUse(f, C) = InUse(y, D) \cup {ptr} /\ Keeps(y, f, InUse(y, D) \ {ptr})
                /\ f.mem_brk = y.mem_brk /\ After(f, ptr) = ptr + n
                /\ \A a \in ptr .. ptr + n - 9 : GET(f, a) = GET(y, a)
  BY <1>11 DEF WasSplit
<1>13. InUse(f, C) = InUse(k, B)
  BY <1>1, <1>8, <1>12
<1>14. Keeps(k, f, InUse(k, B) \ {ptr})
  <2>1. PICK S : S = InUse(k, B) \ {ptr}
    OBVIOUS
  <2>2. Keeps(k, x, S)
    BY <1>5, <2>1 DEF Keeps
  <2>3. Keeps(x, y, S)
    <3>1. \A c \in S : c \in InUse(x, B) /\ c \in D /\ c # ptr /\ c \in B \ {x.mem_brk}
      BY <1>5, <1>8, <2>1 DEF InUse
    <3> QED
      BY <1>6, <3>1 DEF OneInUse, Keeps
  <2>4. Keeps(y, f, S)
    BY <1>8, <1>12, <2>1
  <2>5. Keeps(k, y, S)
    BY <2>2, <2>3, KeepsOn
  <2> QED
    BY <2>1, <2>4, <2>5, KeepsOn
<1>15. ASSUME NEW a \in ptr .. r - 9
       PROVE  GET(f, a) = GET(k, a)
  <2>1. a \in ptr .. ptr + n - 9 /\ a \in ptr .. After(k, ptr) - 9
    BY <1>1, <1>2, <1>4
  <2>2. GET(x, a) = GET(k, a) /\ After(x, ptr) = After(k, ptr)
    BY <1>1, <1>5, <2>1 DEF Keeps, Untouched
  <2>3. GET(y, a) = GET(x, a)
    <3>1. ptr \in B \ {x.mem_brk}
      BY <1>1, <1>5
    <3> QED
      BY <1>6, <2>1, <2>2, <3>1 DEF OneInUse, Untouched
  <2> QED
    BY <1>12, <2>1, <2>2, <2>3
<1> QED
  BY <1>2, <1>7, <1>12, <1>13, <1>14, <1>15 DEF Lengthened

(* Where the code's macros lead it when it stretches a block into the free *)
(* one after it.                                                           *)
LEMMA StretchTags ==
    ASSUME NEW k, NEW C, NEW ptr, NEW size, NEW n, Wanted(k, C, ptr, size, n),
           NEW r, r = After(k, ptr), Used(k, r) = 0, NEW e, e = After(k, r),
           NEW m, m = ptr + n, Size(k, ptr) < n, m + 16 <= e,
           NEW freesize,
           freesize = (GET_SIZE(k, HDRP(NEXT_BLKP(k, ptr))) - (n - Size(k, ptr))) % Span,
           NEW k1, k1 = Tag(Mm!removeBlock(k, NEXT_BLKP(k, ptr)), ptr, n, 1),
           NEW k2, k2 = Tag(k1, NEXT_BLKP(k1, ptr), freesize, 1),
           NEW f, f = Mm!mm_free(k2, NEXT_BLKP(k2, ptr))
    PROVE  Stretched(k, C, ptr, n, m, r, e, f)
<1>1. /\ Tidy(k, C) /\ Sound(k, C) /\ Tiling(k, C) /\ k \in Heaps
      /\ ptr \in C \ {heap_listp, k.mem_brk} /\ Used(k, ptr) = 1
      /\ ptr \in Nat /\ ptr % 8 = 0 /\ mem_start_brk < ptr
      /\ Size(k, ptr) \in Nat /\ r \in C /\ r \in Nat /\ r = ptr + Size(k, ptr)
      /\ n \in Nat /\ n % 8 = 0 /\ n >= 16 /\ mem_start_brk \in Nat
      /\ k.mem_brk <= mem_max_addr /\ mem_max_addr \in Nat /\ k.mem_brk \in Nat
      /\ HDRP(ptr) = ptr - 4 /\ NEXT_BLKP(k, ptr) = r
  BY WantedFacts
<1>2. /\ r # k.mem_brk /\ e \in Nat /\ e % 8 = 0 /\ e <= k.mem_brk
      /\ Size(k, r) \in Nat /\ e = r + Size(k, r) /\ mem_max_addr < Span
  <2>1. r # k.mem_brk
    BY <1>1, BlockFacts
  <2> QED
    BY <1>1, <2>1, BlockFacts DEF After
<1>3. GET_SIZE(k, HDRP(r)) = Size(k, r)
  BY <1>1, TagsTell
<1>4. m \in Nat /\ m % 8 = 0 /\ e - m \in Nat /\ (e - m) % 8 = 0 /\ e - m >= 16 /\ ptr < m
      /\ e <= mem_max_addr
  BY <1>1, <1>2
<1>5. freesize = e - m
  <2>1. Size(k, r) - (n - Size(k, ptr)) = e - m
    BY <1>1, <1>2
  <2>2. (e - m) % Span = e - m
    BY <1>1, <1>4, InSpan
  <2> QED
    BY <1>1, <1>3, <2>1, <2>2
<1>6. PICK x : x = Mm!removeBlock(k, r)
  OBVIOUS
<1>7. x \in Heaps
  <2>1. PICK F : F = FreeIn(k, C)
    OBVIOUS
  <2>2. r \in F /\ F \subseteq FreeIn(k, C) /\ Listing(k, F)
    BY <1>1, <2>1 DEF FreeIn, Tidy
  <2>3. Sound(x, C)
    BY <1>1, <1>6, <2>2, RemoveTidies
  <2> QED
    BY <2>3 DEF Sound, Tiling, Bounds
<1>8. Tagged(x, k1, ptr, n, 1)
  <2>1. k1 = Tag(x, ptr, n, 1)
    BY <1>1, <1>6
  <2>2. n > 0 /\ ptr + n <= mem_max_addr
    BY <1>1, <1>4
  <2> QED
    BY <1>1, <1>7, <2>1, <2>2, TagTags
<1>9. PICK s : s = e - m
  OBVIOUS
<1>10. /\ s \in Nat /\ s % 8 = 0 /\ s > 0 /\ m + s <= mem_max_addr /\ mem_start_brk < m
       /\ m % Span = m /\ HDRP(m) = m - 4 /\ s >= 16
  <2>1. /\ s \in Nat /\ s % 8 = 0 /\ s > 0 /\ m + s <= mem_max_addr /\ mem_start_brk < m /\ s >= 16
    BY <1>1, <1>2, <1>4, <1>9
  <2>2. m <= mem_max_addr /\ m - 4 \in Nat /\ m - 4 <= mem_max_addr
    BY <1>1, <1>4
  <2> QED
    BY <1>4, <2>1, <2>2, InSpan DEF HDRP, WSIZE
<1>11. SizeOf(PACK(n, 1)) = n /\ SizeOf(PACK(s, 1)) = s
  BY <1>1, <1>10, PackIsTag
<1>12. NEXT_BLKP(k1, ptr) = m
  <2>1. GET(k1, ptr - 4) = PACK(n, 1)
    BY <1>8 DEF Tagged
  <2>2. GET_SIZE(k1, HDRP(ptr)) = n
    BY <1>1, <1>11, <2>1 DEF GET_SIZE
  <2> QED
    BY <1>10, <2>2 DEF NEXT_BLKP
<1>13. Tagged(k1, k2, m, s, 1)
  <2>1. k2 = Tag(k1, m, s, 1)
    BY <1>5, <1>9, <1>12
  <2>2. k1 \in Heaps
    BY <1>8 DEF Tagged
  <2> QED
    BY <1>4, <1>10, <2>1, <2>2, TagTags
<1>14. NEXT_BLKP(k2, ptr) = m
  <2>1. ptr - 4 \notin {m - 4, m + s - 8}
    BY <1>1, <1>4, <1>10
  <2>2. GET(k2, ptr - 4) = PACK(n, 1)
    BY <1>8, <1>13, <2>1 DEF Tagged
  <2>3. GET_SIZE(k2, HDRP(ptr)) = n
    BY <1>1, <1>11, <2>2 DEF GET_SIZE
  <2> QED
    BY <1>10, <2>3 DEF NEXT_BLKP
<1>15. GET_SIZE(k2, HDRP(m)) = s
  <2>1. GET(k2, m - 4) = PACK(s, 1)
    BY <1>13 DEF Tagged
  <2> QED
    BY <1>10, <1>11, <2>1 DEF GET_SIZE
<1>16. PICK k3 : k3 = Tag(k2, m, s, 0)
  OBVIOUS
<1>17. Tagged(k2, k3, m, s, 0)
  <2>1. k2 \in Heaps
    BY <1>13 DEF Tagged
  <2> QED
    BY <1>4, <1>10, <1>16, <2>1, TagTags
<1>18. f = Mm!coalesce(k3, m)
  <2>1. /\ Mm!GET_SIZE(k2, Mm!HDRP(m)) = s /\ Mm!Tag(k2, m, s, 0) = k3
    BY <1>15, <1>16, MmTags
  <2> QED
    BY <1>14, <2>1 DEF Mm!mm_free
<1> QED
  BY <1>1, <1>6, <1>8, <1>9, <1>13, <1>17, <1>18 DEF Stretched

(* The heap has grown by a chunk after the block ptr, which has been        *)
(* stretched into it.                                                      *)
ExtendsTo(h, B, ptr, size, n, k, C, r, f, g) ==
    /\ Tidy(k, C) /\ InUse(k, C) = InUse(h, B) /\ Keeps(h, k, InUse(h, B))
    /\ k.mem_brk = h.mem_brk + CHUNKSIZE
    /\ Wanted(k, C, ptr, size, n) /\ r = After(k, ptr) /\ After(k, ptr) = h.mem_brk
    /\ Stretched(k, C, ptr, n, ptr + n, r, After(k, r), f)
    /\ g = [f EXCEPT !.ret = ptr]

(* That is what the code does when there is room for a chunk. *)
LEMMA ExtendsIs ==
    ASSUME NEW h, NEW B, NEW ptr, NEW size, NEW n, Wanted(h, B, ptr, size, n),
           Size(h, ptr) < n, n <= CHUNKSIZE, After(h, ptr) = h.mem_brk,
           h.mem_brk + CHUNKSIZE <= mem_max_addr,
           NEW k, k = Mm!extend_heap(h, CHUNKSIZE \div 4), NEW g, g = Mm!Extended(h, ptr, n)
    PROVE  \E C, r, f : ExtendsTo(h, B, ptr, size, n, k, C, r, f, g)
<1>1. /\ Tidy(h, B) /\ h \in Heaps /\ ptr \in InUse(h, B) /\ ptr \in InUse(h, B) \ {heap_listp}
      /\ ptr \in Nat /\ ptr # NULL
      /\ After(h, ptr) = ptr + Size(h, ptr) /\ Size(h, ptr) \in Nat /\ Size(h, ptr) >= 16
      /\ n \in Nat /\ n % 8 = 0 /\ n >= 16 /\ size \in Nat \ {0}
      /\ h.mem_brk \in Nat /\ mem_max_addr \in Nat
      /\ GET_SIZE(h, HDRP(ptr)) = Size(h, ptr) /\ n = Adjusted(size) /\ size % 4 = 0
  BY WantedFacts DEF Wanted
<1>2. CHUNKSIZE \in Nat /\ CHUNKSIZE % 8 = 0 /\ CHUNKSIZE >= 16
  BY ChunkAssumption
<1>3. HasGrown(h, B, k, CHUNKSIZE)
  BY <1>1, <1>2, MmExtends
<1>4. PICK C : /\ Tidy(k, C) /\ InUse(k, C) = InUse(h, B)
               /\ k.mem_brk = h.mem_brk + CHUNKSIZE /\ Keeps(h, k, InUse(h, B))
               /\ k.ret \in C /\ Used(k, k.ret) = 0 /\ k.ret \in Nat
               /\ k.ret <= h.mem_brk /\ After(k, k.ret) = k.mem_brk
  BY <1>3 DEF HasGrown
<1>5. Wanted(k, C, ptr, size, n)
  BY <1>1, <1>4 DEF Wanted
<1>6. /\ After(k, ptr) = h.mem_brk /\ Size(k, ptr) = Size(h, ptr)
      /\ Tiling(k, C) /\ ptr \in C \ {heap_listp, k.mem_brk} /\ k \in Heaps
      /\ NEXT_BLKP(k, ptr) = h.mem_brk /\ GET_SIZE(k, HDRP(ptr)) = Size(k, ptr)
      /\ Size(k, ptr) \in Nat
  <2>1. /\ Tiling(k, C) /\ ptr \in C \ {heap_listp, k.mem_brk} /\ k \in Heaps
        /\ NEXT_BLKP(k, ptr) = After(k, ptr) /\ GET_SIZE(k, HDRP(ptr)) = Size(k, ptr)
        /\ After(k, ptr) = ptr + Size(k, ptr) /\ Size(k, ptr) \in Nat
    BY <1>5, WantedFacts
  <2>2. After(k, ptr) = After(h, ptr)
    BY <1>1, <1>4 DEF Keeps
  <2> QED
    BY <1>1, <2>1, <2>2
<1>7. k.ret = h.mem_brk
  <2>1. ptr < h.mem_brk
    BY <1>1
  <2>2. h.mem_brk \in C
    BY <1>6, BlockFacts
  <2>3. k.ret # k.mem_brk
    BY <1>4, <1>6, BlockFacts
  <2>4. \A c \in C : k.ret < c => k.mem_brk <= c
    BY <1>4, <1>6, <2>3, BlockFacts
  <2>5. PICK t \in Nat : t = k.mem_brk /\ h.mem_brk < t
    <3>1. k.mem_brk = h.mem_brk + CHUNKSIZE
      BY <1>4
    <3>2. \A x, y \in Nat : x + y \in Nat /\ (y >= 16 => x < x + y)
      OBVIOUS
    <3>3. /\ h.mem_brk + CHUNKSIZE \in Nat /\ h.mem_brk < h.mem_brk + CHUNKSIZE
      BY <1>1, <1>2, <3>2
    <3> QED
      BY <3>1, <3>3
  <2>6. ~(k.ret < h.mem_brk)
    <3>1. ~(k.mem_brk <= h.mem_brk)
      BY <1>1, <2>5
    <3> QED
      BY <2>2, <2>4, <3>1
  <2> QED
    BY <1>1, <1>4, <2>6
<1>8. k.ret # NULL /\ k.ret # Mm!NULL
  <2>1. \A x, y \in Nat : y >= 16 => x + y # 0
    OBVIOUS
  <2>2. h.mem_brk # 0
    BY <1>1, <2>1
  <2>3. k.ret # NULL
    BY <1>7, <2>2 DEF NULL
  <2> QED
    BY <2>3, MmMemory
<1>9. PICK r : r = After(k, ptr)
  OBVIOUS
<1>10. PICK e : e = After(k, r)
  OBVIOUS
<1>11. PICK m : m = ptr + n
  OBVIOUS
<1>12. PICK freesize :
         freesize = (GET_SIZE(k, HDRP(NEXT_BLKP(k, ptr))) - (n - Size(k, ptr))) % Span
  OBVIOUS
<1>13. PICK k1 : k1 = Tag(Mm!removeBlock(k, NEXT_BLKP(k, ptr)), ptr, n, 1)
  OBVIOUS
<1>14. PICK k2 : k2 = Tag(k1, NEXT_BLKP(k1, ptr), freesize, 1)
  OBVIOUS
<1>15. PICK f : f = Mm!mm_free(k2, NEXT_BLKP(k2, ptr))
  OBVIOUS
<1>16. g = [f EXCEPT !.ret = ptr]
  <2>1. /\ Mm!GET_SIZE(h, Mm!HDRP(ptr)) = Size(k, ptr)
        /\ Mm!NEXT_BLKP(k, ptr) = NEXT_BLKP(k, ptr)
        /\ Mm!NEXT_BLKP(k1, ptr) = NEXT_BLKP(k1, ptr)
        /\ Mm!NEXT_BLKP(k2, ptr) = NEXT_BLKP(k2, ptr)
        /\ Mm!GET_SIZE(k, Mm!HDRP(NEXT_BLKP(k, ptr))) = GET_SIZE(k, HDRP(NEXT_BLKP(k, ptr)))
        /\ \A j, b, s : Mm!Tag(j, b, s, 1) = Tag(j, b, s, 1)
    BY <1>1, <1>6, MmTags
  <2>2. k = Mm!extend_heap(h, CHUNKSIZE \div Mm!WSIZE)
    BY MmMemory
  <2>3. /\ (Mm!GET_SIZE(k, Mm!HDRP(Mm!NEXT_BLKP(k, ptr)))
               - (n - Mm!GET_SIZE(h, Mm!HDRP(ptr)))) % Span = freesize
        /\ Mm!Tag(Mm!removeBlock(k, Mm!NEXT_BLKP(k, ptr)), ptr, n, 1) = k1
        /\ Mm!Tag(k1, Mm!NEXT_BLKP(k1, ptr), freesize, 1) = k2
        /\ Mm!mm_free(k2, Mm!NEXT_BLKP(k2, ptr)) = f
    <3>1. (Mm!GET_SIZE(k, Mm!HDRP(Mm!NEXT_BLKP(k, ptr)))
             - (n - Mm!GET_SIZE(h, Mm!HDRP(ptr)))) % Span = freesize
      BY <1>12, <2>1
    <3>2. Mm!Tag(Mm!removeBlock(k, Mm!NEXT_BLKP(k, ptr)), ptr, n, 1) = k1
      BY <1>13, <2>1, Zenon
    <3>3. Mm!Tag(k1, Mm!NEXT_BLKP(k1, ptr), freesize, 1) = k2
      BY <1>14, <2>1, Zenon
    <3>4. Mm!mm_free(k2, Mm!NEXT_BLKP(k2, ptr)) = f
      BY <1>15, <2>1, Zenon
    <3> QED
      BY <3>1, <3>2, <3>3, <3>4
  <2>4. g = IF k.ret = Mm!NULL THEN k ELSE [f EXCEPT !.ret = ptr]
    BY <2>2, <2>3, Zenon DEF Mm!Extended
  <2> QED
    BY <1>8, <2>4
<1>17. Stretched(k, C, ptr, n, m, r, e, f)
  <2>1. Used(k, r) = 0 /\ e = k.mem_brk
    BY <1>4, <1>6, <1>7, <1>9, <1>10
  <2>2. Size(k, ptr) < n /\ m + 16 <= e
    <3>1. k.mem_brk = h.mem_brk + CHUNKSIZE
      BY <1>4
    <3>2. \A b, c, x, y \in Nat : y <= c /\ x >= 16 => b + y + 16 <= b + x + c
      OBVIOUS
    <3>3. ptr + n + 16 <= ptr + Size(h, ptr) + CHUNKSIZE
      BY <1>1, <1>2, <3>2
    <3> QED
      BY <1>1, <1>6, <1>11, <2>1, <3>1, <3>3
  <2> QED
    BY <1>5, <1>9, <1>10, <1>11, <1>12, <1>13, <1>14, <1>15, <2>1, <2>2, StretchTags
<1>18. ExtendsTo(h, B, ptr, size, n, k, C, r, f, g)
  BY <1>4, <1>5, <1>6, <1>9, <1>10, <1>11, <1>16, <1>17 DEF ExtendsTo
<1> QED
  BY <1>18

(* The block ends at the break: the heap grows for it, by a chunk.         *)
LEMMA MmExtended ==
    ASSUME NEW h, NEW B, NEW ptr, NEW size, NEW n, Wanted(h, B, ptr, size, n),
           Size(h, ptr) < n, n <= CHUNKSIZE, After(h, ptr) = h.mem_brk,
           NEW g, g = Mm!Extended(h, ptr, n)
    PROVE  \/ Returning(h, g, NULL) /\ h.mem_brk + CHUNKSIZE > mem_max_addr
           \/ /\ Serves(h, InUse(h, B) \ {ptr}, g, n) /\ Carried(h, g, ptr, size) /\ Neat(g)
              /\ g.ret = ptr /\ After(g, ptr) = ptr + n
              /\ g.mem_brk = h.mem_brk + CHUNKSIZE /\ g.mem_brk <= mem_max_addr
<1>1. /\ Tidy(h, B) /\ h \in Heaps /\ ptr \in InUse(h, B) /\ ptr \in InUse(h, B) \ {heap_listp}
      /\ ptr \in Nat /\ ptr # NULL
      /\ After(h, ptr) = ptr + Size(h, ptr) /\ Size(h, ptr) \in Nat /\ Size(h, ptr) >= 16
      /\ n \in Nat /\ n % 8 = 0 /\ n >= 16 /\ size \in Nat \ {0}
      /\ h.mem_brk \in Nat /\ mem_max_addr \in Nat
      /\ GET_SIZE(h, HDRP(ptr)) = Size(h, ptr) /\ n = Adjusted(size) /\ size % 4 = 0
  BY WantedFacts DEF Wanted
<1>2. CHUNKSIZE \in Nat /\ CHUNKSIZE % 8 = 0 /\ CHUNKSIZE >= 16
  BY ChunkAssumption
<1>3. PICK k : k = Mm!extend_heap(h, CHUNKSIZE \div 4)
  OBVIOUS
<1>4. /\ h.mem_brk + CHUNKSIZE > mem_max_addr => Returning(h, k, NULL)
      /\ h.mem_brk + CHUNKSIZE <= mem_max_addr => HasGrown(h, B, k, CHUNKSIZE)
  BY <1>1, <1>2, <1>3, MmExtends
<1>5. CASE h.mem_brk + CHUNKSIZE > mem_max_addr
  <2>1. Returning(h, k, NULL) /\ k.ret = NULL
    <3>1. Returning(h, k, NULL) /\ NULL \in Int
      BY <1>4, <1>5 DEF NULL
    <3> QED
      BY <1>1, <3>1, Returns
  <2>2. g = k
    BY <1>3, <2>1, MmMemory DEF Mm!Extended
  <2> QED
    BY <1>5, <2>1, <2>2
<1>6. CASE h.mem_brk + CHUNKSIZE <= mem_max_addr
  <2>1. PICK C, r, f : ExtendsTo(h, B, ptr, size, n, k, C, r, f, g)
    BY <1>3, <1>6, ExtendsIs
  <2>2. /\ Tidy(k, C) /\ InUse(k, C) = InUse(h, B)
        /\ k.mem_brk = h.mem_brk + CHUNKSIZE /\ Keeps(h, k, InUse(h, B))
    BY <2>1 DEF ExtendsTo
  <2>3. Wanted(k, C, ptr, size, n)
    BY <2>1 DEF ExtendsTo
  <2>4. After(k, ptr) = h.mem_brk
    BY <2>1 DEF ExtendsTo
  <2>5. r = After(k, ptr)
    BY <2>1 DEF ExtendsTo
  <2>6. PICK m : m = ptr + n
    OBVIOUS
  <2>7. g = [f EXCEPT !.ret = ptr]
    BY <2>1 DEF ExtendsTo
  <2>8. Stretched(k, C, ptr, n, m, r, After(k, r), f)
    BY <2>1, <2>6 DEF ExtendsTo
  <2>9. PICK D : /\ Tidy(f, D) /\ InUse(f, D) = InUse(k, C)
                 /\ Keeps(k, f, InUse(k, C) \ {ptr})
                 /\ f.mem_brk = k.mem_brk /\ After(f, ptr) = m
                 /\ \A a \in ptr .. r - 9 : GET(f, a) = GET(k, a)
    <3>1. Lengthened(k, C, ptr, m, r, f)
      BY <2>3, <2>8, MmStretches
    <3> QED
      BY <3>1 DEF Lengthened
  <2>10. Returning(f, g, ptr) /\ f \in Heaps /\ ptr \in Int
    BY <1>1, <2>7, <2>9 DEF Returning, Tidy, Sound, Tiling, Bounds
  <2>11. Tidy(g, D) /\ Neat(g) /\ Sound(g, D)
    <3>1. Tidy(g, D)
      BY <2>9, <2>10, NeatReturns
    <3> QED
      BY <3>1 DEF Neat, Tidy
  <2>12. /\ g.ret = ptr /\ g.mem_brk = f.mem_brk /\ After(g, ptr) = m
         /\ InUse(g, D) = InUse(h, B)
         /\ \A a : GET(g, a) = GET(f, a)
         /\ \A j, S : Keeps(j, f, S) => Keeps(j, g, S)
    BY <2>2, <2>9, <2>10, Returns
  <2>13. PICK S : S = InUse(h, B) \ {ptr}
    OBVIOUS
  <2>14. Keeps(h, g, S)
    <3>1. Keeps(k, f, S) /\ S \subseteq InUse(h, B)
      BY <2>2, <2>9, <2>13
    <3>2. Keeps(h, f, S)
      BY <2>2, <3>1, KeepsOn
    <3> QED
      BY <2>12, <3>2
  <2>15. Serves(h, S, g, n)
    <3>1. InUse(g, D) = S \cup {g.ret} /\ g.ret \notin S
      BY <1>1, <2>12, <2>13
    <3>2. g.ret \in Nat /\ After(g, g.ret) \in Nat /\ g.ret + n <= After(g, g.ret)
      BY <1>1, <2>6, <2>12
    <3> QED
      BY <2>11, <2>14, <3>1, <3>2 DEF Serves
  <2>16. Carried(h, g, ptr, size)
    <3> SUFFICES ASSUME NEW d \in 0 .. size - 1, ptr + d <= After(h, ptr) - 9
                 PROVE  GET(g, g.ret + d) = GET(h, ptr + d)
      BY DEF Carried
    <3>1. ptr + d \in ptr .. After(h, ptr) - 9
      BY <1>1
    <3>2. GET(k, ptr + d) = GET(h, ptr + d)
      BY <1>1, <2>2, <3>1 DEF Keeps, Untouched
    <3>3. GET(f, ptr + d) = GET(k, ptr + d)
      BY <1>1, <2>4, <2>5, <2>9, <3>1
    <3> QED
      BY <2>12, <3>2, <3>3
  <2> QED
    BY <1>6, <2>2, <2>6, <2>9, <2>11, <2>12, <2>13, <2>15, <2>16
<1> QED
  BY <1>1, <1>2, <1>5, <1>6

(* The block new of k serves a request for n bytes. *)
Receives(h, B, n, k, C, new) ==
    /\ Sound(k, C) /\ Tidy(k, C) /\ new = k.ret
    /\ InUse(k, C) = InUse(h, B) \cup {new} /\ new \notin InUse(h, B)
    /\ Keeps(h, k, InUse(h, B))
    /\ new \in Nat /\ After(k, new) \in Nat /\ new + n <= After(k, new)

(* That is what mm_malloc leaves. *)
LEMMA ServesReceives ==
    ASSUME NEW h, NEW B, NEW n, NEW k, Serves(h, InUse(h, B), k, n), Neat(k)
    PROVE  \E C : Receives(h, B, n, k, C, k.ret)
<1>1. PICK C :
        /\ Sound(k, C)
        /\ InUse(k, C) = InUse(h, B) \cup {k.ret} /\ k.ret \notin InUse(h, B)
        /\ Keeps(h, k, InUse(h, B))
        /\ k.ret \in Nat /\ After(k, k.ret) \in Nat /\ k.ret + n <= After(k, k.ret)
  BY DEF Serves
<1>2. PICK E : Tidy(k, E)
  BY DEF Neat
<1>3. E = C
  BY <1>1, <1>2, OneTiling
<1> QED
  BY <1>1, <1>2, <1>3 DEF Receives

(* The two blocks, and what is written into the new one. *)
CopiedOut(h, ptr, size, k, C, new, amount, c) ==
    /\ Tiling(k, C) /\ k \in Heaps /\ ptr \in C \ {k.mem_brk} /\ new \in C \ {k.mem_brk}
    /\ ptr \in InUse(k, C) /\ new \in InUse(k, C) /\ new # ptr
    /\ ptr \in Nat /\ ptr % 8 = 0 /\ new \in Nat /\ new % 8 = 0
    /\ heap_listp <= ptr /\ heap_listp <= new
    /\ heap_listp = mem_start_brk + 8 /\ heap_listp \in Nat
    /\ After(k, ptr) = ptr + Size(k, ptr) /\ Size(k, ptr) \in Nat /\ Size(k, ptr) % 8 = 0
    /\ After(k, new) \in Nat
    /\ After(k, ptr) <= k.mem_brk /\ After(k, new) <= k.mem_brk
    /\ k.mem_brk <= mem_max_addr /\ k.mem_brk \in Nat
    /\ ptr < new => After(k, ptr) <= new
    /\ new < ptr => After(k, new) <= ptr
    /\ new < After(k, new) /\ ptr < After(k, ptr)
    /\ GET_SIZE(h, HDRP(ptr)) = Size(k, ptr) /\ After(k, ptr) = After(h, ptr)
    /\ amount \in Nat /\ amount % 4 = 0 /\ amount <= size /\ amount <= Size(k, ptr)
    /\ size <= amount \/ amount = Size(k, ptr)
    /\ c \in Heaps /\ c.mem_brk = k.mem_brk
    /\ c.free_listp = k.free_listp /\ c.ret = k.ret
    /\ \A a \in Int : a \notin new .. new + amount - 1 => GET(c, a) = GET(k, a)
    /\ \A d \in 0 .. amount - 1 : new + d \in Storage => GET(c, new + d) = GET(k, ptr + d)
    /\ \A a \in Int : a \notin new .. After(k, new) - 9 => GET(c, a) = GET(k, a)

(* What is in the block is copied into the new one, and nothing else is    *)
(* written.                                                                *)
LEMMA MoveCopies ==
    ASSUME NEW h, NEW B, NEW ptr, NEW size, NEW n, Wanted(h, B, ptr, size, n),
           NEW k, NEW C, NEW new, Receives(h, B, n, k, C, new),
           NEW amount, amount = Min({size, GET_SIZE(h, HDRP(ptr))}),
           NEW c, c = memcpy(k, new, ptr, amount, "up")
    PROVE  CopiedOut(h, ptr, size, k, C, new, amount, c)
<1> DEFINE S == InUse(h, B)
<1>1. /\ Tidy(h, B) /\ Sound(h, B) /\ Tiling(h, B) /\ h \in Heaps
      /\ ptr \in B \ {h.mem_brk} /\ Used(h, ptr) = 1
      /\ ptr \in InUse(h, B) \ {heap_listp} /\ ptr \in InUse(h, B)
      /\ GET_SIZE(h, HDRP(ptr)) = Size(h, ptr)
      /\ size \in Nat \ {0} /\ size % 4 = 0 /\ n = Adjusted(size)
      /\ n \in Nat /\ size + 8 <= n
  BY WantedFacts DEF Wanted
<1>2. /\ Sound(k, C)
      /\ InUse(k, C) = S \cup {new} /\ new \notin S
      /\ Keeps(h, k, S)
      /\ new \in Nat /\ After(k, new) \in Nat /\ new + n <= After(k, new)
      /\ Tidy(k, C) /\ new = k.ret
  BY DEF Receives
<1>3. Tiling(k, C) /\ k \in Heaps /\ ptr \in C \ {k.mem_brk} /\ new \in C \ {k.mem_brk}
      /\ ptr \in InUse(k, C) /\ new \in InUse(k, C) /\ new # ptr
  BY <1>1, <1>2 DEF Sound, Tiling, Bounds, InUse
<1>4. /\ ptr \in Nat /\ ptr % 8 = 0 /\ new \in Nat /\ new % 8 = 0
      /\ heap_listp <= ptr /\ heap_listp <= new
      /\ heap_listp = mem_start_brk + 8 /\ heap_listp \in Nat
      /\ After(k, ptr) = ptr + Size(k, ptr) /\ Size(k, ptr) \in Nat /\ Size(k, ptr) % 8 = 0
      /\ After(k, new) \in Nat
      /\ After(k, ptr) <= k.mem_brk /\ After(k, new) <= k.mem_brk
      /\ k.mem_brk <= mem_max_addr /\ k.mem_brk \in Nat
      /\ ptr < new => After(k, ptr) <= new
      /\ new < ptr => After(k, new) <= ptr
      /\ new < After(k, new) /\ ptr < After(k, ptr)
  <2>1. /\ ptr \in Nat /\ ptr % 8 = 0 /\ heap_listp <= ptr
        /\ heap_listp = mem_start_brk + 8 /\ heap_listp \in Nat
        /\ Size(k, ptr) \in Nat /\ Size(k, ptr) % 8 = 0
        /\ After(k, ptr) <= k.mem_brk /\ ptr < After(k, ptr)
        /\ k.mem_brk <= mem_max_addr /\ k.mem_brk \in Nat
        /\ ptr < new => After(k, ptr) <= new
    BY <1>3, BlockFacts
  <2>2. /\ new \in Nat /\ new % 8 = 0 /\ heap_listp <= new
        /\ After(k, new) \in Nat /\ new < After(k, new)
        /\ After(k, new) <= k.mem_brk
        /\ new < ptr => After(k, new) <= ptr
    BY <1>3, BlockFacts
  <2> QED
    BY <2>1, <2>2 DEF After
<1>5. GET_SIZE(h, HDRP(ptr)) = Size(k, ptr) /\ After(k, ptr) = After(h, ptr)
  <2>1. After(k, ptr) = After(h, ptr)
    BY <1>1, <1>2 DEF Keeps
  <2>2. ptr + Size(h, ptr) = ptr + Size(k, ptr) /\ Size(h, ptr) \in Nat
    BY <1>1, <2>1, WantedFacts DEF After
  <2> QED
    BY <1>1, <1>4, <2>1, <2>2
<1>6. amount = IF size <= Size(k, ptr) THEN size ELSE Size(k, ptr)
  <2> DEFINE m == IF size <= Size(k, ptr) THEN size ELSE Size(k, ptr)
  <2>1. \A x \in {size, Size(k, ptr)} : (\A y \in {size, Size(k, ptr)} : x <= y) <=> x = m
    BY <1>1, <1>4
  <2>2. m \in {size, Size(k, ptr)}
    OBVIOUS
  <2> HIDE DEF m
  <2>3. Min({size, Size(k, ptr)}) = m
    BY <2>1, <2>2 DEF Min
  <2> QED
    BY <1>5, <2>3 DEF m
<1>7. /\ amount \in Nat /\ amount % 4 = 0 /\ amount <= size /\ amount <= Size(k, ptr)
      /\ size <= amount \/ amount = Size(k, ptr)
  <2>1. size % 4 = 0 /\ Size(k, ptr) % 4 = 0
    BY <1>1, <1>4
  <2> QED
    BY <1>1, <1>4, <1>6, <2>1
<1>8. n \in Nat /\ size + 8 <= n
  BY <1>1
<1>9. new \in Storage /\ ptr \in Storage
  <2>1. new % 4 = 0 /\ ptr % 4 = 0
    BY <1>4
  <2>2. new < mem_max_addr /\ ptr < mem_max_addr /\ mem_start_brk <= new /\ mem_start_brk <= ptr
    BY <1>4, AreaAssumption DEF mem_max_addr
  <2> QED
    BY <1>4, <2>1, <2>2, StorageIsTheArea
<1>10. ptr + amount <= new \/ new + amount <= ptr
  BY <1>1, <1>2, <1>3, <1>4, <1>7, <1>8
<1>11. /\ c \in Heaps /\ c.mem_brk = k.mem_brk
       /\ c.free_listp = k.free_listp /\ c.ret = k.ret
       /\ \A a \in Int : a \notin new .. new + amount - 1 => GET(c, a) = GET(k, a)
       /\ \A d \in 0 .. amount - 1 : new + d \in Storage => GET(c, new + d) = GET(k, ptr + d)
  <2>1. ptr + amount <= new \/ new <= ptr
    BY <1>4, <1>7, <1>10
  <2> QED
    <3>1. PICK w : w = amount
      OBVIOUS
    <3>2. k \in Heaps /\ new \in Storage /\ ptr \in Storage /\ w \in Nat
          /\ w % 4 = 0 /\ (ptr + w <= new \/ new <= ptr)
      BY <1>3, <1>7, <1>9, <2>1, <3>1
    <3>3. LET q == memcpy(k, new, ptr, w, "up")
          IN  /\ q \in Heaps /\ q.mem_brk = k.mem_brk
              /\ q.free_listp = k.free_listp /\ q.ret = k.ret
              /\ \A a \in Int : a \notin new .. new + w - 1 => GET(q, a) = GET(k, a)
              /\ \A d \in 0 .. w - 1 : new + d \in Storage => GET(q, new + d) = GET(k, ptr + d)
      BY <3>2, CopyCopies
    <3> QED
      BY <3>1, <3>3
<1>12. \A a \in Int : a \notin new .. After(k, new) - 9 => GET(c, a) = GET(k, a)
  <2>1. new + amount - 1 <= After(k, new) - 9
    BY <1>1, <1>2, <1>4, <1>7, <1>8
  <2> SUFFICES ASSUME NEW a \in Int, a \notin new .. After(k, new) - 9
               PROVE  GET(c, a) = GET(k, a)
    OBVIOUS
  <2>2. a \notin new .. new + amount - 1
    BY <1>4, <1>7, <2>1
  <2> QED
    BY <1>11, <2>2
<1> QED
  BY <1>3, <1>4, <1>5, <1>7, <1>11, <1>12 DEF CopiedOut

(* Without room beside it, the block moves as mm_malloc would place a new  *)
(* one, with what was in it; or the process ends.                          *)
LEMMA MmMoves ==
    ASSUME NEW h, NEW B, NEW ptr, NEW size, NEW n, Wanted(h, B, ptr, size, n),
           NEW g, g = Mm!Moved(h, ptr, size, "up")
    PROVE  \/ /\ Serves(h, InUse(h, B) \ {ptr}, g, n) /\ Carried(h, g, ptr, size) /\ Neat(g)
              /\ g.ret \notin InUse(h, B) /\ Placement(h, B, g, n)
           \/ Full(h, B, n) /\ Returning(h, g, Exited)
<1> DEFINE k == Mm!mm_malloc(h, size)
           amount == Min({size, GET_SIZE(h, HDRP(ptr))})
           c == memcpy(k, k.ret, ptr, amount, "up")
           f == Mm!mm_free(c, ptr)
           S == InUse(h, B)
<1>1. g = IF k.ret = NULL THEN [k EXCEPT !.ret = Exited] ELSE [f EXCEPT !.ret = k.ret]
  <2>1. Mm!NULL = NULL /\ Mm!Exited = Exited
    BY MmMemory
  <2>2. Mm!memcpy(k, k.ret, ptr, Mm!Min({size, Mm!GET_SIZE(h, Mm!HDRP(ptr))}), "up") = c
    BY MmTags, MmExtrema
  <2> QED
    BY <2>1, <2>2, Zenon DEF Mm!Moved
<1>2. /\ Tidy(h, B) /\ Sound(h, B) /\ Tiling(h, B) /\ h \in Heaps
      /\ ptr \in B \ {h.mem_brk} /\ Used(h, ptr) = 1
      /\ ptr \in InUse(h, B) \ {heap_listp} /\ ptr \in InUse(h, B)
      /\ GET_SIZE(h, HDRP(ptr)) = Size(h, ptr)
      /\ size \in Nat \ {0} /\ size % 4 = 0 /\ n = Adjusted(size)
      /\ n \in Nat /\ size + 8 <= n
  BY WantedFacts DEF Wanted
<1> HIDE DEF f
<1>3. CASE Full(h, B, n) /\ Returning(h, k, NULL)
  <2>1. k.ret = NULL /\ [k EXCEPT !.ret = Exited] = [h EXCEPT !.ret = Exited]
    BY <1>2, <1>3 DEF Returning, Heaps
  <2> QED
    BY <1>1, <1>3, <2>1 DEF Returning
<1>4. CASE Serves(h, S, k, n) /\ Neat(k) /\ Placement(h, B, k, n)
  <2>1. PICK new : new = k.ret
    OBVIOUS
  <2>2. PICK C :
          /\ Sound(k, C)
          /\ InUse(k, C) = S \cup {new} /\ new \notin S
          /\ Keeps(h, k, S)
          /\ new \in Nat /\ After(k, new) \in Nat /\ new + n <= After(k, new)
          /\ Tidy(k, C)
    BY <1>4, <2>1, ServesReceives DEF Receives
  <2> HIDE DEF k
  <2> HIDE DEF amount
  <2>3. CopiedOut(h, ptr, size, k, C, new, amount, c)
    <3>1. Receives(h, B, n, k, C, new)
      BY <2>1, <2>2 DEF Receives
    <3> QED
      BY <2>1, <3>1, MoveCopies DEF amount
  <2> HIDE DEF c
  <2>4. Tiling(k, C) /\ k \in Heaps /\ ptr \in C \ {k.mem_brk} /\ new \in C \ {k.mem_brk}
        /\ ptr \in InUse(k, C) /\ new \in InUse(k, C) /\ new # ptr
    BY <2>3 DEF CopiedOut
  <2>5. /\ ptr \in Nat /\ ptr % 8 = 0 /\ new \in Nat /\ new % 8 = 0
        /\ heap_listp <= ptr /\ heap_listp <= new
        /\ heap_listp = mem_start_brk + 8 /\ heap_listp \in Nat
        /\ After(k, ptr) = ptr + Size(k, ptr) /\ Size(k, ptr) \in Nat /\ Size(k, ptr) % 8 = 0
        /\ After(k, new) \in Nat
        /\ After(k, ptr) <= k.mem_brk /\ After(k, new) <= k.mem_brk
        /\ k.mem_brk <= mem_max_addr /\ k.mem_brk \in Nat
        /\ ptr < new => After(k, ptr) <= new
        /\ new < ptr => After(k, new) <= ptr
        /\ new < After(k, new) /\ ptr < After(k, ptr)
    BY <2>3 DEF CopiedOut
  <2>6. GET_SIZE(h, HDRP(ptr)) = Size(k, ptr) /\ After(k, ptr) = After(h, ptr)
    BY <2>3 DEF CopiedOut
  <2>7. /\ amount \in Nat /\ amount % 4 = 0 /\ amount <= size /\ amount <= Size(k, ptr)
        /\ size <= amount \/ amount = Size(k, ptr)
    BY <2>3 DEF CopiedOut
  <2>8. n \in Nat /\ size + 8 <= n
    BY <1>2
  <2>9. /\ c \in Heaps /\ c.mem_brk = k.mem_brk
        /\ c.free_listp = k.free_listp /\ c.ret = k.ret
        /\ \A a \in Int : a \notin new .. new + amount - 1 => GET(c, a) = GET(k, a)
        /\ \A d \in 0 .. amount - 1 : new + d \in Storage => GET(c, new + d) = GET(k, ptr + d)
    BY <2>3 DEF CopiedOut
  <2>10. \A a \in Int : a \notin new .. After(k, new) - 9 => GET(c, a) = GET(k, a)
    BY <2>3 DEF CopiedOut
  <2>11. /\ Tidy(c, C) /\ InUse(c, C) = InUse(k, C)
         /\ Keeps(k, c, InUse(k, C) \ {new}) /\ After(c, new) = After(k, new)
    <3>1. PICK u : u = c
      OBVIOUS
    <3>2. /\ u \in Heaps /\ u.mem_brk = k.mem_brk /\ u.free_listp = k.free_listp
          /\ Tidy(k, C) /\ new \in InUse(k, C)
          /\ \A a \in Int : a \notin new .. After(k, new) - 9 => GET(u, a) = GET(k, a)
      BY <2>2, <2>4, <2>9, <2>10, <3>1
    <3>3. /\ Tidy(u, C) /\ InUse(u, C) = InUse(k, C)
          /\ Keeps(k, u, InUse(k, C) \ {new}) /\ After(u, new) = After(k, new)
      BY <3>2, PayloadTidies
    <3> QED
      BY <3>1, <3>3
  <2>12. PICK D :
           /\ Tidy(f, D)
           /\ InUse(f, D) = InUse(c, C) \ {ptr}
           /\ f.mem_brk = c.mem_brk
           /\ Keeps(c, f, InUse(c, C) \ {ptr})
    <3>1. ptr \in InUse(c, C) \ {heap_listp}
      BY <1>2, <2>4, <2>11
    <3> QED
      BY <2>11, <3>1, MmFrees DEF f
  <2>13. f \in Heaps
    BY <2>12 DEF Tidy, Sound, Tiling, Bounds
  <2>14. Returning(f, g, new)
    <3>1. new # NULL
      BY <2>5, AreaAssumption DEF NULL
    <3> QED
      BY <1>1, <2>1, <3>1 DEF Returning
  <2>15. /\ g \in Heaps /\ g.ret = new /\ g.mem_brk = f.mem_brk
         /\ \A a : GET(g, a) = GET(f, a)
         /\ After(g, new) = After(f, new)
         /\ Sound(g, D) /\ Neat(g) /\ InUse(g, D) = InUse(f, D)
         /\ \A q, T : Keeps(q, f, T) => Keeps(q, g, T)
    <3>1. new \in Int
      BY <2>5
    <3>2. Tidy(g, D)
      BY <2>12, <2>14, <3>1, NeatReturns
    <3>3. Sound(g, D) /\ Neat(g)
      BY <3>2 DEF Tidy, Neat
    <3> QED
      BY <2>13, <2>14, <3>1, <3>3, Returns
  <2>16. InUse(g, D) = (S \ {ptr}) \cup {new} /\ new \notin S
    BY <2>2, <2>4, <2>11, <2>12, <2>15
  <2>17. Keeps(h, g, S \ {ptr})
    <3> DEFINE T == S \ {ptr}
    <3>1. Keeps(h, k, T)
      BY <2>2 DEF Keeps
    <3>2. Keeps(k, c, T)
      BY <2>2, <2>11 DEF Keeps
    <3>3. Keeps(c, f, T)
      BY <2>2, <2>11, <2>12 DEF Keeps
    <3> HIDE DEF T
    <3>4. Keeps(h, c, T)
      BY <3>1, <3>2, KeepsOn
    <3>5. Keeps(h, f, T)
      BY <3>3, <3>4, KeepsOn
    <3> QED
      BY <2>15, <3>5 DEF T
  <2>18. Untouched(c, f, new) /\ After(f, new) = After(c, new)
    BY <2>4, <2>11, <2>12 DEF Keeps
  <2>19. After(g, new) = After(k, new) /\ g.mem_brk = k.mem_brk
    BY <2>9, <2>11, <2>12, <2>15, <2>18
  <2>20. Carried(h, g, ptr, size)
    <3> SUFFICES ASSUME NEW d \in 0 .. size - 1,
                        ptr + d <= After(h, ptr) - 9, new + d \in Storage
                 PROVE  GET(g, new + d) = GET(h, ptr + d)
      BY <2>15 DEF Carried
    <3>1. d \in 0 .. amount - 1
      BY <1>2, <2>5, <2>6, <2>7
    <3>2. GET(c, new + d) = GET(k, ptr + d)
      BY <2>9, <3>1
    <3>3. new + d \in new .. After(k, new) - 9
      BY <1>2, <2>2, <2>5, <2>8
    <3>4. GET(f, new + d) = GET(c, new + d)
      BY <2>11, <2>18, <3>3 DEF Untouched
    <3>5. ptr + d \in ptr .. After(h, ptr) - 9
      BY <2>5, <2>6
    <3>6. GET(k, ptr + d) = GET(h, ptr + d)
      <4>1. Untouched(h, k, ptr)
        BY <1>2, <2>2 DEF Keeps
      <4> QED
        BY <3>5, <4>1 DEF Untouched
    <3> QED
      BY <2>15, <3>2, <3>4, <3>6
  <2>21. Serves(h, S \ {ptr}, g, n)
    BY <2>2, <2>15, <2>16, <2>17, <2>19 DEF Serves
  <2>22. Placement(h, B, g, n)
    BY <1>4, <2>1, <2>15, <2>19 DEF Placement, InGap, AtEnd
  <2> QED
    BY <2>15, <2>16, <2>20, <2>21, <2>22
<1> QED
  <2>1. PICK j : j = Mm!mm_malloc(h, size)
    OBVIOUS
  <2>2. Tidy(h, B) /\ size \in Nat \ {0} /\ n = Adjusted(size)
    BY <1>2
  <2>3. \/ Serves(h, InUse(h, B), j, n) /\ Neat(j) /\ Placement(h, B, j, n)
        \/ Full(h, B, n) /\ Returning(h, j, NULL)
    BY <2>1, <2>2, MmAllocates
  <2> QED
    BY <1>3, <1>4, <2>1, <2>3

(* Where the code's macros lead it when it splits a block.                 *)
LEMMA ShrinkTags ==
    ASSUME NEW h, NEW B, NEW ptr, NEW size, NEW n, Wanted(h, B, ptr, size, n),
           n + 16 <= Size(h, ptr), NEW m, m = ptr + n,
           NEW k1, k1 = Tag(h, ptr, n, 1),
           NEW k, k = Tag(k1, NEXT_BLKP(k1, ptr), Size(h, ptr) - n, 0)
    PROVE  NEXT_BLKP(k1, ptr) = m /\ SplitAt(h, ptr, n, m, k)
<1>1. /\ h \in Heaps /\ ptr \in Nat /\ ptr % 8 = 0 /\ mem_start_brk < ptr
      /\ Size(h, ptr) \in Nat /\ Size(h, ptr) % 8 = 0
      /\ After(h, ptr) = ptr + Size(h, ptr) /\ After(h, ptr) <= h.mem_brk
      /\ h.mem_brk \in Nat /\ h.mem_brk <= mem_max_addr /\ mem_max_addr \in Nat
      /\ n \in Nat /\ n % 8 = 0 /\ n >= 16 /\ mem_start_brk \in Nat
      /\ HDRP(ptr) = ptr - 4
  BY WantedFacts
<1>2. PICK r : r = Size(h, ptr) - n
  OBVIOUS
<1>3. /\ r \in Nat /\ r % 8 = 0 /\ r > 0 /\ m + r <= mem_max_addr /\ mem_start_brk < m
      /\ m \in Nat /\ m % 8 = 0 /\ m <= mem_max_addr /\ n > 0
  BY <1>1, <1>2
<1>4. Tagged(h, k1, ptr, n, 1) /\ k1 \in Heaps
  <2>1. ptr + n <= mem_max_addr
    BY <1>3
  <2>2. Tagged(h, k1, ptr, n, 1)
    BY <1>1, <1>3, <2>1, TagTags
  <2> QED
    BY <2>2 DEF Tagged
<1>5. NEXT_BLKP(k1, ptr) = m
  <2>1. GET(k1, ptr - 4) = PACK(n, 1)
    BY <1>4 DEF Tagged
  <2>2. GET_SIZE(k1, HDRP(ptr)) = n
    BY <1>1, <2>1, PackIsTag DEF GET_SIZE
  <2>3. m % Span = m
    BY <1>3, InSpan
  <2> QED
    BY <2>2, <2>3 DEF NEXT_BLKP
<1>6. Tagged(k1, k, m, r, 0)
  <2>1. k = Tag(k1, m, r, 0)
    BY <1>2, <1>5
  <2> QED
    BY <1>3, <1>4, <2>1, TagTags
<1>7. Halves(h, ptr, n, m, Size(h, ptr) - n)
  BY <1>1 DEF Halves, MINIMUM
<1> QED
  BY <1>2, <1>4, <1>5, <1>6, <1>7 DEF SplitAt

(* When the code finds room in the neighbours. *)
LEMMA FitsTells ==
    ASSUME NEW h, NEW B, NEW ptr, NEW size, NEW n, Wanted(h, B, ptr, size, n),
           NEW ns, ns \subseteq {PREV_BLKP(h, ptr), After(h, ptr)}
    PROVE  Mm!FitsInto(h, ptr, n, ns) <=> FitsIn(h, ptr, n, ns) /\ \A q \in ns : Used(h, q) = 0
<1>1. /\ Tiling(h, B) /\ ptr \in B \ {heap_listp, h.mem_brk} /\ After(h, ptr) \in B
      /\ GET_SIZE(h, HDRP(ptr)) = Size(h, ptr) /\ Size(h, ptr) \in Nat /\ n \in Nat
  BY WantedFacts
<1>2. PREV_BLKP(h, ptr) \in B
  BY <1>1, PrevTells
<1>3. \A q \in ns : Mm!GET_ALLOC(h, Mm!HDRP(q)) = Used(h, q)
  <2> TAKE q \in ns
  <2>1. q \in B
    BY <1>1, <1>2
  <2> QED
    BY <1>1, <2>1, TagsTell, MmTags
<1>4. Mm!GET_SIZE(h, Mm!HDRP(ptr)) = Size(h, ptr)
  BY <1>1, MmTags
<1>5. Mm!Grows(h, ptr, n) <=> Size(h, ptr) < n
  BY <1>1, <1>4 DEF Mm!Grows
<1>6. Mm!FitsInto(h, ptr, n, ns) <=>
        /\ Mm!Grows(h, ptr, n) /\ \A q \in ns : Used(h, q) = 0
        /\ n - Size(h, ptr) <= Mm!Room(h, ptr, ns)
  BY <1>3, <1>4, Zenon DEF Mm!FitsInto
<1> QED
  BY <1>5, <1>6 DEF FitsIn

(* The block ptr of h and its free neighbours are too small for n bytes. *)
Outgrown(h, ptr, n) == JoinEnd(h, ptr) - JoinFirst(h, ptr) < n

(* That is when the code finds no room in them. *)
LEMMA NothingFits ==
    ASSUME NEW h, NEW B, NEW ptr, NEW size, NEW n, Wanted(h, B, ptr, size, n),
           Size(h, ptr) < n, NEW prev, prev = PREV_BLKP(h, ptr), NEW next, next = After(h, ptr),
           ~Mm!FitsInto(h, ptr, n, {next}), ~Mm!FitsInto(h, ptr, n, {prev}),
           ~Mm!FitsInto(h, ptr, n, {prev, next})
    PROVE  Outgrown(h, ptr, n)
<1>1. /\ ptr \in Nat /\ Size(h, ptr) \in Nat /\ n \in Nat /\ After(h, ptr) = ptr + Size(h, ptr)
  BY WantedFacts
<1>2. PICK ns : ns = {q \in {prev, next} : Used(h, q) = 0}
  OBVIOUS
<1>3. PICK first : first = JoinFirst(h, ptr)
  OBVIOUS
<1>4. PICK e : e = JoinEnd(h, ptr)
  OBVIOUS
<1>5. Around(h, ptr, ns, first, e)
  BY <1>2, <1>3, <1>4 DEF Around, JoinFirst, JoinEnd
<1>6. PICK k : k = Mm!MergedWith(h, ptr, ns, first)
  OBVIOUS
<1>7. Mm!Room(h, ptr, ns) \in Nat /\ e - first = Size(h, ptr) + Mm!Room(h, ptr, ns)
  BY <1>5, <1>6, MmMergedWith
<1>8. CASE ns = {}
  <2>1. e = After(h, ptr) /\ first = ptr
    BY <1>5, <1>8 DEF Around
  <2> QED
    BY <1>1, <1>3, <1>4, <2>1 DEF Outgrown
<1>9. CASE ns # {}
  <2>1. ns = {next} \/ ns = {prev} \/ ns = {prev, next}
    BY <1>2, <1>9
  <2>2. ~Mm!FitsInto(h, ptr, n, ns)
    BY <2>1
  <2>3. ns \subseteq {PREV_BLKP(h, ptr), After(h, ptr)} /\ \A q \in ns : Used(h, q) = 0
    BY <1>2
  <2>4. ~FitsIn(h, ptr, n, ns)
    BY <2>2, <2>3, FitsTells
  <2>5. ~(n - Size(h, ptr) <= Mm!Room(h, ptr, ns))
    BY <2>4 DEF FitsIn
  <2>6. Size(h, ptr) + Mm!Room(h, ptr, ns) < n
    BY <1>1, <1>7, <2>5
  <2> QED
    BY <1>3, <1>4, <1>7, <2>6 DEF Outgrown
<1> QED
  BY <1>8, <1>9

(* The block is tagged for n of its c bytes, the rest of it is freed. *)
CutOff(h, ptr, n, c, g) ==
    LET Rest(k) == Mm!Tag(k, Mm!NEXT_BLKP(k, ptr), c - n, 0)
        Splits(k) == Mm!coalesce(Rest(k), Mm!NEXT_BLKP(k, ptr))
    IN  g = [Splits(Mm!Tag(h, ptr, n, 1)) EXCEPT !.ret = ptr]

(* It takes in the free neighbours ns above it. *)
UpOver(h, ptr, ns, g) == g = [Mm!MergedWith(h, ptr, ns, ptr) EXCEPT !.ret = ptr]

(* It takes in its free neighbours ns and moves down to prev. *)
DownOver(h, ptr, ns, prev, c, g) ==
    g = [Mm!memcpy(Mm!MergedWith(h, ptr, ns, prev), prev, ptr, c, "up") EXCEPT !.ret = prev]

(* What mm_realloc comes to, case by case. *)
ReallocCases(h, ptr, size, n, prev, next, g) ==
    LET c == Size(h, ptr)
        Fits(ns) == Mm!FitsInto(h, ptr, n, ns)
    IN  \/ n = c /\ g = [h EXCEPT !.ret = ptr]
        \/ n + 16 <= c /\ CutOff(h, ptr, n, c, g)
        \/ c < n /\ Fits({next}) /\ UpOver(h, ptr, {next}, g)
        \/ /\ c < n /\ ~Fits({next}) /\ Fits({prev})
           /\ DownOver(h, ptr, {prev}, prev, c, g)
        \/ /\ c < n /\ ~Fits({next}) /\ ~Fits({prev}) /\ Fits({prev, next})
           /\ DownOver(h, ptr, {prev, next}, prev, c, g)
        \/ /\ c < n /\ ~Fits({next}) /\ ~Fits({prev}) /\ ~Fits({prev, next})
           /\ Size(h, next) = 0 /\ g = Mm!Extended(h, ptr, n)
        \/ /\ c < n /\ ~Fits({next}) /\ ~Fits({prev}) /\ ~Fits({prev, next})
           /\ Size(h, next) # 0 /\ g = Mm!Moved(h, ptr, size, "up")
        \/ n < c /\ ~(n + 16 <= c) /\ g = Mm!Moved(h, ptr, size, "up")

(* mm_realloc of a block that it can resize is one of these. *)
LEMMA MmReallocIs ==
    ASSUME NEW h, NEW B, NEW ptr, NEW size, NEW n, Wanted(h, B, ptr, size, n),
           NEW prev, prev = PREV_BLKP(h, ptr), NEW next, next = After(h, ptr),
           NEW g, g = Mm!mm_realloc(h, ptr, size, "up")
    PROVE  ReallocCases(h, ptr, size, n, prev, next, g)
<1>1. /\ Tiling(h, B) /\ h \in Heaps /\ ptr \in Nat /\ ptr # NULL
      /\ Size(h, ptr) \in Nat /\ n \in Nat /\ size # 0 /\ n = Adjusted(size)
      /\ GET_SIZE(h, HDRP(ptr)) = Size(h, ptr) /\ NEXT_BLKP(h, ptr) = next /\ next \in B
  BY WantedFacts DEF Wanted
<1>2. PICK c \in Nat : c = Size(h, ptr)
  BY <1>1
<1>3. /\ Mm!Adjusted(size) = n /\ Mm!GET_SIZE(h, Mm!HDRP(ptr)) = c
      /\ Mm!PREV_BLKP(h, ptr) = prev /\ Mm!NEXT_BLKP(h, ptr) = next
      /\ Mm!GET_SIZE(h, Mm!HDRP(next)) = Size(h, next)
  BY <1>1, <1>2, TagsTell, MmTags, MmMemory
<1>4. g = Mm!Resized(h, ptr, size, "up")
  <2>1. ptr # Mm!NULL
    BY <1>1, MmMemory
  <2> QED
    BY <1>1, <2>1 DEF Mm!mm_realloc
<1>5. Mm!Grows(h, ptr, n) <=> c < n
  BY <1>1, <1>3 DEF Mm!Grows
<1>6. Mm!Shrinks(h, ptr, n) <=> n + 16 <= c
  BY <1>1, <1>3 DEF Mm!Shrinks, Mm!MINIMUM
<1>7. \A ns : Mm!FitsInto(h, ptr, n, ns) => c < n
  BY <1>5 DEF Mm!FitsInto
<1>8. PICK P, Q, R : /\ P <=> Mm!FitsInto(h, ptr, n, {next})
                     /\ Q <=> Mm!FitsInto(h, ptr, n, {prev})
                     /\ R <=> Mm!FitsInto(h, ptr, n, {prev, next})
                     /\ P \in BOOLEAN /\ Q \in BOOLEAN /\ R \in BOOLEAN
  OBVIOUS
<1>9. PICK g1, g2, g3, g4, g5, g6, g7 :
        /\ g1 = [h EXCEPT !.ret = ptr]
        /\ LET k == Mm!Tag(h, ptr, n, 1)
               m == Mm!NEXT_BLKP(k, ptr)
           IN  g2 = [Mm!coalesce(Mm!Tag(k, m, c - n, 0), m) EXCEPT !.ret = ptr]
        /\ g3 = [Mm!MergedWith(h, ptr, {next}, ptr) EXCEPT !.ret = ptr]
        /\ g4 = [Mm!memcpy(Mm!MergedWith(h, ptr, {prev}, prev), prev, ptr, c, "up")
                    EXCEPT !.ret = prev]
        /\ g5 = [Mm!memcpy(Mm!MergedWith(h, ptr, {prev, next}, prev), prev, ptr, c, "up")
                    EXCEPT !.ret = prev]
        /\ g6 = Mm!Extended(h, ptr, n) /\ g7 = Mm!Moved(h, ptr, size, "up")
  OBVIOUS
<1>10. Mm!Resized(h, ptr, size, "up") =
         CASE n = c -> g1
           [] Mm!Shrinks(h, ptr, n) -> g2
           [] Mm!FitsInto(h, ptr, n, {next}) -> g3
           [] Mm!FitsInto(h, ptr, n, {prev}) /\ ~Mm!FitsInto(h, ptr, n, {next}) -> g4
           [] /\ Mm!FitsInto(h, ptr, n, {prev, next})
              /\ ~Mm!FitsInto(h, ptr, n, {next}) /\ ~Mm!FitsInto(h, ptr, n, {prev}) -> g5
           [] OTHER -> IF Mm!Grows(h, ptr, n) /\ Size(h, next) = 0 THEN g6 ELSE g7
  BY <1>3, <1>9, Zenon DEF Mm!Resized
<1>11. \/ n = c /\ g = g1
       \/ n + 16 <= c /\ g = g2
       \/ c < n /\ P /\ g = g3
       \/ c < n /\ ~P /\ Q /\ g = g4
       \/ c < n /\ ~P /\ ~Q /\ R /\ g = g5
       \/ c < n /\ ~P /\ ~Q /\ ~R /\ Size(h, next) = 0 /\ g = g6
       \/ c < n /\ ~P /\ ~Q /\ ~R /\ Size(h, next) # 0 /\ g = g7
       \/ n < c /\ ~(n + 16 <= c) /\ g = g7
  <2>1. (P \/ Q \/ R) => c < n
    BY <1>7, <1>8
  <2> QED
    BY <1>1, <1>4, <1>5, <1>6, <1>8, <1>10, <2>1
<1> QED
  <2>1. /\ CutOff(h, ptr, n, c, g2) /\ UpOver(h, ptr, {next}, g3)
        /\ DownOver(h, ptr, {prev}, prev, c, g4) /\ DownOver(h, ptr, {prev, next}, prev, c, g5)
    BY <1>9, Zenon DEF CutOff, UpOver, DownOver
  <2> QED
    BY <1>2, <1>8, <1>9, <1>11, <2>1, Zenon DEF ReallocCases

(* A block that is cut off is split. *)
Cut(h, ptr, n, m, k, f, g) ==
    SplitAt(h, ptr, n, m, k) /\ f = Mm!coalesce(k, m) /\ Returning(f, g, ptr)

(* That is where the code's macros lead it. *)
LEMMA CutsOff ==
    ASSUME NEW h, NEW B, NEW ptr, NEW size, NEW n, Wanted(h, B, ptr, size, n),
           NEW c, c = Size(h, ptr), n + 16 <= c, NEW g, CutOff(h, ptr, n, c, g),
           NEW m, m = ptr + n
    PROVE  \E k, f : Cut(h, ptr, n, m, k, f, g)
<1>1. PICK k1 : k1 = Tag(h, ptr, n, 1)
  OBVIOUS
<1>2. PICK k : k = Tag(k1, NEXT_BLKP(k1, ptr), c - n, 0)
  OBVIOUS
<1>3. NEXT_BLKP(k1, ptr) = m /\ SplitAt(h, ptr, n, m, k)
  <2>1. n + 16 <= Size(h, ptr) /\ k = Tag(k1, NEXT_BLKP(k1, ptr), Size(h, ptr) - n, 0)
    BY <1>2
  <2> QED
    BY <1>1, <2>1, ShrinkTags
<1>4. PICK f : f = Mm!coalesce(k, m)
  OBVIOUS
<1>5. Returning(f, g, ptr)
  <2>1. /\ Mm!Tag(h, ptr, n, 1) = k1 /\ Mm!NEXT_BLKP(k1, ptr) = m /\ Mm!Tag(k1, m, c - n, 0) = k
    BY <1>1, <1>2, <1>3, MmTags
  <2>2. g = [f EXCEPT !.ret = ptr]
    BY <1>4, <2>1, Zenon DEF CutOff
  <2> QED
    BY <2>2 DEF Returning
<1> QED
  BY <1>3, <1>4, <1>5 DEF Cut

(* A block that moves down is copied into all their room. *)
Slides(h, ptr, ns, prev, k, j, g) ==
    /\ k = Mm!MergedWith(h, ptr, ns, prev)
    /\ j = memcpy(k, prev, ptr, Size(h, ptr), "up") /\ Returning(j, g, prev)

(* It is. *)
LEMMA DownOverSlides ==
    ASSUME NEW h, NEW ptr, NEW ns, NEW prev, NEW c, c = Size(h, ptr),
           NEW g, DownOver(h, ptr, ns, prev, c, g)
    PROVE  \E k, j : Slides(h, ptr, ns, prev, k, j, g)
<1>1. PICK k : k = Mm!MergedWith(h, ptr, ns, prev)
  OBVIOUS
<1>2. PICK j : j = memcpy(k, prev, ptr, Size(h, ptr), "up")
  OBVIOUS
<1>3. Mm!memcpy(k, prev, ptr, c, "up") = j
  BY <1>2, MmTags
<1>4. Returning(j, g, prev)
  BY <1>1, <1>3 DEF DownOver, Returning
<1> QED
  BY <1>1, <1>2, <1>4 DEF Slides

(* The block is served for n bytes, with what it had. *)
Carries(h, B, ptr, size, n, g) ==
    Serves(h, InUse(h, B) \ {ptr}, g, n) /\ Carried(h, g, ptr, size) /\ Neat(g)

(* It uses its own room and that of its free neighbours. *)
InRoom(h, ptr, n, lo, hi) ==
    /\ lo \in {ptr, JoinFirst(h, ptr)}
    /\ hi \in {After(h, ptr), ptr + n, JoinEnd(h, ptr)}
    /\ hi = JoinEnd(h, ptr) \/ JoinEnd(h, ptr) - hi >= MINIMUM

(* It is where it was, or beside. *)
StaysPut(h, B, ptr, size, n, g) ==
    /\ Carries(h, B, ptr, size, n, g) /\ g.mem_brk = h.mem_brk
    /\ InRoom(h, ptr, n, g.ret, After(g, g.ret))

(* It has grown with the heap. *)
GrowsOut(h, B, ptr, size, n, g) ==
    /\ Carries(h, B, ptr, size, n, g) /\ Outgrown(h, ptr, n) /\ After(h, ptr) = h.mem_brk
    /\ g.ret = ptr /\ After(g, ptr) = ptr + n
    /\ g.mem_brk = h.mem_brk + CHUNKSIZE /\ g.mem_brk <= mem_max_addr

(* It is too large by less than a block, or it has no room and is not the  *)
(* last one.                                                               *)
MayMove(h, ptr, n) ==
    \/ n < Size(h, ptr) /\ ~(n + 16 <= Size(h, ptr))
    \/ Outgrown(h, ptr, n) /\ After(h, ptr) # h.mem_brk

(* It is elsewhere. *)
MovesOut(h, B, ptr, size, n, g) ==
    /\ Carries(h, B, ptr, size, n, g) /\ MayMove(h, ptr, n)
    /\ g.ret \notin InUse(h, B) /\ Placement(h, B, g, n)

(* There is no place for it. *)
Denied(h, B, ptr, n, g) ==
    \/ /\ Outgrown(h, ptr, n) /\ After(h, ptr) = h.mem_brk
       /\ Returning(h, g, NULL) /\ h.mem_brk + CHUNKSIZE > mem_max_addr
    \/ MayMove(h, ptr, n) /\ Full(h, B, n) /\ Returning(h, g, Exited)

(* What of ptr and its neighbours is free. *)
LEMMA NeighbourFacts ==
    ASSUME NEW h, NEW B, NEW ptr, NEW size, NEW n, Wanted(h, B, ptr, size, n),
           NEW prev, prev = PREV_BLKP(h, ptr), NEW next, next = After(h, ptr)
    PROVE  /\ prev # next
           /\ Used(h, next) = 0 => Around(h, ptr, {next}, ptr, JoinEnd(h, ptr))
           /\ Used(h, prev) = 0 => Around(h, ptr, {prev}, prev, next)
           /\ Used(h, next) = 0 /\ Used(h, prev) = 0 =>
                Around(h, ptr, {prev, next}, prev, JoinEnd(h, ptr))
           /\ Used(h, prev) = 0 => prev = JoinFirst(h, ptr)
           /\ next = JoinEnd(h, ptr) \/ JoinEnd(h, ptr) - next >= MINIMUM
           /\ next \in Nat /\ JoinEnd(h, ptr) \in Nat /\ next <= JoinEnd(h, ptr)
           /\ next = h.mem_brk <=> Size(h, next) = 0
<1>1. /\ Tiling(h, B) /\ ptr \in B \ {heap_listp, h.mem_brk} /\ ptr \in Nat
      /\ next = ptr + Size(h, ptr) /\ Size(h, ptr) \in Nat /\ Size(h, ptr) >= 16
      /\ next \in B /\ next \in Nat
  BY WantedFacts
<1>2. prev \in B /\ prev < ptr /\ prev \in Nat
  BY <1>1, PrevTells, BlockFacts
<1>3. prev # next
  BY <1>1, <1>2
<1>4. /\ Used(h, next) = 0 => next # h.mem_brk /\ next # heap_listp
      /\ heap_listp <= ptr
  BY <1>1, BlockFacts
<1>5. next # heap_listp
  <2>1. ptr < next /\ heap_listp \in Nat
    BY <1>1, BlockFacts
  <2> QED
    BY <1>1, <1>4, <2>1
<1>6. /\ next # h.mem_brk => Size(h, next) \in Nat /\ Size(h, next) >= 16
      /\ next = h.mem_brk => Size(h, next) = 0
  BY <1>1, <1>5, BlockFacts DEF Tiling, BothTags, MINIMUM
<1>7. /\ Used(h, next) = 0 => JoinEnd(h, ptr) = next + Size(h, next)
      /\ Used(h, next) # 0 => JoinEnd(h, ptr) = next
  BY DEF JoinEnd, After
<1>8. /\ next = JoinEnd(h, ptr) \/ JoinEnd(h, ptr) - next >= MINIMUM
      /\ JoinEnd(h, ptr) \in Nat /\ next <= JoinEnd(h, ptr)
  BY <1>1, <1>4, <1>6, <1>7 DEF MINIMUM
<1>9. next = h.mem_brk <=> Size(h, next) = 0
  BY <1>6
<1>10. /\ Used(h, next) = 0 => Around(h, ptr, {next}, ptr, JoinEnd(h, ptr))
       /\ Used(h, prev) = 0 => Around(h, ptr, {prev}, prev, next)
       /\ Used(h, next) = 0 /\ Used(h, prev) = 0 =>
            Around(h, ptr, {prev, next}, prev, JoinEnd(h, ptr))
  BY <1>3 DEF Around, JoinEnd
<1>11. Used(h, prev) = 0 => prev = JoinFirst(h, ptr)
  BY DEF JoinFirst
<1> QED
  BY <1>1, <1>3, <1>8, <1>9, <1>10, <1>11

(* mm_realloc keeps the block where it is or beside if there is room; else *)
(* it lets the heap grow under the last block, and moves any other.        *)
LEMMA MmReallocates ==
    ASSUME NEW h, NEW B, NEW ptr, NEW size, NEW n, Wanted(h, B, ptr, size, n), n <= CHUNKSIZE,
           NEW g, g = Mm!mm_realloc(h, ptr, size, "up")
    PROVE  \/ StaysPut(h, B, ptr, size, n, g)
           \/ GrowsOut(h, B, ptr, size, n, g)
           \/ MovesOut(h, B, ptr, size, n, g)
           \/ Denied(h, B, ptr, n, g)
<1>1. /\ Tidy(h, B) /\ Tiling(h, B) /\ h \in Heaps /\ ptr \in Nat
      /\ Size(h, ptr) \in Nat /\ n \in Nat /\ n = Adjusted(size)
      /\ After(h, ptr) = ptr + Size(h, ptr)
  BY WantedFacts DEF Wanted
<1>2. PICK prev : prev = PREV_BLKP(h, ptr)
  OBVIOUS
<1>3. PICK next : next = After(h, ptr)
  OBVIOUS
<1>4. PICK e : e = JoinEnd(h, ptr)
  OBVIOUS
<1>5. /\ prev # next
      /\ Used(h, next) = 0 => Around(h, ptr, {next}, ptr, e)
      /\ Used(h, prev) = 0 => Around(h, ptr, {prev}, prev, next)
      /\ Used(h, next) = 0 /\ Used(h, prev) = 0 => Around(h, ptr, {prev, next}, prev, e)
      /\ Used(h, prev) = 0 => prev = JoinFirst(h, ptr)
      /\ next = e \/ e - next >= MINIMUM
      /\ next \in Nat /\ e \in Nat /\ next <= e
      /\ next = h.mem_brk <=> Size(h, next) = 0
  BY <1>2, <1>3, <1>4, NeighbourFacts
<1>6. PICK c : c = Size(h, ptr)
  OBVIOUS
<1>7. ASSUME NEW ns, ns \subseteq {prev, next}
      PROVE  Mm!FitsInto(h, ptr, n, ns) => FitsIn(h, ptr, n, ns) /\ \A q \in ns : Used(h, q) = 0
  BY <1>2, <1>3, <1>7, FitsTells
<1>8. ASSUME NEW lo, NEW hi, Resizes(h, B, ptr, size, g, lo, hi), InRoom(h, ptr, n, lo, hi)
      PROVE  StaysPut(h, B, ptr, size, n, g)
  BY <1>1, <1>8 DEF Resizes, StaysPut, Carries
<1>9. \A lo, hi : lo \in {ptr, JoinFirst(h, ptr)} /\ hi \in {next, ptr + n, e}
                  /\ (hi = e \/ e - hi >= MINIMUM) => InRoom(h, ptr, n, lo, hi)
  BY <1>3, <1>4 DEF InRoom
<1>10. CASE n = c /\ g = [h EXCEPT !.ret = ptr]
  <2>1. Resizes(h, B, ptr, size, g, ptr, next)
    BY <1>3, <1>6, <1>10, MmStays DEF Returning
  <2>2. InRoom(h, ptr, n, ptr, next)
    BY <1>5, <1>9
  <2> QED
    BY <1>8, <2>1, <2>2
<1>11. CASE n + 16 <= c /\ CutOff(h, ptr, n, c, g)
  <2>1. PICK m : m = ptr + n
    OBVIOUS
  <2>2. PICK k, f : Cut(h, ptr, n, m, k, f, g)
    BY <1>6, <1>11, <2>1, CutsOff
  <2>3. SplitAt(h, ptr, n, m, k) /\ f = Mm!coalesce(k, m) /\ Returning(f, g, ptr)
    BY <2>2 DEF Cut
  <2>4. Resizes(h, B, ptr, size, g, ptr, ptr + n)
    BY <1>6, <1>11, <2>1, <2>3, MmShrinks
  <2>5. e - (ptr + n) >= MINIMUM
    BY <1>1, <1>3, <1>5, <1>6, <1>11 DEF MINIMUM
  <2>6. InRoom(h, ptr, n, ptr, ptr + n)
    BY <1>9, <2>5
  <2> QED
    BY <1>8, <2>4, <2>6
<1>12. CASE Mm!FitsInto(h, ptr, n, {next}) /\ UpOver(h, ptr, {next}, g)
  <2>1. PICK ns : ns = {next}
    OBVIOUS
  <2>2. FitsIn(h, ptr, n, ns) /\ Around(h, ptr, ns, ptr, e)
    BY <1>5, <1>7, <1>12, <2>1
  <2>3. PICK k : k = Mm!MergedWith(h, ptr, ns, ptr)
    OBVIOUS
  <2>4. Returning(k, g, ptr)
    BY <1>12, <2>1, <2>3 DEF UpOver, Returning
  <2>5. Resizes(h, B, ptr, size, g, ptr, e)
    BY <2>2, <2>3, <2>4, MmGrowsUp
  <2>6. InRoom(h, ptr, n, ptr, e)
    BY <1>9
  <2> QED
    BY <1>8, <2>5, <2>6
<1>13. ASSUME NEW ns, ns \subseteq {prev, next}, prev \in ns, Mm!FitsInto(h, ptr, n, ns),
              DownOver(h, ptr, ns, prev, c, g),
              NEW hi, Around(h, ptr, ns, prev, hi), hi = next \/ hi = e
       PROVE  StaysPut(h, B, ptr, size, n, g)
  <2>1. FitsIn(h, ptr, n, ns) /\ Used(h, prev) = 0
    BY <1>7, <1>13
  <2>2. PICK k, j : Slides(h, ptr, ns, prev, k, j, g)
    BY <1>6, <1>13, DownOverSlides
  <2>3. /\ k = Mm!MergedWith(h, ptr, ns, prev)
        /\ j = memcpy(k, prev, ptr, Size(h, ptr), "up") /\ Returning(j, g, prev)
    BY <2>2 DEF Slides
  <2>4. Resizes(h, B, ptr, size, g, prev, hi)
    BY <1>2, <1>13, <2>1, <2>3, MmGrowsDown
  <2>5. InRoom(h, ptr, n, prev, hi)
    BY <1>5, <1>9, <1>13, <2>1
  <2> QED
    BY <1>8, <2>4, <2>5
<1>14. CASE Mm!FitsInto(h, ptr, n, {prev}) /\ DownOver(h, ptr, {prev}, prev, c, g)
  <2>1. PICK ns : ns = {prev}
    OBVIOUS
  <2>2. ns \subseteq {prev, next} /\ prev \in ns /\ Mm!FitsInto(h, ptr, n, ns)
    BY <1>14, <2>1
  <2>3. Around(h, ptr, ns, prev, next)
    BY <1>5, <1>7, <2>1, <2>2
  <2> QED
    BY <1>13, <1>14, <2>1, <2>2, <2>3
<1>15. CASE Mm!FitsInto(h, ptr, n, {prev, next}) /\ DownOver(h, ptr, {prev, next}, prev, c, g)
  <2>1. PICK ns : ns = {prev, next}
    OBVIOUS
  <2>2. ns \subseteq {prev, next} /\ prev \in ns /\ Mm!FitsInto(h, ptr, n, ns)
    BY <1>15, <2>1
  <2>3. Around(h, ptr, ns, prev, e)
    <3>1. Used(h, prev) = 0 /\ Used(h, next) = 0
      BY <1>7, <2>1, <2>2
    <3> QED
      BY <1>5, <2>1, <3>1
  <2> QED
    BY <1>13, <1>15, <2>1, <2>2, <2>3
<1>16. CASE c < n /\ Outgrown(h, ptr, n) /\ Size(h, next) = 0 /\ g = Mm!Extended(h, ptr, n)
  <2>1. After(h, ptr) = h.mem_brk /\ Size(h, ptr) < n
    BY <1>3, <1>5, <1>6, <1>16
  <2>2. \/ Returning(h, g, NULL) /\ h.mem_brk + CHUNKSIZE > mem_max_addr
        \/ /\ Serves(h, InUse(h, B) \ {ptr}, g, n) /\ Carried(h, g, ptr, size) /\ Neat(g)
           /\ g.ret = ptr /\ After(g, ptr) = ptr + n
           /\ g.mem_brk = h.mem_brk + CHUNKSIZE /\ g.mem_brk <= mem_max_addr
    BY <1>16, <2>1, MmExtended
  <2> QED
    BY <1>16, <2>1, <2>2 DEF Denied, GrowsOut, Carries
<1>17. CASE MayMove(h, ptr, n) /\ g = Mm!Moved(h, ptr, size, "up")
  <2>1. \/ /\ Serves(h, InUse(h, B) \ {ptr}, g, n) /\ Carried(h, g, ptr, size) /\ Neat(g)
           /\ g.ret \notin InUse(h, B) /\ Placement(h, B, g, n)
        \/ Full(h, B, n) /\ Returning(h, g, Exited)
    BY <1>17, MmMoves
  <2> QED
    BY <1>17, <2>1 DEF Denied, MovesOut, Carries
<1>18. c < n /\ ~Mm!FitsInto(h, ptr, n, {next}) /\ ~Mm!FitsInto(h, ptr, n, {prev})
         /\ ~Mm!FitsInto(h, ptr, n, {prev, next}) => Outgrown(h, ptr, n)
  BY <1>2, <1>3, <1>6, NothingFits
<1>19. LET Fits(ns) == Mm!FitsInto(h, ptr, n, ns)
       IN  \/ n = c /\ g = [h EXCEPT !.ret = ptr]
           \/ n + 16 <= c /\ CutOff(h, ptr, n, c, g)
           \/ c < n /\ Fits({next}) /\ UpOver(h, ptr, {next}, g)
           \/ /\ c < n /\ ~Fits({next}) /\ Fits({prev})
              /\ DownOver(h, ptr, {prev}, prev, c, g)
           \/ /\ c < n /\ ~Fits({next}) /\ ~Fits({prev}) /\ Fits({prev, next})
              /\ DownOver(h, ptr, {prev, next}, prev, c, g)
           \/ /\ c < n /\ ~Fits({next}) /\ ~Fits({prev}) /\ ~Fits({prev, next})
              /\ Size(h, next) = 0 /\ g = Mm!Extended(h, ptr, n)
           \/ /\ c < n /\ ~Fits({next}) /\ ~Fits({prev}) /\ ~Fits({prev, next})
              /\ Size(h, next) # 0 /\ g = Mm!Moved(h, ptr, size, "up")
           \/ n < c /\ ~(n + 16 <= c) /\ g = Mm!Moved(h, ptr, size, "up")
  <2>1. ReallocCases(h, ptr, size, n, prev, next, g)
    BY <1>2, <1>3, MmReallocIs
  <2> QED
    BY <1>6, <2>1, Zenon DEF ReallocCases
<1>20. /\ Outgrown(h, ptr, n) /\ Size(h, next) # 0 => MayMove(h, ptr, n)
       /\ n < c /\ ~(n + 16 <= c) => MayMove(h, ptr, n)
  BY <1>3, <1>5, <1>6 DEF MayMove
<1> QED
  BY <1>10, <1>11, <1>12, <1>14, <1>15, <1>16, <1>17, <1>18, <1>19, <1>20, Zenon
=============================================================================
