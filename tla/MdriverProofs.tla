--------------------------- MODULE MdriverProofs ----------------------------
(***************************************************************************)
(* What is proved of the driver, linked with mm.c or with mm-firstfit.c.   *)
(***************************************************************************)
EXTENDS MmProofs

-----------------------------------------------------------------------------
(* The client.                                                             *)

(* The blocks in use of h are those that the client holds for the numbers  *)
(* J, each with what he wrote into it, and U.                              *)
ClientHas(h, C, at, sz, J, U) ==
    /\ Sound(h, C)
    /\ at \in [Ids -> Nat] /\ sz \in [Ids -> Sizes \cup {0}] /\ J \subseteq Ids
    /\ InUse(h, C) = {heap_listp} \cup {at[j] : j \in J} \cup U
    /\ U \cap ({heap_listp} \cup {at[j] : j \in J}) = {}
    /\ \A j \in J :
          /\ at[j] # heap_listp /\ sz[j] \in Sizes
          /\ at[j] + sz[j] + 8 <= After(h, at[j])
          /\ Preserved(h, at[j], j, sz[j])
    /\ \A i, j \in J : at[i] = at[j] => i = j

(* The ranges of the payloads of the numbers J. *)
RangesOf(at, sz, J) == {[lo |-> at[j], hi |-> at[j] + sz[j] - 1] : j \in J}

(* A request is for whole words, and for one at least. *)
LEMMA SizesAreWords ==
    \A s \in Sizes : s \in Nat \ {0} /\ s % 4 = 0 /\ s <= MAX_HEAP
BY TraceAssumption, AreaAssumption DEF WSIZE

(* What a heap keeps of the client's blocks, the client has. *)
LEMMA ClientKeeps ==
    ASSUME NEW h, NEW C, NEW at, NEW sz, NEW J, ClientHas(h, C, at, sz, J, {}),
           NEW K, K \subseteq J, NEW S, S = {heap_listp} \cup {at[j] : j \in K},
           NEW g, NEW D, Sound(g, D), NEW U, InUse(g, D) = S \cup U, U \cap S = {},
           Keeps(h, g, S)
    PROVE  ClientHas(g, D, at, sz, K, U)
<1>1. ASSUME NEW j \in K
      PROVE  /\ at[j] # heap_listp /\ sz[j] \in Sizes
             /\ at[j] + sz[j] + 8 <= After(g, at[j])
             /\ Preserved(g, at[j], j, sz[j])
  <2>1. /\ at[j] # heap_listp /\ sz[j] \in Sizes /\ at[j] \in Nat
        /\ at[j] + sz[j] + 8 <= After(h, at[j])
        /\ Preserved(h, at[j], j, sz[j])
    BY <1>1 DEF ClientHas
  <2>2. After(g, at[j]) = After(h, at[j]) /\ Untouched(h, g, at[j])
    BY <1>1 DEF Keeps
  <2>3. sz[j] \in Nat /\ sz[j] > 0
    BY <2>1, SizesAreWords
  <2>4. After(h, at[j]) \in Int
    <3>1. at[j] \in C /\ Tiling(h, C) /\ at[j] # h.mem_brk
      BY <1>1 DEF ClientHas, Sound, InUse
    <3> QED
      BY <3>1, BlockFacts
  <2>5. Preserved(g, at[j], j, sz[j])
    <3> SUFFICES ASSUME NEW a \in Storage \cap (at[j] .. at[j] + sz[j] - 1)
                 PROVE  GET(g, a) = Filler(j)
      BY DEF Preserved
    <3>1. GET(h, a) = Filler(j)
      BY <2>1 DEF Preserved
    <3>2. a \in at[j] .. After(h, at[j]) - 9
      BY <2>1, <2>3, <2>4
    <3> QED
      BY <2>2, <3>1, <3>2 DEF Untouched
  <2> QED
    BY <2>1, <2>2, <2>5
<1>2. /\ at \in [Ids -> Nat] /\ sz \in [Ids -> Sizes \cup {0}]
      /\ J \subseteq Ids /\ \A i, j \in J : at[i] = at[j] => i = j
  BY DEF ClientHas
<1> QED
  BY <1>1, <1>2 DEF ClientHas

(* What memset does to the memory. *)
LEMMA MemsetWrites ==
    ASSUME NEW h \in Heaps, NEW p \in Nat, NEW i \in Ids, NEW size \in Sizes
    PROVE  LET g == memset(h, p, i, size)
           IN  /\ g \in Heaps /\ g.mem_brk = h.mem_brk
               /\ g.free_listp = h.free_listp /\ g.ret = h.ret
               /\ \A a : GET(g, a) = IF a \in Storage \cap (p .. p + size - 1)
                                     THEN Filler(i) ELSE GET(h, a)
<1> DEFINE g == memset(h, p, i, size)
           m == [a \in Storage |-> IF a \in p .. p + size - 1 THEN Filler(i) ELSE h.mem[a]]
<1>1. Filler(i) \in Words
  <2>1. i \in 1 .. 15 /\ Span \in Nat /\ Span >= 4096
    BY TraceAssumption, AreaAssumption
  <2> QED
    BY <2>1 DEF Filler, Words
<1>2. m \in [Storage -> Words]
  BY <1>1 DEF Heaps
<1>3. g = [h EXCEPT !.mem = m]
  BY Zenon DEF memset
<1> HIDE DEF m
<1>4. /\ g \in Heaps /\ g.mem = m /\ g.mem_brk = h.mem_brk
      /\ g.free_listp = h.free_listp /\ g.ret = h.ret
  <2> HIDE DEF g
  <2> QED
    BY <1>2, <1>3 DEF Heaps
<1>5. ASSUME NEW a
      PROVE  GET(g, a) = IF a \in Storage \cap (p .. p + size - 1) THEN Filler(i) ELSE GET(h, a)
  <2> HIDE DEF g
  <2> QED
    BY <1>4 DEF GET, m
<1> QED
  BY <1>4, <1>5

(* The driver fills the block it got, which is the client's from then on. *)
Filled(h, at, sz, i, p, size, g, bt, tz) ==
    /\ g = memset(h, p, i, size)
    /\ bt = [at EXCEPT ![i] = p] /\ tz = [sz EXCEPT ![i] = size]

(* It has what he wrote, and the other blocks have what they had. *)
LEMMA ClientWrites ==
    ASSUME NEW h, NEW C, NEW at, NEW sz, NEW J, NEW p, ClientHas(h, C, at, sz, J, {p}),
           NEW i \in Ids \ J, NEW size \in Sizes, p + size + 8 <= After(h, p),
           NEW g, NEW bt, NEW tz, Filled(h, at, sz, i, p, size, g, bt, tz),
           NEW K, K = J \cup {i}
    PROVE  /\ ClientHas(g, C, bt, tz, K, {})
           /\ RangesOf(bt, tz, K) = RangesOf(at, sz, J) \cup {[lo |-> p, hi |-> p + size - 1]}
<1>1. /\ Sound(h, C) /\ Tiling(h, C) /\ h \in Heaps /\ p \in InUse(h, C) /\ p \in C \ {h.mem_brk}
      /\ at \in [Ids -> Nat] /\ sz \in [Ids -> Sizes \cup {0}] /\ J \subseteq Ids
  BY DEF ClientHas, Sound, Tiling, Bounds, InUse
<1>2. /\ p \in Nat /\ After(h, p) \in Nat
  BY <1>1, BlockFacts
<1>3. size \in Nat
  BY SizesAreWords
<1>4. /\ g \in Heaps /\ g.mem_brk = h.mem_brk /\ g.free_listp = h.free_listp
      /\ \A a : GET(g, a) = IF a \in Storage \cap (p .. p + size - 1)
                            THEN Filler(i) ELSE GET(h, a)
  BY <1>1, <1>2, MemsetWrites DEF Filled
<1>5. \A a \in Int : a \notin p .. After(h, p) - 9 => GET(g, a) = GET(h, a)
  <2>1. \A a \in p .. p + size - 1 : a \in p .. After(h, p) - 9
    BY <1>2, <1>3
  <2> QED
    BY <1>4, <2>1
<1>6. /\ Sound(g, C) /\ InUse(g, C) = InUse(h, C)
      /\ Keeps(h, g, InUse(h, C) \ {p}) /\ After(g, p) = After(h, p)
  BY <1>1, <1>4, <1>5, PayloadWritten
<1>7. /\ bt \in [Ids -> Nat] /\ tz \in [Ids -> Sizes \cup {0}] /\ K \subseteq Ids
      /\ bt[i] = p /\ tz[i] = size
      /\ \A j \in J : bt[j] = at[j] /\ tz[j] = sz[j] /\ j # i
  BY <1>1, <1>2 DEF Filled
<1>8. {bt[j] : j \in K} = {at[j] : j \in J} \cup {p}
  BY <1>7
<1>9. InUse(g, C) = {heap_listp} \cup {bt[j] : j \in K} \cup {}
  BY <1>6, <1>8 DEF ClientHas
<1>10. p # heap_listp /\ \A j \in J : at[j] # p
  BY DEF ClientHas
<1>11. ASSUME NEW j \in K
       PROVE  /\ bt[j] # heap_listp /\ tz[j] \in Sizes
              /\ bt[j] + tz[j] + 8 <= After(g, bt[j])
              /\ Preserved(g, bt[j], j, tz[j])
  <2>1. CASE j = i
    BY <1>4, <1>6, <1>7, <1>10, <2>1 DEF Preserved
  <2>2. CASE j \in J
    <3>1. /\ at[j] # heap_listp /\ sz[j] \in Sizes /\ at[j] \in Nat
          /\ at[j] + sz[j] + 8 <= After(h, at[j])
          /\ Preserved(h, at[j], j, sz[j]) /\ at[j] \in InUse(h, C) \ {p}
      BY <1>1, <1>10, <2>2 DEF ClientHas
    <3>2. After(g, at[j]) = After(h, at[j]) /\ Untouched(h, g, at[j])
      BY <1>6, <3>1 DEF Keeps
    <3>3. sz[j] \in Nat /\ After(h, at[j]) \in Nat
      <4>1. at[j] \in C \ {h.mem_brk}
        BY <3>1 DEF InUse
      <4> QED
        BY <1>1, <3>1, <4>1, SizesAreWords, BlockFacts
    <3>4. Preserved(g, at[j], j, sz[j])
      <4> SUFFICES ASSUME NEW a \in Storage \cap (at[j] .. at[j] + sz[j] - 1)
                   PROVE  GET(g, a) = Filler(j)
        BY DEF Preserved
      <4>1. GET(h, a) = Filler(j)
        BY <3>1 DEF Preserved
      <4>2. a \in at[j] .. After(h, at[j]) - 9
        BY <3>1, <3>3
      <4> QED
        BY <3>2, <4>1, <4>2 DEF Untouched
    <3> QED
      BY <1>7, <2>2, <3>1, <3>2, <3>4
  <2> QED
    BY <2>1, <2>2
<1>12. \A x, j \in K : bt[x] = bt[j] => x = j
  <2>1. \A x, j \in J : at[x] = at[j] => x = j
    BY DEF ClientHas
  <2> QED
    BY <1>7, <1>10, <2>1
<1>13. RangesOf(bt, tz, K) = RangesOf(at, sz, J) \cup {[lo |-> p, hi |-> p + size - 1]}
  BY <1>7 DEF RangesOf
<1> QED
  BY <1>6, <1>7, <1>9, <1>11, <1>12, <1>13 DEF ClientHas

(* A new block is aligned, inside the heap, and apart from the others. *)
LEMMA RangeIsClear ==
    ASSUME NEW h, NEW C, NEW at, NEW sz, NEW J, NEW p, ClientHas(h, C, at, sz, J, {p}),
           NEW size \in Sizes, p + size + 8 <= After(h, p),
           NEW rs, rs = RangesOf(at, sz, J)
    PROVE  RangeVerdict(rs, h, p, size) = "ok"
<1>1. /\ Tiling(h, C) /\ p \in C \ {h.mem_brk} /\ at \in [Ids -> Nat] /\ J \subseteq Ids
  BY DEF ClientHas, Sound, InUse
<1>2. size \in Nat /\ size > 0
  BY SizesAreWords
<1>3. /\ p \in Nat /\ p % 8 = 0 /\ heap_listp <= p /\ After(h, p) \in Nat
      /\ p < After(h, p) /\ After(h, p) <= h.mem_brk /\ h.mem_brk \in Nat
      /\ heap_listp = mem_start_brk + 8 /\ mem_start_brk \in Nat
      /\ \A c \in C : p < c => After(h, p) <= c
      /\ \A c \in C \ {h.mem_brk} : c < p => After(h, c) <= p
  <2>1. mem_start_brk \in Nat
    BY AreaAssumption
  <2> QED
    BY <1>1, <2>1, BlockFacts
<1> DEFINE hi == p + size - 1
           inHeap(a) == mem_heap_lo <= a /\ a <= mem_heap_hi(h)
           overlaps(r) == \/ r.lo <= p /\ p <= r.hi
                          \/ r.lo <= hi /\ hi <= r.hi
<1>4. inHeap(p) /\ inHeap(hi)
  BY <1>2, <1>3 DEF mem_heap_lo, mem_heap_hi
<1>5. ASSUME NEW r \in rs
      PROVE  ~overlaps(r)
  <2>1. PICK j \in J : r = [lo |-> at[j], hi |-> at[j] + sz[j] - 1]
    BY <1>5 DEF RangesOf
  <2>2. r.lo = at[j] /\ r.hi = at[j] + sz[j] - 1
    BY <2>1
  <2>3. /\ sz[j] \in Nat /\ sz[j] > 0 /\ at[j] \in Nat
        /\ at[j] + sz[j] + 8 <= After(h, at[j]) /\ at[j] # p
        /\ at[j] \in C \ {h.mem_brk}
    <3>1. sz[j] \in Sizes /\ at[j] + sz[j] + 8 <= After(h, at[j])
          /\ at[j] # p /\ at[j] \in InUse(h, C)
      BY DEF ClientHas
    <3> QED
      BY <1>1, <3>1, SizesAreWords DEF InUse
  <2>4. After(h, at[j]) \in Nat
    BY <1>1, <2>3, BlockFacts
  <2>5. at[j] < p => After(h, at[j]) <= p
    BY <1>3, <2>3
  <2>6. p < at[j] => After(h, p) <= at[j]
    BY <1>3, <2>3
  <2>7. at[j] + sz[j] - 1 < p \/ hi < at[j]
    BY <1>2, <1>3, <2>3, <2>4, <2>5, <2>6
  <2> QED
    BY <1>2, <1>3, <2>2, <2>3, <2>7
<1> HIDE DEF inHeap, overlaps, hi
<1>6. RangeVerdict(rs, h, p, size) =
        CASE p % 8 # 0 -> "not aligned"
          [] p % 8 = 0 /\ ~(inHeap(p) /\ inHeap(hi)) -> "outside heap"
          [] OTHER -> IF \E r \in rs : overlaps(r) THEN "overlaps" ELSE "ok"
  BY Zenon DEF RangeVerdict, inHeap, overlaps, hi
<1> QED
  BY <1>3, <1>4, <1>5, <1>6

(* A block that is given up takes its range with it. *)
LEMMA RangeIsRemoved ==
    ASSUME NEW h, NEW C, NEW at, NEW sz, NEW J, ClientHas(h, C, at, sz, J, {}), NEW i \in J
    PROVE  remove_range(RangesOf(at, sz, J), at[i]) = RangesOf(at, sz, J \ {i})
<1>1. \A x, j \in J : at[x] = at[j] => x = j
  BY DEF ClientHas
<1>2. ASSUME NEW r
      PROVE  r \in remove_range(RangesOf(at, sz, J), at[i]) <=> r \in RangesOf(at, sz, J \ {i})
  BY <1>1 DEF remove_range, RangesOf
<1> QED
  BY <1>2, Zenon DEF remove_range, RangesOf

-----------------------------------------------------------------------------
(* The invariant of the driver.                                            *)

(* The numbers that have a block. *)
LiveOf(at) == {i \in Ids : at[i] # NULL}

(* The client has the blocks in use, the ranges are those of his payloads, *)
(* and nothing went wrong but that memory was exhausted.                   *)
Order(h, C, at, sz, rs, said) ==
    /\ ClientHas(h, C, at, sz, LiveOf(at), {})
    /\ rs = RangesOf(at, sz, LiveOf(at))
    /\ said \in {"ok", "mm_malloc failed", "mm_realloc failed", "exited"}
    /\ said # "ok" => \E size \in Sizes : Exhausted(h, Adjusted(size))

(* The heap is in order, for some choice of its blocks. *)
InOrder == \E C : Order(heap, C, blocks, block_sizes, ranges, verdict)

(* The numbers but for i, and the blocks in use but for the one of i. *)
Others(at, i) == LiveOf(at) \ {i}
AlsoKept(at, i) == {heap_listp} \cup {at[j] : j \in Others(at, i)}

(* The heap h serves a request with k, which the driver fills. *)
Answered(h, C, at, sz, rs, i, size, k, g, bt, tz) ==
    /\ Order(h, C, at, sz, rs, "ok") /\ i \in Ids /\ size \in Sizes
    /\ Serves(h, AlsoKept(at, i), k, Adjusted(size))
    /\ Filled(k, at, sz, i, k.ret, size, g, bt, tz)

(* A block that is served passes the driver's checks and is filled.        *)
LEMMA ServedIsOrder ==
    ASSUME NEW h, NEW C, NEW at, NEW sz, NEW rs, NEW i, NEW size, NEW k, NEW g, NEW bt, NEW tz,
           Answered(h, C, at, sz, rs, i, size, k, g, bt, tz)
    PROVE  LET os == RangesOf(at, sz, Others(at, i))
           IN  /\ RangeVerdict(os, k, k.ret, size) = "ok"
               /\ \E D : Order(g, D, bt, tz, add_range(os, k.ret, size), "ok")
               /\ g.ret = k.ret /\ g.mem_brk = k.mem_brk /\ After(g, g.ret) = After(k, k.ret)
               /\ g.free_listp = k.free_listp
               /\ \A j \in Others(at, i) : After(g, at[j]) = After(h, at[j])
               /\ k.ret \in Nat /\ k.ret # NULL
<1> DEFINE os == RangesOf(at, sz, Others(at, i))
<1>b. /\ Order(h, C, at, sz, rs, "ok") /\ i \in Ids /\ size \in Sizes
      /\ Serves(h, AlsoKept(at, i), k, Adjusted(size))
      /\ Filled(k, at, sz, i, k.ret, size, g, bt, tz)
  BY DEF Answered
<1> HIDE DEF os
<1>0. PICK K, S : K = Others(at, i) /\ S = AlsoKept(at, i)
  OBVIOUS
<1>1. ClientHas(h, C, at, sz, LiveOf(at), {})
  BY <1>b DEF Order
<1>2. PICK D :
        /\ Sound(k, D)
        /\ InUse(k, D) = S \cup {k.ret} /\ k.ret \notin S
        /\ Keeps(h, k, S)
        /\ k.ret \in Nat /\ After(k, k.ret) \in Nat /\ k.ret + Adjusted(size) <= After(k, k.ret)
  BY <1>0, <1>b DEF Serves
<1>3. PICK p, U : p = k.ret /\ U = {p}
  OBVIOUS
<1>4. ClientHas(k, D, at, sz, K, U)
  <2>1. /\ InUse(k, D) = S \cup U /\ U \cap S = {} /\ K \subseteq LiveOf(at)
        /\ S = {heap_listp} \cup {at[j] : j \in K}
    BY <1>0, <1>2, <1>3 DEF Others, AlsoKept
  <2> QED
    BY <1>1, <1>2, <2>1, ClientKeeps
<1>5. ClientHas(k, D, at, sz, K, {p})
  BY <1>3, <1>4
<1>6. p + size + 8 <= After(k, p)
  <2>1. size \in Nat \ {0}
    BY <1>b, SizesAreWords
  <2>2. Adjusted(size) \in Nat /\ size + 8 <= Adjusted(size)
    BY <2>1, AdjustedIsEnough DEF OVERHEAD
  <2> QED
    BY <1>2, <1>3, <2>1, <2>2
<1>7. RangeVerdict(os, k, p, size) = "ok"
  BY <1>0, <1>b, <1>5, <1>6, RangeIsClear DEF os
<1>8. i \in Ids \ K /\ Filled(k, at, sz, i, p, size, g, bt, tz)
  BY <1>0, <1>3, <1>b DEF Others
<1>9. PICK L : L = K \cup {i}
  OBVIOUS
<1>10. /\ ClientHas(g, D, bt, tz, L, {})
       /\ RangesOf(bt, tz, L) = os \cup {[lo |-> p, hi |-> p + size - 1]}
  BY <1>0, <1>b, <1>5, <1>6, <1>8, <1>9, ClientWrites DEF os
<1>11. Tiling(k, D) /\ k \in Heaps /\ p \in D /\ p \in InUse(k, D)
  BY <1>2, <1>3 DEF Sound, Tiling, Bounds, InUse
<1>12. p # NULL
  <2>1. heap_listp <= p /\ heap_listp = mem_start_brk + 8 /\ p \in Nat
    BY <1>11, BlockFacts
  <2> QED
    BY <2>1, AreaAssumption DEF NULL
<1>13. LiveOf(bt) = L
  <2>1. at \in [Ids -> Nat]
    BY <1>1 DEF ClientHas
  <2> QED
    BY <1>0, <1>b, <1>8, <1>9, <1>12, <2>1 DEF LiveOf, Filled, Others
<1>14. Order(g, D, bt, tz, add_range(os, p, size), "ok")
  BY <1>10, <1>13 DEF Order, add_range
<1>15. /\ g.ret = k.ret /\ g.mem_brk = k.mem_brk /\ g.free_listp = k.free_listp
       /\ \A a : GET(g, a) = IF a \in Storage \cap (p .. p + size - 1)
                             THEN Filler(i) ELSE GET(k, a)
  BY <1>2, <1>3, <1>8, <1>11, <1>b, MemsetWrites DEF Filled
<1>16. /\ After(g, p) = After(k, p)
       /\ \A j \in K : After(g, at[j]) = After(k, at[j])
  <2>1. PICK u : u = g
    OBVIOUS
  <2>2. \A a \in Int : a \notin p .. After(k, p) - 9 => GET(u, a) = GET(k, a)
    <3>1. \A a \in p .. p + size - 1 : a \in p .. After(k, p) - 9
      BY <1>2, <1>3, <1>6, <1>b, SizesAreWords
    <3> QED
      BY <1>15, <2>1, <3>1
  <2>3. u \in Heaps /\ u.mem_brk = k.mem_brk
    BY <1>10, <1>15, <2>1 DEF ClientHas, Sound, Tiling, Bounds
  <2>4. Keeps(k, u, InUse(k, D) \ {p}) /\ After(u, p) = After(k, p)
    <3>1. Sound(k, D) /\ p \in InUse(k, D)
      BY <1>2, <1>11
    <3> QED
      BY <2>2, <2>3, <3>1, PayloadWritten
  <2>5. \A j \in K : at[j] \in InUse(k, D) \ {p}
    BY <1>0, <1>2, <1>3 DEF AlsoKept
  <2> QED
    BY <2>1, <2>4, <2>5 DEF Keeps
<1>17. \A j \in K : After(k, at[j]) = After(h, at[j])
  BY <1>0, <1>2 DEF Keeps, AlsoKept
<1> QED
  BY <1>0, <1>2, <1>3, <1>7, <1>12, <1>14, <1>15, <1>16, <1>17 DEF os

(* The block of i is the one in use that nobody else holds. *)
LEMMA KeptIsRest ==
    ASSUME NEW h, NEW C, NEW at, NEW sz, ClientHas(h, C, at, sz, LiveOf(at), {}),
           NEW i \in LiveOf(at)
    PROVE  InUse(h, C) \ {at[i]} = AlsoKept(at, i)
<1>1. InUse(h, C) = {heap_listp} \cup {at[j] : j \in LiveOf(at)}
  BY DEF ClientHas
<1>2. at[i] # heap_listp /\ \A j \in LiveOf(at) : at[j] = at[i] => j = i
  BY DEF ClientHas
<1> QED
  BY <1>1, <1>2 DEF AlsoKept, Others

(* The step gave the number i the block that k returned. *)
Given(h, at, i, k, g, bt) ==
    /\ g.ret = k.ret /\ g.mem_brk = k.mem_brk /\ After(g, g.ret) = After(k, k.ret)
    /\ g.free_listp = k.free_listp
    /\ g.ret \in Nat /\ g.ret # NULL
    /\ bt = [at EXCEPT ![i] = g.ret]
    /\ \A j \in Others(at, i) : After(g, at[j]) = After(h, at[j])

(* The heap h cannot grow for a request, and g only says so. *)
Refusing(h, g, size, said) ==
    /\ size \in Sizes /\ Exhausted(h, Adjusted(size))
    /\ said \in {"mm_malloc failed", "mm_realloc failed", "exited"}
    /\ \E r \in {NULL, Exited} : Returning(h, g, r)

(* A heap that differs in what was returned is in the same order. *)
LEMMA OrderIsNotReturned ==
    ASSUME NEW h, NEW C, NEW at, NEW sz, NEW rs, Order(h, C, at, sz, rs, "ok"),
           NEW g, NEW size, NEW said, Refusing(h, g, size, said)
    PROVE  /\ Order(g, C, at, sz, rs, said)
           /\ g.mem_brk = h.mem_brk /\ g.free_listp = h.free_listp
           /\ \A j \in LiveOf(at) : After(g, at[j]) = After(h, at[j])
<1>1. ClientHas(h, C, at, sz, LiveOf(at), {}) /\ rs = RangesOf(at, sz, LiveOf(at))
  BY DEF Order
<1>2. h \in Heaps /\ Sound(h, C)
  BY <1>1 DEF ClientHas, Sound, Tiling, Bounds
<1>3. /\ g.mem_brk = h.mem_brk /\ g.free_listp = h.free_listp
      /\ \A a : GET(g, a) = GET(h, a)
      /\ \A b : Size(g, b) = Size(h, b) /\ Used(g, b) = Used(h, b) /\ After(g, b) = After(h, b)
      /\ Sound(g, C) /\ InUse(g, C) = InUse(h, C)
  <2>1. PICK r \in {NULL, Exited} : Returning(h, g, r)
    BY DEF Refusing
  <2>2. r \in Int
    BY DEF NULL, Exited
  <2> QED
    BY <1>2, <2>1, <2>2, Returns DEF Sound
<1>4. ClientHas(g, C, at, sz, LiveOf(at), {})
  BY <1>1, <1>3 DEF ClientHas, Preserved
<1>5. Exhausted(g, Adjusted(size))
  BY <1>3 DEF Exhausted, Refusing
<1> QED
  BY <1>1, <1>3, <1>4, <1>5 DEF Order, Refusing

(* An answer to a request for a new block leaves the heap in order. *)
LEMMA AllocIsServed ==
    ASSUME NEW C, Order(heap, C, blocks, block_sizes, ranges, verdict),
           NEW i \in Ids, NEW size \in Sizes, Alloc(i, size),
           NEW k, k = mm_malloc(heap, size), Serves(heap, InUse(heap, C), k, Adjusted(size))
    PROVE  /\ \E D : Order(heap', D, blocks', block_sizes', ranges', verdict')
           /\ verdict' = "ok" /\ heap' = memset(k, k.ret, i, size)
           /\ Given(heap, blocks, i, k, heap', blocks')
<1> DEFINE said == IF k.ret = NULL THEN "mm_malloc failed"
                   ELSE RangeVerdict(ranges, k, k.ret, size)
<1>1. /\ verdict = "ok" /\ i \notin LiveOf(blocks)
      /\ \/ said = "ok" /\ Remember(i, k, k.ret, size, ranges)
         \/ said # "ok" /\ malloc_error(said, k, ranges)
  BY Zenon DEF Alloc, Live, LiveOf
<1>2. Order(heap, C, blocks, block_sizes, ranges, "ok")
  BY <1>1
<1>3. /\ ClientHas(heap, C, blocks, block_sizes, LiveOf(blocks), {})
      /\ ranges = RangesOf(blocks, block_sizes, LiveOf(blocks))
  BY DEF Order
<1>4. Others(blocks, i) = LiveOf(blocks)
  BY <1>1 DEF Others
<1>5. InUse(heap, C) = AlsoKept(blocks, i)
  BY <1>3, <1>4 DEF ClientHas, AlsoKept
<1>6. PICK g, bt, tz : Filled(k, blocks, block_sizes, i, k.ret, size, g, bt, tz)
  BY DEF Filled
<1>7. ranges = RangesOf(blocks, block_sizes, Others(blocks, i))
  BY <1>3, <1>4
<1>8. Answered(heap, C, blocks, block_sizes, ranges, i, size, k, g, bt, tz)
  BY <1>2, <1>5, <1>6 DEF Answered
<1>9. /\ RangeVerdict(ranges, k, k.ret, size) = "ok"
      /\ \E D : Order(g, D, bt, tz, add_range(ranges, k.ret, size), "ok")
      /\ g.ret = k.ret /\ g.mem_brk = k.mem_brk /\ After(g, g.ret) = After(k, k.ret)
      /\ g.free_listp = k.free_listp
      /\ \A j \in Others(blocks, i) : After(g, blocks[j]) = After(heap, blocks[j])
      /\ k.ret \in Nat /\ k.ret # NULL
  BY <1>7, <1>8, ServedIsOrder
<1>10. Remember(i, k, k.ret, size, ranges)
  BY <1>1, <1>9
<1>11. /\ verdict' = "ok" /\ heap' = g /\ blocks' = bt /\ block_sizes' = tz
       /\ ranges' = add_range(ranges, k.ret, size)
       /\ heap' = memset(k, k.ret, i, size)
  BY <1>6, <1>10 DEF Remember, Filled
<1>12. bt = [blocks EXCEPT ![i] = g.ret]
  BY <1>6, <1>9 DEF Filled
<1>13. Given(heap, blocks, i, k, heap', blocks')
  BY <1>9, <1>11, <1>12 DEF Given
<1> QED
  BY <1>9, <1>11, <1>13

(* Without an answer the trace ends. *)
LEMMA AllocIsRefused ==
    ASSUME NEW C, Order(heap, C, blocks, block_sizes, ranges, verdict),
           NEW i \in Ids, NEW size \in Sizes, Alloc(i, size),
           NEW k, k = mm_malloc(heap, size), Returning(heap, k, NULL),
           Exhausted(heap, Adjusted(size))
    PROVE  /\ Order(heap', C, blocks', block_sizes', ranges', verdict')
           /\ verdict' # "ok" /\ heap' = k /\ blocks' = blocks
           /\ k.mem_brk = heap.mem_brk /\ k.free_listp = heap.free_listp
           /\ \A j \in LiveOf(blocks) : After(k, blocks[j]) = After(heap, blocks[j])
<1> DEFINE said == IF k.ret = NULL THEN "mm_malloc failed"
                   ELSE RangeVerdict(ranges, k, k.ret, size)
<1>1. /\ verdict = "ok"
      /\ \/ said = "ok" /\ Remember(i, k, k.ret, size, ranges)
         \/ said # "ok" /\ malloc_error(said, k, ranges)
  BY Zenon DEF Alloc
<1>2. Order(heap, C, blocks, block_sizes, ranges, "ok") /\ heap \in Heaps
  BY <1>1 DEF Order, ClientHas, Sound, Tiling, Bounds
<1>3. NULL \in Int
  BY DEF NULL
<1>4. k.ret = NULL
  BY <1>2, <1>3, Returns
<1>5. malloc_error("mm_malloc failed", k, ranges)
  BY <1>1, <1>4
<1>6. /\ Order(k, C, blocks, block_sizes, ranges, "mm_malloc failed")
      /\ k.mem_brk = heap.mem_brk /\ k.free_listp = heap.free_listp
      /\ \A j \in LiveOf(blocks) : After(k, blocks[j]) = After(heap, blocks[j])
  <2>1. PICK why : why = "mm_malloc failed"
    OBVIOUS
  <2>2. Refusing(heap, k, size, why)
    BY <2>1 DEF Refusing
  <2>3. /\ Order(k, C, blocks, block_sizes, ranges, why)
        /\ k.mem_brk = heap.mem_brk /\ k.free_listp = heap.free_listp
        /\ \A j \in LiveOf(blocks) : After(k, blocks[j]) = After(heap, blocks[j])
    BY <1>2, <2>2, OrderIsNotReturned
  <2> QED
    BY <2>1, <2>3
<1> QED
  BY <1>5, <1>6 DEF malloc_error

(* What was carried along is what the driver looks for. *)
LEMMA CarriedIsPreserved ==
    ASSUME NEW h, NEW C, NEW at, NEW sz, NEW rs, Order(h, C, at, sz, rs, "ok"),
           NEW i \in LiveOf(at), NEW size \in Sizes,
           NEW k, NEW S, NEW n, Serves(h, S, k, n), NEW ptr, ptr = at[i],
           Carried(h, k, ptr, size)
    PROVE  Preserved(k, k.ret, i, Min({size, sz[i]}))
<1>1. /\ ClientHas(h, C, at, sz, LiveOf(at), {}) /\ Tiling(h, C)
      /\ ptr \in C \ {h.mem_brk} /\ sz[i] \in Sizes
      /\ ptr + sz[i] + 8 <= After(h, ptr)
      /\ Preserved(h, ptr, i, sz[i])
  BY DEF Order, ClientHas, Sound, InUse
<1>2. /\ ptr \in Nat /\ ptr % 8 = 0 /\ After(h, ptr) \in Nat
      /\ heap_listp <= ptr /\ heap_listp = mem_start_brk + 8
      /\ After(h, ptr) <= h.mem_brk /\ h.mem_brk <= mem_max_addr /\ h.mem_brk \in Nat
  BY <1>1, BlockFacts
<1>3. size \in Nat /\ sz[i] \in Nat
  BY <1>1, SizesAreWords
<1>4. PICK p, D : p = k.ret /\ p \in D /\ Tiling(k, D)
  BY DEF Serves, Sound, InUse
<1>5. p \in Nat /\ p % 8 = 0
  BY <1>4, BlockFacts
<1> DEFINE m == Min({size, sz[i]})
<1>6. m \in Int /\ m <= size /\ m <= sz[i]
  <2> DEFINE e == IF size <= sz[i] THEN size ELSE sz[i]
  <2>1. \A x \in {size, sz[i]} : (\A y \in {size, sz[i]} : x <= y) <=> x = e
    BY <1>3
  <2>2. e \in {size, sz[i]} /\ e \in Int /\ e <= size /\ e <= sz[i]
    BY <1>3
  <2> HIDE DEF e
  <2>3. m = e
    BY <2>1, <2>2 DEF Min
  <2> QED
    BY <2>2, <2>3
<1> HIDE DEF m
<1> SUFFICES ASSUME NEW a \in Storage \cap (p .. p + m - 1)
             PROVE  GET(k, a) = Filler(i)
  BY <1>4 DEF Preserved, m
<1>7. PICK d \in Int : d = a - p /\ 0 <= d /\ d <= m - 1 /\ a = p + d /\ a \in Int
  BY <1>5, <1>6
<1>8. a % 4 = 0
  BY <1>7, StorageIsTheArea
<1>9. (ptr + d) % 4 = 0
  <2>1. a = p + d /\ p \in Nat /\ ptr \in Nat
    BY <1>2, <1>5, <1>7
  <2> QED
    BY <1>2, <1>5, <1>7, <1>8, <2>1
<1>10. ptr + d \in Storage /\ ptr + d \in ptr .. ptr + sz[i] - 1
  <2>1. /\ ptr + d \in Int /\ ptr + d <= ptr + sz[i] - 1
        /\ ptr + d < mem_max_addr /\ mem_start_brk <= ptr + d
    BY <1>1, <1>2, <1>3, <1>6, <1>7, AreaAssumption DEF mem_max_addr
  <2> QED
    BY <1>2, <1>3, <1>7, <1>9, <2>1, StorageIsTheArea
<1>11. GET(h, ptr + d) = Filler(i)
  BY <1>1, <1>10 DEF Preserved
<1>12. d \in 0 .. size - 1 /\ ptr + d <= After(h, ptr) - 9
  BY <1>1, <1>2, <1>3, <1>6, <1>7
<1>13. k.ret + d \in Storage
  BY <1>4, <1>7
<1>14. GET(k, k.ret + d) = GET(h, ptr + d)
  BY <1>12, <1>13 DEF Carried
<1> QED
  BY <1>4, <1>7, <1>11, <1>14

(* An answer to a request for another size leaves the heap in order. *)
LEMMA ReallocIsServed ==
    ASSUME NEW C, Order(heap, C, blocks, block_sizes, ranges, verdict),
           NEW i \in Ids, NEW size \in Sizes, NEW order, Realloc(i, size, order),
           NEW ptr, ptr = blocks[i], NEW k, k = mm_realloc(heap, ptr, size, order),
           Serves(heap, InUse(heap, C) \ {ptr}, k, Adjusted(size)), Carried(heap, k, ptr, size)
    PROVE  /\ \E D : Order(heap', D, blocks', block_sizes', ranges', verdict')
           /\ verdict' = "ok" /\ heap' = memset(k, k.ret, i, size)
           /\ Given(heap, blocks, i, k, heap', blocks')
<1> DEFINE rs == remove_range(ranges, ptr)
           said == ReallocVerdict(i, k, size, rs)
<1>1. /\ verdict = "ok" /\ i \in LiveOf(blocks)
      /\ \/ said = "ok" /\ Remember(i, k, k.ret, size, rs)
         \/ said # "ok" /\ malloc_error(said, k, IF k.ret \in {NULL, Exited} THEN ranges ELSE rs)
  BY Zenon DEF Realloc, Live, LiveOf
<1>2. Order(heap, C, blocks, block_sizes, ranges, "ok")
  BY <1>1
<1>3. /\ ClientHas(heap, C, blocks, block_sizes, LiveOf(blocks), {})
      /\ ranges = RangesOf(blocks, block_sizes, LiveOf(blocks))
  BY DEF Order
<1>4. rs = RangesOf(blocks, block_sizes, Others(blocks, i))
  BY <1>1, <1>3, RangeIsRemoved DEF Others
<1>5. InUse(heap, C) \ {ptr} = AlsoKept(blocks, i)
  BY <1>1, <1>3, KeptIsRest
<1> HIDE DEF rs
<1>6. PICK g, bt, tz : Filled(k, blocks, block_sizes, i, k.ret, size, g, bt, tz)
  BY DEF Filled
<1>7. Answered(heap, C, blocks, block_sizes, ranges, i, size, k, g, bt, tz)
  BY <1>2, <1>5, <1>6 DEF Answered
<1>8. /\ RangeVerdict(rs, k, k.ret, size) = "ok"
      /\ \E D : Order(g, D, bt, tz, add_range(rs, k.ret, size), "ok")
      /\ g.ret = k.ret /\ g.mem_brk = k.mem_brk /\ After(g, g.ret) = After(k, k.ret)
      /\ g.free_listp = k.free_listp
      /\ \A j \in Others(blocks, i) : After(g, blocks[j]) = After(heap, blocks[j])
      /\ k.ret \in Nat /\ k.ret # NULL
  BY <1>4, <1>7, ServedIsOrder
<1>9. Preserved(k, k.ret, i, Min({size, block_sizes[i]}))
  BY <1>1, <1>2, CarriedIsPreserved
<1>10. said = "ok"
  <2>1. k.ret # Exited
    BY <1>8 DEF Exited
  <2> QED
    BY <1>8, <1>9, <2>1 DEF ReallocVerdict
<1>11. Remember(i, k, k.ret, size, rs)
  BY <1>1, <1>10
<1>12. /\ verdict' = "ok" /\ heap' = g /\ blocks' = bt /\ block_sizes' = tz
       /\ ranges' = add_range(rs, k.ret, size)
       /\ heap' = memset(k, k.ret, i, size)
  BY <1>6, <1>11 DEF Remember, Filled
<1>13. bt = [blocks EXCEPT ![i] = g.ret]
  BY <1>6, <1>8 DEF Filled
<1>14. Given(heap, blocks, i, k, heap', blocks')
  BY <1>8, <1>12, <1>13 DEF Given
<1> QED
  BY <1>8, <1>12, <1>14

(* Without an answer the trace ends, or the process. *)
LEMMA ReallocIsRefused ==
    ASSUME NEW C, Order(heap, C, blocks, block_sizes, ranges, verdict),
           NEW i \in Ids, NEW size \in Sizes, NEW order, Realloc(i, size, order),
           NEW k, k = mm_realloc(heap, blocks[i], size, order),
           NEW r \in {NULL, Exited}, Returning(heap, k, r),
           Exhausted(heap, Adjusted(size))
    PROVE  /\ Order(heap', C, blocks', block_sizes', ranges', verdict')
           /\ verdict' # "ok" /\ heap' = k /\ blocks' = blocks
           /\ k.mem_brk = heap.mem_brk /\ k.free_listp = heap.free_listp
           /\ \A j \in LiveOf(blocks) : After(k, blocks[j]) = After(heap, blocks[j])
<1> DEFINE rs == remove_range(ranges, blocks[i])
           said == ReallocVerdict(i, k, size, rs)
<1>1. /\ verdict = "ok"
      /\ \/ said = "ok" /\ Remember(i, k, k.ret, size, rs)
         \/ said # "ok" /\ malloc_error(said, k, IF k.ret \in {NULL, Exited} THEN ranges ELSE rs)
  BY Zenon DEF Realloc
<1>2. Order(heap, C, blocks, block_sizes, ranges, "ok") /\ heap \in Heaps
  BY <1>1 DEF Order, ClientHas, Sound, Tiling, Bounds
<1>3. NULL \in Int /\ Exited \in Int /\ Exited # NULL /\ r \in Int
  BY DEF Exited, NULL
<1>4. k.ret = r
  BY <1>2, <1>3, Returns
<1>5. PICK why : /\ why \in {"mm_realloc failed", "exited"} /\ why = said
  BY <1>3, <1>4 DEF ReallocVerdict
<1> HIDE DEF said
<1>6. malloc_error(why, k, ranges)
  BY <1>1, <1>4, <1>5
<1>7. /\ Order(k, C, blocks, block_sizes, ranges, why)
      /\ k.mem_brk = heap.mem_brk /\ k.free_listp = heap.free_listp
      /\ \A j \in LiveOf(blocks) : After(k, blocks[j]) = After(heap, blocks[j])
  <2>1. Refusing(heap, k, size, why)
    BY <1>5 DEF Refusing
  <2> QED
    BY <1>2, <2>1, OrderIsNotReturned
<1> QED
  BY <1>5, <1>6, <1>7 DEF malloc_error

(* A block that is given back leaves the heap in order; the others end     *)
(* where they did.                                                         *)
LEMMA FreeIsServed ==
    ASSUME NEW C, Order(heap, C, blocks, block_sizes, ranges, verdict),
           NEW i \in Ids, Free(i), NEW k, k = mm_free(heap, blocks[i]),
           NEW E, Sound(k, E), InUse(k, E) = InUse(heap, C) \ {blocks[i]},
           k.mem_brk = heap.mem_brk, Keeps(heap, k, InUse(heap, C) \ {blocks[i]})
    PROVE  /\ \E D : Order(heap', D, blocks', block_sizes', ranges', verdict')
           /\ verdict' = "ok" /\ heap' = k /\ heap'.mem_brk = heap.mem_brk
           /\ blocks' = [blocks EXCEPT ![i] = NULL]
           /\ \A j \in Others(blocks, i) : After(heap', blocks[j]) = After(heap, blocks[j])
<1> DEFINE ptr == blocks[i]
<1>1. /\ verdict = "ok" /\ verdict' = "ok" /\ i \in LiveOf(blocks)
      /\ ranges' = remove_range(ranges, ptr) /\ heap' = k
      /\ blocks' = [blocks EXCEPT ![i] = NULL] /\ block_sizes' = block_sizes
  BY DEF Free, Live, LiveOf
<1>2. /\ ClientHas(heap, C, blocks, block_sizes, LiveOf(blocks), {})
      /\ ranges = RangesOf(blocks, block_sizes, LiveOf(blocks))
  BY DEF Order
<1>3. ranges' = RangesOf(blocks, block_sizes, Others(blocks, i))
  BY <1>1, <1>2, RangeIsRemoved DEF Others
<1>4. InUse(heap, C) \ {ptr} = AlsoKept(blocks, i)
  BY <1>1, <1>2, KeptIsRest
<1>7. PICK K, S : K = Others(blocks, i) /\ S = {heap_listp} \cup {blocks[j] : j \in K}
  OBVIOUS
<1>8. S = AlsoKept(blocks, i) /\ K \subseteq LiveOf(blocks)
  BY <1>7 DEF AlsoKept, Others
<1>9. ClientHas(k, E, blocks, block_sizes, K, {})
  <2>1. InUse(k, E) = S \cup {} /\ {} \cap S = {} /\ Keeps(heap, k, S)
    BY <1>4, <1>8
  <2> QED
    BY <1>2, <1>7, <1>8, <2>1, ClientKeeps
<1>10. blocks \in [Ids -> Nat]
  BY <1>2 DEF ClientHas
<1>11. LiveOf(blocks') = K /\ \A j \in K : blocks'[j] = blocks[j]
  BY <1>1, <1>7, <1>10 DEF LiveOf, Others
<1>12. blocks' \in [Ids -> Nat]
  BY <1>1, <1>10 DEF NULL
<1>13. ClientHas(k, E, blocks', block_sizes, K, {})
  <2>1. {blocks'[j] : j \in K} = {blocks[j] : j \in K}
    BY <1>11
  <2> QED
    BY <1>9, <1>11, <1>12, <2>1 DEF ClientHas
<1>14. ranges' = RangesOf(blocks', block_sizes, K)
  BY <1>3, <1>7, <1>11 DEF RangesOf
<1>15. Order(heap', E, blocks', block_sizes', ranges', verdict')
  BY <1>1, <1>11, <1>13, <1>14 DEF Order
<1>16. \A j \in Others(blocks, i) : After(k, blocks[j]) = After(heap, blocks[j])
  BY <1>4 DEF Keeps, AlsoKept
<1> QED
  BY <1>1, <1>15, <1>16

(* A trace starts with a heap in order. *)
LEMMA StartIsOrder ==
    ASSUME NEW g, NEW C, Sound(g, C), InUse(g, C) = {heap_listp}
    PROVE  Order(g, C, [i \in Ids |-> NULL], [i \in Ids |-> 0], {}, "ok")
<1> DEFINE at == [i \in Ids |-> NULL]
           sz == [i \in Ids |-> 0]
<1>3. LiveOf(at) = {} /\ at \in [Ids -> Nat] /\ sz \in [Ids -> Sizes \cup {0}]
  BY DEF LiveOf, NULL
<1>4. ClientHas(g, C, at, sz, {}, {})
  <2>1. {at[j] : j \in {}} = {}
    OBVIOUS
  <2> HIDE DEF at, sz
  <2> QED
    BY <1>3, <2>1 DEF ClientHas
<1>5. RangesOf(at, sz, {}) = {}
  BY DEF RangesOf
<1> QED
  BY <1>3, <1>4, <1>5 DEF Order

(* What the memory is before anything ran. *)
LEMMA MemoryStarts == mem_init \in Heaps /\ mem_init.free_listp = NULL
<1>1. 0 \in Words /\ mem_start_brk \in Nat /\ NULL \in Words /\ NULL \in Int
  BY AreaAssumption DEF Words, NULL
<1> QED
  BY <1>1 DEF mem_init, Heaps

(* What the walk of mm_checkheap goes over. *)
LEMMA WalkedIsTiling ==
    ASSUME NEW C, Tiling(heap, C)
    PROVE  /\ Walked = C /\ Epilogue = heap.mem_brk /\ Blocks = C \ {heap.mem_brk}
           /\ FreeBlocks = {b \in C \ {heap.mem_brk} : Used(heap, b) = 0}
           /\ Blocks \ FreeBlocks = InUse(heap, C)
<1>1. Walked = C /\ Epilogue = heap.mem_brk
  BY WalkIsTiles DEF Walked, Epilogue
<1>2. Blocks = C \ {heap.mem_brk}
  BY <1>1 DEF Blocks
<1>3. \A b \in C : GET_ALLOC(heap, HDRP(b)) = Used(heap, b)
  BY TagsTell
<1>4. FreeBlocks = {b \in C \ {heap.mem_brk} : Used(heap, b) = 0}
  BY <1>2, <1>3 DEF FreeBlocks
<1>5. \A b \in C \ {heap.mem_brk} : Used(heap, b) \in {0, 1}
  BY BlockFacts
<1> QED
  BY <1>1, <1>2, <1>4, <1>5 DEF InUse

-----------------------------------------------------------------------------
(* The arena.                                                              *)

(* What the arena calls extents, those that are held, and the free blocks.  *)
ExtentsOf(h, at) ==
    [i \in Ids |-> IF at[i] = NULL THEN [lo |-> 0, hi |-> 0]
                   ELSE [lo |-> at[i], hi |-> at[i] + GET_SIZE(h, HDRP(at[i]))]]
HeldOf(h, at) == {[lo |-> at[j], hi |-> After(h, at[j])] : j \in LiveOf(at)}
FreeOf(h, C) ==
    {[lo |-> b, hi |-> After(h, b)] : b \in {c \in C \ {h.mem_brk} : Used(h, c) = 0}}

(* What the client holds starts after the prologue; what it starts with    *)
(* and ends with are blocks.                                               *)
LEMMA HeldAreBlocks ==
    ASSUME NEW h, NEW C, NEW at, NEW sz, ClientHas(h, C, at, sz, LiveOf(at), {})
    PROVE  /\ Tiling(h, C) /\ Coalesced(h, C)
           /\ {e.lo : e \in HeldOf(h, at)} = InUse(h, C) \ {heap_listp}
           /\ {e.hi : e \in HeldOf(h, at)} = {After(h, b) : b \in InUse(h, C) \ {heap_listp}}
           /\ After(h, heap_listp) = mem_start_brk + 2 * DSIZE
           /\ \A e \in HeldOf(h, at) : e.lo \in InUse(h, C) /\ e.hi = After(h, e.lo)
           /\ \A j \in LiveOf(at) : at[j] \in InUse(h, C) \ {heap_listp}
<1>1. /\ InUse(h, C) = {heap_listp} \cup {at[j] : j \in LiveOf(at)}
      /\ \A j \in LiveOf(at) : at[j] # heap_listp
  BY DEF ClientHas
<1>2. InUse(h, C) \ {heap_listp} = {at[j] : j \in LiveOf(at)}
  BY <1>1
<1>0. /\ \A e \in HeldOf(h, at) : \E j \in LiveOf(at) : e.lo = at[j] /\ e.hi = After(h, at[j])
      /\ \A j \in LiveOf(at) :
            \E e \in HeldOf(h, at) : e.lo = at[j] /\ e.hi = After(h, at[j])
  <2>1. ASSUME NEW e \in HeldOf(h, at)
        PROVE  \E j \in LiveOf(at) : e.lo = at[j] /\ e.hi = After(h, at[j])
    BY DEF HeldOf
  <2>2. ASSUME NEW j \in LiveOf(at)
        PROVE  \E e \in HeldOf(h, at) : e.lo = at[j] /\ e.hi = After(h, at[j])
    <3>1. PICK e : e = [lo |-> at[j], hi |-> After(h, at[j])]
      OBVIOUS
    <3>2. e \in HeldOf(h, at)
      BY <3>1 DEF HeldOf
    <3> QED
      BY <3>1, <3>2
  <2> QED
    BY <2>1, <2>2
<1>3. {e.lo : e \in HeldOf(h, at)} = {at[j] : j \in LiveOf(at)}
  BY <1>0
<1>4. {e.hi : e \in HeldOf(h, at)} = {After(h, at[j]) : j \in LiveOf(at)}
  BY <1>0
<1>5. {After(h, b) : b \in InUse(h, C) \ {heap_listp}} = {After(h, at[j]) : j \in LiveOf(at)}
  BY <1>2
<1>6. Tiling(h, C) /\ Coalesced(h, C)
  BY DEF ClientHas, Sound
<1>7. After(h, heap_listp) = mem_start_brk + 2 * DSIZE
  <2>1. heap_listp \in C
    BY <1>6 DEF Tiling, Bounds
  <2>2. Size(h, heap_listp) = 8 /\ heap_listp = mem_start_brk + 8
    BY <1>6, <2>1, BlockFacts
  <2> QED
    BY <2>2, AreaAssumption DEF After, DSIZE
<1>8. \A e \in HeldOf(h, at) : e.lo \in InUse(h, C) /\ e.hi = After(h, e.lo)
  BY <1>1 DEF HeldOf
<1> QED
  BY <1>1, <1>2, <1>3, <1>4, <1>5, <1>6, <1>7, <1>8

(* The free blocks are the gaps between the client's extents: no room is   *)
(* lost to tags, and no two gaps touch.                                    *)
LEMMA GapsAreFree ==
    ASSUME NEW h, NEW C, NEW at, NEW sz, ClientHas(h, C, at, sz, LiveOf(at), {}),
           NEW t, t = h.mem_brk
    PROVE  Promise!Gaps(HeldOf(h, at), t) = FreeOf(h, C)
<1> DEFINE hs == HeldOf(h, at)
           los == {After(h, b) : b \in InUse(h, C)}
           his == {h.mem_brk} \cup (InUse(h, C) \ {heap_listp})
<1>1. /\ Tiling(h, C) /\ Coalesced(h, C)
      /\ {e.lo : e \in hs} = InUse(h, C) \ {heap_listp}
      /\ {e.hi : e \in hs} = {After(h, b) : b \in InUse(h, C) \ {heap_listp}}
      /\ After(h, heap_listp) = mem_start_brk + 2 * DSIZE
      /\ \A e \in hs : e.lo \in InUse(h, C) /\ e.hi = After(h, e.lo)
  BY HeldAreBlocks
<1>2. heap_listp \in InUse(h, C) /\ heap_listp \in C /\ h.mem_brk \in C
  BY DEF ClientHas, Sound, Tiling, Bounds
<1>3. {mem_start_brk + 2 * DSIZE} \cup {e.hi : e \in hs} = los
  BY <1>1, <1>2
<1>4. {t} \cup {e.lo : e \in hs} = his
  BY <1>1
<1>5. Promise!Gaps(hs, t) =
        {g \in [lo : los, hi : his] :
            g.lo < g.hi /\ \A e \in hs : e.hi <= g.lo \/ g.hi <= e.lo}
  <2> HIDE DEF hs, los, his
  <2> QED
    BY <1>3, <1>4, Zenon DEF Promise!Gaps
<1>6. \A b \in InUse(h, C) \ {heap_listp} : \E e \in hs : e.lo = b /\ e.hi = After(h, b)
  BY <1>1
<1> HIDE DEF hs
<1>7. ASSUME NEW g \in Promise!Gaps(hs, t)
      PROVE  g \in FreeOf(h, C)
  <2>1. /\ g \in [lo : los, hi : his] /\ g.lo < g.hi
        /\ \A e \in hs : e.hi <= g.lo \/ g.hi <= e.lo
    BY <1>5
  <2>2. PICK b, x : b = g.lo /\ x = g.hi /\ g = [lo |-> b, hi |-> x] /\ b \in los /\ x \in his
    BY <2>1
  <2>3. PICK c \in InUse(h, C) : b = After(h, c)
    BY <2>2
  <2>4. /\ b \in C /\ b \in Nat /\ x \in C /\ x \in Nat /\ x <= h.mem_brk /\ h.mem_brk \in Nat
        /\ heap_listp < b
    <3>1. c \in C \ {h.mem_brk} /\ x \in C
      BY <1>2, <2>2, <2>3 DEF InUse
    <3>2. b \in C /\ c < b /\ heap_listp <= c /\ c \in Nat /\ heap_listp \in Nat
      BY <1>1, <2>3, <3>1, BlockFacts
    <3>3. x \in Nat /\ x <= h.mem_brk /\ h.mem_brk \in Nat
      BY <1>1, <3>1, BlockFacts
    <3>4. b \in Nat
      BY <1>1, <3>2, BlockFacts
    <3> QED
      BY <3>1, <3>2, <3>3, <3>4
  <2>5. b < x
    BY <2>1, <2>2
  <2>6. /\ b # h.mem_brk /\ After(h, b) \in C /\ After(h, b) \in Nat /\ b < After(h, b)
        /\ After(h, b) <= x /\ Used(h, b) \in {0, 1}
    BY <1>1, <2>4, <2>5, BlockFacts
  <2>7. Used(h, b) = 0
    <3> SUFFICES ASSUME Used(h, b) = 1
                 PROVE  FALSE
      BY <2>6
    <3>1. b \in InUse(h, C) \ {heap_listp}
      BY <2>4, <2>6 DEF InUse
    <3>2. PICK e \in hs : e.lo = b /\ e.hi = After(h, b)
      BY <1>6, <3>1
    <3>3. After(h, b) <= b \/ x <= b
      BY <2>1, <2>2, <3>2
    <3> QED
      BY <2>4, <2>5, <2>6, <3>3
  <2>8. x <= After(h, b)
    <3> SUFFICES ASSUME After(h, b) < x
                 PROVE  FALSE
      BY <2>4, <2>6
    <3>1. After(h, b) # h.mem_brk /\ heap_listp # After(h, b)
      BY <1>2, <2>4, <2>6, BlockFacts, <1>1
    <3>2. Used(h, After(h, b)) = 1
      BY <1>1, <2>4, <2>6, <2>7 DEF Coalesced
    <3>3. After(h, b) \in InUse(h, C) \ {heap_listp}
      BY <2>6, <3>1, <3>2 DEF InUse
    <3>4. PICK e \in hs : e.lo = After(h, b) /\ e.hi = After(h, After(h, b))
      BY <1>6, <3>3
    <3>5. After(h, After(h, b)) <= b \/ x <= After(h, b)
      BY <2>1, <2>2, <3>4
    <3>6. After(h, b) < After(h, After(h, b)) /\ After(h, After(h, b)) \in Nat
      BY <1>1, <2>6, <3>1, BlockFacts
    <3> QED
      BY <2>4, <2>6, <3>5, <3>6
  <2>9. x = After(h, b)
    BY <2>4, <2>6, <2>8
  <2> QED
    BY <2>2, <2>4, <2>6, <2>7, <2>9 DEF FreeOf
<1>8. ASSUME NEW g \in FreeOf(h, C)
      PROVE  g \in Promise!Gaps(hs, t)
  <2>1. PICK b \in C \ {h.mem_brk} : Used(h, b) = 0 /\ g = [lo |-> b, hi |-> After(h, b)]
    BY <1>8 DEF FreeOf
  <2>2. /\ b \in Nat /\ After(h, b) \in Nat /\ b < After(h, b) /\ After(h, b) \in C
        /\ After(h, b) <= h.mem_brk /\ b # heap_listp /\ heap_listp <= b /\ heap_listp \in Nat
        /\ \A c \in C : b < c => After(h, b) <= c
        /\ \A c \in C \ {h.mem_brk} : c < b => After(h, c) <= b
    BY <1>1, <2>1, BlockFacts
  <2>3. PICK c \in InUse(h, C) : After(h, c) = b
    <3>1. Sound(h, C)
      BY DEF ClientHas
    <3> QED
      BY <2>1, <3>1, InUseBefore
  <2>4. b \in los
    BY <2>3
  <2>5. After(h, b) \in his
    <3>1. Used(h, After(h, b)) = 1
      BY <1>1, <2>1 DEF Coalesced
    <3>2. After(h, b) # heap_listp
      BY <2>2
    <3> QED
      BY <2>2, <3>1, <3>2 DEF InUse
  <2>6. ASSUME NEW e \in hs
        PROVE  e.hi <= b \/ After(h, b) <= e.lo
    <3>1. e.lo \in C \ {h.mem_brk} /\ e.lo # b /\ e.hi = After(h, e.lo)
      BY <1>1, <2>1 DEF InUse
    <3>2. e.lo \in Nat
      BY <1>1, <3>1, BlockFacts
    <3> QED
      BY <2>2, <3>1, <3>2
  <2> HIDE DEF los, his
  <2>7. g.lo = b /\ g.hi = After(h, b) /\ g \in [lo : los, hi : his]
    BY <2>1, <2>4, <2>5
  <2> QED
    BY <1>5, <2>2, <2>6, <2>7
<1> QED
  BY <1>7, <1>8 DEF hs

(* The gap at the end of a heap that has grown. *)
LEMMA LastGap ==
    ASSUME NEW h, NEW C, NEW at, NEW sz, ClientHas(h, C, at, sz, LiveOf(at), {}),
           NEW t \in Nat, h.mem_brk < t, NEW p,
           \E c \in InUse(h, C) : After(h, c) = p, \A c \in InUse(h, C) : After(h, c) <= p
    PROVE  [lo |-> p, hi |-> t] \in Promise!Gaps(HeldOf(h, at), t)
<1> DEFINE hs == HeldOf(h, at)
           los == {mem_start_brk + 2 * DSIZE} \cup {e.hi : e \in hs}
           his == {t} \cup {e.lo : e \in hs}
<1>1. /\ Tiling(h, C)
      /\ {e.hi : e \in hs} = {After(h, b) : b \in InUse(h, C) \ {heap_listp}}
      /\ After(h, heap_listp) = mem_start_brk + 2 * DSIZE
      /\ \A e \in hs : e.lo \in InUse(h, C) /\ e.hi = After(h, e.lo)
  BY HeldAreBlocks
<1>2. p \in los
  BY <1>1
<1>3. p < t
  <2>1. PICK c \in InUse(h, C) : After(h, c) = p
    OBVIOUS
  <2>2. c \in C \ {h.mem_brk}
    BY DEF InUse
  <2>3. p \in Nat /\ p <= h.mem_brk /\ h.mem_brk \in Nat
    BY <1>1, <2>1, <2>2, BlockFacts
  <2> QED
    BY <2>3
<1>4. \A e \in hs : e.hi <= p
  BY <1>1
<1> HIDE DEF hs, los, his
<1>5. PICK g : g = [lo |-> p, hi |-> t]
  OBVIOUS
<1>6. g \in [lo : los, hi : his]
  BY <1>2, <1>5 DEF his
<1>7. g.lo < g.hi /\ \A e \in hs : e.hi <= g.lo \/ g.hi <= e.lo
  <2>1. g.lo = p /\ g.hi = t
    BY <1>5
  <2> QED
    BY <1>3, <1>4, <2>1
<1>8. g \in Promise!Gaps(hs, t)
  BY <1>6, <1>7, Zenon DEF Promise!Gaps, los, his
<1> QED
  BY <1>5, <1>8 DEF hs

(* An extent ends where the block does. *)
LEMMA ExtentsEnd ==
    ASSUME NEW h, NEW C, NEW at, NEW sz, ClientHas(h, C, at, sz, LiveOf(at), {})
    PROVE  /\ \A i \in LiveOf(at) :
                 /\ ExtentsOf(h, at)[i] = [lo |-> at[i], hi |-> After(h, at[i])]
                 /\ ExtentsOf(h, at)[i] # [lo |-> 0, hi |-> 0]
           /\ \A i \in Ids \ LiveOf(at) : ExtentsOf(h, at)[i] = [lo |-> 0, hi |-> 0]
<1>1. ASSUME NEW i \in LiveOf(at)
      PROVE  /\ ExtentsOf(h, at)[i] = [lo |-> at[i], hi |-> After(h, at[i])]
             /\ ExtentsOf(h, at)[i] # [lo |-> 0, hi |-> 0]
  <2>1. i \in Ids /\ at[i] # NULL /\ Tiling(h, C) /\ at[i] \in C
    BY HeldAreBlocks DEF LiveOf, InUse
  <2>2. at[i] + GET_SIZE(h, HDRP(at[i])) = After(h, at[i])
    BY <2>1, TagsTell DEF After
  <2>3. ExtentsOf(h, at)[i] = [lo |-> at[i], hi |-> After(h, at[i])]
    BY <2>1, <2>2 DEF ExtentsOf
  <2>4. at[i] # 0
    BY <2>1 DEF NULL
  <2> QED
    BY <2>3, <2>4
<1> QED
  BY <1>1 DEF ExtentsOf, LiveOf

(* What the arena sees of the driver's state. *)
LEMMA ArenaSees ==
    ASSUME NEW C, ClientHas(heap, C, blocks, block_sizes, LiveOf(blocks), {})
    PROVE  /\ [i \in Ids |-> Extent(i)] = ExtentsOf(heap, blocks)
           /\ Promise!Held = HeldOf(heap, blocks)
           /\ Promise!Gaps(Promise!Held, heap.mem_brk) = FreeOf(heap, C)
<1> DEFINE E == [i \in Ids |-> Extent(i)]
<1>1. E = ExtentsOf(heap, blocks)
  BY DEF Extent, ExtentsOf
<1>2. Promise!Holders = {i \in Ids : E[i] # [lo |-> 0, hi |-> 0]}
  BY DEF Promise!Holders, Promise!None
<1>3. Promise!Held = {E[i] : i \in Promise!Holders}
  BY DEF Promise!Held
<1> HIDE DEF E
<1>4. Promise!Holders = LiveOf(blocks)
  <2>1. \A i \in LiveOf(blocks) : i \in Ids
    BY DEF LiveOf
  <2>2. /\ \A i \in LiveOf(blocks) : E[i] # [lo |-> 0, hi |-> 0]
        /\ \A i \in Ids \ LiveOf(blocks) : E[i] = [lo |-> 0, hi |-> 0]
    BY <1>1, ExtentsEnd
  <2>3. ASSUME NEW i
        PROVE  i \in Promise!Holders <=> i \in LiveOf(blocks)
    BY <1>2, <2>1, <2>2, Zenon
  <2> QED
    BY <2>3, Zenon
<1>5. \A i \in LiveOf(blocks) : E[i] = [lo |-> blocks[i], hi |-> After(heap, blocks[i])]
  BY <1>1, ExtentsEnd
<1>6. Promise!Held = HeldOf(heap, blocks)
  BY <1>3, <1>4, <1>5 DEF HeldOf
<1> QED
  BY <1>1, <1>6, GapsAreFree DEF E

(* The places of the arena. *)
LEMMA PlacesAre ==
    ASSUME NEW C, ClientHas(heap, C, blocks, block_sizes, LiveOf(blocks), {}),
           NEW n \in Nat \ {0}
    PROVE  LET fitting == {x \in FreeOf(heap, C) : x.hi - x.lo >= n}
               best == {x \in fitting : package = "mm-firstfit" => \A f \in fitting : x.lo <= f.lo}
               grown == heap.mem_brk + GrowsBy(n)
               last == {x \in Promise!Gaps(Promise!Held, grown) : x.hi = grown /\ grown <= mem_max_addr}
               Taken(x) == [lo |-> x.lo, hi |-> TakenTo(x.lo, x.hi, n)]
           IN  Promise!Places(n) =
                 IF fitting # {} THEN {[at |-> Taken(x), top |-> heap.mem_brk] : x \in best}
                 ELSE {[at |-> Taken(x), top |-> grown] : x \in last}
<1>1. \A x : Promise!Length(x) = x.hi - x.lo
  BY DEF Promise!Length
<1>2. \A x : Promise!Taken(x, n) = [lo |-> x.lo, hi |-> TakenTo(x.lo, x.hi, n)]
  BY <1>1, Zenon DEF Promise!Taken, TakenTo
<1>3. Promise!Growth(n) = GrowsBy(n)
  BY DEF Promise!Growth, GrowsBy
<1>4. Promise!Gaps(Promise!Held, heap.mem_brk) = FreeOf(heap, C)
  BY ArenaSees
<1> QED
  BY <1>1, <1>2, <1>3, <1>4, Zenon DEF Promise!Places

(* The block is placed as the package does: mm-firstfit.c takes the lowest *)
(* free block that fits.                                                   *)
Granted(h, C, g, n) ==
    /\ Placement(h, C, g, n)
    /\ package = "mm-firstfit" => \A b \in Fitting(h, C, n) : g.ret <= b

(* A granted request got one of the places the arena has for it. *)
LEMMA GrantedIsPlace ==
    ASSUME NEW C, ClientHas(heap, C, blocks, block_sizes, LiveOf(blocks), {}),
           NEW n \in Nat \ {0}, NEW g, Granted(heap, C, g, n)
    PROVE  [at |-> [lo |-> g.ret, hi |-> After(g, g.ret)], top |-> g.mem_brk]
              \in Promise!Places(n)
<1> DEFINE free == FreeOf(heap, C)
           fitting == {x \in free : x.hi - x.lo >= n}
           best == {x \in fitting : package = "mm-firstfit" => \A f \in fitting : x.lo <= f.lo}
           grown == heap.mem_brk + GrowsBy(n)
           last == {x \in Promise!Gaps(Promise!Held, grown) : x.hi = grown /\ grown <= mem_max_addr}
           Taken(x) == [lo |-> x.lo, hi |-> TakenTo(x.lo, x.hi, n)]
           p == g.ret
<1>1. Promise!Places(n) =
        IF fitting # {} THEN {[at |-> Taken(x), top |-> heap.mem_brk] : x \in best}
        ELSE {[at |-> Taken(x), top |-> grown] : x \in last}
  BY PlacesAre
<1>2. Tiling(heap, C)
  BY DEF ClientHas, Sound
<1>3. \A x \in free : \E b \in C \ {heap.mem_brk} :
         Used(heap, b) = 0 /\ x.lo = b /\ x.hi - x.lo = Size(heap, b)
  <2> SUFFICES ASSUME NEW x \in free
               PROVE  \E b \in C \ {heap.mem_brk} :
                         Used(heap, b) = 0 /\ x.lo = b /\ x.hi - x.lo = Size(heap, b)
    OBVIOUS
  <2>1. PICK b \in C \ {heap.mem_brk} :
          Used(heap, b) = 0 /\ x = [lo |-> b, hi |-> After(heap, b)]
    BY DEF FreeOf
  <2>2. b \in Nat /\ Size(heap, b) \in Nat
    BY <1>2, <2>1, BlockFacts
  <2>3. x.lo = b /\ x.hi = b + Size(heap, b)
    BY <2>1 DEF After
  <2>4. x.hi - x.lo = Size(heap, b)
    BY <2>2, <2>3
  <2> QED
    BY <2>1, <2>3, <2>4
<1>4. \A x \in fitting : x.lo \in Fitting(heap, C, n)
  BY <1>3 DEF Fitting
<1>5. CASE InGap(heap, C, g, n)
  <2>1. /\ p \in Fitting(heap, C, n)
        /\ package = "mm-firstfit" => \A b \in Fitting(heap, C, n) : p <= b
    BY <1>5 DEF InGap, Granted
  <2>2. p \in C \ {heap.mem_brk} /\ Used(heap, p) = 0 /\ n <= Size(heap, p)
    <3>1. p \in C /\ Used(heap, p) = 0 /\ n <= Size(heap, p)
      BY <2>1 DEF Fitting
    <3>2. Used(heap, heap.mem_brk) = 1
      BY <1>2, <3>1, BlockFacts
    <3> QED
      BY <3>1, <3>2
  <2>3. p \in Nat /\ Size(heap, p) \in Nat
    BY <1>2, <2>2, BlockFacts
  <2>4. PICK x : x = [lo |-> p, hi |-> After(heap, p)]
    OBVIOUS
  <2>5. x.lo = p /\ x.hi = After(heap, p) /\ x \in free
    BY <2>2, <2>4 DEF FreeOf
  <2>6. x \in fitting
    <3>1. x.hi - x.lo >= n
      BY <2>2, <2>3, <2>5 DEF After
    <3> QED
      BY <2>5, <3>1
  <2>7. x \in best
    BY <1>4, <2>1, <2>5, <2>6
  <2>8. Taken(x) = [lo |-> g.ret, hi |-> After(g, g.ret)] /\ g.mem_brk = heap.mem_brk
    BY <1>5, <2>5 DEF InGap
  <2> HIDE DEF best, fitting, last, Taken
  <2> QED
    BY <1>1, <2>6, <2>7, <2>8
<1>6. CASE AtEnd(heap, C, g, n)
  <2>1. /\ Fitting(heap, C, n) = {} /\ g.mem_brk = grown /\ grown <= mem_max_addr
        /\ \E c \in InUse(heap, C) : After(heap, c) = p
        /\ \A c \in InUse(heap, C) : After(heap, c) <= p
        /\ After(g, g.ret) = TakenTo(p, grown, n)
    BY <1>6 DEF AtEnd
  <2>2. fitting = {}
    BY <1>4, <2>1
  <2>3. grown \in Nat /\ heap.mem_brk < grown
    <3>1. heap.mem_brk \in Nat
      BY <1>2, BlockFacts DEF Tiling, Bounds
    <3>2. GrowsBy(n) \in Nat /\ GrowsBy(n) > 0
      BY ChunkAssumption DEF GrowsBy
    <3> QED
      BY <3>1, <3>2
  <2>4. PICK x : x = [lo |-> p, hi |-> grown]
    OBVIOUS
  <2> HIDE DEF grown
  <2>5. x.lo = p /\ x.hi = grown /\ x \in Promise!Gaps(Promise!Held, grown)
    <3>1. [lo |-> p, hi |-> grown] \in Promise!Gaps(HeldOf(heap, blocks), grown)
      BY <2>1, <2>3, LastGap
    <3> QED
      BY <2>4, <3>1, ArenaSees
  <2>6. x \in last
    BY <2>1, <2>5
  <2>7. Taken(x) = [lo |-> g.ret, hi |-> After(g, g.ret)]
    BY <2>1, <2>5
  <2> HIDE DEF best, fitting, last, Taken
  <2> QED
    BY <1>1, <2>1, <2>2, <2>6, <2>7
<1> QED
  BY <1>5, <1>6 DEF Granted, Placement

(* The arena has no place either for what is denied. *)
LEMMA DeniedHasNoPlace ==
    ASSUME NEW C, ClientHas(heap, C, blocks, block_sizes, LiveOf(blocks), {}),
           NEW n \in Nat \ {0}, Full(heap, C, n)
    PROVE  Promise!Places(n) = {}
<1> DEFINE free == FreeOf(heap, C)
           fitting == {x \in free : x.hi - x.lo >= n}
           best == {x \in fitting : package = "mm-firstfit" => \A f \in fitting : x.lo <= f.lo}
           grown == heap.mem_brk + GrowsBy(n)
           last == {x \in Promise!Gaps(Promise!Held, grown) : x.hi = grown /\ grown <= mem_max_addr}
           Taken(x) == [lo |-> x.lo, hi |-> TakenTo(x.lo, x.hi, n)]
<1>1. Promise!Places(n) =
        IF fitting # {} THEN {[at |-> Taken(x), top |-> heap.mem_brk] : x \in best}
        ELSE {[at |-> Taken(x), top |-> grown] : x \in last}
  BY PlacesAre
<1>2. Tiling(heap, C)
  BY DEF ClientHas, Sound
<1>3. fitting = {}
  <2> SUFFICES ASSUME NEW x \in fitting
               PROVE  FALSE
    OBVIOUS
  <2>1. PICK b \in C \ {heap.mem_brk} :
          Used(heap, b) = 0 /\ x = [lo |-> b, hi |-> After(heap, b)]
    BY DEF FreeOf
  <2>2. b \in Nat /\ Size(heap, b) \in Nat
    BY <1>2, <2>1, BlockFacts
  <2>3. x.lo = b /\ x.hi = b + Size(heap, b) /\ x.hi - x.lo >= n
    BY <2>1 DEF After
  <2>4. Size(heap, b) >= n
    BY <2>2, <2>3
  <2>5. b \in Fitting(heap, C, n)
    BY <2>1, <2>2, <2>4 DEF Fitting
  <2> QED
    BY <2>5 DEF Full
<1>4. ~(grown <= mem_max_addr)
  <2>1. heap.mem_brk \in Nat
    BY <1>2, BlockFacts DEF Tiling, Bounds
  <2>2. GrowsBy(n) \in Nat /\ mem_max_addr \in Nat
    BY ChunkAssumption, AreaAssumption DEF GrowsBy, mem_max_addr
  <2>3. grown > mem_max_addr
    BY DEF Full, Exhausted
  <2> QED
    BY <2>1, <2>2, <2>3
<1> QED
  BY <1>1, <1>3, <1>4

(* The block of i is at p now, or given back; the others stay. *)
Changes(h, at, g, bt, i, p) ==
    /\ p \in Nat /\ bt = [at EXCEPT ![i] = p]
    /\ \A j \in Others(at, i) : After(g, at[j]) = After(h, at[j])

(* The extent of a block at p. *)
PartFrom(g, p) == IF p = NULL THEN [lo |-> 0, hi |-> 0] ELSE [lo |-> p, hi |-> After(g, p)]

(* A step changes one extent at most. *)
LEMMA OneExtentChanges ==
    ASSUME NEW h, NEW C, NEW at, NEW sz, ClientHas(h, C, at, sz, LiveOf(at), {}),
           NEW g, NEW D, NEW bt, NEW tz, ClientHas(g, D, bt, tz, LiveOf(bt), {}),
           NEW i \in Ids, NEW p, Changes(h, at, g, bt, i, p)
    PROVE  /\ ExtentsOf(g, bt) = [ExtentsOf(h, at) EXCEPT ![i] = PartFrom(g, p)]
           /\ \A j \in Ids : j # i => ExtentsOf(g, bt)[j] = ExtentsOf(h, at)[j]
<1>0. PICK e : e = PartFrom(g, p)
  OBVIOUS
<1>1. /\ at \in [Ids -> Nat] /\ bt[i] = p /\ \A j \in Ids : j # i => bt[j] = at[j]
      /\ \A j \in Others(at, i) : After(g, at[j]) = After(h, at[j])
  BY DEF ClientHas, Changes
<1>2. ExtentsOf(g, bt)[i] = e
  <2>1. CASE p = NULL
    <3>1. i \in Ids \ LiveOf(bt)
      BY <1>1, <2>1 DEF LiveOf
    <3> QED
      BY <1>0, <2>1, <3>1, ExtentsEnd DEF PartFrom
  <2>2. CASE p # NULL
    <3>1. i \in LiveOf(bt)
      BY <1>1, <2>2 DEF LiveOf
    <3>2. ExtentsOf(g, bt)[i] = [lo |-> bt[i], hi |-> After(g, bt[i])]
      BY <3>1, ExtentsEnd
    <3> QED
      BY <1>0, <1>1, <2>2, <3>2 DEF PartFrom
  <2> QED
    BY <2>1, <2>2
<1>3. ASSUME NEW j \in Ids, j # i
      PROVE  ExtentsOf(g, bt)[j] = ExtentsOf(h, at)[j]
  <2>1. CASE at[j] = NULL
    <3>1. j \in Ids \ LiveOf(at) /\ j \in Ids \ LiveOf(bt)
      BY <1>1, <1>3, <2>1 DEF LiveOf
    <3> QED
      BY <3>1, ExtentsEnd
  <2>2. CASE at[j] # NULL
    <3>1. j \in LiveOf(at) /\ j \in LiveOf(bt) /\ j \in Others(at, i) /\ bt[j] = at[j]
      BY <1>1, <1>3, <2>2 DEF LiveOf, Others
    <3>2. ExtentsOf(h, at)[j] = [lo |-> at[j], hi |-> After(h, at[j])]
      BY <3>1, ExtentsEnd
    <3>3. ExtentsOf(g, bt)[j] = [lo |-> bt[j], hi |-> After(g, bt[j])]
      BY <3>1, ExtentsEnd
    <3> QED
      BY <1>1, <3>1, <3>2, <3>3
  <2> QED
    BY <2>1, <2>2
<1>4. DOMAIN ExtentsOf(g, bt) = Ids /\ DOMAIN ExtentsOf(h, at) = Ids
      /\ ExtentsOf(g, bt) = [j \in Ids |-> ExtentsOf(g, bt)[j]]
  BY DEF ExtentsOf
<1>5. PICK f, x : f = ExtentsOf(g, bt) /\ x = ExtentsOf(h, at)
  OBVIOUS
<1>6. f = [x EXCEPT ![i] = e]
  <2>1. [x EXCEPT ![i] = e] = [j \in Ids |-> IF j = i THEN e ELSE x[j]]
    BY <1>4, <1>5
  <2>2. f = [j \in Ids |-> IF j = i THEN e ELSE x[j]]
    <3>1. \A j \in Ids : f[j] = IF j = i THEN e ELSE x[j]
      BY <1>2, <1>3, <1>5
    <3>2. f = [j \in Ids |-> f[j]]
      BY <1>4, <1>5
    <3> QED
      BY <3>1, <3>2
  <2> QED
    BY <2>1, <2>2
<1> QED
  BY <1>0, <1>3, <1>5, <1>6

(* A step that moves nobody changes none. *)
LEMMA NoExtentChanges ==
    ASSUME NEW h, NEW C, NEW at, NEW sz, ClientHas(h, C, at, sz, LiveOf(at), {}),
           NEW g, NEW D, NEW tz, ClientHas(g, D, at, tz, LiveOf(at), {}),
           \A j \in LiveOf(at) : After(g, at[j]) = After(h, at[j])
    PROVE  ExtentsOf(g, at) = ExtentsOf(h, at)
<1>1. /\ \A j \in LiveOf(at) : ExtentsOf(h, at)[j] = [lo |-> at[j], hi |-> After(h, at[j])]
      /\ \A j \in Ids \ LiveOf(at) : ExtentsOf(h, at)[j] = [lo |-> 0, hi |-> 0]
  BY ExtentsEnd
<1>2. /\ \A j \in LiveOf(at) : ExtentsOf(g, at)[j] = [lo |-> at[j], hi |-> After(g, at[j])]
      /\ \A j \in Ids \ LiveOf(at) : ExtentsOf(g, at)[j] = [lo |-> 0, hi |-> 0]
  BY ExtentsEnd
<1>3. \A j \in Ids : ExtentsOf(g, at)[j] = ExtentsOf(h, at)[j]
  BY <1>1, <1>2
<1>4. /\ ExtentsOf(g, at) = [j \in Ids |-> ExtentsOf(g, at)[j]]
      /\ ExtentsOf(h, at) = [j \in Ids |-> ExtentsOf(h, at)[j]]
  BY DEF ExtentsOf
<1> QED
  BY <1>3, <1>4

(* The free list of package p is in order; mm-firstfit.c has none.         *)
ListOK(p, h) == IF p = "mm" THEN Neat(h) ELSE h.free_listp = NULL

(* What is returned is not part of it. *)
LEMMA ListReturns ==
    ASSUME NEW p, NEW h \in Heaps, ListOK(p, h), NEW r \in Int, NEW g, Returning(h, g, r)
    PROVE  ListOK(p, g)
<1>1. CASE p = "mm"
  <2>1. PICK C : Tidy(h, C)
    BY <1>1 DEF ListOK, Neat
  <2>2. Tidy(g, C)
    BY <2>1, NeatReturns
  <2> QED
    BY <1>1, <2>2 DEF ListOK, Neat
<1>2. CASE p # "mm"
  <2>1. g.free_listp = h.free_listp
    BY Returns
  <2> QED
    BY <1>2, <2>1 DEF ListOK
<1> QED
  BY <1>1, <1>2

(* What the driver writes into a block is not part of it, either. *)
LEMMA ListIsFilled ==
    ASSUME NEW p, NEW h, NEW S, NEW k, NEW n, Serves(h, S, k, n), ListOK(p, k),
           NEW i \in Ids, NEW size \in Sizes, n = Adjusted(size),
           NEW g, g = memset(k, k.ret, i, size)
    PROVE  ListOK(p, g)
<1>1. PICK C : /\ Sound(k, C) /\ k.ret \in InUse(k, C) /\ k.ret \in Nat
               /\ After(k, k.ret) \in Nat /\ k.ret + n <= After(k, k.ret)
  BY DEF Serves
<1>2. k \in Heaps
  BY <1>1 DEF Sound, Tiling, Bounds
<1>3. /\ g \in Heaps /\ g.mem_brk = k.mem_brk /\ g.free_listp = k.free_listp
      /\ \A a : GET(g, a) = IF a \in Storage \cap (k.ret .. k.ret + size - 1)
                            THEN Filler(i) ELSE GET(k, a)
  BY <1>1, <1>2, MemsetWrites
<1>4. size \in Nat /\ n \in Nat /\ size + 8 <= n
  BY SizesAreWords, AdjustedIsEnough DEF OVERHEAD
<1>5. CASE p = "mm"
  <2>1. PICK B : Tidy(k, B)
    BY <1>5 DEF ListOK, Neat
  <2>2. B = C
    BY <1>1, <2>1, OneTiling
  <2>3. \A a \in Int : a \notin k.ret .. After(k, k.ret) - 9 => GET(g, a) = GET(k, a)
    BY <1>1, <1>3, <1>4
  <2>4. Tidy(g, B)
    BY <1>1, <1>3, <2>1, <2>2, <2>3, PayloadTidies
  <2> QED
    BY <1>5, <2>4 DEF ListOK, Neat
<1>6. CASE p # "mm"
  BY <1>3, <1>6 DEF ListOK
<1> QED
  BY <1>5, <1>6

-----------------------------------------------------------------------------
(* What both packages promise the driver.                                  *)

(* mm.c, too, has a tidy heap where its list is in order. *)
LEMMA MmIsTidy ==
    ASSUME NEW h, NEW B, Sound(h, B), ListOK("mm", h)
    PROVE  Tidy(h, B)
<1>1. PICK C : Tidy(h, C)
  BY DEF ListOK, Neat
<1>2. C = B
  BY <1>1, OneTiling
<1> QED
  BY <1>1, <1>2

(* mm_malloc places a block, or the heap is full. *)
LEMMA PackageAllocates ==
    ASSUME package \in {"mm", "mm-firstfit"}, NEW h, NEW B, Sound(h, B), ListOK(package, h),
           NEW size \in Nat \ {0}, NEW n, n = Adjusted(size), NEW g, g = mm_malloc(h, size)
    PROVE  \/ Serves(h, InUse(h, B), g, n) /\ ListOK(package, g) /\ Granted(h, B, g, n)
           \/ Full(h, B, n) /\ Returning(h, g, NULL)
<1>1. CASE package = "mm"
  <2>1. g = Mm!mm_malloc(h, size) /\ ListOK("mm", h)
    BY <1>1 DEF mm_malloc
  <2>2. Tidy(h, B)
    BY <2>1, MmIsTidy
  <2>3. \/ Serves(h, InUse(h, B), g, n) /\ Neat(g) /\ Placement(h, B, g, n)
        \/ Full(h, B, n) /\ Returning(h, g, NULL)
    BY <2>1, <2>2, MmAllocates
  <2> QED
    BY <1>1, <2>3 DEF ListOK, Granted
<1>2. CASE package = "mm-firstfit"
  <2>1. g = FirstFit!mm_malloc(h, size) /\ h.free_listp = NULL
    BY <1>2 DEF mm_malloc, ListOK
  <2>2. \/ Serves(h, InUse(h, B), g, n) /\ PlacedFirst(h, B, g, n)
        \/ Full(h, B, n) /\ Returning(h, g, NULL)
    BY <2>1, FirstFitAllocates
  <2> QED
    BY <1>2, <2>1, <2>2 DEF ListOK, Granted, PlacedFirst
<1> QED
  BY <1>1, <1>2

(* The block b of h is free in g, and the others are as they were.         *)
GaveBack(h, B, b, g) ==
    /\ ListOK(package, g) /\ g.mem_brk = h.mem_brk
    /\ \E C : /\ Sound(g, C)
              /\ InUse(g, C) = InUse(h, B) \ {b}
              /\ Keeps(h, g, InUse(h, B) \ {b})

(* mm_free gives a block back. *)
LEMMA PackageFrees ==
    ASSUME package \in {"mm", "mm-firstfit"}, NEW h, NEW B, Sound(h, B), ListOK(package, h),
           NEW b \in InUse(h, B) \ {heap_listp}, NEW g, g = mm_free(h, b)
    PROVE  GaveBack(h, B, b, g)
<1>1. CASE package = "mm"
  <2>1. g = Mm!mm_free(h, b) /\ ListOK("mm", h)
    BY <1>1 DEF mm_free
  <2>2. Tidy(h, B)
    BY <2>1, MmIsTidy
  <2>3. PICK C : /\ Tidy(g, C)
                 /\ InUse(g, C) = InUse(h, B) \ {b}
                 /\ g.mem_brk = h.mem_brk
                 /\ Keeps(h, g, InUse(h, B) \ {b})
    BY <2>1, <2>2, MmFrees
  <2>4. Sound(g, C) /\ Neat(g)
    BY <2>3 DEF Tidy, Neat
  <2> QED
    BY <1>1, <2>3, <2>4 DEF ListOK, GaveBack
<1>2. CASE package = "mm-firstfit"
  <2>1. g = FirstFit!mm_free(h, b) /\ h.free_listp = NULL
    BY <1>2 DEF mm_free, ListOK
  <2>2. \E C :
          /\ Sound(g, C)
          /\ InUse(g, C) = InUse(h, B) \ {b}
          /\ g.mem_brk = h.mem_brk /\ g.free_listp = h.free_listp
          /\ Keeps(h, g, InUse(h, B) \ {b})
    BY <2>1, FirstFitFrees
  <2> QED
    BY <1>2, <2>1, <2>2 DEF ListOK, GaveBack
<1> QED
  BY <1>1, <1>2

(* A heap of one free block, as large as the first chunk.                  *)
Fresh(g) ==
    /\ ListOK(package, g) /\ g.ret = 0 /\ g.mem_brk = mem_start_brk + 16 + CHUNKSIZE
    /\ \E C : Sound(g, C) /\ InUse(g, C) = {heap_listp}

(* mm_init makes one, whatever is left in memory. *)
LEMMA PackageStarts ==
    ASSUME package \in {"mm", "mm-firstfit"}, 16 + CHUNKSIZE <= MAX_HEAP,
           NEW h \in Heaps, package = "mm" \/ h.free_listp = NULL, NEW g, g = Started(h)
    PROVE  Fresh(g)
<1>1. CASE package = "mm"
  <2>1. g = Mm!mm_init(mem_reset_brk(h))
    BY <1>1 DEF Started, mm_init
  <2>2. PICK C : /\ Tidy(g, C)
                 /\ InUse(g, C) = {heap_listp}
                 /\ g.mem_brk = mem_start_brk + 16 + CHUNKSIZE /\ g.ret = 0
    BY <2>1, MmStarts
  <2>3. Sound(g, C) /\ Neat(g)
    BY <2>2 DEF Tidy, Neat
  <2> QED
    BY <1>1, <2>2, <2>3 DEF ListOK, Fresh
<1>2. CASE package = "mm-firstfit"
  <2>1. g = FirstFit!mm_init(mem_reset_brk(h)) /\ h.free_listp = NULL
    BY <1>2 DEF Started, mm_init
  <2>2. \E C :
          /\ Sound(g, C)
          /\ InUse(g, C) = {heap_listp}
          /\ g.mem_brk = mem_start_brk + 16 + CHUNKSIZE
          /\ g.free_listp = h.free_listp /\ g.ret = 0
    BY <2>1, FirstFitStarts
  <2> QED
    BY <1>2, <2>1, <2>2 DEF ListOK, Fresh
<1> QED
  BY <1>1, <1>2

(* mm.c is trusted with blocks up to a chunk, and with a memcpy that       *)
(* copies upwards: it extends the heap by a chunk whatever is needed, and  *)
(* copies into a block that overlaps the old one.                          *)
Suited ==
    package = "mm" => /\ \A size \in Sizes : Adjusted(size) <= CHUNKSIZE
                      /\ Memcpy = {"up"}

(* The answer to a request for another size is a block with what the old   *)
(* one had.                                                                *)
Resized(h, B, ptr, size, n, g) ==
    /\ Serves(h, InUse(h, B) \ {ptr}, g, n) /\ Carried(h, g, ptr, size)
    /\ ListOK(package, g)

(* It is elsewhere. *)
Resettled(h, B, ptr, n, g) ==
    /\ g.ret \notin InUse(h, B) /\ Granted(h, B, g, n)
    /\ package = "mm" => MayMove(h, ptr, n)

(* mm.c could resize it where it is, or make the heap grow. *)
Adapted(h, B, ptr, size, n, g) ==
    /\ package = "mm"
    /\ StaysPut(h, B, ptr, size, n, g) \/ GrowsOut(h, B, ptr, size, n, g)

(* There is no place for n bytes, or mm.c does not look for one. *)
NoPlace(h, B, ptr, n) ==
    /\ Exhausted(h, n)
    /\ \/ Full(h, B, n)
       \/ package = "mm" /\ After(h, ptr) = h.mem_brk /\ h.mem_brk + CHUNKSIZE > mem_max_addr

(* mm_realloc resizes the block or moves it, or does nothing. *)
LEMMA PackageReallocates ==
    ASSUME package \in {"mm", "mm-firstfit"}, Suited,
           NEW h, NEW B, Sound(h, B), ListOK(package, h), NEW ptr \in InUse(h, B) \ {heap_listp},
           NEW size \in Sizes, NEW n, n = Adjusted(size), NEW order \in Memcpy,
           NEW g, g = mm_realloc(h, ptr, size, order)
    PROVE  \/ /\ Resized(h, B, ptr, size, n, g)
              /\ Adapted(h, B, ptr, size, n, g) \/ Resettled(h, B, ptr, n, g)
           \/ NoPlace(h, B, ptr, n) /\ \E r \in {NULL, Exited} : Returning(h, g, r)
<1>0. size \in Nat \ {0} /\ size % 4 = 0 /\ n \in Nat
  BY SizesAreWords, AdjustedIsEnough
<1>1. CASE package = "mm"
  <2>1. n <= CHUNKSIZE /\ order = "up"
    BY <1>1 DEF Suited
  <2>2. g = Mm!mm_realloc(h, ptr, size, "up") /\ ListOK("mm", h)
    BY <1>1, <2>1 DEF mm_realloc
  <2>3. Wanted(h, B, ptr, size, n)
    BY <1>0, <2>2, MmIsTidy DEF Wanted
  <2>4. \/ StaysPut(h, B, ptr, size, n, g)
        \/ GrowsOut(h, B, ptr, size, n, g)
        \/ MovesOut(h, B, ptr, size, n, g)
        \/ Denied(h, B, ptr, n, g)
    BY <2>1, <2>2, <2>3, MmReallocates
  <2>5. Carries(h, B, ptr, size, n, g) => Resized(h, B, ptr, size, n, g)
    BY <1>1 DEF Carries, Resized, ListOK
  <2>6. CASE StaysPut(h, B, ptr, size, n, g) \/ GrowsOut(h, B, ptr, size, n, g)
    BY <1>1, <2>5, <2>6 DEF StaysPut, GrowsOut, Adapted
  <2>7. CASE MovesOut(h, B, ptr, size, n, g)
    BY <1>1, <2>5, <2>7 DEF MovesOut, Resettled, Granted
  <2>8. CASE Denied(h, B, ptr, n, g)
    <3>1. GrowsBy(n) = CHUNKSIZE
      BY <1>0, <2>1, ChunkAssumption DEF GrowsBy
    <3>2. h.mem_brk + CHUNKSIZE > mem_max_addr => Exhausted(h, n)
      BY <3>1 DEF Exhausted
    <3> QED
      BY <1>1, <2>8, <3>2 DEF Denied, NoPlace, Full
  <2> QED
    BY <2>4, <2>6, <2>7, <2>8
<1>2. CASE package = "mm-firstfit"
  <2>1. g = FirstFit!mm_realloc(h, ptr, size) /\ h.free_listp = NULL
    BY <1>2 DEF mm_realloc, ListOK
  <2>2. \/ /\ Serves(h, InUse(h, B) \ {ptr}, g, n) /\ Carried(h, g, ptr, size)
           /\ g.ret \notin InUse(h, B) /\ PlacedFirst(h, B, g, n)
        \/ Full(h, B, n) /\ Returning(h, g, Exited)
    BY <1>0, <2>1, FirstFitMoves
  <2>3. CASE /\ Serves(h, InUse(h, B) \ {ptr}, g, n) /\ Carried(h, g, ptr, size)
             /\ g.ret \notin InUse(h, B) /\ PlacedFirst(h, B, g, n)
    BY <1>2, <2>1, <2>3 DEF Resized, Resettled, PlacedFirst, Granted, ListOK
  <2>4. CASE Full(h, B, n) /\ Returning(h, g, Exited)
    BY <2>4 DEF Full, NoPlace
  <2> QED
    BY <2>2, <2>3, <2>4
<1> QED
  BY <1>1, <1>2

-----------------------------------------------------------------------------
(* The steps of the driver.                                                *)

(* It is linked with one of the two, which has what it needs; the heap and *)
(* its free list are in order.                                             *)
Inductive == package \in Packages /\ Suited /\ InOrder /\ ListOK(package, heap)

(* The heap is in order after the step. *)
StaysInOrder ==
    /\ \E D : Order(heap', D, blocks', block_sizes', ranges', verdict')
    /\ ListOK(package, heap')

(* The step gives the number i what k returned. *)
Hands(i, k) == StaysInOrder /\ verdict' = "ok" /\ Given(heap, blocks, i, k, heap', blocks')

(* The step only tells that there is an error. *)
Errs ==
    /\ StaysInOrder /\ verdict' # "ok"
    /\ blocks' = blocks /\ heap'.mem_brk = heap.mem_brk
    /\ \A j \in LiveOf(blocks) : After(heap', blocks[j]) = After(heap, blocks[j])

(* What is in order has the blocks in use. *)
LEMMA OrderHas ==
    ASSUME NEW C, Order(heap, C, blocks, block_sizes, ranges, verdict)
    PROVE  /\ Sound(heap, C) /\ heap \in Heaps
           /\ \A i \in LiveOf(blocks) : blocks[i] \in InUse(heap, C) \ {heap_listp}
           /\ LiveOf(blocks) = Live
<1>1. /\ ClientHas(heap, C, blocks, block_sizes, LiveOf(blocks), {})
      /\ LiveOf(blocks) = Live
  BY DEF Order, LiveOf, Live
<1> QED
  BY <1>1 DEF ClientHas, Sound, Tiling, Bounds

(* A request for a block. *)
LEMMA AllocKeeps ==
    ASSUME Inductive, NEW C, Order(heap, C, blocks, block_sizes, ranges, verdict),
           NEW i \in Ids, NEW size \in Sizes, Alloc(i, size), NEW n, n = Adjusted(size)
    PROVE  \/ \E k : Hands(i, k) /\ Granted(heap, C, k, n)
           \/ Errs /\ Full(heap, C, n)
<1>1. PICK k : k = mm_malloc(heap, size)
  OBVIOUS
<1>2. /\ package \in {"mm", "mm-firstfit"} /\ ListOK(package, heap)
      /\ Sound(heap, C) /\ heap \in Heaps /\ size \in Nat \ {0}
  BY OrderHas, PackagesAssumption, SizesAreWords DEF Inductive
<1>3. \/ Serves(heap, InUse(heap, C), k, n) /\ ListOK(package, k) /\ Granted(heap, C, k, n)
      \/ Full(heap, C, n) /\ Returning(heap, k, NULL)
  BY <1>1, <1>2, PackageAllocates
<1>4. CASE Serves(heap, InUse(heap, C), k, n) /\ ListOK(package, k) /\ Granted(heap, C, k, n)
  <2>1. /\ \E D : Order(heap', D, blocks', block_sizes', ranges', verdict')
        /\ verdict' = "ok" /\ heap' = memset(k, k.ret, i, size)
        /\ Given(heap, blocks, i, k, heap', blocks')
    BY <1>1, <1>4, AllocIsServed
  <2>2. ListOK(package, heap')
    <3>1. PICK g : g = heap'
      OBVIOUS
    <3>2. g = memset(k, k.ret, i, size)
      BY <2>1, <3>1
    <3>3. ListOK(package, g)
      BY <1>4, <3>2, ListIsFilled
    <3> QED
      BY <3>1, <3>3
  <2> QED
    BY <1>4, <2>1, <2>2 DEF Hands, StaysInOrder
<1>5. CASE Full(heap, C, n) /\ Returning(heap, k, NULL)
  <2>1. Exhausted(heap, Adjusted(size))
    BY <1>5 DEF Full
  <2>2. /\ Order(heap', C, blocks', block_sizes', ranges', verdict')
        /\ verdict' # "ok" /\ heap' = k /\ blocks' = blocks
        /\ k.mem_brk = heap.mem_brk
        /\ \A j \in LiveOf(blocks) : After(k, blocks[j]) = After(heap, blocks[j])
    BY <1>1, <1>5, <2>1, AllocIsRefused
  <2>3. ListOK(package, k)
    BY <1>2, <1>5, ListReturns DEF NULL
  <2> QED
    BY <1>5, <2>2, <2>3 DEF Errs, StaysInOrder
<1> QED
  BY <1>3, <1>4, <1>5

(* A request for another size. *)
LEMMA ReallocKeeps ==
    ASSUME Inductive, NEW C, Order(heap, C, blocks, block_sizes, ranges, verdict),
           NEW i \in Ids, NEW size \in Sizes, NEW order \in Memcpy, Realloc(i, size, order),
           NEW n, n = Adjusted(size), NEW ptr, ptr = blocks[i]
    PROVE  \/ \E k : /\ Hands(i, k)
                     /\ Adapted(heap, C, ptr, size, n, k) \/ Resettled(heap, C, ptr, n, k)
           \/ Errs /\ NoPlace(heap, C, ptr, n)
<1>1. PICK k : k = mm_realloc(heap, ptr, size, order)
  OBVIOUS
<1>2. /\ package \in {"mm", "mm-firstfit"} /\ ListOK(package, heap) /\ Suited
      /\ Sound(heap, C) /\ heap \in Heaps /\ ptr \in InUse(heap, C) \ {heap_listp}
  <2>1. i \in LiveOf(blocks)
    BY OrderHas DEF Realloc
  <2> QED
    BY <2>1, OrderHas, PackagesAssumption DEF Inductive
<1>3. \/ /\ Resized(heap, C, ptr, size, n, k)
         /\ Adapted(heap, C, ptr, size, n, k) \/ Resettled(heap, C, ptr, n, k)
      \/ NoPlace(heap, C, ptr, n) /\ \E r \in {NULL, Exited} : Returning(heap, k, r)
  BY <1>1, <1>2, PackageReallocates
<1>4. CASE /\ Resized(heap, C, ptr, size, n, k)
           /\ Adapted(heap, C, ptr, size, n, k) \/ Resettled(heap, C, ptr, n, k)
  <2>0. /\ Serves(heap, InUse(heap, C) \ {ptr}, k, n) /\ Carried(heap, k, ptr, size)
        /\ ListOK(package, k)
    BY <1>4 DEF Resized
  <2>1. /\ \E D : Order(heap', D, blocks', block_sizes', ranges', verdict')
        /\ verdict' = "ok" /\ heap' = memset(k, k.ret, i, size)
        /\ Given(heap, blocks, i, k, heap', blocks')
    BY <1>1, <2>0, ReallocIsServed
  <2>2. ListOK(package, heap')
    <3>1. PICK g : g = heap'
      OBVIOUS
    <3>2. g = memset(k, k.ret, i, size)
      BY <2>1, <3>1
    <3>4. PICK S : S = InUse(heap, C) \ {ptr}
      OBVIOUS
    <3>5. Serves(heap, S, k, n)
      BY <2>0, <3>4
    <3>3. ListOK(package, g)
      BY <2>0, <3>2, <3>5, ListIsFilled
    <3> QED
      BY <3>1, <3>3
  <2> QED
    BY <1>4, <2>1, <2>2 DEF Hands, StaysInOrder
<1>5. CASE NoPlace(heap, C, ptr, n) /\ \E r \in {NULL, Exited} : Returning(heap, k, r)
  <2>1. PICK r \in {NULL, Exited} : Returning(heap, k, r)
    BY <1>5
  <2>2. Exhausted(heap, Adjusted(size))
    BY <1>5 DEF NoPlace
  <2>3. /\ Order(heap', C, blocks', block_sizes', ranges', verdict')
        /\ verdict' # "ok" /\ heap' = k /\ blocks' = blocks
        /\ k.mem_brk = heap.mem_brk
        /\ \A j \in LiveOf(blocks) : After(k, blocks[j]) = After(heap, blocks[j])
    BY <1>1, <2>1, <2>2, ReallocIsRefused
  <2>4. ListOK(package, k)
    BY <1>2, <2>1, ListReturns DEF NULL, Exited
  <2> QED
    BY <1>5, <2>3, <2>4 DEF Errs, StaysInOrder
<1> QED
  BY <1>3, <1>4, <1>5

(* The step takes back what i has. *)
TakesBack(i) ==
    /\ StaysInOrder /\ verdict' = "ok" /\ heap'.mem_brk = heap.mem_brk
    /\ blocks' = [blocks EXCEPT ![i] = NULL]
    /\ \A j \in Others(blocks, i) : After(heap', blocks[j]) = After(heap, blocks[j])

(* A block is given back. *)
LEMMA FreeKeeps ==
    ASSUME Inductive, NEW C, Order(heap, C, blocks, block_sizes, ranges, verdict),
           NEW i \in Ids, Free(i)
    PROVE  TakesBack(i)
<1>1. PICK k, ptr : k = mm_free(heap, ptr) /\ ptr = blocks[i]
  OBVIOUS
<1>2. /\ package \in {"mm", "mm-firstfit"} /\ ListOK(package, heap)
      /\ Sound(heap, C) /\ ptr \in InUse(heap, C) \ {heap_listp}
  <2>1. i \in LiveOf(blocks)
    BY OrderHas DEF Free
  <2> QED
    BY <1>1, <2>1, OrderHas, PackagesAssumption DEF Inductive
<1>3. GaveBack(heap, C, ptr, k)
  BY <1>1, <1>2, PackageFrees
<1>4. PICK E : /\ Sound(k, E) /\ InUse(k, E) = InUse(heap, C) \ {ptr}
               /\ Keeps(heap, k, InUse(heap, C) \ {ptr})
  BY <1>3 DEF GaveBack
<1>5. ListOK(package, k) /\ k.mem_brk = heap.mem_brk
  BY <1>3 DEF GaveBack
<1>6. /\ \E D : Order(heap', D, blocks', block_sizes', ranges', verdict')
      /\ verdict' = "ok" /\ heap' = k /\ heap'.mem_brk = heap.mem_brk
      /\ blocks' = [blocks EXCEPT ![i] = NULL]
      /\ \A j \in Others(blocks, i) : After(heap', blocks[j]) = After(heap, blocks[j])
  <2>1. k = mm_free(heap, blocks[i]) /\ InUse(k, E) = InUse(heap, C) \ {blocks[i]}
        /\ Keeps(heap, k, InUse(heap, C) \ {blocks[i]})
    BY <1>1, <1>4
  <2> QED
    BY <1>4, <1>5, <2>1, FreeIsServed
<1> QED
  BY <1>5, <1>6 DEF TakesBack, StaysInOrder

(* The heap g of a trace that starts. *)
LEMMA StartKeeps ==
    ASSUME 16 + CHUNKSIZE <= MAX_HEAP, Inductive, NEW g, g = Started(heap)
    PROVE  Fresh(g)
<1>1. package \in {"mm", "mm-firstfit"} /\ (package = "mm" \/ heap.free_listp = NULL)
  BY PackagesAssumption DEF Inductive, ListOK
<1>2. heap \in Heaps
  BY OrderHas DEF Inductive, InOrder
<1> QED
  BY <1>1, <1>2, PackageStarts

(* The driver starts in order. *)
LEMMA StartsInOrder ==
    ASSUME 16 + CHUNKSIZE <= MAX_HEAP
    PROVE  Init /\ Suited => Inductive
<1> SUFFICES ASSUME Init, Suited
             PROVE  Inductive
  OBVIOUS
<1>1. package \in {"mm", "mm-firstfit"} /\ package \in Packages
  BY PackagesAssumption DEF Init
<1>2. PICK g : g = Started(mem_init)
  OBVIOUS
<1>3. Fresh(g)
  BY <1>1, <1>2, MemoryStarts, PackageStarts
<1>4. PICK C : Sound(g, C) /\ InUse(g, C) = {heap_listp}
  BY <1>3 DEF Fresh
<1>5. Order(g, C, [i \in Ids |-> NULL], [i \in Ids |-> 0], {}, "ok")
  BY <1>4, StartIsOrder
<1>6. heap = g /\ verdict = "ok"
  BY <1>2, <1>3 DEF Init, Fresh
<1>7. InOrder
  BY <1>5, <1>6 DEF Init, InOrder
<1> QED
  BY <1>1, <1>3, <1>6, <1>7 DEF Inductive, Fresh

(* Every step leaves it in order. *)
LEMMA StepsKeepOrder ==
    ASSUME 16 + CHUNKSIZE <= MAX_HEAP
    PROVE  Inductive /\ [Next]_vars => Inductive'
<1> SUFFICES ASSUME Inductive, [Next]_vars
             PROVE  Inductive'
  OBVIOUS
<1>1. PICK C : Order(heap, C, blocks, block_sizes, ranges, verdict)
  BY DEF Inductive, InOrder
<1>2. package' = package /\ package \in Packages /\ Suited
  BY DEF Next, vars, Inductive
<1>3. Suited'
  BY <1>2 DEF Suited
<1>4. StaysInOrder => Inductive'
  BY <1>2, <1>3 DEF Inductive, InOrder, StaysInOrder
<1>5. CASE UNCHANGED vars
  <2>1. StaysInOrder
    BY <1>1, <1>5 DEF vars, StaysInOrder, Inductive
  <2> QED
    BY <1>4, <2>1
<1>6. ASSUME NEW i \in Ids, NEW size \in Sizes, Alloc(i, size)
      PROVE  Inductive'
  <2>1. PICK n : n = Adjusted(size)
    OBVIOUS
  <2>2. StaysInOrder
    BY <1>1, <1>6, <2>1, AllocKeeps DEF Hands, Errs
  <2> QED
    BY <1>4, <2>2
<1>7. ASSUME NEW i \in Ids, NEW size \in Sizes, NEW order \in Memcpy, Realloc(i, size, order)
      PROVE  Inductive'
  <2>1. PICK n, ptr : n = Adjusted(size) /\ ptr = blocks[i]
    OBVIOUS
  <2>2. StaysInOrder
    BY <1>1, <1>7, <2>1, ReallocKeeps DEF Hands, Errs
  <2> QED
    BY <1>4, <2>2
<1>8. ASSUME NEW i \in Ids, Free(i)
      PROVE  Inductive'
  <2>1. StaysInOrder
    BY <1>1, <1>8, FreeKeeps DEF TakesBack
  <2> QED
    BY <1>4, <2>1
<1>9. CASE NextTrace
  <2>1. PICK g : g = Started(heap)
    OBVIOUS
  <2>2. Fresh(g)
    BY <2>1, StartKeeps
  <2>3. PICK D : Sound(g, D) /\ InUse(g, D) = {heap_listp}
    BY <2>2 DEF Fresh
  <2>4. Order(g, D, [i \in Ids |-> NULL], [i \in Ids |-> 0], {}, "ok")
    BY <2>3, StartIsOrder
  <2>5. heap' = g /\ g.ret = 0
    BY <1>9, <2>1, <2>2 DEF NextTrace, Fresh
  <2>6. /\ blocks' = [i \in Ids |-> NULL] /\ block_sizes' = [i \in Ids |-> 0]
        /\ ranges' = {} /\ verdict' = "ok"
    BY <1>9, <2>5 DEF NextTrace
  <2>7. Order(heap', D, blocks', block_sizes', ranges', verdict')
    BY <2>4, <2>5, <2>6
  <2>8. StaysInOrder
    BY <2>2, <2>5, <2>7 DEF StaysInOrder, Fresh
  <2> QED
    BY <1>4, <2>8
<1> QED
  BY <1>5, <1>6, <1>7, <1>8, <1>9 DEF Next

(* Linked with either package, as far as it is Suited, every state of the  *)
(* driver has a heap and a free list that are in order.                    *)
THEOREM KeepsOrder ==
    ASSUME 16 + CHUNKSIZE <= MAX_HEAP
    PROVE  Spec /\ Suited => []Inductive
BY StartsInOrder, StepsKeepOrder, PTL DEF Spec

-----------------------------------------------------------------------------
(* What the runs check of the driver, for either package.                  *)

(* The list head of the package is a block of the heap or NULL. *)
LEMMA HeadIsBlock ==
    ASSUME NEW p, NEW h, ListOK(p, h)
    PROVE  h.free_listp \in Storage \cup {NULL}
<1>1. CASE p = "mm"
  <2>1. PICK C : Listing(h, FreeIn(h, C))
    BY <1>1 DEF ListOK, Neat, Tidy
  <2>2. PICK F : F = FreeIn(h, C)
    OBVIOUS
  <2>3. h.free_listp \in F \cup {NULL} /\ \A q \in F : IsNode(q)
    BY <2>1, <2>2 DEF Listing, Linked
  <2> QED
    BY <2>3 DEF IsNode
<1>2. CASE p # "mm"
  BY <1>2 DEF ListOK
<1> QED
  BY <1>1, <1>2

(* The driver keeps its state well formed: no function of either package   *)
(* writes more than a word or loses the list head, and the blocks the      *)
(* client is given are in the area, as long as the package is Suited.      *)
THEOREM MdriverTypeOK ==
    ASSUME 16 + CHUNKSIZE <= MAX_HEAP
    PROVE  Spec /\ Suited => []TypeOK
<1>1. Inductive => TypeOK
  <2> SUFFICES ASSUME package \in Packages, InOrder, ListOK(package, heap)
               PROVE  TypeOK
    BY DEF Inductive
  <2>1. PICK C : Order(heap, C, blocks, block_sizes, ranges, verdict)
    BY DEF InOrder
  <2>2. /\ ClientHas(heap, C, blocks, block_sizes, LiveOf(blocks), {})
        /\ ranges = RangesOf(blocks, block_sizes, LiveOf(blocks))
        /\ verdict \in {"ok", "mm_malloc failed", "mm_realloc failed", "exited"}
    BY <2>1 DEF Order
  <2>3. /\ Tiling(heap, C) /\ heap \in Heaps
        /\ heap.mem_brk \in Nat /\ heap.mem_brk <= mem_max_addr
        /\ mem_start_brk + 8 <= heap.mem_brk
        /\ blocks \in [Ids -> Nat] /\ block_sizes \in [Ids -> Sizes \cup {0}]
    <3>1. Tiling(heap, C) /\ heap.mem_brk \in C
          /\ blocks \in [Ids -> Nat] /\ block_sizes \in [Ids -> Sizes \cup {0}]
      BY <2>2 DEF ClientHas, Sound, Tiling, Bounds
    <3>2. /\ heap \in Heaps /\ heap.mem_brk \in Nat /\ heap.mem_brk <= mem_max_addr
          /\ heap_listp <= heap.mem_brk /\ heap_listp = mem_start_brk + 8
      BY <3>1, BlockFacts
    <3> QED
      BY <3>1, <3>2
  <2>4. heap.mem \in [Storage -> 0 .. Span - 1]
    BY <2>3 DEF Heaps, Words
  <2>5. heap.mem_brk \in mem_start_brk .. mem_max_addr
    BY <2>3, AreaAssumption DEF mem_max_addr
  <2>6. \A i \in LiveOf(blocks) :
           /\ blocks[i] \in Storage /\ block_sizes[i] \in Sizes /\ blocks[i] \in Nat
    <3> TAKE i \in LiveOf(blocks)
    <3>1. blocks[i] \in C \ {heap.mem_brk} /\ block_sizes[i] \in Sizes
      BY <2>2 DEF ClientHas, InUse
    <3> QED
      BY <2>3, <3>1, BlocksAreInStorage DEF LiveOf
  <2>7. blocks \in [Ids -> Storage \cup {NULL}]
    BY <2>3, <2>6 DEF LiveOf
  <2>8. ASSUME NEW p \in ranges
        PROVE  p.lo \in Storage /\ p.hi \in Nat
    <3>1. PICK i \in LiveOf(blocks) : p = [lo |-> blocks[i], hi |-> blocks[i] + block_sizes[i] - 1]
      BY <2>2 DEF RangesOf
    <3>2. block_sizes[i] \in Nat \ {0}
      BY <2>6, SizesAreWords
    <3>3. p.lo = blocks[i] /\ p.hi = blocks[i] + block_sizes[i] - 1
      BY <3>1
    <3> QED
      BY <2>6, <3>2, <3>3
  <2>9. heap.free_listp \in Storage \cup {NULL}
    BY HeadIsBlock
  <2> QED
    BY <2>2, <2>3, <2>4, <2>5, <2>7, <2>8, <2>9 DEF TypeOK, Verdicts
<1> QED
  BY <1>1, KeepsOrder, PTL

(* mm_checkheap never finds anything, in mm.c or in mm-firstfit.c: not the *)
(* prologue, the epilogue, a tag or two free neighbours.  Of mm.c this     *)
(* holds when it is Suited, and with larger blocks it does not.            *)
THEOREM MdriverHeapChecks ==
    ASSUME 16 + CHUNKSIZE <= MAX_HEAP
    PROVE  Spec /\ Suited => []HeapChecks
<1>1. InOrder => HeapChecks
  <2> SUFFICES ASSUME InOrder
               PROVE  HeapChecks
    OBVIOUS
  <2>1. PICK C : Sound(heap, C)
    BY DEF InOrder, Order, ClientHas
  <2>2. Tiling(heap, C) /\ Coalesced(heap, C) /\ heap_listp \in C /\ heap.mem_brk \in C
    BY <2>1 DEF Sound, Tiling, Bounds
  <2>3. /\ Epilogue = heap.mem_brk /\ Blocks = C \ {heap.mem_brk}
        /\ FreeBlocks = {b \in C \ {heap.mem_brk} : Used(heap, b) = 0}
    BY <2>2, WalkedIsTiling
  <2>4. GET(heap, HDRP(heap_listp)) = PACK(DSIZE, 1)
    <3>1. HDRP(heap_listp) = heap_listp - 4
      BY <2>2, TagsTell
    <3> QED
      BY <2>2, <3>1 DEF Tiling, Bounds, DSIZE
  <2>5. GET(heap, HDRP(heap.mem_brk)) = PACK(0, 1)
    <3>1. HDRP(heap.mem_brk) = heap.mem_brk - 4
      BY <2>2, TagsTell
    <3> QED
      BY <2>2, <3>1 DEF Tiling, Bounds
  <2>6. ASSUME NEW b \in Blocks
        PROVE  b % 8 = 0 /\ GET(heap, HDRP(b)) = GET(heap, FTRP(heap, b))
    <3>1. b \in C \ {heap.mem_brk}
      BY <2>3
    <3>2. HDRP(b) = b - 4 /\ FTRP(heap, b) = After(heap, b) - 8
      BY <2>2, <3>1, TagsTell
    <3>3. GET(heap, After(heap, b) - 8) = GET(heap, b - 4)
      BY <2>2, <3>1 DEF Tiling, BothTags
    <3> QED
      BY <2>2, <3>1, <3>2, <3>3, BlockFacts
  <2>7. ASSUME NEW b \in FreeBlocks
        PROVE  /\ GET_ALLOC(heap, HDRP(PREV_BLKP(heap, b))) = 1
               /\ GET_ALLOC(heap, HDRP(NEXT_BLKP(heap, b))) = 1
    <3>1. b \in C \ {heap.mem_brk} /\ Used(heap, b) = 0
      BY <2>3
    <3>2. b # heap_listp
      BY <2>2, <3>1, BlockFacts
    <3>3. PICK c : c = PREV_BLKP(heap, b)
      OBVIOUS
    <3>4. c \in C \ {heap.mem_brk} /\ After(heap, c) = b
      BY <2>2, <3>1, <3>2, <3>3, PrevTells
    <3>5. Used(heap, c) \in {0, 1}
      BY <2>2, <3>4, BlockFacts
    <3>6. Used(heap, c) = 1
      BY <2>2, <3>1, <3>4, <3>5 DEF Coalesced
    <3>7. NEXT_BLKP(heap, b) = After(heap, b) /\ Used(heap, After(heap, b)) = 1
          /\ After(heap, b) \in C
      <4>1. NEXT_BLKP(heap, b) = After(heap, b)
        BY <2>2, <3>1, TagsTell
      <4>2. After(heap, b) \in C
        BY <2>2, <3>1, BlockFacts
      <4> QED
        BY <2>2, <3>1, <4>1, <4>2 DEF Coalesced
    <3>8. \A d \in C : GET_ALLOC(heap, HDRP(d)) = Used(heap, d)
      BY <2>2, TagsTell
    <3> QED
      BY <3>3, <3>4, <3>6, <3>7, <3>8
  <2> QED
    BY <2>3, <2>4, <2>5, <2>6, <2>7 DEF HeapChecks
<1>2. Inductive => InOrder
  BY DEF Inductive
<1> QED
  BY <1>1, <1>2, KeepsOrder, PTL

(* Neither package loses a block or hands one out twice, as far as it is   *)
(* Suited.                                                                 *)
THEOREM MdriverClientOwnsAllocated ==
    ASSUME 16 + CHUNKSIZE <= MAX_HEAP
    PROVE  Spec /\ Suited => []ClientOwnsAllocated
<1>1. InOrder => ClientOwnsAllocated
  <2> SUFFICES ASSUME InOrder
               PROVE  ClientOwnsAllocated
    OBVIOUS
  <2>1. PICK C : ClientHas(heap, C, blocks, block_sizes, LiveOf(blocks), {})
    BY DEF InOrder, Order
  <2>2. Live = LiveOf(blocks)
    BY DEF Live, LiveOf
  <2>3. Tiling(heap, C)
    BY <2>1 DEF ClientHas, Sound
  <2>4. Blocks \ FreeBlocks = {heap_listp} \cup {blocks[i] : i \in Live}
    BY <2>1, <2>2, <2>3, WalkedIsTiling DEF ClientHas
  <2>5. \A i, j \in Live : blocks[i] = blocks[j] => i = j
    BY <2>1, <2>2 DEF ClientHas
  <2>6. ASSUME NEW i \in Live
        PROVE  block_sizes[i] + OVERHEAD <= GET_SIZE(heap, HDRP(blocks[i]))
    <3>1. /\ blocks[i] \in C \ {heap.mem_brk} /\ block_sizes[i] \in Nat
          /\ blocks[i] + block_sizes[i] + 8 <= After(heap, blocks[i])
      BY <2>1, <2>2, SizesAreWords DEF ClientHas, InUse
    <3>2. /\ blocks[i] \in Nat /\ Size(heap, blocks[i]) \in Nat
          /\ GET_SIZE(heap, HDRP(blocks[i])) = Size(heap, blocks[i])
      BY <2>3, <3>1, BlockFacts, TagsTell
    <3> QED
      BY <3>1, <3>2 DEF After, OVERHEAD
  <2> QED
    BY <2>4, <2>5, <2>6 DEF ClientOwnsAllocated
<1>2. Inductive => InOrder
  BY DEF Inductive
<1> QED
  BY <1>1, <1>2, KeepsOrder, PTL

(* No tag, link or copy of either package lands in a payload that is out,  *)
(* as long as the package is Suited.                                       *)
THEOREM MdriverPayloadsKept ==
    ASSUME 16 + CHUNKSIZE <= MAX_HEAP
    PROVE  Spec /\ Suited => []PayloadsKept
<1>1. InOrder => PayloadsKept
  BY DEF InOrder, Order, ClientHas, PayloadsKept, Live, LiveOf
<1>2. Inductive => InOrder
  BY DEF Inductive
<1> QED
  BY <1>1, <1>2, KeepsOrder, PTL

(* The driver reports an error only for want of memory, when no request is *)
(* for more than a chunk and memcpy suits mm.c.                            *)
THEOREM MdriverFailsOnlyWhenFull ==
    ASSUME 16 + CHUNKSIZE <= MAX_HEAP,
           \A size \in Sizes : Adjusted(size) <= CHUNKSIZE
    PROVE  Spec /\ Suited => []FailsOnlyWhenFull
<1>1. Inductive => FailsOnlyWhenFull
  <2> SUFFICES ASSUME InOrder, verdict # "ok"
               PROVE  /\ verdict \in {"mm_malloc failed", "mm_realloc failed", "exited"}
                      /\ heap.mem_brk + CHUNKSIZE > mem_max_addr
    BY DEF FailsOnlyWhenFull, Inductive
  <2>1. /\ \E size \in Sizes : Exhausted(heap, Adjusted(size))
        /\ verdict \in {"ok", "mm_malloc failed", "mm_realloc failed", "exited"}
    BY DEF InOrder, Order
  <2>2. PICK size \in Sizes : Exhausted(heap, Adjusted(size))
    BY <2>1
  <2>3. GrowsBy(Adjusted(size)) = CHUNKSIZE
    <3>1. Adjusted(size) \in Nat
      BY SizesAreWords, AdjustedIsEnough
    <3> QED
      BY <3>1, ChunkAssumption DEF GrowsBy
  <2> QED
    BY <2>1, <2>2, <2>3 DEF Exhausted
<1> QED
  BY <1>1, KeepsOrder, PTL

(* The nodes of the list are the free blocks, one for each. *)
LEMMA ListedAreFree ==
    ASSUME NEW F, IsFiniteSet(F), NEW list, NEW nodes, nodes = {n \in Steps : list[n] # NULL},
           \A n \in Steps : list[n] \in F \cup {NULL},
           \A p \in F : p # NULL /\ \E n \in Steps : list[n] = p,
           \A m, n \in Steps : list[m] = list[n] /\ list[m] # NULL => m = n
    PROVE  {list[n] : n \in nodes} = F /\ Cardinality(nodes) = Cardinality(F)
<1>1. {list[n] : n \in nodes} = F
  <2>1. \A n \in nodes : list[n] \in F
    OBVIOUS
  <2>2. \A p \in F : \E n \in nodes : list[n] = p
    OBVIOUS
  <2> QED
    BY <2>1, <2>2
<1>2. PICK f : f = [n \in nodes |-> list[n]]
  OBVIOUS
<1>3. f \in Bijection(nodes, F)
  <2>1. f \in [nodes -> F] /\ \A n \in nodes : f[n] = list[n]
    BY <1>2
  <2>2. \A m, n \in nodes : m # n => f[m] # f[n]
    BY <2>1
  <2>3. \A p \in F : \E n \in nodes : f[n] = p
    BY <2>1
  <2> QED
    BY <2>1, <2>2, <2>3 DEF Bijection, Injection, Surjection, IsInjective
<1>4. IsFiniteSet(nodes)
  <2>1. IsFiniteSet(Steps)
    BY AreaAssumption, FS_Interval DEF Steps, MaxBlocks
  <2> QED
    BY <2>1, FS_Subset
<1>5. Cardinality(nodes) = Cardinality(F)
  BY <1>3, <1>4, FS_Bijection DEF ExistsBijection
<1> QED
  BY <1>1, <1>5

(* The explicit free list of mm.c is the free blocks of the heap, each     *)
(* once, and can be walked both ways, whatever was allocated, split,       *)
(* merged, extended and freed before, as long as mm.c is Suited.           *)
THEOREM MdriverFreeListIsTheFreeBlocks ==
    ASSUME 16 + CHUNKSIZE <= MAX_HEAP
    PROVE  Spec /\ Suited => []FreeListIsTheFreeBlocks
<1>1. Inductive => FreeListIsTheFreeBlocks
  <2> SUFFICES ASSUME Inductive, package = "mm"
               PROVE  FreeListIsTheFreeBlocks
    BY DEF FreeListIsTheFreeBlocks
  <2>1. PICK C : Tidy(heap, C)
    BY DEF Inductive, ListOK, Neat
  <2>2. PICK F, list : F = FreeIn(heap, C) /\ list = Mm!Listed(heap)
    OBVIOUS
  <2>3. Listing(heap, F) /\ \A p \in F : heap_listp <= p
    BY <2>1, <2>2, FreeBehind
  <2>4. /\ \A n \in Steps : list[n] \in F \cup {NULL}
        /\ \A p \in F : p # NULL /\ \E n \in Steps : list[n] = p
        /\ \A m, n \in Steps : list[m] = list[n] /\ list[m] # NULL => m = n
        /\ \A n \in Steps : list[n] # NULL =>
              GET(heap, list[n]) = IF n = 0 THEN NULL ELSE list[n - 1]
    BY <2>2, <2>3, ListCovers
  <2>5. PICK nodes : nodes = {n \in Steps : list[n] # NULL}
    OBVIOUS
  <2>6. FreeBlocks = F
    <3>1. Tiling(heap, C)
      BY <2>1 DEF Tidy, Sound
    <3>2. FreeBlocks = {b \in C \ {heap.mem_brk} : Used(heap, b) = 0}
      BY <3>1, WalkedIsTiling
    <3>3. \A c \in FreeIn(heap, C) : c # heap.mem_brk
      BY <3>1, FreeAreNodes
    <3> QED
      BY <2>2, <3>2, <3>3 DEF FreeIn
  <2>7. IsFiniteSet(F)
    <3>1. Tiling(heap, C) /\ heap.mem_brk \in C
      BY <2>1 DEF Tidy, Sound, Tiling, Bounds
    <3>2. heap.mem_brk \in Nat /\ \A b \in C : b \in 0 .. heap.mem_brk
      <4>1. \A b \in C : b \in Nat /\ b <= heap.mem_brk
        BY <3>1 DEF Tiling, Bounds
      <4>2. heap.mem_brk \in Nat
        BY <3>1, <4>1
      <4> QED
        BY <4>1, <4>2
    <3>3. IsFiniteSet(0 .. heap.mem_brk)
      BY <3>2, FS_Interval
    <3>4. F \subseteq 0 .. heap.mem_brk
      BY <2>2, <3>2 DEF FreeIn
    <3> QED
      BY <3>3, <3>4, FS_Subset
  <2>8. {list[n] : n \in nodes} = F /\ Cardinality(nodes) = Cardinality(F)
    BY <2>4, <2>5, <2>7, ListedAreFree
  <2>9. \A n \in nodes :
           Mm!PrevFree(heap, list[n]) = IF n = 0 THEN NULL ELSE list[n - 1]
    BY <2>4, <2>5, MmLinks
  <2> QED
    BY <2>2, <2>5, <2>6, <2>8, <2>9 DEF FreeListIsTheFreeBlocks
<1> QED
  BY <1>1, KeepsOrder, PTL

-----------------------------------------------------------------------------
(* The room of an extent.                                                  *)

(* The block ptr and its free neighbours lie from first to e: what is      *)
(* around them is in use.                                                  *)
Surrounded(h, B, ptr, first, e) ==
    /\ first \in B \ {heap_listp} /\ e \in B /\ first \in Nat /\ e \in Nat
    /\ first <= ptr /\ After(h, ptr) <= e
    /\ \A c \in InUse(h, B) : first <= c /\ c < e => c = ptr
    /\ \E c \in InUse(h, B) \ {ptr} : After(h, c) = first
    /\ e = h.mem_brk \/ e \in InUse(h, B) \ {heap_listp, ptr}

(* It is so with what a block and its free neighbours would join to. *)
LEMMA JoinIsSurrounded ==
    ASSUME NEW h, NEW B, NEW ptr, NEW size, NEW n, Wanted(h, B, ptr, size, n)
    PROVE  Surrounded(h, B, ptr, JoinFirst(h, ptr), JoinEnd(h, ptr))
<1>1. PICK prev, next, first, e :
        /\ prev = PREV_BLKP(h, ptr) /\ next = After(h, ptr)
        /\ first = JoinFirst(h, ptr) /\ e = JoinEnd(h, ptr)
  OBVIOUS
<1>2. PICK ns : ns = {q \in {prev, next} : Used(h, q) = 0}
  OBVIOUS
<1>3. /\ first = IF Used(h, prev) = 0 THEN prev ELSE ptr
      /\ e = IF Used(h, next) = 0 THEN After(h, next) ELSE next
  BY <1>1 DEF JoinFirst, JoinEnd
<1>4. Around(h, ptr, ns, first, e)
  BY <1>1, <1>2, <1>3 DEF Around
<1>5. /\ prev \in B /\ next \in B /\ prev # next /\ prev \in Nat /\ next \in Nat
      /\ Used(h, heap_listp) = 1 /\ Used(h, h.mem_brk) = 1
      /\ first \in B \ {heap_listp, h.mem_brk} /\ first \in Nat /\ first <= ptr
      /\ e \in B /\ e \in Nat /\ next <= e
      /\ \A c \in B : c \in ns <=> c # ptr /\ first <= c /\ c < e
      /\ Size(h, prev) \in Nat /\ prev + Size(h, prev) = ptr
  BY <1>1, <1>4, AroundFacts
<1>6. /\ Sound(h, B) /\ Tiling(h, B) /\ Coalesced(h, B) /\ ptr \in InUse(h, B)
      /\ ptr \in B \ {heap_listp, h.mem_brk} /\ ptr \in Nat
      /\ heap_listp \in B /\ h.mem_brk \in B
  BY WantedFacts DEF Sound, Tiling, Bounds
<1>7. After(h, ptr) = next /\ ptr < next /\ h.mem_brk \in Nat /\ next <= h.mem_brk
      /\ ptr < h.mem_brk
  BY <1>1, <1>6, BlockFacts
<1>8. \A c \in InUse(h, B) : first <= c /\ c < e => c = ptr
  BY <1>2, <1>5 DEF InUse
<1>9. \E c \in InUse(h, B) \ {ptr} : After(h, c) = first
  <2>1. CASE Used(h, prev) = 0
    <3>1. PICK c \in InUse(h, B) : After(h, c) = first
      BY <1>3, <1>5, <1>6, <2>1, InUseBefore
    <3>2. c \in B \ {h.mem_brk} /\ c < After(h, c) /\ c \in Nat
      BY <1>6, <3>1, BlockFacts DEF InUse
    <3> QED
      BY <1>5, <1>6, <3>1, <3>2
  <2>2. CASE Used(h, prev) # 0
    <3>1. After(h, prev) = ptr /\ first = ptr
      BY <1>3, <1>5, <2>2 DEF After
    <3>2. prev # h.mem_brk
      <4>1. prev <= ptr
        BY <1>5, <1>6
      <4> QED
        BY <1>5, <1>6, <1>7, <4>1
    <3>3. Used(h, prev) = 1 /\ prev < After(h, prev)
      BY <1>5, <1>6, <2>2, <3>2, BlockFacts
    <3>4. prev \in InUse(h, B) /\ prev # ptr
      BY <1>5, <1>6, <3>1, <3>2, <3>3 DEF InUse
    <3> QED
      BY <3>1, <3>4
  <2> QED
    BY <2>1, <2>2
<1>10. e = h.mem_brk \/ e \in InUse(h, B) \ {heap_listp, ptr}
  <2> SUFFICES ASSUME e # h.mem_brk
               PROVE  e \in InUse(h, B) \ {heap_listp, ptr}
    OBVIOUS
  <2>1. Used(h, e) = 1
    <3>1. CASE Used(h, next) = 0
      <4>1. next # h.mem_brk /\ e = After(h, next)
        BY <1>3, <1>5, <3>1
      <4> QED
        BY <1>5, <1>6, <3>1, <4>1 DEF Coalesced
    <3>2. CASE Used(h, next) # 0
      <4>1. e = next
        BY <1>3, <3>2
      <4> QED
        BY <1>5, <1>6, <3>2, <4>1, BlockFacts
    <3> QED
      BY <3>1, <3>2
  <2>2. heap_listp <= ptr /\ heap_listp \in Nat
    BY <1>6, BlockFacts
  <2>3. ptr < e
    BY <1>5, <1>6, <1>7
  <2> QED
    BY <1>5, <1>6, <2>1, <2>2, <2>3 DEF InUse
<1> QED
  BY <1>1, <1>5, <1>7, <1>8, <1>9, <1>10 DEF Surrounded

(* The extents but for the one of i. *)
HeldBut(h, at, i) == {[lo |-> at[j], hi |-> After(h, at[j])] : j \in Others(at, i)}

(* They are the blocks in use but for the one of i and the prologue. *)
LEMMA HeldButAreBlocks ==
    ASSUME NEW h, NEW C, NEW at, NEW sz, ClientHas(h, C, at, sz, LiveOf(at), {}),
           NEW i \in LiveOf(at), NEW hs, hs = HeldBut(h, at, i)
    PROVE  /\ \A e \in hs : e.lo \in InUse(h, C) \ {heap_listp, at[i]} /\ e.hi = After(h, e.lo)
           /\ \A b \in InUse(h, C) \ {heap_listp, at[i]} :
                 \E e \in hs : e.lo = b /\ e.hi = After(h, b)
           /\ hs = HeldOf(h, at) \ {[lo |-> at[i], hi |-> After(h, at[i])]}
<1>1. /\ InUse(h, C) = {heap_listp} \cup {at[j] : j \in LiveOf(at)}
      /\ \A j \in LiveOf(at) : at[j] # heap_listp
      /\ \A j \in LiveOf(at) : at[i] = at[j] => i = j
  BY DEF ClientHas
<1>2. ASSUME NEW e \in hs
      PROVE  e.lo \in InUse(h, C) \ {heap_listp, at[i]} /\ e.hi = After(h, e.lo)
  <2>1. PICK j \in Others(at, i) : e = [lo |-> at[j], hi |-> After(h, at[j])]
    BY DEF HeldBut
  <2> QED
    BY <1>1, <2>1 DEF Others
<1>3. ASSUME NEW b \in InUse(h, C) \ {heap_listp, at[i]}
      PROVE  \E e \in hs : e.lo = b /\ e.hi = After(h, b)
  <2>1. PICK j \in LiveOf(at) : b = at[j]
    BY <1>1
  <2>2. PICK e : e = [lo |-> at[j], hi |-> After(h, at[j])]
    OBVIOUS
  <2>3. j \in Others(at, i)
    BY <2>1 DEF Others
  <2>4. e \in hs
    BY <2>2, <2>3 DEF HeldBut
  <2> QED
    BY <2>1, <2>2, <2>4
<1>4. hs = HeldOf(h, at) \ {[lo |-> at[i], hi |-> After(h, at[i])]}
  <2>1. PICK x : x = [lo |-> at[i], hi |-> After(h, at[i])]
    OBVIOUS
  <2>2. \A e \in hs : e \in HeldOf(h, at) /\ e # x
    <3>1. \A e \in hs : e \in HeldOf(h, at)
      BY DEF HeldBut, HeldOf, Others
    <3>2. \A e \in hs : e.lo # x.lo
      BY <1>2, <2>1
    <3> QED
      BY <3>1, <3>2
  <2>3. ASSUME NEW e \in HeldOf(h, at), e # x
        PROVE  e \in hs
    <3>1. PICK j \in LiveOf(at) : e = [lo |-> at[j], hi |-> After(h, at[j])]
      BY DEF HeldOf
    <3>2. j # i
      BY <2>1, <2>3, <3>1
    <3> QED
      BY <3>1, <3>2 DEF HeldBut, Others
  <2> QED
    BY <2>1, <2>2, <2>3
<1> QED
  BY <1>2, <1>3, <1>4

(* The ends that a gap can have. *)
GapEnds(hs, t, g) ==
    /\ g.lo = mem_start_brk + 2 * DSIZE \/ \E e \in hs : g.lo = e.hi
    /\ g.hi = t \/ \E e \in hs : g.hi = e.lo
    /\ g.lo < g.hi /\ \A e \in hs : e.hi <= g.lo \/ g.hi <= e.lo

(* What a gap is. *)
LEMMA GapsAre ==
    ASSUME NEW hs, NEW t
    PROVE  /\ \A g \in Promise!Gaps(hs, t) :
                 GapEnds(hs, t, g) /\ g = [lo |-> g.lo, hi |-> g.hi]
           /\ \A g : g = [lo |-> g.lo, hi |-> g.hi] /\ GapEnds(hs, t, g)
                        => g \in Promise!Gaps(hs, t)
<1> DEFINE los == {mem_start_brk + 2 * DSIZE} \cup {e.hi : e \in hs}
           his == {t} \cup {e.lo : e \in hs}
<1>1. Promise!Gaps(hs, t) =
        {g \in [lo : los, hi : his] :
            g.lo < g.hi /\ \A e \in hs : e.hi <= g.lo \/ g.hi <= e.lo}
  BY Zenon DEF Promise!Gaps
<1>2. /\ \A x : x \in los <=> x = mem_start_brk + 2 * DSIZE \/ \E e \in hs : x = e.hi
      /\ \A x : x \in his <=> x = t \/ \E e \in hs : x = e.lo
  OBVIOUS
<1> HIDE DEF los, his
<1>3. \A g : g \in [lo : los, hi : his] <=>
                g = [lo |-> g.lo, hi |-> g.hi] /\ g.lo \in los /\ g.hi \in his
  OBVIOUS
<1>4. \A g : g \in Promise!Gaps(hs, t) <=>
                g = [lo |-> g.lo, hi |-> g.hi] /\ GapEnds(hs, t, g)
  BY <1>1, <1>2, <1>3 DEF GapEnds
<1> QED
  BY <1>4

(* The gap from first to k is the only one around ptr. *)
OnlyRoom(h, ptr, hs, first, k) ==
    /\ \E g \in Promise!Gaps(hs, h.mem_brk) : g.lo = first /\ g.hi = k
    /\ \A g \in Promise!Gaps(hs, h.mem_brk) :
          g.lo <= ptr /\ After(h, ptr) <= g.hi => g.lo = first /\ g.hi = k

(* It is what the block and its free neighbours would join to.             *)
LEMMA RoomIsJoin ==
    ASSUME NEW h, NEW C, NEW at, NEW sz, ClientHas(h, C, at, sz, LiveOf(at), {}),
           NEW i \in LiveOf(at), NEW ptr, ptr = at[i],
           NEW size, NEW n, Wanted(h, C, ptr, size, n),
           NEW hs, hs = HeldBut(h, at, i),
           NEW first, first = JoinFirst(h, ptr), NEW k, k = JoinEnd(h, ptr)
    PROVE  OnlyRoom(h, ptr, hs, first, k)
<1>0. PICK t : t = h.mem_brk
  OBVIOUS
<1>1. /\ first \in C \ {heap_listp} /\ k \in C /\ first \in Nat /\ k \in Nat
      /\ first <= ptr /\ After(h, ptr) <= k
      /\ \A c \in InUse(h, C) : first <= c /\ c < k => c = ptr
      /\ \E c \in InUse(h, C) \ {ptr} : After(h, c) = first
      /\ k = h.mem_brk \/ k \in InUse(h, C) \ {heap_listp, ptr}
  BY JoinIsSurrounded DEF Surrounded
<1>2. /\ \A e \in hs : e.lo \in InUse(h, C) \ {heap_listp, ptr} /\ e.hi = After(h, e.lo)
      /\ \A b \in InUse(h, C) \ {heap_listp, ptr} :
            \E e \in hs : e.lo = b /\ e.hi = After(h, b)
  BY HeldButAreBlocks
<1>3. /\ Tiling(h, C) /\ ptr \in C \ {heap_listp, h.mem_brk} /\ ptr \in Nat
      /\ After(h, ptr) \in Nat /\ ptr < After(h, ptr) /\ h.mem_brk \in Nat
      /\ h.mem_brk \in C /\ heap_listp \in C \ {h.mem_brk}
  <2>1. /\ Tiling(h, C) /\ ptr \in C \ {heap_listp, h.mem_brk}
        /\ h.mem_brk \in C /\ heap_listp \in C
    BY WantedFacts DEF Tiling, Bounds
  <2>2. /\ ptr \in Nat /\ After(h, ptr) \in Nat /\ ptr < After(h, ptr)
        /\ h.mem_brk \in Nat /\ Size(h, h.mem_brk) = 0 /\ Size(h, heap_listp) = 8
    BY <2>1, BlockFacts
  <2> QED
    BY <2>1, <2>2
<1>4. \A c \in C \ {h.mem_brk} :
         /\ c \in Nat /\ After(h, c) \in C /\ After(h, c) \in Nat /\ c < After(h, c)
         /\ \A b \in C \ {h.mem_brk} : b < c => After(h, b) <= c
         /\ \A b \in C : c < b => After(h, c) <= b
  BY <1>3, BlockFacts
<1>5. mem_start_brk + 2 * DSIZE = After(h, heap_listp)
  <2>1. After(h, heap_listp) = mem_start_brk + 2 * DSIZE
    BY HeldAreBlocks
  <2> QED
    BY <2>1
<1>6. \A c \in InUse(h, C) : c \in C \ {h.mem_brk}
  BY DEF InUse
<1>7. heap_listp \in InUse(h, C) /\ heap_listp # ptr
  BY <1>3, BlockFacts DEF InUse
<1>8. PICK c0 \in InUse(h, C) \ {ptr} : After(h, c0) = first
  BY <1>1
<1>9. \A b \in C : b \in Nat /\ b <= h.mem_brk /\ heap_listp <= b /\ heap_listp \in Nat
  BY <1>3, BlockFacts
<1>10. \E g \in Promise!Gaps(hs, t) : g.lo = first /\ g.hi = k
  <2>1. PICK g : g = [lo |-> first, hi |-> k]
    OBVIOUS
  <2>2. first = mem_start_brk + 2 * DSIZE \/ \E e \in hs : first = e.hi
    <3>1. CASE c0 = heap_listp
      BY <1>5, <1>8, <3>1
    <3>2. CASE c0 # heap_listp
      BY <1>2, <1>8, <3>2
    <3> QED
      BY <3>1, <3>2
  <2>3. k = t \/ \E e \in hs : k = e.lo
    BY <1>0, <1>1, <1>2
  <2>4. first < k
    BY <1>1, <1>3
  <2>5. ASSUME NEW e \in hs
        PROVE  e.hi <= first \/ k <= e.lo
    <3>1. e.lo \in InUse(h, C) /\ e.lo # ptr /\ e.hi = After(h, e.lo)
      BY <1>2
    <3>2. e.lo \in C \ {h.mem_brk} /\ e.lo \in Nat
      BY <1>4, <1>6, <3>1
    <3>3. ~(first <= e.lo /\ e.lo < k)
      BY <1>1, <3>1
    <3>4. e.lo < first => After(h, e.lo) <= first
      BY <1>1, <1>4, <3>2
    <3> QED
      BY <1>1, <3>1, <3>2, <3>3, <3>4
  <2>6. GapEnds(hs, t, g) /\ g = [lo |-> g.lo, hi |-> g.hi]
    BY <2>1, <2>2, <2>3, <2>4, <2>5 DEF GapEnds
  <2>7. g \in Promise!Gaps(hs, t)
    BY <2>6, GapsAre
  <2> QED
    BY <2>1, <2>7
<1>11. ASSUME NEW g \in Promise!Gaps(hs, t), g.lo <= ptr, After(h, ptr) <= g.hi
       PROVE  g.lo = first /\ g.hi = k
  <2>1. GapEnds(hs, t, g)
    BY GapsAre
  <2>2. PICK x, y : x = g.lo /\ y = g.hi
    OBVIOUS
  <2>3. /\ x = After(h, heap_listp) \/ \E e \in hs : x = e.hi
        /\ y = h.mem_brk \/ \E e \in hs : y = e.lo
        /\ x < y /\ \A e \in hs : e.hi <= x \/ y <= e.lo
        /\ x <= ptr /\ After(h, ptr) <= y
    BY <1>0, <1>5, <1>11, <2>1, <2>2 DEF GapEnds
  <2>4. PICK c \in InUse(h, C) \ {ptr} : After(h, c) = x
    <3>1. CASE x = After(h, heap_listp)
      BY <1>7, <3>1
    <3>2. CASE \E e \in hs : x = e.hi
      <4>1. PICK e \in hs : x = e.hi
        BY <3>2
      <4>2. e.lo \in InUse(h, C) \ {ptr} /\ After(h, e.lo) = x
        BY <1>2, <4>1
      <4> QED
        BY <4>2
    <3> QED
      BY <2>3, <3>1, <3>2
  <2>5. c \in C \ {h.mem_brk} /\ c \in Nat /\ x \in C /\ x \in Nat /\ c < x
    BY <1>4, <1>6, <2>4
  <2>6. y = h.mem_brk \/ y \in InUse(h, C) \ {heap_listp, ptr}
    BY <1>2, <2>3
  <2>7. y \in C /\ y \in Nat
    BY <1>3, <1>4, <1>6, <2>6
  <2>8. first <= x
    <3>1. CASE c0 = heap_listp
      <4>1. heap_listp = c \/ heap_listp < c
        BY <1>9, <2>5
      <4>2. heap_listp < c => After(h, heap_listp) <= c
        BY <1>3, <1>4, <2>5
      <4> QED
        BY <1>1, <1>8, <2>4, <2>5, <3>1, <4>1, <4>2
    <3>2. CASE c0 # heap_listp
      <4>1. PICK e \in hs : e.lo = c0 /\ e.hi = first
        BY <1>2, <1>8, <3>2
      <4>2. first <= x \/ y <= c0
        BY <2>3, <4>1
      <4>3. c0 < first /\ c0 \in Nat
        BY <1>4, <1>6, <1>8
      <4> QED
        BY <1>1, <1>3, <2>3, <2>7, <4>2, <4>3
    <3> QED
      BY <3>1, <3>2
  <2>9. x <= first
    <3> SUFFICES ASSUME first < x
                 PROVE  FALSE
      BY <1>1, <2>5
    <3>1. first <= c
      <4> SUFFICES ASSUME c < first
                   PROVE  FALSE
        BY <1>1, <2>5
      <4>1. x <= first
        BY <1>1, <1>4, <2>4, <2>5
      <4> QED
        BY <1>1, <2>5, <4>1
    <3>2. c < k
      BY <1>1, <1>3, <2>3, <2>5
    <3> QED
      BY <1>1, <2>4, <3>1, <3>2
  <2>10. k <= y
    <3> SUFFICES ASSUME y < k
                 PROVE  FALSE
      BY <1>1, <2>7
    <3>1. y \in InUse(h, C) \ {ptr}
      BY <1>1, <1>3, <1>9, <2>6
    <3>2. first <= y
      BY <1>1, <1>3, <2>3, <2>7
    <3> QED
      BY <1>1, <3>1, <3>2
  <2>11. y <= k
    <3> SUFFICES ASSUME k < y
                 PROVE  FALSE
      BY <1>1, <2>7
    <3>1. k \in InUse(h, C) \ {heap_listp, ptr}
      BY <1>1, <1>9, <2>7
    <3>2. PICK e \in hs : e.lo = k /\ e.hi = After(h, k)
      BY <1>2, <3>1
    <3>3. After(h, k) <= x \/ y <= k
      BY <2>3, <3>2
    <3>4. k < After(h, k) /\ After(h, k) \in Nat
      BY <1>4, <1>6, <3>1
    <3> QED
      BY <1>1, <1>3, <2>3, <2>5, <2>7, <3>3, <3>4
  <2> QED
    BY <1>1, <2>2, <2>5, <2>7, <2>8, <2>9, <2>10, <2>11
<1> QED
  BY <1>0, <1>10, <1>11 DEF OnlyRoom

-----------------------------------------------------------------------------
(* The steps of the driver, told of the arena.                             *)

(* What the extents E show of the block ptr of i: its ends, and that the    *)
(* room around it goes from first to k.                                     *)
RoomSeen(E, i, ptr, first, k) ==
    /\ E[i].lo = ptr /\ E[i].hi = After(heap, ptr)
    /\ E[i] # [lo |-> 0, hi |-> 0] /\ i \in Ids
    /\ \E g \in Promise!Rooms(i) : g.lo = first /\ g.hi = k
    /\ \A g \in Promise!Rooms(i) : g.lo = first /\ g.hi = k

(* The arena sees the block of i and its room. *)
LEMMA ExtentSeen ==
    ASSUME NEW C, ClientHas(heap, C, blocks, block_sizes, LiveOf(blocks), {}),
           NEW i \in LiveOf(blocks), NEW ptr, ptr = blocks[i],
           NEW size, NEW n, Wanted(heap, C, ptr, size, n),
           NEW E, E = [j \in Ids |-> Extent(j)],
           NEW first, first = JoinFirst(heap, ptr), NEW k, k = JoinEnd(heap, ptr)
    PROVE  RoomSeen(E, i, ptr, first, k)
<1>1. E = ExtentsOf(heap, blocks) /\ Promise!Held = HeldOf(heap, blocks)
  BY ArenaSees
<1>2. E[i] = [lo |-> ptr, hi |-> After(heap, ptr)] /\ E[i] # [lo |-> 0, hi |-> 0]
  BY <1>1, ExtentsEnd
<1>3. PICK hs, t : hs = HeldBut(heap, blocks, i) /\ t = heap.mem_brk
  OBVIOUS
<1>4. hs = Promise!Held \ {E[i]}
  BY <1>1, <1>2, <1>3, HeldButAreBlocks
<1>5. /\ \E g \in Promise!Gaps(hs, t) : g.lo = first /\ g.hi = k
      /\ \A g \in Promise!Gaps(hs, t) :
            g.lo <= ptr /\ After(heap, ptr) <= g.hi => g.lo = first /\ g.hi = k
  <2>1. OnlyRoom(heap, ptr, hs, first, k)
    BY <1>3, RoomIsJoin
  <2> QED
    BY <1>3, <2>1 DEF OnlyRoom
<1>6. Promise!Rooms(i) =
        {g \in Promise!Gaps(Promise!Held \ {E[i]}, heap.mem_brk) :
            g.lo <= E[i].lo /\ E[i].hi <= g.hi}
  BY DEF Promise!Rooms
<1>7. E[i].lo = ptr /\ E[i].hi = After(heap, ptr)
  BY <1>2
<1>8. Promise!Rooms(i) = {g \in Promise!Gaps(hs, t) : g.lo <= ptr /\ After(heap, ptr) <= g.hi}
  BY <1>3, <1>4, <1>6, <1>7
<1>9. first <= ptr /\ After(heap, ptr) <= k
  BY JoinIsSurrounded DEF Surrounded
<1>10. i \in Ids
  BY DEF LiveOf
<1> QED
  BY <1>2, <1>5, <1>7, <1>8, <1>9, <1>10 DEF RoomSeen

(* The extent of i becomes e, and the break t; the other extents stay.     *)
Becomes(i, e, t) ==
    /\ [j \in Ids |-> Extent(j)]' = [[j \in Ids |-> Extent(j)] EXCEPT ![i] = e]
    /\ \A j \in Ids : j # i => [l \in Ids |-> Extent(l)]'[j] = [l \in Ids |-> Extent(l)][j]
    /\ heap'.mem_brk = t

(* A block that is handed out becomes the extent of i. *)
LEMMA HandsExtent ==
    ASSUME NEW C, Order(heap, C, blocks, block_sizes, ranges, verdict),
           NEW i \in Ids, NEW k, Hands(i, k),
           NEW e, e = [lo |-> k.ret, hi |-> After(k, k.ret)], NEW t, t = k.mem_brk
    PROVE  Becomes(i, e, t)
<1>1. PICK D : Order(heap', D, blocks', block_sizes', ranges', verdict')
  BY DEF Hands, StaysInOrder
<1>2. /\ ClientHas(heap, C, blocks, block_sizes, LiveOf(blocks), {})
      /\ ClientHas(heap', D, blocks', block_sizes', LiveOf(blocks'), {})
  BY <1>1 DEF Order
<1>3. /\ heap'.ret = k.ret /\ heap'.mem_brk = k.mem_brk
      /\ After(heap', heap'.ret) = After(k, k.ret)
      /\ heap'.ret \in Nat /\ heap'.ret # NULL
      /\ blocks' = [blocks EXCEPT ![i] = heap'.ret]
      /\ \A j \in Others(blocks, i) : After(heap', blocks[j]) = After(heap, blocks[j])
  BY DEF Hands, Given
<1>4. PICK p : p = heap'.ret
  OBVIOUS
<1>5. Changes(heap, blocks, heap', blocks', i, p)
  BY <1>3, <1>4 DEF Changes
<1>6. /\ ExtentsOf(heap', blocks') = [ExtentsOf(heap, blocks) EXCEPT ![i] = PartFrom(heap', p)]
      /\ \A j \in Ids : j # i => ExtentsOf(heap', blocks')[j] = ExtentsOf(heap, blocks)[j]
  BY <1>2, <1>5, OneExtentChanges
<1>7. PartFrom(heap', p) = e
  BY <1>3, <1>4 DEF PartFrom
<1> DEFINE E == [j \in Ids |-> Extent(j)]
<1>8. E = ExtentsOf(heap, blocks) /\ E' = ExtentsOf(heap', blocks')
  BY DEF Extent, ExtentsOf
<1> HIDE DEF E
<1>9. E' = [E EXCEPT ![i] = e] /\ \A j \in Ids : j # i => E'[j] = E[j]
  BY <1>6, <1>7, <1>8
<1> QED
  BY <1>3, <1>9 DEF Becomes, E

(* So the arena holds it for i. *)
LEMMA BecomesHeld ==
    ASSUME NEW i, NEW e, NEW t, Becomes(i, e, t), package' = package,
           verdict = "ok", verdict' = "ok"
    PROVE  Promise!Hold(i, e, t)
<1> DEFINE E == [j \in Ids |-> Extent(j)]
<1>1. E' = [E EXCEPT ![i] = e] /\ heap'.mem_brk = t
  BY DEF Becomes
<1> HIDE DEF E
<1> QED
  BY <1>1 DEF Promise!Hold, E

(* An error leaves the extents alone. *)
LEMMA ErrsExtents ==
    ASSUME NEW C, Order(heap, C, blocks, block_sizes, ranges, verdict), Errs
    PROVE  [j \in Ids |-> Extent(j)]' = [j \in Ids |-> Extent(j)]
<1>1. PICK D : Order(heap', D, blocks', block_sizes', ranges', verdict')
  BY DEF Errs, StaysInOrder
<1>2. /\ ClientHas(heap, C, blocks, block_sizes, LiveOf(blocks), {})
      /\ ClientHas(heap', D, blocks', block_sizes', LiveOf(blocks'), {})
  BY <1>1 DEF Order
<1>3. /\ blocks' = blocks
      /\ \A j \in LiveOf(blocks) : After(heap', blocks[j]) = After(heap, blocks[j])
  BY DEF Errs
<1>4. ClientHas(heap', D, blocks, block_sizes', LiveOf(blocks), {})
  BY <1>2, <1>3
<1>5. ExtentsOf(heap', blocks) = ExtentsOf(heap, blocks)
  BY <1>2, <1>3, <1>4, NoExtentChanges
<1> DEFINE E == [j \in Ids |-> Extent(j)]
<1>6. E = ExtentsOf(heap, blocks) /\ E' = ExtentsOf(heap', blocks')
  BY DEF Extent, ExtentsOf
<1> QED
  BY <1>3, <1>5, <1>6

(* A request about i is a step of the arena. *)
LEMMA RequestIsNext ==
    ASSUME verdict = "ok", NEW i \in Ids, NEW size \in Sizes, NEW n, n = Adjusted(size),
           \A j \in Ids : j # i => [l \in Ids |-> Extent(l)]'[j] = [l \in Ids |-> Extent(l)][j],
           Promise!Request(i, n)
    PROVE  Promise!Next
<1> DEFINE E == [j \in Ids |-> Extent(j)]
<1>1. n \in {Adjusted(s) : s \in Sizes}
  OBVIOUS
<1>2. \A j \in Ids : j # i => E'[j] = E[j]
  OBVIOUS
<1> HIDE DEF E
<1> QED
  BY <1>1, <1>2 DEF Promise!Next, E

(* A new block is one of the arena's places. *)
LEMMA GrantIsPlace ==
    ASSUME NEW C, Order(heap, C, blocks, block_sizes, ranges, verdict),
           NEW n \in Nat \ {0}, NEW k, Granted(heap, C, k, n),
           NEW e, e = [lo |-> k.ret, hi |-> After(k, k.ret)], NEW t, t = k.mem_brk
    PROVE  \E p \in Promise!Places(n) : p.at = e /\ p.top = t
<1>1. ClientHas(heap, C, blocks, block_sizes, LiveOf(blocks), {})
  BY DEF Order
<1>2. [at |-> e, top |-> t] \in Promise!Places(n)
  BY <1>1, GrantedIsPlace
<1>3. PICK p : p = [at |-> e, top |-> t]
  OBVIOUS
<1> QED
  BY <1>2, <1>3

(* A request for a block is one of the arena.                              *)
LEMMA AllocMaps ==
    ASSUME Inductive, package' = package,
           NEW C, Order(heap, C, blocks, block_sizes, ranges, verdict),
           NEW i \in Ids, NEW size \in Sizes, Alloc(i, size)
    PROVE  Promise!Next
<1>1. PICK n : n = Adjusted(size)
  OBVIOUS
<1>2. n \in Nat \ {0}
  BY <1>1, SizesAreWords, AdjustedIsEnough DEF MINIMUM
<1>3. verdict = "ok" /\ i \in Ids \ LiveOf(blocks)
  BY DEF Alloc, Live, LiveOf
<1>4. ClientHas(heap, C, blocks, block_sizes, LiveOf(blocks), {})
  BY DEF Order
<1>5. PICK E : E = [j \in Ids |-> Extent(j)]
  OBVIOUS
<1>6. E[i] = [lo |-> 0, hi |-> 0]
  BY <1>3, <1>4, <1>5, ArenaSees, ExtentsEnd
<1>7. CASE \E k : Hands(i, k) /\ Granted(heap, C, k, n)
  <2>1. PICK k : Hands(i, k) /\ Granted(heap, C, k, n)
    BY <1>7
  <2>2. PICK e, t : e = [lo |-> k.ret, hi |-> After(k, k.ret)] /\ t = k.mem_brk
    OBVIOUS
  <2>3. PICK p \in Promise!Places(n) : p.at = e /\ p.top = t
    BY <1>2, <2>1, <2>2, GrantIsPlace
  <2>4. Becomes(i, e, t)
    BY <2>1, <2>2, HandsExtent
  <2>5. Promise!Hold(i, p.at, p.top)
    BY <1>3, <2>1, <2>3, <2>4, BecomesHeld DEF Hands
  <2>6. Promise!Give(i, n)
    BY <1>5, <1>6, <2>3, <2>5 DEF Promise!Give, Promise!None
  <2>7. Promise!Request(i, n)
    BY <2>6 DEF Promise!Request
  <2> QED
    BY <1>1, <1>3, <2>4, <2>7, RequestIsNext DEF Becomes
<1>8. CASE Errs /\ Full(heap, C, n)
  <2>1. Promise!Places(n) = {}
    BY <1>2, <1>4, <1>8, DeniedHasNoPlace
  <2>2. [j \in Ids |-> Extent(j)]' = [j \in Ids |-> Extent(j)]
    BY <1>8, ErrsExtents
  <2>3. Promise!Refuse(i, n)
    BY <1>8, <2>1, <2>2 DEF Promise!Refuse, Errs
  <2>4. Promise!Request(i, n)
    BY <2>3 DEF Promise!Request
  <2> QED
    BY <1>1, <1>3, <2>2, <2>4, RequestIsNext
<1> QED
  BY <1>1, <1>7, <1>8, AllocKeeps

(* What is asked of the arena when the block ptr of i gets n bytes. *)
Asks(C, i, ptr, size, n) ==
    /\ Order(heap, C, blocks, block_sizes, ranges, verdict)
    /\ verdict = "ok" /\ package' = package
    /\ i \in LiveOf(blocks) /\ ptr = blocks[i] /\ size \in Sizes /\ n = Adjusted(size)
    /\ package = "mm" => Wanted(heap, C, ptr, size, n)

(* What is known then. *)
LEMMA AsksFacts ==
    ASSUME NEW C, NEW i, NEW ptr, NEW size, NEW n, Asks(C, i, ptr, size, n)
    PROVE  /\ ClientHas(heap, C, blocks, block_sizes, LiveOf(blocks), {})
           /\ n \in Nat \ {0} /\ i \in Ids
           /\ [j \in Ids |-> Extent(j)][i] # [lo |-> 0, hi |-> 0]
           /\ [j \in Ids |-> Extent(j)][i].lo = ptr
           /\ [j \in Ids |-> Extent(j)][i].hi = After(heap, ptr)
           /\ ptr \in C \ {heap.mem_brk} /\ Tiling(heap, C)
<1>1. ClientHas(heap, C, blocks, block_sizes, LiveOf(blocks), {}) /\ i \in LiveOf(blocks)
      /\ i \in Ids /\ ptr = blocks[i] /\ size \in Sizes /\ n = Adjusted(size)
  BY DEF Asks, Order, LiveOf
<1>2. n \in Nat \ {0}
  BY <1>1, SizesAreWords, AdjustedIsEnough DEF MINIMUM
<1>3. PICK E : E = [j \in Ids |-> Extent(j)]
  OBVIOUS
<1>4. E[i] = [lo |-> ptr, hi |-> After(heap, ptr)] /\ E[i] # [lo |-> 0, hi |-> 0]
  <2>1. E = ExtentsOf(heap, blocks)
    BY <1>1, <1>3, ArenaSees
  <2>2. /\ ExtentsOf(heap, blocks)[i] = [lo |-> blocks[i], hi |-> After(heap, blocks[i])]
        /\ ExtentsOf(heap, blocks)[i] # [lo |-> 0, hi |-> 0]
    BY <1>1, ExtentsEnd
  <2> QED
    BY <1>1, <2>1, <2>2
<1>5. ptr \in InUse(heap, C) /\ Tiling(heap, C)
  BY <1>1, HeldAreBlocks
<1> QED
  BY <1>1, <1>2, <1>3, <1>4, <1>5 DEF InUse

(* And the room, if the package is mm.c. *)
LEMMA AsksRoom ==
    ASSUME NEW C, NEW i, NEW ptr, NEW size, NEW n, Asks(C, i, ptr, size, n),
           package = "mm", NEW E, E = [j \in Ids |-> Extent(j)],
           NEW first, first = JoinFirst(heap, ptr), NEW k, k = JoinEnd(heap, ptr)
    PROVE  RoomSeen(E, i, ptr, first, k)
<1>1. ClientHas(heap, C, blocks, block_sizes, LiveOf(blocks), {})
  BY AsksFacts
<1>2. i \in LiveOf(blocks) /\ ptr = blocks[i] /\ Wanted(heap, C, ptr, size, n)
  BY DEF Asks
<1> QED
  BY <1>1, <1>2, ExtentSeen

(* A block that may move has no room beside it that it must use. *)
LEMMA MayMoveMaps ==
    ASSUME NEW C, NEW i, NEW ptr, NEW size, NEW n, Asks(C, i, ptr, size, n),
           package = "mm", MayMove(heap, ptr, n)
    PROVE  Promise!Loose(i, n) \/ ~(Promise!CanStay(i, n) \/ Promise!IsLast(i))
<1>1. PICK E, first, k : /\ E = [j \in Ids |-> Extent(j)]
                         /\ first = JoinFirst(heap, ptr) /\ k = JoinEnd(heap, ptr)
  OBVIOUS
<1>2. /\ E[i].lo = ptr /\ E[i].hi = After(heap, ptr)
      /\ \A g \in Promise!Rooms(i) : g.lo = first /\ g.hi = k
  <2>1. RoomSeen(E, i, ptr, first, k)
    BY <1>1, AsksRoom
  <2> QED
    BY <2>1 DEF RoomSeen
<1>3. /\ ptr \in Nat /\ Size(heap, ptr) \in Nat /\ n \in Nat
      /\ After(heap, ptr) = ptr + Size(heap, ptr)
  <2>1. ptr \in C \ {heap.mem_brk} /\ Tiling(heap, C) /\ n \in Nat
    BY AsksFacts
  <2>2. ptr \in Nat /\ Size(heap, ptr) \in Nat
    BY <2>1, BlockFacts
  <2> QED
    BY <2>1, <2>2 DEF After
<1>4. CASE n < Size(heap, ptr) /\ ~(n + 16 <= Size(heap, ptr))
  <2>1. E[i].hi - E[i].lo \in n + 1 .. n + 16 - 1
    BY <1>2, <1>3, <1>4
  <2> QED
    BY <1>1, <2>1 DEF Promise!Loose, Promise!Length, MINIMUM
<1>5. CASE Outgrown(heap, ptr, n) /\ After(heap, ptr) # heap.mem_brk
  <2>1. first \in Nat /\ k \in Nat
    BY <1>1, JoinIsSurrounded DEF Surrounded, Asks
  <2>2. k - first < n
    BY <1>1, <1>5 DEF Outgrown
  <2>3. ~Promise!CanStay(i, n)
    BY <1>2, <1>3, <2>1, <2>2 DEF Promise!CanStay, Promise!Length
  <2>4. ~Promise!IsLast(i)
    BY <1>1, <1>2, <1>5 DEF Promise!IsLast
  <2> QED
    BY <2>3, <2>4
<1> QED
  BY <1>4, <1>5 DEF MayMove

(* A block that moves is moved in the arena. *)
LEMMA MoveMaps ==
    ASSUME NEW C, NEW i, NEW ptr, NEW size, NEW n, Asks(C, i, ptr, size, n),
           NEW k, Hands(i, k), Resettled(heap, C, ptr, n, k)
    PROVE  Promise!Next
<1>1. /\ Order(heap, C, blocks, block_sizes, ranges, verdict) /\ verdict = "ok"
      /\ package' = package /\ size \in Sizes /\ n = Adjusted(size)
  BY DEF Asks
<1>2. /\ n \in Nat \ {0} /\ i \in Ids
      /\ [j \in Ids |-> Extent(j)][i] # [lo |-> 0, hi |-> 0]
  BY AsksFacts
<1>3. PICK e, t : e = [lo |-> k.ret, hi |-> After(k, k.ret)] /\ t = k.mem_brk
  OBVIOUS
<1>4. PICK p \in Promise!Places(n) : p.at = e /\ p.top = t
  BY <1>1, <1>2, <1>3, GrantIsPlace DEF Resettled
<1>5. Becomes(i, e, t)
  BY <1>1, <1>2, <1>3, HandsExtent
<1>6. Promise!Hold(i, p.at, p.top)
  BY <1>1, <1>4, <1>5, BecomesHeld DEF Hands
<1>7. package = "mm" => Promise!Loose(i, n) \/ ~(Promise!CanStay(i, n) \/ Promise!IsLast(i))
  BY MayMoveMaps DEF Resettled
<1>8. Promise!Move(i, n)
  <2> DEFINE E == [j \in Ids |-> Extent(j)]
  <2>1. E[i] # [lo |-> 0, hi |-> 0]
    BY <1>2
  <2> HIDE DEF E
  <2> QED
    BY <1>4, <1>6, <1>7, <2>1, Zenon DEF Promise!Move, Promise!None, E
<1>9. Promise!Request(i, n)
  BY <1>8 DEF Promise!Request
<1> QED
  BY <1>1, <1>2, <1>5, <1>9, RequestIsNext DEF Becomes

(* A block that keeps to its room fits there in the arena. *)
LEMMA FitMaps ==
    ASSUME NEW C, NEW i, NEW ptr, NEW size, NEW n, Asks(C, i, ptr, size, n),
           NEW k, Hands(i, k), package = "mm", StaysPut(heap, C, ptr, size, n, k)
    PROVE  Promise!Next
<1>1. /\ Order(heap, C, blocks, block_sizes, ranges, verdict) /\ verdict = "ok"
      /\ package' = package /\ size \in Sizes /\ n = Adjusted(size)
      /\ Wanted(heap, C, ptr, size, n) /\ i \in LiveOf(blocks) /\ ptr = blocks[i]
  BY DEF Asks
<1>2. PICK e, t, lo, hi : /\ lo = k.ret /\ hi = After(k, k.ret)
                          /\ e = [lo |-> k.ret, hi |-> After(k, k.ret)] /\ t = k.mem_brk
  OBVIOUS
<1>3. PICK E, first, last : /\ E = [j \in Ids |-> Extent(j)]
                            /\ first = JoinFirst(heap, ptr) /\ last = JoinEnd(heap, ptr)
  OBVIOUS
<1>4. /\ E[i].lo = ptr /\ E[i].hi = After(heap, ptr)
      /\ E[i] # [lo |-> 0, hi |-> 0] /\ i \in Ids
      /\ \E g \in Promise!Rooms(i) : g.lo = first /\ g.hi = last
  <2>1. RoomSeen(E, i, ptr, first, last)
    BY <1>3, AsksRoom
  <2> QED
    BY <2>1 DEF RoomSeen
<1>5. PICK room \in Promise!Rooms(i) : room.lo = first /\ room.hi = last
  BY <1>4
<1>6. /\ lo \in {ptr, first} /\ hi \in {After(heap, ptr), ptr + n, last}
      /\ hi = last \/ last - hi >= MINIMUM
      /\ t = heap.mem_brk
  BY <1>2, <1>3 DEF StaysPut, InRoom
<1>7. hi - lo >= n
  <2>1. lo \in Nat /\ hi \in Nat /\ lo + n <= hi
    BY <1>2 DEF StaysPut, Carries, Serves
  <2>2. n \in Nat
    BY AsksFacts
  <2> QED
    BY <2>1, <2>2
<1>8. e \in Promise!Around(i, room, n)
  <2>1. PICK los, his : los = {ptr, first} /\ his = {After(heap, ptr), ptr + n, last}
    OBVIOUS
  <2>2. e \in [lo : los, hi : his] /\ e.lo = lo /\ e.hi = hi
    BY <1>2, <1>6, <2>1
  <2>3. Promise!Around(i, room, n) =
          {f \in [lo : los, hi : his] :
              f.hi - f.lo >= n /\ (f.hi = last \/ last - f.hi >= MINIMUM)}
    BY <1>3, <1>4, <1>5, <2>1 DEF Promise!Around, Promise!Length
  <2> QED
    BY <1>6, <1>7, <2>2, <2>3
<1>9. Becomes(i, e, t)
  BY <1>1, <1>2, <1>4, HandsExtent
<1>10. Promise!Hold(i, e, heap.mem_brk)
  BY <1>1, <1>6, <1>9, BecomesHeld DEF Hands
<1>11. Promise!Fit(i, n)
  BY <1>3, <1>4, <1>5, <1>8, <1>10 DEF Promise!Fit, Promise!None
<1>12. Promise!Request(i, n)
  BY <1>11 DEF Promise!Request
<1> QED
  BY <1>1, <1>4, <1>9, <1>12, RequestIsNext DEF Becomes

(* A block that grows with the heap is stretched in the arena. *)
LEMMA StretchMaps ==
    ASSUME NEW C, NEW i, NEW ptr, NEW size, NEW n, Asks(C, i, ptr, size, n),
           NEW k, Hands(i, k), package = "mm", GrowsOut(heap, C, ptr, size, n, k)
    PROVE  Promise!Next
<1>1. /\ Order(heap, C, blocks, block_sizes, ranges, verdict) /\ verdict = "ok"
      /\ package' = package /\ size \in Sizes /\ n = Adjusted(size)
      /\ Wanted(heap, C, ptr, size, n) /\ i \in LiveOf(blocks) /\ ptr = blocks[i]
  BY DEF Asks
<1>2. PICK e, t : e = [lo |-> k.ret, hi |-> After(k, k.ret)] /\ t = k.mem_brk
  OBVIOUS
<1>3. PICK E, first, last : /\ E = [j \in Ids |-> Extent(j)]
                            /\ first = JoinFirst(heap, ptr) /\ last = JoinEnd(heap, ptr)
  OBVIOUS
<1>4. /\ E[i].lo = ptr /\ E[i].hi = After(heap, ptr)
      /\ E[i] # [lo |-> 0, hi |-> 0] /\ i \in Ids
      /\ \A g \in Promise!Rooms(i) : g.lo = first /\ g.hi = last
  <2>1. RoomSeen(E, i, ptr, first, last)
    BY <1>3, AsksRoom
  <2> QED
    BY <2>1 DEF RoomSeen
<1>5. /\ Outgrown(heap, ptr, n) /\ After(heap, ptr) = heap.mem_brk
      /\ k.ret = ptr /\ After(k, ptr) = ptr + n
      /\ k.mem_brk = heap.mem_brk + CHUNKSIZE /\ k.mem_brk <= mem_max_addr
      /\ Serves(heap, InUse(heap, C) \ {ptr}, k, n)
  BY DEF GrowsOut, Carries
<1>6. E[i] = [lo |-> ptr, hi |-> After(heap, ptr)]
  <2>1. ClientHas(heap, C, blocks, block_sizes, LiveOf(blocks), {})
    BY AsksFacts
  <2> QED
    BY <1>1, <1>3, <2>1, ArenaSees, ExtentsEnd
<1>7. ~Promise!CanStay(i, n)
  <2>1. first \in Nat /\ last \in Nat /\ n \in Nat
    BY <1>1, <1>3, JoinIsSurrounded, AsksFacts DEF Surrounded
  <2>2. last - first < n
    BY <1>3, <1>5 DEF Outgrown
  <2> QED
    BY <1>4, <2>1, <2>2 DEF Promise!CanStay, Promise!Length
<1>8. ptr + n <= heap.mem_brk + CHUNKSIZE
  <2>1. PICK D : Sound(k, D) /\ k.ret \in InUse(k, D)
    BY <1>5 DEF Serves
  <2>2. Tiling(k, D) /\ ptr \in D \ {k.mem_brk}
    BY <1>5, <2>1 DEF Sound, InUse
  <2>3. After(k, ptr) <= k.mem_brk
    BY <2>2, BlockFacts
  <2> QED
    BY <1>5, <2>3
<1>9. e = [E[i] EXCEPT !.hi = ptr + n] /\ t = heap.mem_brk + CHUNKSIZE
  BY <1>2, <1>5, <1>6
<1>10. Becomes(i, e, t)
  BY <1>1, <1>2, <1>4, HandsExtent
<1>11. Promise!Hold(i, e, t)
  BY <1>1, <1>10, BecomesHeld DEF Hands
<1>12. Promise!Holders = {j \in Ids : E[j] # [lo |-> 0, hi |-> 0]}
  BY <1>3 DEF Promise!Holders, Promise!None
<1>13. Promise!IsLast(i)
  BY <1>3, <1>4, <1>5 DEF Promise!IsLast
<1>14. Promise!Hold(i, [E[i] EXCEPT !.hi = E[i].lo + n], heap.mem_brk + CHUNKSIZE)
  BY <1>4, <1>9, <1>11
<1>15. i \in Promise!Holders
  BY <1>4, <1>12
<1>16. heap.mem_brk + CHUNKSIZE <= mem_max_addr /\ E[i].lo + n <= heap.mem_brk + CHUNKSIZE
  BY <1>4, <1>5, <1>8
<1>17. Promise!Stretch(i, n)
  BY <1>3, <1>7, <1>13, <1>14, <1>15, <1>16 DEF Promise!Stretch
<1>18. Promise!Request(i, n)
  BY <1>17 DEF Promise!Request
<1> QED
  BY <1>1, <1>4, <1>10, <1>18, RequestIsNext DEF Becomes

(* What fails is refused in the arena. *)
LEMMA RefuseMaps ==
    ASSUME NEW C, NEW i, NEW ptr, NEW size, NEW n, Asks(C, i, ptr, size, n),
           Errs, NoPlace(heap, C, ptr, n)
    PROVE  Promise!Next
<1>1. /\ Order(heap, C, blocks, block_sizes, ranges, verdict) /\ verdict = "ok"
      /\ package' = package /\ size \in Sizes /\ n = Adjusted(size)
  BY DEF Asks
<1>2. PICK E : E = [j \in Ids |-> Extent(j)]
  OBVIOUS
<1>3. /\ n \in Nat \ {0} /\ i \in Ids /\ E[i] # [lo |-> 0, hi |-> 0]
      /\ E[i].hi = After(heap, ptr)
      /\ ClientHas(heap, C, blocks, block_sizes, LiveOf(blocks), {})
  BY <1>2, AsksFacts
<1>4. [j \in Ids |-> Extent(j)]' = [j \in Ids |-> Extent(j)]
  BY <1>1, ErrsExtents
<1>5. \/ Promise!Places(n) = {}
      \/ /\ package = "mm" /\ E[i] # [lo |-> 0, hi |-> 0] /\ Promise!IsLast(i)
         /\ heap.mem_brk + CHUNKSIZE > mem_max_addr
  <2>1. CASE Full(heap, C, n)
    BY <1>3, <2>1, DeniedHasNoPlace
  <2>2. CASE package = "mm" /\ After(heap, ptr) = heap.mem_brk
             /\ heap.mem_brk + CHUNKSIZE > mem_max_addr
    <3>1. Promise!IsLast(i)
      BY <1>2, <1>3, <2>2 DEF Promise!IsLast
    <3> QED
      BY <1>3, <2>2, <3>1
  <2> QED
    BY <2>1, <2>2 DEF NoPlace
<1>6. Promise!Refuse(i, n)
  BY <1>1, <1>2, <1>4, <1>5 DEF Promise!Refuse, Promise!None, Errs
<1>7. Promise!Request(i, n)
  BY <1>6 DEF Promise!Request
<1> QED
  BY <1>1, <1>3, <1>4, <1>7, RequestIsNext

(* A request for another size is one of the arena. *)
LEMMA ReallocMaps ==
    ASSUME Inductive, package' = package,
           NEW C, Order(heap, C, blocks, block_sizes, ranges, verdict),
           NEW i \in Ids, NEW size \in Sizes, NEW order \in Memcpy, Realloc(i, size, order)
    PROVE  Promise!Next
<1>1. PICK n, ptr : n = Adjusted(size) /\ ptr = blocks[i]
  OBVIOUS
<1>2. /\ verdict = "ok" /\ i \in LiveOf(blocks) /\ Sound(heap, C)
      /\ ptr \in InUse(heap, C) \ {heap_listp}
  <2>1. verdict = "ok" /\ i \in LiveOf(blocks)
    BY OrderHas DEF Realloc
  <2> QED
    BY <1>1, <2>1, OrderHas
<1>3. package = "mm" => Wanted(heap, C, ptr, size, n)
  <2> SUFFICES ASSUME package = "mm"
               PROVE  Wanted(heap, C, ptr, size, n)
    OBVIOUS
  <2>1. ListOK("mm", heap) /\ size \in Nat \ {0} /\ size % 4 = 0
    BY SizesAreWords DEF Inductive
  <2>2. Tidy(heap, C)
    BY <1>2, <2>1, MmIsTidy
  <2> QED
    BY <1>1, <1>2, <2>1, <2>2 DEF Wanted
<1>4. Asks(C, i, ptr, size, n)
  BY <1>1, <1>2, <1>3 DEF Asks
<1>5. \/ \E k : /\ Hands(i, k)
                /\ Adapted(heap, C, ptr, size, n, k) \/ Resettled(heap, C, ptr, n, k)
      \/ Errs /\ NoPlace(heap, C, ptr, n)
  BY <1>1, ReallocKeeps
<1>6. ASSUME NEW k, Hands(i, k), Adapted(heap, C, ptr, size, n, k)
      PROVE  Promise!Next
  <2>1. CASE package = "mm" /\ StaysPut(heap, C, ptr, size, n, k)
    BY <1>4, <1>6, <2>1, FitMaps
  <2>2. CASE package = "mm" /\ GrowsOut(heap, C, ptr, size, n, k)
    BY <1>4, <1>6, <2>2, StretchMaps
  <2> QED
    BY <1>6, <2>1, <2>2 DEF Adapted
<1>7. ASSUME NEW k, Hands(i, k), Resettled(heap, C, ptr, n, k)
      PROVE  Promise!Next
  BY <1>4, <1>7, MoveMaps
<1>8. CASE Errs /\ NoPlace(heap, C, ptr, n)
  BY <1>4, <1>8, RefuseMaps
<1> QED
  BY <1>5, <1>6, <1>7, <1>8

(* A block that is freed is taken back. *)
LEMMA FreeMaps ==
    ASSUME Inductive, package' = package,
           NEW C, Order(heap, C, blocks, block_sizes, ranges, verdict),
           NEW i \in Ids, Free(i)
    PROVE  Promise!Next
<1> DEFINE E == [j \in Ids |-> Extent(j)]
<1>1. TakesBack(i)
  BY FreeKeeps
<1>2. PICK D : Order(heap', D, blocks', block_sizes', ranges', verdict')
  BY <1>1 DEF TakesBack, StaysInOrder
<1>3. /\ verdict' = "ok" /\ heap'.mem_brk = heap.mem_brk
      /\ blocks' = [blocks EXCEPT ![i] = NULL]
      /\ \A j \in Others(blocks, i) : After(heap', blocks[j]) = After(heap, blocks[j])
  BY <1>1 DEF TakesBack
<1>4. /\ ClientHas(heap, C, blocks, block_sizes, LiveOf(blocks), {})
      /\ ClientHas(heap', D, blocks', block_sizes', LiveOf(blocks'), {})
  BY <1>2 DEF Order
<1>5. E = ExtentsOf(heap, blocks) /\ E' = ExtentsOf(heap', blocks')
  BY DEF Extent, ExtentsOf
<1>6. verdict = "ok" /\ i \in LiveOf(blocks)
  BY OrderHas DEF Free
<1> HIDE DEF E
<1>7. E' = [E EXCEPT ![i] = [lo |-> 0, hi |-> 0]]
  <2>1. Changes(heap, blocks, heap', blocks', i, NULL)
    BY <1>3 DEF Changes, NULL
  <2>2. ExtentsOf(heap', blocks') = [ExtentsOf(heap, blocks) EXCEPT ![i] = PartFrom(heap', NULL)]
    BY <1>4, <2>1, OneExtentChanges
  <2> QED
    BY <1>5, <2>2 DEF PartFrom
<1>8. E[i] # [lo |-> 0, hi |-> 0]
  <2>1. ExtentsOf(heap, blocks)[i] # [lo |-> 0, hi |-> 0]
    BY <1>4, <1>6, ExtentsEnd
  <2> QED
    BY <1>5, <2>1
<1>9. Promise!TakeBack(i)
  BY <1>3, <1>6, <1>7, <1>8 DEF Promise!TakeBack, Promise!Hold, Promise!None, E
<1> QED
  BY <1>6, <1>9 DEF Promise!Next

(* A new trace starts with an empty arena. *)
LEMMA StartMaps ==
    ASSUME 16 + CHUNKSIZE <= MAX_HEAP, Inductive, package' = package, NextTrace
    PROVE  Promise!Next
<1> DEFINE E == [j \in Ids |-> Extent(j)]
<1>1. PICK g : g = Started(heap)
  OBVIOUS
<1>2. g.ret = 0 /\ g.mem_brk = mem_start_brk + 16 + CHUNKSIZE
  BY <1>1, StartKeeps DEF Fresh
<1>3. heap' = g /\ verdict' = "ok" /\ blocks' = [i \in Ids |-> NULL]
  BY <1>1, <1>2 DEF NextTrace
<1>4. E' = [i \in Ids |-> [lo |-> 0, hi |-> 0]]
  BY <1>3 DEF Extent
<1>5. heap'.mem_brk = mem_start_brk + 2 * DSIZE + CHUNKSIZE
  BY <1>2, <1>3, AreaAssumption, ChunkAssumption DEF DSIZE
<1>6. Promise!StartOver
  BY <1>3, <1>4, <1>5 DEF Promise!StartOver, Promise!None
<1> QED
  BY <1>6 DEF Promise!Next

(* The driver starts where the arena does. *)
LEMMA StartOfArena ==
    ASSUME 16 + CHUNKSIZE <= MAX_HEAP, Init
    PROVE  Promise!Init
<1> DEFINE E == [j \in Ids |-> Extent(j)]
<1>1. package \in {"mm", "mm-firstfit"}
  BY PackagesAssumption DEF Init
<1>2. PICK g : g = Started(mem_init)
  OBVIOUS
<1>3. g.ret = 0 /\ g.mem_brk = mem_start_brk + 16 + CHUNKSIZE
  BY <1>1, <1>2, MemoryStarts, PackageStarts DEF Fresh
<1>4. heap = g /\ verdict = "ok" /\ blocks = [i \in Ids |-> NULL]
  BY <1>2, <1>3 DEF Init
<1>5. E = [i \in Ids |-> [lo |-> 0, hi |-> 0]]
  BY <1>4 DEF Extent
<1>6. heap.mem_brk = mem_start_brk + 2 * DSIZE + CHUNKSIZE
  BY <1>3, <1>4, AreaAssumption, ChunkAssumption DEF DSIZE
<1> QED
  BY <1>4, <1>5, <1>6 DEF Promise!Init, Promise!None

(* Both packages give their client an arena, where a gap is whatever no    *)
(* block of the client's covers.  mm-firstfit.c takes room from the lowest *)
(* gap that is large enough; mm.c, as long as it is Suited, moves a block  *)
(* only when there is no room beside it, or when it is too large by less   *)
(* than a minimal block (mm.c:329); a request is refused only when the     *)
(* arena has no place for it, or when mm.c will not look for one.          *)
THEOREM MdriverImplementsArena ==
    ASSUME 16 + CHUNKSIZE <= MAX_HEAP
    PROVE  Spec /\ Suited => ImplementsArena
<1>1. Init => Promise!Init
  BY StartOfArena
<1>2. Inductive /\ [Next]_vars => [Promise!Next]_Promise!arenaVars
  <2> SUFFICES ASSUME Inductive, [Next]_vars
               PROVE  [Promise!Next]_Promise!arenaVars
    OBVIOUS
  <2>1. PICK C : Order(heap, C, blocks, block_sizes, ranges, verdict)
    BY DEF Inductive, InOrder
  <2>2. package' = package
    BY DEF Next, vars
  <2>3. CASE UNCHANGED vars
    <3>1. [i \in Ids |-> Extent(i)]' = [i \in Ids |-> Extent(i)]
      BY <2>3 DEF vars, Extent
    <3>2. UNCHANGED Promise!arenaVars
      BY <2>3, <3>1 DEF vars, Promise!arenaVars
    <3> QED
      BY <3>2
  <2>4. ASSUME NEW i \in Ids, NEW size \in Sizes, Alloc(i, size)
        PROVE  Promise!Next
    BY <2>1, <2>2, <2>4, AllocMaps
  <2>5. ASSUME NEW i \in Ids, NEW size \in Sizes, NEW order \in Memcpy, Realloc(i, size, order)
        PROVE  Promise!Next
    BY <2>1, <2>2, <2>5, ReallocMaps
  <2>6. ASSUME NEW i \in Ids, Free(i)
        PROVE  Promise!Next
    BY <2>1, <2>2, <2>6, FreeMaps
  <2>7. CASE NextTrace
    BY <2>2, <2>7, StartMaps
  <2> QED
    BY <2>3, <2>4, <2>5, <2>6, <2>7 DEF Next
<1> QED
  BY <1>1, <1>2, KeepsOrder, PTL DEF Spec, ImplementsArena, Promise!Spec

-----------------------------------------------------------------------------
(* Two heaps with the same blocks, whatever is in them.                    *)

(* The blocks B have the same tags in both. *)
SameTags(h1, h2, B) ==
    /\ h1.mem_brk = h2.mem_brk
    /\ \A b \in B : /\ Size(h1, b) = Size(h2, b) /\ Used(h1, b) = Used(h2, b)
                    /\ After(h1, b) = After(h2, b)

(* The nodes F have the same links in both, and the lists the same head. *)
SameLinks(h1, h2, F) ==
    /\ h1.free_listp = h2.free_listp
    /\ \A p \in F : GET(h1, p) = GET(h2, p) /\ GET(h1, p + 4) = GET(h2, p + 4)

(* The blocks in use are the same in both, and so is the break. *)
SameUse(g1, C1, g2, C2) ==
    /\ Sound(g1, C1) /\ Sound(g2, C2) /\ g1.mem_brk = g2.mem_brk
    /\ InUse(g1, C1) = InUse(g2, C2)
    /\ \A c \in InUse(g1, C1) : After(g1, c) = After(g2, c)

(* So the free ones are between the same blocks.                           *)
LEMMA SameUseSameBlocks ==
    ASSUME NEW g1, NEW C1, NEW g2, NEW C2, SameUse(g1, C1, g2, C2), NEW c \in C1
    PROVE  c \in C2
<1>1. Tiling(g1, C1) /\ Tiling(g2, C2) /\ g1.mem_brk = g2.mem_brk
  BY DEF SameUse, Sound
<1>2. CASE c = g1.mem_brk
  BY <1>1, <1>2 DEF Tiling, Bounds
<1>3. CASE c # g1.mem_brk /\ Used(g1, c) = 1
  BY <1>3 DEF SameUse, InUse
<1>4. CASE c # g1.mem_brk /\ Used(g1, c) = 0
  <2>1. PICK u \in InUse(g1, C1) : After(g1, u) = c
    BY <1>4, InUseBefore DEF SameUse
  <2>2. u \in C2 \ {g2.mem_brk} /\ After(g2, u) = c
    BY <2>1 DEF SameUse, InUse
  <2> QED
    BY <1>1, <2>2 DEF Tiling, Chain
<1> QED
  BY <1>1, <1>2, <1>3, <1>4, BlockFacts

(* No tag can differ.                                                      *)
LEMMA UseTellsTags ==
    ASSUME NEW g1, NEW C1, NEW g2, NEW C2, SameUse(g1, C1, g2, C2)
    PROVE  C1 = C2 /\ SameTags(g1, g2, C1)
<1>1. Tiling(g1, C1) /\ Tiling(g2, C2) /\ g1.mem_brk = g2.mem_brk
  BY DEF SameUse, Sound
<1>2. SameUse(g2, C2, g1, C1)
  BY DEF SameUse
<1>3. \A c : c \in C1 <=> c \in C2
  BY <1>2, SameUseSameBlocks
<1>4. C1 = C2
  BY <1>3
<1>5. ASSUME NEW b \in C1
      PROVE  /\ Size(g1, b) = Size(g2, b) /\ Used(g1, b) = Used(g2, b)
             /\ After(g1, b) = After(g2, b)
  <2>1. CASE b = g1.mem_brk
    <3>1. /\ Size(g1, b) = 0 /\ Used(g1, b) = 1
          /\ Size(g2, b) = 0 /\ Used(g2, b) = 1
      BY <1>1, <1>4, <2>1, BlockFacts
    <3> QED
      BY <3>1 DEF After
  <2>2. CASE b # g1.mem_brk
    <3>1. /\ Size(g1, b) \in Nat /\ Used(g1, b) \in {0, 1} /\ b \in Nat
          /\ Size(g2, b) \in Nat /\ Used(g2, b) \in {0, 1}
          /\ After(g1, b) \in C1 /\ After(g1, b) \in Nat /\ b < After(g1, b)
          /\ After(g2, b) \in C2 /\ After(g2, b) \in Nat /\ b < After(g2, b)
          /\ \A c \in C1 : b < c => After(g1, b) <= c
          /\ \A c \in C2 : b < c => After(g2, b) <= c
      BY <1>1, <1>4, <2>2, BlockFacts
    <3>2. After(g1, b) <= After(g2, b) /\ After(g2, b) <= After(g1, b)
      BY <1>4, <3>1
    <3>3. After(g1, b) = After(g2, b)
      BY <3>1, <3>2
    <3>4. Size(g1, b) = Size(g2, b)
      BY <3>1, <3>3 DEF After
    <3>5. Used(g1, b) = 1 <=> Used(g2, b) = 1
      BY <1>1, <1>4, <2>2 DEF SameUse, InUse
    <3> QED
      BY <3>1, <3>3, <3>4, <3>5
  <2> QED
    BY <2>1, <2>2
<1> QED
  BY <1>1, <1>4, <1>5 DEF SameTags

(* Equal tags, and equal blocks in use. *)
LEMMA SameTagsSameUse ==
    ASSUME NEW h1, NEW h2, NEW B, SameTags(h1, h2, B)
    PROVE  InUse(h1, B) = InUse(h2, B) /\ FreeIn(h1, B) = FreeIn(h2, B)
<1>1. \A c : c \in InUse(h1, B) <=> c \in InUse(h2, B)
  BY DEF SameTags, InUse
<1>2. \A c : c \in FreeIn(h1, B) <=> c \in FreeIn(h2, B)
  BY DEF SameTags, FreeIn
<1> QED
  BY <1>1, <1>2

-----------------------------------------------------------------------------
(* Two heaps with the same list.                                           *)

(* The words g are those of h but that the neighbours of bp in the list    *)
(* are linked to each other.                                               *)
Skipped(h, g, bp) ==
    /\ g.free_listp = IF GET(h, bp) = NULL THEN GET(h, bp + 4) ELSE h.free_listp
    /\ \A a : GET(g, a) = IF GET(h, bp) # NULL /\ a = GET(h, bp) + 4 THEN GET(h, bp + 4)
                          ELSE IF GET(h, bp + 4) # NULL /\ a = GET(h, bp + 4) THEN GET(h, bp)
                          ELSE GET(h, a)

(* That is what removeBlock does to a listed block. *)
LEMMA RemoveSkips ==
    ASSUME NEW h \in Heaps, NEW F, Listing(h, F), NEW bp \in F,
           NEW g, g = Mm!removeBlock(h, bp)
    PROVE  Skipped(h, g, bp)
<1>1. PICK age, N : Linked(h, F, age, N)
  BY DEF Listing
<1>2. PICK prev : prev = GET(h, bp)
  OBVIOUS
<1>3. PICK next : next = GET(h, bp + 4)
  OBVIOUS
<1>4. /\ prev \in F \cup {NULL} /\ next \in F \cup {NULL}
      /\ prev = NULL <=> h.free_listp = bp
      /\ prev # NULL => GET(h, prev + 4) = bp
      /\ next # NULL => GET(h, next) = bp /\ age[next] < age[bp]
      /\ age[bp] \in Nat
  BY <1>1, <1>2, <1>3 DEF Linked
<1>5. next # bp /\ prev # bp
  <2>1. bp # NULL
    BY NodeFacts DEF Listing
  <2> QED
    BY <1>3, <1>4, <2>1
<1>6. /\ prev # NULL => IsNode(prev) /\ prev # bp
      /\ next # NULL => IsNode(next) /\ next # bp
      /\ IsNode(bp)
  BY <1>4, <1>5 DEF Listing
<1>7. /\ g.free_listp = IF prev = NULL THEN next ELSE h.free_listp
      /\ \A a : GET(g, a) = IF prev # NULL /\ a = prev + 4 THEN next
                            ELSE IF next # NULL /\ a = next THEN prev
                            ELSE GET(h, a)
  BY <1>2, <1>3, <1>6, RemoveWrites
<1> QED
  BY <1>2, <1>3, <1>7 DEF Skipped

(* The same block leaves both lists. *)
LEMMA RemoveSame ==
    ASSUME NEW h1, NEW h2, NEW F, SameLinks(h1, h2, F), NEW bp \in F,
           NEW g1, Skipped(h1, g1, bp), NEW g2, Skipped(h2, g2, bp)
    PROVE  SameLinks(g1, g2, F)
<1>1. GET(h1, bp) = GET(h2, bp) /\ GET(h1, bp + 4) = GET(h2, bp + 4)
  BY DEF SameLinks
<1>2. g1.free_listp = g2.free_listp
  BY <1>1 DEF SameLinks, Skipped
<1>3. \A a : GET(h1, a) = GET(h2, a) => GET(g1, a) = GET(g2, a)
  BY <1>1 DEF Skipped
<1> QED
  BY <1>2, <1>3 DEF SameLinks

(* The same block enters both lists in front. *)
LEMMA InsertSame ==
    ASSUME NEW h1 \in Heaps, NEW h2 \in Heaps, NEW F, SameLinks(h1, h2, F),
           NEW bp, IsNode(bp),
           h1.free_listp # NULL => IsNode(h1.free_listp) /\ h1.free_listp # bp,
           NEW g1, g1 = Mm!insertBlock(h1, bp), NEW g2, g2 = Mm!insertBlock(h2, bp)
    PROVE  SameLinks(g1, g2, F \cup {bp})
<1>1. PICK head : head = h1.free_listp
  OBVIOUS
<1>2. head = h2.free_listp
  BY <1>1 DEF SameLinks
<1>3. head # NULL => IsNode(head) /\ head # bp
  BY <1>1
<1>4. /\ g1.free_listp = bp
      /\ \A a : GET(g1, a) = IF a = bp THEN NULL
                             ELSE IF a = bp + 4 THEN head
                             ELSE IF head # NULL /\ a = head THEN bp
                             ELSE GET(h1, a)
  BY <1>1, <1>3, InsertWrites
<1>5. /\ g2.free_listp = bp
      /\ \A a : GET(g2, a) = IF a = bp THEN NULL
                             ELSE IF a = bp + 4 THEN head
                             ELSE IF head # NULL /\ a = head THEN bp
                             ELSE GET(h2, a)
  BY <1>2, <1>3, InsertWrites
<1>6. ASSUME NEW p \in F \cup {bp}
      PROVE  GET(g1, p) = GET(g2, p) /\ GET(g1, p + 4) = GET(g2, p + 4)
  <2>1. p # bp => GET(h1, p) = GET(h2, p) /\ GET(h1, p + 4) = GET(h2, p + 4)
    BY DEF SameLinks
  <2>2. CASE p = bp
    BY <1>4, <1>5, <2>2
  <2>3. CASE p # bp
    BY <1>4, <1>5, <2>1, <2>3
  <2> QED
    BY <2>2, <2>3
<1> QED
  BY <1>4, <1>5, <1>6 DEF SameLinks

(* The same tags are written in both. *)
LEMMA TagSame ==
    ASSUME NEW h1, NEW h2, NEW F, SameLinks(h1, h2, F), NEW b, NEW s, NEW f,
           NEW g1, Tagged(h1, g1, b, s, f), NEW g2, Tagged(h2, g2, b, s, f)
    PROVE  SameLinks(g1, g2, F)
<1>1. g1.free_listp = g2.free_listp
  BY DEF SameLinks, Tagged
<1>2. \A a : GET(h1, a) = GET(h2, a) => GET(g1, a) = GET(g2, a)
  BY DEF Tagged
<1> QED
  BY <1>1, <1>2 DEF SameLinks

(* Fewer links are the same, too. *)
LEMMA FewerSame ==
    ASSUME NEW h1, NEW h2, NEW F, SameLinks(h1, h2, F), NEW G, G \subseteq F
    PROVE  SameLinks(h1, h2, G)
BY DEF SameLinks

(* What is returned is no link. *)
LEMMA ReturnSame ==
    ASSUME NEW h1 \in Heaps, NEW h2 \in Heaps, NEW F, SameLinks(h1, h2, F),
           NEW r1 \in Int, NEW r2 \in Int,
           NEW g1, Returning(h1, g1, r1), NEW g2, Returning(h2, g2, r2)
    PROVE  SameLinks(g1, g2, F)
<1>1. g1.free_listp = h1.free_listp /\ \A a : GET(g1, a) = GET(h1, a)
  BY Returns
<1>2. g2.free_listp = h2.free_listp /\ \A a : GET(g2, a) = GET(h2, a)
  BY Returns
<1> QED
  BY <1>1, <1>2 DEF SameLinks

(* Links that are left alone stay the same. *)
LEMMA AloneSame ==
    ASSUME NEW h1, NEW h2, NEW F, SameLinks(h1, h2, F), NEW g1, NEW g2,
           g1.free_listp = h1.free_listp, g2.free_listp = h2.free_listp,
           \A p \in F : GET(g1, p) = GET(h1, p) /\ GET(g1, p + 4) = GET(h1, p + 4),
           \A p \in F : GET(g2, p) = GET(h2, p) /\ GET(g2, p + 4) = GET(h2, p + 4)
    PROVE  SameLinks(g1, g2, F)
BY DEF SameLinks

(* Nothing between tags is a link, but of the free block they are of. *)
LEMMA LinksUntouched ==
    ASSUME NEW h, NEW B, Tiling(h, B), NEW c \in FreeIn(h, B), NEW g, Untouched(h, g, c)
    PROVE  GET(g, c) = GET(h, c) /\ GET(g, c + 4) = GET(h, c + 4)
<1>1. c \in c .. After(h, c) - 9 /\ c + 4 \in c .. After(h, c) - 9
  BY FreeAreNodes
<1> QED
  BY <1>1 DEF Untouched

(* A neighbour that is free leaves both lists. *)
LEMMA WithoutSame ==
    ASSUME NEW h1 \in Heaps, NEW h2 \in Heaps, NEW L, Listing(h1, L), Listing(h2, L),
           NEW F, L \subseteq F, SameLinks(h1, h2, F),
           NEW n, Used(h1, n) = Used(h2, n), Used(h1, n) = 0 => n \in L,
           NEW x1, x1 = Without(h1, n), NEW x2, x2 = Without(h2, n)
    PROVE  SameLinks(x1, x2, F)
<1>1. CASE Used(h1, n) = 0
  <2>1. x1 = Mm!removeBlock(h1, n) /\ x2 = Mm!removeBlock(h2, n) /\ n \in L
    BY <1>1 DEF Without
  <2>2. Skipped(h1, x1, n) /\ Skipped(h2, x2, n)
    BY <2>1, RemoveSkips
  <2> QED
    BY <2>1, <2>2, RemoveSame
<1>2. CASE Used(h1, n) # 0
  BY <1>2 DEF Without
<1> QED
  BY <1>1, <1>2

(* Two heaps that mm.c cannot tell from each other. *)
MmTwins(h1, h2, B) ==
    /\ Tidy(h1, B) /\ Tidy(h2, B)
    /\ SameTags(h1, h2, B) /\ SameLinks(h1, h2, FreeIn(h1, B))

(* The block b is free and not listed yet, and nothing else has to be. *)
Unlisting(h, B, b) ==
    /\ Tiling(h, B) /\ b \in B \ {heap_listp, h.mem_brk} /\ Used(h, b) = 0
    /\ OnlyTouching(h, B, b) /\ ListedBut(h, B, b)

(* What coalesce has when it comes to listing the block. *)
Joining(h, B, b, F, k, j, g) ==
    /\ k = Without(Without(h, After(h, b)), PREV_BLKP(h, b))
    /\ Listing(k, F \ {After(h, b), PREV_BLKP(h, b)}) /\ k \in Heaps
    /\ Tagged(k, j, JoinFirst(h, b), JoinEnd(h, b) - JoinFirst(h, b), 0)
    /\ g = Mm!insertBlock(j, JoinFirst(h, b))

(* It comes to that. *)
LEMMA CoalesceJoins ==
    ASSUME NEW h, NEW B, NEW b, Unlisting(h, B, b), NEW F, F = FreeIn(h, B) \ {b},
           NEW g, g = Mm!coalesce(h, b)
    PROVE  \E k, j : Joining(h, B, b, F, k, j, g)
<1>1. /\ F \subseteq FreeIn(h, B) /\ Listing(h, F) /\ b \notin F
      /\ \A c \in B : Used(h, c) = 0 /\ c # b => c \in F
      /\ Tiling(h, B) /\ b \in B \ {heap_listp, h.mem_brk} /\ Used(h, b) = 0
  BY DEF FreeIn, ListedBut, Unlisting
<1>2. PICK k : /\ Mm!coalesce(h, b) = LET j == Joined(k, b) IN Mm!insertBlock(j, j.ret)
               /\ Listing(k, F \ {After(h, b), PREV_BLKP(h, b)})
               /\ Relinks(h, k, F)
               /\ k = Without(Without(h, After(h, b)), PREV_BLKP(h, b))
  BY <1>1, MmCoalesceIs
<1>3. SameBlocks(h, k, B)
  BY <1>1, <1>2, RelinkTiles
<1>4. /\ Tiling(k, B) /\ k \in Heaps /\ k.mem_brk = h.mem_brk
      /\ \A c \in B : Used(k, c) = Used(h, c) /\ After(k, c) = After(h, c)
  BY <1>3 DEF SameBlocks
<1>5. JoinFirst(k, b) = JoinFirst(h, b) /\ JoinEnd(k, b) = JoinEnd(h, b)
  BY <1>1, <1>4, JoinKept
<1>6. PICK j : j = Joined(k, b)
  OBVIOUS
<1>7. /\ Tagged(k, j, JoinFirst(k, b), JoinEnd(k, b) - JoinFirst(k, b), 0)
      /\ j.ret = JoinFirst(k, b)
  <2>1. b \in B \ {heap_listp, k.mem_brk} /\ Used(k, b) = 0
    BY <1>1, <1>4
  <2> QED
    BY <1>4, <1>6, <2>1, JoinedTags
<1>8. g = Mm!insertBlock(j, JoinFirst(h, b))
  BY <1>2, <1>5, <1>6, <1>7
<1> QED
  BY <1>2, <1>4, <1>5, <1>7, <1>8 DEF Joining

(* Tilings with the same tags have the same neighbours. *)
LEMMA NeighboursSame ==
    ASSUME NEW h1, NEW h2, NEW B, Tiling(h1, B), Tiling(h2, B), SameTags(h1, h2, B),
           NEW b \in B \ {heap_listp, h1.mem_brk}
    PROVE  /\ PREV_BLKP(h2, b) = PREV_BLKP(h1, b) /\ After(h2, b) = After(h1, b)
           /\ JoinFirst(h2, b) = JoinFirst(h1, b) /\ JoinEnd(h2, b) = JoinEnd(h1, b)
<1>1. /\ h2.mem_brk = h1.mem_brk
      /\ \A c \in B : Used(h2, c) = Used(h1, c) /\ After(h2, c) = After(h1, c)
  BY DEF SameTags
<1> QED
  BY <1>1, JoinKept

(* The same neighbours leave both lists. *)
LEMMA JoiningSame ==
    ASSUME NEW h1, NEW h2, NEW B, NEW b, Unlisting(h1, B, b), Unlisting(h2, B, b),
           SameTags(h1, h2, B), NEW F, F = FreeIn(h1, B) \ {b}, SameLinks(h1, h2, F),
           NEW k1, NEW j1, NEW g1, Joining(h1, B, b, F, k1, j1, g1),
           NEW k2, NEW j2, NEW g2, Joining(h2, B, b, F, k2, j2, g2)
    PROVE  SameLinks(j1, j2, F)
<1>1. /\ Tiling(h1, B) /\ Tiling(h2, B) /\ b \in B \ {heap_listp, h1.mem_brk}
      /\ h1 \in Heaps /\ h2 \in Heaps
  BY BlockFacts DEF Unlisting
<1>2. PICK next : next = After(h1, b)
  OBVIOUS
<1>3. PICK prev : prev = PREV_BLKP(h1, b)
  OBVIOUS
<1>4. /\ After(h2, b) = next /\ PREV_BLKP(h2, b) = prev
      /\ JoinFirst(h2, b) = JoinFirst(h1, b) /\ JoinEnd(h2, b) = JoinEnd(h1, b)
  BY <1>1, <1>2, <1>3, NeighboursSame
<1>5. next \in B /\ prev \in B /\ next # b /\ prev # next /\ prev # b
  <2>1. next \in B /\ b < next /\ next \in Nat /\ b \in Nat
    BY <1>1, <1>2, BlockFacts
  <2>2. prev \in B /\ prev < b /\ prev \in Nat
    BY <1>1, <1>3, PrevTells, BlockFacts
  <2> QED
    BY <2>1, <2>2
<1>6. FreeIn(h2, B) = FreeIn(h1, B)
  BY SameTagsSameUse
<1>7. /\ F \subseteq FreeIn(h1, B) /\ Listing(h1, F) /\ F \subseteq FreeIn(h2, B) /\ Listing(h2, F)
      /\ \A c \in B : c # b => /\ Used(h1, c) = Used(h2, c)
                               /\ Used(h1, c) = 0 => c \in F
  BY <1>6 DEF FreeIn, ListedBut, Unlisting, SameTags
<1>8. PICK x1 : x1 = Without(h1, next)
  OBVIOUS
<1>9. PICK x2 : x2 = Without(h2, next)
  OBVIOUS
<1>10. Listing(x1, F \ {next}) /\ Relinks(h1, x1, F)
  BY <1>1, <1>5, <1>7, <1>8, WithoutTiles
<1>11. Listing(x2, F \ {next}) /\ Relinks(h2, x2, F)
  <2>1. Used(h2, next) = 0 => next \in F
    BY <1>5, <1>7
  <2> QED
    BY <1>1, <1>5, <1>7, <1>9, <2>1, WithoutTiles
<1>12. SameLinks(x1, x2, F)
  <2>1. Used(h1, next) = Used(h2, next) /\ (Used(h1, next) = 0 => next \in F)
    BY <1>5, <1>7
  <2> QED
    BY <1>1, <1>7, <1>8, <1>9, <2>1, WithoutSame
<1>13. x1 \in Heaps /\ \A c \in B : Used(x1, c) = Used(h1, c)
  <2>1. SameBlocks(h1, x1, B)
    BY <1>1, <1>7, <1>10, RelinkTiles
  <2> QED
    BY <2>1 DEF SameBlocks
<1>14. x2 \in Heaps /\ \A c \in B : Used(x2, c) = Used(h2, c)
  <2>1. SameBlocks(h2, x2, B)
    BY <1>1, <1>7, <1>11, RelinkTiles
  <2> QED
    BY <2>1 DEF SameBlocks
<1>15. PICK L : L = F \ {next}
  OBVIOUS
<1>16. SameLinks(k1, k2, F)
  <2>1. k1 = Without(x1, prev) /\ k2 = Without(x2, prev)
    BY <1>2, <1>3, <1>4, <1>8, <1>9 DEF Joining
  <2>2. Used(x1, prev) = Used(x2, prev) /\ (Used(x1, prev) = 0 => prev \in L)
    BY <1>5, <1>7, <1>13, <1>14, <1>15
  <2>3. Listing(x1, L) /\ Listing(x2, L) /\ L \subseteq F
    BY <1>10, <1>11, <1>15
  <2> QED
    BY <1>12, <1>13, <1>14, <2>1, <2>2, <2>3, WithoutSame
<1>17. PICK first : first = JoinFirst(h1, b)
  OBVIOUS
<1>18. PICK s : s = JoinEnd(h1, b) - JoinFirst(h1, b)
  OBVIOUS
<1>19. Tagged(k1, j1, first, s, 0) /\ Tagged(k2, j2, first, s, 0)
  BY <1>4, <1>17, <1>18 DEF Joining
<1> QED
  BY <1>16, <1>19, TagSame

(* The block that b becomes part of enters both lists. *)
LEMMA CoalesceSame ==
    ASSUME NEW h1, NEW h2, NEW B, NEW b, Unlisting(h1, B, b), Unlisting(h2, B, b),
           SameTags(h1, h2, B), NEW F, F = FreeIn(h1, B) \ {b}, SameLinks(h1, h2, F),
           NEW g1, g1 = Mm!coalesce(h1, b), NEW g2, g2 = Mm!coalesce(h2, b)
    PROVE  (\E C : MmTwins(g1, g2, C)) /\ g1.ret = g2.ret
<1>1. /\ Tiling(h1, B) /\ Tiling(h2, B) /\ b \in B \ {heap_listp, h1.mem_brk}
      /\ h2.mem_brk = h1.mem_brk
  BY DEF Unlisting, SameTags
<1>2. PICK C1 : /\ Tidy(g1, C1) /\ InUse(g1, C1) = InUse(h1, B) /\ g1.mem_brk = h1.mem_brk
                /\ Keeps(h1, g1, InUse(h1, B)) /\ g1.ret = JoinFirst(h1, b)
                /\ g1.ret \in C1 /\ Used(g1, g1.ret) = 0
                /\ FreeIn(g1, C1) \subseteq (FreeIn(h1, B) \ {b}) \cup {g1.ret}
  BY MmJoins DEF Unlisting, Coalesces
<1>3. PICK C2 : /\ Tidy(g2, C2) /\ InUse(g2, C2) = InUse(h2, B) /\ g2.mem_brk = h2.mem_brk
                /\ Keeps(h2, g2, InUse(h2, B)) /\ g2.ret = JoinFirst(h2, b)
  BY MmJoins DEF Unlisting, Coalesces
<1>4. PICK first : first = JoinFirst(h1, b)
  OBVIOUS
<1>5. JoinFirst(h2, b) = first
  BY <1>1, <1>4, NeighboursSame
<1>6. SameUse(g1, C1, g2, C2)
  <2>1. InUse(h1, B) = InUse(h2, B)
    BY SameTagsSameUse
  <2>2. ASSUME NEW c \in InUse(h1, B)
        PROVE  After(g1, c) = After(g2, c)
    <3>1. After(g1, c) = After(h1, c) /\ After(g2, c) = After(h2, c)
      BY <1>2, <1>3, <2>1 DEF Keeps
    <3> QED
      BY <3>1 DEF SameTags, InUse
  <2> QED
    BY <1>1, <1>2, <1>3, <2>1, <2>2 DEF SameUse, Tidy
<1>7. C1 = C2 /\ SameTags(g1, g2, C1)
  BY <1>6, UseTellsTags
<1>8. PICK k1, j1 : Joining(h1, B, b, F, k1, j1, g1)
  BY CoalesceJoins
<1>9. PICK k2, j2 : Joining(h2, B, b, F, k2, j2, g2)
  <2>1. F = FreeIn(h2, B) \ {b}
    BY SameTagsSameUse
  <2> QED
    BY <2>1, CoalesceJoins
<1>10. SameLinks(j1, j2, F)
  BY <1>8, <1>9, JoiningSame
<1>11. SameLinks(g1, g2, F \cup {first})
  <2>1. IsNode(first)
    <3>1. first \in FreeIn(g1, C1) /\ Tiling(g1, C1)
      BY <1>2, <1>4 DEF FreeIn, Tidy, Sound
    <3> QED
      BY <3>1, FreeAreNodes
  <2>2. PICK E : E = F \ {After(h1, b), PREV_BLKP(h1, b)}
    OBVIOUS
  <2>3. first \notin E
    <3>1. E = (FreeIn(h1, B) \ {b}) \ {After(h1, b), PREV_BLKP(h1, b)}
      BY <2>2
    <3>2. \A c \in E : c # first
      BY <1>1, <1>4, <3>1, FreeButJoined
    <3> QED
      BY <3>2
  <2>4. Listing(k1, E) /\ j1.free_listp = k1.free_listp
    BY <1>8, <2>2 DEF Joining, Tagged
  <2>5. j1.free_listp # NULL => IsNode(j1.free_listp) /\ j1.free_listp # first
    BY <2>3, <2>4 DEF Listing, Linked
  <2>6. j1 \in Heaps /\ j2 \in Heaps
    BY <1>8, <1>9 DEF Joining, Tagged
  <2>7. g1 = Mm!insertBlock(j1, first) /\ g2 = Mm!insertBlock(j2, first)
    BY <1>4, <1>5, <1>8, <1>9 DEF Joining
  <2> QED
    BY <1>10, <2>1, <2>5, <2>6, <2>7, InsertSame
<1>12. SameLinks(g1, g2, FreeIn(g1, C1))
  <2>1. FreeIn(g1, C1) \subseteq F \cup {first}
    BY <1>2, <1>4
  <2> QED
    BY <1>11, <2>1, FewerSame
<1> QED
  BY <1>2, <1>3, <1>4, <1>5, <1>7, <1>12 DEF MmTwins

(* The block b was split, and its rest is not listed yet. *)
Splitting(x, B, b, n, m, k) ==
    /\ Sound(x, B) /\ b \in B \ {heap_listp, x.mem_brk} /\ ListedBut(x, B, b)
    /\ SplitAt(x, b, n, m, k)

(* What its tags say then. *)
LEMMA SplitBlocks ==
    ASSUME NEW x, NEW B, NEW b, NEW n, NEW m, NEW k, Splitting(x, B, b, n, m, k),
           NEW C, C = B \cup {m}
    PROVE  /\ Unlisting(k, C, m) /\ k.mem_brk = x.mem_brk
           /\ Size(k, b) = n /\ Used(k, b) = 1 /\ After(k, b) = m
           /\ Size(k, m) = Size(x, b) - n /\ Used(k, m) = 0 /\ After(k, m) = After(x, b)
           /\ \A c \in B \ {b} :
                 Size(k, c) = Size(x, c) /\ Used(k, c) = Used(x, c) /\ After(k, c) = After(x, c)
<1>1. Tiling(x, B) /\ b \in B \ {heap_listp, x.mem_brk}
  BY DEF Splitting, Sound
<1>2. HalfFree(x, B, b, n, m, k, C)
  BY SplitUnlisted DEF Splitting
<1>3. Unlisting(k, C, m) /\ k.mem_brk = x.mem_brk
  BY <1>2 DEF HalfFree, Unlisting
<1>4. PICK r : r = Size(x, b) - n
  OBVIOUS
<1>5. Halves(x, b, n, m, r) /\ n \in Nat
  BY <1>4 DEF Splitting, SplitAt, Halves
<1>6. PICK y : Tagged(x, y, b, n, 1) /\ Tagged(y, k, m, r, 0)
  BY <1>4 DEF Splitting, SplitAt
<1>7. /\ Size(k, b) = n /\ Used(k, b) = 1 /\ After(k, b) = m
      /\ Size(k, m) = r /\ Used(k, m) = 0 /\ After(k, m) = After(x, b)
      /\ \A c \in B \ {b} :
            Size(k, c) = Size(x, c) /\ Used(k, c) = Used(x, c) /\ After(k, c) = After(x, c)
  BY <1>1, <1>5, <1>6, SplitTiles
<1> QED
  BY <1>3, <1>4, <1>7

(* A block is split in both heaps, and its rest enters both lists. *)
LEMMA SplitSame ==
    ASSUME NEW x1, NEW x2, NEW B, SameTags(x1, x2, B), NEW b, NEW n, NEW m,
           NEW k1, Splitting(x1, B, b, n, m, k1), NEW k2, Splitting(x2, B, b, n, m, k2),
           NEW F, F = FreeIn(x1, B) \ {b}, SameLinks(k1, k2, F),
           NEW g1, g1 = Mm!coalesce(k1, m), NEW g2, g2 = Mm!coalesce(k2, m)
    PROVE  \E C : MmTwins(g1, g2, C)
<1>1. PICK C : C = B \cup {m}
  OBVIOUS
<1>2. /\ Unlisting(k1, C, m) /\ k1.mem_brk = x1.mem_brk
      /\ Size(k1, b) = n /\ Used(k1, b) = 1 /\ After(k1, b) = m
      /\ Size(k1, m) = Size(x1, b) - n /\ Used(k1, m) = 0 /\ After(k1, m) = After(x1, b)
      /\ \A c \in B \ {b} :
            Size(k1, c) = Size(x1, c) /\ Used(k1, c) = Used(x1, c) /\ After(k1, c) = After(x1, c)
  BY <1>1, SplitBlocks
<1>3. /\ Unlisting(k2, C, m) /\ k2.mem_brk = x2.mem_brk
      /\ Size(k2, b) = n /\ Used(k2, b) = 1 /\ After(k2, b) = m
      /\ Size(k2, m) = Size(x2, b) - n /\ Used(k2, m) = 0 /\ After(k2, m) = After(x2, b)
      /\ \A c \in B \ {b} :
            Size(k2, c) = Size(x2, c) /\ Used(k2, c) = Used(x2, c) /\ After(k2, c) = After(x2, c)
  BY <1>1, SplitBlocks
<1>4. SameTags(k1, k2, C)
  <2>1. b \in B
    BY DEF Splitting
  <2>2. ASSUME NEW c \in C
        PROVE  /\ Size(k1, c) = Size(k2, c) /\ Used(k1, c) = Used(k2, c)
               /\ After(k1, c) = After(k2, c)
    <3>1. CASE c = m
      BY <1>2, <1>3, <2>1, <3>1 DEF SameTags
    <3>2. CASE c = b
      BY <1>2, <1>3, <2>1, <3>2 DEF SameTags
    <3>3. CASE c # m /\ c # b
      BY <1>1, <1>2, <1>3, <3>3 DEF SameTags
    <3> QED
      BY <3>1, <3>2, <3>3
  <2> QED
    BY <1>2, <1>3, <2>2 DEF SameTags
<1>5. PICK G : G = FreeIn(k1, C) \ {m}
  OBVIOUS
<1>6. SameLinks(k1, k2, G)
  <2>1. ASSUME NEW c \in G
        PROVE  c \in F
    <3>1. c \in B /\ Used(k1, c) = 0 /\ c # b
      BY <1>1, <1>2, <1>5 DEF FreeIn
    <3> QED
      BY <1>2, <3>1 DEF FreeIn
  <2>2. G \subseteq F
    BY <2>1
  <2> QED
    BY <2>2, FewerSame
<1> QED
  BY <1>2, <1>3, <1>4, <1>5, <1>6, CoalesceSame

(* The two heaps serve the same free block. *)
Serviced(h1, h2, B, b, n) == MmTwins(h1, h2, B) /\ RoomFor(h1, B, b, n)

(* So it is free in both. *)
LEMMA ServicedBoth ==
    ASSUME NEW h1, NEW h2, NEW B, NEW b, NEW n, Serviced(h1, h2, B, b, n)
    PROVE  /\ RoomFor(h2, B, b, n) /\ Size(h2, b) = Size(h1, b) /\ b \in FreeIn(h1, B)
           /\ FreeIn(h2, B) = FreeIn(h1, B) /\ n \in Nat /\ n % 8 = 0 /\ MINIMUM <= n
           /\ n <= Size(h1, b) /\ Tidy(h1, B) /\ Tidy(h2, B) /\ Tiling(h1, B) /\ Tiling(h2, B)
           /\ SameTags(h1, h2, B) /\ SameLinks(h1, h2, FreeIn(h1, B))
           /\ b \in B \ {heap_listp, h1.mem_brk} /\ h2.mem_brk = h1.mem_brk
           /\ Size(h1, b) \in Nat /\ Size(h1, b) % 8 = 0
<1>1. /\ Tidy(h1, B) /\ Tidy(h2, B) /\ Tiling(h1, B) /\ Tiling(h2, B)
      /\ SameTags(h1, h2, B) /\ SameLinks(h1, h2, FreeIn(h1, B))
  BY DEF Serviced, MmTwins, Tidy, Sound
<1>2. FreeIn(h2, B) = FreeIn(h1, B)
  BY <1>1, SameTagsSameUse
<1>3. /\ b \in FreeIn(h1, B) /\ n \in Nat /\ n % 8 = 0 /\ MINIMUM <= n /\ n <= Size(h1, b)
  BY DEF Serviced, RoomFor, FreeIn
<1>4. Size(h2, b) = Size(h1, b) /\ Used(h2, b) = 0 /\ h2.mem_brk = h1.mem_brk /\ b \in B
  BY <1>1, <1>3 DEF SameTags, FreeIn
<1>5. RoomFor(h2, B, b, n)
  BY <1>3, <1>4 DEF RoomFor
<1>6. b \in B \ {heap_listp, h1.mem_brk}
  BY <1>1, <1>3, FreeAreNodes
<1>7. Size(h1, b) \in Nat /\ Size(h1, b) % 8 = 0
  BY <1>1, <1>6, BlockFacts
<1> QED
  BY <1>1, <1>2, <1>3, <1>4, <1>5, <1>6, <1>7

(* The block, tagged, leaves both lists. *)
LEMMA TagRemoveSame ==
    ASSUME NEW h1, NEW h2, NEW B, NEW b, NEW n, Serviced(h1, h2, B, b, n),
           NEW s \in Nat, s % 8 = 0, MINIMUM <= s, s <= Size(h1, b),
           NEW k1, Tagged(h1, k1, b, s, 1), NEW k2, Tagged(h2, k2, b, s, 1),
           NEW i1, i1 = Mm!removeBlock(k1, b), NEW i2, i2 = Mm!removeBlock(k2, b),
           NEW F, F = FreeIn(h1, B)
    PROVE  SameLinks(i1, i2, F)
<1>1. /\ Size(h2, b) = Size(h1, b) /\ b \in F /\ FreeIn(h2, B) = F
      /\ Tidy(h1, B) /\ Tidy(h2, B) /\ SameLinks(h1, h2, F)
  BY ServicedBoth
<1>2. SameLinks(k1, k2, F)
  BY <1>1, TagSame
<1>3. Listing(k1, F) /\ k1 \in Heaps
  BY <1>1, TagThenRemove
<1>4. Listing(k2, F) /\ k2 \in Heaps
  BY <1>1, TagThenRemove
<1>5. Skipped(k1, i1, b) /\ Skipped(k2, i2, b)
  BY <1>1, <1>3, <1>4, RemoveSkips
<1> QED
  BY <1>1, <1>2, <1>5, RemoveSame

(* The blocks C of g are those B of h but that b is one in use now.         *)
NowUsed(h, B, b, n, g, C) ==
    /\ Tidy(g, C) /\ g.mem_brk = h.mem_brk
    /\ InUse(g, C) = InUse(h, B) \cup {b}
    /\ Keeps(h, g, InUse(h, B)) /\ After(g, b) = TakenTo(b, After(h, b), n)

(* The tags are the same then. *)
LEMMA UsedSame ==
    ASSUME NEW h1, NEW h2, NEW B, NEW b, NEW n, Serviced(h1, h2, B, b, n),
           NEW g1, NEW C1, NowUsed(h1, B, b, n, g1, C1),
           NEW g2, NEW C2, NowUsed(h2, B, b, n, g2, C2)
    PROVE  C1 = C2 /\ SameTags(g1, g2, C1)
<1>1. /\ SameTags(h1, h2, B) /\ b \in FreeIn(h1, B) /\ h2.mem_brk = h1.mem_brk
  BY ServicedBoth
<1>2. InUse(h1, B) = InUse(h2, B)
  BY <1>1, SameTagsSameUse
<1>3. After(h1, b) = After(h2, b)
  BY <1>1 DEF SameTags, FreeIn
<1>4. ASSUME NEW c \in InUse(g1, C1)
      PROVE  After(g1, c) = After(g2, c)
  <2>1. CASE c = b
    BY <1>3, <2>1 DEF NowUsed
  <2>2. CASE c # b
    <3>1. c \in InUse(h1, B) /\ c \in InUse(h2, B)
      BY <1>2, <2>2 DEF NowUsed
    <3>2. After(g1, c) = After(h1, c) /\ After(g2, c) = After(h2, c)
      BY <3>1 DEF NowUsed, Keeps
    <3> QED
      BY <1>1, <3>1, <3>2 DEF SameTags, InUse
  <2> QED
    BY <2>1, <2>2
<1>5. SameUse(g1, C1, g2, C2)
  BY <1>1, <1>2, <1>4 DEF NowUsed, SameUse, Tidy
<1> QED
  BY <1>5, UseTellsTags

(* No block is free that was not, if all of b is taken. *)
LEMMA UsedFree ==
    ASSUME NEW h, NEW B, Tiling(h, B), NEW b \in FreeIn(h, B), NEW n,
           ~(Size(h, b) - n >= MINIMUM), Size(h, b) \in Nat, n \in Nat,
           NEW g, NEW C, NowUsed(h, B, b, n, g, C)
    PROVE  FreeIn(g, C) \subseteq FreeIn(h, B)
<1>1. Sound(g, C) /\ Tiling(g, C)
  BY DEF NowUsed, Tidy, Sound
<1>2. After(g, b) = After(h, b)
  <2>1. b \in Nat
    BY FreeAreNodes
  <2>2. After(h, b) - b - n = Size(h, b) - n
    BY <2>1 DEF After
  <2> QED
    BY <2>2 DEF NowUsed, TakenTo
<1>3. ASSUME NEW c \in FreeIn(g, C)
      PROVE  c \in FreeIn(h, B)
  <2>1. c \in C /\ Used(g, c) = 0
    BY DEF FreeIn
  <2>2. PICK u \in InUse(g, C) : After(g, u) = c
    BY <1>1, <2>1, InUseBefore
  <2>3. u \in B \ {h.mem_brk} /\ After(h, u) = c
    <3>1. CASE u = b
      <4>1. b \in B \ {h.mem_brk}
        BY FreeAreNodes
      <4> QED
        BY <1>2, <2>2, <3>1, <4>1
    <3>2. CASE u # b
      <4>1. u \in InUse(h, B)
        BY <3>2 DEF NowUsed
      <4>2. After(g, u) = After(h, u)
        BY <4>1 DEF NowUsed, Keeps
      <4> QED
        BY <2>2, <4>1, <4>2 DEF InUse
    <3> QED
      BY <3>1, <3>2
  <2>4. c \in B
    BY <2>3 DEF Tiling, Chain
  <2>5. c \notin InUse(h, B)
    <3>1. c \notin InUse(g, C)
      BY <2>1 DEF InUse
    <3> QED
      BY <3>1 DEF NowUsed
  <2>6. c # h.mem_brk
    <3>1. c # g.mem_brk
      BY <1>1, FreeAreNodes
    <3> QED
      BY <3>1 DEF NowUsed
  <2> QED
    BY <2>4, <2>5, <2>6, FreeIsUnused
<1> QED
  BY <1>3

(* All of the block leaves both lists. *)
LEMMA WholeSame ==
    ASSUME NEW h1, NEW h2, NEW B, NEW b, NEW n, Serviced(h1, h2, B, b, n),
           NEW g1, TakesWhole(h1, b, n, g1), NEW C1, NowUsed(h1, B, b, n, g1, C1),
           NEW g2, TakesWhole(h2, b, n, g2), NEW C2, NowUsed(h2, B, b, n, g2, C2)
    PROVE  \E C : MmTwins(g1, g2, C)
<1>1. PICK s : s = Size(h1, b)
  OBVIOUS
<1>2. /\ Size(h2, b) = s /\ b \in FreeIn(h1, B) /\ n \in Nat /\ MINIMUM <= n /\ n <= s
      /\ Tiling(h1, B) /\ s \in Nat /\ s % 8 = 0
  BY <1>1, ServicedBoth
<1>3. PICK k1 : Tagged(h1, k1, b, s, 1) /\ g1 = Mm!removeBlock(k1, b)
  BY <1>1 DEF TakesWhole
<1>4. PICK k2 : Tagged(h2, k2, b, s, 1) /\ g2 = Mm!removeBlock(k2, b)
  BY <1>2 DEF TakesWhole
<1>5. PICK F : F = FreeIn(h1, B)
  OBVIOUS
<1>6. SameLinks(g1, g2, F)
  <2>1. MINIMUM <= s
    BY <1>2 DEF MINIMUM
  <2> QED
    BY <1>1, <1>2, <1>3, <1>4, <1>5, <2>1, TagRemoveSame
<1>7. FreeIn(g1, C1) \subseteq F
  <2>1. ~(Size(h1, b) - n >= MINIMUM)
    BY DEF TakesWhole
  <2> QED
    BY <1>1, <1>2, <1>5, <2>1, UsedFree
<1>8. SameLinks(g1, g2, FreeIn(g1, C1))
  BY <1>6, <1>7, FewerSame
<1>9. C1 = C2 /\ SameTags(g1, g2, C1)
  BY UsedSame
<1> QED
  BY <1>8, <1>9 DEF MmTwins, NowUsed

(* The first n bytes of the block leave both lists. *)
LEMMA HalfSame ==
    ASSUME NEW h1, NEW h2, NEW B, NEW b, NEW n, Serviced(h1, h2, B, b, n),
           NEW g1, TakesHalf(h1, b, n, g1), NEW g2, TakesHalf(h2, b, n, g2)
    PROVE  \E C : MmTwins(g1, g2, C)
<1>1. PICK s : s = Size(h1, b)
  OBVIOUS
<1>2. PICK m : m = b + n
  OBVIOUS
<1>3. /\ Size(h2, b) = s /\ b \in FreeIn(h1, B) /\ b \in FreeIn(h2, B)
      /\ n \in Nat /\ n % 8 = 0 /\ MINIMUM <= n /\ n <= s
      /\ Tidy(h1, B) /\ Tidy(h2, B) /\ Tiling(h1, B) /\ s \in Nat /\ s % 8 = 0
      /\ SameTags(h1, h2, B) /\ b \in B \ {heap_listp, h1.mem_brk} /\ h2.mem_brk = h1.mem_brk
  BY <1>1, ServicedBoth
<1>4. PICK j1, k1 : /\ Tagged(h1, j1, b, n, 1)
                    /\ Tagged(Mm!removeBlock(j1, b), k1, m, s - n, 0)
                    /\ g1 = Mm!coalesce(k1, m) /\ s - n >= MINIMUM
  BY <1>1, <1>2 DEF TakesHalf
<1>5. PICK j2, k2 : /\ Tagged(h2, j2, b, n, 1)
                    /\ Tagged(Mm!removeBlock(j2, b), k2, m, s - n, 0)
                    /\ g2 = Mm!coalesce(k2, m)
  BY <1>2, <1>3 DEF TakesHalf
<1>6. PICK i1 : i1 = Mm!removeBlock(j1, b)
  OBVIOUS
<1>7. PICK i2 : i2 = Mm!removeBlock(j2, b)
  OBVIOUS
<1>8. PICK F : F = FreeIn(h1, B)
  OBVIOUS
<1>9. SameLinks(i1, i2, F)
  BY <1>1, <1>3, <1>4, <1>5, <1>6, <1>7, <1>8, TagRemoveSame
<1>10. PICK r : r = s - n
  OBVIOUS
<1>11. SameLinks(k1, k2, F)
  BY <1>4, <1>5, <1>6, <1>7, <1>9, <1>10, TagSame
<1>12. PICK x1 : /\ Sound(x1, B) /\ ListedBut(x1, B, b) /\ SameBlocks(h1, x1, B)
                 /\ Tagged(x1, i1, b, n, 1)
  BY <1>1, <1>3, <1>4, <1>6, TagThenRemove
<1>13. PICK x2 : /\ Sound(x2, B) /\ ListedBut(x2, B, b) /\ SameBlocks(h2, x2, B)
                 /\ Tagged(x2, i2, b, n, 1)
  BY <1>3, <1>5, <1>7, TagThenRemove
<1>14. Size(x1, b) = s /\ Size(x2, b) = s
  BY <1>1, <1>3, <1>12, <1>13 DEF SameBlocks
<1>15. Halves(x1, b, n, m, r) /\ Halves(x2, b, n, m, r)
  <2>1. n + MINIMUM <= s
    BY <1>3, <1>4 DEF MINIMUM
  <2> QED
    BY <1>2, <1>3, <1>10, <1>14, <2>1 DEF Halves
<1>16. SplitAt(x1, b, n, m, k1) /\ SplitAt(x2, b, n, m, k2)
  BY <1>4, <1>5, <1>6, <1>7, <1>10, <1>12, <1>13, <1>14, <1>15 DEF SplitAt
<1>17. Splitting(x1, B, b, n, m, k1) /\ Splitting(x2, B, b, n, m, k2)
  BY <1>3, <1>12, <1>13, <1>16 DEF Splitting, SameBlocks
<1>18. SameTags(x1, x2, B)
  BY <1>3, <1>12, <1>13 DEF SameTags, SameBlocks
<1>19. PICK G : G = FreeIn(x1, B) \ {b}
  OBVIOUS
<1>20. SameLinks(k1, k2, G)
  <2>1. G \subseteq F
    BY <1>8, <1>12, <1>19 DEF SameBlocks
  <2> QED
    BY <1>11, <2>1, FewerSame
<1> QED
  BY <1>4, <1>5, <1>17, <1>18, <1>19, <1>20, SplitSame

(* place does the same to both. *)
LEMMA PlaceSame ==
    ASSUME NEW h1, NEW h2, NEW B, NEW b, NEW n, Serviced(h1, h2, B, b, n),
           NEW g1, g1 = Mm!place(h1, b, n), NEW g2, g2 = Mm!place(h2, b, n)
    PROVE  \E C : MmTwins(g1, g2, C)
<1>1. /\ RoomFor(h1, B, b, n) /\ RoomFor(h2, B, b, n) /\ Size(h2, b) = Size(h1, b)
      /\ Tidy(h1, B) /\ Tidy(h2, B)
  BY ServicedBoth DEF Serviced
<1>2. TakesWhole(h1, b, n, g1) \/ TakesHalf(h1, b, n, g1)
  BY <1>1, MmPlaceIs
<1>3. TakesWhole(h2, b, n, g2) \/ TakesHalf(h2, b, n, g2)
  BY <1>1, MmPlaceIs
<1>4. CASE TakesHalf(h1, b, n, g1)
  <2>1. TakesHalf(h2, b, n, g2)
    BY <1>1, <1>3, <1>4 DEF TakesWhole, TakesHalf
  <2> QED
    BY <1>4, <2>1, HalfSame
<1>5. CASE TakesWhole(h1, b, n, g1)
  <2>1. TakesWhole(h2, b, n, g2)
    BY <1>1, <1>3, <1>5 DEF TakesWhole, TakesHalf
  <2>2. PICK C1 : NowUsed(h1, B, b, n, g1, C1)
    <3>1. HasPlaced(h1, B, b, n, g1)
      BY <1>1, MmPlaces
    <3> QED
      BY <3>1 DEF HasPlaced, NowUsed
  <2>3. PICK C2 : NowUsed(h2, B, b, n, g2, C2)
    <3>1. HasPlaced(h2, B, b, n, g2)
      BY <1>1, MmPlaces
    <3> QED
      BY <3>1 DEF HasPlaced, NowUsed
  <2> QED
    BY <1>5, <2>1, <2>2, <2>3, WholeSame
<1> QED
  BY <1>2, <1>4, <1>5

(* extend_heap, when it can grow: what it adds, A the blocks then, is joined *)
(* and listed.                                                               *)
Extending(h, B, words, k, b, A, g) ==
    Growing(h, B, words, k, b, A) /\ g = Mm!coalesce(k, b)

(* That is what it does. *)
LEMMA ExtendIs ==
    ASSUME NEW h, NEW B, Tidy(h, B), NEW words \in Nat, words >= 4,
           h.mem_brk + Bytes(words) <= mem_max_addr, NEW b, b = h.mem_brk,
           NEW g, g = Mm!extend_heap(h, words)
    PROVE  \E k, A : Extending(h, B, words, k, b, A, g)
<1>1. PICK k : k = Grown(h, words)
  OBVIOUS
<1>2. PICK A : A = B \cup {k.mem_brk}
  OBVIOUS
<1>3. Growing(h, B, words, k, b, A)
  BY <1>1, <1>2 DEF Growing
<1>4. k.ret = b
  BY <1>3, GrownUnlisted
<1>5. b # NULL
  <2>1. Tiling(h, B) /\ b \in B
    BY DEF Tidy, Sound, Tiling, Bounds
  <2>2. b \in Nat /\ heap_listp \in Nat /\ heap_listp <= b /\ heap_listp = mem_start_brk + 8
    BY <2>1, BlockFacts
  <2> QED
    BY <2>2, AreaAssumption DEF NULL
<1>6. g = IF k.ret = NULL THEN k ELSE Mm!coalesce(k, k.ret)
  <2>1. g = LET j == Mm!Grown(h, words) IN IF j.ret = Mm!NULL THEN j ELSE Mm!coalesce(j, j.ret)
    BY Zenon DEF Mm!extend_heap
  <2> QED
    BY <1>1, <2>1, MmMemory, MmTags
<1>7. g = Mm!coalesce(k, b)
  BY <1>4, <1>5, <1>6
<1> QED
  BY <1>3, <1>7 DEF Extending

(* What the heap looks like before that is listed. *)
Grows(h, B, words, k, b, A) ==
    /\ Unlisting(k, A, b) /\ k.mem_brk = b + Bytes(words) /\ A = B \cup {k.mem_brk}
    /\ k.mem_brk \notin B /\ k.free_listp = h.free_listp
    /\ Size(k, b) = Bytes(words) /\ After(k, b) = b + Bytes(words)
    /\ Size(k, k.mem_brk) = 0 /\ Used(k, k.mem_brk) = 1
    /\ \A c \in B \ {b} : /\ Size(k, c) = Size(h, c) /\ Used(k, c) = Used(h, c)
                          /\ After(k, c) = After(h, c) /\ Untouched(h, k, c)

(* That is so. *)
LEMMA GrowingGrows ==
    ASSUME NEW h, NEW B, Tidy(h, B), NEW words, NEW k, NEW b, NEW A, Growing(h, B, words, k, b, A)
    PROVE  Grows(h, B, words, k, b, A)
<1>1. Tiling(h, B)
  BY DEF Tidy, Sound
<1>2. /\ Tiling(k, A) /\ Unlisting(k, A, b)
  BY GrownUnlisted DEF Unlisting
<1>3. Size(k, k.mem_brk) = 0 /\ Used(k, k.mem_brk) = 1
  <2>1. k.mem_brk \in A
    BY <1>2 DEF Tiling, Bounds
  <2> QED
    BY <1>2, <2>1, BlockFacts
<1>4. words \in Nat /\ words >= 4 /\ h.mem_brk + Bytes(words) <= mem_max_addr
  BY DEF Growing
<1>5. k = Grown(h, words) /\ b = h.mem_brk /\ A = B \cup {k.mem_brk}
  BY DEF Growing
<1>6. /\ k.mem_brk = b + Bytes(words) /\ k.mem_brk \notin B /\ k.free_listp = h.free_listp
      /\ Size(k, b) = Bytes(words) /\ After(k, b) = b + Bytes(words)
      /\ \A c \in B \ {b} : /\ Size(k, c) = Size(h, c) /\ Used(k, c) = Used(h, c)
                            /\ After(k, c) = After(h, c) /\ Untouched(h, k, c)
  <2>1. LET d == h.mem_brk
            g == Grown(h, words)
        IN  /\ Tiling(g, B \cup {d + Bytes(words)}) /\ g.ret = d
            /\ g.mem_brk = d + Bytes(words) /\ g.free_listp = h.free_listp
            /\ d + Bytes(words) \notin B /\ Bytes(words) \in Nat
            /\ Size(g, d) = Bytes(words) /\ Used(g, d) = 0
            /\ After(g, d) = d + Bytes(words)
            /\ \A c \in B \ {d} :
                  /\ Size(g, c) = Size(h, c) /\ Used(g, c) = Used(h, c)
                  /\ After(g, c) = After(h, c) /\ Untouched(h, g, c)
    BY <1>1, <1>4, GrownTiles
  <2> QED
    BY <1>5, <2>1
<1> QED
  BY <1>2, <1>3, <1>5, <1>6 DEF Grows

(* Both heaps grow by the same block b. *)
GrowBoth(h1, h2, B, words, b, k1, A1, k2, A2) ==
    /\ MmTwins(h1, h2, B) /\ b = h1.mem_brk
    /\ Grows(h1, B, words, k1, b, A1) /\ Grows(h2, B, words, k2, b, A2)

(* But for that block they are the same then, too. *)
LEMMA GrowsSame ==
    ASSUME NEW h1, NEW h2, NEW B, NEW words, NEW b, NEW k1, NEW A1, NEW k2, NEW A2,
           GrowBoth(h1, h2, B, words, b, k1, A1, k2, A2), NEW G, G = FreeIn(k1, A1) \ {b}
    PROVE  A1 = A2 /\ SameTags(k1, k2, A1) /\ SameLinks(k1, k2, G)
<1>0. /\ MmTwins(h1, h2, B) /\ b = h1.mem_brk
      /\ Grows(h1, B, words, k1, b, A1) /\ Grows(h2, B, words, k2, b, A2)
  BY DEF GrowBoth
<1>1. /\ A1 = A2 /\ k1.mem_brk = k2.mem_brk /\ Tiling(h1, B) /\ Tiling(h2, B)
      /\ SameTags(h1, h2, B) /\ h2.mem_brk = b
  BY <1>0 DEF Grows, MmTwins, SameTags, Tidy, Sound
<1>2. PICK m : m = k1.mem_brk
  OBVIOUS
<1>3. ASSUME NEW c \in A1
      PROVE  /\ Size(k1, c) = Size(k2, c) /\ Used(k1, c) = Used(k2, c)
             /\ After(k1, c) = After(k2, c)
  <2>1. CASE c = m
    <3>1. /\ Size(k1, c) = 0 /\ Used(k1, c) = 1
          /\ Size(k2, c) = 0 /\ Used(k2, c) = 1
      BY <1>0, <1>1, <1>2, <2>1 DEF Grows
    <3> QED
      BY <3>1 DEF After
  <2>2. CASE c = b
    BY <1>0, <2>2 DEF Grows, Unlisting
  <2>3. CASE c # m /\ c # b
    <3>1. c \in B \ {b}
      BY <1>0, <1>2, <2>3 DEF Grows
    <3>2. /\ Size(k1, c) = Size(h1, c) /\ Used(k1, c) = Used(h1, c) /\ After(k1, c) = After(h1, c)
          /\ Size(k2, c) = Size(h2, c) /\ Used(k2, c) = Used(h2, c) /\ After(k2, c) = After(h2, c)
      BY <1>0, <3>1 DEF Grows
    <3> QED
      BY <1>1, <3>1, <3>2 DEF SameTags
  <2> QED
    BY <2>1, <2>2, <2>3
<1>4. SameTags(k1, k2, A1)
  BY <1>1, <1>3 DEF SameTags
<1>6. PICK F : F = FreeIn(h1, B)
  OBVIOUS
<1>7. F = FreeIn(h2, B)
  BY <1>1, <1>6, SameTagsSameUse
<1>8. ASSUME NEW c \in G
      PROVE  c \in F /\ c \in B \ {b}
  <2>1. c \in A1 /\ Used(k1, c) = 0 /\ c # b
    BY DEF FreeIn
  <2>2. c \in B \ {b}
    BY <1>0, <2>1 DEF Grows
  <2>3. Used(h1, c) = 0
    BY <1>0, <2>1, <2>2 DEF Grows
  <2> QED
    BY <1>6, <2>2, <2>3 DEF FreeIn
<1>9. SameLinks(h1, h2, G)
  <2>1. SameLinks(h1, h2, F)
    BY <1>0, <1>6 DEF MmTwins
  <2> QED
    BY <1>8, <2>1 DEF SameLinks
<1>10. ASSUME NEW c \in G
       PROVE  GET(k1, c) = GET(h1, c) /\ GET(k1, c + 4) = GET(h1, c + 4)
  <2>1. Untouched(h1, k1, c)
    BY <1>0, <1>8 DEF Grows
  <2> QED
    BY <1>1, <1>6, <1>8, <2>1, LinksUntouched
<1>11. ASSUME NEW c \in G
       PROVE  GET(k2, c) = GET(h2, c) /\ GET(k2, c + 4) = GET(h2, c + 4)
  <2>1. Untouched(h2, k2, c)
    BY <1>0, <1>8 DEF Grows
  <2> QED
    BY <1>1, <1>7, <1>8, <2>1, LinksUntouched
<1>12. k1.free_listp = h1.free_listp /\ k2.free_listp = h2.free_listp
  BY <1>0 DEF Grows
<1>13. SameLinks(k1, k2, G)
  BY <1>9, <1>10, <1>11, <1>12, AloneSame
<1> QED
  BY <1>1, <1>4, <1>13

(* The heaps g1 and g2 are twins, and returned the same. *)
MmAgree(g1, g2) == (\E C : MmTwins(g1, g2, C)) /\ g1.ret = g2.ret

(* extend_heap does the same to both, when there is room. *)
LEMMA ExtendSame ==
    ASSUME NEW h1, NEW h2, NEW B, MmTwins(h1, h2, B),
           NEW bytes \in Nat, bytes % 8 = 0, bytes >= 16, h1.mem_brk + bytes <= mem_max_addr,
           NEW g1, g1 = Mm!extend_heap(h1, bytes \div 4),
           NEW g2, g2 = Mm!extend_heap(h2, bytes \div 4)
    PROVE  MmAgree(g1, g2)
<1>1. PICK words : words = bytes \div 4
  OBVIOUS
<1>2. words \in Nat /\ words >= 4 /\ Bytes(words) = bytes
  BY <1>1 DEF Bytes, WSIZE
<1>3. PICK b : b = h1.mem_brk
  OBVIOUS
<1>4. Tidy(h1, B) /\ Tidy(h2, B) /\ h2.mem_brk = b
  BY <1>3 DEF MmTwins, SameTags
<1>5. PICK k1, A1 : Extending(h1, B, words, k1, b, A1, g1)
  <2>1. h1.mem_brk + Bytes(words) <= mem_max_addr /\ g1 = Mm!extend_heap(h1, words)
    BY <1>1, <1>2
  <2> QED
    BY <1>2, <1>3, <1>4, <2>1, ExtendIs
<1>6. PICK k2, A2 : Extending(h2, B, words, k2, b, A2, g2)
  <2>1. h2.mem_brk + Bytes(words) <= mem_max_addr /\ g2 = Mm!extend_heap(h2, words)
    BY <1>1, <1>2, <1>3, <1>4
  <2> QED
    BY <1>2, <1>4, <2>1, ExtendIs
<1>7. Grows(h1, B, words, k1, b, A1) /\ Grows(h2, B, words, k2, b, A2)
  <2>1. Growing(h1, B, words, k1, b, A1) /\ Growing(h2, B, words, k2, b, A2)
    BY <1>5, <1>6 DEF Extending
  <2> QED
    BY <1>4, <2>1, GrowingGrows
<1>8. PICK G : G = FreeIn(k1, A1) \ {b}
  OBVIOUS
<1>9. A1 = A2 /\ SameTags(k1, k2, A1) /\ SameLinks(k1, k2, G)
  <2>1. GrowBoth(h1, h2, B, words, b, k1, A1, k2, A2)
    BY <1>3, <1>7 DEF GrowBoth
  <2> QED
    BY <1>8, <2>1, GrowsSame
<1>10. Unlisting(k1, A1, b) /\ Unlisting(k2, A1, b)
  BY <1>7, <1>9 DEF Grows
<1>11. g1 = Mm!coalesce(k1, b) /\ g2 = Mm!coalesce(k2, b)
  BY <1>5, <1>6 DEF Extending
<1> QED
  BY <1>9, <1>10, <1>11, <1>8, CoalesceSame DEF MmAgree

(* The list is walked the same way in both. *)
LEMMA ListedSame ==
    ASSUME NEW h1, NEW h2, NEW B, MmTwins(h1, h2, B),
           NEW l1, l1 = Mm!Listed(h1), NEW l2, l2 = Mm!Listed(h2)
    PROVE  \A n \in Steps : l1[n] = l2[n] /\ l1[n] \in FreeIn(h1, B) \cup {NULL}
<1>1. PICK F : F = FreeIn(h1, B)
  OBVIOUS
<1>2. Tidy(h1, B) /\ SameLinks(h1, h2, F)
  BY <1>1 DEF MmTwins
<1>3. Listing(h1, F) /\ \A p \in F : heap_listp <= p
  BY <1>1, <1>2, FreeBehind
<1>4. \A n \in Steps : l1[n] \in F \cup {NULL}
  BY <1>3, ListCovers
<1>5. PICK S : S = {n \in Nat : n \in Steps => l1[n] = l2[n]}
  OBVIOUS
<1>6. /\ l1[0] = h1.free_listp
      /\ \A n \in Steps : n + 1 \in Steps =>
            l1[n + 1] = IF l1[n] = NULL THEN NULL ELSE GET(h1, l1[n] + 4)
  BY ListUnfolds
<1>7. /\ l2[0] = h2.free_listp
      /\ \A n \in Steps : n + 1 \in Steps =>
            l2[n + 1] = IF l2[n] = NULL THEN NULL ELSE GET(h2, l2[n] + 4)
  BY ListUnfolds
<1>8. 0 \in S
  BY <1>2, <1>5, <1>6, <1>7 DEF SameLinks
<1>9. ASSUME NEW n \in Nat, n \in S
      PROVE  n + 1 \in S
  <2>1. ASSUME n + 1 \in Steps
        PROVE  l1[n + 1] = l2[n + 1]
    <3>1. n \in Steps
      BY <2>1, AreaAssumption DEF Steps, MaxBlocks
    <3>2. l1[n] = l2[n] /\ l1[n] \in F \cup {NULL}
      BY <1>4, <1>5, <1>9, <3>1
    <3>3. l1[n] # NULL => GET(h1, l1[n] + 4) = GET(h2, l1[n] + 4)
      BY <1>2, <3>2 DEF SameLinks
    <3>4. l1[n + 1] = IF l1[n] = NULL THEN NULL ELSE GET(h1, l1[n] + 4)
      BY <1>6, <2>1, <3>1
    <3>5. l2[n + 1] = IF l2[n] = NULL THEN NULL ELSE GET(h2, l2[n] + 4)
      BY <1>7, <2>1, <3>1
    <3> QED
      BY <3>2, <3>3, <3>4, <3>5
  <2> QED
    BY <1>5, <2>1
<1>10. \A n \in Nat : n \in S
  BY <1>8, <1>9, AllNumbers
<1>11. \A n \in Steps : n \in Nat
  BY AreaAssumption DEF Steps, MaxBlocks
<1> QED
  BY <1>1, <1>4, <1>5, <1>10, <1>11

(* What find_fit tests of the listed block p. *)
FitsHere(h, p, n) == p # NULL /\ GET_ALLOC(h, HDRP(p)) = 0 /\ n <= GET_SIZE(h, HDRP(p))

(* The steps along the list at which a block passes. *)
FitSteps(h, list, n) == {m \in Steps : FitsHere(h, list[m], n)}

(* It finds the first one that passes. *)
LEMMA MmFindIs ==
    ASSUME NEW h, NEW n, NEW list, list = Mm!Listed(h),
           NEW fits, fits = FitSteps(h, list, n)
    PROVE  Mm!find_fit(h, n) = IF fits = {} THEN NULL ELSE list[Min(fits)]
<1>1. fits = {m \in Mm!Steps : /\ list[m] # Mm!NULL
                               /\ Mm!GET_ALLOC(h, Mm!HDRP(list[m])) = 0
                               /\ n <= Mm!GET_SIZE(h, Mm!HDRP(list[m]))}
  BY MmMemory, MmTags DEF FitSteps, FitsHere
<1>2. Mm!find_fit(h, n) = Mm!FirstOf(list, fits)
  BY <1>1, Zenon DEF Mm!find_fit
<1> QED
  BY <1>2, MmMemory, MmExtrema DEF Mm!FirstOf

(* It finds the same block in both. *)
LEMMA FindSame ==
    ASSUME NEW h1, NEW h2, NEW B, MmTwins(h1, h2, B), NEW n
    PROVE  Mm!find_fit(h1, n) = Mm!find_fit(h2, n)
<1>1. PICK l1 : l1 = Mm!Listed(h1)
  OBVIOUS
<1>2. PICK l2 : l2 = Mm!Listed(h2)
  OBVIOUS
<1>3. \A m \in Steps : l1[m] = l2[m] /\ l1[m] \in FreeIn(h1, B) \cup {NULL}
  BY <1>1, <1>2, ListedSame
<1>4. PICK f1 : f1 = FitSteps(h1, l1, n)
  OBVIOUS
<1>5. PICK f2 : f2 = FitSteps(h2, l2, n)
  OBVIOUS
<1>6. \A p \in FreeIn(h1, B) : FitsHere(h1, p, n) <=> FitsHere(h2, p, n)
  <2>1. Tiling(h1, B) /\ Tiling(h2, B) /\ SameTags(h1, h2, B)
    BY DEF MmTwins, Tidy, Sound
  <2>2. ASSUME NEW p \in FreeIn(h1, B)
        PROVE  /\ GET_SIZE(h1, HDRP(p)) = GET_SIZE(h2, HDRP(p))
               /\ GET_ALLOC(h1, HDRP(p)) = GET_ALLOC(h2, HDRP(p))
    <3>1. p \in B
      BY DEF FreeIn
    <3>2. /\ GET_SIZE(h1, HDRP(p)) = Size(h1, p) /\ GET_ALLOC(h1, HDRP(p)) = Used(h1, p)
          /\ GET_SIZE(h2, HDRP(p)) = Size(h2, p) /\ GET_ALLOC(h2, HDRP(p)) = Used(h2, p)
      BY <2>1, <3>1, TagsTell
    <3> QED
      BY <2>1, <3>1, <3>2 DEF SameTags
  <2> QED
    BY <2>2 DEF FitsHere
<1>7. f1 = f2
  <2>1. \A m \in Steps : m \in f1 <=> m \in f2
    BY <1>3, <1>4, <1>5, <1>6 DEF FitSteps, FitsHere
  <2> QED
    BY <1>4, <1>5, <2>1 DEF FitSteps
<1>8. /\ Mm!find_fit(h1, n) = IF f1 = {} THEN NULL ELSE l1[Min(f1)]
      /\ Mm!find_fit(h2, n) = IF f2 = {} THEN NULL ELSE l2[Min(f2)]
  BY <1>1, <1>2, <1>4, <1>5, MmFindIs
<1>9. f1 # {} => Min(f1) \in Steps
  <2> SUFFICES ASSUME f1 # {}
               PROVE  Min(f1) \in Steps
    OBVIOUS
  <2>1. f1 \subseteq Steps /\ f1 \subseteq Nat
    BY <1>4, AreaAssumption DEF FitSteps, Steps, MaxBlocks
  <2>2. PICK m \in f1 : \A k \in f1 : m <= k
    BY <2>1, LeastNumber
  <2>3. Min(f1) \in f1
    BY <2>2 DEF Min
  <2> QED
    BY <2>1, <2>3
<1> QED
  BY <1>3, <1>7, <1>8, <1>9

(* The heaps are not told from each other by what they return. *)
LEMMA TwinsReturn ==
    ASSUME NEW h1, NEW h2, NEW B, MmTwins(h1, h2, B), NEW r1 \in Int, NEW r2 \in Int,
           NEW g1, Returning(h1, g1, r1), NEW g2, Returning(h2, g2, r2)
    PROVE  MmTwins(g1, g2, B) /\ g1.ret = r1 /\ g2.ret = r2
<1>1. Tidy(h1, B) /\ Tidy(h2, B) /\ h1 \in Heaps /\ h2 \in Heaps
  BY DEF MmTwins, Tidy, Sound, Tiling, Bounds
<1>2. Tidy(g1, B) /\ Tidy(g2, B)
  BY <1>1, NeatReturns
<1>3. /\ g1.ret = r1 /\ g1.mem_brk = h1.mem_brk
      /\ \A b : /\ Size(g1, b) = Size(h1, b) /\ Used(g1, b) = Used(h1, b)
                /\ After(g1, b) = After(h1, b)
  BY <1>1, Returns
<1>4. /\ g2.ret = r2 /\ g2.mem_brk = h2.mem_brk
      /\ \A b : /\ Size(g2, b) = Size(h2, b) /\ Used(g2, b) = Used(h2, b)
                /\ After(g2, b) = After(h2, b)
  BY <1>1, Returns
<1>5. SameTags(g1, g2, B)
  BY <1>3, <1>4 DEF SameTags, MmTwins
<1>6. PICK F : F = FreeIn(h1, B)
  OBVIOUS
<1>7. SameLinks(g1, g2, F)
  <2>1. SameLinks(h1, h2, F)
    BY <1>6 DEF MmTwins
  <2> QED
    BY <1>1, <2>1, ReturnSame
<1>8. FreeIn(g1, B) = F
  BY <1>3, <1>6 DEF FreeIn
<1> QED
  BY <1>2, <1>3, <1>4, <1>5, <1>7, <1>8 DEF MmTwins

(* A free block is placed and returned in both. *)
LEMMA ServeSame ==
    ASSUME NEW h1, NEW h2, NEW B, NEW b, NEW n, Serviced(h1, h2, B, b, n),
           NEW g1, Returning(Mm!place(h1, b, n), g1, b),
           NEW g2, Returning(Mm!place(h2, b, n), g2, b)
    PROVE  MmAgree(g1, g2)
<1>1. PICK j1 : j1 = Mm!place(h1, b, n)
  OBVIOUS
<1>2. PICK j2 : j2 = Mm!place(h2, b, n)
  OBVIOUS
<1>3. PICK C : MmTwins(j1, j2, C)
  BY <1>1, <1>2, PlaceSame
<1>4. b \in Int
  <2>1. Tiling(h1, B) /\ b \in B
    BY ServicedBoth
  <2>2. b \in Nat
    BY <2>1, BlockFacts
  <2> QED
    BY <2>2
<1>5. Returning(j1, g1, b) /\ Returning(j2, g2, b)
  BY <1>1, <1>2
<1>6. MmTwins(g1, g2, C) /\ g1.ret = b /\ g2.ret = b
  BY <1>3, <1>4, <1>5, TwinsReturn
<1> QED
  BY <1>6 DEF MmAgree

(* The block that extend_heap returns has room for what it was called for. *)
LEMMA GrownHasRoom ==
    ASSUME NEW h, NEW B, Tidy(h, B), NEW n \in Nat, n % 8 = 0, MINIMUM <= n,
           NEW bytes \in Nat, n <= bytes, NEW k, HasGrown(h, B, k, bytes), NEW C, Tidy(k, C)
    PROVE  RoomFor(k, C, k.ret, n) /\ k.ret # NULL
<1>1. PICK D : /\ Tidy(k, D) /\ k.mem_brk = h.mem_brk + bytes
               /\ k.ret \in D /\ Used(k, k.ret) = 0 /\ k.ret \in Nat
               /\ k.ret <= h.mem_brk /\ After(k, k.ret) = k.mem_brk
  BY DEF HasGrown
<1>2. C = D
  BY <1>1, OneTiling DEF Tidy
<1>3. Tiling(k, C) /\ Tiling(h, B) /\ h.mem_brk \in B
  BY DEF Tidy, Sound, Tiling, Bounds
<1>4. h.mem_brk \in Nat /\ k.mem_brk \in Nat
  BY <1>3, BlockFacts DEF Tiling, Bounds
<1>5. k.ret # k.mem_brk
  <2>1. Used(k, k.mem_brk) = 1
    BY <1>1, <1>2, <1>3, BlockFacts
  <2> QED
    BY <1>1, <2>1
<1>6. Size(k, k.ret) \in Nat /\ k.ret + Size(k, k.ret) = h.mem_brk + bytes
  BY <1>1, <1>2, <1>3, <1>5, BlockFacts DEF After
<1>7. n <= Size(k, k.ret)
  BY <1>1, <1>4, <1>6
<1>8. k.ret # NULL
  <2>1. heap_listp <= k.ret /\ heap_listp = mem_start_brk + 8
    BY <1>1, <1>2, <1>3, BlockFacts
  <2> QED
    BY <1>1, <2>1, AreaAssumption DEF NULL
<1> QED
  BY <1>1, <1>2, <1>7, <1>8 DEF RoomFor

(* mm_malloc gives the same block in both. *)
LEMMA MmMallocSame ==
    ASSUME NEW h1, NEW h2, NEW B, MmTwins(h1, h2, B), NEW size \in Nat \ {0},
           NEW g1, g1 = Mm!mm_malloc(h1, size), NEW g2, g2 = Mm!mm_malloc(h2, size)
    PROVE  MmAgree(g1, g2)
<1>1. PICK n : n = Adjusted(size)
  OBVIOUS
<1>2. PICK bytes : bytes = GrowsBy(n)
  OBVIOUS
<1>3. /\ n \in Nat /\ n % 8 = 0 /\ MINIMUM <= n
      /\ bytes \in Nat /\ bytes % 8 = 0 /\ bytes >= 16 /\ n <= bytes
  BY <1>1, <1>2, MmMallocIs
<1>4. PICK bp, k1 : Mallocs(h1, n, bp, k1, g1)
  BY <1>1, MmMallocIs
<1>5. PICK bp2, k2 : Mallocs(h2, n, bp2, k2, g2)
  BY <1>1, MmMallocIs
<1>6. bp = bp2 /\ bp = Mm!find_fit(h1, n)
  BY <1>4, <1>5, FindSame DEF Mallocs
<1>7. k1 = Mm!extend_heap(h1, bytes \div 4) /\ k2 = Mm!extend_heap(h2, bytes \div 4)
  BY <1>2, <1>4, <1>5 DEF Mallocs
<1>8. /\ Tidy(h1, B) /\ Tidy(h2, B) /\ h2.mem_brk = h1.mem_brk /\ h1 \in Heaps /\ h2 \in Heaps
      /\ h1.mem_brk \in Nat
  <2>1. /\ Tidy(h1, B) /\ Tidy(h2, B) /\ h2.mem_brk = h1.mem_brk
        /\ h1 \in Heaps /\ h2 \in Heaps
    BY DEF MmTwins, SameTags, Tidy, Sound, Tiling, Bounds
  <2> QED
    BY <2>1 DEF Heaps
<1>9. CASE bp # NULL
  <2>1. bp \in Fitting(h1, B, n)
    BY <1>3, <1>6, <1>8, <1>9, MmFinds
  <2>2. Serviced(h1, h2, B, bp, n)
    BY <1>3, <2>1 DEF Fitting, RoomFor, Serviced
  <2>3. Returning(Mm!place(h1, bp, n), g1, bp) /\ Returning(Mm!place(h2, bp, n), g2, bp)
    BY <1>4, <1>5, <1>6, <1>9 DEF Mallocs
  <2> QED
    BY <2>2, <2>3, ServeSame
<1>10. CASE bp = NULL /\ h1.mem_brk + bytes > mem_max_addr
  <2>1. Returning(h1, k1, NULL) /\ Returning(h2, k2, NULL)
    BY <1>3, <1>7, <1>8, <1>10, MmExtends
  <2>2. NULL \in Int
    BY DEF NULL
  <2>3. MmTwins(k1, k2, B) /\ k1.ret = NULL /\ k2.ret = NULL
    BY <2>1, <2>2, TwinsReturn
  <2>4. g1 = k1 /\ g2 = k2
    BY <1>4, <1>5, <1>6, <1>10, <2>3 DEF Mallocs
  <2> QED
    BY <2>3, <2>4 DEF MmAgree
<1>11. CASE bp = NULL /\ h1.mem_brk + bytes <= mem_max_addr
  <2>1. MmAgree(k1, k2)
    BY <1>3, <1>7, <1>11, ExtendSame
  <2>2. PICK C : MmTwins(k1, k2, C) /\ k1.ret = k2.ret
    BY <2>1 DEF MmAgree
  <2>3. HasGrown(h1, B, k1, bytes)
    BY <1>3, <1>7, <1>8, <1>11, MmExtends
  <2>4. Tidy(k1, C)
    BY <2>2 DEF MmTwins
  <2>5. RoomFor(k1, C, k1.ret, n) /\ k1.ret # NULL
    BY <1>3, <1>8, <2>3, <2>4, GrownHasRoom
  <2>6. PICK b : b = k1.ret
    OBVIOUS
  <2>7. Serviced(k1, k2, C, b, n)
    BY <2>2, <2>5, <2>6 DEF Serviced
  <2>8. Returning(Mm!place(k1, b, n), g1, b) /\ Returning(Mm!place(k2, b, n), g2, b)
    BY <1>4, <1>5, <1>6, <1>11, <2>2, <2>5, <2>6 DEF Mallocs
  <2> QED
    BY <2>7, <2>8, ServeSame
<1>12. mem_max_addr \in Nat
  BY AreaAssumption DEF mem_max_addr
<1> QED
  BY <1>3, <1>8, <1>9, <1>10, <1>11, <1>12

(* mm_free leaves coalesce a block that is not listed yet. *)
LEMMA FreedIsUnlisting ==
    ASSUME NEW h, NEW B, Tidy(h, B), NEW b \in InUse(h, B) \ {heap_listp},
           NEW k, k = Tag(h, b, Size(h, b), 0)
    PROVE  Unlisting(k, B, b) /\ k.mem_brk = h.mem_brk
<1>1. PICK S : S = InUse(h, B) \ {b}
  OBVIOUS
<1>2. /\ Tiling(k, B) /\ b \in B \ {heap_listp, k.mem_brk} /\ Used(k, b) = 0
      /\ OnlyTouching(k, B, b) /\ ListedBut(k, B, b)
      /\ InUse(k, B) = S /\ k.mem_brk = h.mem_brk
      /\ Keeps(h, k, S)
  BY <1>1, FreedUnlisted
<1>3. b \in B \ {heap_listp, h.mem_brk}
  BY <1>2
<1> QED
  BY <1>2, <1>3 DEF Unlisting

(* mm_free does the same to both. *)
LEMMA MmFreeSame ==
    ASSUME NEW h1, NEW h2, NEW B, MmTwins(h1, h2, B), NEW b \in InUse(h1, B) \ {heap_listp},
           NEW g1, g1 = Mm!mm_free(h1, b), NEW g2, g2 = Mm!mm_free(h2, b)
    PROVE  MmAgree(g1, g2)
<1>1. /\ Tidy(h1, B) /\ Tidy(h2, B) /\ SameTags(h1, h2, B) /\ Tiling(h1, B) /\ Tiling(h2, B)
      /\ b \in B
  BY DEF MmTwins, Tidy, Sound, InUse
<1>2. b \in InUse(h2, B) \ {heap_listp}
  BY <1>1, SameTagsSameUse
<1>3. PICK s : s = Size(h1, b)
  OBVIOUS
<1>4. Size(h2, b) = s
  BY <1>1, <1>3 DEF SameTags
<1>5. PICK k1 : k1 = Tag(h1, b, s, 0)
  OBVIOUS
<1>6. PICK k2 : k2 = Tag(h2, b, s, 0)
  OBVIOUS
<1>7. g1 = Mm!coalesce(k1, b) /\ g2 = Mm!coalesce(k2, b)
  BY <1>1, <1>3, <1>4, <1>5, <1>6, MmFreeIs
<1>8. /\ Unlisting(k1, B, b) /\ k1.mem_brk = h1.mem_brk
      /\ Unlisting(k2, B, b) /\ k2.mem_brk = h2.mem_brk
  <2>1. k1 = Tag(h1, b, Size(h1, b), 0) /\ k2 = Tag(h2, b, Size(h2, b), 0)
    BY <1>3, <1>4, <1>5, <1>6
  <2>2. Unlisting(k1, B, b) /\ k1.mem_brk = h1.mem_brk
    BY <1>1, <2>1, FreedIsUnlisting
  <2>3. Unlisting(k2, B, b) /\ k2.mem_brk = h2.mem_brk
    BY <1>1, <1>2, <2>1, FreedIsUnlisting
  <2> QED
    BY <2>2, <2>3
<1>9. /\ Tagged(h1, k1, b, s, 0)
      /\ Size(k1, b) = s /\ Used(k1, b) = 0 /\ After(k1, b) = After(h1, b)
      /\ \A c \in B \ {b} :
            Size(k1, c) = Size(h1, c) /\ Used(k1, c) = Used(h1, c) /\ After(k1, c) = After(h1, c)
  BY <1>1, <1>3, <1>5, FreedTags
<1>10. /\ Tagged(h2, k2, b, s, 0)
       /\ Size(k2, b) = s /\ Used(k2, b) = 0 /\ After(k2, b) = After(h2, b)
       /\ \A c \in B \ {b} :
             Size(k2, c) = Size(h2, c) /\ Used(k2, c) = Used(h2, c) /\ After(k2, c) = After(h2, c)
  BY <1>1, <1>2, <1>4, <1>6, FreedTags
<1>11. SameTags(k1, k2, B)
  <2>1. ASSUME NEW c \in B
        PROVE  /\ Size(k1, c) = Size(k2, c) /\ Used(k1, c) = Used(k2, c)
               /\ After(k1, c) = After(k2, c)
    BY <1>1, <1>9, <1>10 DEF SameTags
  <2> QED
    BY <1>1, <1>8, <2>1 DEF SameTags
<1>12. PICK F : F = FreeIn(k1, B) \ {b}
  OBVIOUS
<1>13. SameLinks(h1, h2, F)
  <2>1. ASSUME NEW c \in F
        PROVE  c \in FreeIn(h1, B)
    BY <1>9, <1>12 DEF FreeIn
  <2>2. F \subseteq FreeIn(h1, B)
    BY <2>1
  <2>3. SameLinks(h1, h2, FreeIn(h1, B))
    BY DEF MmTwins
  <2> QED
    BY <2>2, <2>3, FewerSame
<1>14. SameLinks(k1, k2, F)
  BY <1>9, <1>10, <1>13, TagSame
<1> QED
  BY <1>7, <1>8, <1>11, <1>12, <1>14, CoalesceSame DEF MmAgree

(* mm_init makes the same heap of any two. *)
LEMMA MmStartSame ==
    ASSUME 16 + CHUNKSIZE <= MAX_HEAP, NEW h1 \in Heaps, NEW h2 \in Heaps,
           NEW g1, g1 = Mm!mm_init(mem_reset_brk(h1)), NEW g2, g2 = Mm!mm_init(mem_reset_brk(h2))
    PROVE  MmAgree(g1, g2)
<1>1. PICK k1, B, j1 : Starting(k1, B, j1, g1)
  BY MmStartIs
<1>2. PICK k2, B2, j2 : Starting(k2, B2, j2, g2)
  BY MmStartIs
<1>3. /\ CHUNKSIZE \in Nat /\ CHUNKSIZE % 8 = 0 /\ CHUNKSIZE >= 16
      /\ mem_start_brk \in Nat /\ MAX_HEAP \in Nat /\ mem_max_addr = mem_start_brk + MAX_HEAP
  BY ChunkAssumption, AreaAssumption DEF mem_max_addr
<1>4. /\ Tidy(k1, B) /\ Tidy(k2, B) /\ B = B2
      /\ k1.mem_brk = mem_start_brk + 16 /\ k2.mem_brk = k1.mem_brk
      /\ InUse(k1, B) = {heap_listp} /\ InUse(k2, B) = {heap_listp}
      /\ k1.free_listp = k2.free_listp
      /\ j1 = Mm!extend_heap(k1, CHUNKSIZE \div 4) /\ j2 = Mm!extend_heap(k2, CHUNKSIZE \div 4)
  BY <1>1, <1>2 DEF Starting
<1>5. B = {heap_listp, k1.mem_brk}
  <2>1. heap_listp + 8 = mem_start_brk + 16
    BY <1>3 DEF heap_listp, DSIZE
  <2> QED
    BY <1>1, <1>4, <2>1 DEF Starting
<1>6. SameUse(k1, B, k2, B)
  <2>1. After(k1, heap_listp) = After(k2, heap_listp)
    <3>1. Tiling(k1, B) /\ Tiling(k2, B) /\ heap_listp \in B
      BY <1>4 DEF Tidy, Sound, Tiling, Bounds
    <3>2. Size(k1, heap_listp) = 8 /\ Size(k2, heap_listp) = 8
      BY <3>1, BlockFacts
    <3> QED
      BY <3>2 DEF After
  <2> QED
    BY <1>4, <2>1 DEF SameUse, Tidy
<1>7. SameTags(k1, k2, B)
  BY <1>6, UseTellsTags
<1>8. FreeIn(k1, B) = {}
  <2>1. Tiling(k1, B)
    BY <1>4 DEF Tidy, Sound
  <2>2. \A c \in FreeIn(k1, B) : c \in B \ {heap_listp, k1.mem_brk}
    BY <2>1, FreeAreNodes
  <2> QED
    BY <1>5, <2>2
<1>9. MmTwins(k1, k2, B)
  BY <1>4, <1>7, <1>8 DEF MmTwins, SameLinks
<1>10. k1.mem_brk + CHUNKSIZE <= mem_max_addr
  BY <1>3, <1>4
<1>11. MmAgree(j1, j2)
  BY <1>3, <1>4, <1>9, <1>10, ExtendSame
<1>12. PICK C : MmTwins(j1, j2, C) /\ j1.ret = j2.ret
  BY <1>11 DEF MmAgree
<1>13. PICK r : r = IF j1.ret = NULL THEN -1 ELSE 0
  OBVIOUS
<1>14. Returning(j1, g1, r) /\ Returning(j2, g2, r) /\ r \in Int
  BY <1>1, <1>2, <1>12, <1>13 DEF Starting, Returning
<1>15. MmTwins(g1, g2, C) /\ g1.ret = r /\ g2.ret = r
  BY <1>12, <1>14, TwinsReturn
<1> QED
  BY <1>15 DEF MmAgree

(* A block of two twins that a client holds, and a request to resize it. *)
BothWant(h1, h2, B, ptr, size, n) ==
    MmTwins(h1, h2, B) /\ Wanted(h1, B, ptr, size, n) /\ Wanted(h2, B, ptr, size, n)

(* What is wanted of one is wanted of the other. *)
LEMMA WantedBoth ==
    ASSUME NEW h1, NEW h2, NEW B, MmTwins(h1, h2, B),
           NEW ptr, NEW size, NEW n, Wanted(h1, B, ptr, size, n)
    PROVE  BothWant(h1, h2, B, ptr, size, n)
<1>1. SameTags(h1, h2, B) /\ Tidy(h2, B)
  BY DEF MmTwins
<1>2. InUse(h1, B) = InUse(h2, B)
  BY <1>1, SameTagsSameUse
<1> QED
  BY <1>1, <1>2 DEF BothWant, Wanted

(* The block and its neighbours have the same tags. *)
SameAround(h1, h2, B, ptr) ==
    /\ Tidy(h1, B) /\ Tidy(h2, B) /\ Sound(h1, B) /\ Sound(h2, B)
    /\ Tiling(h1, B) /\ Tiling(h2, B) /\ h1 \in Heaps /\ h2 \in Heaps
    /\ SameTags(h1, h2, B) /\ SameLinks(h1, h2, FreeIn(h1, B))
    /\ h2.mem_brk = h1.mem_brk /\ Size(h2, ptr) = Size(h1, ptr)
    /\ InUse(h2, B) = InUse(h1, B) /\ FreeIn(h2, B) = FreeIn(h1, B)
    /\ PREV_BLKP(h2, ptr) = PREV_BLKP(h1, ptr) /\ After(h2, ptr) = After(h1, ptr)
    /\ \A q \in {ptr, PREV_BLKP(h1, ptr), After(h1, ptr)} :
          /\ q \in B /\ Size(h2, q) = Size(h1, q) /\ Used(h2, q) = Used(h1, q)
          /\ After(h2, q) = After(h1, q)

(* They do. *)
LEMMA BothWantFacts ==
    ASSUME NEW h1, NEW h2, NEW B, NEW ptr, NEW size, NEW n, BothWant(h1, h2, B, ptr, size, n)
    PROVE  SameAround(h1, h2, B, ptr)
<1>1. /\ Tidy(h1, B) /\ Tidy(h2, B) /\ SameTags(h1, h2, B)
      /\ SameLinks(h1, h2, FreeIn(h1, B)) /\ Wanted(h1, B, ptr, size, n)
  BY DEF BothWant, MmTwins
<1>2. /\ Sound(h1, B) /\ Sound(h2, B) /\ Tiling(h1, B) /\ Tiling(h2, B)
      /\ h1 \in Heaps /\ h2 \in Heaps
  BY <1>1 DEF Tidy, Sound, Tiling, Bounds
<1>3. /\ ptr \in B \ {heap_listp, h1.mem_brk} /\ After(h1, ptr) \in B
  BY <1>1, WantedFacts
<1>4. InUse(h2, B) = InUse(h1, B) /\ FreeIn(h2, B) = FreeIn(h1, B)
  BY <1>1, SameTagsSameUse
<1>5. PREV_BLKP(h2, ptr) = PREV_BLKP(h1, ptr) /\ After(h2, ptr) = After(h1, ptr)
  BY <1>1, <1>2, <1>3, NeighboursSame
<1>6. PREV_BLKP(h1, ptr) \in B
  BY <1>2, <1>3, PrevTells
<1>7. h2.mem_brk = h1.mem_brk /\ Size(h2, ptr) = Size(h1, ptr)
  BY <1>1, <1>3 DEF SameTags
<1>8. \A q \in {ptr, PREV_BLKP(h1, ptr), After(h1, ptr)} :
         /\ q \in B /\ Size(h2, q) = Size(h1, q) /\ Used(h2, q) = Used(h1, q)
         /\ After(h2, q) = After(h1, q)
  BY <1>1, <1>3, <1>6 DEF SameTags
<1> QED
  BY <1>1, <1>2, <1>4, <1>5, <1>7, <1>8 DEF SameAround

(* The same neighbours make a block with it. *)
LEMMA AroundSame ==
    ASSUME NEW h1, NEW h2, NEW B, NEW ptr, SameAround(h1, h2, B, ptr),
           NEW ns, NEW first, NEW e, Around(h1, ptr, ns, first, e)
    PROVE  Around(h2, ptr, ns, first, e)
<1>1. PICK prev : prev = PREV_BLKP(h1, ptr)
  OBVIOUS
<1>2. PICK next : next = After(h1, ptr)
  OBVIOUS
<1>3. /\ PREV_BLKP(h2, ptr) = prev /\ After(h2, ptr) = next
      /\ Used(h2, prev) = Used(h1, prev) /\ Used(h2, next) = Used(h1, next)
      /\ After(h2, next) = After(h1, next)
  BY <1>1, <1>2 DEF SameAround
<1>4. /\ ns \subseteq {prev, next} /\ \A q \in ns : Used(h1, q) = 0
      /\ first = IF prev \in ns THEN prev ELSE ptr
      /\ e = IF next \in ns THEN After(h1, next) ELSE next
  BY <1>1, <1>2 DEF Around
<1>5. \A q \in ns : Used(h2, q) = 0
  BY <1>3, <1>4
<1> QED
  BY <1>3, <1>4, <1>5 DEF Around

(* A node leaves both lists, if it is one of ns. *)
LEMMA LeavesSame ==
    ASSUME NEW h1 \in Heaps, NEW h2 \in Heaps, NEW L, Listing(h1, L), Listing(h2, L),
           NEW F, L \subseteq F, SameLinks(h1, h2, F), NEW p, NEW ns, p \in ns => p \in L,
           NEW x1, x1 = IF p \in ns THEN Mm!removeBlock(h1, p) ELSE h1,
           NEW x2, x2 = IF p \in ns THEN Mm!removeBlock(h2, p) ELSE h2
    PROVE  SameLinks(x1, x2, F)
<1>1. CASE p \in ns
  <2>1. p \in L /\ p \in F /\ x1 = Mm!removeBlock(h1, p) /\ x2 = Mm!removeBlock(h2, p)
    BY <1>1
  <2>2. Skipped(h1, x1, p)
    BY <2>1, RemoveSkips
  <2>3. Skipped(h2, x2, p)
    BY <2>1, RemoveSkips
  <2> QED
    BY <2>1, <2>2, <2>3, RemoveSame
<1>2. CASE p \notin ns
  BY <1>2
<1> QED
  BY <1>1, <1>2

(* The neighbours ns leave both lists, and the block around is tagged.     *)
LEMMA PartsSame ==
    ASSUME NEW h1, NEW h2, NEW B, NEW ptr, SameAround(h1, h2, B, ptr),
           NEW ns, ns \subseteq {PREV_BLKP(h1, ptr), After(h1, ptr)},
           ns \subseteq FreeIn(h1, B), PREV_BLKP(h1, ptr) # After(h1, ptr),
           NEW y1, NEW x1, Parts(h1, ptr, ns, y1, x1),
           NEW y2, NEW x2, Parts(h2, ptr, ns, y2, x2), NEW F, F = FreeIn(h1, B)
    PROVE  SameLinks(x1, x2, F)
<1>1. PICK p : p = PREV_BLKP(h1, ptr)
  OBVIOUS
<1>2. PICK q : q = After(h1, ptr)
  OBVIOUS
<1>3. /\ Tidy(h1, B) /\ Tidy(h2, B) /\ Sound(h1, B) /\ Sound(h2, B)
      /\ h1 \in Heaps /\ h2 \in Heaps /\ F = FreeIn(h2, B) /\ SameLinks(h1, h2, F)
      /\ PREV_BLKP(h2, ptr) = p /\ After(h2, ptr) = q
  BY <1>1, <1>2 DEF SameAround
<1>4. /\ y1 = IF p \in ns THEN Mm!removeBlock(h1, p) ELSE h1
      /\ x1 = IF q \in ns THEN Mm!removeBlock(y1, q) ELSE y1
  BY <1>1, <1>2 DEF Parts
<1>5. /\ y2 = IF p \in ns THEN Mm!removeBlock(h2, p) ELSE h2
      /\ x2 = IF q \in ns THEN Mm!removeBlock(y2, q) ELSE y2
  BY <1>3 DEF Parts
<1>6. Listing(h1, F) /\ Listing(h2, F) /\ F \subseteq F /\ (p \in ns => p \in F)
  BY <1>3 DEF Tidy
<1>7. SameLinks(y1, y2, F)
  BY <1>3, <1>4, <1>5, <1>6, LeavesSame
<1>8. PICK G : G = {c \in F : c \in ns => c # p}
  OBVIOUS
<1>9. Unlisted(h1, B, y1, G)
  <2>1. Sound(h1, B) /\ F \subseteq FreeIn(h1, B) /\ Listing(h1, F) /\ (p \in ns => p \in F)
    BY <1>3, <1>6
  <2>2. Unlisted(h1, B, y1, {c \in F : c \in ns => c # p})
    BY <1>4, <2>1, LeavesIfIn
  <2> QED
    BY <1>8, <2>2
<1>10. Unlisted(h2, B, y2, G)
  <2>1. Sound(h2, B) /\ F \subseteq FreeIn(h2, B) /\ Listing(h2, F) /\ (p \in ns => p \in F)
    BY <1>3, <1>6
  <2>2. Unlisted(h2, B, y2, {c \in F : c \in ns => c # p})
    BY <1>5, <2>1, LeavesIfIn
  <2> QED
    BY <1>8, <2>2
<1>11. /\ y1 \in Heaps /\ y2 \in Heaps /\ Listing(y1, G) /\ Listing(y2, G)
       /\ G \subseteq F /\ (q \in ns => q \in G)
  BY <1>1, <1>2, <1>8, <1>9, <1>10 DEF Unlisted, Sound, Tiling, Bounds
<1> QED
  BY <1>4, <1>5, <1>7, <1>11, LeavesSame

(* The list is the same in both when a block has taken its neighbours in. *)
LEMMA MergedSame ==
    ASSUME NEW h1, NEW h2, NEW B, NEW ptr, NEW size, NEW n, BothWant(h1, h2, B, ptr, size, n),
           NEW ns, NEW first, NEW e, Around(h1, ptr, ns, first, e),
           NEW k1, k1 = Mm!MergedWith(h1, ptr, ns, first),
           NEW k2, k2 = Mm!MergedWith(h2, ptr, ns, first), NEW F, F = FreeIn(h1, B)
    PROVE  SameLinks(k1, k2, F) /\ k1 \in Heaps /\ k2 \in Heaps
<1>1. SameAround(h1, h2, B, ptr) /\ Wanted(h1, B, ptr, size, n) /\ Wanted(h2, B, ptr, size, n)
  BY BothWantFacts DEF BothWant
<1>2. Around(h2, ptr, ns, first, e)
  BY <1>1, AroundSame
<1>3. PICK x1 : Tagged(x1, k1, first, e - first, 1) /\ \E y : Parts(h1, ptr, ns, y, x1)
  BY <1>1, MmMergedWith
<1>4. PICK y1 : Parts(h1, ptr, ns, y1, x1)
  BY <1>3
<1>5. PICK x2 : Tagged(x2, k2, first, e - first, 1) /\ \E y : Parts(h2, ptr, ns, y, x2)
  BY <1>1, <1>2, MmMergedWith
<1>6. PICK y2 : Parts(h2, ptr, ns, y2, x2)
  BY <1>5
<1>7. k1 \in Heaps /\ k2 \in Heaps
  BY <1>3, <1>5 DEF Tagged
<1>8. /\ ns \subseteq {PREV_BLKP(h1, ptr), After(h1, ptr)} /\ \A q \in ns : Used(h1, q) = 0
  BY DEF Around
<1>9. PREV_BLKP(h1, ptr) # After(h1, ptr)
  BY <1>1, NeighbourFacts
<1>10. ns \subseteq FreeIn(h1, B)
  BY <1>1, <1>8 DEF FreeIn, SameAround
<1>11. SameLinks(x1, x2, F)
  BY <1>1, <1>4, <1>6, <1>8, <1>9, <1>10, PartsSame
<1>12. PICK s : s = e - first
  OBVIOUS
<1>13. Tagged(x1, k1, first, s, 1) /\ Tagged(x2, k2, first, s, 1)
  BY <1>3, <1>5, <1>12
<1>14. SameLinks(k1, k2, F)
  BY <1>11, <1>13, TagSame
<1> QED
  BY <1>7, <1>14

(* The block of g1 and of g2 that ptr has become is from lo on, and the    *)
(* tags are the same.                                                      *)
Retagged(h, B, ptr, lo, g1, g2, C) ==
    /\ Tidy(g1, C) /\ Tidy(g2, C) /\ SameTags(g1, g2, C) /\ g1.ret = lo /\ g2.ret = lo
    /\ InUse(g1, C) = (InUse(h, B) \ {ptr}) \cup {lo}

(* A block that was served is tidy. *)
LEMMA ServesTidy ==
    ASSUME NEW h, NEW S, NEW g, NEW n, Serves(h, S, g, n), Neat(g)
    PROVE  \E C : /\ Tidy(g, C) /\ Sound(g, C) /\ InUse(g, C) = S \cup {g.ret}
                  /\ \A c \in S : After(g, c) = After(h, c)
<1>1. PICK D : Tidy(g, D)
  BY DEF Neat
<1>2. PICK C : Sound(g, C) /\ InUse(g, C) = S \cup {g.ret} /\ Keeps(h, g, S)
  BY DEF Serves
<1>3. C = D
  BY <1>1, <1>2, OneTiling
<1> QED
  BY <1>1, <1>2, <1>3 DEF Keeps

(* Blocks that end where they do tell all tags. *)
LEMMA ServesTags ==
    ASSUME NEW h1, NEW h2, NEW B, NEW ptr, SameAround(h1, h2, B, ptr), NEW n, NEW lo, NEW hi,
           NEW S, S = InUse(h1, B) \ {ptr},
           NEW g1, Serves(h1, S, g1, n), Neat(g1), g1.ret = lo, After(g1, lo) = hi,
           NEW g2, Serves(h2, S, g2, n), Neat(g2), g2.ret = lo, After(g2, lo) = hi,
           g1.mem_brk = g2.mem_brk
    PROVE  \E C : Retagged(h1, B, ptr, lo, g1, g2, C)
<1>1. PICK C1 : /\ Tidy(g1, C1) /\ Sound(g1, C1) /\ InUse(g1, C1) = S \cup {g1.ret}
                /\ \A c \in S : After(g1, c) = After(h1, c)
  BY ServesTidy
<1>2. PICK C2 : /\ Tidy(g2, C2) /\ Sound(g2, C2) /\ InUse(g2, C2) = S \cup {g2.ret}
                /\ \A c \in S : After(g2, c) = After(h2, c)
  BY ServesTidy
<1>3. \A c \in S : After(h1, c) = After(h2, c)
  <2>1. SameTags(h1, h2, B)
    BY DEF SameAround
  <2> QED
    BY <2>1 DEF SameTags, InUse
<1>4. SameUse(g1, C1, g2, C2)
  BY <1>1, <1>2, <1>3 DEF SameUse
<1>5. C1 = C2 /\ SameTags(g1, g2, C1)
  BY <1>4, UseTellsTags
<1> QED
  BY <1>1, <1>2, <1>5 DEF Retagged

(* No block is free that was not, when one has taken its neighbours in. *)
LEMMA MergedFree ==
    ASSUME NEW h, NEW B, NEW ptr, NEW size, NEW n, Wanted(h, B, ptr, size, n),
           NEW ns, NEW first, NEW e, Around(h, ptr, ns, first, e),
           NEW g, NEW C, C = Fused(B, first, e), Tiling(g, C), g.mem_brk = h.mem_brk,
           InUse(g, C) = (InUse(h, B) \ {ptr}) \cup {first}
    PROVE  FreeIn(g, C) \subseteq FreeIn(h, B)
<1>1. /\ Tiling(h, B) /\ ptr \in B /\ ptr \in Nat /\ After(h, ptr) \in Nat
      /\ After(h, ptr) = ptr + Size(h, ptr) /\ Size(h, ptr) \in Nat /\ Size(h, ptr) >= 16
  BY WantedFacts
<1>2. first <= ptr /\ After(h, ptr) <= e /\ first \in Nat /\ e \in Nat
  BY AroundFacts
<1>3. SUFFICES ASSUME NEW c \in C, Used(g, c) = 0
               PROVE  Used(h, c) = 0
  <2>1. C \subseteq B
    BY DEF Fused
  <2> QED
    BY <1>3, <2>1 DEF FreeIn
<1>4. c \in B /\ c # g.mem_brk /\ (c <= first \/ e <= c)
  BY <1>3, BlockFacts DEF Fused
<1>5. c \notin InUse(g, C)
  BY <1>3 DEF InUse
<1>6. c # ptr
  <2>1. CASE first = ptr
    BY <1>5, <2>1
  <2>2. CASE first # ptr
    BY <1>1, <1>2, <1>4, <2>2
  <2> QED
    BY <2>1, <2>2
<1>7. c \notin InUse(h, B)
  BY <1>5, <1>6
<1> QED
  BY <1>1, <1>4, <1>7, BlockFacts DEF InUse

(* There is as much room beside it in both. *)
LEMMA FitsInSame ==
    ASSUME NEW h1, NEW h2, NEW B, NEW ptr, NEW size, NEW n, BothWant(h1, h2, B, ptr, size, n),
           NEW ns, NEW first, NEW e, Around(h1, ptr, ns, first, e)
    PROVE  Mm!Room(h2, ptr, ns) = Mm!Room(h1, ptr, ns)
           /\ (FitsIn(h1, ptr, n, ns) <=> FitsIn(h2, ptr, n, ns))
<1>1. SameAround(h1, h2, B, ptr) /\ Wanted(h1, B, ptr, size, n) /\ Wanted(h2, B, ptr, size, n)
  BY BothWantFacts DEF BothWant
<1>2. Around(h2, ptr, ns, first, e)
  BY <1>1, AroundSame
<1>3. PICK k1 : k1 = Mm!MergedWith(h1, ptr, ns, first)
  OBVIOUS
<1>4. PICK k2 : k2 = Mm!MergedWith(h2, ptr, ns, first)
  OBVIOUS
<1>5. Mm!Room(h1, ptr, ns) \in Nat /\ e - first = Size(h1, ptr) + Mm!Room(h1, ptr, ns)
  BY <1>1, <1>3, MmMergedWith
<1>6. Mm!Room(h2, ptr, ns) \in Nat /\ e - first = Size(h2, ptr) + Mm!Room(h2, ptr, ns)
  BY <1>1, <1>2, <1>4, MmMergedWith
<1>7. Size(h1, ptr) \in Nat /\ Size(h2, ptr) = Size(h1, ptr)
  <2>1. Size(h1, ptr) \in Nat
    BY <1>1, WantedFacts
  <2> QED
    BY <1>1, <2>1 DEF SameAround
<1>8. Mm!Room(h2, ptr, ns) = Mm!Room(h1, ptr, ns)
  BY <1>5, <1>6, <1>7
<1> QED
  BY <1>7, <1>8 DEF FitsIn

(* The block ptr of h is the one from first to e of g, whose links are     *)
(* those of k.                                                             *)
Merger(h, B, ptr, size, first, e, k, g) ==
    /\ Resizes(h, B, ptr, size, g, first, e) /\ Tidy(g, Fused(B, first, e))
    /\ g.free_listp = k.free_listp
    /\ \A c \in FreeIn(g, Fused(B, first, e)) :
          GET(g, c) = GET(k, c) /\ GET(g, c + 4) = GET(k, c + 4)

(* So the heaps are twins. *)
LEMMA MergersAgree ==
    ASSUME NEW h1, NEW h2, NEW B, NEW ptr, NEW size, NEW n, BothWant(h1, h2, B, ptr, size, n),
           NEW ns, NEW first, NEW e, Around(h1, ptr, ns, first, e),
           NEW k1, k1 = Mm!MergedWith(h1, ptr, ns, first),
           NEW k2, k2 = Mm!MergedWith(h2, ptr, ns, first),
           NEW g1, Merger(h1, B, ptr, size, first, e, k1, g1),
           NEW g2, Merger(h2, B, ptr, size, first, e, k2, g2)
    PROVE  MmAgree(g1, g2)
<1>1. PICK F : F = FreeIn(h1, B)
  OBVIOUS
<1>2. SameLinks(k1, k2, F)
  BY <1>1, MergedSame
<1>3. SameAround(h1, h2, B, ptr) /\ Wanted(h1, B, ptr, size, n)
  BY BothWantFacts DEF BothWant
<1>4. PICK D : D = Fused(B, first, e)
  OBVIOUS
<1>5. PICK S : S = InUse(h1, B) \ {ptr}
  OBVIOUS
<1>6. PICK m : m = Adjusted(size)
  OBVIOUS
<1>7. /\ Serves(h1, S, g1, m) /\ Neat(g1) /\ g1.ret = first /\ After(g1, first) = e
      /\ g1.mem_brk = h1.mem_brk /\ Tidy(g1, D)
  BY <1>4, <1>5, <1>6 DEF Merger, Resizes
<1>8. /\ Serves(h2, S, g2, m) /\ Neat(g2) /\ g2.ret = first /\ After(g2, first) = e
      /\ g2.mem_brk = h1.mem_brk
  <2>1. InUse(h2, B) = InUse(h1, B) /\ h2.mem_brk = h1.mem_brk
    BY <1>3 DEF SameAround
  <2> QED
    BY <1>5, <1>6, <2>1 DEF Merger, Resizes
<1>9. g1.mem_brk = g2.mem_brk
  BY <1>7, <1>8
<1>10. PICK C : Retagged(h1, B, ptr, first, g1, g2, C)
  BY <1>3, <1>5, <1>7, <1>8, <1>9, ServesTags
<1>11. C = D
  <2>1. Tidy(g1, C)
    BY <1>10 DEF Retagged
  <2> QED
    BY <1>7, <2>1, OneTiling DEF Tidy
<1>12. FreeIn(g1, C) \subseteq F
  <2>1. InUse(g1, C) = (InUse(h1, B) \ {ptr}) \cup {first} /\ Tiling(g1, C)
    BY <1>10 DEF Retagged, Tidy, Sound
  <2> QED
    BY <1>1, <1>3, <1>4, <1>7, <1>11, <2>1, MergedFree
<1>13. PICK G : G = FreeIn(g1, C)
  OBVIOUS
<1>14. SameLinks(k1, k2, G)
  BY <1>2, <1>12, <1>13, FewerSame
<1>15. FreeIn(g2, C) = G
  <2>1. SameTags(g1, g2, C)
    BY <1>10 DEF Retagged
  <2> QED
    BY <1>13, <2>1, SameTagsSameUse
<1>16. /\ g1.free_listp = k1.free_listp /\ g2.free_listp = k2.free_listp
       /\ \A c \in G : GET(g1, c) = GET(k1, c) /\ GET(g1, c + 4) = GET(k1, c + 4)
       /\ \A c \in G : GET(g2, c) = GET(k2, c) /\ GET(g2, c + 4) = GET(k2, c + 4)
  BY <1>4, <1>11, <1>13, <1>15 DEF Merger
<1>17. SameLinks(g1, g2, G)
  BY <1>14, <1>16, AloneSame
<1> QED
  BY <1>10, <1>13, <1>17 DEF MmAgree, MmTwins, Retagged

(* It takes in the neighbours above it in both.                            *)
LEMMA UpOverMerger ==
    ASSUME NEW h, NEW B, NEW ptr, NEW size, NEW n, Wanted(h, B, ptr, size, n),
           NEW ns, NEW e, Around(h, ptr, ns, ptr, e), FitsIn(h, ptr, n, ns),
           NEW g, UpOver(h, ptr, ns, g), NEW k, k = Mm!MergedWith(h, ptr, ns, ptr)
    PROVE  Merger(h, B, ptr, size, ptr, e, k, g)
<1>1. Returning(k, g, ptr)
  BY DEF UpOver, Returning
<1>2. Resizes(h, B, ptr, size, g, ptr, e) /\ Tidy(g, Fused(B, ptr, e))
  BY <1>1, MmGrowsUp
<1>3. k \in Heaps
  BY MmMergedWith
<1>4. ptr \in Int
  BY WantedFacts
<1>5. g.free_listp = k.free_listp /\ \A a : GET(g, a) = GET(k, a)
  BY <1>1, <1>3, <1>4, Returns
<1> QED
  BY <1>2, <1>5 DEF Merger

(* It takes in the one below it, too, and what is copied is no link. *)
LEMMA DownOverMerger ==
    ASSUME NEW h, NEW B, NEW ptr, NEW size, NEW n, Wanted(h, B, ptr, size, n),
           NEW ns, NEW prev, prev \in ns, prev = PREV_BLKP(h, ptr),
           NEW e, Around(h, ptr, ns, prev, e), FitsIn(h, ptr, n, ns),
           NEW c, c = Size(h, ptr), NEW g, DownOver(h, ptr, ns, prev, c, g),
           NEW k, k = Mm!MergedWith(h, ptr, ns, prev)
    PROVE  Merger(h, B, ptr, size, prev, e, k, g)
<1>1. PICK k0, j : Slides(h, ptr, ns, prev, k0, j, g)
  BY DownOverSlides
<1>2. j = memcpy(k, prev, ptr, Size(h, ptr), "up") /\ Returning(j, g, prev)
  BY <1>1 DEF Slides
<1>3. Resizes(h, B, ptr, size, g, prev, e) /\ Tidy(g, Fused(B, prev, e))
  BY <1>2, MmGrowsDown
<1>4. Copied(k, j, prev, e, ptr, Size(h, ptr))
  BY <1>2, DownCopied
<1>5. /\ j \in Heaps /\ j.free_listp = k.free_listp
      /\ \A a \in Int : a \notin prev .. e - 9 => GET(j, a) = GET(k, a)
  BY <1>4 DEF Copied
<1>6. prev \in Nat /\ prev \in B \ {heap_listp, h.mem_brk}
  BY AroundFacts
<1>7. g.free_listp = k.free_listp /\ \A a : GET(g, a) = GET(j, a)
  BY <1>2, <1>5, <1>6, Returns
<1>8. PICK C : C = Fused(B, prev, e)
  OBVIOUS
<1>9. ASSUME NEW q \in FreeIn(g, C)
      PROVE  GET(g, q) = GET(k, q) /\ GET(g, q + 4) = GET(k, q + 4)
  <2>1. Tiling(g, C) /\ After(g, prev) = e /\ g.ret = prev /\ g.mem_brk = h.mem_brk
    BY <1>3, <1>8 DEF Tidy, Sound, Resizes
  <2>2. prev \in InUse(g, C)
    <3>1. PICK D : Sound(g, D) /\ InUse(g, D) = (InUse(h, B) \ {ptr}) \cup {g.ret}
      BY <1>3 DEF Resizes, Serves
    <3>2. D = C
      BY <1>3, <1>8, <3>1, OneTiling
    <3> QED
      BY <2>1, <3>1, <3>2
  <2>3. prev \in C \ {q, g.mem_brk}
    BY <2>2 DEF InUse, FreeIn
  <2>4. q \in Nat /\ \A a \in prev .. e - 9 : a \notin {q, q + 4}
    BY <2>1, <2>3, FreeAreNodes
  <2>5. q \in Int /\ q + 4 \in Int /\ q \notin prev .. e - 9 /\ q + 4 \notin prev .. e - 9
    BY <2>4
  <2> QED
    BY <1>5, <1>7, <2>5
<1> QED
  BY <1>3, <1>7, <1>8, <1>9 DEF Merger

(* Both ways the heaps agree. *)
LEMMA UpOverSame ==
    ASSUME NEW h1, NEW h2, NEW B, NEW ptr, NEW size, NEW n, BothWant(h1, h2, B, ptr, size, n),
           NEW ns, NEW e, Around(h1, ptr, ns, ptr, e), FitsIn(h1, ptr, n, ns),
           NEW g1, UpOver(h1, ptr, ns, g1), NEW g2, UpOver(h2, ptr, ns, g2)
    PROVE  MmAgree(g1, g2)
<1>1. SameAround(h1, h2, B, ptr) /\ Wanted(h1, B, ptr, size, n) /\ Wanted(h2, B, ptr, size, n)
  BY BothWantFacts DEF BothWant
<1>2. Around(h2, ptr, ns, ptr, e)
  BY <1>1, AroundSame
<1>3. FitsIn(h2, ptr, n, ns)
  BY FitsInSame
<1>4. PICK k1 : k1 = Mm!MergedWith(h1, ptr, ns, ptr)
  OBVIOUS
<1>5. PICK k2 : k2 = Mm!MergedWith(h2, ptr, ns, ptr)
  OBVIOUS
<1>6. Merger(h1, B, ptr, size, ptr, e, k1, g1)
  BY <1>1, <1>4, UpOverMerger
<1>7. Merger(h2, B, ptr, size, ptr, e, k2, g2)
  BY <1>1, <1>2, <1>3, <1>5, UpOverMerger
<1> QED
  BY <1>4, <1>5, <1>6, <1>7, MergersAgree

(* Down to the block before, as well.                                      *)
LEMMA DownOverSame ==
    ASSUME NEW h1, NEW h2, NEW B, NEW ptr, NEW size, NEW n, BothWant(h1, h2, B, ptr, size, n),
           NEW ns, NEW prev, prev \in ns, prev = PREV_BLKP(h1, ptr),
           NEW e, Around(h1, ptr, ns, prev, e), FitsIn(h1, ptr, n, ns),
           NEW c, c = Size(h1, ptr), NEW g1, DownOver(h1, ptr, ns, prev, c, g1),
           NEW g2, DownOver(h2, ptr, ns, prev, c, g2)
    PROVE  MmAgree(g1, g2)
<1>1. SameAround(h1, h2, B, ptr) /\ Wanted(h1, B, ptr, size, n) /\ Wanted(h2, B, ptr, size, n)
  BY BothWantFacts DEF BothWant
<1>2. Around(h2, ptr, ns, prev, e)
  BY <1>1, AroundSame
<1>3. FitsIn(h2, ptr, n, ns)
  BY FitsInSame
<1>4. PICK k1 : k1 = Mm!MergedWith(h1, ptr, ns, prev)
  OBVIOUS
<1>5. PICK k2 : k2 = Mm!MergedWith(h2, ptr, ns, prev)
  OBVIOUS
<1>6. Merger(h1, B, ptr, size, prev, e, k1, g1)
  BY <1>1, <1>4, DownOverMerger
<1>7. prev = PREV_BLKP(h2, ptr) /\ c = Size(h2, ptr)
  BY <1>1 DEF SameAround
<1>8. Merger(h2, B, ptr, size, prev, e, k2, g2)
  BY <1>1, <1>2, <1>3, <1>5, <1>7, DownOverMerger
<1> QED
  BY <1>4, <1>5, <1>6, <1>8, MergersAgree

(* The same split writes the same tags.                                    *)
LEMMA SplitAtSame ==
    ASSUME NEW x1, NEW x2, NEW F, SameLinks(x1, x2, F), NEW b, Size(x1, b) = Size(x2, b),
           NEW n, NEW m, NEW k1, SplitAt(x1, b, n, m, k1), NEW k2, SplitAt(x2, b, n, m, k2)
    PROVE  SameLinks(k1, k2, F)
<1>1. PICK r : r = Size(x1, b) - n
  OBVIOUS
<1>2. PICK j1 : Tagged(x1, j1, b, n, 1) /\ Tagged(j1, k1, m, r, 0)
  BY <1>1 DEF SplitAt
<1>3. PICK j2 : Tagged(x2, j2, b, n, 1) /\ Tagged(j2, k2, m, r, 0)
  BY <1>1 DEF SplitAt
<1>4. SameLinks(j1, j2, F)
  BY <1>2, <1>3, TagSame
<1> QED
  BY <1>2, <1>3, <1>4, TagSame

(* What is cut off of the block enters both lists. *)
LEMMA CutOffSame ==
    ASSUME NEW h1, NEW h2, NEW B, NEW ptr, NEW size, NEW n, BothWant(h1, h2, B, ptr, size, n),
           NEW c, c = Size(h1, ptr), n + 16 <= c,
           NEW g1, CutOff(h1, ptr, n, c, g1), NEW g2, CutOff(h2, ptr, n, c, g2)
    PROVE  MmAgree(g1, g2)
<1>1. SameAround(h1, h2, B, ptr) /\ Wanted(h1, B, ptr, size, n) /\ Wanted(h2, B, ptr, size, n)
  BY BothWantFacts DEF BothWant
<1>2. c = Size(h2, ptr)
  BY <1>1 DEF SameAround
<1>3. PICK m : m = ptr + n
  OBVIOUS
<1>4. PICK k1, f1 : Cut(h1, ptr, n, m, k1, f1, g1)
  BY <1>1, <1>3, CutsOff
<1>5. PICK k2, f2 : Cut(h2, ptr, n, m, k2, f2, g2)
  BY <1>1, <1>2, <1>3, CutsOff
<1>6. /\ SplitAt(h1, ptr, n, m, k1) /\ f1 = Mm!coalesce(k1, m) /\ Returning(f1, g1, ptr)
      /\ SplitAt(h2, ptr, n, m, k2) /\ f2 = Mm!coalesce(k2, m) /\ Returning(f2, g2, ptr)
  BY <1>4, <1>5 DEF Cut
<1>7. PICK F : F = FreeIn(h1, B)
  OBVIOUS
<1>8. /\ Tidy(h1, B) /\ Tidy(h2, B) /\ SameTags(h1, h2, B) /\ SameLinks(h1, h2, F)
      /\ FreeIn(h2, B) = F /\ h2.mem_brk = h1.mem_brk
  BY <1>1, <1>7 DEF SameAround
<1>9. /\ ptr \in B \ {heap_listp, h1.mem_brk} /\ Used(h1, ptr) = 1 /\ ptr \in Int
  BY <1>1, WantedFacts
<1>10. F \ {ptr} = F
  BY <1>7, <1>9 DEF FreeIn
<1>11. Splitting(h1, B, ptr, n, m, k1)
  BY <1>6, <1>7, <1>8, <1>9, <1>10 DEF Splitting, Tidy, ListedBut
<1>12. Splitting(h2, B, ptr, n, m, k2)
  BY <1>6, <1>7, <1>8, <1>9, <1>10 DEF Splitting, Tidy, ListedBut
<1>13. SameLinks(k1, k2, F)
  <2>1. Size(h1, ptr) = Size(h2, ptr)
    BY <1>2
  <2> QED
    BY <1>6, <1>8, <2>1, SplitAtSame
<1>14. F = FreeIn(h1, B) \ {ptr}
  BY <1>7, <1>10
<1>15. PICK C : MmTwins(f1, f2, C)
  BY <1>6, <1>8, <1>11, <1>12, <1>13, <1>14, SplitSame
<1>16. MmTwins(g1, g2, C) /\ g1.ret = ptr /\ g2.ret = ptr
  BY <1>6, <1>9, <1>15, TwinsReturn
<1> QED
  BY <1>16 DEF MmAgree

(* What comes to the block from the end of a heap that grows is split off  *)
(* the same in both.                                                       *)
LEMMA StretchSame ==
    ASSUME NEW k1, NEW k2, NEW B, NEW ptr, NEW size, NEW n, BothWant(k1, k2, B, ptr, size, n),
           NEW m, NEW r, NEW e, NEW f1, Stretched(k1, B, ptr, n, m, r, e, f1),
           NEW f2, Stretched(k2, B, ptr, n, m, r, e, f2)
    PROVE  \E C : MmTwins(f1, f2, C)
<1>1. SameAround(k1, k2, B, ptr) /\ Wanted(k1, B, ptr, size, n) /\ Wanted(k2, B, ptr, size, n)
  BY BothWantFacts DEF BothWant
<1>2. PICK x1, y1, D1, j1 : Stretching(k1, B, ptr, n, m, r, e, f1, x1, y1, D1, j1)
  BY <1>1, StretchSplits
<1>3. PICK x2, y2, D2, j2 : Stretching(k2, B, ptr, n, m, r, e, f2, x2, y2, D2, j2)
  BY <1>1, StretchSplits
<1>4. PICK D : D = Fused(B, ptr, e)
  OBVIOUS
<1>5. D1 = D /\ D2 = D
  BY <1>2, <1>3, <1>4 DEF Stretching
<1>6. PICK F : F = FreeIn(k1, B)
  OBVIOUS
<1>7. /\ Tidy(k1, B) /\ Tidy(k2, B) /\ k1 \in Heaps /\ k2 \in Heaps /\ SameTags(k1, k2, B)
      /\ SameLinks(k1, k2, F) /\ FreeIn(k2, B) = F /\ k2.mem_brk = k1.mem_brk
      /\ InUse(k2, B) = InUse(k1, B)
  BY <1>1, <1>6 DEF SameAround
<1>8. r \in F
  BY <1>6 DEF Stretched, FreeIn
<1>9. SameLinks(x1, x2, F)
  <2>1. x1 = Mm!removeBlock(k1, r) /\ x2 = Mm!removeBlock(k2, r)
    BY <1>2, <1>3 DEF Stretching
  <2>2. Listing(k1, F) /\ Listing(k2, F)
    BY <1>6, <1>7 DEF Tidy
  <2>3. Skipped(k1, x1, r)
    BY <1>7, <1>8, <2>1, <2>2, RemoveSkips
  <2>4. Skipped(k2, x2, r)
    BY <1>7, <1>8, <2>1, <2>2, RemoveSkips
  <2> QED
    BY <1>7, <1>8, <2>3, <2>4, RemoveSame
<1>10. PICK s : s = e - m
  OBVIOUS
<1>11. SameLinks(j1, j2, F)
  <2>1. PICK u1, v1 : /\ Tagged(x1, u1, ptr, n, 1) /\ Tagged(u1, v1, m, s, 1)
                      /\ Tagged(v1, j1, m, s, 0)
    BY <1>2, <1>10 DEF Stretching
  <2>2. PICK u2, v2 : /\ Tagged(x2, u2, ptr, n, 1) /\ Tagged(u2, v2, m, s, 1)
                      /\ Tagged(v2, j2, m, s, 0)
    BY <1>3, <1>10 DEF Stretching
  <2>3. SameLinks(u1, u2, F)
    BY <1>9, <2>1, <2>2, TagSame
  <2>4. SameLinks(v1, v2, F)
    BY <2>1, <2>2, <2>3, TagSame
  <2> QED
    BY <2>1, <2>2, <2>4, TagSame
<1>12. /\ Sound(y1, D) /\ ListedBut(y1, D, ptr) /\ ptr \in D \ {heap_listp, y1.mem_brk}
       /\ SplitAt(y1, ptr, n, m, j1) /\ f1 = Mm!coalesce(j1, m) /\ OneInUse(x1, B, ptr, e, y1, D)
       /\ InUse(y1, D) = InUse(k1, B) /\ y1.mem_brk = k1.mem_brk /\ Used(y1, ptr) = 1
  BY <1>2, <1>5 DEF Stretching
<1>13. /\ Sound(y2, D) /\ ListedBut(y2, D, ptr) /\ ptr \in D \ {heap_listp, y2.mem_brk}
       /\ SplitAt(y2, ptr, n, m, j2) /\ f2 = Mm!coalesce(j2, m) /\ OneInUse(x2, B, ptr, e, y2, D)
       /\ InUse(y2, D) = InUse(k2, B) /\ y2.mem_brk = k2.mem_brk /\ Used(y2, ptr) = 1
  BY <1>3, <1>5 DEF Stretching
<1>14. SameTags(y1, y2, D)
  <2>1. ASSUME NEW c \in InUse(y1, D)
        PROVE  After(y1, c) = After(y2, c)
    <3>1. CASE c = ptr
      BY <1>12, <1>13, <3>1 DEF OneInUse
    <3>2. CASE c # ptr
      <4>1. c \in InUse(k1, B) /\ c \in InUse(k2, B) /\ c \in D
        BY <1>7, <1>12 DEF InUse
      <4>2. InUse(x1, B) = InUse(k1, B) /\ After(x1, c) = After(k1, c)
        BY <1>2, <4>1 DEF Stretching, Keeps
      <4>3. InUse(x2, B) = InUse(k2, B) /\ After(x2, c) = After(k2, c)
        BY <1>3, <4>1 DEF Stretching, Keeps
      <4>4. After(y1, c) = After(x1, c) /\ After(y2, c) = After(x2, c)
        BY <1>12, <1>13, <3>2, <4>1, <4>2, <4>3 DEF OneInUse
      <4>5. After(k1, c) = After(k2, c)
        BY <1>7, <4>1 DEF SameTags, InUse
      <4> QED
        BY <4>2, <4>3, <4>4, <4>5
    <3> QED
      BY <3>1, <3>2
  <2>2. SameUse(y1, D, y2, D)
    BY <1>7, <1>12, <1>13, <2>1 DEF SameUse
  <2> QED
    BY <2>2, UseTellsTags
<1>15. Splitting(y1, D, ptr, n, m, j1)
  BY <1>12 DEF Splitting
<1>16. Splitting(y2, D, ptr, n, m, j2)
  BY <1>13 DEF Splitting
<1>17. PICK G : G = FreeIn(y1, D) \ {ptr}
  OBVIOUS
<1>18. G \subseteq F
  <2>1. ASSUME NEW c \in G
        PROVE  c \in F
    <3>1. c \in D /\ Used(y1, c) = 0 /\ Tiling(y1, D) /\ Tiling(k1, B)
      BY <1>7, <1>12, <1>17 DEF FreeIn, Sound, Tidy
    <3>2. c \in B /\ c # y1.mem_brk
      BY <1>4, <3>1, BlockFacts DEF Fused
    <3>3. c \notin InUse(k1, B)
      BY <1>12, <3>1 DEF InUse
    <3> QED
      BY <1>6, <1>12, <3>1, <3>2, <3>3, BlockFacts DEF InUse, FreeIn
  <2> QED
    BY <2>1
<1>19. SameLinks(j1, j2, G)
  BY <1>11, <1>18, FewerSame
<1> QED
  BY <1>12, <1>13, <1>14, <1>15, <1>16, <1>17, <1>19, SplitSame

(* Both heaps grow under the block, or neither can. *)
LEMMA ExtendedSame ==
    ASSUME NEW h1, NEW h2, NEW B, NEW ptr, NEW size, NEW n, BothWant(h1, h2, B, ptr, size, n),
           Size(h1, ptr) < n, n <= CHUNKSIZE, After(h1, ptr) = h1.mem_brk,
           NEW g1, g1 = Mm!Extended(h1, ptr, n), NEW g2, g2 = Mm!Extended(h2, ptr, n)
    PROVE  MmAgree(g1, g2)
<1>1. /\ SameAround(h1, h2, B, ptr) /\ Wanted(h1, B, ptr, size, n) /\ Wanted(h2, B, ptr, size, n)
      /\ MmTwins(h1, h2, B)
  BY BothWantFacts DEF BothWant
<1>2. /\ Size(h2, ptr) < n /\ After(h2, ptr) = h2.mem_brk /\ h2.mem_brk = h1.mem_brk
  BY <1>1 DEF SameAround
<1>3. h1.mem_brk \in Nat /\ mem_max_addr \in Nat /\ ptr \in Int
  BY <1>1, WantedFacts
<1>4. CHUNKSIZE \in Nat /\ CHUNKSIZE % 8 = 0 /\ CHUNKSIZE >= 16
  BY ChunkAssumption
<1>5. CASE h1.mem_brk + CHUNKSIZE > mem_max_addr
  <2>1. \/ Returning(h1, g1, NULL) /\ h1.mem_brk + CHUNKSIZE > mem_max_addr
        \/ /\ Serves(h1, InUse(h1, B) \ {ptr}, g1, n) /\ Carried(h1, g1, ptr, size) /\ Neat(g1)
           /\ g1.ret = ptr /\ After(g1, ptr) = ptr + n
           /\ g1.mem_brk = h1.mem_brk + CHUNKSIZE /\ g1.mem_brk <= mem_max_addr
    BY <1>1, MmExtended
  <2>2. \/ Returning(h2, g2, NULL) /\ h2.mem_brk + CHUNKSIZE > mem_max_addr
        \/ /\ Serves(h2, InUse(h2, B) \ {ptr}, g2, n) /\ Carried(h2, g2, ptr, size) /\ Neat(g2)
           /\ g2.ret = ptr /\ After(g2, ptr) = ptr + n
           /\ g2.mem_brk = h2.mem_brk + CHUNKSIZE /\ g2.mem_brk <= mem_max_addr
    BY <1>1, <1>2, MmExtended
  <2>3. PICK t : t = h1.mem_brk + CHUNKSIZE
    OBVIOUS
  <2>4. ~(t <= mem_max_addr)
    BY <1>3, <1>4, <1>5, <2>3
  <2>5. Returning(h1, g1, NULL) /\ Returning(h2, g2, NULL)
    BY <1>2, <2>1, <2>2, <2>3, <2>4
  <2>6. NULL \in Int
    BY DEF NULL
  <2>7. MmTwins(g1, g2, B) /\ g1.ret = NULL /\ g2.ret = NULL
    BY <1>1, <2>5, <2>6, TwinsReturn
  <2> QED
    BY <2>7 DEF MmAgree
<1>6. CASE h1.mem_brk + CHUNKSIZE <= mem_max_addr
  <2>1. PICK k1 : k1 = Mm!extend_heap(h1, CHUNKSIZE \div 4)
    OBVIOUS
  <2>2. PICK k2 : k2 = Mm!extend_heap(h2, CHUNKSIZE \div 4)
    OBVIOUS
  <2>3. MmAgree(k1, k2)
    BY <1>1, <1>4, <1>6, <2>1, <2>2, ExtendSame
  <2>4. PICK C : MmTwins(k1, k2, C)
    BY <2>3 DEF MmAgree
  <2>5. PICK C1, r1, f1 : ExtendsTo(h1, B, ptr, size, n, k1, C1, r1, f1, g1)
    BY <1>1, <1>6, <2>1, ExtendsIs
  <2>6. h2.mem_brk + CHUNKSIZE <= mem_max_addr
    BY <1>2, <1>6
  <2>7. PICK C2, r2, f2 : ExtendsTo(h2, B, ptr, size, n, k2, C2, r2, f2, g2)
    BY <1>1, <1>2, <2>2, <2>6, ExtendsIs
  <2>8. C1 = C /\ C2 = C
    <3>1. Tidy(k1, C) /\ Tidy(k2, C) /\ Tidy(k1, C1) /\ Tidy(k2, C2)
      BY <2>4, <2>5, <2>7 DEF MmTwins, ExtendsTo
    <3> QED
      BY <3>1, OneTiling DEF Tidy
  <2>9. BothWant(k1, k2, C, ptr, size, n)
    BY <2>4, <2>5, <2>7, <2>8 DEF BothWant, ExtendsTo
  <2>10. PICK m : m = ptr + n
    OBVIOUS
  <2>11. PICK e : e = After(k1, r1)
    OBVIOUS
  <2>12. r1 = h1.mem_brk /\ r2 = r1
    BY <1>2, <2>5, <2>7 DEF ExtendsTo
  <2>13. Stretched(k1, C, ptr, n, m, r1, e, f1)
    BY <2>5, <2>8, <2>10, <2>11 DEF ExtendsTo
  <2>14. After(k2, r1) = e
    <3>1. r1 \in C
      BY <2>13 DEF Stretched
    <3> QED
      BY <2>4, <2>11, <3>1 DEF MmTwins, SameTags
  <2>15. Stretched(k2, C, ptr, n, m, r1, e, f2)
    BY <2>7, <2>8, <2>10, <2>12, <2>14 DEF ExtendsTo
  <2>16. PICK D : MmTwins(f1, f2, D)
    BY <2>9, <2>13, <2>15, StretchSame
  <2>17. Returning(f1, g1, ptr) /\ Returning(f2, g2, ptr)
    BY <2>5, <2>7 DEF ExtendsTo, Returning
  <2>18. MmTwins(g1, g2, D) /\ g1.ret = ptr /\ g2.ret = ptr
    BY <1>3, <2>16, <2>17, TwinsReturn
  <2> QED
    BY <2>18 DEF MmAgree
<1> QED
  BY <1>3, <1>4, <1>5, <1>6

(* What is between the tags of a block in use is nothing to twins. *)
LEMMA PayloadSame ==
    ASSUME NEW h1, NEW h2, NEW B, MmTwins(h1, h2, B), NEW b \in InUse(h1, B),
           NEW g1 \in Heaps, g1.mem_brk = h1.mem_brk, g1.free_listp = h1.free_listp,
           \A a \in Int : a \notin b .. After(h1, b) - 9 => GET(g1, a) = GET(h1, a),
           NEW g2 \in Heaps, g2.mem_brk = h2.mem_brk, g2.free_listp = h2.free_listp,
           \A a \in Int : a \notin b .. After(h2, b) - 9 => GET(g2, a) = GET(h2, a)
    PROVE  MmTwins(g1, g2, B)
<1>1. /\ Tidy(h1, B) /\ Tidy(h2, B) /\ Tiling(h1, B) /\ Tiling(h2, B) /\ SameTags(h1, h2, B)
      /\ h2.mem_brk = h1.mem_brk
  BY DEF MmTwins, Tidy, Sound, SameTags
<1>2. InUse(h2, B) = InUse(h1, B) /\ FreeIn(h2, B) = FreeIn(h1, B)
  BY <1>1, SameTagsSameUse
<1>3. /\ Tidy(g1, B) /\ InUse(g1, B) = InUse(h1, B) /\ Keeps(h1, g1, InUse(h1, B) \ {b})
      /\ After(g1, b) = After(h1, b)
  BY <1>1, PayloadTidies
<1>4. /\ Tidy(g2, B) /\ InUse(g2, B) = InUse(h2, B) /\ Keeps(h2, g2, InUse(h2, B) \ {b})
      /\ After(g2, b) = After(h2, b)
  BY <1>1, <1>2, PayloadTidies
<1>5. SameTags(g1, g2, B)
  <2>1. ASSUME NEW c \in InUse(h1, B)
        PROVE  After(g1, c) = After(g2, c)
    <3>1. After(g1, c) = After(h1, c)
      BY <1>3 DEF Keeps
    <3>2. After(g2, c) = After(h2, c)
      BY <1>2, <1>4 DEF Keeps
    <3> QED
      BY <1>1, <3>1, <3>2 DEF SameTags, InUse
  <2>2. SameUse(g1, B, g2, B)
    BY <1>1, <1>2, <1>3, <1>4, <2>1 DEF SameUse, Tidy
  <2> QED
    BY <2>2, UseTellsTags
<1>6. PICK F : F = FreeIn(h1, B)
  OBVIOUS
<1>7. ASSUME NEW p \in F
      PROVE  /\ GET(g1, p) = GET(h1, p) /\ GET(g1, p + 4) = GET(h1, p + 4)
             /\ GET(g2, p) = GET(h2, p) /\ GET(g2, p + 4) = GET(h2, p + 4)
  <2>1. b \in B \ {p, h1.mem_brk}
    BY <1>6 DEF InUse, FreeIn
  <2>2. p \in Nat /\ \A a \in b .. After(h1, b) - 9 : a \notin {p, p + 4}
    BY <1>1, <1>6, <2>1, FreeAreNodes
  <2>3. p \in Nat /\ \A a \in b .. After(h2, b) - 9 : a \notin {p, p + 4}
    BY <1>1, <1>2, <1>6, <2>1, FreeAreNodes
  <2>4. p \in Int /\ p + 4 \in Int
    BY <2>2
  <2> QED
    BY <2>2, <2>3, <2>4
<1>8. SameLinks(g1, g2, F)
  <2>1. SameLinks(h1, h2, F)
    BY <1>6 DEF MmTwins
  <2> QED
    BY <1>7, <2>1, AloneSame
<1>9. FreeIn(g1, B) = F
  <2>1. Tiling(g1, B) /\ g1.mem_brk = h1.mem_brk
    BY <1>3 DEF Tidy, Sound
  <2>2. FreeIn(g1, B) = {c \in B \ {g1.mem_brk} : c \notin InUse(g1, B)}
    BY <2>1, FreeIsUnused
  <2>3. F = {c \in B \ {h1.mem_brk} : c \notin InUse(h1, B)}
    BY <1>1, <1>6, FreeIsUnused
  <2> QED
    BY <1>3, <2>1, <2>2, <2>3
<1> QED
  BY <1>3, <1>4, <1>5, <1>8, <1>9 DEF MmTwins

(* The steps in which a block moves. *)
Moving(h, ptr, size, amount, k, c, f, g) ==
    /\ k = Mm!mm_malloc(h, size) /\ c = memcpy(k, k.ret, ptr, amount, "up")
    /\ f = Mm!mm_free(c, ptr)
    /\ k.ret = NULL => Returning(k, g, Exited)
    /\ k.ret # NULL => Returning(f, g, k.ret)

(* It does move in these. *)
LEMMA MovedIs ==
    ASSUME NEW h, NEW ptr, NEW size, NEW g, g = Mm!Moved(h, ptr, size, "up"),
           NEW amount, amount = Min({size, GET_SIZE(h, HDRP(ptr))})
    PROVE  \E k, c, f : Moving(h, ptr, size, amount, k, c, f, g)
<1>1. PICK k : k = Mm!mm_malloc(h, size)
  OBVIOUS
<1>2. PICK c : c = memcpy(k, k.ret, ptr, amount, "up")
  OBVIOUS
<1>3. PICK f : f = Mm!mm_free(c, ptr)
  OBVIOUS
<1>4. g = IF k.ret = NULL THEN [k EXCEPT !.ret = Exited] ELSE [f EXCEPT !.ret = k.ret]
  <2>1. Mm!NULL = NULL /\ Mm!Exited = Exited
    BY MmMemory
  <2>2. Mm!memcpy(k, k.ret, ptr, Mm!Min({size, Mm!GET_SIZE(h, Mm!HDRP(ptr))}), "up") = c
    BY <1>2, MmTags, MmExtrema
  <2> QED
    BY <1>1, <1>3, <2>1, <2>2, Zenon DEF Mm!Moved
<1>5. Moving(h, ptr, size, amount, k, c, f, g)
  BY <1>1, <1>2, <1>3, <1>4 DEF Moving, Returning
<1> QED
  BY <1>5

(* The new block is in use beside the old one, and only it is written.     *)
LEMMA MovingCopies ==
    ASSUME NEW h, NEW B, NEW ptr, NEW size, NEW n, Wanted(h, B, ptr, size, n),
           NEW amount, amount = Min({size, GET_SIZE(h, HDRP(ptr))}),
           NEW k, NEW c, NEW f, NEW g, Moving(h, ptr, size, amount, k, c, f, g), k.ret # NULL
    PROVE  \E C : Tidy(k, C) /\ CopiedOut(h, ptr, size, k, C, k.ret, amount, c)
<1>1. /\ Tidy(h, B) /\ h \in Heaps /\ size \in Nat \ {0} /\ n = Adjusted(size)
  BY WantedFacts DEF Wanted
<1>2. k = Mm!mm_malloc(h, size)
  BY DEF Moving
<1>3. \/ Serves(h, InUse(h, B), k, n) /\ Neat(k) /\ Placement(h, B, k, n)
      \/ Full(h, B, n) /\ Returning(h, k, NULL)
  BY <1>1, <1>2, MmAllocates
<1>4. Serves(h, InUse(h, B), k, n) /\ Neat(k)
  <2>1. Returning(h, k, NULL) => k.ret = NULL
    <3>1. NULL \in Int
      BY DEF NULL
    <3> QED
      BY <1>1, <3>1, Returns
  <2> QED
    BY <1>3, <2>1
<1>5. PICK C : Receives(h, B, n, k, C, k.ret)
  BY <1>4, ServesReceives
<1>6. PICK new : new = k.ret
  OBVIOUS
<1>7. c = memcpy(k, new, ptr, amount, "up") /\ Receives(h, B, n, k, C, new)
  BY <1>5, <1>6 DEF Moving
<1>8. CopiedOut(h, ptr, size, k, C, new, amount, c)
  BY <1>7, MoveCopies
<1> QED
  BY <1>6, <1>7, <1>8 DEF Receives

(* A block that moves does so in both. *)
LEMMA MovedSame ==
    ASSUME NEW h1, NEW h2, NEW B, NEW ptr, NEW size, NEW n, BothWant(h1, h2, B, ptr, size, n),
           NEW g1, g1 = Mm!Moved(h1, ptr, size, "up"), NEW g2, g2 = Mm!Moved(h2, ptr, size, "up")
    PROVE  MmAgree(g1, g2)
<1>1. /\ SameAround(h1, h2, B, ptr) /\ Wanted(h1, B, ptr, size, n) /\ Wanted(h2, B, ptr, size, n)
      /\ MmTwins(h1, h2, B)
  BY BothWantFacts DEF BothWant
<1>2. PICK amount : amount = Min({size, GET_SIZE(h1, HDRP(ptr))})
  OBVIOUS
<1>3. amount = Min({size, GET_SIZE(h2, HDRP(ptr))})
  <2>1. GET_SIZE(h1, HDRP(ptr)) = Size(h1, ptr) /\ GET_SIZE(h2, HDRP(ptr)) = Size(h2, ptr)
    BY <1>1, WantedFacts
  <2>2. Size(h1, ptr) = Size(h2, ptr)
    BY <1>1 DEF SameAround
  <2> QED
    BY <1>2, <2>1, <2>2
<1>4. PICK k1, c1, f1 : Moving(h1, ptr, size, amount, k1, c1, f1, g1)
  BY <1>2, MovedIs
<1>5. PICK k2, c2, f2 : Moving(h2, ptr, size, amount, k2, c2, f2, g2)
  BY <1>3, MovedIs
<1>6. MmAgree(k1, k2)
  <2>1. k1 = Mm!mm_malloc(h1, size) /\ k2 = Mm!mm_malloc(h2, size)
    BY <1>4, <1>5 DEF Moving
  <2>2. size \in Nat \ {0}
    BY <1>1 DEF Wanted
  <2> QED
    BY <1>1, <2>1, <2>2, MmMallocSame
<1>7. PICK C : MmTwins(k1, k2, C)
  BY <1>6 DEF MmAgree
<1>8. k1.ret = k2.ret
  BY <1>6 DEF MmAgree
<1>9. CASE k1.ret = NULL
  <2>1. Returning(k1, g1, Exited) /\ Returning(k2, g2, Exited)
    BY <1>4, <1>5, <1>8, <1>9 DEF Moving
  <2>2. Exited \in Int
    BY DEF Exited
  <2>3. MmTwins(g1, g2, C) /\ g1.ret = Exited /\ g2.ret = Exited
    BY <1>7, <2>1, <2>2, TwinsReturn
  <2> QED
    BY <2>3 DEF MmAgree
<1>10. CASE k1.ret # NULL
  <2>1. PICK C1 : Tidy(k1, C1) /\ CopiedOut(h1, ptr, size, k1, C1, k1.ret, amount, c1)
    BY <1>1, <1>2, <1>4, <1>10, MovingCopies
  <2>2. PICK C2 : Tidy(k2, C2) /\ CopiedOut(h2, ptr, size, k2, C2, k2.ret, amount, c2)
    BY <1>1, <1>3, <1>5, <1>8, <1>10, MovingCopies
  <2>3. C1 = C /\ C2 = C
    <3>1. Tidy(k1, C) /\ Tidy(k2, C)
      BY <1>7 DEF MmTwins
    <3> QED
      BY <2>1, <2>2, <3>1, OneTiling DEF Tidy
  <2>4. PICK new : new = k1.ret
    OBVIOUS
  <2>5. /\ new \in InUse(k1, C) /\ ptr \in InUse(k1, C) /\ new \in Nat
        /\ c1 \in Heaps /\ c1.mem_brk = k1.mem_brk /\ c1.free_listp = k1.free_listp
        /\ \A a \in Int : a \notin new .. After(k1, new) - 9 => GET(c1, a) = GET(k1, a)
    BY <2>1, <2>3, <2>4 DEF CopiedOut
  <2>6. /\ c2 \in Heaps /\ c2.mem_brk = k2.mem_brk /\ c2.free_listp = k2.free_listp
        /\ \A a \in Int : a \notin new .. After(k2, new) - 9 => GET(c2, a) = GET(k2, a)
    BY <1>8, <2>2, <2>3, <2>4 DEF CopiedOut
  <2>7. MmTwins(c1, c2, C)
    BY <1>7, <2>5, <2>6, PayloadSame
  <2>8. ptr \in InUse(c1, C) \ {heap_listp}
    <3>1. InUse(c1, C) = InUse(k1, C)
      BY <1>7, <2>5, PayloadTidies DEF MmTwins
    <3> QED
      BY <1>1, <2>5, <3>1 DEF Wanted
  <2>9. f1 = Mm!mm_free(c1, ptr) /\ f2 = Mm!mm_free(c2, ptr)
    BY <1>4, <1>5 DEF Moving
  <2>10. MmAgree(f1, f2)
    BY <2>7, <2>8, <2>9, MmFreeSame
  <2>11. PICK D : MmTwins(f1, f2, D)
    BY <2>10 DEF MmAgree
  <2>12. Returning(f1, g1, new) /\ Returning(f2, g2, new)
    BY <1>4, <1>5, <1>8, <1>10, <2>4 DEF Moving
  <2>13. MmTwins(g1, g2, D) /\ g1.ret = new /\ g2.ret = new
    BY <2>5, <2>11, <2>12, TwinsReturn
  <2> QED
    BY <2>13 DEF MmAgree
<1> QED
  BY <1>9, <1>10

(* What is needed fits into the neighbours of both or of none. *)
LEMMA FitsIntoSame ==
    ASSUME NEW h1, NEW h2, NEW B, NEW ptr, NEW size, NEW n, BothWant(h1, h2, B, ptr, size, n),
           NEW ns, ns \subseteq {PREV_BLKP(h1, ptr), After(h1, ptr)}
    PROVE  Mm!FitsInto(h1, ptr, n, ns) <=> Mm!FitsInto(h2, ptr, n, ns)
<1>1. SameAround(h1, h2, B, ptr) /\ Wanted(h1, B, ptr, size, n) /\ Wanted(h2, B, ptr, size, n)
  BY BothWantFacts DEF BothWant
<1>2. ns \subseteq {PREV_BLKP(h2, ptr), After(h2, ptr)}
  BY <1>1 DEF SameAround
<1>3. Mm!FitsInto(h1, ptr, n, ns) <=> FitsIn(h1, ptr, n, ns) /\ \A q \in ns : Used(h1, q) = 0
  BY <1>1, FitsTells
<1>4. Mm!FitsInto(h2, ptr, n, ns) <=> FitsIn(h2, ptr, n, ns) /\ \A q \in ns : Used(h2, q) = 0
  BY <1>1, <1>2, FitsTells
<1>5. \A q \in ns : Used(h1, q) = Used(h2, q)
  BY <1>1 DEF SameAround
<1>6. ASSUME \A q \in ns : Used(h1, q) = 0
      PROVE  FitsIn(h1, ptr, n, ns) <=> FitsIn(h2, ptr, n, ns)
  <2>1. PICK first : first = IF PREV_BLKP(h1, ptr) \in ns THEN PREV_BLKP(h1, ptr) ELSE ptr
    OBVIOUS
  <2>2. PICK e : e = IF After(h1, ptr) \in ns THEN After(h1, After(h1, ptr)) ELSE After(h1, ptr)
    OBVIOUS
  <2>3. Around(h1, ptr, ns, first, e)
    BY <1>6, <2>1, <2>2 DEF Around
  <2> QED
    BY <2>3, FitsInSame
<1> QED
  BY <1>3, <1>4, <1>5, <1>6

(* A block is resized the same way in both. *)
LEMMA MmReallocSame ==
    ASSUME NEW h1, NEW h2, NEW B, MmTwins(h1, h2, B), NEW ptr, NEW size, NEW n,
           Wanted(h1, B, ptr, size, n), n <= CHUNKSIZE,
           NEW g1, g1 = Mm!mm_realloc(h1, ptr, size, "up"),
           NEW g2, g2 = Mm!mm_realloc(h2, ptr, size, "up")
    PROVE  MmAgree(g1, g2)
<1>1. BothWant(h1, h2, B, ptr, size, n)
  BY WantedBoth
<1>2. SameAround(h1, h2, B, ptr) /\ Wanted(h2, B, ptr, size, n)
  BY <1>1, BothWantFacts DEF BothWant
<1>3. PICK prev : prev = PREV_BLKP(h1, ptr)
  OBVIOUS
<1>4. PICK next : next = After(h1, ptr)
  OBVIOUS
<1>5. PICK c : c = Size(h1, ptr)
  OBVIOUS
<1>6. PICK e : e = JoinEnd(h1, ptr)
  OBVIOUS
<1>7. /\ c \in Nat /\ n \in Nat /\ ptr \in Int
  BY <1>5, WantedFacts
<1>8. /\ PREV_BLKP(h2, ptr) = prev /\ After(h2, ptr) = next /\ Size(h2, ptr) = c
      /\ Size(h2, next) = Size(h1, next)
  BY <1>2, <1>3, <1>4, <1>5 DEF SameAround
<1>9. ReallocCases(h1, ptr, size, n, prev, next, g1)
  BY <1>3, <1>4, MmReallocIs
<1>10. ReallocCases(h2, ptr, size, n, prev, next, g2)
  BY <1>2, <1>8, MmReallocIs
<1>11. PICK nn : nn = {next}
  OBVIOUS
<1>12. PICK np : np = {prev}
  OBVIOUS
<1>13. PICK nb : nb = {prev, next}
  OBVIOUS
<1>14. \A ns \in {nn, np, nb} : Mm!FitsInto(h1, ptr, n, ns) <=> Mm!FitsInto(h2, ptr, n, ns)
  <2>1. ASSUME NEW ns \in {nn, np, nb}
        PROVE  ns \subseteq {PREV_BLKP(h1, ptr), After(h1, ptr)}
    BY <1>3, <1>4, <1>11, <1>12, <1>13
  <2> QED
    BY <1>1, <2>1, FitsIntoSame
<1>15. \/ n = c /\ g1 = [h1 EXCEPT !.ret = ptr]
       \/ n + 16 <= c /\ CutOff(h1, ptr, n, c, g1)
       \/ c < n /\ Mm!FitsInto(h1, ptr, n, nn) /\ UpOver(h1, ptr, nn, g1)
       \/ /\ c < n /\ ~Mm!FitsInto(h1, ptr, n, nn) /\ Mm!FitsInto(h1, ptr, n, np)
          /\ DownOver(h1, ptr, np, prev, c, g1)
       \/ /\ c < n /\ ~Mm!FitsInto(h1, ptr, n, nn) /\ ~Mm!FitsInto(h1, ptr, n, np)
          /\ Mm!FitsInto(h1, ptr, n, nb) /\ DownOver(h1, ptr, nb, prev, c, g1)
       \/ /\ c < n /\ ~Mm!FitsInto(h1, ptr, n, nn) /\ ~Mm!FitsInto(h1, ptr, n, np)
          /\ ~Mm!FitsInto(h1, ptr, n, nb) /\ Size(h1, next) = 0 /\ g1 = Mm!Extended(h1, ptr, n)
       \/ /\ c < n /\ ~Mm!FitsInto(h1, ptr, n, nn) /\ ~Mm!FitsInto(h1, ptr, n, np)
          /\ ~Mm!FitsInto(h1, ptr, n, nb) /\ Size(h1, next) # 0
          /\ g1 = Mm!Moved(h1, ptr, size, "up")
       \/ n < c /\ ~(n + 16 <= c) /\ g1 = Mm!Moved(h1, ptr, size, "up")
  BY <1>5, <1>9, <1>11, <1>12, <1>13, Zenon DEF ReallocCases
<1>16. \/ n = c /\ g2 = [h2 EXCEPT !.ret = ptr]
       \/ n + 16 <= c /\ CutOff(h2, ptr, n, c, g2)
       \/ c < n /\ Mm!FitsInto(h2, ptr, n, nn) /\ UpOver(h2, ptr, nn, g2)
       \/ /\ c < n /\ ~Mm!FitsInto(h2, ptr, n, nn) /\ Mm!FitsInto(h2, ptr, n, np)
          /\ DownOver(h2, ptr, np, prev, c, g2)
       \/ /\ c < n /\ ~Mm!FitsInto(h2, ptr, n, nn) /\ ~Mm!FitsInto(h2, ptr, n, np)
          /\ Mm!FitsInto(h2, ptr, n, nb) /\ DownOver(h2, ptr, nb, prev, c, g2)
       \/ /\ c < n /\ ~Mm!FitsInto(h2, ptr, n, nn) /\ ~Mm!FitsInto(h2, ptr, n, np)
          /\ ~Mm!FitsInto(h2, ptr, n, nb) /\ Size(h2, next) = 0 /\ g2 = Mm!Extended(h2, ptr, n)
       \/ /\ c < n /\ ~Mm!FitsInto(h2, ptr, n, nn) /\ ~Mm!FitsInto(h2, ptr, n, np)
          /\ ~Mm!FitsInto(h2, ptr, n, nb) /\ Size(h2, next) # 0
          /\ g2 = Mm!Moved(h2, ptr, size, "up")
       \/ n < c /\ ~(n + 16 <= c) /\ g2 = Mm!Moved(h2, ptr, size, "up")
  BY <1>8, <1>10, <1>11, <1>12, <1>13, Zenon DEF ReallocCases
<1>17. /\ n = c => ~(n + 16 <= c) /\ ~(c < n) /\ ~(n < c)
       /\ n + 16 <= c => n # c /\ ~(c < n) /\ n < c
       /\ c < n => n # c /\ ~(n + 16 <= c) /\ ~(n < c)
       /\ n < c => n # c /\ ~(c < n)
  BY <1>7
<1>18. /\ Used(h1, next) = 0 => Around(h1, ptr, nn, ptr, e)
       /\ Used(h1, prev) = 0 => Around(h1, ptr, np, prev, next)
       /\ Used(h1, next) = 0 /\ Used(h1, prev) = 0 => Around(h1, ptr, nb, prev, e)
       /\ next = h1.mem_brk <=> Size(h1, next) = 0
  BY <1>3, <1>4, <1>6, <1>11, <1>12, <1>13, NeighbourFacts
<1>19. ASSUME NEW ns \in {nn, np, nb}, Mm!FitsInto(h1, ptr, n, ns)
       PROVE  FitsIn(h1, ptr, n, ns) /\ \A q \in ns : Used(h1, q) = 0
  <2>1. ns \subseteq {PREV_BLKP(h1, ptr), After(h1, ptr)}
    BY <1>3, <1>4, <1>11, <1>12, <1>13
  <2> QED
    BY <1>19, <2>1, FitsTells
<1>20. CASE n = c
  <2>1. Returning(h1, g1, ptr) /\ Returning(h2, g2, ptr)
    BY <1>15, <1>16, <1>17, <1>20, Zenon DEF Returning
  <2>2. MmTwins(g1, g2, B) /\ g1.ret = ptr /\ g2.ret = ptr
    BY <1>7, <2>1, TwinsReturn
  <2> QED
    BY <2>2 DEF MmAgree
<1>21. CASE n + 16 <= c
  <2>1. CutOff(h1, ptr, n, c, g1) /\ CutOff(h2, ptr, n, c, g2)
    BY <1>15, <1>16, <1>17, <1>21, Zenon
  <2> QED
    BY <1>1, <1>5, <1>21, <2>1, CutOffSame
<1>22. CASE n < c /\ ~(n + 16 <= c)
  <2>1. g1 = Mm!Moved(h1, ptr, size, "up") /\ g2 = Mm!Moved(h2, ptr, size, "up")
    BY <1>15, <1>16, <1>17, <1>22, Zenon
  <2> QED
    BY <1>1, <2>1, MovedSame
<1>23. CASE c < n /\ Mm!FitsInto(h1, ptr, n, nn)
  <2>1. UpOver(h1, ptr, nn, g1) /\ UpOver(h2, ptr, nn, g2)
    BY <1>14, <1>15, <1>16, <1>17, <1>23, Zenon
  <2>2. FitsIn(h1, ptr, n, nn) /\ Around(h1, ptr, nn, ptr, e)
    BY <1>11, <1>18, <1>19, <1>23
  <2> QED
    BY <1>1, <2>1, <2>2, UpOverSame
<1>24. CASE c < n /\ ~Mm!FitsInto(h1, ptr, n, nn) /\ Mm!FitsInto(h1, ptr, n, np)
  <2>1. DownOver(h1, ptr, np, prev, c, g1) /\ DownOver(h2, ptr, np, prev, c, g2)
    BY <1>14, <1>15, <1>16, <1>17, <1>24, Zenon
  <2>2. FitsIn(h1, ptr, n, np) /\ Around(h1, ptr, np, prev, next) /\ prev \in np
    BY <1>12, <1>18, <1>19, <1>24
  <2> QED
    BY <1>1, <1>3, <1>5, <2>1, <2>2, DownOverSame
<1>25. CASE /\ c < n /\ ~Mm!FitsInto(h1, ptr, n, nn) /\ ~Mm!FitsInto(h1, ptr, n, np)
            /\ Mm!FitsInto(h1, ptr, n, nb)
  <2>1. DownOver(h1, ptr, nb, prev, c, g1) /\ DownOver(h2, ptr, nb, prev, c, g2)
    BY <1>14, <1>15, <1>16, <1>17, <1>25, Zenon
  <2>2. FitsIn(h1, ptr, n, nb) /\ Around(h1, ptr, nb, prev, e) /\ prev \in nb
    BY <1>13, <1>18, <1>19, <1>25
  <2> QED
    BY <1>1, <1>3, <1>5, <2>1, <2>2, DownOverSame
<1>26. CASE /\ c < n /\ ~Mm!FitsInto(h1, ptr, n, nn) /\ ~Mm!FitsInto(h1, ptr, n, np)
            /\ ~Mm!FitsInto(h1, ptr, n, nb) /\ Size(h1, next) = 0
  <2>1. g1 = Mm!Extended(h1, ptr, n) /\ g2 = Mm!Extended(h2, ptr, n)
    BY <1>8, <1>14, <1>15, <1>16, <1>17, <1>26, Zenon
  <2>2. Size(h1, ptr) < n /\ After(h1, ptr) = h1.mem_brk
    BY <1>4, <1>5, <1>18, <1>26
  <2> QED
    BY <1>1, <2>1, <2>2, ExtendedSame
<1>27. CASE /\ c < n /\ ~Mm!FitsInto(h1, ptr, n, nn) /\ ~Mm!FitsInto(h1, ptr, n, np)
            /\ ~Mm!FitsInto(h1, ptr, n, nb) /\ Size(h1, next) # 0
  <2>1. g1 = Mm!Moved(h1, ptr, size, "up") /\ g2 = Mm!Moved(h2, ptr, size, "up")
    BY <1>8, <1>14, <1>15, <1>16, <1>17, <1>27, Zenon
  <2> QED
    BY <1>1, <2>1, MovedSame
<1>28. n = c \/ n < c \/ c < n
  BY <1>7
<1> QED
  BY <1>20, <1>21, <1>22, <1>23, <1>24, <1>25, <1>26, <1>27, <1>28, Zenon

-----------------------------------------------------------------------------
(* Two heaps that mm-firstfit.c cannot tell from each other.               *)

(* The tags are all it goes by. *)
TagTwins(h1, h2, B) == Sound(h1, B) /\ Sound(h2, B) /\ SameTags(h1, h2, B)

(* It returned the same, and cannot tell them still. *)
TagAgree(g1, g2) == (\E C : TagTwins(g1, g2, C)) /\ g1.ret = g2.ret

(* What is free is free in both, and is as large. *)
LEMMA FittingSame ==
    ASSUME NEW h1, NEW h2, NEW B, TagTwins(h1, h2, B), NEW n
    PROVE  /\ Fitting(h2, B, n) = Fitting(h1, B, n) /\ h2.mem_brk = h1.mem_brk
           /\ Full(h1, B, n) <=> Full(h2, B, n)
           /\ \A b \in B : After(h2, b) = After(h1, b)
           /\ InUse(h2, B) = InUse(h1, B)
           /\ \A b \in Fitting(h1, B, n) : b \in Nat
           /\ \A c \in InUse(h1, B) : After(h1, c) \in Nat
<1>1. /\ h2.mem_brk = h1.mem_brk
      /\ \A b \in B : /\ Size(h2, b) = Size(h1, b) /\ Used(h2, b) = Used(h1, b)
                      /\ After(h2, b) = After(h1, b)
      /\ Tiling(h1, B)
  BY DEF TagTwins, SameTags, Sound
<1>2. \A b : b \in Fitting(h2, B, n) <=> b \in Fitting(h1, B, n)
  BY <1>1 DEF Fitting
<1>3. Fitting(h2, B, n) = Fitting(h1, B, n)
  BY <1>2
<1>4. Full(h1, B, n) <=> Full(h2, B, n)
  BY <1>1, <1>3 DEF Full, Exhausted
<1>5. InUse(h2, B) = InUse(h1, B)
  BY SameTagsSameUse DEF TagTwins
<1>6. \A b \in Fitting(h1, B, n) : b \in Nat
  BY <1>1, BlockFacts DEF Fitting
<1>7. \A c \in InUse(h1, B) : After(h1, c) \in Nat
  BY <1>1, BlockFacts DEF InUse
<1> QED
  BY <1>1, <1>3, <1>4, <1>5, <1>6, <1>7

(* A full heap has no place. *)
LEMMA FullIsNotPlaced ==
    ASSUME NEW h, NEW B, Sound(h, B), NEW n \in Nat, Full(h, B, n), NEW g
    PROVE  ~PlacedFirst(h, B, g, n)
<1>1. /\ h.mem_brk \in Nat /\ GrowsBy(n) \in Nat /\ mem_max_addr \in Nat
  BY ChunkAssumption, AreaAssumption DEF Sound, Tiling, Bounds, Heaps, GrowsBy, mem_max_addr
<1>2. Fitting(h, B, n) = {} /\ h.mem_brk + GrowsBy(n) > mem_max_addr
  BY DEF Full, Exhausted
<1>3. ~InGap(h, B, g, n)
  BY <1>2 DEF InGap
<1>4. ~AtEnd(h, B, g, n)
  BY <1>1, <1>2 DEF AtEnd
<1> QED
  BY <1>3, <1>4 DEF PlacedFirst, Placement

(* What is placed first is placed there in both. *)
LEMMA PlacedSame ==
    ASSUME NEW h1, NEW h2, NEW B, TagTwins(h1, h2, B), NEW n,
           NEW S, S \subseteq InUse(h1, B),
           NEW g1, Serves(h1, S, g1, n), PlacedFirst(h1, B, g1, n),
           NEW g2, Serves(h2, S, g2, n), PlacedFirst(h2, B, g2, n)
    PROVE  TagAgree(g1, g2)
<1>1. PICK F : F = Fitting(h1, B, n)
  OBVIOUS
<1>2. PICK U : U = InUse(h1, B)
  OBVIOUS
<1>3. /\ Fitting(h2, B, n) = F /\ h2.mem_brk = h1.mem_brk /\ InUse(h2, B) = U
      /\ \A b \in B : After(h2, b) = After(h1, b)
      /\ \A b \in F : b \in Nat
      /\ \A c \in U : After(h1, c) \in Nat
      /\ U \subseteq B /\ F \subseteq B
  <2>1. U \subseteq B /\ F \subseteq B
    BY <1>1, <1>2 DEF InUse, Fitting
  <2> QED
    BY <1>1, <1>2, <2>1, FittingSame
<1>4. PICK r1 : r1 = g1.ret
  OBVIOUS
<1>5. PICK r2 : r2 = g2.ret
  OBVIOUS
<1>6. PICK e1 : e1 = After(g1, r1)
  OBVIOUS
<1>7. PICK e2 : e2 = After(g2, r2)
  OBVIOUS
<1>8. PICK t : t = h1.mem_brk
  OBVIOUS
<1>9. PICK C1 : Sound(g1, C1) /\ InUse(g1, C1) = S \cup {r1} /\ Keeps(h1, g1, S) /\ r1 \in Nat
  BY <1>4 DEF Serves
<1>10. PICK C2 : Sound(g2, C2) /\ InUse(g2, C2) = S \cup {r2} /\ Keeps(h2, g2, S) /\ r2 \in Nat
  BY <1>5 DEF Serves
<1>11. r1 = r2 /\ g1.mem_brk = g2.mem_brk /\ e1 = e2
  <2>1. CASE F # {}
    <3>1. /\ r1 \in F /\ g1.mem_brk = t /\ e1 = TakenTo(r1, After(h1, r1), n)
          /\ \A b \in F : r1 <= b
      BY <1>1, <1>4, <1>6, <1>8, <2>1 DEF PlacedFirst, Placement, InGap, AtEnd
    <3>2. /\ r2 \in F /\ g2.mem_brk = t /\ e2 = TakenTo(r2, After(h2, r2), n)
          /\ \A b \in F : r2 <= b
      BY <1>3, <1>5, <1>7, <1>8, <2>1 DEF PlacedFirst, Placement, InGap, AtEnd
    <3>3. r1 <= r2 /\ r2 <= r1
      BY <3>1, <3>2
    <3>4. r1 = r2
      BY <1>9, <1>10, <3>3
    <3>5. After(h2, r2) = After(h1, r1)
      BY <1>3, <3>1, <3>4
    <3> QED
      BY <3>1, <3>2, <3>4, <3>5
  <2>2. CASE F = {}
    <3>1. /\ g1.mem_brk = t + GrowsBy(n) /\ e1 = TakenTo(r1, g1.mem_brk, n)
          /\ \E c \in U : After(h1, c) = r1
          /\ \A c \in U : After(h1, c) <= r1
      BY <1>1, <1>2, <1>4, <1>6, <1>8, <2>2 DEF PlacedFirst, Placement, InGap, AtEnd
    <3>2. /\ g2.mem_brk = t + GrowsBy(n) /\ e2 = TakenTo(r2, g2.mem_brk, n)
          /\ \E c \in U : After(h2, c) = r2
          /\ \A c \in U : After(h2, c) <= r2
      BY <1>3, <1>5, <1>7, <1>8, <2>2 DEF PlacedFirst, Placement, InGap, AtEnd
    <3>3. /\ \E c \in U : After(h1, c) = r2
          /\ \A c \in U : After(h1, c) <= r2
      BY <1>3, <3>2
    <3>4. r1 <= r2 /\ r2 <= r1
      BY <3>1, <3>3
    <3>5. r1 = r2
      BY <1>9, <1>10, <3>4
    <3> QED
      BY <3>1, <3>2, <3>5
  <2> QED
    BY <2>1, <2>2
<1>12. SameUse(g1, C1, g2, C2)
  <2>1. InUse(g1, C1) = InUse(g2, C2)
    BY <1>9, <1>10, <1>11
  <2>2. ASSUME NEW c \in InUse(g1, C1)
        PROVE  After(g1, c) = After(g2, c)
    <3>1. CASE c = r1
      BY <1>6, <1>7, <1>11, <3>1
    <3>2. CASE c \in S
      <4>1. After(g1, c) = After(h1, c) /\ After(g2, c) = After(h2, c)
        BY <1>9, <1>10, <3>2 DEF Keeps
      <4> QED
        BY <1>2, <1>3, <3>2, <4>1
    <3> QED
      BY <1>9, <3>1, <3>2
  <2> QED
    BY <1>9, <1>10, <1>11, <2>1, <2>2 DEF SameUse
<1>13. C1 = C2 /\ SameTags(g1, g2, C1)
  BY <1>12, UseTellsTags
<1> QED
  BY <1>4, <1>5, <1>9, <1>10, <1>11, <1>13 DEF TagAgree, TagTwins

(* What is returned is no tag. *)
LEMMA TagTwinsReturn ==
    ASSUME NEW h1, NEW h2, NEW B, TagTwins(h1, h2, B), NEW r \in Int,
           NEW g1, Returning(h1, g1, r), NEW g2, Returning(h2, g2, r)
    PROVE  TagAgree(g1, g2)
<1>1. Sound(h1, B) /\ Sound(h2, B) /\ h1 \in Heaps /\ h2 \in Heaps /\ SameTags(h1, h2, B)
  BY DEF TagTwins, Sound, Tiling, Bounds
<1>2. /\ g1.ret = r /\ g1.mem_brk = h1.mem_brk /\ Tiling(g1, B) /\ Coalesced(g1, B)
      /\ \A b : /\ Size(g1, b) = Size(h1, b) /\ Used(g1, b) = Used(h1, b)
                /\ After(g1, b) = After(h1, b)
  BY <1>1, Returns DEF Sound
<1>3. /\ g2.ret = r /\ g2.mem_brk = h2.mem_brk /\ Tiling(g2, B) /\ Coalesced(g2, B)
      /\ \A b : /\ Size(g2, b) = Size(h2, b) /\ Used(g2, b) = Used(h2, b)
                /\ After(g2, b) = After(h2, b)
  BY <1>1, Returns DEF Sound
<1>4. SameTags(g1, g2, B)
  BY <1>1, <1>2, <1>3 DEF SameTags
<1> QED
  BY <1>2, <1>3, <1>4 DEF TagAgree, TagTwins, Sound

(* mm_malloc does the same to both. *)
LEMMA FirstFitMallocSame ==
    ASSUME NEW h1, NEW h2, NEW B, TagTwins(h1, h2, B), NEW size \in Nat \ {0},
           NEW g1, g1 = FirstFit!mm_malloc(h1, size), NEW g2, g2 = FirstFit!mm_malloc(h2, size)
    PROVE  TagAgree(g1, g2)
<1>1. PICK n : n = Adjusted(size) /\ n \in Nat
  BY AdjustedIsEnough
<1>2. PICK S : S = InUse(h1, B)
  OBVIOUS
<1>3. InUse(h2, B) = S /\ (Full(h1, B, n) <=> Full(h2, B, n)) /\ Sound(h1, B) /\ Sound(h2, B)
  BY <1>2, FittingSame DEF TagTwins
<1>4. \/ Serves(h1, S, g1, n) /\ PlacedFirst(h1, B, g1, n)
      \/ Full(h1, B, n) /\ Returning(h1, g1, NULL)
  BY <1>1, <1>2, <1>3, FirstFitAllocates
<1>5. \/ Serves(h2, S, g2, n) /\ PlacedFirst(h2, B, g2, n)
      \/ Full(h2, B, n) /\ Returning(h2, g2, NULL)
  BY <1>1, <1>3, FirstFitAllocates
<1>6. CASE Full(h1, B, n)
  <2>1. Returning(h1, g1, NULL) /\ Returning(h2, g2, NULL) /\ NULL \in Int
    BY <1>1, <1>3, <1>4, <1>5, <1>6, FullIsNotPlaced DEF NULL
  <2> QED
    BY <2>1, TagTwinsReturn
<1>7. CASE ~Full(h1, B, n)
  BY <1>2, <1>3, <1>4, <1>5, <1>7, PlacedSame
<1> QED
  BY <1>6, <1>7

(* So does mm_realloc. *)
LEMMA FirstFitReallocSame ==
    ASSUME NEW h1, NEW h2, NEW B, TagTwins(h1, h2, B), NEW ptr \in InUse(h1, B) \ {heap_listp},
           NEW size \in Nat \ {0}, size % 4 = 0,
           NEW g1, g1 = FirstFit!mm_realloc(h1, ptr, size),
           NEW g2, g2 = FirstFit!mm_realloc(h2, ptr, size)
    PROVE  TagAgree(g1, g2)
<1>1. PICK n : n = Adjusted(size) /\ n \in Nat
  BY AdjustedIsEnough
<1>2. PICK S : S = InUse(h1, B) \ {ptr}
  OBVIOUS
<1>3. /\ InUse(h2, B) = InUse(h1, B) /\ (Full(h1, B, n) <=> Full(h2, B, n))
      /\ Sound(h1, B) /\ Sound(h2, B)
  BY FittingSame DEF TagTwins
<1>4. \/ Serves(h1, S, g1, n) /\ PlacedFirst(h1, B, g1, n)
      \/ Full(h1, B, n) /\ Returning(h1, g1, Exited)
  BY <1>1, <1>2, <1>3, FirstFitMoves
<1>5. \/ Serves(h2, S, g2, n) /\ PlacedFirst(h2, B, g2, n)
      \/ Full(h2, B, n) /\ Returning(h2, g2, Exited)
  <2>1. ptr \in InUse(h2, B) \ {heap_listp}
    BY <1>3
  <2>2. \/ Serves(h2, InUse(h2, B) \ {ptr}, g2, n) /\ PlacedFirst(h2, B, g2, n)
        \/ Full(h2, B, n) /\ Returning(h2, g2, Exited)
    BY <1>1, <1>3, <2>1, FirstFitMoves
  <2> QED
    BY <1>2, <1>3, <2>2
<1>6. CASE Full(h1, B, n)
  <2>1. Returning(h1, g1, Exited) /\ Returning(h2, g2, Exited) /\ Exited \in Int
    BY <1>1, <1>3, <1>4, <1>5, <1>6, FullIsNotPlaced DEF Exited
  <2> QED
    BY <2>1, TagTwinsReturn
<1>7. CASE ~Full(h1, B, n)
  BY <1>2, <1>3, <1>4, <1>5, <1>7, PlacedSame
<1> QED
  BY <1>6, <1>7

(* mm_free returns the block that the one it frees joins. *)
LEMMA FirstFitFreeIs ==
    ASSUME NEW h, NEW B, Tiling(h, B), NEW b \in InUse(h, B) \ {heap_listp},
           NEW g, g = FirstFit!mm_free(h, b)
    PROVE  g.ret = JoinFirst(h, b)
<1>1. PICK k : k = Tag(h, b, Size(h, b), 0)
  OBVIOUS
<1>2. b \in B \ {heap_listp, h.mem_brk}
  BY DEF InUse
<1>3. GET_SIZE(h, HDRP(b)) = Size(h, b)
  BY <1>2, TagsTell
<1>4. g = Joined(k, b)
  BY <1>1, <1>3, FirstFitTags DEF FirstFit!mm_free, FirstFit!coalesce
<1>5. /\ Tagged(h, k, b, Size(h, b), 0) /\ Tiling(k, B) /\ Used(k, b) = 0
      /\ After(k, b) = After(h, b)
      /\ \A c \in B \ {b} : Used(k, c) = Used(h, c) /\ After(k, c) = After(h, c)
  BY <1>1, FreedTags
<1>6. k.mem_brk = h.mem_brk
  BY <1>5 DEF Tagged
<1>7. g.ret = JoinFirst(k, b)
  BY <1>2, <1>4, <1>5, <1>6, JoinedTags
<1>8. /\ PREV_BLKP(k, b) \in B \ {k.mem_brk} /\ After(k, PREV_BLKP(k, b)) = b
      /\ PREV_BLKP(k, b) < b
  BY <1>2, <1>5, <1>6, PrevTells
<1>9. \A c \in B \ {h.mem_brk} : After(h, c) = b => c = PREV_BLKP(h, b)
  BY <1>2, PrevTells
<1>10. b \in Nat
  BY <1>2, BlockFacts
<1>11. PREV_BLKP(k, b) # b
  BY <1>8, <1>10
<1>12. PREV_BLKP(k, b) = PREV_BLKP(h, b)
  BY <1>5, <1>6, <1>8, <1>9, <1>11
<1>13. Used(k, PREV_BLKP(h, b)) = Used(h, PREV_BLKP(h, b))
  BY <1>5, <1>8, <1>11, <1>12
<1> QED
  BY <1>7, <1>12, <1>13 DEF JoinFirst

(* So mm_free does the same to both. *)
LEMMA FirstFitFreeSame ==
    ASSUME NEW h1, NEW h2, NEW B, TagTwins(h1, h2, B), NEW b \in InUse(h1, B) \ {heap_listp},
           NEW g1, g1 = FirstFit!mm_free(h1, b), NEW g2, g2 = FirstFit!mm_free(h2, b)
    PROVE  TagAgree(g1, g2)
<1>1. PICK S : S = InUse(h1, B) \ {b}
  OBVIOUS
<1>2. /\ Sound(h1, B) /\ Sound(h2, B) /\ Tiling(h1, B) /\ Tiling(h2, B) /\ SameTags(h1, h2, B)
  BY DEF TagTwins, Sound
<1>3. InUse(h2, B) = InUse(h1, B)
  BY <1>2, SameTagsSameUse
<1>4. PICK C1 : Sound(g1, C1) /\ InUse(g1, C1) = S /\ g1.mem_brk = h1.mem_brk /\ Keeps(h1, g1, S)
  <2>1. PICK C1 : /\ Sound(g1, C1) /\ InUse(g1, C1) = InUse(h1, B) \ {b}
                  /\ g1.mem_brk = h1.mem_brk /\ Keeps(h1, g1, InUse(h1, B) \ {b})
    BY <1>2, FirstFitFrees
  <2> QED
    BY <1>1, <2>1
<1>5. PICK C2 : Sound(g2, C2) /\ InUse(g2, C2) = S /\ g2.mem_brk = h2.mem_brk /\ Keeps(h2, g2, S)
  <2>1. b \in InUse(h2, B) \ {heap_listp}
    BY <1>3
  <2>2. PICK C2 : /\ Sound(g2, C2) /\ InUse(g2, C2) = InUse(h2, B) \ {b}
                  /\ g2.mem_brk = h2.mem_brk /\ Keeps(h2, g2, InUse(h2, B) \ {b})
    BY <1>2, <2>1, FirstFitFrees
  <2> QED
    BY <1>1, <1>3, <2>2
<1>6. SameUse(g1, C1, g2, C2)
  <2>1. ASSUME NEW c \in S
        PROVE  After(g1, c) = After(g2, c)
    <3>1. After(g1, c) = After(h1, c) /\ After(g2, c) = After(h2, c)
      BY <1>4, <1>5 DEF Keeps
    <3>2. c \in B
      BY <1>1 DEF InUse
    <3> QED
      BY <1>2, <3>1, <3>2 DEF SameTags
  <2>2. h1.mem_brk = h2.mem_brk
    BY <1>2 DEF SameTags
  <2> QED
    BY <1>4, <1>5, <2>1, <2>2 DEF SameUse
<1>7. C1 = C2 /\ SameTags(g1, g2, C1)
  BY <1>6, UseTellsTags
<1>8. g1.ret = g2.ret
  <2>1. g1.ret = JoinFirst(h1, b)
    BY <1>2, FirstFitFreeIs
  <2>2. g2.ret = JoinFirst(h2, b)
    BY <1>2, <1>3, FirstFitFreeIs
  <2>3. b \in B \ {heap_listp, h1.mem_brk}
    BY DEF InUse
  <2> QED
    BY <1>2, <2>1, <2>2, <2>3, NeighboursSame
<1> QED
  BY <1>4, <1>5, <1>7, <1>8 DEF TagAgree, TagTwins

(* mm_init leaves the same, whatever is in memory. *)
LEMMA FirstFitStartSame ==
    ASSUME 16 + CHUNKSIZE <= MAX_HEAP, NEW h1 \in Heaps, NEW h2 \in Heaps,
           NEW g1, g1 = FirstFit!mm_init(mem_reset_brk(h1)),
           NEW g2, g2 = FirstFit!mm_init(mem_reset_brk(h2))
    PROVE  TagAgree(g1, g2)
<1>1. PICK C1 : /\ Sound(g1, C1) /\ InUse(g1, C1) = {heap_listp}
                /\ g1.mem_brk = mem_start_brk + 16 + CHUNKSIZE /\ g1.ret = 0
  BY FirstFitStarts
<1>2. PICK C2 : /\ Sound(g2, C2) /\ InUse(g2, C2) = {heap_listp}
                /\ g2.mem_brk = mem_start_brk + 16 + CHUNKSIZE /\ g2.ret = 0
  BY FirstFitStarts
<1>3. After(g1, heap_listp) = After(g2, heap_listp)
  <2>1. Size(g1, heap_listp) = 8
    BY <1>1, BlockFacts DEF Sound, InUse
  <2>2. Size(g2, heap_listp) = 8
    BY <1>2, BlockFacts DEF Sound, InUse
  <2> QED
    BY <2>1, <2>2 DEF After
<1>4. SameUse(g1, C1, g2, C2)
  BY <1>1, <1>2, <1>3 DEF SameUse
<1>5. C1 = C2 /\ SameTags(g1, g2, C1)
  BY <1>4, UseTellsTags
<1> QED
  BY <1>1, <1>2, <1>5 DEF TagAgree, TagTwins

-----------------------------------------------------------------------------
(* Two heaps that the package cannot tell from each other.                 *)

(* mm.c goes by the tags and the list, mm-firstfit.c by the tags. *)
Alike(h1, h2, B) ==
    /\ TagTwins(h1, h2, B) /\ ListOK(package, h1) /\ ListOK(package, h2)
    /\ package = "mm" => SameLinks(h1, h2, FreeIn(h1, B))

(* It returned the same, and cannot tell them still. *)
Agree(g1, g2) == (\E C : Alike(g1, g2, C)) /\ g1.ret = g2.ret

(* For mm.c they are twins. *)
LEMMA AlikeIsTwins ==
    ASSUME package = "mm", NEW h1, NEW h2, NEW B
    PROVE  Alike(h1, h2, B) <=> MmTwins(h1, h2, B)
<1>1. ASSUME Alike(h1, h2, B)
      PROVE  MmTwins(h1, h2, B)
  <2>1. /\ Sound(h1, B) /\ Sound(h2, B) /\ ListOK("mm", h1) /\ ListOK("mm", h2)
        /\ SameTags(h1, h2, B) /\ SameLinks(h1, h2, FreeIn(h1, B))
    BY <1>1 DEF Alike, TagTwins
  <2>2. Tidy(h1, B) /\ Tidy(h2, B)
    BY <2>1, MmIsTidy
  <2> QED
    BY <2>1, <2>2 DEF MmTwins
<1>2. ASSUME MmTwins(h1, h2, B)
      PROVE  Alike(h1, h2, B)
  <2>1. /\ Tidy(h1, B) /\ Tidy(h2, B) /\ SameTags(h1, h2, B)
        /\ SameLinks(h1, h2, FreeIn(h1, B))
    BY <1>2 DEF MmTwins
  <2>2. Sound(h1, B) /\ Sound(h2, B) /\ Neat(h1) /\ Neat(h2)
    BY <2>1 DEF Tidy, Neat
  <2> QED
    BY <2>1, <2>2 DEF Alike, TagTwins, ListOK
<1> QED
  BY <1>1, <1>2

(* So it agrees on what it does to both. *)
LEMMA MmAgreeIsAgree ==
    ASSUME package = "mm", NEW g1, NEW g2, MmAgree(g1, g2)
    PROVE  Agree(g1, g2)
BY AlikeIsTwins DEF MmAgree, Agree

(* mm-firstfit.c has an empty list. *)
LEMMA TagAgreeIsAgree ==
    ASSUME package = "mm-firstfit", NEW g1, NEW g2, TagAgree(g1, g2),
           ListOK(package, g1), ListOK(package, g2)
    PROVE  Agree(g1, g2)
BY DEF TagAgree, Agree, Alike

(* mm_malloc does the same to both. *)
LEMMA MallocAgrees ==
    ASSUME package \in {"mm", "mm-firstfit"}, NEW h1, NEW h2, NEW B, Alike(h1, h2, B),
           NEW size \in Nat \ {0},
           NEW g1, g1 = mm_malloc(h1, size), NEW g2, g2 = mm_malloc(h2, size)
    PROVE  Agree(g1, g2)
<1>1. CASE package = "mm"
  <2>1. g1 = Mm!mm_malloc(h1, size) /\ g2 = Mm!mm_malloc(h2, size)
    BY <1>1 DEF mm_malloc
  <2>2. MmTwins(h1, h2, B)
    BY <1>1, AlikeIsTwins
  <2>3. MmAgree(g1, g2)
    BY <2>1, <2>2, MmMallocSame
  <2> QED
    BY <1>1, <2>3, MmAgreeIsAgree
<1>2. CASE package = "mm-firstfit"
  <2>1. g1 = FirstFit!mm_malloc(h1, size) /\ g2 = FirstFit!mm_malloc(h2, size)
    BY <1>2 DEF mm_malloc
  <2>2. TagTwins(h1, h2, B) /\ Sound(h1, B) /\ Sound(h2, B)
    BY DEF Alike, TagTwins
  <2>3. TagAgree(g1, g2)
    BY <2>1, <2>2, FirstFitMallocSame
  <2>4. PICK n : n = Adjusted(size)
    OBVIOUS
  <2>5. ListOK(package, g1)
    <3>1. \/ ListOK(package, g1)
          \/ Returning(h1, g1, NULL)
      BY <2>2, <2>4, PackageAllocates DEF Alike
    <3>2. h1 \in Heaps /\ NULL \in Int
      BY <2>2 DEF Sound, Tiling, Bounds, NULL
    <3> QED
      BY <3>1, <3>2, ListReturns DEF Alike
  <2>6. ListOK(package, g2)
    <3>1. \/ ListOK(package, g2)
          \/ Returning(h2, g2, NULL)
      BY <2>2, <2>4, PackageAllocates DEF Alike
    <3>2. h2 \in Heaps /\ NULL \in Int
      BY <2>2 DEF Sound, Tiling, Bounds, NULL
    <3> QED
      BY <3>1, <3>2, ListReturns DEF Alike
  <2> QED
    BY <1>2, <2>3, <2>5, <2>6, TagAgreeIsAgree
<1> QED
  BY <1>1, <1>2

(* So does mm_free. *)
LEMMA FreeAgrees ==
    ASSUME package \in {"mm", "mm-firstfit"}, NEW h1, NEW h2, NEW B, Alike(h1, h2, B),
           NEW b \in InUse(h1, B) \ {heap_listp},
           NEW g1, g1 = mm_free(h1, b), NEW g2, g2 = mm_free(h2, b)
    PROVE  Agree(g1, g2)
<1>1. CASE package = "mm"
  <2>1. g1 = Mm!mm_free(h1, b) /\ g2 = Mm!mm_free(h2, b)
    BY <1>1 DEF mm_free
  <2>2. MmTwins(h1, h2, B)
    BY <1>1, AlikeIsTwins
  <2>3. MmAgree(g1, g2)
    BY <2>1, <2>2, MmFreeSame
  <2> QED
    BY <1>1, <2>3, MmAgreeIsAgree
<1>2. CASE package = "mm-firstfit"
  <2>1. g1 = FirstFit!mm_free(h1, b) /\ g2 = FirstFit!mm_free(h2, b)
    BY <1>2 DEF mm_free
  <2>2. /\ TagTwins(h1, h2, B) /\ Sound(h1, B) /\ Sound(h2, B) /\ SameTags(h1, h2, B)
        /\ ListOK(package, h1) /\ ListOK(package, h2)
    BY DEF Alike, TagTwins
  <2>3. TagAgree(g1, g2)
    BY <2>1, <2>2, FirstFitFreeSame
  <2>4. b \in InUse(h2, B) \ {heap_listp}
    BY <2>2, SameTagsSameUse
  <2>5. GaveBack(h1, B, b, g1)
    BY <2>2, PackageFrees
  <2>6. GaveBack(h2, B, b, g2)
    BY <2>2, <2>4, PackageFrees
  <2> QED
    BY <1>2, <2>3, <2>5, <2>6, TagAgreeIsAgree DEF GaveBack
<1> QED
  BY <1>1, <1>2

(* So does mm_realloc, however memcpy copies. *)
LEMMA ReallocAgrees ==
    ASSUME package \in {"mm", "mm-firstfit"}, Suited, NEW h1, NEW h2, NEW B, Alike(h1, h2, B),
           NEW ptr \in InUse(h1, B) \ {heap_listp}, NEW size \in Sizes,
           NEW o1 \in Memcpy, NEW g1, g1 = mm_realloc(h1, ptr, size, o1),
           NEW o2 \in Memcpy, NEW g2, g2 = mm_realloc(h2, ptr, size, o2)
    PROVE  Agree(g1, g2)
<1>1. PICK n : n = Adjusted(size)
  OBVIOUS
<1>2. size \in Nat \ {0} /\ size % 4 = 0
  BY SizesAreWords
<1>3. CASE package = "mm"
  <2>1. n <= CHUNKSIZE /\ o1 = "up" /\ o2 = "up"
    BY <1>1, <1>3 DEF Suited
  <2>2. g1 = Mm!mm_realloc(h1, ptr, size, "up") /\ g2 = Mm!mm_realloc(h2, ptr, size, "up")
    BY <1>3, <2>1 DEF mm_realloc
  <2>3. MmTwins(h1, h2, B)
    BY <1>3, AlikeIsTwins
  <2>4. Wanted(h1, B, ptr, size, n)
    BY <1>1, <1>2, <2>3 DEF Wanted, MmTwins
  <2>5. MmAgree(g1, g2)
    BY <2>1, <2>2, <2>3, <2>4, MmReallocSame
  <2> QED
    BY <1>3, <2>5, MmAgreeIsAgree
<1>4. CASE package = "mm-firstfit"
  <2>1. g1 = FirstFit!mm_realloc(h1, ptr, size) /\ g2 = FirstFit!mm_realloc(h2, ptr, size)
    BY <1>4 DEF mm_realloc
  <2>2. /\ TagTwins(h1, h2, B) /\ Sound(h1, B) /\ Sound(h2, B) /\ SameTags(h1, h2, B)
        /\ ListOK(package, h1) /\ ListOK(package, h2)
        /\ h1 \in Heaps /\ h2 \in Heaps /\ NULL \in Int /\ Exited \in Int
    BY DEF Alike, TagTwins, Sound, Tiling, Bounds, NULL, Exited
  <2>3. TagAgree(g1, g2)
    BY <1>2, <2>1, <2>2, FirstFitReallocSame
  <2>4. ptr \in InUse(h2, B) \ {heap_listp}
    BY <2>2, SameTagsSameUse
  <2>5. ListOK(package, g1)
    <3>1. \/ Resized(h1, B, ptr, size, n, g1)
          \/ \E r \in {NULL, Exited} : Returning(h1, g1, r)
      BY <1>1, <2>2, PackageReallocates
    <3> QED
      BY <2>2, <3>1, ListReturns DEF Resized
  <2>6. ListOK(package, g2)
    <3>1. \/ Resized(h2, B, ptr, size, n, g2)
          \/ \E r \in {NULL, Exited} : Returning(h2, g2, r)
      BY <1>1, <2>2, <2>4, PackageReallocates
    <3> QED
      BY <2>2, <3>1, ListReturns DEF Resized
  <2> QED
    BY <1>4, <2>3, <2>5, <2>6, TagAgreeIsAgree
<1> QED
  BY <1>3, <1>4

(* A trace starts the same, whatever the one before left in memory.        *)
LEMMA StartAgrees ==
    ASSUME package \in {"mm", "mm-firstfit"}, 16 + CHUNKSIZE <= MAX_HEAP,
           NEW h1 \in Heaps, package = "mm" \/ h1.free_listp = NULL,
           NEW h2 \in Heaps, package = "mm" \/ h2.free_listp = NULL,
           NEW g1, g1 = Started(h1), NEW g2, g2 = Started(h2)
    PROVE  Agree(g1, g2)
<1>1. CASE package = "mm"
  <2>1. g1 = Mm!mm_init(mem_reset_brk(h1)) /\ g2 = Mm!mm_init(mem_reset_brk(h2))
    BY <1>1 DEF Started, mm_init
  <2>2. MmAgree(g1, g2)
    BY <2>1, MmStartSame
  <2> QED
    BY <1>1, <2>2, MmAgreeIsAgree
<1>2. CASE package = "mm-firstfit"
  <2>1. g1 = FirstFit!mm_init(mem_reset_brk(h1)) /\ g2 = FirstFit!mm_init(mem_reset_brk(h2))
    BY <1>2 DEF Started, mm_init
  <2>2. TagAgree(g1, g2)
    BY <2>1, FirstFitStartSame
  <2>3. ListOK(package, g1)
    BY PackageStarts DEF Fresh
  <2>4. ListOK(package, g2)
    BY PackageStarts DEF Fresh
  <2> QED
    BY <1>2, <2>2, <2>3, <2>4, TagAgreeIsAgree
<1> QED
  BY <1>1, <1>2

(* What is between the tags of a block in use is nothing to either.        *)
LEMMA FilledIsAlike ==
    ASSUME package \in {"mm", "mm-firstfit"}, NEW h1, NEW h2, NEW B, Alike(h1, h2, B),
           NEW b \in InUse(h2, B), ListOK(package, h2),
           NEW g \in Heaps, g.mem_brk = h2.mem_brk, g.free_listp = h2.free_listp,
           ListOK(package, g),
           \A a \in Int : a \notin b .. After(h2, b) - 9 => GET(g, a) = GET(h2, a)
    PROVE  Alike(h1, g, B)
<1>1. TagTwins(h1, h2, B) /\ Sound(h1, B) /\ Sound(h2, B) /\ SameTags(h1, h2, B) /\ h1 \in Heaps
  BY DEF Alike, TagTwins, Sound, Tiling, Bounds
<1>2. b \in InUse(h1, B)
  BY <1>1, SameTagsSameUse
<1>3. CASE package = "mm"
  <2>1. MmTwins(h1, h2, B)
    BY <1>3, AlikeIsTwins
  <2>2. MmTwins(h1, g, B)
    BY <1>1, <1>2, <2>1, PayloadSame
  <2> QED
    BY <1>3, <2>2, AlikeIsTwins
<1>4. CASE package = "mm-firstfit"
  <2>1. /\ Sound(g, B) /\ InUse(g, B) = InUse(h2, B)
        /\ Keeps(h2, g, InUse(h2, B) \ {b}) /\ After(g, b) = After(h2, b)
    BY <1>1, PayloadWritten
  <2>2. SameUse(h1, B, g, B)
    <3>1. InUse(h1, B) = InUse(h2, B)
      BY <1>1, SameTagsSameUse
    <3>2. ASSUME NEW c \in InUse(h1, B)
          PROVE  After(h1, c) = After(g, c)
      <4>1. After(h1, c) = After(h2, c)
        BY <1>1 DEF SameTags, InUse
      <4>2. After(g, c) = After(h2, c)
        BY <2>1, <3>1, <3>2 DEF Keeps
      <4> QED
        BY <4>1, <4>2
    <3> QED
      BY <1>1, <2>1, <3>1, <3>2 DEF SameUse, SameTags
  <2>3. SameTags(h1, g, B)
    BY <2>2, UseTellsTags
  <2> QED
    BY <1>1, <1>4, <2>1, <2>3 DEF Alike, TagTwins
<1> QED
  BY <1>3, <1>4

(* What the driver writes into the block that it got is nothing to it.     *)
LEMMA MemsetAgrees ==
    ASSUME package \in {"mm", "mm-firstfit"}, NEW g1, NEW g2, Agree(g1, g2),
           NEW h, NEW S, NEW n, Serves(h, S, g2, n), NEW i \in Ids, NEW size \in Sizes,
           n = Adjusted(size), NEW f, f = memset(g2, g2.ret, i, size)
    PROVE  Agree(g1, f)
<1>1. PICK C : Alike(g1, g2, C)
  BY DEF Agree
<1>2. /\ Sound(g2, C) /\ Tiling(g2, C) /\ g2 \in Heaps /\ ListOK(package, g2)
      /\ g1.ret = g2.ret
  BY <1>1 DEF Alike, TagTwins, Sound, Tiling, Bounds, Agree
<1>3. PICK p : p = g2.ret
  OBVIOUS
<1>4. p \in InUse(g2, C) /\ p \in Nat /\ After(g2, p) \in Nat /\ p + n <= After(g2, p)
  <2>1. PICK D : /\ Sound(g2, D) /\ p \in InUse(g2, D) /\ p \in Nat
                 /\ After(g2, p) \in Nat /\ p + n <= After(g2, p)
    BY <1>3 DEF Serves
  <2>2. C = D
    BY <1>2, <2>1, TilingsAreOne DEF Sound
  <2> QED
    BY <2>1, <2>2
<1>5. /\ f \in Heaps /\ f.mem_brk = g2.mem_brk /\ f.free_listp = g2.free_listp
      /\ f.ret = g2.ret
      /\ \A a : GET(f, a) = IF a \in Storage \cap (p .. p + size - 1)
                            THEN Filler(i) ELSE GET(g2, a)
  BY <1>2, <1>3, <1>4, MemsetWrites
<1>6. size \in Nat /\ n \in Nat /\ size + 8 <= n
  BY SizesAreWords, AdjustedIsEnough DEF OVERHEAD
<1>7. \A a \in Int : a \notin p .. After(g2, p) - 9 => GET(f, a) = GET(g2, a)
  BY <1>4, <1>5, <1>6
<1>8. ListOK(package, f)
  BY <1>2, ListIsFilled
<1>9. Alike(g1, f, C)
  BY <1>1, <1>2, <1>4, <1>5, <1>7, <1>8, FilledIsAlike
<1> QED
  BY <1>2, <1>5, <1>9 DEF Agree
=============================================================================
