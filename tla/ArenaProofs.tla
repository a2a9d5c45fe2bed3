----------------------------- MODULE ArenaProofs -----------------------------
(***************************************************************************)
(* What is proved of the arena that the allocators implement: the client's *)
(* extents never overlap and never leave it.                               *)
(***************************************************************************)
EXTENDS Arena, TLAPS

-----------------------------------------------------------------------------
Extents == [lo : Int, hi : Int]

ArenaTyped ==
    /\ extents \in [Ids -> Extents]
    /\ top \in Int /\ Base <= top

ArenaIInv == ArenaTyped /\ ExtentsApart

(* An extent that lies in the arena and meets no other may be held.        *)
LEMMA HoldKeepsApart ==
    ASSUME ArenaAssumption, ArenaIInv,
           NEW i \in Ids, NEW e \in Extents, NEW t \in Int, Hold(i, e, t),
           top <= t, t <= Limit,
           Base <= e.lo, e.lo < e.hi, e.hi <= t,
           \A j \in Holders \ {i} : extents[j].hi <= e.lo \/ e.hi <= extents[j].lo
    PROVE  ArenaIInv'
<1>1. /\ extents' = [extents EXCEPT ![i] = e]
      /\ top' = t
  BY DEF Hold
<1>2. ArenaTyped'
  BY <1>1 DEF ArenaIInv, ArenaTyped, ArenaAssumption
<1>3. \A j \in Ids : extents'[j] = IF j = i THEN e ELSE extents[j]
  BY <1>1 DEF ArenaIInv, ArenaTyped
<1>4. Holders' \subseteq Holders \cup {i}
  BY <1>3 DEF Holders
<1>5. /\ \A j \in Holders : extents[j] \in Extents
      /\ top \in Int /\ Base \in Nat
  BY DEF Holders, ArenaIInv, ArenaTyped, ArenaAssumption
<1>6. \A j \in Holders' :
        Base <= extents'[j].lo /\ extents'[j].lo < extents'[j].hi /\ extents'[j].hi <= t
  <2> SUFFICES ASSUME NEW j \in Holders'
               PROVE  /\ Base <= extents'[j].lo
                      /\ extents'[j].lo < extents'[j].hi
                      /\ extents'[j].hi <= t
    OBVIOUS
  <2>1. CASE j = i
    BY <2>1, <1>3
  <2>2. CASE j # i
    <3>1. j \in Holders /\ j \in Ids
      BY <2>2, <1>4 DEF Holders
    <3> QED
      BY <3>1, <2>2, <1>3, <1>5 DEF ArenaIInv, ExtentsApart, Extents
  <2> QED
    BY <2>1, <2>2
<1>7. \A j, k \in Holders' :
        j # k => extents'[j].hi <= extents'[k].lo \/ extents'[k].hi <= extents'[j].lo
  <2> SUFFICES ASSUME NEW j \in Holders', NEW k \in Holders', j # k
               PROVE  extents'[j].hi <= extents'[k].lo \/ extents'[k].hi <= extents'[j].lo
    OBVIOUS
  <2>1. j \in Ids /\ k \in Ids
    BY DEF Holders
  <2> QED
    BY <2>1, <1>3, <1>4 DEF ArenaIInv, ExtentsApart
<1> QED
  BY <1>1, <1>2, <1>6, <1>7 DEF ArenaIInv, ExtentsApart

(* A gap lies in the arena and meets none of the extents it was left by.   *)
LEMMA GapIsFree ==
    ASSUME NEW hs, hs \subseteq Extents, NEW t \in Int, NEW g \in Gaps(hs, t),
           ArenaAssumption, Base <= t,
           \A e \in hs : Base <= e.lo /\ e.lo < e.hi /\ e.hi <= t
    PROVE  /\ g.lo \in Int /\ g.hi \in Int
           /\ Base <= g.lo /\ g.lo < g.hi /\ g.hi <= t
           /\ \A e \in hs : e.hi <= g.lo \/ g.hi <= e.lo
<1>1. /\ g.lo \in {Base} \cup {e.hi : e \in hs}
      /\ g.hi \in {t} \cup {e.lo : e \in hs}
      /\ g.lo < g.hi
      /\ \A e \in hs : e.hi <= g.lo \/ g.hi <= e.lo
  BY DEF Gaps
<1>2. \A e \in hs : e.lo \in Int /\ e.hi \in Int
  BY DEF Extents
<1>3. g.lo \in Int /\ Base <= g.lo
  BY <1>1, <1>2 DEF ArenaAssumption
<1>4. g.hi \in Int /\ g.hi <= t
  BY <1>1, <1>2 DEF ArenaAssumption
<1> QED
  BY <1>1, <1>3, <1>4

(* The extents that are held lie between the base and the break.           *)
LEMMA HeldInside ==
    ASSUME ArenaAssumption, ArenaIInv
    PROVE  /\ Held \subseteq Extents
           /\ \A e \in Held : Base <= e.lo /\ e.lo < e.hi /\ e.hi <= top
           /\ \A j \in Holders : extents[j] \in Held
BY DEF Held, Holders, ArenaIInv, ArenaTyped, ExtentsApart

(* What is taken of a gap stays in it.                                     *)
LEMMA TakenInside ==
    ASSUME ArenaAssumption, NEW need \in Needs,
           NEW g, g.lo \in Int, g.hi \in Int, g.lo < g.hi
    PROVE  /\ Taken(g, need) \in Extents
           /\ Taken(g, need).lo = g.lo
           /\ g.lo < Taken(g, need).hi /\ Taken(g, need).hi <= g.hi
BY DEF Taken, Length, Extents, ArenaAssumption

(* A place is free, and within the break it comes with.                    *)
LEMMA PlaceIsFree ==
    ASSUME ArenaAssumption, ArenaIInv, NEW need \in Needs, NEW p \in Places(need)
    PROVE  /\ p.at \in Extents /\ p.top \in Int
           /\ top <= p.top /\ p.top <= Limit
           /\ Base <= p.at.lo /\ p.at.lo < p.at.hi /\ p.at.hi <= p.top
           /\ \A j \in Holders : extents[j].hi <= p.at.lo \/ p.at.hi <= extents[j].lo
<1> DEFINE grown == top + Growth(need)
<1>1. /\ grown \in Int /\ top < grown
      /\ top \in Int /\ Base <= top /\ top <= Limit /\ Limit \in Nat
  BY DEF Growth, ArenaAssumption, ArenaIInv, ArenaTyped, ExtentsApart
<1>2. PICK t, g :
        /\ t \in {top, grown} /\ g \in Gaps(Held, t)
        /\ p = [at |-> Taken(g, need), top |-> t] /\ t <= Limit
  <2>1. CASE p \in {[at |-> Taken(g, need), top |-> top] :
                       g \in {g \in Gaps(Held, top) : Length(g) >= need}}
    BY <2>1, <1>1
  <2>2. CASE p \in {[at |-> Taken(g, need), top |-> grown] :
                       g \in {g \in Gaps(Held, grown) : g.hi = grown /\ grown <= Limit}}
    BY <2>2
  <2> QED
    BY <2>1, <2>2 DEF Places
<1> HIDE DEF grown
<1>3. t \in Int /\ top <= t /\ Base <= t
  BY <1>1, <1>2 DEF ArenaAssumption
<1>4. \A e \in Held : Base <= e.lo /\ e.lo < e.hi /\ e.hi <= t
  <2> SUFFICES ASSUME NEW e \in Held
               PROVE  Base <= e.lo /\ e.lo < e.hi /\ e.hi <= t
    OBVIOUS
  <2>1. e.hi \in Int /\ Base <= e.lo /\ e.lo < e.hi /\ e.hi <= top
    BY HeldInside DEF Extents
  <2> QED
    BY <2>1, <1>1, <1>3
<1>5. /\ g.lo \in Int /\ g.hi \in Int
      /\ Base <= g.lo /\ g.lo < g.hi /\ g.hi <= t
      /\ \A e \in Held : e.hi <= g.lo \/ g.hi <= e.lo
  BY <1>2, <1>3, <1>4, GapIsFree, HeldInside
<1>6. /\ p.at \in Extents /\ p.at.lo = g.lo
      /\ g.lo < p.at.hi /\ p.at.hi <= g.hi
      /\ p.top = t
  BY <1>2, <1>5, TakenInside
<1>7. p.at.lo \in Int /\ p.at.hi \in Int
  BY <1>6 DEF Extents
<1>8. ASSUME NEW j \in Holders
      PROVE  extents[j].hi <= p.at.lo \/ p.at.hi <= extents[j].lo
  <2>1. extents[j] \in Held /\ extents[j].lo \in Int /\ extents[j].hi \in Int
    BY HeldInside DEF Extents
  <2>2. extents[j].hi <= g.lo \/ g.hi <= extents[j].lo
    BY <2>1, <1>5
  <2> QED
    BY <2>1, <2>2, <1>5, <1>6, <1>7
<1> QED
  BY <1>1, <1>2, <1>3, <1>5, <1>6, <1>7, <1>8 DEF ArenaAssumption

(* An extent that is put at a place leaves the extents apart.              *)
LEMMA GiveKeepsApart ==
    ASSUME ArenaAssumption, ArenaIInv, NEW need \in Needs, NEW i \in Ids,
           NEW p \in Places(need), Hold(i, p.at, p.top)
    PROVE  ArenaIInv'
<1>1. \A j \in Holders \ {i} :
        extents[j].hi <= p.at.lo \/ p.at.hi <= extents[j].lo
  BY PlaceIsFree
<1> QED
  BY <1>1, PlaceIsFree, HoldKeepsApart

(* So does one that changes within the room it has.                        *)
LEMMA FitKeepsApart ==
    ASSUME ArenaAssumption, ArenaIInv, NEW need \in Needs, NEW i \in Ids, Fit(i, need)
    PROVE  ArenaIInv'
<1> SUFFICES ASSUME i \in Holders, NEW room, room \in Rooms(i), NEW e,
                    e \in Around(i, room, need), Hold(i, e, top)
             PROVE  ArenaIInv'
  BY DEF Fit, Holders
<1> DEFINE others == Held \ {extents[i]}
<1>2. /\ top \in Int /\ Base <= top /\ top <= Limit /\ Base \in Int
      /\ extents[i].lo \in Int /\ extents[i].hi \in Int
  BY DEF ArenaIInv, ArenaTyped, ExtentsApart, ArenaAssumption, Extents
<1>3. /\ room \in Gaps(others, top)
      /\ room.lo <= extents[i].lo /\ extents[i].hi <= room.hi
  BY DEF Rooms
<1>4. /\ others \subseteq Extents
      /\ \A f \in others : Base <= f.lo /\ f.lo < f.hi /\ f.hi <= top
  BY HeldInside
<1> HIDE DEF others
<1>5. /\ room.lo \in Int /\ room.hi \in Int
      /\ Base <= room.lo /\ room.lo < room.hi /\ room.hi <= top
      /\ \A f \in others : f.hi <= room.lo \/ room.hi <= f.lo
  BY <1>2, <1>3, <1>4, GapIsFree
<1>6. /\ e.lo \in {extents[i].lo, room.lo}
      /\ e.hi \in {extents[i].hi, extents[i].lo + need, room.hi}
      /\ e.hi - e.lo >= need
      /\ e.hi = room.hi \/ room.hi - e.hi >= Smallest
  BY DEF Around, Length
<1>7. e = [lo |-> e.lo, hi |-> e.hi]
  BY DEF Around
<1>8. need \in Nat \ {0} /\ Smallest \in Nat
  BY DEF ArenaAssumption
<1>9. /\ e.lo \in Int /\ e.hi \in Int
      /\ room.lo <= e.lo /\ e.lo < e.hi /\ e.hi <= room.hi
  BY <1>2, <1>3, <1>5, <1>6, <1>8
<1>10. e \in Extents
  BY <1>7, <1>9 DEF Extents
<1>11. ASSUME NEW j \in Holders \ {i}
       PROVE  extents[j].hi <= e.lo \/ e.hi <= extents[j].lo
  <2>1. extents[j] \in Held /\ extents[j].lo \in Int /\ extents[j].hi \in Int
    BY HeldInside DEF Extents
  <2>2. extents[j].lo < extents[j].hi
    BY HeldInside
  <2>3. extents[i].hi <= extents[j].lo \/ extents[j].hi <= extents[i].lo
    BY DEF ArenaIInv, ExtentsApart
  <2>4. extents[i].lo < extents[i].hi
    BY HeldInside
  <2>5. extents[j] # extents[i]
    BY <1>2, <2>1, <2>3, <2>4
  <2>6. extents[j].hi <= room.lo \/ room.hi <= extents[j].lo
    BY <1>5, <2>1, <2>5 DEF others
  <2> QED
    BY <1>5, <1>9, <2>1, <2>6
<1> QED
  BY <1>2, <1>5, <1>9, <1>10, <1>11, HoldKeepsApart

(* So does the last one when it grows with the break.                      *)
LEMMA StretchKeepsApart ==
    ASSUME ArenaAssumption, ArenaIInv, NEW need \in Needs, NEW i \in Ids, Stretch(i, need)
    PROVE  ArenaIInv'
<1> DEFINE e == [extents[i] EXCEPT !.hi = extents[i].lo + need]
<1>1. /\ i \in Holders /\ extents[i].hi = top
      /\ top + Chunk <= Limit /\ extents[i].lo + need <= top + Chunk
      /\ Hold(i, e, top + Chunk)
  BY DEF Stretch, IsLast
<1>2. /\ top \in Int /\ Base \in Int
      /\ need \in Nat \ {0} /\ Chunk \in Nat \ {0}
      /\ extents[i] \in Extents
  BY DEF ArenaIInv, ArenaTyped, ArenaAssumption
<1>3. /\ e \in Extents /\ e.lo = extents[i].lo /\ e.hi = extents[i].lo + need
      /\ e.lo \in Int
  BY <1>2 DEF Extents
<1>4. Base <= e.lo
  BY <1>1, <1>3 DEF ArenaIInv, ExtentsApart
<1>5. ASSUME NEW j \in Holders \ {i}
      PROVE  extents[j].hi <= e.lo \/ e.hi <= extents[j].lo
  <2>1. extents[j].lo \in Int /\ extents[j].hi \in Int
    BY HeldInside DEF Extents
  <2>2. extents[j].lo < extents[j].hi /\ extents[j].hi <= top
    BY DEF ArenaIInv, ExtentsApart
  <2>3. extents[i].hi <= extents[j].lo \/ extents[j].hi <= extents[i].lo
    BY <1>1 DEF ArenaIInv, ExtentsApart
  <2> QED
    BY <1>1, <1>2, <1>3, <2>1, <2>2, <2>3
<1> HIDE DEF e
<1> QED
  BY <1>1, <1>2, <1>3, <1>4, <1>5, HoldKeepsApart

(* To give an extent back disturbs no other.                               *)
LEMMA TakeBackKeepsApart ==
    ASSUME ArenaAssumption, ArenaIInv, NEW i \in Ids, TakeBack(i)
    PROVE  ArenaIInv'
<1>1. extents' = [extents EXCEPT ![i] = None] /\ top' = top
  BY DEF TakeBack, Hold
<1>2. \A j \in Ids : extents'[j] = IF j = i THEN None ELSE extents[j]
  BY <1>1 DEF ArenaIInv, ArenaTyped
<1>3. ArenaTyped'
  BY <1>1 DEF ArenaIInv, ArenaTyped, None, Extents
<1>4. \A j \in Holders' : j \in Holders /\ extents'[j] = extents[j]
  BY <1>2 DEF Holders
<1> QED
  BY <1>1, <1>3, <1>4 DEF ArenaIInv, ExtentsApart

(* Where nothing is held, nothing overlaps.                                *)
LEMMA EmptyArenaIsApart ==
    ASSUME ArenaAssumption
    PROVE  extents = [i \in Ids |-> None] /\ top = Base + Chunk => ArenaIInv
BY DEF ArenaAssumption, ArenaIInv, ArenaTyped, ExtentsApart, Extents, None, Holders

(* Whatever the client asks for and wherever the arena puts it, extents    *)
(* never overlap and never leave the arena.  mm.c and mm-firstfit.c keep   *)
(* this promise as implementations of the arena (mdriver.c:415-424 tests   *)
(* it of the answers of one trace).                                        *)
THEOREM ArenaKeepsExtentsApart ==
    ASSUME ArenaAssumption
    PROVE  Spec => []ExtentsApart
<1>1. Init => ArenaIInv
  BY EmptyArenaIsApart DEF Init
<1>2. ArenaIInv /\ [Next]_arenaVars => ArenaIInv'
  <2> SUFFICES ASSUME ArenaIInv, [Next]_arenaVars
               PROVE  ArenaIInv'
    OBVIOUS
  <2>1. ASSUME NEW i \in Ids, NEW need \in Needs, Give(i, need)
        PROVE  ArenaIInv'
    BY <2>1, GiveKeepsApart DEF Give
  <2>2. ASSUME NEW i \in Ids, NEW need \in Needs, Fit(i, need)
        PROVE  ArenaIInv'
    BY <2>2, FitKeepsApart
  <2>3. ASSUME NEW i \in Ids, NEW need \in Needs, Stretch(i, need)
        PROVE  ArenaIInv'
    BY <2>3, StretchKeepsApart
  <2>4. ASSUME NEW i \in Ids, NEW need \in Needs, Move(i, need)
        PROVE  ArenaIInv'
    BY <2>4, GiveKeepsApart DEF Move
  <2>5. ASSUME NEW i \in Ids, NEW need \in Needs, Refuse(i, need)
        PROVE  ArenaIInv'
    BY <2>5 DEF Refuse, ArenaIInv, ArenaTyped, ExtentsApart, Holders
  <2>6. ASSUME NEW i \in Ids, TakeBack(i)
        PROVE  ArenaIInv'
    BY <2>6, TakeBackKeepsApart
  <2>7. CASE StartOver
    <3>1. (extents = [i \in Ids |-> None] /\ top = Base + Chunk => ArenaIInv)'
      BY EmptyArenaIsApart DEF ArenaAssumption, ArenaIInv, ArenaTyped, ExtentsApart,
                               Extents, None, Holders
    <3> QED
      BY <2>7, <3>1 DEF StartOver
  <2>8. CASE UNCHANGED arenaVars
    BY <2>8 DEF arenaVars, ArenaIInv, ArenaTyped, ExtentsApart, Holders
  <2> QED
    BY <2>1, <2>2, <2>3, <2>4, <2>5, <2>6, <2>7, <2>8 DEF Next, Request
<1>3. ArenaIInv => ExtentsApart
  BY DEF ArenaIInv
<1> QED
  BY <1>1, <1>2, <1>3, PTL DEF Spec
=============================================================================
