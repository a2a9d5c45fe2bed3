-------------------------------- MODULE Arena --------------------------------
(***************************************************************************)
(* What an allocator promises its client, told without tags and lists.     *)
(*                                                                         *)
(* Memory is a line of addresses from Base to a break, top.  The client    *)
(* holds extents [lo, hi) of it, and the stretches between them are the    *)
(* gaps.  Room comes from a gap whenever one is large enough; only when    *)
(* none is does the arena grow, and only when it cannot grow is a request  *)
(* refused.  Nothing else takes room: what is given back joins the gaps    *)
(* beside it, and no room is ever lost.                                    *)
(***************************************************************************)
EXTENDS Integers

CONSTANTS
    Ids,        \* what the client calls its extents
    Needs,      \* the lengths it needs
    Base,       \* where the first extent starts
    Limit,      \* how far the break may go
    Chunk,      \* the least by which the arena grows
    Smallest    \* no extent and no gap is smaller

VARIABLES
    lowest,     \* room is always taken from the lowest gap that fits
    stays,      \* an extent that can get another size where it is does not move
    extents,    \* the extent each id holds, or None
    top,        \* the break
    refused     \* the last request was refused

arenaVars == <<lowest, stays, extents, top, refused>>

None == [lo |-> 0, hi |-> 0]
Length(e) == e.hi - e.lo
Holders == {i \in Ids : extents[i] # None}
Held == {extents[i] : i \in Holders}

(* The gaps that the extents hs leave below the break t. *)
Gaps(hs, t) ==
    {g \in [lo : {Base} \cup {e.hi : e \in hs}, hi : {t} \cup {e.lo : e \in hs}] :
        g.lo < g.hi /\ \A e \in hs : e.hi <= g.lo \/ g.hi <= e.lo}

(* The low end of gap g; a rest too small to be a gap goes with it. *)
Taken(g, need) ==
    [lo |-> g.lo, hi |-> IF Length(g) - need >= Smallest THEN g.lo + need ELSE g.hi]

Growth(need) == IF need > Chunk THEN need ELSE Chunk

(* Where a new extent may be, and where the break is then. *)
Places(need) ==
    LET fitting == {g \in Gaps(Held, top) : Length(g) >= need}
        best == {g \in fitting : lowest => \A f \in fitting : g.lo <= f.lo}
        grown == top + Growth(need)
        last == {g \in Gaps(Held, grown) : g.hi = grown /\ grown <= Limit}
    IN  IF fitting # {} THEN {[at |-> Taken(g, need), top |-> top] : g \in best}
        ELSE {[at |-> Taken(g, need), top |-> grown] : g \in last}

(* The extent of i with the gaps on both its sides. *)
Rooms(i) ==
    {g \in Gaps(Held \ {extents[i]}, top) :
        g.lo <= extents[i].lo /\ extents[i].hi <= g.hi}

(* The extents around that of i, within room, that hold need. *)
Around(i, room, need) ==
    {f \in [lo : {extents[i].lo, room.lo},
            hi : {extents[i].hi, extents[i].lo + need, room.hi}] :
        /\ Length(f) >= need
        /\ f.hi = room.hi \/ room.hi - f.hi >= Smallest}

CanStay(i, need) == \E room \in Rooms(i) : Length(room) >= need

(* The extent is too large for need, by less than a gap. *)
Loose(i, need) == Length(extents[i]) \in need + 1 .. need + Smallest - 1

IsLast(i) == extents[i].hi = top
-----------------------------------------------------------------------------
Init ==
    /\ lowest \in BOOLEAN /\ stays \in BOOLEAN
    /\ extents = [i \in Ids |-> None]
    /\ top = Base + Chunk
    /\ refused = FALSE

Hold(i, e, t) ==
    /\ extents' = [extents EXCEPT ![i] = e]
    /\ top' = t
    /\ UNCHANGED <<lowest, stays, refused>>

Give(i, need) ==
    /\ extents[i] = None
    /\ \E p \in Places(need) : Hold(i, p.at, p.top)

(* An extent gets another length where it is. *)
Fit(i, need) ==
    /\ extents[i] # None
    /\ \E room \in Rooms(i) : \E e \in Around(i, room, need) : Hold(i, e, top)

(* The last extent grows past the break. *)
Stretch(i, need) ==
    /\ i \in Holders /\ IsLast(i) /\ ~CanStay(i, need)
    /\ top + Chunk <= Limit
    /\ extents[i].lo + need <= top + Chunk
    /\ Hold(i, [extents[i] EXCEPT !.hi = extents[i].lo + need], top + Chunk)

(* An extent is given up for a new one, which may not use its room.  An    *)
(* arena where extents stay moves a loose one all the same.                *)
Move(i, need) ==
    /\ extents[i] # None
    /\ stays => Loose(i, need) \/ ~(CanStay(i, need) \/ IsLast(i))
    /\ \E p \in Places(need) : Hold(i, p.at, p.top)

TakeBack(i) == extents[i] # None /\ Hold(i, None, top)

(* A request is refused when there is no place for it.  One that stays     *)
(* where it can does not look for another place once it has to grow the    *)
(* arena.                                                                  *)
Refuse(i, need) ==
    /\ refused' = TRUE
    /\ \/ Places(need) = {}
       \/ stays /\ extents[i] # None /\ IsLast(i) /\ top + Chunk > Limit
    /\ UNCHANGED <<lowest, stays, extents, top>>

StartOver ==
    /\ extents' = [i \in Ids |-> None]
    /\ top' = Base + Chunk
    /\ refused' = FALSE
    /\ UNCHANGED <<lowest, stays>>

(* A request is about one extent; the others stay as they are.             *)
Request(i, need) ==
    \/ Fit(i, need) \/ Stretch(i, need)
    \/ Give(i, need) \/ Move(i, need) \/ Refuse(i, need)

Next ==
    \/ StartOver
    \/ ~refused /\ \E i \in Ids : TakeBack(i)
    \/ /\ ~refused
       /\ \E i \in Ids :
             /\ \A j \in Ids : j # i => extents'[j] = extents[j]
             /\ \E need \in Needs : Request(i, need)

Spec == Init /\ [][Next]_arenaVars
-----------------------------------------------------------------------------
ArenaAssumption ==
    /\ Needs \subseteq Nat \ {0}
    /\ Base \in Nat \ {0} /\ Chunk \in Nat \ {0} /\ Smallest \in Nat
    /\ Limit \in Nat /\ Base + Chunk <= Limit

(* No two of the client's extents share an address, and all lie between    *)
(* the base and the break, which keeps to its limit.                       *)
ExtentsApart ==
    /\ top <= Limit
    /\ \A i \in Holders :
          Base <= extents[i].lo /\ extents[i].lo < extents[i].hi /\ extents[i].hi <= top
    /\ \A i, j \in Holders :
          i # j => extents[i].hi <= extents[j].lo \/ extents[j].hi <= extents[i].lo
=============================================================================
