---------------------------- MODULE ThrlabProofs ----------------------------
(***************************************************************************)
(* What every action of the desk preserves, for any number of visitors,    *)
(* barbers and chairs, whoever calls it.  AnyShopProofs and                *)
(* BarbershopProofs build on these lemmas.                                 *)
(***************************************************************************)
EXTENDS Thrlab, FiniteSetTheorems, TLAPS

(* How often v is a value of f. *)
Count(f, D, v) == Cardinality({x \in D : f[x] = v})

(* The customers of a day and the rooms of a shop are finitely many. *)
LEMMA FiniteActors ==
    /\ IsFiniteSet(Customers)
    /\ IsFiniteSet(Rooms)
  BY ThrlabAssumption, FS_Interval DEF Customers, Rooms

(* A count over a finite domain is a natural number. *)
LEMMA CountType ==
  ASSUME NEW D, IsFiniteSet(D), NEW f, NEW v
  PROVE  Count(f, D, v) \in Nat
<1>1. {x \in D : f[x] = v} \in SUBSET D
  OBVIOUS
<1> QED
  BY <1>1, FS_Subset, FS_CardinalityType DEF Count

(* A value that occurs is counted, and a second occurrence too. *)
LEMMA CountPositive ==
  ASSUME NEW D, IsFiniteSet(D), NEW f, NEW x \in D
  PROVE  /\ Count(f, D, f[x]) >= 1
         /\ \A y \in D : y # x /\ f[y] = f[x] => Count(f, D, f[x]) >= 2
<1> DEFINE S == {z \in D : f[z] = f[x]}
<1>1. IsFiniteSet(S)
  BY FS_Subset, S \in SUBSET D
<1>2. IsFiniteSet(S \ {x}) /\ Cardinality(S) = Cardinality(S \ {x}) + 1
  <2>1. x \in S
    OBVIOUS
  <2> HIDE DEF S
  <2>2. Cardinality(S) \in Nat
    BY <1>1, FS_CardinalityType
  <2>3. IsFiniteSet(S \ {x}) /\ Cardinality(S \ {x}) = Cardinality(S) - 1
    BY <1>1, <2>1, FS_RemoveElement
  <2> QED
    BY <2>2, <2>3
<1>3. Cardinality(S \ {x}) \in Nat
  BY <1>2, FS_CardinalityType
<1>4. ASSUME NEW y \in D, y # x, f[y] = f[x]
      PROVE  Cardinality(S \ {x}) # 0
  BY <1>2, <1>4, FS_EmptySet, y \in S \ {x}
<1>5. Count(f, D, f[x]) = Cardinality(S)
  BY DEF Count
<1>6. Count(f, D, f[x]) >= 1
  BY <1>2, <1>3, <1>5
<1>7. ASSUME NEW y \in D, y # x, f[y] = f[x]
      PROVE  Count(f, D, f[x]) >= 2
  <2>1. Cardinality(S \ {x}) # 0
    BY <1>4, <1>7
  <2> HIDE DEF S
  <2> QED
    BY <1>2, <1>3, <1>5, <2>1
<1> QED
  BY <1>6, <1>7

(* Changing one value moves one unit from the old value's count to the     *)
(* new one's.                                                              *)
LEMMA Recount ==
  ASSUME NEW D, IsFiniteSet(D), NEW f, NEW x \in D, NEW b,
         f = [z \in D |-> f[z]], b # f[x],
         NEW g, g = [f EXCEPT ![x] = b]
  PROVE  /\ Count(g, D, b) = Count(f, D, b) + 1
         /\ Count(g, D, f[x]) = Count(f, D, f[x]) - 1
         /\ \A v : v # b /\ v # f[x] => Count(g, D, v) = Count(f, D, v)
<1> DEFINE S(v) == {z \in D : f[z] = v}
           T(v) == {z \in D : g[z] = v}
<1>1. \A v : IsFiniteSet(S(v))
  BY FS_Subset, \A v : S(v) \in SUBSET D
<1>2. T(b) = S(b) \cup {x} /\ x \notin S(b)
  OBVIOUS
<1>3. T(f[x]) = S(f[x]) \ {x} /\ x \in S(f[x])
  OBVIOUS
<1>4. \A v : v # b /\ v # f[x] => T(v) = S(v)
  OBVIOUS
<1>5. \A v : Count(f, D, v) = Cardinality(S(v)) /\ Count(g, D, v) = Cardinality(T(v))
  BY DEF Count
<1> HIDE DEF S, T
<1>6. Cardinality(T(b)) = Cardinality(S(b)) + 1
  BY <1>1, <1>2, FS_AddElement
<1>7. Cardinality(T(f[x])) = Cardinality(S(f[x])) - 1
  BY <1>1, <1>3, FS_RemoveElement
<1> QED
  BY <1>4, <1>5, <1>6, <1>7

(***************************************************************************)
(* The inductive invariant of the desk.                                    *)
(***************************************************************************)

(* Where the door is says which customers are in the tables, who has a     *)
(* thread, and who holds the mutex.                                        *)
DoorAgrees ==
    /\ mtx = "door" <=> door \in {"create", "count"}
    /\ \A c \in Customers : statuses[c] = "absent" <=> c >= customer_count
    /\ \A c \in Customers : thread[c] = "none" <=>
         \/ c >= customer_count
         \/ c = customer_count - 1 /\ door \in {"create", "failing"}
    /\ door \in {"create", "count", "failing"} =>
         customer_count > 0 /\ statuses[customer_count - 1] = "pending"
    /\ door \in {"join", "closed"} => customer_count = visitors
    /\ door = "closed" => \A c \in Customers : thread[c] = "joined"

DeskInv == ThrlabTypeOK /\ CountsAgree /\ RoomsAgree /\ DoorAgrees

(* The counters in terms of Count. *)
Counted ==
    /\ num_pending + Uncounted = Count(statuses, Customers, "pending")
    /\ num_waiting = Count(statuses, Customers, "waiting")
    /\ num_cutting = Count(statuses, Customers, "cutting")

(* The two forms say the same. *)
LEMMA CountsAreCounted == CountsAgree <=> Counted
  BY DEF CountsAgree, Counted, Count, With

(* Before the first customer all counts are zero. *)
LEMMA DeskInit == ThrlabInit => DeskInv
<1> SUFFICES ASSUME ThrlabInit PROVE DeskInv
  OBVIOUS
<1> USE ThrlabAssumption
<1>1. ThrlabTypeOK
  BY DEF ThrlabInit, ThrlabTypeOK, Statuses
<1>2. CountsAgree
  <2>1. With("pending") = {} /\ With("waiting") = {} /\ With("cutting") = {}
    BY DEF ThrlabInit, With
  <2>2. Uncounted = 0
    BY DEF ThrlabInit, Uncounted
  <2> QED
    BY <2>1, <2>2, FS_EmptySet DEF ThrlabInit, CountsAgree
<1>3. RoomsAgree
  BY DEF ThrlabInit, RoomsAgree, With
<1>4. DoorAgrees
  BY DEF ThrlabInit, DoorAgrees, Customers
<1> QED
  BY <1>1, <1>2, <1>3, <1>4 DEF DeskInv

(* The same of the next state. *)
LEMMA CountsAreCountedNext == CountsAgree' <=> Counted'
  BY DEF CountsAgree, Counted, Count, With

(* One customer's status changes. *)
Moves(c, s) == statuses' = [statuses EXCEPT ![c] = s]

(* What becomes of the three counts when one customer's status changes. *)
LEMMA StatusMoves ==
  ASSUME ThrlabTypeOK, NEW c \in Customers, NEW s, s # statuses[c],
         Moves(c, s)
  PROVE  /\ Count(statuses', Customers, "pending") =
              Count(statuses, Customers, "pending")
                + (IF s = "pending" THEN 1 ELSE 0)
                - (IF statuses[c] = "pending" THEN 1 ELSE 0)
         /\ Count(statuses', Customers, "waiting") =
              Count(statuses, Customers, "waiting")
                + (IF s = "waiting" THEN 1 ELSE 0)
                - (IF statuses[c] = "waiting" THEN 1 ELSE 0)
         /\ Count(statuses', Customers, "cutting") =
              Count(statuses, Customers, "cutting")
                + (IF s = "cutting" THEN 1 ELSE 0)
                - (IF statuses[c] = "cutting" THEN 1 ELSE 0)
<1>1. statuses = [z \in Customers |-> statuses[z]]
  BY DEF ThrlabTypeOK
<1>2. \A v : Count(statuses, Customers, v) \in Nat
  BY FiniteActors, CountType
<1>3. /\ Count(statuses', Customers, s) = Count(statuses, Customers, s) + 1
      /\ Count(statuses', Customers, statuses[c])
           = Count(statuses, Customers, statuses[c]) - 1
      /\ \A v : v # s /\ v # statuses[c] =>
           Count(statuses', Customers, v) = Count(statuses, Customers, v)
  BY <1>1, FiniteActors, Recount DEF Moves
<1> QED
  BY <1>2, <1>3

(* Filing keeps the tally of complaints a tally. *)
LEMMA FileType ==
  ASSUME ThrlabTypeOK, NEW grievances, File(grievances)
  PROVE  complaints' \in [ComplaintKinds -> Nat]
  BY DEF ThrlabTypeOK, File

(* A stutter of the desk changes nothing it promises. *)
LEMMA DeskStutters == DeskInv /\ UNCHANGED deskVars => DeskInv'
  BY DEF DeskInv, deskVars, book, counters, ThrlabTypeOK, CountsAgree,
         Uncounted, With, RoomsAgree, DoorAgrees

(* The end of the process changes nothing the desk promises. *)
LEMMA ProcessEnds ==
  ASSUME DeskInv, process' \in {"running", "exited", "returned"},
         UNCHANGED <<mtx, book, customer_count, thread, door, verdict>>
  PROVE  DeskInv'
  BY DEF DeskInv, book, counters, ThrlabTypeOK, CountsAgree, Uncounted, With,
         RoomsAgree, DoorAgrees

(* One customer's status, and only his, is the new one. *)
LEMMA MovesPointwise ==
  ASSUME ThrlabTypeOK, NEW c \in Customers, NEW s, Moves(c, s)
  PROVE  /\ \A z \in Customers :
              statuses'[z] = IF z = c THEN s ELSE statuses[z]
         /\ s \in Statuses =>
              statuses' \in [Customers -> Statuses \cup {"absent"}]
  BY DEF Moves, ThrlabTypeOK

(* The rooms still agree if nobody enters or leaves one. *)
LEMMA RoomsUntouched ==
  ASSUME ThrlabTypeOK, RoomsAgree, occupancy' = occupancy,
         \A z \in Customers : statuses'[z] = "cutting" <=> statuses[z] = "cutting"
  PROVE  RoomsAgree'
<1>1. \A r \in Rooms : occupancy[r] # NULL => occupancy[r] \in Customers
  BY DEF ThrlabTypeOK
<1> QED
  BY <1>1 DEF RoomsAgree, With

(* Letting a customer in at the door. *)
LEMMA AddCustomerKeeps == DeskInv /\ AddCustomer => DeskInv'
<1> SUFFICES ASSUME DeskInv, AddCustomer PROVE DeskInv'
  OBVIOUS
<1> DEFINE c == customer_count
<1>1. ThrlabTypeOK /\ RoomsAgree /\ DoorAgrees /\ Counted
  BY CountsAreCounted DEF DeskInv
<1>2. /\ c \in Customers /\ statuses[c] = "absent" /\ thread[c] = "none"
      /\ Moves(c, "pending")
  BY <1>1, ThrlabAssumption
  DEF AddCustomer, ThrlabTypeOK, DoorAgrees, Customers, Moves
<1> HIDE DEF c
<1>3. ThrlabTypeOK'
  BY <1>1, <1>2, ThrlabAssumption
  DEF AddCustomer, ThrlabTypeOK, Statuses, counters, c
<1>4. CountsAgree'
  <2>1. /\ Count(statuses', Customers, "pending")
              = Count(statuses, Customers, "pending") + 1
        /\ Count(statuses', Customers, "waiting")
              = Count(statuses, Customers, "waiting")
        /\ Count(statuses', Customers, "cutting")
              = Count(statuses, Customers, "cutting")
    BY <1>1, <1>2, StatusMoves, CountType, FiniteActors
  <2>2. Uncounted = 0 /\ Uncounted' = 1
    BY DEF Uncounted, AddCustomer
  <2>3. Counted'
    BY <1>1, <2>1, <2>2 DEF Counted, ThrlabTypeOK, AddCustomer, counters
  <2> QED
    BY <2>3, CountsAreCountedNext
<1>5. RoomsAgree'
  <2>1. occupancy' = occupancy
    BY DEF AddCustomer
  <2>2. \A z \in Customers : statuses'[z] = "cutting" <=> statuses[z] = "cutting"
    BY <1>1, <1>2, MovesPointwise
  <2> QED
    BY <1>1, <2>1, <2>2, RoomsUntouched
<1>6. DoorAgrees'
  BY <1>1, <1>2, ThrlabAssumption
  DEF AddCustomer, DoorAgrees, ThrlabTypeOK, Customers, c
<1> QED
  BY <1>3, <1>4, <1>5, <1>6 DEF DeskInv

(* The tables that say who is where stay as they are: counts and rooms do. *)
LEMMA BookUntouched ==
  ASSUME DeskInv, statuses' = statuses, occupancy' = occupancy,
         num_waiting' = num_waiting, num_cutting' = num_cutting,
         num_pending' + Uncounted' = num_pending + Uncounted
  PROVE  CountsAgree' /\ RoomsAgree'
  BY DEF DeskInv, CountsAgree, RoomsAgree, With

(* The customer's thread is created. *)
LEMMA CreateThreadKeeps == DeskInv /\ CreateThread => DeskInv'
<1> SUFFICES ASSUME DeskInv, CreateThread PROVE DeskInv'
  OBVIOUS
<1>1. ThrlabTypeOK /\ DoorAgrees
  BY DEF DeskInv
<1>2. customer_count - 1 \in Customers
  BY <1>1, ThrlabAssumption DEF DoorAgrees, CreateThread, ThrlabTypeOK, Customers
<1>3. ThrlabTypeOK'
  BY <1>1, <1>2 DEF CreateThread, ThrlabTypeOK, book, counters
<1>4. CountsAgree' /\ RoomsAgree'
  BY BookUntouched DEF CreateThread, book, counters, Uncounted
<1>5. DoorAgrees'
  BY <1>1, <1>2 DEF CreateThread, DoorAgrees, ThrlabTypeOK, book, Customers
<1> QED
  BY <1>3, <1>4, <1>5 DEF DeskInv

(* The customer is counted, and the mutex released. *)
LEMMA CountPendingKeeps == DeskInv /\ CountPending => DeskInv'
<1> SUFFICES ASSUME DeskInv, CountPending PROVE DeskInv'
  OBVIOUS
<1>1. ThrlabTypeOK /\ DoorAgrees
  BY DEF DeskInv
<1>2. ThrlabTypeOK'
  BY <1>1 DEF CountPending, ThrlabTypeOK
<1>3. CountsAgree' /\ RoomsAgree'
  <2>1. num_pending' + Uncounted' = num_pending + Uncounted
    BY <1>1 DEF CountPending, Uncounted, ThrlabTypeOK
  <2> QED
    BY <2>1, BookUntouched DEF CountPending
<1>4. DoorAgrees'
  BY <1>1 DEF CountPending, DoorAgrees
<1> QED
  BY <1>2, <1>3, <1>4 DEF DeskInv

(* The remaining steps of the door and of the cleanup touch neither the    *)
(* tables nor the counters.                                                *)
LEMMA DoorKeeps ==
  DeskInv /\ (ThreadFails \/ DoorExits \/ LastCustomerIn) => DeskInv'
<1> SUFFICES ASSUME DeskInv, ThreadFails \/ DoorExits \/ LastCustomerIn
             PROVE  DeskInv'
  OBVIOUS
<1>1. ThrlabTypeOK /\ DoorAgrees
  BY DEF DeskInv
<1>2. ThrlabTypeOK'
  BY <1>1 DEF ThreadFails, DoorExits, LastCustomerIn, ThrlabTypeOK, book, counters
<1>3. CountsAgree' /\ RoomsAgree'
  BY BookUntouched
  DEF ThreadFails, DoorExits, LastCustomerIn, book, counters, Uncounted
<1>4. DoorAgrees'
  BY <1>1 DEF ThreadFails, DoorExits, LastCustomerIn, DoorAgrees, book
<1> QED
  BY <1>2, <1>3, <1>4 DEF DeskInv

(* So do the joins and the closing of the desk. *)
LEMMA CleanupKeeps == DeskInv /\ CleanupStep => DeskInv'
<1> SUFFICES ASSUME DeskInv, CleanupStep PROVE DeskInv'
  OBVIOUS
<1>1. ThrlabTypeOK /\ DoorAgrees
  BY DEF DeskInv
<1>2. CASE CloseDesk
  <2>1. ThrlabTypeOK'
    BY <1>1, <1>2 DEF CloseDesk, ThrlabTypeOK, book, counters
  <2>2. CountsAgree' /\ RoomsAgree'
    BY <1>2, BookUntouched DEF CloseDesk, book, counters, Uncounted
  <2>3. DoorAgrees'
    BY <1>1, <1>2 DEF CloseDesk, DoorAgrees, book
  <2> QED
    BY <2>1, <2>2, <2>3 DEF DeskInv
<1>3. ASSUME NEW c \in Customers, Join(c) PROVE DeskInv'
  <2>1. ThrlabTypeOK'
    BY <1>1, <1>3 DEF Join, ThrlabTypeOK, book, counters
  <2>2. CountsAgree' /\ RoomsAgree'
    BY <1>3, BookUntouched DEF Join, book, counters, Uncounted
  <2>3. DoorAgrees'
    BY <1>1, <1>3 DEF Join, DoorAgrees, book, ThrlabTypeOK
  <2> QED
    BY <2>1, <2>2, <2>3 DEF DeskInv
<1> QED
  BY <1>2, <1>3 DEF CleanupStep

(* Every step of the door. *)
LEMMA DoorStepKeeps == DeskInv /\ DoorStep => DeskInv'
  BY AddCustomerKeeps, CreateThreadKeeps, CountPendingKeeps, DoorKeeps
  DEF DoorStep

(***************************************************************************)
(* The calls.  The caller may be anyone; the customer has a thread.        *)
(***************************************************************************)

(* A pending customer who can be named has been counted: the one who has   *)
(* not been is behind the mutex, or has no thread.                         *)
LEMMA PendingIsCounted ==
  ASSUME DeskInv, mtx = "free", NEW c \in Customers, thread[c] # "none",
         statuses[c] = "pending"
  PROVE  num_pending >= 1
<1>1. ThrlabTypeOK /\ DoorAgrees /\ Counted
  BY CountsAreCounted DEF DeskInv
<1>2. CASE Uncounted = 0
  <2>1. Count(statuses, Customers, "pending") >= 1
    BY FiniteActors, CountPositive
  <2> QED
    BY <1>1, <1>2, <2>1 DEF Counted, ThrlabTypeOK
<1>3. CASE Uncounted # 0
  <2> DEFINE d == customer_count - 1
  <2>1. door = "failing" /\ Uncounted = 1
    BY <1>1, <1>3 DEF Uncounted, DoorAgrees
  <2>2. d \in Customers /\ statuses[d] = "pending" /\ thread[d] = "none"
    BY <1>1, <2>1, ThrlabAssumption DEF DoorAgrees, ThrlabTypeOK, Customers
  <2>3. d # c
    BY <2>2
  <2> HIDE DEF d
  <2>4. Count(statuses, Customers, "pending") >= 2
    BY <2>2, <2>3, FiniteActors, CountPositive
  <2> QED
    BY <1>1, <2>1, <2>4 DEF Counted, ThrlabTypeOK
<1> QED
  BY <1>2, <1>3

(* Likewise whoever waits and whoever is being cut has been counted. *)
LEMMA OthersAreCounted ==
  ASSUME DeskInv, NEW c \in Customers
  PROVE  /\ statuses[c] = "waiting" => num_waiting >= 1
         /\ statuses[c] = "cutting" => num_cutting >= 1
<1>1. Counted
  BY CountsAreCounted DEF DeskInv
<1>2. /\ statuses[c] = "waiting" => Count(statuses, Customers, "waiting") >= 1
      /\ statuses[c] = "cutting" => Count(statuses, Customers, "cutting") >= 1
  BY FiniteActors, CountPositive
<1> QED
  BY <1>1, <1>2 DEF Counted

(* What the door knows is not touched by a call. *)
LEMMA DoorUntouched ==
  ASSUME DeskInv, mtx = "free", NEW c \in Customers, thread[c] # "none",
         UNCHANGED <<mtx, customer_count, thread, door>>,
         NEW s \in Statuses, Moves(c, s)
  PROVE  DoorAgrees'
<1>1. ThrlabTypeOK /\ DoorAgrees
  BY DEF DeskInv
<1>2. /\ \A z \in Customers : statuses'[z] = IF z = c THEN s ELSE statuses[z]
      /\ s # "absent"
  BY <1>1, MovesPointwise DEF Statuses
<1>3. statuses[c] # "absent"
  BY <1>1 DEF DoorAgrees
<1>4. door \in {"create", "count", "failing"} =>
        /\ customer_count - 1 \in Customers
        /\ customer_count - 1 # c
  BY <1>1, ThrlabAssumption DEF DoorAgrees, ThrlabTypeOK, Customers
<1> QED
  BY <1>1, <1>2, <1>3, <1>4 DEF DoorAgrees

(* The same when no status changes. *)
LEMMA DoorStays ==
  ASSUME DeskInv, UNCHANGED <<mtx, customer_count, thread, door, statuses>>
  PROVE  DoorAgrees'
  BY DEF DeskInv, DoorAgrees

(* A call that is refused only files a complaint. *)
LEMMA RefusalKeeps ==
  ASSUME DeskInv, complaints' \in [ComplaintKinds -> Nat],
         UNCHANGED <<mtx, statuses, occupancy, counters, customer_count,
                     thread, door, verdict, process>>
  PROVE  DeskInv'
<1>1. ThrlabTypeOK
  BY DEF DeskInv
<1>2. ThrlabTypeOK'
  BY <1>1 DEF ThrlabTypeOK, counters
<1>3. CountsAgree' /\ RoomsAgree'
  BY BookUntouched DEF Uncounted, counters
<1>4. DoorAgrees'
  BY DoorStays
<1> QED
  BY <1>2, <1>3, <1>4 DEF DeskInv

(* thrlab_accept_customer. *)
LEMMA AcceptKeeps ==
  ASSUME DeskInv, NEW c \in Customers, thread[c] # "none", Accept(c)
  PROVE  DeskInv'
<1>1. ThrlabTypeOK /\ RoomsAgree /\ Counted
  BY CountsAreCounted DEF DeskInv
<1>2. complaints' \in [ComplaintKinds -> Nat]
  BY <1>1, FileType DEF Accept
<1>3. /\ UNCHANGED <<mtx, occupancy, num_cutting, customer_count, thread, door,
                      verdict, process>>
      /\ mtx = "free"
  BY DEF Accept
<1>4. CASE statuses[c] = "pending"
  <2>1. /\ Moves(c, "waiting")
        /\ num_waiting' = num_waiting + 1 /\ num_pending' = num_pending - 1
    BY <1>4 DEF Accept, Moves
  <2>2. num_pending >= 1
    BY <1>3, <1>4, PendingIsCounted
  <2>3. ThrlabTypeOK'
    BY <1>1, <1>2, <1>3, <2>1, <2>2, MovesPointwise DEF ThrlabTypeOK, Statuses
  <2>4. /\ Count(statuses', Customers, "pending")
              = Count(statuses, Customers, "pending") - 1
        /\ Count(statuses', Customers, "waiting")
              = Count(statuses, Customers, "waiting") + 1
        /\ Count(statuses', Customers, "cutting")
              = Count(statuses, Customers, "cutting")
    BY <1>1, <1>4, <2>1, StatusMoves, CountType, FiniteActors
  <2>5. Uncounted' = Uncounted /\ Uncounted \in Nat
    BY <1>3 DEF Uncounted
  <2>6. Counted'
    BY <1>1, <1>3, <2>1, <2>4, <2>5 DEF Counted, ThrlabTypeOK
  <2>7. RoomsAgree'
    <3>1. \A z \in Customers :
            statuses'[z] = "cutting" <=> statuses[z] = "cutting"
      BY <1>1, <1>4, <2>1, MovesPointwise
    <3> QED
      BY <1>1, <1>3, <3>1, RoomsUntouched
  <2>8. DoorAgrees'
    BY <1>3, <2>1, DoorUntouched DEF Statuses
  <2> QED
    BY <2>3, <2>6, <2>7, <2>8, CountsAreCountedNext DEF DeskInv
<1>5. CASE statuses[c] # "pending"
  BY <1>2, <1>3, <1>5, RefusalKeeps DEF Accept, book, counters
<1> QED
  BY <1>4, <1>5

(* thrlab_reject_customer. *)
LEMMA RejectKeeps ==
  ASSUME DeskInv, NEW c \in Customers, thread[c] # "none", Reject(c)
  PROVE  DeskInv'
<1>1. ThrlabTypeOK /\ RoomsAgree /\ Counted
  BY CountsAreCounted DEF DeskInv
<1>2. complaints' \in [ComplaintKinds -> Nat]
  BY <1>1, FileType DEF Reject
<1>3. /\ UNCHANGED <<mtx, occupancy, num_waiting, num_cutting, customer_count,
                      thread, door, verdict, process>>
      /\ mtx = "free"
  BY DEF Reject
<1>4. CASE statuses[c] = "pending"
  <2>1. Moves(c, "rejected") /\ num_pending' = num_pending - 1
    BY <1>4 DEF Reject, Moves
  <2>2. num_pending >= 1
    BY <1>3, <1>4, PendingIsCounted
  <2>3. ThrlabTypeOK'
    BY <1>1, <1>2, <1>3, <2>1, <2>2, MovesPointwise DEF ThrlabTypeOK, Statuses
  <2>4. /\ Count(statuses', Customers, "pending")
              = Count(statuses, Customers, "pending") - 1
        /\ Count(statuses', Customers, "waiting")
              = Count(statuses, Customers, "waiting")
        /\ Count(statuses', Customers, "cutting")
              = Count(statuses, Customers, "cutting")
    BY <1>1, <1>4, <2>1, StatusMoves, CountType, FiniteActors
  <2>5. Uncounted' = Uncounted /\ Uncounted \in Nat
    BY <1>3 DEF Uncounted
  <2>6. Counted'
    BY <1>1, <1>3, <2>1, <2>4, <2>5 DEF Counted, ThrlabTypeOK
  <2>7. RoomsAgree'
    <3>1. \A z \in Customers :
            statuses'[z] = "cutting" <=> statuses[z] = "cutting"
      BY <1>1, <1>4, <2>1, MovesPointwise
    <3> QED
      BY <1>1, <1>3, <3>1, RoomsUntouched
  <2>8. DoorAgrees'
    BY <1>3, <2>1, DoorUntouched DEF Statuses
  <2> QED
    BY <2>3, <2>6, <2>7, <2>8, CountsAreCountedNext DEF DeskInv
<1>5. CASE statuses[c] # "pending"
  BY <1>2, <1>3, <1>5, RefusalKeeps DEF Reject, book, counters
<1> QED
  BY <1>4, <1>5

(* thrlab_prepare_customer. *)
LEMMA PrepareKeeps ==
  ASSUME DeskInv, NEW c \in Customers, NEW r \in Rooms, NEW self,
         thread[c] # "none", Prepare(c, r, self)
  PROVE  DeskInv'
<1>1. ThrlabTypeOK /\ RoomsAgree /\ Counted
  BY CountsAreCounted DEF DeskInv
<1>2. complaints' \in [ComplaintKinds -> Nat]
  BY <1>1, FileType DEF Prepare
<1>3. /\ UNCHANGED <<mtx, num_pending, customer_count, thread, door, verdict,
                      process>>
      /\ mtx = "free"
  BY DEF Prepare
<1>4. CASE statuses[c] = "waiting" /\ occupancy[r] = NULL
  <2>1. /\ Moves(c, "cutting")
        /\ num_cutting' = num_cutting + 1 /\ num_waiting' = num_waiting - 1
        /\ occupancy' = [occupancy EXCEPT ![r] = c]
    BY <1>4 DEF Prepare, Moves
  <2>2. num_waiting >= 1
    BY <1>4, OthersAreCounted
  <2>3. ThrlabTypeOK'
    BY <1>1, <1>2, <1>3, <2>1, <2>2, MovesPointwise DEF ThrlabTypeOK, Statuses
  <2>4. /\ Count(statuses', Customers, "pending")
              = Count(statuses, Customers, "pending")
        /\ Count(statuses', Customers, "waiting")
              = Count(statuses, Customers, "waiting") - 1
        /\ Count(statuses', Customers, "cutting")
              = Count(statuses, Customers, "cutting") + 1
    BY <1>1, <1>4, <2>1, StatusMoves, CountType, FiniteActors
  <2>5. Uncounted' = Uncounted /\ Uncounted \in Nat
    BY <1>3 DEF Uncounted
  <2>6. Counted'
    BY <1>1, <1>3, <2>1, <2>4, <2>5 DEF Counted, ThrlabTypeOK
  <2>7. RoomsAgree'
    <3>1. \A z \in Customers :
            statuses'[z] = IF z = c THEN "cutting" ELSE statuses[z]
      BY <1>1, <2>1, MovesPointwise
    <3>2. \A q \in Rooms :
            occupancy'[q] = IF q = r THEN c ELSE occupancy[q]
      BY <1>1, <2>1 DEF ThrlabTypeOK
    <3>3. \A q \in Rooms : /\ occupancy[q] # c
                           /\ occupancy[q] # NULL => occupancy[q] \in Customers
      BY <1>1, <1>4, ThrlabAssumption DEF RoomsAgree, ThrlabTypeOK
    <3>4. \A q \in Rooms : occupancy'[q] # NULL =>
            statuses'[occupancy'[q]] = "cutting"
      BY <1>1, <1>4, <3>1, <3>2, <3>3 DEF RoomsAgree
    <3>5. \A z \in Customers : statuses'[z] = "cutting" =>
            \E q \in Rooms : occupancy'[q] = z
      <4>1. SUFFICES ASSUME NEW z \in Customers, statuses'[z] = "cutting"
                     PROVE  \E q \in Rooms : occupancy'[q] = z
        OBVIOUS
      <4>2. CASE z = c
        BY <4>2, <3>2
      <4>3. CASE z # c
        <5>1. PICK q \in Rooms : occupancy[q] = z
          BY <1>1, <3>1, <4>1, <4>3 DEF RoomsAgree, With
        <5>2. q # r
          BY <1>4, <5>1, ThrlabAssumption
        <5> QED
          BY <3>2, <5>1, <5>2
      <4> QED
        BY <4>2, <4>3
    <3>6. \A p, q \in Rooms :
            occupancy'[p] = occupancy'[q] /\ occupancy'[p] # NULL => p = q
      BY <1>1, <3>2, <3>3 DEF RoomsAgree
    <3> QED
      BY <3>4, <3>5, <3>6 DEF RoomsAgree, With
  <2>8. DoorAgrees'
    BY <1>3, <2>1, DoorUntouched DEF Statuses
  <2> QED
    BY <2>3, <2>6, <2>7, <2>8, CountsAreCountedNext DEF DeskInv
<1>5. CASE ~(statuses[c] = "waiting" /\ occupancy[r] = NULL)
  BY <1>2, <1>3, <1>5, RefusalKeeps DEF Prepare, counters
<1> QED
  BY <1>4, <1>5

(* thrlab_dismiss_customer. *)
LEMMA DismissKeeps ==
  ASSUME DeskInv, NEW c \in Customers, NEW r \in Rooms, NEW self, NEW pace,
         thread[c] # "none", Dismiss(c, r, self, pace)
  PROVE  DeskInv'
<1>1. ThrlabTypeOK /\ RoomsAgree /\ Counted
  BY CountsAreCounted DEF DeskInv
<1>2. complaints' \in [ComplaintKinds -> Nat]
  BY <1>1, FileType DEF Dismiss
<1>3. /\ UNCHANGED <<mtx, num_pending, num_waiting, customer_count, thread,
                      door, verdict, process>>
      /\ mtx = "free"
  BY DEF Dismiss
<1>4. CASE statuses[c] = "cutting" /\ occupancy[r] = c
  <2>1. /\ Moves(c, "done")
        /\ num_cutting' = num_cutting - 1
        /\ occupancy' = [occupancy EXCEPT ![r] = NULL]
    BY <1>4 DEF Dismiss, Moves
  <2>2. num_cutting >= 1
    BY <1>4, OthersAreCounted
  <2>3. ThrlabTypeOK'
    BY <1>1, <1>2, <1>3, <2>1, <2>2, MovesPointwise DEF ThrlabTypeOK, Statuses
  <2>4. /\ Count(statuses', Customers, "pending")
              = Count(statuses, Customers, "pending")
        /\ Count(statuses', Customers, "waiting")
              = Count(statuses, Customers, "waiting")
        /\ Count(statuses', Customers, "cutting")
              = Count(statuses, Customers, "cutting") - 1
    BY <1>1, <1>4, <2>1, StatusMoves, CountType, FiniteActors
  <2>5. Uncounted' = Uncounted /\ Uncounted \in Nat
    BY <1>3 DEF Uncounted
  <2>6. Counted'
    BY <1>1, <1>3, <2>1, <2>4, <2>5 DEF Counted, ThrlabTypeOK
  <2>7. RoomsAgree'
    <3>1. \A z \in Customers :
            statuses'[z] = IF z = c THEN "done" ELSE statuses[z]
      BY <1>1, <2>1, MovesPointwise
    <3>2. \A q \in Rooms :
            occupancy'[q] = IF q = r THEN NULL ELSE occupancy[q]
      BY <1>1, <2>1 DEF ThrlabTypeOK
    <3>3. /\ \A q \in Rooms : occupancy[q] # NULL => occupancy[q] \in Customers
          /\ c # NULL
          /\ \A q \in Rooms : occupancy[q] = c => q = r
      BY <1>1, <1>4, ThrlabAssumption DEF RoomsAgree, ThrlabTypeOK
    <3> QED
      BY <1>1, <1>4, <3>1, <3>2, <3>3 DEF RoomsAgree, With
  <2>8. DoorAgrees'
    BY <1>3, <2>1, DoorUntouched DEF Statuses
  <2> QED
    BY <2>3, <2>6, <2>7, <2>8, CountsAreCountedNext DEF DeskInv
<1>5. CASE ~(statuses[c] = "cutting" /\ occupancy[r] = c)
  BY <1>2, <1>3, <1>5, RefusalKeeps DEF Dismiss, counters
<1> QED
  BY <1>4, <1>5

(* The callback ends: only the thread's state and the complaints change.   *)
LEMMA EndCallbackKeeps ==
  ASSUME DeskInv, NEW c \in Customers, EndCallback(c)
  PROVE  DeskInv'
<1>1. ThrlabTypeOK /\ DoorAgrees
  BY DEF DeskInv
<1>2. complaints' \in [ComplaintKinds -> Nat]
  BY <1>1, FileType DEF EndCallback
<1>3. ThrlabTypeOK'
  BY <1>1, <1>2 DEF EndCallback, ThrlabTypeOK, counters
<1>4. CountsAgree' /\ RoomsAgree'
  BY BookUntouched DEF EndCallback, Uncounted, counters
<1>5. DoorAgrees'
  BY <1>1 DEF EndCallback, DoorAgrees, ThrlabTypeOK
<1> QED
  BY <1>3, <1>4, <1>5 DEF DeskInv
=============================================================================
