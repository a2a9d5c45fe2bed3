--------------------------- MODULE AnyShopProofs ---------------------------
(***************************************************************************)
(* The desk keeps its books right whatever the shop does: the theorems     *)
(* about AnyShop, for any number of visitors, barbers, chairs and          *)
(* complaints.                                                             *)
(***************************************************************************)
EXTENDS AnyShop, ThrlabProofs, WellFoundedInduction

(* Every call of an arbitrary shop keeps the books. *)
LEMMA ShopStepKeeps == DeskInv /\ ShopStep => DeskInv'
<1> SUFFICES ASSUME DeskInv, ShopStep PROVE DeskInv'
  OBVIOUS
<1>1. PICK c \in Customers :
        \/ thread[c] \in {"running", "returned"} /\ Call(c)
        \/ EndCallback(c)
  BY DEF ShopStep
<1>2. CASE EndCallback(c)
  BY <1>2, EndCallbackKeeps
<1>3. CASE thread[c] \in {"running", "returned"} /\ Call(c)
  <2>1. thread[c] # "none"
    BY <1>3
  <2>2. CASE Accept(c)
    BY <2>1, <2>2, AcceptKeeps
  <2>3. CASE Reject(c)
    BY <2>1, <2>3, RejectKeeps
  <2>4. ASSUME NEW r \in Rooms, NEW self \in BOOLEAN, Prepare(c, r, self)
        PROVE  DeskInv'
    BY <2>1, <2>4, PrepareKeeps
  <2>5. ASSUME NEW r \in Rooms, NEW self \in BOOLEAN, NEW pace \in Paces,
               Dismiss(c, r, self, pace)
        PROVE  DeskInv'
    BY <2>1, <2>5, DismissKeeps
  <2> QED
    BY <1>3, <2>2, <2>3, <2>4, <2>5 DEF Call
<1> QED
  BY <1>1, <1>2, <1>3

(* The desk's books are right in every reachable state. *)
THEOREM DeskIsInvariant == Spec => []DeskInv
<1>1. ThrlabInit => DeskInv
  BY DeskInit
<1>2. DeskInv /\ [Next]_deskVars => DeskInv'
  <2> SUFFICES ASSUME DeskInv, [Next]_deskVars PROVE DeskInv'
    OBVIOUS
  <2>1. CASE DoorStep
    BY <2>1, DoorStepKeeps
  <2>2. CASE ShopStep
    BY <2>2, ShopStepKeeps
  <2>3. CASE CleanupStep
    BY <2>3, CleanupKeeps
  <2>4. CASE Over \/ UNCHANGED deskVars
    BY <2>4, DeskStutters DEF Over
  <2> QED
    BY <2>1, <2>2, <2>3, <2>4 DEF Next
<1> QED
  BY <1>1, <1>2, PTL DEF Spec

(* Every table and counter of the desk keeps its type: in particular no    *)
(* unsigned counter is ever decremented below zero.                        *)
THEOREM DeskTypeCorrect == Spec => []ThrlabTypeOK
<1>1. DeskInv => ThrlabTypeOK
  BY DEF DeskInv
<1> QED
  BY <1>1, DeskIsInvariant, PTL

(* The three counters of check_complaints count the customers they should, *)
(* whatever calls the shop makes.                                          *)
THEOREM DeskCountsAgree == Spec => []CountsAgree
<1>1. DeskInv => CountsAgree
  BY DEF DeskInv
<1> QED
  BY <1>1, DeskIsInvariant, PTL

(* The rooms hold exactly the customers who are being cut, each in one     *)
(* room, whatever calls the shop makes.                                    *)
THEOREM DeskRoomsAgree == Spec => []RoomsAgree
<1>1. DeskInv => RoomsAgree
  BY DEF DeskInv
<1> QED
  BY <1>1, DeskIsInvariant, PTL

(* Complaints are never taken back. *)
LEMMA FileGrows ==
  ASSUME ThrlabTypeOK, NEW g, File(g), NEW k \in ComplaintKinds
  PROVE  /\ complaints[k] \in Nat /\ complaints'[k] \in Nat
         /\ complaints'[k] >= complaints[k]
         /\ k \in g => complaints'[k] > 0
  BY DEF ThrlabTypeOK, File

(* An arbitrary step fills the waiting room beyond its chairs only with a  *)
(* complaint.                                                              *)
LEMMA OvercrowdingStep ==
  ASSUME DeskInv, DeskInv', OvercrowdingReported, [Next]_deskVars
  PROVE  OvercrowdingReported'
<1> DEFINE full == <<"accept", "full">>
           quiet == num_waiting' <= num_waiting /\ complaints'[full] >= complaints[full]
<1>1. /\ ThrlabTypeOK /\ full \in ComplaintKinds /\ chairs \in Nat
      /\ num_waiting \in Nat /\ num_waiting' \in Nat
      /\ complaints[full] \in Nat /\ complaints'[full] \in Nat
  BY ThrlabAssumption DEF DeskInv, ThrlabTypeOK, ComplaintKinds
<1>2. CASE quiet
  BY <1>1, <1>2 DEF OvercrowdingReported
<1>3. CASE num_waiting' = num_waiting /\ complaints' = complaints
  BY <1>1, <1>3 DEF OvercrowdingReported
<1>4. ASSUME NEW g, File(g), num_waiting' <= num_waiting
      PROVE  OvercrowdingReported'
  <2>1. complaints'[full] >= complaints[full]
    BY <1>1, <1>4, FileGrows
  <2> QED
    BY <1>2, <1>4, <2>1
<1>5. CASE DoorStep \/ CleanupStep \/ Over \/ UNCHANGED deskVars
  BY <1>3, <1>5
  DEF DoorStep, AddCustomer, CreateThread, CountPending, ThreadFails,
      DoorExits, LastCustomerIn, CleanupStep, CloseDesk, Join, Over,
      deskVars, book, counters
<1>6. ASSUME NEW c \in Customers, Accept(c)
      PROVE  OvercrowdingReported'
  <2>1. File(AcceptGrievances(c))
    BY <1>6 DEF Accept
  <2>2. CASE statuses[c] # "pending"
    <3>1. num_waiting' = num_waiting
      BY <1>6, <2>2 DEF Accept
    <3> QED
      BY <1>1, <1>4, <2>1, <3>1
  <2>3. CASE statuses[c] = "pending" /\ chairs <= num_waiting
    <3>1. full \in AcceptGrievances(c)
      BY <2>3 DEF AcceptGrievances
    <3> QED
      BY <1>1, <2>1, <3>1, FileGrows DEF OvercrowdingReported
  <2>4. CASE statuses[c] = "pending" /\ ~(chairs <= num_waiting)
    <3>1. num_waiting' = num_waiting + 1
      BY <1>6, <2>4 DEF Accept
    <3> QED
      BY <1>1, <2>4, <3>1 DEF OvercrowdingReported
  <2> QED
    BY <2>2, <2>3, <2>4
<1>7. ASSUME NEW c \in Customers, Reject(c) \/ EndCallback(c)
      PROVE  OvercrowdingReported'
  <2>1. num_waiting' = num_waiting
    BY <1>7 DEF Reject, EndCallback, counters
  <2>2. \E g : File(g)
    BY <1>7 DEF Reject, EndCallback
  <2> QED
    BY <1>1, <1>4, <2>1, <2>2
<1>8. ASSUME NEW c \in Customers, NEW r \in Rooms, NEW self \in BOOLEAN,
             \/ Prepare(c, r, self)
             \/ \E pace \in Paces : Dismiss(c, r, self, pace)
      PROVE  OvercrowdingReported'
  <2>1. num_waiting' <= num_waiting
    BY <1>1, <1>8 DEF Prepare, Dismiss
  <2>2. \E g : File(g)
    BY <1>8 DEF Prepare, Dismiss
  <2> QED
    BY <1>4, <2>1, <2>2
<1>9. CASE ShopStep
  BY <1>6, <1>7, <1>8, <1>9 DEF ShopStep, Call
<1> QED
  BY <1>5, <1>9 DEF Next

(* There are never more customers waiting than chairs without a complaint  *)
(* that says so.                                                           *)
THEOREM DeskReportsOvercrowding == Spec => []OvercrowdingReported
<1>1. ThrlabInit => OvercrowdingReported
  BY ThrlabAssumption DEF ThrlabInit, OvercrowdingReported
<1>2. DeskInv /\ DeskInv' /\ OvercrowdingReported /\ [Next]_deskVars
        => OvercrowdingReported'
  BY OvercrowdingStep
<1> QED
  BY <1>1, <1>2, DeskIsInvariant, PTL DEF Spec
-----------------------------------------------------------------------------
(* The verdict.                                                            *)

(* Subsets of a finite set that are not empty have a smallest one among    *)
(* them: induction over finite sets.                                       *)
LEMMA SmallestSubset ==
  ASSUME NEW S, IsFiniteSet(S), NEW B \in SUBSET (SUBSET S), B # {}
  PROVE  \E T \in B : \A x \in T : T \ {x} \notin B
<1> DEFINE R == StrictSubsetOrdering(S)
<1>1. IsWellFoundedOn(R, SUBSET S)
  BY FS_StrictSubsetOrderingWellFounded, FS_FiniteSubsetsOfFinite
<1>2. \A T \in SUBSET S : \A x \in T : <<T \ {x}, T>> \in R
  BY DEF StrictSubsetOrdering
<1> HIDE DEF R
<1>3. PICK T \in B : \A U \in B : <<U, T>> \notin R
  BY <1>1, WFMin
<1> QED
  BY <1>2, <1>3

(* The sum over a finite set, as the fold of the community modules takes   *)
(* it: one member, whichever CHOOSE picks, and the rest.                   *)
Pick(T) == CHOOSE x \in T : TRUE

Sum(f, total, T) == IF T = {} THEN 0 ELSE f[Pick(T)] + total[T \ {Pick(T)}]

AddsUp(f, S, total) == total = [T \in SUBSET S |-> Sum(f, total, T)]

(* A fold of + over a function adds up its values.                         *)
LEMMA SumUnfolds ==
  ASSUME NEW f
  PROVE  FoldFunction(+, 0, f)
           = (CHOOSE total : AddsUp(f, DOMAIN f, total))[DOMAIN f]
BY Zenon DEF FoldFunction, FoldFunctionOnSet, MapThenFoldSet, AddsUp, Sum, Pick

(* There is something to pick.                                             *)
LEMMA PickIsMember ==
  ASSUME NEW T, T # {}
  PROVE  Pick(T) \in T
BY DEF Pick

(* Induction over the natural numbers, as a fact about sets of them.       *)
LEMMA LeastNumber ==
    ASSUME NEW S, S \subseteq Nat, S # {}
    PROVE  \E m \in S : \A n \in S : m <= n
<1> DEFINE R == OpToRel(<, Nat)
<1>1. IsWellFoundedOn(R, Nat)
  BY NatLessThanWellFounded
<1>2. \A x \in S, y \in S : <<y, x>> \in R <=> y < x
  BY DEF OpToRel
<1> HIDE DEF R
<1>3. PICK x \in S : \A y \in S : ~ (<<y, x>> \in R)
  BY <1>1, WFMin
<1>4. \A y \in S : ~(y < x) /\ y \in Nat /\ x \in Nat
  BY <1>2, <1>3
<1>5. \A y \in S : x <= y
  BY <1>4
<1> QED
  BY <1>5

(* The subsets of S of at most n members. *)
Small(S, n) == {T \in SUBSET S : Cardinality(T) <= n}

(* There are sums over sets of up to n members, for every n: each is made  *)
(* from those over one member less.                                        *)
LEMMA PartialSums ==
  ASSUME NEW S, IsFiniteSet(S), NEW f \in [S -> Nat]
  PROVE  \A n \in Nat : \E g \in [Small(S, n) -> Nat] :
           \A T \in Small(S, n) : g[T] = Sum(f, g, T)
<1> DEFINE Works(n, g) == \A T \in Small(S, n) : g[T] = Sum(f, g, T)
           Without == {n \in Nat : ~\E g \in [Small(S, n) -> Nat] : Works(n, g)}
<1>1. ASSUME NEW T \in SUBSET S
      PROVE  /\ IsFiniteSet(T) /\ Cardinality(T) \in Nat
             /\ T # {} => /\ Pick(T) \in T
                          /\ T \ {Pick(T)} \in SUBSET S
                          /\ Cardinality(T \ {Pick(T)}) = Cardinality(T) - 1
                          /\ Cardinality(T \ {Pick(T)}) \in Nat
  <2>1. IsFiniteSet(T) /\ Cardinality(T) \in Nat
    BY FS_Subset, FS_CardinalityType
  <2>2. CASE T # {}
    <3>1. Pick(T) \in T
      BY <2>2, PickIsMember
    <3>2. /\ IsFiniteSet(T \ {Pick(T)})
          /\ Cardinality(T \ {Pick(T)}) = Cardinality(T) - 1
      BY <2>1, <3>1, FS_RemoveElement
    <3> QED
      BY <2>1, <3>1, <3>2, FS_CardinalityType
  <2> QED
    BY <2>1, <2>2
<1>2. ASSUME NEW n \in Without, \A m \in Without : n <= m
      PROVE  FALSE
  <2>1. n \in Nat /\ ~\E g \in [Small(S, n) -> Nat] : Works(n, g)
    OBVIOUS
  <2>2. CASE n = 0
    <3> DEFINE g == [T \in Small(S, 0) |-> 0]
    <3>1. ASSUME NEW T \in Small(S, 0) PROVE T = {}
      <4>1. T \in SUBSET S /\ Cardinality(T) <= 0
        BY DEF Small
      <4>2. IsFiniteSet(T) /\ Cardinality(T) \in Nat
        BY <1>1, <4>1
      <4>3. Cardinality(T) = 0
        BY <4>1, <4>2
      <4> QED
        BY <4>2, <4>3, FS_EmptySet
    <3>2. Works(0, g) /\ g \in [Small(S, 0) -> Nat]
      BY <3>1 DEF Sum
    <3> QED
      BY <2>1, <2>2, <3>2
  <2>3. CASE n # 0
    <3>1. n - 1 \in Nat /\ n - 1 \notin Without
      BY <1>2, <2>1, <2>3
    <3>2. PICK g \in [Small(S, n - 1) -> Nat] : Works(n - 1, g)
      BY <3>1
    <3> DEFINE h == [T \in Small(S, n) |-> Sum(f, g, T)]
    <3> HIDE DEF Without
    <3>3. ASSUME NEW T \in Small(S, n), T # {}
          PROVE  /\ T \ {Pick(T)} \in Small(S, n - 1)
                 /\ T \ {Pick(T)} \in Small(S, n)
                 /\ f[Pick(T)] \in Nat
      <4>1. T \in SUBSET S /\ Cardinality(T) <= n
        BY DEF Small
      <4>2. /\ Pick(T) \in T /\ T \ {Pick(T)} \in SUBSET S
            /\ Cardinality(T \ {Pick(T)}) = Cardinality(T) - 1
            /\ Cardinality(T) \in Nat
        BY <1>1, <3>3, <4>1
      <4> HIDE DEF h
      <4>3. Cardinality(T \ {Pick(T)}) <= n - 1 /\ Cardinality(T \ {Pick(T)}) <= n
        BY <2>1, <4>1, <4>2
      <4> QED
        BY <4>1, <4>2, <4>3 DEF Small
    <3>4. \A T \in Small(S, n - 1) : T \in Small(S, n) /\ h[T] = g[T]
      <4> SUFFICES ASSUME NEW T \in Small(S, n - 1)
                   PROVE  T \in Small(S, n) /\ h[T] = g[T]
        OBVIOUS
      <4>1. T \in Small(S, n)
        <5>1. T \in SUBSET S /\ Cardinality(T) <= n - 1 /\ Cardinality(T) \in Nat
          BY <1>1 DEF Small
        <5> QED
          BY <2>1, <5>1 DEF Small
      <4>2. g[T] = Sum(f, g, T)
        BY <3>2
      <4> QED
        BY <4>1, <4>2
    <3>5. h \in [Small(S, n) -> Nat]
      <4> SUFFICES ASSUME NEW T \in Small(S, n) PROVE Sum(f, g, T) \in Nat
        OBVIOUS
      <4>1. T # {} => g[T \ {Pick(T)}] \in Nat /\ f[Pick(T)] \in Nat
        BY <3>2, <3>3
      <4> QED
        BY <4>1 DEF Sum
    <3>6. Works(n, h)
      <4> SUFFICES ASSUME NEW T \in Small(S, n) PROVE h[T] = Sum(f, h, T)
        OBVIOUS
      <4>1. h[T] = Sum(f, g, T)
        OBVIOUS
      <4>2. T # {} => h[T \ {Pick(T)}] = g[T \ {Pick(T)}]
        BY <3>3, <3>4
      <4> HIDE DEF h
      <4> QED
        BY <4>1, <4>2 DEF Sum
    <3> QED
      BY <2>1, <3>5, <3>6
  <2> QED
    BY <2>2, <2>3
<1>3. Without = {}
  <2>1. Without \subseteq Nat
    OBVIOUS
  <2> HIDE DEF Without
  <2> QED
    BY <1>2, <2>1, LeastNumber
<1> QED
  BY <1>3

(* A sum of natural numbers is one, and it is 0 only if each of them is.   *)
LEMMA SumOfNaturals ==
  ASSUME NEW S, IsFiniteSet(S), NEW f \in [S -> Nat]
  PROVE  /\ FoldFunction(+, 0, f) \in Nat
         /\ FoldFunction(+, 0, f) = 0 => \A x \in S : f[x] = 0
<1>1. \E g : AddsUp(f, S, g)
  <2>1. Cardinality(S) \in Nat
    BY FS_CardinalityType
  <2>2. PICK g \in [Small(S, Cardinality(S)) -> Nat] :
          \A T \in Small(S, Cardinality(S)) : g[T] = Sum(f, g, T)
    BY <2>1, PartialSums
  <2>3. Small(S, Cardinality(S)) = SUBSET S
    BY FS_Subset DEF Small
  <2>4. AddsUp(f, S, g)
    BY <2>2, <2>3 DEF AddsUp
  <2> QED
    BY <2>4
<1> DEFINE total == CHOOSE g : AddsUp(f, S, g)
           Fair(T) == total[T] \in Nat /\ (total[T] = 0 => \A x \in T : f[x] = 0)
           Unfair == {T \in SUBSET S : ~Fair(T)}
<1>2. FoldFunction(+, 0, f) = total[S]
  BY SumUnfolds
<1>3. \A T \in SUBSET S : total[T] = Sum(f, total, T)
  <2>1. AddsUp(f, S, total)
    BY <1>1
  <2> HIDE DEF total
  <2> QED
    BY <2>1 DEF AddsUp
<1> HIDE DEF total
<1>4. ASSUME NEW T \in Unfair, \A x \in T : T \ {x} \notin Unfair
      PROVE  FALSE
  <2>1. T \in SUBSET S /\ ~Fair(T)
    OBVIOUS
  <2>2. T # {}
    <3>1. T = {} => total[T] = 0
      BY <1>3, <2>1 DEF Sum
    <3> QED
      BY <2>1, <3>1
  <2>3. Pick(T) \in T
    BY <2>2, PickIsMember
  <2> DEFINE U == T \ {Pick(T)}
  <2>4. Fair(U)
    <3>1. U \in SUBSET S /\ U \notin Unfair
      BY <1>4, <2>1, <2>3
    <3> QED
      BY <3>1
  <2>5. total[T] = f[Pick(T)] + total[U] /\ f[Pick(T)] \in Nat
    BY <1>3, <2>1, <2>2, <2>3 DEF Sum
  <2>6. \A x \in T : x = Pick(T) \/ x \in U
    OBVIOUS
  <2> HIDE DEF U
  <2>7. Fair(T)
    BY <2>4, <2>5, <2>6
  <2> QED
    BY <2>1, <2>7
<1>5. Unfair = {}
  <2>1. Unfair \in SUBSET (SUBSET S)
    OBVIOUS
  <2> HIDE DEF Unfair
  <2> QED
    BY <1>4, <2>1, SmallestSubset
<1> QED
  BY <1>2, <1>5

(* There are finitely many things to complain of. *)
LEMMA ComplaintsAreFinite == IsFiniteSet(ComplaintKinds)
<1> DEFINE Parties == {"accept", "reject", "prepare", "dismiss", "cut"}
           Reasons == {"pending", "waiting", "cutting", "done", "rejected", "full", "avail",
                       "busy", "self", "room", "early", "fast", "slow"}
<1>1. ASSUME NEW A, IsFiniteSet(A), NEW a
      PROVE  IsFiniteSet({a} \cup A)
  BY <1>1, FS_AddElement, {a} \cup A = A \cup {a}
<1>2. IsFiniteSet({"accept"} \cup ({"reject"} \cup ({"prepare"} \cup ({"dismiss"} \cup ({"cut"} \cup {})))))
  BY <1>1, FS_EmptySet
<1>3. IsFiniteSet({"pending"} \cup ({"waiting"} \cup ({"cutting"} \cup ({"done"} \cup
        ({"rejected"} \cup ({"full"} \cup ({"avail"} \cup ({"busy"} \cup ({"self"} \cup
        ({"room"} \cup ({"early"} \cup ({"fast"} \cup ({"slow"} \cup {})))))))))))))
  BY <1>1, FS_EmptySet
<1>4. IsFiniteSet(Parties) /\ IsFiniteSet(Reasons)
  <2>1. Parties = {"accept"} \cup ({"reject"} \cup ({"prepare"} \cup ({"dismiss"} \cup ({"cut"} \cup {}))))
    OBVIOUS
  <2>2. Reasons = {"pending"} \cup ({"waiting"} \cup ({"cutting"} \cup ({"done"} \cup
        ({"rejected"} \cup ({"full"} \cup ({"avail"} \cup ({"busy"} \cup ({"self"} \cup
        ({"room"} \cup ({"early"} \cup ({"fast"} \cup ({"slow"} \cup {}))))))))))))
    OBVIOUS
  <2> QED
    BY <1>2, <1>3, <2>1, <2>2
<1>5. IsFiniteSet(Parties \X Reasons)
  BY <1>4, FS_Product
<1>6. ComplaintKinds \in SUBSET (Parties \X Reasons)
  BY DEF ComplaintKinds
<1> HIDE DEF Parties, Reasons
<1> QED
  BY <1>5, <1>6, FS_Subset

(* check_complaints speaks at the very end. *)
DeskSpeaks == verdict # "none" => door = "closed"

(* No step earns the desk a silence it does not deserve.                   *)
LEMMA VerdictStep ==
  ASSUME DeskInv, DeskInv', DeskSpeaks, VerdictIsEarned, [Next]_deskVars
  PROVE  DeskSpeaks' /\ VerdictIsEarned'
<1>1. ThrlabTypeOK /\ CountsAgree /\ RoomsAgree /\ DoorAgrees
  BY DEF DeskInv
<1>2. CASE CloseDesk
  <2>1. /\ door = "join" /\ door' = "closed"
        /\ UNCHANGED <<statuses, occupancy, complaints>>
        /\ verdict' = "silent" => num_cutting + num_waiting + num_pending + TotalComplaints = 0
    BY <1>2 DEF CloseDesk, book
  <2>2. SUFFICES ASSUME verdict' = "silent"
                 PROVE  VerdictIsEarned'
    BY <2>1 DEF DeskSpeaks, VerdictIsEarned
  <2>3. TotalComplaints \in Nat /\ (TotalComplaints = 0 => \A k \in ComplaintKinds : complaints[k] = 0)
    <3>1. IsFiniteSet(ComplaintKinds)
      BY ComplaintsAreFinite
    <3> QED
      BY <1>1, <3>1, SumOfNaturals DEF TotalComplaints, ThrlabTypeOK
  <2>4. /\ num_cutting = 0 /\ num_waiting = 0 /\ num_pending = 0
        /\ \A k \in ComplaintKinds : complaints[k] = 0
    BY <1>1, <2>1, <2>2, <2>3 DEF ThrlabTypeOK
  <2>5. /\ With("pending") = {} /\ With("waiting") = {} /\ With("cutting") = {}
    <3>1. /\ Cardinality(With("pending")) = 0 /\ Cardinality(With("waiting")) = 0
          /\ Cardinality(With("cutting")) = 0
      BY <1>1, <2>1, <2>4 DEF CountsAgree, Uncounted
    <3>2. \A st : IsFiniteSet(With(st))
      <4>1. \A st : With(st) \in SUBSET Customers
        BY DEF With
      <4> QED
        BY <4>1, FiniteActors, FS_Subset
    <3> QED
      BY <3>1, <3>2, FS_EmptySet
  <2>6. \A c \in Customers : statuses[c] \in {"done", "rejected"}
    <3> SUFFICES ASSUME NEW c \in Customers
                 PROVE  statuses[c] \in {"done", "rejected"}
      OBVIOUS
    <3>1. statuses[c] \notin {"pending", "waiting", "cutting"}
      BY <2>5 DEF With
    <3>2. statuses[c] # "absent"
      BY <1>1, <2>1, ThrlabAssumption DEF DoorAgrees, Customers
    <3> QED
      BY <1>1, <3>1, <3>2 DEF ThrlabTypeOK, Statuses
  <2>7. \A r \in Rooms : occupancy[r] = NULL
    BY <1>1, <2>6 DEF RoomsAgree, ThrlabTypeOK
  <2> QED
    BY <2>1, <2>4, <2>6, <2>7 DEF VerdictIsEarned
<1>3. CASE door = "closed"
  <2>1. \A c \in Customers : thread[c] = "joined"
    BY <1>1, <1>3 DEF DoorAgrees
  <2>2. ~DoorStep /\ ~CleanupStep
    BY <1>3 DEF DoorStep, AddCustomer, CreateThread, CountPending, ThreadFails, DoorExits,
      LastCustomerIn, CleanupStep, CloseDesk, Join
  <2>3. ~ShopStep
    BY <2>1 DEF ShopStep, EndCallback
  <2>4. UNCHANGED deskVars
    BY <2>2, <2>3 DEF Next, Over
  <2> QED
    BY <2>4 DEF deskVars, book, DeskSpeaks, VerdictIsEarned
<1>4. CASE door # "closed" /\ ~CloseDesk
  <2>1. verdict = "none"
    BY <1>4 DEF DeskSpeaks
  <2>2. verdict' = verdict
    BY <1>4 DEF Next, DoorStep, AddCustomer, CreateThread, CountPending, ThreadFails,
      DoorExits, LastCustomerIn, CleanupStep, Join, ShopStep, Call, Accept, Reject, Prepare,
      Dismiss, EndCallback, Over, deskVars
  <2> QED
    BY <2>1, <2>2 DEF DeskSpeaks, VerdictIsEarned
<1> QED
  BY <1>2, <1>3, <1>4

(* When check_complaints is silent, everyone was served or turned away, no *)
(* room is occupied and no complaint of any kind was filed, whatever calls *)
(* the shop made.                                                          *)
THEOREM DeskIsSilentForCause == Spec => []VerdictIsEarned
<1>1. ThrlabInit => DeskSpeaks /\ VerdictIsEarned
  BY DEF ThrlabInit, DeskSpeaks, VerdictIsEarned
<1>2. DeskInv /\ DeskInv' /\ DeskSpeaks /\ VerdictIsEarned /\ [Next]_deskVars
        => DeskSpeaks' /\ VerdictIsEarned'
  BY VerdictStep
<1> QED
  BY <1>1, <1>2, DeskIsInvariant, PTL DEF Spec
=============================================================================
