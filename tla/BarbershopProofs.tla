-------------------------- MODULE BarbershopProofs --------------------------
(***************************************************************************)
(* The barbershop is safe for any number of customers, barbers and chairs. *)
(* The invariant below says, for every point of every thread, what the     *)
(* thread may rely on; TLC checks it on small shops, TLAPS that every step *)
(* keeps it.                                                               *)
(***************************************************************************)
EXTENDS Barbershop, ThrlabProofs, SequenceTheorems

(* The threads between Sem_wait and Sem_post of the buffer's mutex. *)
CustomerHolds(c) == at[c] \in {"accept", "insert", "unlock"}
BarberHolds(r)   == barber[r] \in {"fetch", "prepare", "dismiss", "wake", "unlock"}

(* At most one thread holds the mutex, and none while it is free. *)
MutexHeld ==
    /\ mutex = 1 => /\ \A c \in Customers : ~CustomerHolds(c)
                    /\ \A r \in Rooms : ~BarberHolds(r)
    /\ \A c, d \in Customers : CustomerHolds(c) /\ CustomerHolds(d) => c = d
    /\ \A r, s \in Rooms : BarberHolds(r) /\ BarberHolds(s) => r = s
    /\ \A c \in Customers, r \in Rooms : ~(CustomerHolds(c) /\ BarberHolds(r))

(* A customer who is seated and not yet on his way out. *)
Seated(c) == at[c] \in {"unlock", "signal", "sit"}

(* Where a customer's thread is agrees with what the desk knows of him. *)
CustomersInPlace ==
    \A c \in Customers :
      /\ thread[c] = "none" => at[c] = "trywait"
      /\ at[c] = "gone" <=> thread[c] \in {"returned", "joined"}
      /\ at[c] \in {"trywait", "lock", "accept"} /\ thread[c] # "none"
           => statuses[c] = "pending"
      /\ at[c] = "insert" => statuses[c] = "waiting"
      /\ Seated(c) => statuses[c] \in {"waiting", "cutting", "done"}
      /\ at[c] \in {"leave", "gone"} => statuses[c] = "done"
      /\ seat[c] > 0 => statuses[c] = "done" /\ Seated(c)

(* A barber at work has the customer he thinks he has. *)
BarbersInPlace ==
    \A r \in Rooms :
      /\ barber[r] \in {"prepare", "dismiss", "wake"} =>
           serving[r] \in Customers /\ Seated(serving[r])
      /\ barber[r] = "prepare" => statuses[serving[r]] = "waiting"
      /\ barber[r] = "dismiss" => occupancy[r] = serving[r]
      /\ barber[r] = "wake" =>
           statuses[serving[r]] = "done" /\ seat[serving[r]] = 0
      /\ barber[r] # "dismiss" => occupancy[r] = NULL

(* The live part of the ring: distinct customers who wait, and whom no     *)
(* barber has fetched.                                                     *)
Live == front + 1 .. rear
InRing(i) == ring[i % chairs]

RingHolds ==
    /\ \A i \in Live :
         /\ InRing(i) \in Customers
         /\ Seated(InRing(i))
         /\ statuses[InRing(i)] = "waiting"
    /\ \A i, j \in Live : InRing(i) = InRing(j) => i = j
    /\ \A i \in Live, r \in Rooms :
         barber[r] = "prepare" => serving[r] # InRing(i)

(* How many threads are at certain steps. *)
SlotHolders == Cardinality({c \in Customers : HoldsSlot(c)})
Signallers  == Cardinality({c \in Customers : MustSignal(c)})
Inserters   == Cardinality({c \in Customers : at[c] = "insert"})
ItemHolders == Cardinality({r \in Rooms : HasItem(r)})
Fetchers    == Cardinality({r \in Rooms : HasFetched(r)})
Preparers   == Cardinality({r \in Rooms : barber[r] = "prepare"})

(* The semaphores' accounts, and the desk's count of waiting customers. *)
Accounts ==
    /\ slots + SlotHolders + (rear - front) + Fetchers = chairs
    /\ items + ItemHolders + Signallers = rear - front
    /\ num_waiting = Inserters + (rear - front) + Preparers

(* Nobody comes before the barbers are hired, and the buffer is destroyed  *)
(* after the desk.                                                         *)
MainInPlace ==
    /\ ~AllHired => customer_count = 0 /\ door = "arrival"
    /\ shop = "cleaned" => door = "closed"

IInv ==
    /\ TypeOK /\ DeskInv /\ MutexHeld /\ CustomersInPlace /\ BarbersInPlace
    /\ RingHolds /\ Accounts /\ MainInPlace /\ NothingToComplain

(***************************************************************************)
(* Counting threads.                                                       *)
(***************************************************************************)

(* Two subsets of a finite set that differ at most in x. *)
LEMMA Shift ==
  ASSUME NEW D, IsFiniteSet(D), NEW S \in SUBSET D, NEW T \in SUBSET D,
         NEW x \in D, \A y \in D : y # x => (y \in S <=> y \in T)
  PROVE  /\ Cardinality(S) \in Nat /\ Cardinality(T) \in Nat
         /\ x \in T /\ x \notin S => Cardinality(T) = Cardinality(S) + 1
         /\ x \notin T /\ x \in S => Cardinality(T) = Cardinality(S) - 1
         /\ (x \in T <=> x \in S) => Cardinality(T) = Cardinality(S)
<1>1. IsFiniteSet(S) /\ IsFiniteSet(T)
  BY FS_Subset
<1>2. Cardinality(S) \in Nat /\ Cardinality(T) \in Nat
  BY <1>1, FS_CardinalityType
<1>3. ASSUME x \in T, x \notin S
      PROVE  Cardinality(T) = Cardinality(S) + 1
  <2>1. T = S \cup {x}
    BY <1>3
  <2> QED
    BY <1>1, <1>3, <2>1, FS_AddElement
<1>4. ASSUME x \notin T, x \in S
      PROVE  Cardinality(T) = Cardinality(S) - 1
  <2>1. T = S \ {x}
    BY <1>4
  <2> QED
    BY <1>1, <1>4, <2>1, FS_RemoveElement
<1>5. ASSUME x \in T <=> x \in S
      PROVE  Cardinality(T) = Cardinality(S)
  <2>1. T = S
    BY <1>5
  <2> QED
    BY <2>1
<1> QED
  BY <1>2, <1>3, <1>4, <1>5

(* A set with an element has a positive cardinality. *)
LEMMA Inhabited ==
  ASSUME NEW D, IsFiniteSet(D), NEW S \in SUBSET D, NEW x \in S
  PROVE  Cardinality(S) >= 1
<1>1. IsFiniteSet(S)
  BY FS_Subset
<1> QED
  BY <1>1, FS_EmptySet, FS_CardinalityType

(* One thread moves on; the others stay. *)
AtMoves(c, to)     == \A d \in Customers : at'[d] = IF d = c THEN to ELSE at[d]
BarberMoves(r, to) == \A s \in Rooms : barber'[s] = IF s = r THEN to ELSE barber[s]

(* All six counts are numbers. *)
LEMMA CountsAreNumbers ==
    /\ SlotHolders \in Nat /\ Signallers \in Nat /\ Inserters \in Nat
    /\ ItemHolders \in Nat /\ Fetchers \in Nat /\ Preparers \in Nat
<1>1. \A S \in SUBSET Customers : Cardinality(S) \in Nat
  BY FiniteActors, FS_Subset, FS_CardinalityType
<1>2. \A S \in SUBSET Rooms : Cardinality(S) \in Nat
  BY FiniteActors, FS_Subset, FS_CardinalityType
<1> QED
  BY <1>1, <1>2
  DEF SlotHolders, Signallers, Inserters, ItemHolders, Fetchers, Preparers

(* What a customer's move does to the counts of customers. *)
LEMMA CustomerCounts ==
  ASSUME NEW c \in Customers, NEW to, AtMoves(c, to)
  PROVE  /\ at[c] \notin {"lock", "accept", "insert"} /\ to \in {"lock", "accept", "insert"}
              => SlotHolders' = SlotHolders + 1
         /\ at[c] \in {"lock", "accept", "insert"} /\ to \notin {"lock", "accept", "insert"}
              => SlotHolders' = SlotHolders - 1
         /\ (at[c] \in {"lock", "accept", "insert"} <=> to \in {"lock", "accept", "insert"})
              => SlotHolders' = SlotHolders
         /\ at[c] \notin {"unlock", "signal"} /\ to \in {"unlock", "signal"}
              => Signallers' = Signallers + 1
         /\ at[c] \in {"unlock", "signal"} /\ to \notin {"unlock", "signal"}
              => Signallers' = Signallers - 1
         /\ (at[c] \in {"unlock", "signal"} <=> to \in {"unlock", "signal"})
              => Signallers' = Signallers
         /\ at[c] # "insert" /\ to = "insert" => Inserters' = Inserters + 1
         /\ at[c] = "insert" /\ to # "insert" => Inserters' = Inserters - 1
         /\ (at[c] = "insert" <=> to = "insert") => Inserters' = Inserters
<1> DEFINE A == {d \in Customers : HoldsSlot(d)}
           B == {d \in Customers : MustSignal(d)}
           I == {d \in Customers : at[d] = "insert"}
<1>1. /\ \A d \in Customers : d # c => (d \in A <=> d \in A')
      /\ c \in A <=> at[c] \in {"lock", "accept", "insert"}
      /\ c \in A' <=> to \in {"lock", "accept", "insert"}
  BY DEF AtMoves, HoldsSlot
<1>2. /\ \A d \in Customers : d # c => (d \in B <=> d \in B')
      /\ c \in B <=> at[c] \in {"unlock", "signal"}
      /\ c \in B' <=> to \in {"unlock", "signal"}
  BY DEF AtMoves, MustSignal
<1>3. /\ \A d \in Customers : d # c => (d \in I <=> d \in I')
      /\ c \in I <=> at[c] = "insert"
      /\ c \in I' <=> to = "insert"
  BY DEF AtMoves
<1>4. /\ A \in SUBSET Customers /\ A' \in SUBSET Customers
      /\ B \in SUBSET Customers /\ B' \in SUBSET Customers
      /\ I \in SUBSET Customers /\ I' \in SUBSET Customers
  OBVIOUS
<1>5. /\ SlotHolders = Cardinality(A) /\ SlotHolders' = Cardinality(A')
      /\ Signallers = Cardinality(B) /\ Signallers' = Cardinality(B')
      /\ Inserters = Cardinality(I) /\ Inserters' = Cardinality(I')
  BY DEF SlotHolders, Signallers, Inserters
<1> HIDE DEF A, B, I
<1>6. /\ c \notin A /\ c \in A' => Cardinality(A') = Cardinality(A) + 1
      /\ c \in A /\ c \notin A' => Cardinality(A') = Cardinality(A) - 1
      /\ (c \in A <=> c \in A') => Cardinality(A') = Cardinality(A)
  BY <1>1, <1>4, FiniteActors, Shift
<1>7. /\ c \notin B /\ c \in B' => Cardinality(B') = Cardinality(B) + 1
      /\ c \in B /\ c \notin B' => Cardinality(B') = Cardinality(B) - 1
      /\ (c \in B <=> c \in B') => Cardinality(B') = Cardinality(B)
  BY <1>2, <1>4, FiniteActors, Shift
<1>8. /\ c \notin I /\ c \in I' => Cardinality(I') = Cardinality(I) + 1
      /\ c \in I /\ c \notin I' => Cardinality(I') = Cardinality(I) - 1
      /\ (c \in I <=> c \in I') => Cardinality(I') = Cardinality(I)
  BY <1>3, <1>4, FiniteActors, Shift
<1> QED
  BY <1>1, <1>2, <1>3, <1>5, <1>6, <1>7, <1>8

(* The steps between the fetch and the freeing of the slot. *)
AtWork == {"prepare", "dismiss", "wake", "unlock", "free"}

(* What a barber's move does to the counts of barbers. *)
LEMMA BarberCounts ==
  ASSUME NEW r \in Rooms, NEW to, BarberMoves(r, to)
  PROVE  /\ barber[r] \notin {"lock", "fetch"} /\ to \in {"lock", "fetch"}
              => ItemHolders' = ItemHolders + 1
         /\ barber[r] \in {"lock", "fetch"} /\ to \notin {"lock", "fetch"}
              => ItemHolders' = ItemHolders - 1
         /\ (barber[r] \in {"lock", "fetch"} <=> to \in {"lock", "fetch"})
              => ItemHolders' = ItemHolders
         /\ barber[r] \notin AtWork /\ to \in AtWork => Fetchers' = Fetchers + 1
         /\ barber[r] \in AtWork /\ to \notin AtWork => Fetchers' = Fetchers - 1
         /\ (barber[r] \in AtWork <=> to \in AtWork) => Fetchers' = Fetchers
         /\ barber[r] # "prepare" /\ to = "prepare" => Preparers' = Preparers + 1
         /\ barber[r] = "prepare" /\ to # "prepare" => Preparers' = Preparers - 1
         /\ (barber[r] = "prepare" <=> to = "prepare") => Preparers' = Preparers
<1> DEFINE A == {s \in Rooms : HasItem(s)}
           B == {s \in Rooms : HasFetched(s)}
           I == {s \in Rooms : barber[s] = "prepare"}
<1>1. /\ \A s \in Rooms : s # r => (s \in A <=> s \in A')
      /\ r \in A <=> barber[r] \in {"lock", "fetch"}
      /\ r \in A' <=> to \in {"lock", "fetch"}
  BY DEF BarberMoves, HasItem
<1>2. /\ \A s \in Rooms : s # r => (s \in B <=> s \in B')
      /\ r \in B <=> barber[r] \in AtWork
      /\ r \in B' <=> to \in AtWork
  BY DEF BarberMoves, HasFetched, AtWork
<1>3. /\ \A s \in Rooms : s # r => (s \in I <=> s \in I')
      /\ r \in I <=> barber[r] = "prepare"
      /\ r \in I' <=> to = "prepare"
  BY DEF BarberMoves
<1>4. /\ A \in SUBSET Rooms /\ A' \in SUBSET Rooms
      /\ B \in SUBSET Rooms /\ B' \in SUBSET Rooms
      /\ I \in SUBSET Rooms /\ I' \in SUBSET Rooms
  OBVIOUS
<1>5. /\ ItemHolders = Cardinality(A) /\ ItemHolders' = Cardinality(A')
      /\ Fetchers = Cardinality(B) /\ Fetchers' = Cardinality(B')
      /\ Preparers = Cardinality(I) /\ Preparers' = Cardinality(I')
  BY DEF ItemHolders, Fetchers, Preparers
<1> HIDE DEF A, B, I
<1>6. /\ r \notin A /\ r \in A' => Cardinality(A') = Cardinality(A) + 1
      /\ r \in A /\ r \notin A' => Cardinality(A') = Cardinality(A) - 1
      /\ (r \in A <=> r \in A') => Cardinality(A') = Cardinality(A)
  BY <1>1, <1>4, FiniteActors, Shift
<1>7. /\ r \notin B /\ r \in B' => Cardinality(B') = Cardinality(B) + 1
      /\ r \in B /\ r \notin B' => Cardinality(B') = Cardinality(B) - 1
      /\ (r \in B <=> r \in B') => Cardinality(B') = Cardinality(B)
  BY <1>2, <1>4, FiniteActors, Shift
<1>8. /\ r \notin I /\ r \in I' => Cardinality(I') = Cardinality(I) + 1
      /\ r \in I /\ r \notin I' => Cardinality(I') = Cardinality(I) - 1
      /\ (r \in I <=> r \in I') => Cardinality(I') = Cardinality(I)
  BY <1>3, <1>4, FiniteActors, Shift
<1> QED
  BY <1>1, <1>2, <1>3, <1>5, <1>6, <1>7, <1>8

(***************************************************************************)
(* What stays.                                                             *)
(***************************************************************************)

(* A customer's step moves his program counter and no barber. *)
LEMMA CustomerGoesOn ==
  ASSUME TypeOK, NEW c \in Customers, NEW from, NEW to \in CustomerSteps,
         CustomerGoes(c, from, to)
  PROVE  /\ at[c] = from /\ AtMoves(c, to) /\ at' \in [Customers -> CustomerSteps]
         /\ process = "running" /\ thread[c] = "running"
         /\ UNCHANGED <<barber, serving, shop>>
         /\ UNCHANGED <<ItemHolders, Fetchers, Preparers>>
  BY DEF TypeOK, CustomerGoes, AtMoves, ItemHolders, Fetchers, Preparers,
         HasItem, HasFetched

(* A barber's step moves his program counter and no customer. *)
LEMMA BarberGoesOn ==
  ASSUME TypeOK, NEW r \in Rooms, NEW from, NEW to \in BarberSteps,
         BarberGoes(r, from, to)
  PROVE  /\ barber[r] = from /\ BarberMoves(r, to)
         /\ barber' \in [Rooms -> BarberSteps]
         /\ process = "running"
         /\ UNCHANGED <<at, shop>>
         /\ UNCHANGED <<SlotHolders, Signallers, Inserters>>
  BY DEF TypeOK, BarberGoes, BarberMoves, SlotHolders, Signallers, Inserters,
         HoldsSlot, MustSignal

(* Nobody's step brings a barber back to being unhired. *)
LEMMA MainStays ==
  ASSUME MainInPlace, UNCHANGED <<shop, customer_count, door>>,
         \A r \in Rooms : barber'[r] = "unhired" => barber[r] = "unhired"
  PROVE  MainInPlace'
  BY DEF MainInPlace, AllHired

(***************************************************************************)
(* The steps of a customer keep the invariant.                             *)
(***************************************************************************)
(* Sem_trywait finds a slot. *)
LEMMA ArriveKeeps ==
  ASSUME IInv, NEW c \in Customers, Arrive(c)
  PROVE  IInv'
<1>1. /\ TypeOK /\ DeskInv /\ MutexHeld /\ CustomersInPlace /\ BarbersInPlace
      /\ RingHolds /\ Accounts /\ MainInPlace /\ NothingToComplain
  BY DEF IInv
<1>2. /\ at[c] = "trywait" /\ AtMoves(c, "lock") /\ thread[c] = "running"
      /\ at' \in [Customers -> CustomerSteps]
      /\ slots > 0 /\ slots' = slots - 1
      /\ seat' = [seat EXCEPT ![c] = 0]
      /\ UNCHANGED <<deskVars, items, mutex, buffer, barber, serving, shop>>
      /\ UNCHANGED <<ItemHolders, Fetchers, Preparers>>
  BY <1>1, CustomerGoesOn DEF Arrive, CustomerSteps
<1>3. DeskInv'
  BY <1>1, <1>2, DeskStutters
<1>4. TypeOK'
  BY <1>1, <1>2, <1>3, ThrlabAssumption DEF TypeOK, DeskInv, buffer
<1>5. MutexHeld'
  BY <1>1, <1>2 DEF MutexHeld, AtMoves, CustomerHolds, BarberHolds
<1>6. CustomersInPlace'
  BY <1>1, <1>2 DEF CustomersInPlace, AtMoves, Seated, deskVars, book, TypeOK
<1>7. BarbersInPlace'
  BY <1>1, <1>2 DEF BarbersInPlace, AtMoves, Seated, deskVars, book, TypeOK
<1>8. RingHolds'
  BY <1>1, <1>2 DEF RingHolds, Live, InRing, AtMoves, Seated, deskVars, book, buffer
<1>9. Accounts'
  <2>1. /\ SlotHolders' = SlotHolders + 1 /\ Signallers' = Signallers
        /\ Inserters' = Inserters
    BY <1>2, CustomerCounts
  <2> QED
    BY <1>1, <1>2, <2>1, CountsAreNumbers
    DEF Accounts, TypeOK, deskVars, book, counters, buffer
<1>10. MainInPlace'
  BY <1>1, <1>2, MainStays DEF deskVars
<1>11. NothingToComplain'
  BY <1>1, <1>2 DEF NothingToComplain, deskVars, book
<1> QED
  BY <1>3, <1>4, <1>5, <1>6, <1>7, <1>8, <1>9, <1>10, <1>11 DEF IInv

(* The customer takes the buffer's mutex. *)
LEMMA CustomerLocksKeeps ==
  ASSUME IInv, NEW c \in Customers, CustomerLocks(c)
  PROVE  IInv'
<1>1. /\ TypeOK /\ DeskInv /\ MutexHeld /\ CustomersInPlace /\ BarbersInPlace
      /\ RingHolds /\ Accounts /\ MainInPlace /\ NothingToComplain
  BY DEF IInv
<1>2. /\ at[c] = "lock" /\ AtMoves(c, "accept") /\ thread[c] = "running"
      /\ at' \in [Customers -> CustomerSteps]
      /\ mutex > 0 /\ mutex' = mutex - 1
      /\ UNCHANGED <<deskVars, slots, items, buffer, seat, barber, serving, shop>>
      /\ UNCHANGED <<ItemHolders, Fetchers, Preparers>>
  BY <1>1, CustomerGoesOn DEF CustomerLocks, CustomerSteps
<1>3. DeskInv'
  BY <1>1, <1>2, DeskStutters
<1>4. TypeOK'
  BY <1>1, <1>2, <1>3, ThrlabAssumption DEF TypeOK, DeskInv, buffer
<1>5. MutexHeld'
  BY <1>1, <1>2 DEF MutexHeld, AtMoves, CustomerHolds, BarberHolds, TypeOK
<1>6. CustomersInPlace'
  BY <1>1, <1>2 DEF CustomersInPlace, AtMoves, Seated, deskVars, book, TypeOK
<1>7. BarbersInPlace'
  BY <1>1, <1>2 DEF BarbersInPlace, AtMoves, Seated, deskVars, book, TypeOK
<1>8. RingHolds'
  BY <1>1, <1>2
  DEF RingHolds, Live, InRing, AtMoves, Seated, deskVars, book, buffer
<1>9. Accounts'
  <2>1. /\ SlotHolders' = SlotHolders /\ Signallers' = Signallers
        /\ Inserters' = Inserters
    BY <1>2, CustomerCounts
  <2> QED
    BY <1>1, <1>2, <2>1, CountsAreNumbers
    DEF Accounts, TypeOK, deskVars, book, counters, buffer
<1>10. MainInPlace'
  BY <1>1, <1>2, MainStays DEF deskVars
<1>11. NothingToComplain'
  BY <1>1, <1>2 DEF NothingToComplain, deskVars, book
<1> QED
  BY <1>3, <1>4, <1>5, <1>6, <1>7, <1>8, <1>9, <1>10, <1>11 DEF IInv

(* The customer releases the buffer's mutex. *)
LEMMA CustomerUnlocksKeeps ==
  ASSUME IInv, NEW c \in Customers, CustomerUnlocks(c)
  PROVE  IInv'
<1>1. /\ TypeOK /\ DeskInv /\ MutexHeld /\ CustomersInPlace /\ BarbersInPlace
      /\ RingHolds /\ Accounts /\ MainInPlace /\ NothingToComplain
  BY DEF IInv
<1>2. /\ at[c] = "unlock" /\ AtMoves(c, "signal") /\ thread[c] = "running"
      /\ at' \in [Customers -> CustomerSteps]
      /\ mutex' = mutex + 1
      /\ UNCHANGED <<deskVars, slots, items, buffer, seat, barber, serving, shop>>
      /\ UNCHANGED <<ItemHolders, Fetchers, Preparers>>
  BY <1>1, CustomerGoesOn DEF CustomerUnlocks, CustomerSteps
<1>3. DeskInv'
  BY <1>1, <1>2, DeskStutters
<1>4. TypeOK'
  <2>1. mutex = 0
    BY <1>1, <1>2 DEF TypeOK, MutexHeld, CustomerHolds
  <2> QED
    BY <1>1, <1>2, <1>3, <2>1 DEF TypeOK, DeskInv, buffer
<1>5. MutexHeld'
  BY <1>1, <1>2 DEF MutexHeld, AtMoves, CustomerHolds, BarberHolds, TypeOK
<1>6. CustomersInPlace'
  BY <1>1, <1>2 DEF CustomersInPlace, AtMoves, Seated, deskVars, book, TypeOK
<1>7. BarbersInPlace'
  BY <1>1, <1>2 DEF BarbersInPlace, AtMoves, Seated, deskVars, book, TypeOK
<1>8. RingHolds'
  BY <1>1, <1>2
  DEF RingHolds, Live, InRing, AtMoves, Seated, deskVars, book, buffer
<1>9. Accounts'
  <2>1. /\ SlotHolders' = SlotHolders /\ Signallers' = Signallers
        /\ Inserters' = Inserters
    BY <1>2, CustomerCounts
  <2> QED
    BY <1>1, <1>2, <2>1, CountsAreNumbers
    DEF Accounts, TypeOK, deskVars, book, counters, buffer
<1>10. MainInPlace'
  BY <1>1, <1>2, MainStays DEF deskVars
<1>11. NothingToComplain'
  BY <1>1, <1>2 DEF NothingToComplain, deskVars, book
<1> QED
  BY <1>3, <1>4, <1>5, <1>6, <1>7, <1>8, <1>9, <1>10, <1>11 DEF IInv

(* The customer in the ring is announced. *)
LEMMA SignalKeeps ==
  ASSUME IInv, NEW c \in Customers, Signal(c)
  PROVE  IInv'
<1>1. /\ TypeOK /\ DeskInv /\ MutexHeld /\ CustomersInPlace /\ BarbersInPlace
      /\ RingHolds /\ Accounts /\ MainInPlace /\ NothingToComplain
  BY DEF IInv
<1>2. /\ at[c] = "signal" /\ AtMoves(c, "sit") /\ thread[c] = "running"
      /\ at' \in [Customers -> CustomerSteps]
      /\ items' = items + 1
      /\ UNCHANGED <<deskVars, slots, mutex, buffer, seat, barber, serving, shop>>
      /\ UNCHANGED <<ItemHolders, Fetchers, Preparers>>
  BY <1>1, CustomerGoesOn DEF Signal, CustomerSteps
<1>3. DeskInv'
  BY <1>1, <1>2, DeskStutters
<1>4. TypeOK'
  <2>1. items + 1 <= chairs
    <3>1. Signallers >= 1
      BY <1>2, FiniteActors, Inhabited, c \in {d \in Customers : MustSignal(d)}
      DEF Signallers, MustSignal
    <3> QED
      BY <1>1, <3>1, CountsAreNumbers, ThrlabAssumption DEF Accounts, TypeOK
  <2> QED
    BY <1>1, <1>2, <1>3, <2>1, ThrlabAssumption DEF TypeOK, DeskInv, buffer
<1>5. MutexHeld'
  BY <1>1, <1>2 DEF MutexHeld, AtMoves, CustomerHolds, BarberHolds, TypeOK
<1>6. CustomersInPlace'
  BY <1>1, <1>2 DEF CustomersInPlace, AtMoves, Seated, deskVars, book, TypeOK
<1>7. BarbersInPlace'
  BY <1>1, <1>2 DEF BarbersInPlace, AtMoves, Seated, deskVars, book, TypeOK
<1>8. RingHolds'
  BY <1>1, <1>2
  DEF RingHolds, Live, InRing, AtMoves, Seated, deskVars, book, buffer
<1>9. Accounts'
  <2>1. /\ SlotHolders' = SlotHolders /\ Signallers' = Signallers - 1
        /\ Inserters' = Inserters
    BY <1>2, CustomerCounts
  <2> QED
    BY <1>1, <1>2, <2>1, CountsAreNumbers
    DEF Accounts, TypeOK, deskVars, book, counters, buffer
<1>10. MainInPlace'
  BY <1>1, <1>2, MainStays DEF deskVars
<1>11. NothingToComplain'
  BY <1>1, <1>2 DEF NothingToComplain, deskVars, book
<1> QED
  BY <1>3, <1>4, <1>5, <1>6, <1>7, <1>8, <1>9, <1>10, <1>11 DEF IInv

(* The barber has woken the customer. *)
LEMMA WakeUpKeeps ==
  ASSUME IInv, NEW c \in Customers, WakeUp(c)
  PROVE  IInv'
<1>1. /\ TypeOK /\ DeskInv /\ MutexHeld /\ CustomersInPlace /\ BarbersInPlace
      /\ RingHolds /\ Accounts /\ MainInPlace /\ NothingToComplain
  BY DEF IInv
<1>2. /\ at[c] = "sit" /\ AtMoves(c, "leave") /\ thread[c] = "running"
      /\ at' \in [Customers -> CustomerSteps]
      /\ seat[c] > 0 /\ seat' = [seat EXCEPT ![c] = seat[c] - 1]
      /\ UNCHANGED <<deskVars, semaphores, buffer, barber, serving, shop>>
      /\ UNCHANGED <<ItemHolders, Fetchers, Preparers>>
  BY <1>1, CustomerGoesOn DEF WakeUp, CustomerSteps
<1>3. DeskInv'
  BY <1>1, <1>2, DeskStutters
<1>4. TypeOK'
  BY <1>1, <1>2, <1>3, ThrlabAssumption
  DEF TypeOK, DeskInv, semaphores, buffer
<1>5. MutexHeld'
  BY <1>1, <1>2
  DEF MutexHeld, AtMoves, CustomerHolds, BarberHolds, semaphores
<1>6. CustomersInPlace'
  BY <1>1, <1>2 DEF CustomersInPlace, AtMoves, Seated, deskVars, book, TypeOK
<1>7. BarbersInPlace'
  <2>1. /\ statuses[c] = "done" /\ seat[c] = 1
        /\ \A d \in Customers : d # c => seat'[d] = seat[d]
    BY <1>1, <1>2 DEF CustomersInPlace, TypeOK
  <2>2. \A r \in Rooms : barber[r] \in {"prepare", "dismiss", "wake"} =>
          serving[r] # c
    BY <1>1, <2>1, ThrlabAssumption
    DEF BarbersInPlace, DeskInv, RoomsAgree
  <2> QED
    BY <1>1, <1>2, <2>1, <2>2
    DEF BarbersInPlace, AtMoves, Seated, deskVars, book
<1>8. RingHolds'
  <2>1. statuses[c] = "done"
    BY <1>1, <1>2 DEF CustomersInPlace
  <2> QED
    BY <1>1, <1>2, <2>1
    DEF RingHolds, Live, InRing, AtMoves, Seated, deskVars, book, buffer
<1>9. Accounts'
  <2>1. /\ SlotHolders' = SlotHolders /\ Signallers' = Signallers
        /\ Inserters' = Inserters
    BY <1>2, CustomerCounts
  <2> QED
    BY <1>1, <1>2, <2>1, CountsAreNumbers
    DEF Accounts, TypeOK, deskVars, book, counters, semaphores,
        buffer
<1>10. MainInPlace'
  BY <1>1, <1>2, MainStays DEF deskVars
<1>11. NothingToComplain'
  BY <1>1, <1>2 DEF NothingToComplain, deskVars, book
<1> QED
  BY <1>3, <1>4, <1>5, <1>6, <1>7, <1>8, <1>9, <1>10, <1>11 DEF IInv

(* A barber claims a customer in the ring. *)
LEMMA TakeItemKeeps ==
  ASSUME IInv, NEW r \in Rooms, TakeItem(r)
  PROVE  IInv'
<1>1. /\ TypeOK /\ DeskInv /\ MutexHeld /\ CustomersInPlace /\ BarbersInPlace
      /\ RingHolds /\ Accounts /\ MainInPlace /\ NothingToComplain
  BY DEF IInv
<1>2. /\ barber[r] = "items" /\ BarberMoves(r, "lock")
      /\ barber' \in [Rooms -> BarberSteps]
      /\ items > 0 /\ items' = items - 1
      /\ UNCHANGED <<deskVars, slots, mutex, buffer, seat, serving, at, shop>>
      /\ UNCHANGED <<SlotHolders, Signallers, Inserters>>
  BY <1>1, BarberGoesOn DEF TakeItem, BarberSteps
<1>3. DeskInv'
  BY <1>1, <1>2, DeskStutters
<1>4. TypeOK'
  BY <1>1, <1>2, <1>3, ThrlabAssumption DEF TypeOK, DeskInv, buffer
<1>5. MutexHeld'
  BY <1>1, <1>2 DEF MutexHeld, BarberMoves, CustomerHolds, BarberHolds, TypeOK
<1>6. CustomersInPlace'
  BY <1>1, <1>2 DEF CustomersInPlace, BarberMoves, Seated, deskVars, book, TypeOK
<1>7. BarbersInPlace'
  BY <1>1, <1>2 DEF BarbersInPlace, BarberMoves, Seated, deskVars, book, TypeOK
<1>8. RingHolds'
  BY <1>1, <1>2
  DEF RingHolds, Live, InRing, BarberMoves, Seated, deskVars, book, buffer
<1>9. Accounts'
  <2>1. /\ ItemHolders' = ItemHolders + 1 /\ Fetchers' = Fetchers
        /\ Preparers' = Preparers
    BY <1>2, BarberCounts DEF AtWork
  <2> QED
    BY <1>1, <1>2, <2>1, CountsAreNumbers
    DEF Accounts, TypeOK, deskVars, book, counters, buffer
<1>10. MainInPlace'
  BY <1>1, <1>2, MainStays DEF deskVars, BarberMoves
<1>11. NothingToComplain'
  BY <1>1, <1>2 DEF NothingToComplain, deskVars, book
<1> QED
  BY <1>3, <1>4, <1>5, <1>6, <1>7, <1>8, <1>9, <1>10, <1>11 DEF IInv

(* A barber takes the buffer's mutex. *)
LEMMA BarberLocksKeeps ==
  ASSUME IInv, NEW r \in Rooms, BarberLocks(r)
  PROVE  IInv'
<1>1. /\ TypeOK /\ DeskInv /\ MutexHeld /\ CustomersInPlace /\ BarbersInPlace
      /\ RingHolds /\ Accounts /\ MainInPlace /\ NothingToComplain
  BY DEF IInv
<1>2. /\ barber[r] = "lock" /\ BarberMoves(r, "fetch")
      /\ barber' \in [Rooms -> BarberSteps]
      /\ mutex > 0 /\ mutex' = mutex - 1
      /\ UNCHANGED <<deskVars, slots, items, buffer, seat, serving, at, shop>>
      /\ UNCHANGED <<SlotHolders, Signallers, Inserters>>
  BY <1>1, BarberGoesOn DEF BarberLocks, BarberSteps
<1>3. DeskInv'
  BY <1>1, <1>2, DeskStutters
<1>4. TypeOK'
  BY <1>1, <1>2, <1>3, ThrlabAssumption DEF TypeOK, DeskInv, buffer
<1>5. MutexHeld'
  BY <1>1, <1>2 DEF MutexHeld, BarberMoves, CustomerHolds, BarberHolds, TypeOK
<1>6. CustomersInPlace'
  BY <1>1, <1>2 DEF CustomersInPlace, BarberMoves, Seated, deskVars, book, TypeOK
<1>7. BarbersInPlace'
  BY <1>1, <1>2 DEF BarbersInPlace, BarberMoves, Seated, deskVars, book, TypeOK
<1>8. RingHolds'
  BY <1>1, <1>2
  DEF RingHolds, Live, InRing, BarberMoves, Seated, deskVars, book, buffer
<1>9. Accounts'
  <2>1. /\ ItemHolders' = ItemHolders /\ Fetchers' = Fetchers
        /\ Preparers' = Preparers
    BY <1>2, BarberCounts DEF AtWork
  <2> QED
    BY <1>1, <1>2, <2>1, CountsAreNumbers
    DEF Accounts, TypeOK, deskVars, book, counters, buffer
<1>10. MainInPlace'
  BY <1>1, <1>2, MainStays DEF deskVars, BarberMoves
<1>11. NothingToComplain'
  BY <1>1, <1>2 DEF NothingToComplain, deskVars, book
<1> QED
  BY <1>3, <1>4, <1>5, <1>6, <1>7, <1>8, <1>9, <1>10, <1>11 DEF IInv

(* A barber releases the buffer's mutex. *)
LEMMA BarberUnlocksKeeps ==
  ASSUME IInv, NEW r \in Rooms, BarberUnlocks(r)
  PROVE  IInv'
<1>1. /\ TypeOK /\ DeskInv /\ MutexHeld /\ CustomersInPlace /\ BarbersInPlace
      /\ RingHolds /\ Accounts /\ MainInPlace /\ NothingToComplain
  BY DEF IInv
<1>2. /\ barber[r] = "unlock" /\ BarberMoves(r, "free")
      /\ barber' \in [Rooms -> BarberSteps]
      /\ mutex' = mutex + 1
      /\ UNCHANGED <<deskVars, slots, items, buffer, seat, serving, at, shop>>
      /\ UNCHANGED <<SlotHolders, Signallers, Inserters>>
  BY <1>1, BarberGoesOn DEF BarberUnlocks, BarberSteps
<1>3. DeskInv'
  BY <1>1, <1>2, DeskStutters
<1>4. TypeOK'
  <2>1. mutex = 0
    BY <1>1, <1>2 DEF TypeOK, MutexHeld, BarberHolds
  <2> QED
    BY <1>1, <1>2, <1>3, <2>1 DEF TypeOK, DeskInv, buffer
<1>5. MutexHeld'
  BY <1>1, <1>2 DEF MutexHeld, BarberMoves, CustomerHolds, BarberHolds, TypeOK
<1>6. CustomersInPlace'
  BY <1>1, <1>2 DEF CustomersInPlace, BarberMoves, Seated, deskVars, book, TypeOK
<1>7. BarbersInPlace'
  BY <1>1, <1>2 DEF BarbersInPlace, BarberMoves, Seated, deskVars, book, TypeOK
<1>8. RingHolds'
  BY <1>1, <1>2
  DEF RingHolds, Live, InRing, BarberMoves, Seated, deskVars, book, buffer
<1>9. Accounts'
  <2>1. /\ ItemHolders' = ItemHolders /\ Fetchers' = Fetchers
        /\ Preparers' = Preparers
    BY <1>2, BarberCounts DEF AtWork
  <2> QED
    BY <1>1, <1>2, <2>1, CountsAreNumbers
    DEF Accounts, TypeOK, deskVars, book, counters, buffer
<1>10. MainInPlace'
  BY <1>1, <1>2, MainStays DEF deskVars, BarberMoves
<1>11. NothingToComplain'
  BY <1>1, <1>2 DEF NothingToComplain, deskVars, book
<1> QED
  BY <1>3, <1>4, <1>5, <1>6, <1>7, <1>8, <1>9, <1>10, <1>11 DEF IInv

(* A barber frees the slot of the customer he has served. *)
LEMMA FreeSlotKeeps ==
  ASSUME IInv, NEW r \in Rooms, FreeSlot(r)
  PROVE  IInv'
<1>1. /\ TypeOK /\ DeskInv /\ MutexHeld /\ CustomersInPlace /\ BarbersInPlace
      /\ RingHolds /\ Accounts /\ MainInPlace /\ NothingToComplain
  BY DEF IInv
<1>2. /\ barber[r] = "free" /\ BarberMoves(r, "items")
      /\ barber' \in [Rooms -> BarberSteps]
      /\ slots' = slots + 1
      /\ UNCHANGED <<deskVars, items, mutex, buffer, seat, serving, at, shop>>
      /\ UNCHANGED <<SlotHolders, Signallers, Inserters>>
  BY <1>1, BarberGoesOn DEF FreeSlot, BarberSteps
<1>3. DeskInv'
  BY <1>1, <1>2, DeskStutters
<1>4. TypeOK'
  <2>1. slots + 1 <= chairs
    <3>1. Fetchers >= 1
      BY <1>2, FiniteActors, Inhabited, r \in {s \in Rooms : HasFetched(s)}
      DEF Fetchers, HasFetched
    <3> QED
      BY <1>1, <3>1, CountsAreNumbers, ThrlabAssumption DEF Accounts, TypeOK
  <2> QED
    BY <1>1, <1>2, <1>3, <2>1, ThrlabAssumption DEF TypeOK, DeskInv, buffer
<1>5. MutexHeld'
  BY <1>1, <1>2 DEF MutexHeld, BarberMoves, CustomerHolds, BarberHolds, TypeOK
<1>6. CustomersInPlace'
  BY <1>1, <1>2 DEF CustomersInPlace, BarberMoves, Seated, deskVars, book, TypeOK
<1>7. BarbersInPlace'
  BY <1>1, <1>2 DEF BarbersInPlace, BarberMoves, Seated, deskVars, book, TypeOK
<1>8. RingHolds'
  BY <1>1, <1>2
  DEF RingHolds, Live, InRing, BarberMoves, Seated, deskVars, book, buffer
<1>9. Accounts'
  <2>1. /\ ItemHolders' = ItemHolders /\ Fetchers' = Fetchers - 1
        /\ Preparers' = Preparers
    BY <1>2, BarberCounts DEF AtWork
  <2> QED
    BY <1>1, <1>2, <2>1, CountsAreNumbers
    DEF Accounts, TypeOK, deskVars, book, counters, buffer
<1>10. MainInPlace'
  BY <1>1, <1>2, MainStays DEF deskVars, BarberMoves
<1>11. NothingToComplain'
  BY <1>1, <1>2 DEF NothingToComplain, deskVars, book
<1> QED
  BY <1>3, <1>4, <1>5, <1>6, <1>7, <1>8, <1>9, <1>10, <1>11 DEF IInv

(* Division with remainder. *)
LEMMA Division ==
  ASSUME NEW n \in Nat \ {0}, NEW i \in Nat
  PROVE  /\ i = n * (i \div n) + (i % n)
         /\ i \div n \in Nat /\ i % n \in 0 .. n - 1
  OBVIOUS

(* No multiple of n lies between 0 and n. *)
LEMMA Multiples ==
  ASSUME NEW n \in Nat \ {0}, NEW d \in Int
  PROVE  n * d <= 0 \/ n * d >= n
<1>1. CASE d <= 0
  BY <1>1
<1>2. CASE d >= 1
  <2>1. PICK e \in Nat : d = e + 1
    BY <1>2, d - 1 \in Nat
  <2>2. n * d = n * e + n
    BY <2>1
  <2>3. n * e \in Nat
    OBVIOUS
  <2> QED
    BY <2>2, <2>3
<1> QED
  BY <1>1, <1>2

(* Indices that are less than the size apart have different places. *)
LEMMA Apart ==
  ASSUME NEW n \in Nat \ {0}, NEW i \in Nat, NEW j \in Nat, i < j, j - i < n
  PROVE  i % n # j % n
<1> DEFINE p == i \div n
           q == j \div n
<1>1. SUFFICES ASSUME i % n = j % n PROVE FALSE
  OBVIOUS
<1>2. /\ i = n * p + (i % n) /\ p \in Nat /\ i % n \in Int
      /\ j = n * q + (j % n) /\ q \in Nat /\ j % n \in Int
  BY Division
<1> HIDE DEF p, q
<1>3. n * (q - p) = n * q - n * p /\ n * q \in Int /\ n * p \in Int
  BY <1>2
<1>4. j - i = n * (q - p)
  BY <1>1, <1>2, <1>3
<1> QED
  BY <1>2, <1>4, Multiples, q - p \in Int

(* Sem_trywait finds no slot, and the process exits. *)
LEMMA ShopFullKeeps ==
  ASSUME IInv, NEW c \in Customers, ShopFull(c)
  PROVE  IInv'
<1>1. /\ TypeOK /\ DeskInv /\ MutexHeld /\ CustomersInPlace /\ BarbersInPlace
      /\ RingHolds /\ Accounts /\ MainInPlace /\ NothingToComplain
  BY DEF IInv
<1>2. /\ at[c] = "trywait" /\ AtMoves(c, "trywait") /\ thread[c] = "running"
      /\ at' \in [Customers -> CustomerSteps]
      /\ process' = "exited"
      /\ seat' = [seat EXCEPT ![c] = 0]
      /\ UNCHANGED <<mtx, book, customer_count, thread, door, verdict, semaphores, buffer, barber, serving, shop>>
      /\ UNCHANGED <<ItemHolders, Fetchers, Preparers>>
  BY <1>1, CustomerGoesOn DEF ShopFull, CustomerSteps
<1>3. DeskInv'
  BY <1>1, <1>2, ProcessEnds
<1>4. TypeOK'
  BY <1>1, <1>2, <1>3, ThrlabAssumption
  DEF TypeOK, DeskInv, semaphores, buffer
<1>5. MutexHeld'
  BY <1>1, <1>2
  DEF MutexHeld, AtMoves, CustomerHolds, BarberHolds, semaphores
<1>6. CustomersInPlace'
  BY <1>1, <1>2
  DEF CustomersInPlace, AtMoves, Seated, book, TypeOK
<1>7. BarbersInPlace'
  BY <1>1, <1>2
  DEF BarbersInPlace, AtMoves, Seated, book, TypeOK
<1>8. RingHolds'
  BY <1>1, <1>2
  DEF RingHolds, Live, InRing, AtMoves, Seated, book, buffer
<1>9. Accounts'
  <2>1. /\ SlotHolders' = SlotHolders /\ Signallers' = Signallers
        /\ Inserters' = Inserters
    BY <1>2, CustomerCounts
  <2> QED
    BY <1>1, <1>2, <2>1, CountsAreNumbers
    DEF Accounts, TypeOK, book, counters, semaphores, buffer
<1>10. MainInPlace'
  BY <1>1, <1>2, MainStays
<1>11. NothingToComplain'
  BY <1>1, <1>2 DEF NothingToComplain, book
<1> QED
  BY <1>3, <1>4, <1>5, <1>6, <1>7, <1>8, <1>9, <1>10, <1>11 DEF IInv

(* The desk is told that the customer waits; it has no reason to complain. *)
LEMMA AcceptCustomerKeeps ==
  ASSUME IInv, NEW c \in Customers, AcceptCustomer(c)
  PROVE  IInv'
<1>1. /\ TypeOK /\ DeskInv /\ MutexHeld /\ CustomersInPlace /\ BarbersInPlace
      /\ RingHolds /\ Accounts /\ MainInPlace /\ NothingToComplain
  BY DEF IInv
<1>2. /\ at[c] = "accept" /\ AtMoves(c, "insert") /\ thread[c] = "running"
      /\ at' \in [Customers -> CustomerSteps]
      /\ Accept(c) /\ statuses[c] = "pending" /\ num_waiting < chairs
      /\ Moves(c, "waiting") /\ num_waiting' = num_waiting + 1
      /\ complaints' = complaints
      /\ UNCHANGED <<mtx, occupancy, customer_count, thread, door, verdict,
                     semaphores, buffer, seat, barber, serving, shop>>
      /\ UNCHANGED <<ItemHolders, Fetchers, Preparers>>
  <2>1. /\ at[c] = "accept" /\ AtMoves(c, "insert") /\ thread[c] = "running"
        /\ at' \in [Customers -> CustomerSteps]
        /\ Accept(c)
        /\ UNCHANGED <<semaphores, buffer, seat, barber, serving, shop>>
        /\ UNCHANGED <<ItemHolders, Fetchers, Preparers>>
    BY <1>1, CustomerGoesOn DEF AcceptCustomer, CustomerSteps
  <2>2. statuses[c] = "pending"
    BY <1>1, <2>1 DEF CustomersInPlace
  <2>3. SlotHolders >= 1
    BY <2>1, FiniteActors, Inhabited, c \in {d \in Customers : HoldsSlot(d)}
    DEF SlotHolders, HoldsSlot
  <2>4. Inserters = 0 /\ Preparers = 0
    <3>1. /\ {d \in Customers : at[d] = "insert"} = {}
          /\ {r \in Rooms : barber[r] = "prepare"} = {}
      BY <1>1, <2>1 DEF MutexHeld, CustomerHolds, BarberHolds
    <3> QED
      BY <3>1, FS_EmptySet DEF Inserters, Preparers
  <2>5. num_waiting < chairs
    BY <1>1, <2>3, <2>4, CountsAreNumbers, ThrlabAssumption DEF Accounts, TypeOK
  <2>6. AcceptGrievances(c) = {}
    BY <1>1, <2>2, <2>5, ThrlabAssumption
    DEF AcceptGrievances, DeskInv, ThrlabTypeOK
  <2>7. complaints' = complaints
    <3>1. \A k \in ComplaintKinds : complaints[k] + 0 = complaints[k]
      BY <1>1 DEF DeskInv, ThrlabTypeOK
    <3> QED
      BY <1>1, <2>1, <2>6, <3>1 DEF Accept, File, DeskInv, ThrlabTypeOK
  <2> QED
    BY <2>1, <2>2, <2>5, <2>7 DEF Accept, Moves
<1>3. DeskInv'
  BY <1>1, <1>2, AcceptKeeps
<1>4. TypeOK'
  BY <1>1, <1>2, <1>3, ThrlabAssumption
  DEF TypeOK, DeskInv, semaphores, buffer
<1>5. MutexHeld'
  BY <1>1, <1>2
  DEF MutexHeld, AtMoves, CustomerHolds, BarberHolds, semaphores
<1>6. CustomersInPlace'
  <2>1. \A d \in Customers :
          statuses'[d] = IF d = c THEN "waiting" ELSE statuses[d]
    BY <1>1, <1>2, MovesPointwise DEF DeskInv
  <2> QED
    BY <1>1, <1>2, <2>1 DEF CustomersInPlace, AtMoves, Seated, TypeOK
<1>7. BarbersInPlace'
  <2>1. \A d \in Customers :
          statuses'[d] = IF d = c THEN "waiting" ELSE statuses[d]
    BY <1>1, <1>2, MovesPointwise DEF DeskInv
  <2> QED
    BY <1>1, <1>2, <2>1 DEF BarbersInPlace, AtMoves, Seated
<1>8. RingHolds'
  <2>1. \A d \in Customers :
          statuses'[d] = IF d = c THEN "waiting" ELSE statuses[d]
    BY <1>1, <1>2, MovesPointwise DEF DeskInv
  <2> QED
    BY <1>1, <1>2, <2>1
    DEF RingHolds, Live, InRing, AtMoves, Seated, buffer
<1>9. Accounts'
  <2>1. /\ SlotHolders' = SlotHolders /\ Signallers' = Signallers
        /\ Inserters' = Inserters + 1
    BY <1>2, CustomerCounts
  <2> QED
    BY <1>1, <1>2, <2>1, CountsAreNumbers
    DEF Accounts, TypeOK, semaphores, buffer
<1>10. MainInPlace'
  BY <1>1, <1>2, MainStays
<1>11. NothingToComplain'
  BY <1>1, <1>2 DEF NothingToComplain
<1> QED
  BY <1>3, <1>4, <1>5, <1>6, <1>7, <1>8, <1>9, <1>10, <1>11 DEF IInv

(* The customer is put in the ring. *)
LEMMA InsertKeeps ==
  ASSUME IInv, NEW c \in Customers, Insert(c)
  PROVE  IInv'
<1>1. /\ TypeOK /\ DeskInv /\ MutexHeld /\ CustomersInPlace /\ BarbersInPlace
      /\ RingHolds /\ Accounts /\ MainInPlace /\ NothingToComplain
  BY DEF IInv
<1>2. /\ at[c] = "insert" /\ AtMoves(c, "unlock") /\ thread[c] = "running"
      /\ at' \in [Customers -> CustomerSteps]
      /\ rear' = rear + 1
      /\ ring' = [ring EXCEPT ![(rear + 1) % chairs] = c]
      /\ UNCHANGED <<deskVars, semaphores, front, seat, barber, serving, shop>>
      /\ UNCHANGED <<ItemHolders, Fetchers, Preparers>>
  BY <1>1, CustomerGoesOn DEF Insert, CustomerSteps
<1>3. DeskInv'
  BY <1>1, <1>2, DeskStutters
<1>4. TypeOK'
  <2>1. rear' \in Nat
    BY <1>1, <1>2 DEF TypeOK
  <2>2. ring' \in [Chairs -> Customers \cup {NULL}]
    <3>1. ring \in [Chairs -> Customers \cup {NULL}]
      BY <1>1 DEF TypeOK
    <3>2. \A i : [ring EXCEPT ![i] = c] \in [Chairs -> Customers \cup {NULL}]
      BY <3>1
    <3> QED
      BY <1>2, <3>2
  <2> QED
    BY <1>1, <1>2, <1>3, <2>1, <2>2 DEF TypeOK, DeskInv, semaphores
<1>5. MutexHeld'
  BY <1>1, <1>2
  DEF MutexHeld, AtMoves, CustomerHolds, BarberHolds, semaphores
<1>6. CustomersInPlace'
  BY <1>1, <1>2 DEF CustomersInPlace, AtMoves, Seated, deskVars, book, TypeOK
<1>7. BarbersInPlace'
  BY <1>1, <1>2 DEF BarbersInPlace, AtMoves, Seated, deskVars, book, TypeOK
<1>8. RingHolds'
  <2>1. rear - front < chairs /\ front <= rear
    <3>1. SlotHolders >= 1
      BY <1>2, FiniteActors, Inhabited, c \in {d \in Customers : HoldsSlot(d)}
      DEF SlotHolders, HoldsSlot
    <3> QED
      BY <1>1, <3>1, CountsAreNumbers, ThrlabAssumption DEF Accounts, TypeOK
  <2>2. /\ front \in Nat /\ rear \in Nat /\ chairs \in Nat \ {0}
        /\ \A i \in Nat : i % chairs \in Chairs
    BY <1>1, ThrlabAssumption DEF TypeOK, Chairs
  <2>3. ASSUME NEW i \in Live
        PROVE  InRing(i)' = InRing(i)
    <3>1. i \in Nat /\ i < rear + 1 /\ rear + 1 - i < chairs
      BY <2>1, <2>2, <2>3 DEF Live
    <3>2. i % chairs # (rear + 1) % chairs
      <4> DEFINE k == rear + 1
      <4>1. k \in Nat /\ i \in Nat /\ i < k /\ k - i < chairs
        BY <2>2, <3>1
      <4> HIDE DEF k
      <4>2. i % chairs # k % chairs
        BY <2>2, <4>1, Apart
      <4> QED
        BY <4>2 DEF k
    <3> QED
      BY <1>1, <1>2, <2>2, <3>1, <3>2 DEF InRing, TypeOK
  <2>4. \A i \in Nat : i = rear + 1 => InRing(i)' = c
    BY <1>1, <1>2, <2>2 DEF InRing, TypeOK
  <2>5. \A i \in Live' : i \in Nat /\ (i \in Live \/ i = rear + 1)
    BY <1>2, <2>1, <2>2 DEF Live
  <2>6. /\ statuses[c] = "waiting" /\ ~Seated(c)
        /\ \A r \in Rooms : barber[r] = "prepare" => serving[r] # c
    BY <1>1, <1>2 DEF CustomersInPlace, BarbersInPlace, Seated
  <2>7. \A i \in Live : InRing(i) # c
    BY <1>1, <2>6 DEF RingHolds
  <2>8. /\ \A d \in Customers : Seated(d) => Seated(d)'
        /\ Seated(c)' /\ statuses' = statuses
        /\ UNCHANGED <<barber, serving>>
    BY <1>2 DEF AtMoves, Seated, deskVars, book
  <2>9. \A i \in Live' :
          /\ InRing(i)' \in Customers
          /\ Seated(InRing(i))'
          /\ statuses'[InRing(i)'] = "waiting"
    <3>1. SUFFICES ASSUME NEW i \in Live'
                   PROVE  /\ InRing(i)' \in Customers
                          /\ Seated(InRing(i))'
                          /\ statuses'[InRing(i)'] = "waiting"
      OBVIOUS
    <3>2. CASE i = rear + 1
      <4>1. InRing(i)' = c
        BY <2>4, <2>5, <3>1, <3>2
      <4> QED
        BY <2>6, <2>8, <4>1 DEF Seated
    <3>3. CASE i \in Live
      BY <1>1, <2>3, <2>8, <3>3 DEF RingHolds, Seated
    <3> QED
      BY <2>5, <3>2, <3>3
  <2>10. \A i, j \in Live' : InRing(i)' = InRing(j)' => i = j
    BY <1>1, <2>3, <2>4, <2>5, <2>7 DEF RingHolds
  <2>11. \A i \in Live', r \in Rooms :
           barber'[r] = "prepare" => serving'[r] # InRing(i)'
    BY <1>1, <2>3, <2>4, <2>5, <2>6, <2>8 DEF RingHolds
  <2> QED
    BY <2>9, <2>10, <2>11 DEF RingHolds
<1>9. Accounts'
  <2>1. /\ SlotHolders' = SlotHolders - 1 /\ Signallers' = Signallers + 1
        /\ Inserters' = Inserters - 1
    BY <1>2, CustomerCounts
  <2> QED
    BY <1>1, <1>2, <2>1, CountsAreNumbers
    DEF Accounts, TypeOK, deskVars, book, counters, semaphores
<1>10. MainInPlace'
  BY <1>1, <1>2, MainStays DEF deskVars
<1>11. NothingToComplain'
  BY <1>1, <1>2 DEF NothingToComplain, deskVars, book
<1> QED
  BY <1>3, <1>4, <1>5, <1>6, <1>7, <1>8, <1>9, <1>10, <1>11 DEF IInv

(* The customer's callback ends after his haircut; again no complaint. *)
LEMMA LeaveKeeps ==
  ASSUME IInv, NEW c \in Customers, Leave(c)
  PROVE  IInv'
<1>1. /\ TypeOK /\ DeskInv /\ MutexHeld /\ CustomersInPlace /\ BarbersInPlace
      /\ RingHolds /\ Accounts /\ MainInPlace /\ NothingToComplain
  BY DEF IInv
<1>2. /\ at[c] = "leave" /\ AtMoves(c, "gone") /\ thread[c] = "running"
      /\ at' \in [Customers -> CustomerSteps]
      /\ EndCallback(c) /\ thread' = [thread EXCEPT ![c] = "returned"]
      /\ complaints' = complaints
      /\ UNCHANGED <<mtx, statuses, occupancy, counters, customer_count, door,
                     verdict, semaphores, buffer, seat, barber, serving, shop>>
      /\ UNCHANGED <<ItemHolders, Fetchers, Preparers>>
  <2>1. /\ at[c] = "leave" /\ AtMoves(c, "gone") /\ thread[c] = "running"
        /\ at' \in [Customers -> CustomerSteps]
        /\ EndCallback(c)
        /\ UNCHANGED <<semaphores, buffer, seat, barber, serving, shop>>
        /\ UNCHANGED <<ItemHolders, Fetchers, Preparers>>
    BY <1>1, CustomerGoesOn DEF Leave, CustomerSteps
  <2>2. statuses[c] = "done"
    BY <1>1, <2>1 DEF CustomersInPlace
  <2>3. complaints' = complaints
    <3>1. \A k \in ComplaintKinds : complaints[k] + 0 = complaints[k]
      BY <1>1 DEF DeskInv, ThrlabTypeOK
    <3>2. {k \in {<<"dismiss", "early">>} : statuses[c] = "cutting"} = {}
      BY <2>2
    <3> QED
      BY <1>1, <2>1, <3>1, <3>2 DEF EndCallback, File, DeskInv, ThrlabTypeOK
  <2> QED
    BY <2>1, <2>3 DEF EndCallback
<1>3. DeskInv'
  BY <1>1, <1>2, EndCallbackKeeps
<1>4. TypeOK'
  BY <1>1, <1>2, <1>3, ThrlabAssumption
  DEF TypeOK, DeskInv, semaphores, buffer
<1>5. MutexHeld'
  BY <1>1, <1>2
  DEF MutexHeld, AtMoves, CustomerHolds, BarberHolds, semaphores
<1>6. CustomersInPlace'
  BY <1>1, <1>2
  DEF CustomersInPlace, AtMoves, Seated, DeskInv, ThrlabTypeOK
<1>7. BarbersInPlace'
  BY <1>1, <1>2 DEF BarbersInPlace, AtMoves, Seated
<1>8. RingHolds'
  BY <1>1, <1>2
  DEF RingHolds, Live, InRing, AtMoves, Seated, buffer
<1>9. Accounts'
  <2>1. /\ SlotHolders' = SlotHolders /\ Signallers' = Signallers
        /\ Inserters' = Inserters
    BY <1>2, CustomerCounts
  <2> QED
    BY <1>1, <1>2, <2>1, CountsAreNumbers
    DEF Accounts, TypeOK, counters, semaphores, buffer
<1>10. MainInPlace'
  BY <1>1, <1>2, MainStays
<1>11. NothingToComplain'
  BY <1>1, <1>2 DEF NothingToComplain
<1> QED
  BY <1>3, <1>4, <1>5, <1>6, <1>7, <1>8, <1>9, <1>10, <1>11 DEF IInv

(* The barber fetches the first customer of the ring. *)
LEMMA FetchKeeps ==
  ASSUME IInv, NEW r \in Rooms, Fetch(r)
  PROVE  IInv'
<1>1. /\ TypeOK /\ DeskInv /\ MutexHeld /\ CustomersInPlace /\ BarbersInPlace
      /\ RingHolds /\ Accounts /\ MainInPlace /\ NothingToComplain
  BY DEF IInv
<1>2. /\ barber[r] = "fetch" /\ BarberMoves(r, "prepare")
      /\ barber' \in [Rooms -> BarberSteps]
      /\ front' = front + 1
      /\ serving' = [serving EXCEPT ![r] = InRing(front + 1)]
      /\ UNCHANGED <<deskVars, semaphores, rear, ring, seat, at, shop>>
      /\ UNCHANGED <<SlotHolders, Signallers, Inserters>>
      /\ front + 1 \in Live /\ InRing(front + 1) \in Customers
      /\ Seated(InRing(front + 1)) /\ statuses[InRing(front + 1)] = "waiting"
  <2>1. /\ barber[r] = "fetch" /\ BarberMoves(r, "prepare")
        /\ barber' \in [Rooms -> BarberSteps]
        /\ front' = front + 1
        /\ serving' = [serving EXCEPT ![r] = InRing(front + 1)]
        /\ UNCHANGED <<deskVars, semaphores, rear, ring, seat, at, shop>>
        /\ UNCHANGED <<SlotHolders, Signallers, Inserters>>
    BY <1>1, BarberGoesOn DEF Fetch, BarberSteps, InRing
  <2>2. ItemHolders >= 1
    BY <2>1, FiniteActors, Inhabited, r \in {s \in Rooms : HasItem(s)}
    DEF ItemHolders, HasItem
  <2>3. front + 1 \in Live
    BY <1>1, <2>2, CountsAreNumbers DEF Accounts, TypeOK, Live
  <2> QED
    BY <1>1, <2>1, <2>3 DEF RingHolds
<1>3. DeskInv'
  BY <1>1, <1>2, DeskStutters
<1>4. TypeOK'
  BY <1>1, <1>2, <1>3, ThrlabAssumption DEF TypeOK, DeskInv, semaphores
<1>5. MutexHeld'
  BY <1>1, <1>2
  DEF MutexHeld, BarberMoves, CustomerHolds, BarberHolds, semaphores
<1>6. CustomersInPlace'
  BY <1>1, <1>2 DEF CustomersInPlace, BarberMoves, Seated, deskVars, book, TypeOK
<1>7. BarbersInPlace'
  <2>1. \A s \in Rooms : /\ serving'[s] = IF s = r THEN InRing(front + 1) ELSE serving[s]
                         /\ barber'[s] = IF s = r THEN "prepare" ELSE barber[s]
    BY <1>1, <1>2 DEF TypeOK, BarberMoves
  <2> QED
    BY <1>1, <1>2, <2>1 DEF BarbersInPlace, Seated, deskVars, book
<1>8. RingHolds'
  <2>1. \A s \in Rooms : /\ serving'[s] = IF s = r THEN InRing(front + 1) ELSE serving[s]
                         /\ barber'[s] = IF s = r THEN "prepare" ELSE barber[s]
    BY <1>1, <1>2 DEF TypeOK, BarberMoves
  <2>2. \A i \in Live' : i \in Live /\ i # front + 1 /\ InRing(i)' = InRing(i)
    BY <1>1, <1>2 DEF Live, TypeOK, InRing
  <2>3. \A c \in Customers : Seated(c)' = Seated(c) /\ statuses' = statuses
    BY <1>2 DEF Seated, deskVars, book
  <2>4. \A i \in Live' :
          /\ InRing(i)' \in Customers
          /\ Seated(InRing(i))'
          /\ statuses'[InRing(i)'] = "waiting"
    BY <1>1, <2>2, <2>3 DEF RingHolds, Seated
  <2>5. \A i, j \in Live' : InRing(i)' = InRing(j)' => i = j
    BY <1>1, <2>2 DEF RingHolds
  <2>6. \A i \in Live', s \in Rooms :
          barber'[s] = "prepare" => serving'[s] # InRing(i)'
    BY <1>1, <1>2, <2>1, <2>2 DEF RingHolds
  <2> QED
    BY <2>4, <2>5, <2>6 DEF RingHolds
<1>9. Accounts'
  <2>1. /\ ItemHolders' = ItemHolders - 1 /\ Fetchers' = Fetchers + 1
        /\ Preparers' = Preparers + 1
    BY <1>2, BarberCounts DEF AtWork
  <2> QED
    BY <1>1, <1>2, <2>1, CountsAreNumbers
    DEF Accounts, TypeOK, deskVars, book, counters, semaphores
<1>10. MainInPlace'
  BY <1>1, <1>2, MainStays DEF deskVars, BarberMoves
<1>11. NothingToComplain'
  BY <1>1, <1>2 DEF NothingToComplain, deskVars, book
<1> QED
  BY <1>3, <1>4, <1>5, <1>6, <1>7, <1>8, <1>9, <1>10, <1>11 DEF IInv

(* The desk is told that the haircut begins; no complaint. *)
LEMMA PrepareCustomerKeeps ==
  ASSUME IInv, NEW r \in Rooms, PrepareCustomer(r)
  PROVE  IInv'
<1>1. /\ TypeOK /\ DeskInv /\ MutexHeld /\ CustomersInPlace /\ BarbersInPlace
      /\ RingHolds /\ Accounts /\ MainInPlace /\ NothingToComplain
  BY DEF IInv
<1>2. /\ barber[r] = "prepare" /\ BarberMoves(r, "dismiss")
      /\ barber' \in [Rooms -> BarberSteps]
      /\ Prepare(serving[r], r, FALSE)
      /\ Moves(serving[r], "cutting") /\ num_waiting' = num_waiting - 1
      /\ occupancy' = [occupancy EXCEPT ![r] = serving[r]]
      /\ complaints' = complaints
      /\ UNCHANGED <<mtx, customer_count, thread, door, verdict, semaphores, buffer,
                     seat, serving, at, shop>>
      /\ UNCHANGED <<SlotHolders, Signallers, Inserters>>
      /\ serving[r] \in Customers /\ Seated(serving[r])
      /\ statuses[serving[r]] = "waiting" /\ thread[serving[r]] # "none"
  <2>1. /\ barber[r] = "prepare" /\ BarberMoves(r, "dismiss")
        /\ barber' \in [Rooms -> BarberSteps]
        /\ Prepare(serving[r], r, FALSE)
        /\ UNCHANGED <<semaphores, buffer, seat, serving, at, shop>>
        /\ UNCHANGED <<SlotHolders, Signallers, Inserters>>
    BY <1>1, BarberGoesOn DEF PrepareCustomer, BarberSteps
  <2>2. /\ serving[r] \in Customers /\ Seated(serving[r])
        /\ statuses[serving[r]] = "waiting" /\ occupancy[r] = NULL
    BY <1>1, <2>1 DEF BarbersInPlace
  <2>3. thread[serving[r]] # "none"
    BY <1>1, <2>2 DEF CustomersInPlace, Seated
  <2>4. PrepareGrievances(serving[r], r, FALSE) = {}
    BY <2>2, ThrlabAssumption DEF PrepareGrievances
  <2>5. complaints' = complaints
    <3>1. \A k \in ComplaintKinds : complaints[k] + 0 = complaints[k]
      BY <1>1 DEF DeskInv, ThrlabTypeOK
    <3> QED
      BY <1>1, <2>1, <2>4, <3>1 DEF Prepare, File, DeskInv, ThrlabTypeOK
  <2> QED
    BY <2>1, <2>2, <2>3, <2>5 DEF Prepare, Moves
<1>3. DeskInv'
  BY <1>1, <1>2, PrepareKeeps
<1>4. TypeOK'
  BY <1>1, <1>2, <1>3, ThrlabAssumption
  DEF TypeOK, DeskInv, semaphores, buffer
<1>5. MutexHeld'
  BY <1>1, <1>2
  DEF MutexHeld, BarberMoves, CustomerHolds, BarberHolds, semaphores
<1>6. CustomersInPlace'
  <2>1. \A d \in Customers :
          statuses'[d] = IF d = serving[r] THEN "cutting" ELSE statuses[d]
    BY <1>1, <1>2, MovesPointwise DEF DeskInv
  <2> QED
    BY <1>1, <1>2, <2>1 DEF CustomersInPlace, Seated
<1>7. BarbersInPlace'
  <2>1. \A d \in Customers :
          statuses'[d] = IF d = serving[r] THEN "cutting" ELSE statuses[d]
    BY <1>1, <1>2, MovesPointwise DEF DeskInv
  <2>2. /\ BarberHolds(r)
        /\ \A s \in Rooms : s # r => ~BarberHolds(s)
    BY <1>1, <1>2 DEF MutexHeld, BarberHolds
  <2>3. \A s \in Rooms : occupancy'[s] = IF s = r THEN serving[r] ELSE occupancy[s]
    BY <1>1, <1>2 DEF DeskInv, ThrlabTypeOK
  <2> QED
    BY <1>1, <1>2, <2>1, <2>2, <2>3
    DEF BarbersInPlace, BarberMoves, BarberHolds, Seated, CustomersInPlace, TypeOK
<1>8. RingHolds'
  <2>1. \A d \in Customers :
          statuses'[d] = IF d = serving[r] THEN "cutting" ELSE statuses[d]
    BY <1>1, <1>2, MovesPointwise DEF DeskInv
  <2> QED
    BY <1>1, <1>2, <2>1
    DEF RingHolds, Live, InRing, BarberMoves, Seated, buffer
<1>9. Accounts'
  <2>1. /\ ItemHolders' = ItemHolders /\ Fetchers' = Fetchers
        /\ Preparers' = Preparers - 1
    BY <1>2, BarberCounts DEF AtWork
  <2> QED
    BY <1>1, <1>2, <2>1, CountsAreNumbers
    DEF Accounts, TypeOK, semaphores, buffer,
        DeskInv, ThrlabTypeOK
<1>10. MainInPlace'
  BY <1>1, <1>2, MainStays DEF BarberMoves
<1>11. NothingToComplain'
  BY <1>1, <1>2 DEF NothingToComplain
<1> QED
  BY <1>3, <1>4, <1>5, <1>6, <1>7, <1>8, <1>9, <1>10, <1>11 DEF IInv

(* The desk is told that the haircut is over; it may only find it slow. *)
LEMMA DismissCustomerKeeps ==
  ASSUME IInv, NEW r \in Rooms, DismissCustomer(r)
  PROVE  IInv'
<1>1. /\ TypeOK /\ DeskInv /\ MutexHeld /\ CustomersInPlace /\ BarbersInPlace
      /\ RingHolds /\ Accounts /\ MainInPlace /\ NothingToComplain
  BY DEF IInv
<1>2. /\ barber[r] = "dismiss" /\ BarberMoves(r, "wake")
      /\ barber' \in [Rooms -> BarberSteps]
      /\ \E pace \in Paces : Dismiss(serving[r], r, FALSE, pace)
      /\ Moves(serving[r], "done") /\ num_waiting' = num_waiting
      /\ occupancy' = [occupancy EXCEPT ![r] = NULL]
      /\ \A k \in ComplaintKinds \ {<<"cut", "slow">>} :
           complaints'[k] = complaints[k]
      /\ UNCHANGED <<mtx, customer_count, thread, door, verdict, semaphores, buffer,
                     seat, serving, at, shop>>
      /\ UNCHANGED <<SlotHolders, Signallers, Inserters>>
      /\ serving[r] \in Customers /\ Seated(serving[r])
      /\ statuses[serving[r]] = "cutting" /\ thread[serving[r]] # "none"
  <2>1. /\ barber[r] = "dismiss" /\ BarberMoves(r, "wake")
        /\ barber' \in [Rooms -> BarberSteps]
        /\ \E pace \in Paces \ {"fast"} : Dismiss(serving[r], r, FALSE, pace)
        /\ UNCHANGED <<semaphores, buffer, seat, serving, at, shop>>
        /\ UNCHANGED <<SlotHolders, Signallers, Inserters>>
    BY <1>1, BarberGoesOn DEF DismissCustomer, BarberSteps
  <2>2. PICK pace \in Paces \ {"fast"} : Dismiss(serving[r], r, FALSE, pace)
    BY <2>1
  <2>3. /\ serving[r] \in Customers /\ Seated(serving[r])
        /\ occupancy[r] = serving[r]
    BY <1>1, <2>1 DEF BarbersInPlace
  <2>4. statuses[serving[r]] = "cutting"
    BY <1>1, <2>3, ThrlabAssumption DEF DeskInv, RoomsAgree
  <2>5. thread[serving[r]] # "none"
    BY <1>1, <2>3 DEF CustomersInPlace, Seated
  <2>6. \A k \in ComplaintKinds \ {<<"cut", "slow">>} :
          complaints'[k] = complaints[k]
    <3>1. \A k \in ComplaintKinds : complaints[k] + 0 = complaints[k]
      BY <1>1 DEF DeskInv, ThrlabTypeOK
    <3>2. DismissGrievances(serving[r], r, FALSE, pace) \subseteq {<<"cut", "slow">>}
      BY <2>3, <2>4 DEF DismissGrievances, Paces
    <3> QED
      BY <2>2, <3>1, <3>2 DEF Dismiss, File
  <2> QED
    BY <2>1, <2>2, <2>3, <2>4, <2>5, <2>6 DEF Dismiss, Moves
<1>3. DeskInv'
  BY <1>1, <1>2, DismissKeeps
<1>4. TypeOK'
  BY <1>1, <1>2, <1>3, ThrlabAssumption
  DEF TypeOK, DeskInv, semaphores, buffer
<1>5. MutexHeld'
  BY <1>1, <1>2
  DEF MutexHeld, BarberMoves, CustomerHolds, BarberHolds, semaphores
<1>6. CustomersInPlace'
  <2>1. \A d \in Customers :
          statuses'[d] = IF d = serving[r] THEN "done" ELSE statuses[d]
    BY <1>1, <1>2, MovesPointwise DEF DeskInv
  <2> QED
    BY <1>1, <1>2, <2>1 DEF CustomersInPlace, Seated
<1>7. BarbersInPlace'
  <2>1. \A d \in Customers :
          statuses'[d] = IF d = serving[r] THEN "done" ELSE statuses[d]
    BY <1>1, <1>2, MovesPointwise DEF DeskInv
  <2>2. /\ BarberHolds(r)
        /\ \A s \in Rooms : s # r => ~BarberHolds(s)
    BY <1>1, <1>2 DEF MutexHeld, BarberHolds
  <2>3. \A s \in Rooms : occupancy'[s] = IF s = r THEN NULL ELSE occupancy[s]
    BY <1>1, <1>2 DEF DeskInv, ThrlabTypeOK
  <2> QED
    BY <1>1, <1>2, <2>1, <2>2, <2>3
    DEF BarbersInPlace, BarberMoves, BarberHolds, Seated, CustomersInPlace, TypeOK
<1>8. RingHolds'
  <2>1. \A d \in Customers :
          statuses'[d] = IF d = serving[r] THEN "done" ELSE statuses[d]
    BY <1>1, <1>2, MovesPointwise DEF DeskInv
  <2> QED
    BY <1>1, <1>2, <2>1
    DEF RingHolds, Live, InRing, BarberMoves, Seated, buffer
<1>9. Accounts'
  <2>1. /\ ItemHolders' = ItemHolders /\ Fetchers' = Fetchers
        /\ Preparers' = Preparers
    BY <1>2, BarberCounts DEF AtWork
  <2> QED
    BY <1>1, <1>2, <2>1, CountsAreNumbers
    DEF Accounts, TypeOK, semaphores, buffer,
        DeskInv, ThrlabTypeOK
<1>10. MainInPlace'
  BY <1>1, <1>2, MainStays DEF BarberMoves
<1>11. NothingToComplain'
  BY <1>1, <1>2 DEF NothingToComplain
<1> QED
  BY <1>3, <1>4, <1>5, <1>6, <1>7, <1>8, <1>9, <1>10, <1>11 DEF IInv

(* The barber wakes the customer he has dismissed. *)
LEMMA WakeKeeps ==
  ASSUME IInv, NEW r \in Rooms, Wake(r)
  PROVE  IInv'
<1>1. /\ TypeOK /\ DeskInv /\ MutexHeld /\ CustomersInPlace /\ BarbersInPlace
      /\ RingHolds /\ Accounts /\ MainInPlace /\ NothingToComplain
  BY DEF IInv
<1>2. /\ barber[r] = "wake" /\ BarberMoves(r, "unlock")
      /\ barber' \in [Rooms -> BarberSteps]
      /\ serving[r] \in Customers /\ Seated(serving[r])
      /\ statuses[serving[r]] = "done" /\ seat[serving[r]] = 0
      /\ seat' = [seat EXCEPT ![serving[r]] = 1]
      /\ serving' = [serving EXCEPT ![r] = NULL]
      /\ UNCHANGED <<deskVars, semaphores, buffer, at, shop>>
      /\ UNCHANGED <<SlotHolders, Signallers, Inserters>>
  <2>1. /\ barber[r] = "wake" /\ BarberMoves(r, "unlock")
        /\ barber' \in [Rooms -> BarberSteps]
        /\ seat' = [seat EXCEPT ![serving[r]] = seat[serving[r]] + 1]
        /\ serving' = [serving EXCEPT ![r] = NULL]
        /\ UNCHANGED <<deskVars, semaphores, buffer, at, shop>>
        /\ UNCHANGED <<SlotHolders, Signallers, Inserters>>
    BY <1>1, BarberGoesOn DEF Wake, BarberSteps
  <2>2. /\ serving[r] \in Customers /\ Seated(serving[r])
        /\ statuses[serving[r]] = "done" /\ seat[serving[r]] = 0
    BY <1>1, <2>1 DEF BarbersInPlace
  <2> QED
    BY <2>1, <2>2
<1>3. DeskInv'
  BY <1>1, <1>2, DeskStutters
<1>4. TypeOK'
  BY <1>1, <1>2, <1>3, ThrlabAssumption
  DEF TypeOK, DeskInv, semaphores, buffer
<1>5. MutexHeld'
  BY <1>1, <1>2
  DEF MutexHeld, BarberMoves, CustomerHolds, BarberHolds, semaphores
<1>6. CustomersInPlace'
  BY <1>1, <1>2 DEF CustomersInPlace, BarberMoves, Seated, deskVars, book, TypeOK
<1>7. BarbersInPlace'
  <2>1. \A s \in Rooms : s # r => barber'[s] # "wake" /\ serving'[s] = serving[s]
    BY <1>1, <1>2 DEF MutexHeld, BarberHolds, BarberMoves, TypeOK
  <2> QED
    BY <1>1, <1>2, <2>1
    DEF BarbersInPlace, BarberMoves, Seated, deskVars, book
<1>8. RingHolds'
  <2>1. \A s \in Rooms : barber'[s] = "prepare" =>
          barber[s] = "prepare" /\ serving'[s] = serving[s]
    BY <1>1, <1>2 DEF BarberMoves, TypeOK
  <2> QED
    BY <1>1, <1>2, <2>1
    DEF RingHolds, Live, InRing, Seated, deskVars, book, buffer
<1>9. Accounts'
  <2>1. /\ ItemHolders' = ItemHolders /\ Fetchers' = Fetchers
        /\ Preparers' = Preparers
    BY <1>2, BarberCounts DEF AtWork
  <2> QED
    BY <1>1, <1>2, <2>1, CountsAreNumbers
    DEF Accounts, TypeOK, deskVars, book, counters, semaphores,
        buffer
<1>10. MainInPlace'
  BY <1>1, <1>2, MainStays DEF deskVars, BarberMoves
<1>11. NothingToComplain'
  BY <1>1, <1>2 DEF NothingToComplain, deskVars, book
<1> QED
  BY <1>3, <1>4, <1>5, <1>6, <1>7, <1>8, <1>9, <1>10, <1>11 DEF IInv

(* A barber's thread is created. *)
LEMMA HireKeeps ==
  ASSUME IInv, NEW r \in Rooms, Hire(r)
  PROVE  IInv'
<1>1. /\ TypeOK /\ DeskInv /\ MutexHeld /\ CustomersInPlace /\ BarbersInPlace
      /\ RingHolds /\ Accounts /\ MainInPlace /\ NothingToComplain
  BY DEF IInv
<1>2. /\ barber[r] = "unhired" /\ BarberMoves(r, "items")
      /\ barber' \in [Rooms -> BarberSteps]
      /\ UNCHANGED <<deskVars, semaphores, buffer, seat, serving, at, shop>>
      /\ UNCHANGED <<SlotHolders, Signallers, Inserters>>
  BY <1>1, BarberGoesOn DEF Hire, BarberSteps
<1>3. DeskInv'
  BY <1>1, <1>2, DeskStutters
<1>4. TypeOK'
  BY <1>1, <1>2, <1>3 DEF TypeOK, DeskInv, semaphores, buffer
<1>5. MutexHeld'
  BY <1>1, <1>2
  DEF MutexHeld, BarberMoves, CustomerHolds, BarberHolds, semaphores
<1>6. CustomersInPlace'
  BY <1>1, <1>2 DEF CustomersInPlace, BarberMoves, Seated, deskVars, book, TypeOK
<1>7. BarbersInPlace'
  BY <1>1, <1>2 DEF BarbersInPlace, BarberMoves, Seated, deskVars, book, TypeOK
<1>8. RingHolds'
  BY <1>1, <1>2
  DEF RingHolds, Live, InRing, BarberMoves, Seated, deskVars, book, buffer
<1>9. Accounts'
  <2>1. /\ ItemHolders' = ItemHolders /\ Fetchers' = Fetchers
        /\ Preparers' = Preparers
    BY <1>2, BarberCounts DEF AtWork
  <2> QED
    BY <1>1, <1>2, <2>1, CountsAreNumbers
    DEF Accounts, TypeOK, deskVars, book, counters, semaphores,
        buffer
<1>10. MainInPlace'
  BY <1>1, <1>2, MainStays DEF deskVars, BarberMoves
<1>11. NothingToComplain'
  BY <1>1, <1>2 DEF NothingToComplain, deskVars, book
<1> QED
  BY <1>3, <1>4, <1>5, <1>6, <1>7, <1>8, <1>9, <1>10, <1>11 DEF IInv

(***************************************************************************)
(* The steps of the main thread.                                           *)
(***************************************************************************)

(* Neither the threads nor the tables move: only main, or the process.     *)
LEMMA OnlyMainMoves ==
  ASSUME IInv, process' \in {"running", "exited", "returned"},
         UNCHANGED <<mtx, book, customer_count, thread, door, verdict>>,
         UNCHANGED <<semaphores, buffer, seat, at, barber, serving>>,
         shop' = shop \/ (shop' = "cleaned" /\ door = "closed")
  PROVE  IInv'
<1>1. /\ TypeOK /\ DeskInv /\ MutexHeld /\ CustomersInPlace /\ BarbersInPlace
      /\ RingHolds /\ Accounts /\ MainInPlace /\ NothingToComplain
  BY DEF IInv
<1>2. DeskInv'
  BY <1>1, ProcessEnds
<1>3. TypeOK'
  BY <1>1, <1>2 DEF TypeOK, DeskInv, semaphores, buffer
<1>4. MutexHeld' /\ BarbersInPlace' /\ RingHolds' /\ CustomersInPlace'
  BY <1>1
  DEF MutexHeld, CustomerHolds, BarberHolds, BarbersInPlace, RingHolds,
      CustomersInPlace, Seated, Live, InRing, semaphores, buffer, book
<1>5. Accounts'
  BY <1>1
  DEF Accounts, SlotHolders, Signallers, Inserters, ItemHolders, Fetchers,
      Preparers, HoldsSlot, MustSignal, HasItem, HasFetched, semaphores,
      buffer, book, counters
<1>6. MainInPlace' /\ NothingToComplain'
  BY <1>1 DEF MainInPlace, AllHired, NothingToComplain, book
<1> QED
  BY <1>2, <1>3, <1>4, <1>5, <1>6 DEF IInv

(* The door and the cleanup move only customers who are not in the shop:   *)
(* one who comes in, or one whose thread has returned.                     *)
LEMMA DeskMoves ==
  ASSUME DeskInv, DoorStep \/ CleanupStep
  PROVE  /\ UNCHANGED <<occupancy, num_waiting, complaints>>
         /\ door # "closed"
         /\ \A c \in Customers :
              \/ statuses'[c] = statuses[c]
              \/ statuses[c] = "absent" /\ thread'[c] = "none"
         /\ \A c \in Customers :
              \/ thread'[c] = thread[c]
              \/ thread[c] = "none" /\ thread'[c] = "running"
                   /\ statuses[c] = "pending" /\ statuses'[c] = "pending"
              \/ thread[c] = "returned" /\ thread'[c] = "joined"
<1>1. ThrlabTypeOK /\ DoorAgrees
  BY DEF DeskInv
<1>2. CASE AddCustomer
  <2>1. /\ UNCHANGED <<occupancy, num_waiting, complaints, thread>>
        /\ door = "arrival"
    BY <1>2 DEF AddCustomer, counters
  <2>2. \A c \in Customers :
          \/ statuses'[c] = statuses[c]
          \/ statuses[c] = "absent" /\ thread[c] = "none"
    BY <1>1, <1>2, ThrlabAssumption
    DEF AddCustomer, ThrlabTypeOK, DoorAgrees, Customers
  <2> QED
    BY <2>1, <2>2
<1>3. CASE CreateThread
  <2>1. /\ UNCHANGED <<occupancy, num_waiting, complaints, statuses>>
        /\ door = "create"
    BY <1>3 DEF CreateThread, book, counters
  <2>2. \A c \in Customers :
          \/ thread'[c] = thread[c]
          \/ thread[c] = "none" /\ thread'[c] = "running"
               /\ statuses[c] = "pending"
    BY <1>1, <1>3, ThrlabAssumption
    DEF CreateThread, ThrlabTypeOK, DoorAgrees, Customers
  <2> QED
    BY <2>1, <2>2
<1>4. CASE CountPending \/ ThreadFails \/ DoorExits \/ LastCustomerIn \/ CloseDesk
  BY <1>4
  DEF CountPending, ThreadFails, DoorExits, LastCustomerIn, CloseDesk, book,
      counters
<1>5. ASSUME NEW d \in Customers, Join(d)
      PROVE  /\ UNCHANGED <<occupancy, num_waiting, complaints, statuses>>
             /\ door = "join"
             /\ \A c \in Customers :
                  \/ thread'[c] = thread[c]
                  \/ thread[c] = "returned" /\ thread'[c] = "joined"
  BY <1>1, <1>5 DEF Join, book, counters, ThrlabTypeOK
<1> QED
  BY <1>2, <1>3, <1>4, <1>5 DEF DoorStep, CleanupStep

(* The door and the cleanup, called from main, keep the invariant. *)
LEMMA DeskKeeps ==
  ASSUME IInv, Desk
  PROVE  IInv'
<1>1. /\ TypeOK /\ DeskInv /\ MutexHeld /\ CustomersInPlace /\ BarbersInPlace
      /\ RingHolds /\ Accounts /\ MainInPlace /\ NothingToComplain
  BY DEF IInv
<1>2. AllHired /\ (DoorStep \/ CleanupStep)
  BY DEF Desk
<1>3. UNCHANGED <<semaphores, buffer, seat, at, barber, serving, shop>>
  BY DEF Desk, shopVars
<1>4. DeskInv'
  BY <1>1, <1>2, DoorStepKeeps, CleanupKeeps
<1>5. /\ UNCHANGED <<occupancy, num_waiting, complaints>>
      /\ door # "closed"
      /\ \A c \in Customers :
           \/ statuses'[c] = statuses[c]
           \/ statuses[c] = "absent" /\ thread'[c] = "none"
      /\ \A c \in Customers :
           \/ thread'[c] = thread[c]
           \/ thread[c] = "none" /\ thread'[c] = "running"
                /\ statuses[c] = "pending" /\ statuses'[c] = "pending"
           \/ thread[c] = "returned" /\ thread'[c] = "joined"
  BY <1>1, <1>2, DeskMoves
<1>6. TypeOK'
  BY <1>1, <1>3, <1>4 DEF TypeOK, DeskInv, semaphores, buffer
<1>7. MutexHeld'
  BY <1>1, <1>3 DEF MutexHeld, CustomerHolds, BarberHolds, semaphores
<1>8. CustomersInPlace'
  <2>1. ASSUME NEW c \in Customers
        PROVE  /\ thread'[c] = "none" => thread[c] = "none"
               /\ thread'[c] \in {"returned", "joined"}
                    <=> thread[c] \in {"returned", "joined"}
               /\ statuses[c] # "absent" => statuses'[c] = statuses[c]
               /\ thread'[c] # "none" =>
                    \/ statuses'[c] = "pending"
                    \/ thread[c] # "none" /\ statuses'[c] = statuses[c]
    BY <1>5
  <2> QED
    BY <1>1, <1>3, <2>1 DEF CustomersInPlace, Seated
<1>9. BarbersInPlace'
  <2>1. \A c \in Customers : statuses[c] # "absent" => statuses'[c] = statuses[c]
    BY <1>5
  <2> QED
    BY <1>1, <1>3, <1>5, <2>1 DEF BarbersInPlace, Seated
<1>10. RingHolds'
  <2>1. \A c \in Customers : statuses[c] # "absent" => statuses'[c] = statuses[c]
    BY <1>5
  <2> QED
    BY <1>1, <1>3, <2>1 DEF RingHolds, Live, InRing, Seated, buffer
<1>11. Accounts'
  BY <1>1, <1>3, <1>5
  DEF Accounts, SlotHolders, Signallers, Inserters, ItemHolders, Fetchers,
      Preparers, HoldsSlot, MustSignal, HasItem, HasFetched, semaphores, buffer
<1>12. MainInPlace' /\ NothingToComplain'
  BY <1>1, <1>2, <1>3, <1>5 DEF MainInPlace, AllHired, NothingToComplain
<1> QED
  BY <1>4, <1>6, <1>7, <1>8, <1>9, <1>10, <1>11, <1>12 DEF IInv

(***************************************************************************)
(* The invariant is inductive.                                             *)
(***************************************************************************)

(* Before the first barber is hired nobody is anywhere. *)
LEMMA InitHolds == Init => IInv
<1> SUFFICES ASSUME Init PROVE IInv
  OBVIOUS
<1> USE ThrlabAssumption
<1>1. DeskInv
  BY DeskInit DEF Init
<1>2. TypeOK
  BY <1>1
  DEF Init, TypeOK, DeskInv, CustomerSteps, BarberSteps
<1>3. MutexHeld
  BY DEF Init, MutexHeld, CustomerHolds, BarberHolds
<1>4. CustomersInPlace
  BY DEF Init, ThrlabInit, CustomersInPlace, Seated
<1>5. BarbersInPlace
  BY DEF Init, ThrlabInit, BarbersInPlace
<1>6. RingHolds
  <2>1. Live = {}
    BY DEF Init, Live
  <2> QED
    BY <2>1 DEF RingHolds
<1>7. Accounts
  <2>1. /\ {c \in Customers : HoldsSlot(c)} = {}
        /\ {c \in Customers : MustSignal(c)} = {}
        /\ {c \in Customers : at[c] = "insert"} = {}
        /\ {r \in Rooms : HasItem(r)} = {}
        /\ {r \in Rooms : HasFetched(r)} = {}
        /\ {r \in Rooms : barber[r] = "prepare"} = {}
    BY DEF Init, HoldsSlot, MustSignal, HasItem, HasFetched
  <2>2. /\ SlotHolders = 0 /\ Signallers = 0 /\ Inserters = 0
        /\ ItemHolders = 0 /\ Fetchers = 0 /\ Preparers = 0
    BY <2>1, FS_EmptySet
    DEF SlotHolders, Signallers, Inserters, ItemHolders, Fetchers, Preparers
  <2> QED
    BY <2>2 DEF Init, ThrlabInit, Accounts
<1>8. MainInPlace /\ NothingToComplain
  BY DEF Init, ThrlabInit, MainInPlace, NothingToComplain
<1> QED
  BY <1>1, <1>2, <1>3, <1>4, <1>5, <1>6, <1>7, <1>8 DEF IInv

(* Every step of every thread keeps the invariant. *)
LEMMA NextKeeps == IInv /\ [Next]_vars => IInv'
<1> SUFFICES ASSUME IInv, [Next]_vars PROVE IInv'
  OBVIOUS
<1>1. ASSUME NEW c \in Customers, CustomerStep(c) PROVE IInv'
  BY <1>1, ArriveKeeps, ShopFullKeeps, CustomerLocksKeeps, AcceptCustomerKeeps,
     InsertKeeps, CustomerUnlocksKeeps, SignalKeeps, WakeUpKeeps, LeaveKeeps
  DEF CustomerStep
<1>2. ASSUME NEW r \in Rooms, BarberStep(r) PROVE IInv'
  BY <1>2, TakeItemKeeps, BarberLocksKeeps, FetchKeeps, PrepareCustomerKeeps,
     DismissCustomerKeeps, WakeKeeps, BarberUnlocksKeeps, FreeSlotKeeps
  DEF BarberStep
<1>3. CASE MainStep
  <2>1. ASSUME NEW r \in Rooms, Hire(r) PROVE IInv'
    BY <2>1, HireKeeps
  <2>2. CASE HireFails
    BY <2>2, OnlyMainMoves DEF HireFails, shopVars
  <2>3. CASE Desk
    BY <2>3, DeskKeeps
  <2>4. CASE Cleanup
    <3>1. process \in {"running", "exited", "returned"}
      BY DEF IInv, DeskInv, ThrlabTypeOK
    <3> QED
      BY <2>4, <3>1, OnlyMainMoves DEF Cleanup, deskVars
  <2>5. CASE ReturnFromMain
    BY <2>5, OnlyMainMoves DEF ReturnFromMain, shopVars
  <2> QED
    BY <1>3, <2>1, <2>2, <2>3, <2>4, <2>5 DEF MainStep
<1>4. CASE Ended \/ UNCHANGED vars
  <2>1. process \in {"running", "exited", "returned"}
    BY DEF IInv, DeskInv, ThrlabTypeOK
  <2> QED
    BY <1>4, <2>1, OnlyMainMoves DEF Ended, vars, deskVars, shopVars
<1> QED
  BY <1>1, <1>2, <1>3, <1>4 DEF Next

(* The invariant holds throughout, for any number of customers, barbers    *)
(* and chairs.                                                             *)
THEOREM ShopInvariant == Spec => []IInv
  BY InitHolds, NextKeeps, PTL DEF Spec

(***************************************************************************)
(* What follows.                                                           *)
(***************************************************************************)

(* The variables of all threads keep their types: no semaphore exceeds     *)
(* what it was made for, and none is taken when it is zero.                *)
THEOREM ShopTypeCorrect == Spec => []TypeOK
<1>1. IInv => TypeOK
  BY DEF IInv
<1> QED
  BY <1>1, ShopInvariant, PTL

(* barber_work keeps the mutex during the whole haircut: at most one       *)
(* customer is being cut, however many barbers there are.                  *)
THEOREM ShopCutsOneAtATime == Spec => []OneHaircut
<1>1. ASSUME IInv PROVE OneHaircut
  <2>1. RoomsAgree /\ CountsAgree /\ BarbersInPlace /\ MutexHeld
    BY <1>1 DEF IInv, DeskInv
  <2>2. \A c, d \in With("cutting") : c = d
    <3>1. SUFFICES ASSUME NEW c \in With("cutting"), NEW d \in With("cutting")
                   PROVE  c = d
      OBVIOUS
    <3>2. PICK r \in Rooms : occupancy[r] = c
      BY <2>1 DEF RoomsAgree
    <3>3. PICK s \in Rooms : occupancy[s] = d
      BY <2>1 DEF RoomsAgree
    <3>4. barber[r] = "dismiss" /\ barber[s] = "dismiss"
      BY <2>1, <3>2, <3>3, ThrlabAssumption DEF BarbersInPlace, With
    <3> QED
      BY <2>1, <3>2, <3>3, <3>4 DEF MutexHeld, BarberHolds
  <2>3. CASE With("cutting") = {}
    BY <2>1, <2>3, FS_EmptySet DEF CountsAgree, OneHaircut
  <2>4. CASE With("cutting") # {}
    <3>1. PICK c : With("cutting") = {c}
      BY <2>2, <2>4
    <3> QED
      BY <2>1, <3>1, FS_Singleton DEF CountsAgree, OneHaircut
  <2> QED
    BY <2>3, <2>4
<1> QED
  BY <1>1, ShopInvariant, PTL

(* The semaphores' accounts always balance. *)
THEOREM ShopAccountsBalance == Spec => []SemaphoresAccount
<1>1. IInv => SemaphoresAccount
  BY DEF IInv, Accounts, SemaphoresAccount, SlotHolders, Fetchers,
         ItemHolders, Signallers
<1> QED
  BY <1>1, ShopInvariant, PTL

(* The ring never overflows, and its live part holds distinct waiting      *)
(* customers whose threads are there.                                      *)
THEOREM ShopRingIsSound == Spec => []RingIsSound
<1>1. ASSUME IInv PROVE RingIsSound
  <2>1. /\ TypeOK /\ CustomersInPlace /\ RingHolds /\ Accounts
        /\ thread \in [Customers -> {"none", "running", "returned", "joined"}]
    BY <1>1 DEF IInv, DeskInv, ThrlabTypeOK
  <2>2. rear - front \in 0 .. chairs /\ front \in Nat /\ rear \in Nat
    BY <2>1, CountsAreNumbers, ThrlabAssumption DEF Accounts, TypeOK
  <2>3. ASSUME NEW i \in 1 .. rear - front
        PROVE  front + i \in Live /\ Queue[i] = InRing(front + i)
    BY <2>2 DEF Live, Queue, InRing
  <2>4. ASSUME NEW i \in 1 .. rear - front
        PROVE  Queue[i] \in With("waiting") /\ thread[Queue[i]] = "running"
    <3>1. /\ InRing(front + i) \in Customers /\ Seated(InRing(front + i))
          /\ statuses[InRing(front + i)] = "waiting"
      BY <2>1, <2>3 DEF RingHolds
    <3>2. thread[InRing(front + i)] = "running"
      BY <2>1, <3>1 DEF CustomersInPlace, Seated
    <3> QED
      BY <2>3, <3>1, <3>2 DEF With
  <2>5. ASSUME NEW i \in 1 .. rear - front, NEW j \in 1 .. rear - front,
               Queue[i] = Queue[j]
        PROVE  i = j
    <3>1. front + i = front + j
      BY <2>1, <2>3, <2>5 DEF RingHolds
    <3> QED
      BY <2>2, <3>1
  <2> QED
    BY <2>2, <2>4, <2>5 DEF RingIsSound
<1> QED
  BY <1>1, ShopInvariant, PTL

(* The real shop gives the desk nothing to complain of but slowness. *)
THEOREM ShopIsBlameless == Spec => []NothingToComplain
<1>1. IInv => NothingToComplain
  BY DEF IInv
<1> QED
  BY <1>1, ShopInvariant, PTL

(* No customer leaves before his haircut is done. *)
THEOREM ShopKeepsCustomers == Spec => []CustomerStays
<1>1. IInv => CustomerStays
  BY DEF IInv, CustomersInPlace, CustomerStays
<1> QED
  BY <1>1, ShopInvariant, PTL

(* Nothing is used after thrlab_cleanup or cleanup has freed it. *)
THEOREM ShopUsesNothingFreed == Spec => []NoUseAfterFree
<1>1. ASSUME IInv PROVE NoUseAfterFree
  <2>1. /\ TypeOK /\ CustomersInPlace /\ BarbersInPlace /\ RingHolds
        /\ Accounts /\ MainInPlace /\ DoorAgrees
        /\ thread \in [Customers -> {"none", "running", "returned", "joined"}]
    BY <1>1 DEF IInv, DeskInv, ThrlabTypeOK
  <2>2. ASSUME NEW c \in Customers, Seated(c)
        PROVE  thread[c] = "running"
    BY <2>1, <2>2 DEF CustomersInPlace, Seated
  <2>3. ASSUME NEW c \in Customers, thread[c] = "running"
        PROVE  door # "closed" /\ shop # "cleaned"
    BY <2>1, <2>3 DEF DoorAgrees, MainInPlace
  <2>4. ASSUME NEW r \in Rooms, barber[r] \in {"prepare", "dismiss", "wake"}
        PROVE  /\ serving[r] # NULL /\ thread[serving[r]] # "joined"
               /\ door # "closed"
    <3>1. serving[r] \in Customers /\ thread[serving[r]] = "running"
      BY <2>1, <2>2, <2>4 DEF BarbersInPlace
    <3> QED
      BY <2>3, <3>1, ThrlabAssumption
  <2>5. ASSUME NEW r \in Rooms, barber[r] = "fetch"
        PROVE  shop # "cleaned"
    <3>1. ItemHolders >= 1
      BY <2>5, FiniteActors, Inhabited, r \in {s \in Rooms : HasItem(s)}
      DEF ItemHolders, HasItem
    <3>2. front + 1 \in Live
      BY <2>1, <3>1, CountsAreNumbers DEF Accounts, TypeOK, Live
    <3>3. InRing(front + 1) \in Customers /\ Seated(InRing(front + 1))
      BY <2>1, <3>2 DEF RingHolds
    <3> QED
      BY <2>2, <2>3, <3>3
  <2> QED
    BY <2>3, <2>4, <2>5 DEF NoUseAfterFree
<1> QED
  BY <1>1, ShopInvariant, PTL

-----------------------------------------------------------------------------
(* The barbershop implements the waiting room, for any number of customers,*)
(* barbers and chairs: three of its actions are steps of the waiting room, *)
(* all others leave the queue, the rooms and those served as they are.     *)

(* Append, place by place. *)
LEMMA AppendPointwise ==
  ASSUME NEW S, NEW q \in Seq(S), NEW x \in S, NEW n, n = Len(q)
  PROVE  Append(q, x) = [i \in 1 .. n + 1 |-> IF i = n + 1 THEN x ELSE q[i]]
<1> DEFINE a == Append(q, x)
<1>1. /\ n \in Nat /\ a \in Seq(S) /\ Len(a) = n + 1
      /\ \A i \in 1 .. n : a[i] = q[i]
      /\ a[n + 1] = x
  BY LenProperties, AppendProperties
<1> HIDE DEF a
<1>2. a = [i \in 1 .. n + 1 |-> a[i]]
  BY <1>1, LenProperties
<1>3. \A i \in 1 .. n + 1 : a[i] = IF i = n + 1 THEN x ELSE q[i]
  BY <1>1
<1> QED
  BY <1>2, <1>3 DEF a

(* Tail, place by place. *)
LEMMA TailPointwise ==
  ASSUME NEW S, NEW q \in Seq(S), q # <<>>, NEW n, n = Len(q)
  PROVE  Tail(q) = [i \in 1 .. n - 1 |-> q[i + 1]]
<1> DEFINE t == Tail(q)
<1>1. t \in Seq(S) /\ Len(t) = n - 1 /\ \A i \in 1 .. n - 1 : t[i] = q[i + 1]
  BY HeadTailProperties
<1> HIDE DEF t
<1>2. t = [i \in 1 .. n - 1 |-> t[i]]
  BY <1>1, LenProperties
<1> QED
  BY <1>1, <1>2 DEF t

(* What the waiting room sees. *)
Seen == <<Queue, InRoom, With("done")>>

(* The queue is a sequence of the customers in the live part of the ring. *)
LEMMA QueueIsSequence ==
  ASSUME IInv
  PROVE  /\ Queue \in Seq(Customers) /\ Len(Queue) = rear - front
         /\ rear - front \in 0 .. chairs /\ front \in Nat /\ rear \in Nat
         /\ \A i \in 1 .. rear - front :
              front + i \in Live /\ Queue[i] = InRing(front + i)
<1>1. TypeOK /\ RingHolds /\ Accounts
  BY DEF IInv
<1>2. rear - front \in 0 .. chairs /\ front \in Nat /\ rear \in Nat
  BY <1>1, CountsAreNumbers, ThrlabAssumption DEF Accounts, TypeOK
<1>3. \A i \in 1 .. rear - front :
        front + i \in Live /\ Queue[i] = InRing(front + i)
  BY <1>2 DEF Live, Queue, InRing
<1>4. \A i \in 1 .. rear - front : ring[(front + i) % chairs] \in Customers
  BY <1>1, <1>3 DEF RingHolds, InRing
<1>5. Queue \in [1 .. rear - front -> Customers]
  BY <1>4 DEF Queue
<1>6. rear - front \in Nat
  BY <1>2
<1>7. Queue \in Seq(Customers)
  BY <1>5, <1>6
<1>8. Len(Queue) = rear - front
  BY <1>5, <1>6, <1>7
<1> QED
  BY <1>2, <1>3, <1>7, <1>8

(***************************************************************************)
(* The three steps that the waiting room sees.                             *)
(***************************************************************************)

(* A customer sits down when he is put in the ring. *)
LEMMA InsertSits ==
  ASSUME IInv, NEW c \in Customers, Insert(c)
  PROVE  Room!Sit(c)
<1>1. /\ TypeOK /\ CustomersInPlace /\ BarbersInPlace /\ RingHolds /\ Accounts
  BY DEF IInv
<1>2. /\ at[c] = "insert" /\ rear' = rear + 1 /\ front' = front
      /\ ring' = [ring EXCEPT ![(rear + 1) % chairs] = c]
      /\ UNCHANGED <<statuses, barber, serving>>
  BY DEF Insert, CustomerGoes, deskVars, book
<1>3. /\ Queue \in Seq(Customers) /\ Len(Queue) = rear - front
      /\ rear - front \in 0 .. chairs /\ front \in Nat /\ rear \in Nat
      /\ \A i \in 1 .. rear - front :
           front + i \in Live /\ Queue[i] = InRing(front + i)
  BY QueueIsSequence
<1>4. rear - front < chairs
  <2>1. SlotHolders >= 1
    BY <1>2, FiniteActors, Inhabited, c \in {d \in Customers : HoldsSlot(d)}
    DEF SlotHolders, HoldsSlot
  <2> QED
    BY <1>1, <1>3, <2>1, CountsAreNumbers, ThrlabAssumption DEF Accounts, TypeOK
<1>5. c \notin {Queue[i] : i \in 1 .. Len(Queue)}
  BY <1>1, <1>2, <1>3 DEF RingHolds, Seated
<1>6. c \notin {InRoom[r] : r \in Rooms}
  <2>1. \A r \in Rooms : InRoom[r] # c
    BY <1>1, <1>2, ThrlabAssumption DEF BarbersInPlace, Seated, InRoom
  <2> QED
    BY <2>1
<1>7. c \notin With("done")
  BY <1>1, <1>2 DEF CustomersInPlace, With
<1>8. Queue' = Append(Queue, c)
  <2> DEFINE n == rear - front
             Q == [i \in 1 .. n + 1 |-> IF i = n + 1 THEN c ELSE Queue[i]]
  <2>1. n \in Nat /\ rear' - front' = n + 1
    BY <1>2, <1>3
  <2>2. ASSUME NEW i \in 1 .. n + 1
        PROVE  ring'[(front + i) % chairs] = IF i = n + 1 THEN c ELSE Queue[i]
    <3>1. /\ front + i \in Nat /\ chairs \in Nat \ {0}
          /\ \A j \in Nat : j % chairs \in Chairs
      BY <1>3, <2>1, ThrlabAssumption DEF Chairs
    <3>2. CASE i = n + 1
      <4>1. front + i = rear + 1
        BY <1>3, <2>1, <3>2
      <4> QED
        BY <1>1, <1>2, <3>1, <3>2, <4>1 DEF TypeOK
    <3>3. CASE i # n + 1
      <4> DEFINE j == front + i
                 k == rear + 1
      <4>1. j \in Nat /\ k \in Nat /\ j < k /\ k - j < chairs /\ i \in 1 .. n
        BY <1>3, <1>4, <2>1, <3>1, <3>3
      <4>2. Queue[i] = ring[j % chairs]
        BY <1>3, <4>1 DEF InRing
      <4> HIDE DEF j, n
      <4>3. j % chairs # k % chairs
        BY <3>1, <4>1, Apart
      <4> HIDE DEF k
      <4>4. ring'[j % chairs] = ring[j % chairs]
        BY <1>1, <1>2, <3>1, <4>1, <4>3 DEF TypeOK, k
      <4> QED
        BY <3>3, <4>2, <4>4 DEF j
    <3> QED
      BY <3>2, <3>3
  <2>3. Queue' = Q
    BY <1>2, <2>1, <2>2 DEF Queue
  <2>4. Append(Queue, c) = Q
    <3>1. Queue \in Seq(Customers) /\ n = Len(Queue)
      BY <1>3
    <3> HIDE DEF n
    <3> QED
      BY <3>1, AppendPointwise
  <2> QED
    BY <2>3, <2>4
<1>9. InRoom' = InRoom /\ With("done")' = With("done")
  BY <1>2 DEF InRoom, With
<1> QED
  BY <1>3, <1>4, <1>5, <1>6, <1>7, <1>8, <1>9
  DEF Room!Sit, Room!Waiting, Room!InRooms

(* A customer is called when he is fetched. *)
LEMMA FetchCalls ==
  ASSUME IInv, NEW r \in Rooms, Fetch(r)
  PROVE  Room!Call(r)
<1>1. TypeOK /\ RingHolds /\ Accounts
  BY DEF IInv
<1>2. /\ barber[r] = "fetch" /\ BarberMoves(r, "prepare")
      /\ front' = front + 1 /\ rear' = rear /\ ring' = ring
      /\ serving' = [serving EXCEPT ![r] = InRing(front + 1)]
      /\ statuses' = statuses
  BY <1>1, BarberGoesOn DEF Fetch, BarberSteps, InRing, deskVars, book
<1>3. /\ Queue \in Seq(Customers) /\ Len(Queue) = rear - front
      /\ rear - front \in 0 .. chairs /\ front \in Nat /\ rear \in Nat
      /\ \A i \in 1 .. rear - front :
           front + i \in Live /\ Queue[i] = InRing(front + i)
  BY QueueIsSequence
<1>4. rear - front >= 1
  <2>1. ItemHolders >= 1
    BY <1>2, FiniteActors, Inhabited, r \in {s \in Rooms : HasItem(s)}
    DEF ItemHolders, HasItem
  <2> QED
    BY <1>1, <1>3, <2>1, CountsAreNumbers DEF Accounts, TypeOK
<1>5. Queue # <<>> /\ Head(Queue) = InRing(front + 1)
  BY <1>3, <1>4
<1>6. Queue' = Tail(Queue)
  <2> DEFINE n == rear - front
             Q == [i \in 1 .. n - 1 |-> Queue[i + 1]]
  <2>1. n \in Nat /\ n >= 1 /\ rear' - front' = n - 1
    BY <1>2, <1>3, <1>4
  <2>2. ASSUME NEW i \in 1 .. n - 1
        PROVE  ring'[(front' + i) % chairs] = Queue[i + 1]
    <3>1. i + 1 \in 1 .. n /\ front' + i = front + (i + 1)
      BY <1>2, <1>3, <2>1
    <3> QED
      BY <1>2, <1>3, <3>1 DEF InRing
  <2>3. Queue' = Q
    BY <2>1, <2>2 DEF Queue
  <2>4. Tail(Queue) = Q
    BY <1>3, <1>5, TailPointwise
  <2> QED
    BY <2>3, <2>4
<1>7. InRoom[r] = NULL /\ InRoom' = [InRoom EXCEPT ![r] = Head(Queue)]
  <2>1. InRoom[r] = NULL
    BY <1>2 DEF InRoom
  <2>2. \A s \in Rooms :
          /\ serving'[s] = IF s = r THEN InRing(front + 1) ELSE serving[s]
          /\ barber'[s] = IF s = r THEN "prepare" ELSE barber[s]
    BY <1>1, <1>2 DEF BarberMoves, TypeOK
  <2> QED
    BY <1>5, <2>1, <2>2 DEF InRoom
<1>8. With("done")' = With("done")
  BY <1>2 DEF With
<1> QED
  BY <1>5, <1>6, <1>7, <1>8 DEF Room!Call

(* A customer is released when he is dismissed. *)
LEMMA DismissReleases ==
  ASSUME IInv, NEW r \in Rooms, DismissCustomer(r)
  PROVE  Room!Release(r)
<1>1. /\ TypeOK /\ DeskInv /\ BarbersInPlace
  BY DEF IInv
<1>2. /\ barber[r] = "dismiss" /\ BarberMoves(r, "wake")
      /\ \E pace \in Paces \ {"fast"} : Dismiss(serving[r], r, FALSE, pace)
      /\ UNCHANGED <<serving, buffer>>
  BY <1>1, BarberGoesOn DEF DismissCustomer, BarberSteps
<1>3. /\ serving[r] \in Customers /\ occupancy[r] = serving[r]
      /\ statuses[serving[r]] = "cutting"
  BY <1>1, <1>2, ThrlabAssumption DEF BarbersInPlace, DeskInv, RoomsAgree
<1>4. Moves(serving[r], "done")
  BY <1>2, <1>3 DEF Dismiss, Moves
<1>5. With("done")' = With("done") \cup {serving[r]}
  BY <1>1, <1>3, <1>4, MovesPointwise DEF With, DeskInv
<1>6. InRoom[r] = serving[r] /\ serving[r] # NULL
  BY <1>2, <1>3, ThrlabAssumption DEF InRoom
<1>7. InRoom' = [InRoom EXCEPT ![r] = NULL]
  <2>1. \A s \in Rooms : barber'[s] = IF s = r THEN "wake" ELSE barber[s]
    BY <1>2 DEF BarberMoves
  <2> QED
    BY <1>2, <2>1 DEF InRoom
<1>8. Queue' = Queue
  BY <1>2 DEF Queue, buffer
<1> QED
  BY <1>5, <1>6, <1>7, <1>8 DEF Room!Release

(***************************************************************************)
(* The steps that it does not see.                                         *)
(***************************************************************************)

(* A customer's other steps. *)
LEMMA CustomerUnseen ==
  ASSUME IInv, NEW c \in Customers, CustomerStep(c), ~Insert(c)
  PROVE  UNCHANGED Seen
<1>1. TypeOK /\ DeskInv /\ CustomersInPlace
  BY DEF IInv
<1>2. UNCHANGED <<buffer, barber, serving>>
  BY DEF CustomerStep, Arrive, ShopFull, CustomerLocks, AcceptCustomer,
         CustomerUnlocks, Signal, WakeUp, Leave, CustomerGoes
<1>3. Queue' = Queue /\ InRoom' = InRoom
  BY <1>2 DEF Queue, InRoom, buffer
<1>4. With("done")' = With("done")
  <2>1. CASE AcceptCustomer(c)
    <3>1. statuses[c] = "pending"
      BY <1>1, <2>1
      DEF CustomersInPlace, AcceptCustomer, CustomerGoes
    <3>2. Moves(c, "waiting")
      BY <2>1, <3>1 DEF AcceptCustomer, Accept, Moves
    <3> QED
      BY <1>1, <3>1, <3>2, MovesPointwise DEF With, DeskInv
  <2>2. CASE ~AcceptCustomer(c)
    <3>1. statuses' = statuses
      BY <2>2
      DEF CustomerStep, Arrive, ShopFull, CustomerLocks, CustomerUnlocks,
          Signal, WakeUp, Leave, EndCallback, deskVars, book
    <3> QED
      BY <3>1 DEF With
  <2> QED
    BY <2>1, <2>2
<1> QED
  BY <1>3, <1>4 DEF Seen

(* A barber's other steps. *)
LEMMA BarberUnseen ==
  ASSUME IInv, NEW r \in Rooms, BarberStep(r) \/ Hire(r),
         ~Fetch(r), ~DismissCustomer(r)
  PROVE  UNCHANGED Seen
<1>1. TypeOK /\ DeskInv /\ BarbersInPlace
  BY DEF IInv
<1>2. UNCHANGED buffer
  BY DEF BarberStep, TakeItem, BarberLocks, PrepareCustomer, Wake,
         BarberUnlocks, FreeSlot, Hire
<1>3. Queue' = Queue
  BY <1>2 DEF Queue, buffer
<1>4. InRoom' = InRoom
  <2>1. CASE PrepareCustomer(r)
    <3>1. /\ barber[r] = "prepare" /\ serving' = serving
          /\ \A s \in Rooms : barber'[s] = IF s = r THEN "dismiss" ELSE barber[s]
      BY <1>1, <2>1 DEF PrepareCustomer, BarberGoes, TypeOK
    <3> QED
      BY <3>1 DEF InRoom
  <2>2. CASE ~PrepareCustomer(r)
    <3>1. \A s \in Rooms :
            \/ barber'[s] = barber[s] /\ serving'[s] = serving[s]
            \/ /\ barber[s] \notin {"prepare", "dismiss"}
               /\ barber'[s] \notin {"prepare", "dismiss"}
      BY <1>1, <2>2
      DEF BarberStep, TakeItem, BarberLocks, Wake, BarberUnlocks, FreeSlot,
          Hire, BarberGoes, TypeOK
    <3> QED
      BY <3>1 DEF InRoom
  <2> QED
    BY <2>1, <2>2
<1>5. With("done")' = With("done")
  <2>1. CASE PrepareCustomer(r)
    <3>1. /\ serving[r] \in Customers /\ statuses[serving[r]] = "waiting"
          /\ occupancy[r] = NULL
      BY <1>1, <2>1 DEF BarbersInPlace, PrepareCustomer, BarberGoes
    <3>2. Moves(serving[r], "cutting")
      BY <2>1, <3>1 DEF PrepareCustomer, Prepare, Moves
    <3> QED
      BY <1>1, <3>1, <3>2, MovesPointwise DEF With, DeskInv
  <2>2. CASE ~PrepareCustomer(r)
    <3>1. statuses' = statuses
      BY <2>2
      DEF BarberStep, TakeItem, BarberLocks, Wake, BarberUnlocks, FreeSlot,
          Hire, deskVars, book
    <3> QED
      BY <3>1 DEF With
  <2> QED
    BY <2>1, <2>2
<1> QED
  BY <1>3, <1>4, <1>5 DEF Seen

(* The other steps of the main thread, and the end of the process. *)
LEMMA MainUnseen ==
  ASSUME IInv,
         HireFails \/ Desk \/ Cleanup \/ ReturnFromMain \/ Ended \/ UNCHANGED vars
  PROVE  UNCHANGED Seen
<1>1. UNCHANGED <<buffer, barber, serving>>
  BY DEF HireFails, Desk, Cleanup, ReturnFromMain, Ended, vars, shopVars
<1>2. Queue' = Queue /\ InRoom' = InRoom
  BY <1>1 DEF Queue, InRoom, buffer
<1>3. With("done")' = With("done")
  <2>1. CASE Desk
    <3>1. \A c \in Customers :
            statuses'[c] = "done" <=> statuses[c] = "done"
      <4>1. DeskInv
        BY DEF IInv
      <4>2. \A c \in Customers :
              \/ statuses'[c] = statuses[c]
              \/ statuses[c] = "absent" /\ thread'[c] = "none"
        BY <2>1, <4>1, DeskMoves DEF Desk
      <4>3. \A c \in Customers : statuses'[c] # statuses[c] =>
              statuses'[c] = "pending"
        BY <2>1
        DEF Desk, DoorStep, AddCustomer, CreateThread, CountPending,
            ThreadFails, DoorExits, LastCustomerIn, CleanupStep, Join,
            CloseDesk, book, IInv, DeskInv, ThrlabTypeOK
      <4> QED
        BY <4>2, <4>3
    <3> QED
      BY <3>1 DEF With
  <2>2. CASE ~Desk
    <3>1. statuses' = statuses
      BY <2>2 DEF HireFails, Cleanup, ReturnFromMain, Ended, vars, deskVars, book
    <3> QED
      BY <3>1 DEF With
  <2> QED
    BY <2>1, <2>2
<1> QED
  BY <1>2, <1>3 DEF Seen

(***************************************************************************)
(* The refinement.                                                         *)
(***************************************************************************)

(* Before the shop opens the waiting room is empty. *)
LEMMA InitMaps == Init => Room!Init
<1> SUFFICES ASSUME Init PROVE Room!Init
  OBVIOUS
<1>1. Queue = <<>>
  BY DEF Init, Queue
<1>2. InRoom = [r \in Rooms |-> NULL]
  BY DEF Init, InRoom
<1>3. With("done") = {}
  BY DEF Init, ThrlabInit, With
<1> QED
  BY <1>1, <1>2, <1>3 DEF Room!Init

(* Every step is a step of the waiting room or not seen by it. *)
LEMMA StepMaps == IInv /\ [Next]_vars => [Room!Next]_(Room!vars)
<1> SUFFICES ASSUME IInv, [Next]_vars PROVE Room!Next \/ UNCHANGED Seen
  BY DEF Seen, Room!vars
<1>1. ASSUME NEW c \in Customers, CustomerStep(c)
      PROVE  Room!Next \/ UNCHANGED Seen
  BY <1>1, InsertSits, CustomerUnseen DEF Room!Next
<1>2. ASSUME NEW r \in Rooms, BarberStep(r) \/ Hire(r)
      PROVE  Room!Next \/ UNCHANGED Seen
  BY <1>2, FetchCalls, DismissReleases, BarberUnseen DEF Room!Next
<1>3. CASE HireFails \/ Desk \/ Cleanup \/ ReturnFromMain \/ Ended \/ UNCHANGED vars
  BY <1>3, MainUnseen
<1> QED
  BY <1>1, <1>2, <1>3 DEF Next, MainStep

(* Customers are served first come, first served: the shop of main.c       *)
(* implements the waiting room.                                            *)
THEOREM ShopImplementsWaitingRoom == Spec => ImplementsWaitingRoom
<1>1. Spec => []IInv
  BY ShopInvariant
<1>2. Spec => Room!Init /\ [][Room!Next]_(Room!vars)
  BY <1>1, InitMaps, StepMaps, PTL DEF Spec
<1> QED
  BY <1>2 DEF ImplementsWaitingRoom, Room!Spec
=============================================================================
