----------------------------- MODULE Barbershop -----------------------------
(***************************************************************************)
(* The barbershop (thrlab/main.c): main hires the barbers, lets the        *)
(* customers in and cleans up; every customer and every barber is a        *)
(* thread.  They share a ring buffer of chairs guarded by three            *)
(* semaphores, and each customer waits on a semaphore of his own until his *)
(* barber is done.  The book-keeping they call is Thrlab's.                *)
(*                                                                         *)
(* A step is one semaphore operation, one call of the desk, or the access  *)
(* to the ring between them.  A program counter is named for what the      *)
(* thread does next.                                                       *)
(***************************************************************************)
EXTENDS Thrlab, Sequences

VARIABLES
    slots, items, mutex,    \* the values of the semaphores of struct chairs
    front, rear,            \* how many were fetched and inserted so far
    ring,                   \* chairs->customer
    seat,                   \* the value of each customer's own semaphore
    at,                     \* where each customer's thread is
    barber,                 \* where each barber's thread is
    serving,                \* each barber's local variable customer
    shop                    \* "up" until main has run cleanup

semaphores == <<slots, items, mutex>>
buffer     == <<front, rear, ring>>
shopVars   == <<semaphores, buffer, seat, at, barber, serving, shop>>
vars       == <<deskVars, shopVars>>

Chairs == 0 .. chairs - 1

CustomerSteps == {"trywait", "lock", "accept", "insert", "unlock", "signal",
                  "sit", "leave", "gone"}
BarberSteps   == {"unhired", "items", "lock", "fetch", "prepare", "dismiss",
                  "wake", "unlock", "free"}

TypeOK ==
    /\ ThrlabTypeOK
    /\ slots \in 0 .. chairs /\ items \in 0 .. chairs /\ mutex \in 0 .. 1
    /\ front \in Nat /\ rear \in Nat
    /\ ring \in [Chairs -> Customers \cup {NULL}]
    /\ seat \in [Customers -> 0 .. 1]
    /\ at \in [Customers -> CustomerSteps]
    /\ barber \in [Rooms -> BarberSteps]
    /\ serving \in [Rooms -> Customers \cup {NULL}]
    /\ shop \in {"up", "cleaned"}

(* thrlab_setup and the start of setup: no other thread exists yet. *)
Init ==
    /\ ThrlabInit
    /\ slots = chairs /\ items = 0 /\ mutex = 1
    /\ front = 0 /\ rear = 0
    /\ ring = [i \in Chairs |-> NULL]
    /\ seat = [c \in Customers |-> 0]
    /\ at = [c \in Customers |-> "trywait"]
    /\ barber = [r \in Rooms |-> "unhired"]
    /\ serving = [r \in Rooms |-> NULL]
    /\ shop = "up"

CustomerGoes(c, from, to) ==
    /\ process = "running" /\ thread[c] = "running"
    /\ at[c] = from /\ at' = [at EXCEPT ![c] = to]
    /\ UNCHANGED <<barber, serving, shop>>

BarberGoes(r, from, to) ==
    /\ process = "running"
    /\ barber[r] = from /\ barber' = [barber EXCEPT ![r] = to]
    /\ UNCHANGED <<at, shop>>

(***************************************************************************)
(* A customer's thread: customer_arrived.                                  *)
(***************************************************************************)

(* A plausible slip: the slot is looked at and not taken. *)
MutArrive(c) ==
    /\ CustomerGoes(c, "trywait", "lock")
    /\ slots > 0
    /\ seat' = [seat EXCEPT ![c] = 0]
    /\ UNCHANGED <<deskVars, slots, items, mutex, buffer>>

(* sem_init of his own semaphore, and Sem_trywait finds a slot. *)
Arrive(c) ==
    /\ CustomerGoes(c, "trywait", "lock")
    /\ slots > 0 /\ slots' = slots - 1
    /\ seat' = [seat EXCEPT ![c] = 0]
    /\ UNCHANGED <<deskVars, items, mutex, buffer>>

(* No slot: sem_trywait fails with EAGAIN, and the wrapper Sem_trywait     *)
(* takes any failure for an error and exits.  The else branch of           *)
(* customer_arrived, which rejects the customer, cannot be reached.        *)
ShopFull(c) ==
    /\ CustomerGoes(c, "trywait", "trywait")
    /\ slots = 0
    /\ process' = "exited"
    /\ seat' = [seat EXCEPT ![c] = 0]
    /\ UNCHANGED <<mtx, book, customer_count, thread, door, verdict,
                   semaphores, buffer>>

CustomerLocks(c) ==
    /\ CustomerGoes(c, "lock", "accept")
    /\ mutex > 0 /\ mutex' = mutex - 1
    /\ UNCHANGED <<deskVars, slots, items, buffer, seat>>

(* A plausible slip: the customer sits down without telling the desk. *)
MutAcceptCustomer(c) ==
    /\ CustomerGoes(c, "accept", "insert")
    /\ UNCHANGED <<deskVars, semaphores, buffer, seat>>

AcceptCustomer(c) ==
    /\ CustomerGoes(c, "accept", "insert")
    /\ Accept(c)
    /\ UNCHANGED <<semaphores, buffer, seat>>

(* A plausible slip: the index is used and then increased. *)
MutInsert(c) ==
    /\ CustomerGoes(c, "insert", "unlock")
    /\ rear' = rear + 1
    /\ ring' = [ring EXCEPT ![rear % chairs] = c]
    /\ UNCHANGED <<deskVars, semaphores, front, seat>>

Insert(c) ==
    /\ CustomerGoes(c, "insert", "unlock")
    /\ rear' = rear + 1
    /\ ring' = [ring EXCEPT ![(rear + 1) % chairs] = c]
    /\ UNCHANGED <<deskVars, semaphores, front, seat>>

CustomerUnlocks(c) ==
    /\ CustomerGoes(c, "unlock", "signal")
    /\ mutex' = mutex + 1
    /\ UNCHANGED <<deskVars, slots, items, buffer, seat>>

Signal(c) ==
    /\ CustomerGoes(c, "signal", "sit")
    /\ items' = items + 1
    /\ UNCHANGED <<deskVars, slots, mutex, buffer, seat>>

(* A plausible slip: the customer does not wait for his barber. *)
MutWakeUp(c) ==
    /\ CustomerGoes(c, "sit", "leave")
    /\ UNCHANGED <<deskVars, semaphores, buffer, seat>>

(* Sem_wait on his own semaphore: the barber is done. *)
WakeUp(c) ==
    /\ CustomerGoes(c, "sit", "leave")
    /\ seat[c] > 0 /\ seat' = [seat EXCEPT ![c] = seat[c] - 1]
    /\ UNCHANGED <<deskVars, semaphores, buffer>>

(* The callback returns to my_callback, and the thread ends. *)
Leave(c) ==
    /\ CustomerGoes(c, "leave", "gone")
    /\ EndCallback(c)
    /\ UNCHANGED <<semaphores, buffer, seat>>

CustomerStep(c) ==
    \/ Arrive(c) \/ ShopFull(c) \/ CustomerLocks(c) \/ AcceptCustomer(c)
    \/ Insert(c) \/ CustomerUnlocks(c) \/ Signal(c) \/ WakeUp(c) \/ Leave(c)

(***************************************************************************)
(* A barber's thread: the loop of barber_work.                             *)
(***************************************************************************)

TakeItem(r) ==
    /\ BarberGoes(r, "items", "lock")
    /\ items > 0 /\ items' = items - 1
    /\ UNCHANGED <<deskVars, slots, mutex, buffer, seat, serving>>

(* A plausible slip: the barber fetches without the mutex. *)
MutBarberLocks(r) ==
    /\ BarberGoes(r, "lock", "fetch")
    /\ UNCHANGED <<deskVars, slots, items, mutex, buffer, seat, serving>>

BarberLocks(r) ==
    /\ BarberGoes(r, "lock", "fetch")
    /\ mutex > 0 /\ mutex' = mutex - 1
    /\ UNCHANGED <<deskVars, slots, items, buffer, seat, serving>>

(* A plausible slip: the barber fetches from the wrong end of the ring. *)
MutFetch(r) ==
    /\ BarberGoes(r, "fetch", "prepare")
    /\ front' = front + 1
    /\ serving' = [serving EXCEPT ![r] = ring[rear % chairs]]
    /\ UNCHANGED <<deskVars, semaphores, rear, ring, seat>>

Fetch(r) ==
    /\ BarberGoes(r, "fetch", "prepare")
    /\ front' = front + 1
    /\ serving' = [serving EXCEPT ![r] = ring[(front + 1) % chairs]]
    /\ UNCHANGED <<deskVars, semaphores, rear, ring, seat>>

PrepareCustomer(r) ==
    /\ BarberGoes(r, "prepare", "dismiss")
    /\ Prepare(serving[r], r, FALSE)
    /\ UNCHANGED <<semaphores, buffer, seat, serving>>

(* The haircut is over.  thrlab_sleep sleeps at least the cutting time     *)
(* that the desk expects, and may oversleep: no haircut is too fast.       *)
DismissCustomer(r) ==
    /\ BarberGoes(r, "dismiss", "wake")
    /\ \E pace \in Paces \ {"fast"} : Dismiss(serving[r], r, FALSE, pace)
    /\ UNCHANGED <<semaphores, buffer, seat, serving>>

(* A plausible slip: the customer is dismissed and not woken. *)
MutWake(r) ==
    /\ BarberGoes(r, "wake", "unlock")
    /\ serving' = [serving EXCEPT ![r] = NULL]
    /\ UNCHANGED <<deskVars, semaphores, buffer, seat>>

(* The customer's semaphore is posted; the barber does not use his pointer *)
(* any more, and the model forgets it.                                     *)
Wake(r) ==
    /\ BarberGoes(r, "wake", "unlock")
    /\ seat' = [seat EXCEPT ![serving[r]] = seat[serving[r]] + 1]
    /\ serving' = [serving EXCEPT ![r] = NULL]
    /\ UNCHANGED <<deskVars, semaphores, buffer>>

(* A plausible slip: the way out of the loop forgets the mutex. *)
MutBarberUnlocks(r) ==
    /\ BarberGoes(r, "unlock", "free")
    /\ UNCHANGED <<deskVars, semaphores, buffer, seat, serving>>

BarberUnlocks(r) ==
    /\ BarberGoes(r, "unlock", "free")
    /\ mutex' = mutex + 1
    /\ UNCHANGED <<deskVars, slots, items, buffer, seat, serving>>

(* A plausible slip: the two counting semaphores are mixed up. *)
MutFreeSlot(r) ==
    /\ BarberGoes(r, "free", "items")
    /\ items' = items + 1
    /\ UNCHANGED <<deskVars, slots, mutex, buffer, seat, serving>>

FreeSlot(r) ==
    /\ BarberGoes(r, "free", "items")
    /\ slots' = slots + 1
    /\ UNCHANGED <<deskVars, items, mutex, buffer, seat, serving>>

BarberStep(r) ==
    \/ TakeItem(r) \/ BarberLocks(r) \/ Fetch(r) \/ PrepareCustomer(r)
    \/ DismissCustomer(r) \/ Wake(r) \/ BarberUnlocks(r) \/ FreeSlot(r)

(***************************************************************************)
(* The main thread.                                                        *)
(***************************************************************************)
AllHired == \A r \in Rooms : barber[r] # "unhired"

(* The loop of setup: barber r's thread is created and detached. *)
Hire(r) ==
    /\ BarberGoes(r, "unhired", "items")
    /\ \A s \in 0 .. r - 1 : barber[s] # "unhired"
    /\ UNCHANGED <<deskVars, semaphores, buffer, seat, serving>>

(* The wrappers of pthread_create and pthread_detach exit on failure. *)
HireFails ==
    /\ process = "running" /\ ~AllHired
    /\ process' = "exited"
    /\ UNCHANGED <<mtx, book, customer_count, thread, door, verdict, shopVars>>

Desk == AllHired /\ (DoorStep \/ CleanupStep) /\ UNCHANGED shopVars

(* cleanup: the ring is freed and the three semaphores are destroyed. *)
Cleanup ==
    /\ process = "running" /\ door = "closed" /\ shop = "up"
    /\ shop' = "cleaned"
    /\ UNCHANGED <<deskVars, semaphores, buffer, seat, at, barber, serving>>

ReturnFromMain ==
    /\ process = "running" /\ shop = "cleaned"
    /\ process' = "returned"
    /\ UNCHANGED <<mtx, book, customer_count, thread, door, verdict, shopVars>>

MainStep ==
    \/ \E r \in Rooms : Hire(r)
    \/ HireFails \/ Desk \/ Cleanup \/ ReturnFromMain

(* The process has ended, and its threads with it. *)
Ended == process # "running" /\ UNCHANGED vars

Next ==
    \/ MainStep
    \/ \E c \in Customers : CustomerStep(c)
    \/ \E r \in Rooms : BarberStep(r)
    \/ Ended

Spec == Init /\ [][Next]_vars

(* Every thread that can move moves on.  A thread that waits for a         *)
(* semaphore others use needs no more than that: each thread takes a       *)
(* semaphore a bounded number of times in a day, so a free semaphore stays *)
(* free for the last one who wants it.                                     *)
FairSpec ==
    /\ Spec
    /\ WF_vars(MainStep)
    /\ \A c \in Customers : WF_vars(CustomerStep(c))
    /\ \A r \in Rooms : WF_vars(BarberStep(r))

(***************************************************************************)
(* Safety.                                                                 *)
(***************************************************************************)
HoldsSlot(c)    == at[c] \in {"lock", "accept", "insert"}
MustSignal(c)   == at[c] \in {"unlock", "signal"}
HasFetched(r)   == barber[r] \in {"prepare", "dismiss", "wake", "unlock", "free"}
HasItem(r)      == barber[r] \in {"lock", "fetch"}

(* The customers in the ring, the next one first. *)
Queue == [i \in 1 .. rear - front |-> ring[(front + i) % chairs]]

(* One haircut at a time: barber_work keeps the buffer's mutex from the    *)
(* fetch to the dismissal, so however many barbers the shop employs, a     *)
(* second customer is never in a chair while the first is being cut.       *)
OneHaircut == num_cutting <= 1

(* The semaphores count what they are meant to count, at every point of    *)
(* every interleaving: a chair is free, promised to a customer on his way  *)
(* to the ring, taken in the ring, or kept by a barber at work; a customer *)
(* in the ring is announced, about to be, or claimed by one barber.        *)
SemaphoresAccount ==
    /\ slots + Cardinality({c \in Customers : HoldsSlot(c)}) + (rear - front)
         + Cardinality({r \in Rooms : HasFetched(r)}) = chairs
    /\ items + Cardinality({r \in Rooms : HasItem(r)})
         + Cardinality({c \in Customers : MustSignal(c)}) = rear - front

(* The ring never overflows, and its live part holds waiting customers,    *)
(* each of them once, whose threads are still there: no customer is        *)
(* overwritten, fetched twice or forgotten as the indices go round.        *)
RingIsSound ==
    /\ rear - front \in 0 .. chairs
    /\ \A i \in 1 .. rear - front :
         /\ Queue[i] \in With("waiting")
         /\ thread[Queue[i]] = "running"
         /\ \A j \in 1 .. rear - front : Queue[i] = Queue[j] => i = j

(* The real shop gives the desk no reason to complain, except that a       *)
(* barber who is not scheduled in time may be slow.                        *)
NothingToComplain ==
    \A k \in ComplaintKinds \ {<<"cut", "slow">>} : complaints[k] = 0

(* main.c:16-18: the customer's semaphore ensures that the customer does   *)
(* not leave the shop until the barber has finished cutting his hair.      *)
CustomerStays ==
    \A c \in Customers : at[c] \in {"leave", "gone"} => statuses[c] = "done"

(* thrlab_cleanup frees each customer it has joined and then the desk, and *)
(* cleanup frees the ring, while the barbers' threads are still alive: no  *)
(* thread is then about to touch what was freed.                           *)
NoUseAfterFree ==
    /\ \A r \in Rooms : barber[r] \in {"prepare", "dismiss", "wake"} =>
         /\ serving[r] # NULL
         /\ thread[serving[r]] # "joined"
         /\ door # "closed"
    /\ \A r \in Rooms : barber[r] = "fetch" => shop # "cleaned"
    /\ \A c \in Customers : thread[c] = "running" =>
         door # "closed" /\ shop # "cleaned"

(***************************************************************************)
(* The shop implements the waiting room.  A customer is called when he is  *)
(* fetched, and released when he is dismissed.                             *)
(***************************************************************************)
InRoom == [r \in Rooms |->
             IF barber[r] \in {"prepare", "dismiss"} THEN serving[r] ELSE NULL]

Room == INSTANCE WaitingRoom
          WITH queue <- Queue, room <- InRoom, served <- With("done")

(* Customers are called in the order in which they took a chair, into a    *)
(* free room, and each is served once; at most so many wait as there are   *)
(* chairs.                                                                 *)
ImplementsWaitingRoom == Room!Spec

(***************************************************************************)
(* Liveness, under FairSpec.                                               *)
(***************************************************************************)

(* Whoever is seated is served, unless the process is ended by an error:   *)
(* no interleaving of the three semaphores leaves a customer behind or the *)
(* shop deadlocked.                                                        *)
SeatedAreServed ==
    \A c \in Customers :
      statuses[c] = "waiting" ~> statuses[c] = "done" \/ process = "exited"

(* The day ends: all the customers' threads are joined and main returns,   *)
(* or an error ends the process.                                           *)
DayEnds == <>(process # "running")

(***************************************************************************)
(* What the comments say and the code does not do.                         *)
(***************************************************************************)

(* main.c:176-177: the shop checks "if there is an available chair if not  *)
(* the customer is turned away".  So the shop should stay open when a      *)
(* customer finds no slot.                                                 *)
FullShopStaysOpen ==
    [][\A c \in Customers : ~ShopFull(c)]_vars

(* main.c:158: cleanup is to "free all used resources and end the barber   *)
(* threads".  Once the semaphores are destroyed nobody should use them.    *)
BarbersEndedAtCleanup ==
    [][shop = "cleaned" => UNCHANGED semaphores]_vars
=============================================================================
