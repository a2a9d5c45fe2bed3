------------------------------- MODULE Thrlab -------------------------------
(***************************************************************************)
(* The barbershop simulator's book-keeping (thrlab/help.c): the front desk *)
(* that lets customers in at the door, starts a thread for each of them,   *)
(* follows every customer from "pending" to "done" or "rejected" as the    *)
(* shop's code calls accept, reject, prepare and dismiss, files a          *)
(* complaint whenever a call comes in the wrong state, and, when the shop  *)
(* closes, joins the customers' threads and says whether anyone complained.*)
(*                                                                         *)
(* This module holds the actions of the desk.  AnyShop.tla runs them under *)
(* a shop that may do anything, Barbershop.tla under the real one          *)
(* (thrlab/main.c).                                                        *)
(*                                                                         *)
(* Every call of the desk runs from start to end under the mutex           *)
(* thrlab->mtx, so it is one step here.  The one owner who keeps the mutex *)
(* over several steps is the door (thrlab_wait_for_customers), which       *)
(* creates the customer's thread before it has counted the customer.       *)
(***************************************************************************)
EXTENDS Integers, FiniteSets, Functions

CONSTANTS
    visitors,       \* customers of the day        (thrlab->visitors, -c)
    barbers,        \* barbers, one room each      (thrlab->barbers, -b)
    chairs,         \* chairs of the waiting room  (thrlab->chairs, -w)
    NULL            \* no customer                 (a NULL pointer)

Customers == 0 .. visitors - 1
Rooms     == 0 .. barbers - 1

(* argparse_opt refuses zero for each of the three numbers. *)
ASSUME ThrlabAssumption ==
    /\ visitors \in Nat \ {0}
    /\ barbers \in Nat \ {0}
    /\ chairs \in Nat \ {0}
    /\ NULL \notin Customers

Statuses == {"pending", "waiting", "cutting", "done", "rejected"}

(* A complaint is named by the call it is about and what was wrong: the    *)
(* status that the call did not fit, or a reason of its own.               *)
ComplaintKinds ==
    ({"accept", "reject"} \X {"waiting", "cutting", "done", "rejected"})
    \cup ({"prepare"} \X {"pending", "cutting", "done", "rejected"})
    \cup ({"dismiss"} \X {"pending", "waiting", "done", "rejected"})
    \cup {<<"accept", "full">>, <<"reject", "avail">>,
          <<"prepare", "busy">>, <<"prepare", "self">>,
          <<"dismiss", "room">>, <<"dismiss", "self">>, <<"dismiss", "early">>,
          <<"cut", "fast">>, <<"cut", "slow">>}

(* How long a haircut took, against the time it should take. *)
Paces == {"fast", "fair", "slow"}

VARIABLES
    mtx,            \* "free", or "door" while the door holds thrlab->mtx
    statuses,       \* thrlab->statuses; "absent" before add_customer
    occupancy,      \* the customer in each room, or NULL
    num_pending, num_waiting, num_cutting,
    complaints,     \* how often each kind of complaint was filed
    customer_count,
    thread,         \* each customer's thread; "joined" also means freed
    door,           \* where the main thread is inside help.c
    verdict,        \* what check_complaints said
    process         \* "running", "exited" (an error path), "returned"

counters == <<num_pending, num_waiting, num_cutting>>
book     == <<statuses, occupancy, counters, complaints>>
deskVars == <<mtx, book, customer_count, thread, door, verdict, process>>

ThrlabTypeOK ==
    /\ mtx \in {"free", "door"}
    /\ statuses \in [Customers -> Statuses \cup {"absent"}]
    /\ occupancy \in [Rooms -> Customers \cup {NULL}]
    /\ num_pending \in Nat /\ num_waiting \in Nat /\ num_cutting \in Nat
    /\ complaints \in [ComplaintKinds -> Nat]
    /\ customer_count \in 0 .. visitors
    /\ thread \in [Customers -> {"none", "running", "returned", "joined"}]
    /\ door \in {"arrival", "create", "count", "failing", "join", "closed"}
    /\ verdict \in {"none", "silent", "complaints"}
    /\ process \in {"running", "exited", "returned"}

ThrlabInit ==
    /\ mtx = "free"
    /\ statuses = [c \in Customers |-> "absent"]
    /\ occupancy = [r \in Rooms |-> NULL]
    /\ num_pending = 0 /\ num_waiting = 0 /\ num_cutting = 0
    /\ complaints = [k \in ComplaintKinds |-> 0]
    /\ customer_count = 0
    /\ thread = [c \in Customers |-> "none"]
    /\ door = "arrival"
    /\ verdict = "none"
    /\ process = "running"

(***************************************************************************)
(* The door: thrlab_wait_for_customers, one customer per round.            *)
(***************************************************************************)

(* The mutex is taken and the customer entered in the tables. *)
AddCustomer ==
    /\ process = "running" /\ door = "arrival" /\ mtx = "free"
    /\ customer_count < visitors
    /\ mtx' = "door"
    /\ statuses' = [statuses EXCEPT ![customer_count] = "pending"]
    /\ customer_count' = customer_count + 1
    /\ door' = "create"
    /\ UNCHANGED <<occupancy, counters, complaints, thread, verdict, process>>

(* A plausible slip: the mutex is released before the customer is counted. *)
MutCreateThread ==
    /\ process = "running" /\ door = "create"
    /\ thread' = [thread EXCEPT ![customer_count - 1] = "running"]
    /\ door' = "count"
    /\ mtx' = "free"
    /\ UNCHANGED <<book, customer_count, verdict, process>>

(* From here on the customer's callback runs. *)
CreateThread ==
    /\ process = "running" /\ door = "create"
    /\ thread' = [thread EXCEPT ![customer_count - 1] = "running"]
    /\ door' = "count"
    /\ UNCHANGED <<mtx, book, customer_count, verdict, process>>

(* Only now is the customer counted, and the mutex released. *)
CountPending ==
    /\ process = "running" /\ door = "count"
    /\ num_pending' = num_pending + 1
    /\ mtx' = "free"
    /\ door' = "arrival"
    /\ UNCHANGED <<statuses, occupancy, num_waiting, num_cutting, complaints,
                   customer_count, thread, verdict, process>>

(* pthread_create fails: the mutex is released before the process exits. *)
ThreadFails ==
    /\ process = "running" /\ door = "create"
    /\ mtx' = "free"
    /\ door' = "failing"
    /\ UNCHANGED <<book, customer_count, thread, verdict, process>>

(* exit after a failed malloc (at "arrival" or, the mutex still held, at   *)
(* "create") or after a failed pthread_create.                             *)
DoorExits ==
    /\ process = "running"
    /\ \/ door = "arrival" /\ customer_count < visitors
       \/ door \in {"create", "failing"}
    /\ process' = "exited"
    /\ UNCHANGED <<mtx, book, customer_count, thread, door, verdict>>

(* All visitors are in: back to main, which calls thrlab_cleanup. *)
LastCustomerIn ==
    /\ process = "running" /\ door = "arrival" /\ customer_count = visitors
    /\ door' = "join"
    /\ UNCHANGED <<mtx, book, customer_count, thread, verdict, process>>

DoorStep ==
    \/ AddCustomer \/ CreateThread \/ CountPending
    \/ ThreadFails \/ DoorExits \/ LastCustomerIn

(***************************************************************************)
(* The calls of the shop.  c is a customer, r a room, and self says        *)
(* whether the caller is the customer's own thread.                        *)
(***************************************************************************)
File(grievances) ==
    complaints' = [k \in ComplaintKinds |->
                     complaints[k] + (IF k \in grievances THEN 1 ELSE 0)]

(* A plausible slip: a full waiting room is noticed one customer late. *)
MutAcceptGrievances(c) ==
    IF statuses[c] # "pending" THEN {<<"accept", statuses[c]>>}
    ELSE IF chairs < num_waiting THEN {<<"accept", "full">>}
    ELSE {}

AcceptGrievances(c) ==
    IF statuses[c] # "pending" THEN {<<"accept", statuses[c]>>}
    ELSE IF chairs <= num_waiting THEN {<<"accept", "full">>}
    ELSE {}

(* A plausible slip: the status is overwritten whatever it was. *)
MutAccept(c) ==
    /\ mtx = "free"
    /\ File(AcceptGrievances(c))
    /\ statuses' = [statuses EXCEPT ![c] = "waiting"]
    /\ num_waiting' = num_waiting + 1
    /\ num_pending' = num_pending - 1
    /\ UNCHANGED <<mtx, occupancy, num_cutting, customer_count, thread, door,
                   verdict, process>>

Accept(c) ==
    /\ mtx = "free"
    /\ File(AcceptGrievances(c))
    /\ IF statuses[c] = "pending"
       THEN /\ statuses' = [statuses EXCEPT ![c] = "waiting"]
            /\ num_waiting' = num_waiting + 1
            /\ num_pending' = num_pending - 1
       ELSE UNCHANGED <<statuses, num_waiting, num_pending>>
    /\ UNCHANGED <<mtx, occupancy, num_cutting, customer_count, thread, door,
                   verdict, process>>

RejectGrievances(c) ==
    IF statuses[c] # "pending" THEN {<<"reject", statuses[c]>>}
    ELSE IF chairs > num_waiting THEN {<<"reject", "avail">>}
    ELSE {}

Reject(c) ==
    /\ mtx = "free"
    /\ File(RejectGrievances(c))
    /\ IF statuses[c] = "pending"
       THEN /\ statuses' = [statuses EXCEPT ![c] = "rejected"]
            /\ num_pending' = num_pending - 1
       ELSE UNCHANGED <<statuses, num_pending>>
    /\ UNCHANGED <<mtx, occupancy, num_waiting, num_cutting, customer_count,
                   thread, door, verdict, process>>

PrepareGrievances(c, r, self) ==
    IF occupancy[r] \notin {NULL, c} THEN {<<"prepare", "busy">>}
    ELSE IF statuses[c] # "waiting" THEN {<<"prepare", statuses[c]>>}
    ELSE {k \in {<<"prepare", "self">>} : self}
         \cup {k \in {<<"prepare", "busy">>} : occupancy[r] = c}

(* A plausible slip: a customer may be prepared while in another's chair. *)
MutPrepare(c, r, self) ==
    /\ mtx = "free"
    /\ File(PrepareGrievances(c, r, self))
    /\ IF statuses[c] = "waiting"
       THEN /\ occupancy' = [occupancy EXCEPT ![r] = c]
            /\ statuses' = [statuses EXCEPT ![c] = "cutting"]
            /\ num_cutting' = num_cutting + 1
            /\ num_waiting' = num_waiting - 1
       ELSE UNCHANGED <<occupancy, statuses, num_cutting, num_waiting>>
    /\ UNCHANGED <<mtx, num_pending, customer_count, thread, door, verdict,
                   process>>

Prepare(c, r, self) ==
    /\ mtx = "free"
    /\ File(PrepareGrievances(c, r, self))
    /\ IF statuses[c] = "waiting" /\ occupancy[r] = NULL
       THEN /\ occupancy' = [occupancy EXCEPT ![r] = c]
            /\ statuses' = [statuses EXCEPT ![c] = "cutting"]
            /\ num_cutting' = num_cutting + 1
            /\ num_waiting' = num_waiting - 1
       ELSE UNCHANGED <<occupancy, statuses, num_cutting, num_waiting>>
    /\ UNCHANGED <<mtx, num_pending, customer_count, thread, door, verdict,
                   process>>

DismissGrievances(c, r, self, pace) ==
    IF occupancy[r] # c THEN {<<"dismiss", "room">>}
    ELSE IF statuses[c] # "cutting" THEN {<<"dismiss", statuses[c]>>}
    ELSE {k \in {<<"dismiss", "self">>} : self}
         \cup ({<<"cut", pace>>} \ {<<"cut", "fair">>})

Dismiss(c, r, self, pace) ==
    /\ mtx = "free"
    /\ File(DismissGrievances(c, r, self, pace))
    /\ IF statuses[c] = "cutting" /\ occupancy[r] = c
       THEN /\ occupancy' = [occupancy EXCEPT ![r] = NULL]
            /\ statuses' = [statuses EXCEPT ![c] = "done"]
            /\ num_cutting' = num_cutting - 1
       ELSE UNCHANGED <<occupancy, statuses, num_cutting>>
    /\ UNCHANGED <<mtx, num_pending, num_waiting, customer_count, thread,
                   door, verdict, process>>

(* The customer's callback has returned (my_callback): one last look at    *)
(* the status, then the thread ends.                                       *)
EndCallback(c) ==
    /\ thread[c] = "running" /\ mtx = "free"
    /\ File({k \in {<<"dismiss", "early">>} : statuses[c] = "cutting"})
    /\ thread' = [thread EXCEPT ![c] = "returned"]
    /\ UNCHANGED <<mtx, statuses, occupancy, counters, customer_count, door,
                   verdict, process>>

(***************************************************************************)
(* Closing time: thrlab_cleanup.                                           *)
(***************************************************************************)

(* A plausible slip, which the source holds as a comment: the thread is    *)
(* detached instead of joined, and the customer freed all the same.        *)
MutJoin(c) ==
    /\ process = "running" /\ door = "join"
    /\ \A b \in 0 .. c - 1 : thread[b] = "joined"
    /\ thread[c] # "joined"
    /\ thread' = [thread EXCEPT ![c] = "joined"]
    /\ UNCHANGED <<mtx, book, customer_count, door, verdict, process>>

(* pthread_join in order of arrival, and the customer is freed. *)
Join(c) ==
    /\ process = "running" /\ door = "join"
    /\ \A b \in 0 .. c - 1 : thread[b] = "joined"
    /\ thread[c] = "returned"
    /\ thread' = [thread EXCEPT ![c] = "joined"]
    /\ UNCHANGED <<mtx, book, customer_count, door, verdict, process>>

TotalComplaints == FoldFunction(+, 0, complaints)

(* A plausible slip: customers who still wait are not added in. *)
MutCloseDesk ==
    /\ process = "running" /\ door = "join"
    /\ \A c \in Customers : thread[c] = "joined"
    /\ verdict' = IF num_cutting + num_pending + TotalComplaints = 0
                  THEN "silent" ELSE "complaints"
    /\ door' = "closed"
    /\ UNCHANGED <<mtx, book, customer_count, thread, process>>

(* The tables are freed, check_complaints speaks, thrlab becomes NULL. *)
CloseDesk ==
    /\ process = "running" /\ door = "join"
    /\ \A c \in Customers : thread[c] = "joined"
    /\ verdict' = IF num_cutting + num_waiting + num_pending
                       + TotalComplaints = 0
                  THEN "silent" ELSE "complaints"
    /\ door' = "closed"
    /\ UNCHANGED <<mtx, book, customer_count, thread, process>>

CleanupStep == CloseDesk \/ \E c \in Customers : Join(c)

(***************************************************************************)
(* What the desk promises, whatever the shop does.                         *)
(***************************************************************************)
With(status) == {c \in Customers : statuses[c] = status}

(* The customer the door has entered in the tables but not counted. *)
Uncounted == IF door \in {"create", "count", "failing"} THEN 1 ELSE 0

(* The three counters that check_complaints adds up are the numbers of     *)
(* pending, waiting and cutting customers: no interleaving of the door,    *)
(* the customers' threads and the barbers counts anyone twice or takes a   *)
(* counter below zero.  help.c counts a customer after his thread exists.  *)
CountsAgree ==
    /\ num_pending + Uncounted = Cardinality(With("pending"))
    /\ num_waiting = Cardinality(With("waiting"))
    /\ num_cutting = Cardinality(With("cutting"))

(* Rooms and statuses, kept in two tables, tell the same story: whoever is *)
(* in a room is being cut, and whoever is being cut is in exactly one      *)
(* room.  It makes the second test for a busy room in                      *)
(* thrlab_prepare_customer unreachable.                                    *)
RoomsAgree ==
    /\ \A r \in Rooms :
         occupancy[r] # NULL => statuses[occupancy[r]] = "cutting"
    /\ \A c \in With("cutting") : \E r \in Rooms : occupancy[r] = c
    /\ \A r, s \in Rooms :
         occupancy[r] = occupancy[s] /\ occupancy[r] # NULL => r = s

(* There are never more customers waiting than chairs without an           *)
(* "accepted while seats were unavailable" complaint.                      *)
OvercrowdingReported ==
    num_waiting > chairs => complaints[<<"accept", "full">>] > 0

(* When check_complaints keeps silent, every visitor of the day was either *)
(* served or turned away, no room is occupied, and nobody was served who   *)
(* should not have been: silence is a bill of health for the shop.         *)
VerdictIsEarned ==
    verdict = "silent" =>
      /\ \A c \in Customers : statuses[c] \in {"done", "rejected"}
      /\ \A r \in Rooms : occupancy[r] = NULL
      /\ \A k \in ComplaintKinds : complaints[k] = 0
=============================================================================
