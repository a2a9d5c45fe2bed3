---------------------------- MODULE WaitingRoom ----------------------------
(***************************************************************************)
(* What the barbershop promises its customers, with no threads and no      *)
(* semaphores: a waiting room of so many chairs, the customers in it are   *)
(* called in the order in which they sat down, each into a free room, and  *)
(* nobody sits down twice.  Barbershop.tla implements it.                  *)
(***************************************************************************)
EXTENDS Naturals, Sequences

CONSTANTS Customers, Rooms, chairs, NULL

VARIABLES
    queue,      \* the customers who wait, the next one first
    room,       \* the customer in each room, or NULL
    served      \* the customers who have been dismissed

vars == <<queue, room, served>>

Waiting == {queue[i] : i \in 1 .. Len(queue)}
InRooms == {room[r] : r \in Rooms} \ {NULL}

Init ==
    /\ queue = <<>>
    /\ room = [r \in Rooms |-> NULL]
    /\ served = {}

Sit(c) ==
    /\ c \notin Waiting \cup InRooms \cup served
    /\ Len(queue) < chairs
    /\ queue' = Append(queue, c)
    /\ UNCHANGED <<room, served>>

Call(r) ==
    /\ queue # <<>> /\ room[r] = NULL
    /\ room' = [room EXCEPT ![r] = Head(queue)]
    /\ queue' = Tail(queue)
    /\ UNCHANGED served

Release(r) ==
    /\ room[r] # NULL
    /\ served' = served \cup {room[r]}
    /\ room' = [room EXCEPT ![r] = NULL]
    /\ UNCHANGED queue

Next ==
    \/ \E c \in Customers : Sit(c)
    \/ \E r \in Rooms : Call(r) \/ Release(r)

Spec == Init /\ [][Next]_vars
=============================================================================
