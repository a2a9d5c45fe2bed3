------------------------------ MODULE AnyShop ------------------------------
(***************************************************************************)
(* The desk of the barbershop under an arbitrary shop.  The desk does not  *)
(* trust the code it is linked with: what it promises may not depend on    *)
(* the shop being right.  help.h lets any thread make any call until the   *)
(* cleanup, and a customer can be named from the moment his thread exists  *)
(* until he is freed.                                                      *)
(***************************************************************************)
EXTENDS Thrlab

CONSTANT MaxComplaints      \* bounds the shop's mischief

Call(c) ==
    \/ Accept(c)
    \/ Reject(c)
    \/ \E r \in Rooms, self \in BOOLEAN :
         /\ self => thread[c] = "running"
         /\ \/ Prepare(c, r, self)
            \/ \E pace \in Paces : Dismiss(c, r, self, pace)

ShopStep ==
    /\ process = "running"
    /\ \E c \in Customers :
         \/ thread[c] \in {"running", "returned"} /\ Call(c)
         \/ EndCallback(c)
    /\ TotalComplaints' <= MaxComplaints

(* The end of the day, or of the process. *)
Over ==
    /\ door = "closed" \/ process # "running"
    /\ UNCHANGED deskVars

Next == DoorStep \/ ShopStep \/ CleanupStep \/ Over

Spec == ThrlabInit /\ [][Next]_deskVars
=============================================================================
