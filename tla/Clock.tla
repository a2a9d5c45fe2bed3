-------------------------------- MODULE Clock --------------------------------
(***************************************************************************)
(* clock.c and ftimer.c: how the timing package reads time.                *)
(*                                                                         *)
(* The cycle counter is one large number that rdtsc delivers in two        *)
(* unsigned words; gettimeofday and getitimer deliver seconds and the      *)
(* microseconds that are left over.  All of them take the difference of    *)
(* two readings part by part.                                              *)
(***************************************************************************)
EXTENDS Integers

CONSTANTS
    Word,       \* the number of values of an unsigned
    Micro,      \* microseconds in a second
    MAX_ETIME   \* ftimer.c: the seconds the interval timer is set to

ASSUME ClockAssumption ==
    Word \in Nat \ {0} /\ Micro \in Nat \ {0} /\ MAX_ETIME \in Nat

(* access_counter: the words of the counter when it has counted n cycles. *)
Hi(n) == (n \div Word) % Word
Lo(n) == n % Word

(* Mutant: the low words' borrow is forgotten. *)
Mutget_counter(cyc_hi, cyc_lo, ncyc_hi, ncyc_lo) ==
    ((ncyc_hi - cyc_hi) % Word) * Word + ((ncyc_lo - cyc_lo) % Word)

(* The cycles between two readings, by subtraction with a borrow. *)
get_counter(cyc_hi, cyc_lo, ncyc_hi, ncyc_lo) ==
    LET lo == (ncyc_lo - cyc_lo) % Word
        borrow == IF lo > ncyc_lo THEN 1 ELSE 0
        hi == (ncyc_hi - cyc_hi - borrow) % Word
    IN  hi * Word + lo

(* The parts of a struct timeval. *)
Seconds(t) == t \div Micro
Microseconds(t) == t % Micro

(* Mutant: the microseconds at the start are forgotten. *)
MutBetween(s, e) == Micro * (Seconds(e) - Seconds(s)) + Microseconds(e)

(* The time from s to e, from the parts of both. *)
Between(s, e) ==
    Micro * (Seconds(e) - Seconds(s)) + (Microseconds(e) - Microseconds(s))

(* get_etime: the interval timer counts down from MAX_ETIME seconds; left  *)
(* is what it shows.                                                       *)
get_etime(left) == Between(left, Micro * MAX_ETIME)
=============================================================================
