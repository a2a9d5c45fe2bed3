-------------------------------- MODULE Fcyc ---------------------------------
(***************************************************************************)
(* fcyc.c: how many cycles a function takes, by the K-best scheme.         *)
(*                                                                         *)
(* The function f is run again and again.  The kbest smallest samples are  *)
(* kept in order; sampling ends when they agree to within epsilon, or      *)
(* after maxsamples.  The smallest is the answer.                          *)
(*                                                                         *)
(* With compensation, cyc_per_tick cycles are subtracted for every timer   *)
(* interrupt counted in the process's user time.  The user time is read    *)
(* before the counter is started and after it is read, so that an          *)
(* interrupt may be counted that was not timed.                            *)
(***************************************************************************)
EXTENDS Clock, Sequences, FiniteSets

CONSTANTS
    kbest,          \* how many samples must agree
    maxsamples,     \* when to give up
    EpsNum, EpsDen, \* epsilon, as a fraction
    compensate,     \* whether timer interrupts are subtracted
    cyc_per_tick,   \* what callibrate found: the cycles of an interrupt
    Readings,       \* what the cycle counter may show when f starts
    Cycles,         \* the cycles f may take
    Ticks           \* how many interrupts there may be at a time

ASSUME FcycAssumption ==
    /\ kbest \in Nat \ {0} /\ maxsamples \in Nat
    /\ EpsNum \in Nat /\ EpsDen \in Nat \ {0}
    /\ compensate \in BOOLEAN /\ cyc_per_tick \in Nat
    /\ Readings \subseteq Nat /\ Cycles \subseteq Nat /\ Ticks \subseteq Nat

(* f takes less than the range of the counter. *)
ASSUME CyclesAssumption == \A d \in Cycles : d < Word * Word

VARIABLES
    at,             \* where fcyc is: "off", "start", "run", "sort"
    values,         \* the smallest samples, in order
    samplecount,
    pos,            \* add_sample: where the new sample is in values
    cyc_hi, cyc_lo, \* what start_counter read
    ticks,          \* interrupts counted since start_comp_counter
    result,         \* what fcyc returned
    began,          \* the number of cycles when f started
    seen,           \* all samples of this measurement, in the order taken
    took            \* what f really took each time, less interrupts counted

fcycVars == <<at, values, samplecount, pos, cyc_hi, cyc_lo, ticks, result,
              began, seen, took>>

Slots == 0 .. kbest - 1

FcycInit ==
    /\ at = "off"
    /\ values = [i \in Slots |-> 0] /\ samplecount = 0 /\ pos = 0
    /\ cyc_hi = 0 /\ cyc_lo = 0 /\ ticks = 0 /\ result = 0
    /\ began = 0 /\ seen = <<>> /\ took = <<>>

init_sampler ==
    /\ at = "off" /\ at' = "start"
    /\ values' = [i \in Slots |-> 0]
    /\ samplecount' = 0
    /\ seen' = <<>> /\ took' = <<>>
    /\ UNCHANGED <<pos, cyc_hi, cyc_lo, ticks, result, began>>

(* start_counter, after start_comp_counter has read the user time; late    *)
(* interrupts come in between.                                             *)
start_counter(n, late) ==
    /\ at = "start" /\ at' = "run"
    /\ cyc_hi' = Hi(n) /\ cyc_lo' = Lo(n)
    /\ began' = n
    /\ ticks' = late
    /\ UNCHANGED <<values, samplecount, pos, result, seen, took>>

(* Mutant: one more sample is kept than there is room for. *)
MutOverfullSample(val) ==
    LET p == IF samplecount <= kbest THEN samplecount
             ELSE IF val < values[kbest - 1] THEN kbest - 1 ELSE 0
    IN  /\ values' = IF samplecount <= kbest \/ val < values[kbest - 1]
                     THEN [values EXCEPT ![p] = val] ELSE values
        /\ pos' = p
        /\ samplecount' = samplecount + 1

(* Mutant: a sample that is not among the best is stored all the same. *)
Mutadd_sample(val) ==
    LET p == IF samplecount < kbest THEN samplecount ELSE kbest - 1
    IN  /\ values' = [values EXCEPT ![p] = val]
        /\ pos' = p
        /\ samplecount' = samplecount + 1

(* A new sample is put at the end of those kept, or in the place of the    *)
(* largest, if it is smaller.                                              *)
add_sample(val) ==
    LET p == IF samplecount < kbest THEN samplecount
             ELSE IF val < values[kbest - 1] THEN kbest - 1 ELSE 0
    IN  /\ values' = IF samplecount < kbest \/ val < values[kbest - 1]
                     THEN [values EXCEPT ![p] = val] ELSE values
        /\ pos' = p
        /\ samplecount' = samplecount + 1

(* f has returned after d cycles; early interrupts came while it ran, or   *)
(* before get_comp_counter read the user time.                             *)
FReturns(d, early) ==
    LET time == get_counter(cyc_hi, cyc_lo, Hi(began + d), Lo(began + d))
        Less(t) == IF compensate THEN t - (ticks + early) * cyc_per_tick ELSE t
    IN  /\ at = "run" /\ at' = "sort"
        /\ ticks' = ticks + early
        /\ add_sample(Less(time))
        /\ seen' = Append(seen, Less(time))
        /\ took' = Append(took, Less(d))
        /\ UNCHANGED <<cyc_hi, cyc_lo, result, began>>

(* One step of the insertion sort. *)
Unsorted == pos > 0 /\ values[pos - 1] > values[pos]

Swap ==
    /\ at = "sort" /\ Unsorted
    /\ values' = [values EXCEPT ![pos - 1] = values[pos], ![pos] = values[pos - 1]]
    /\ pos' = pos - 1
    /\ UNCHANGED <<at, samplecount, cyc_hi, cyc_lo, ticks, result, began, seen, took>>

has_converged ==
    /\ samplecount >= kbest
    /\ (EpsDen + EpsNum) * values[0] >= EpsDen * values[kbest - 1]

(* The condition of fcyc's loop. *)
Again ==
    /\ at = "sort" /\ ~Unsorted
    /\ ~has_converged /\ samplecount < maxsamples
    /\ at' = "start"
    /\ UNCHANGED <<values, samplecount, pos, cyc_hi, cyc_lo, ticks, result, began, seen, took>>

(* Mutant: only agreement ends the sampling. *)
MutEnough ==
    /\ at = "sort" /\ ~Unsorted
    /\ has_converged
    /\ at' = "off"
    /\ result' = values[0]
    /\ UNCHANGED <<values, samplecount, pos, cyc_hi, cyc_lo, ticks, began, seen, took>>

Enough ==
    /\ at = "sort" /\ ~Unsorted
    /\ has_converged \/ samplecount >= maxsamples
    /\ at' = "off"
    /\ result' = values[0]
    /\ UNCHANGED <<values, samplecount, pos, cyc_hi, cyc_lo, ticks, began, seen, took>>

FcycNext ==
    \/ init_sampler
    \/ \E n \in Readings, late \in Ticks : start_counter(n, late)
    \/ \E d \in Cycles, early \in Ticks : FReturns(d, early)
    \/ Swap \/ Again \/ Enough

FcycSpec == FcycInit /\ [][FcycNext]_fcycVars
-----------------------------------------------------------------------------
Least(a, b) == IF a < b THEN a ELSE b
Kept == 0 .. Least(samplecount, kbest) - 1

FcycTypeOK ==
    /\ at \in {"off", "start", "run", "sort"}
    /\ values \in [Slots -> Int]
    /\ samplecount \in Nat
    /\ pos \in Slots
    /\ cyc_hi \in 0 .. Word - 1 /\ cyc_lo \in 0 .. Word - 1
    /\ ticks \in Nat /\ began \in Nat
    /\ result \in Int /\ seen \in Seq(Int) /\ took \in Seq(Int)

(* The values are in order, and all of those kept are samples. *)
Settled == at \in {"start", "run"} \/ (at = "sort" /\ ~Unsorted)

(* Whenever has_converged looks at the values, or fcyc returns the first,  *)
(* they are the kbest smallest samples, each as often as it was taken,     *)
(* whatever add_sample dropped: more than i samples are at most as large   *)
(* as values[i], and no more than i are smaller.                           *)
KBest ==
    Settled =>
        \A i \in Kept :
            /\ Cardinality({j \in DOMAIN seen : seen[j] <= values[i]}) > i
            /\ Cardinality({j \in DOMAIN seen : seen[j] < values[i]}) <= i

(* The cycles of a sample are those f took, less the interrupts counted,   *)
(* wherever the low word of the counter wrapped around meanwhile.          *)
SamplesAreExact == seen = took
=============================================================================
