------------------------------ MODULE Evaluation ------------------------------
(***************************************************************************)
(* mdriver.c, main: what becomes of one trace.                             *)
(*                                                                         *)
(* eval_mm_valid runs the trace and checks the answers.  A trace that      *)
(* passed is run again, without checks: once by eval_mm_util, which adds   *)
(* up what the client asked for and compares it with the size of the heap, *)
(* and several times by eval_mm_speed, the function that fsecs times.      *)
(* Every run resets the heap and finds in the memory, in trace->blocks and *)
(* in the allocator's own variables what the run before left there; only   *)
(* the validation fills the payloads.  The three must be runs of the same  *)
(* program all the same, or the score is not that of what was checked.     *)
(*                                                                         *)
(* fsecs is built for one of three ways to take time: the cycle counter    *)
(* with fcyc, gettimeofday, or the interval timer.                         *)
(***************************************************************************)
EXTENDS Mdriver, Fcyc

CONSTANTS
    Methods,    \* how time may be taken: "fcyc", "gettod", "itimer"
    MaxOps,     \* bound on the requests of a trace
    TimedOps,   \* the bound for the methods that are not gettod
    Runs        \* ftimer's n: how often f runs between two readings

ASSUME EvaluationAssumption ==
    /\ Methods \subseteq {"fcyc", "gettod", "itimer"}
    /\ MaxOps \in Nat /\ TimedOps \in Nat /\ Runs \in Nat \ {0}

VARIABLES
    phase,          \* "valid", "util", "fsecs", "speed", "scored", "aborted"
    method,
    trace,          \* trace->ops: the requests, as far as they are known
    given,          \* what the validation got: each answer, and the break after it
    done,           \* how many of the requests the present run has made
    total_size,     \* eval_mm_util: the bytes the client holds
    max_total_size, \* the most he ever held
    util,           \* what eval_mm_util returned: the two sides of the ratio
    first,          \* what the clock showed before the first run
    now,            \* what it shows
    runs,           \* how many runs have been timed
    tmeas           \* the time of them all

replayVars == <<done, total_size, max_total_size, util>>
timerVars == <<first, now, runs, tmeas>>
driverVars == <<package, block_sizes, ranges, verdict>>
evalVars == <<vars, fcycVars, phase, method, trace, given, replayVars, timerVars>>

Op(t, i, size) == [type |-> t, index |-> i, size |-> size]
Answer(h) == [ret |-> h.ret, brk |-> h.mem_brk]

EvalInit ==
    /\ Init /\ FcycInit
    /\ phase = "valid" /\ method \in Methods
    /\ trace = <<>> /\ given = <<>> /\ done = 0
    /\ total_size = 0 /\ max_total_size = 0 /\ util = [hwm |-> 0, heapsize |-> 0]
    /\ first = 0 /\ now = 0 /\ runs = 0 /\ tmeas = 0
-----------------------------------------------------------------------------
(* eval_mm_valid: the requests are those of Mdriver, and the ones made are *)
(* the trace.  Blocks get their numbers in the order they are allocated.   *)

Longest == IF method = "gettod" THEN MaxOps ELSE TimedOps

Numbered(i) == \A j \in Ids : j < i => j \in Live

Validate ==
    /\ phase = "valid" /\ Len(trace) < Longest
    /\ UNCHANGED package
    /\ \/ \E i \in Ids, size \in Sizes :
             Numbered(i) /\ Alloc(i, size) /\ trace' = Append(trace, Op("a", i, size))
       \/ \E i \in Ids, size \in Sizes, order \in Memcpy :
             Realloc(i, size, order) /\ trace' = Append(trace, Op("r", i, size))
       \/ \E i \in Ids : Free(i) /\ trace' = Append(trace, Op("f", i, 0))
    /\ given' = Append(given, Answer(heap'))
    /\ UNCHANGED <<fcycVars, phase, method, replayVars, timerVars>>
-----------------------------------------------------------------------------
(* Running the trace again. *)

app_error == "aborted"

(* A run starts; it goes on in phase p. *)
Restart(p) ==
    /\ heap' = Started(heap)
    /\ done' = 0
    /\ phase' = IF heap'.ret < 0 THEN app_error ELSE p

Request == trace[done + 1]

(* What the allocator does with the next request. *)
Served(order) ==
    CASE Request.type = "a" -> mm_malloc(heap, Request.size)
      [] Request.type = "r" -> mm_realloc(heap, blocks[Request.index], Request.size, order)
      [] Request.type = "f" -> mm_free(heap, blocks[Request.index])

(* An answer is remembered; free has none, and leaves trace->blocks alone. *)
Proceed(h) ==
    LET answers == Request.type # "f"
        fails == answers /\ h.ret \in {NULL, Exited}
    IN  /\ heap' = h
        /\ done' = done + 1
        /\ phase' = IF fails THEN app_error ELSE phase
        /\ blocks' = IF answers /\ ~fails
                     THEN [blocks EXCEPT ![Request.index] = h.ret] ELSE blocks

(* A valid trace goes to eval_mm_util. *)
Evaluate ==
    /\ phase = "valid" /\ verdict = "ok"
    /\ Restart("util")
    /\ total_size' = 0 /\ max_total_size' = 0
    /\ UNCHANGED <<driverVars, blocks, fcycVars, method, trace, given, util, timerVars>>

(* Mutant: a block that is freed is never subtracted; a free has no size. *)
MutBalance(op) ==
    CASE op.type = "a" -> op.size
      [] op.type = "r" -> op.size - block_sizes[op.index]
      [] op.type = "f" -> - op.size

(* By how much a request changes what the client holds. *)
Balance(op) ==
    CASE op.type = "a" -> op.size
      [] op.type = "r" -> op.size - block_sizes[op.index]
      [] op.type = "f" -> - block_sizes[op.index]

(* One request of eval_mm_util. *)
eval_mm_util ==
    /\ phase = "util" /\ done < Len(trace)
    /\ \E order \in Memcpy : \E h \in {Served(order)} : Proceed(h)
    /\ total_size' = total_size + Balance(Request)
    /\ max_total_size' = Max({max_total_size, total_size'})
    /\ block_sizes' = IF Request.type = "f" THEN block_sizes
                      ELSE [block_sizes EXCEPT ![Request.index] = Request.size]
    /\ UNCHANGED <<package, ranges, verdict, fcycVars, method, trace, given, util, timerVars>>

mem_heapsize == heap.mem_brk - mem_start_brk

UtilReturns ==
    /\ phase = "util" /\ done = Len(trace)
    /\ phase' = "fsecs"
    /\ util' = [hwm |-> max_total_size, heapsize |-> mem_heapsize]
    /\ UNCHANGED <<vars, fcycVars, method, trace, given, done, total_size,
                   max_total_size, timerVars>>

(* One request of eval_mm_speed. *)
eval_mm_speed ==
    /\ phase = "speed" /\ done < Len(trace)
    /\ \E order \in Memcpy : \E h \in {Served(order)} : Proceed(h)
    /\ UNCHANGED <<driverVars, fcycVars, method, trace, given, total_size,
                   max_total_size, util, timerVars>>
-----------------------------------------------------------------------------
(* fsecs with the cycle counter: f is timed by fcyc. *)

FcycStarts ==
    /\ phase = "fsecs" /\ method = "fcyc"
    /\ init_sampler
    /\ UNCHANGED <<vars, phase, method, trace, given, replayVars, timerVars>>

FcycRuns ==
    /\ phase = "fsecs" /\ method = "fcyc"
    /\ \E n \in Readings, late \in Ticks : start_counter(n, late)
    /\ Restart("speed")
    /\ UNCHANGED <<driverVars, blocks, method, trace, given, total_size,
                   max_total_size, util, timerVars>>

FcycSamples ==
    /\ phase = "speed" /\ method = "fcyc" /\ done = Len(trace)
    /\ \E d \in Cycles, early \in Ticks : FReturns(d, early)
    /\ phase' = "fsecs"
    /\ UNCHANGED <<vars, method, trace, given, replayVars, timerVars>>

FcycGoesOn ==
    /\ phase = "fsecs" /\ method = "fcyc"
    /\ \/ (Swap \/ Again) /\ UNCHANGED phase
       \/ Enough /\ phase' = "scored"
    /\ UNCHANGED <<vars, method, trace, given, replayVars, timerVars>>

(* fsecs with a clock that is read before the first run and after the last:*)
(* the time of day, or what the interval timer has counted down.           *)
Timer == method \in {"gettod", "itimer"}

Elapsed(from, to) ==
    IF method = "gettod" THEN Between(from, to)
    ELSE get_etime(Micro * MAX_ETIME - to) - get_etime(Micro * MAX_ETIME - from)

TimerStarts ==
    /\ phase = "fsecs" /\ Timer /\ runs = 0
    /\ \E n \in Readings : first' = n /\ now' = n
    /\ Restart("speed")
    /\ UNCHANGED <<driverVars, blocks, fcycVars, method, trace, given, total_size,
                   max_total_size, util, runs, tmeas>>

(* f has returned after d, and runs again or not. *)
TimerGoesOn ==
    /\ phase = "speed" /\ Timer /\ done = Len(trace)
    /\ \E d \in Cycles : now' = now + d
    /\ runs' = runs + 1
    /\ \/ /\ runs' < Runs /\ Restart("speed")
          /\ UNCHANGED tmeas
       \/ /\ runs' = Runs /\ phase' = "scored"
          /\ tmeas' = Elapsed(first, now')
          /\ UNCHANGED <<heap, done>>
    /\ UNCHANGED <<driverVars, blocks, fcycVars, method, trace, given, total_size,
                   max_total_size, util, first>>
-----------------------------------------------------------------------------
EvalNext ==
    \/ Validate
    \/ Evaluate \/ eval_mm_util \/ UtilReturns
    \/ FcycStarts \/ FcycRuns \/ FcycSamples \/ FcycGoesOn
    \/ TimerStarts \/ TimerGoesOn
    \/ eval_mm_speed

(* The next step calls the allocator. *)
Calling ==
    \/ phase = "valid" /\ verdict = "ok"
    \/ phase \in {"util", "speed"} /\ done < Len(trace)
    \/ phase = "speed" /\ Timer
    \/ phase = "fsecs" /\ (Timer \/ at = "start")

(* One thread, which runs on as long as it can.  A call of the allocator   *)
(* always returns; that is weak fairness of the steps that make one, with  *)
(* the states where they are enabled told by a predicate, because the      *)
(* allocators are too large to be evaluated under ENABLED.                 *)
Fairness ==
    /\ WF_evalVars(UtilReturns \/ FcycStarts \/ FcycSamples \/ FcycGoesOn)
    /\ []<>~Calling \/ []<><<EvalNext>>_evalVars

EvalSpec == EvalInit /\ [][EvalNext]_evalVars /\ Fairness
-----------------------------------------------------------------------------
EvalTypeOK ==
    /\ phase \in {"valid", "util", "fsecs", "speed", "scored", "aborted"}
    /\ method \in Methods
    /\ Len(trace) <= Longest /\ Len(given) = Len(trace) /\ done \in 0 .. Len(trace)
    /\ total_size \in Nat /\ max_total_size \in Nat
    /\ util.hwm \in Nat /\ util.heapsize \in Nat
    /\ runs \in 0 .. Runs /\ tmeas \in Int
    /\ FcycTypeOK

(* What is measured is what was validated: after any number of requests    *)
(* every run has got the answers the validation got, at the same           *)
(* addresses, and the heap is as large; so no stale word, list head or     *)
(* payload of an earlier run is ever used.                                 *)
ReplaysAgree ==
    phase \in {"util", "speed"} /\ done > 0 => Answer(heap) = given[done]

(* The bytes the first n requests of t leave each number with. *)
Holding(t, n) ==
    LET sizes[k \in 0 .. n] ==
            IF k = 0 THEN [i \in Ids |-> 0]
            ELSE [sizes[k - 1] EXCEPT ![t[k].index] = t[k].size]
    IN  sizes[n]

(* The bytes that the first n requests leave the client with. *)
Total(held) == MapThenSumSet(LAMBDA i : held[i], Ids)
Demand(n) == Total(Holding(trace, n))

(* The utilization is the most the trace ever asked for at one time, over  *)
(* a heap that is larger: no request is counted twice, or at a size it no  *)
(* longer has, after any sequence of reallocations.                        *)
HighWater ==
    /\ phase = "util" =>
          /\ total_size = Demand(done)
          /\ max_total_size = Max({Demand(n) : n \in 0 .. done})
    /\ phase \in {"fsecs", "speed", "scored"} =>
          /\ util.hwm = Max({Demand(n) : n \in 0 .. Len(trace)})
          /\ util.hwm < util.heapsize

(* The time a score is computed from is time that passed while the trace   *)
(* ran: all of it, however seconds and microseconds are split, or with     *)
(* fcyc that of the fastest run, less the interrupts counted.              *)
TimeIsElapsed ==
    phase = "scored" =>
        \/ Timer /\ tmeas = now - first
        \/ ~Timer /\ result = Min({took[i] : i \in DOMAIN took})

(* A trace that was found valid gets a score: no later run of it fails,    *)
(* and the sampling ends whether or not the samples agree.                 *)
ValidIsScored == (phase = "util") ~> (phase = "scored")
=============================================================================
