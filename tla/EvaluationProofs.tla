--------------------------- MODULE EvaluationProofs ---------------------------
(***************************************************************************)
(* What is proved of the evaluation of a trace.                            *)
(*                                                                         *)
(* Of the timing: that the subtraction of two readings of the cycle        *)
(* counter is exact, that fcyc's answer is the least of its samples, and   *)
(* that the time by which the driver scores a trace is the time its runs   *)
(* took.                                                                   *)
(*                                                                         *)
(* Of the utilization: that every run is served by a heap that is in       *)
(* order, whatever the run before left there, and that what eval_mm_util   *)
(* returns is the most that the trace ever asked for, over a larger heap.  *)
(*                                                                         *)
(* Of the runs: that each gets the answers that the validation got, because*)
(* no answer depends on a word that was not written in the same run.       *)
(***************************************************************************)
EXTENDS Evaluation, MdriverProofs, FiniteSetTheorems, TLAPS

-----------------------------------------------------------------------------
(* Readings of the counter.                                                *)

(* Quotient and remainder are the only numbers of their kind. *)
LEMMA DivisionIsUnique ==
    ASSUME NEW w \in Nat \ {0}, NEW k \in Int, NEW r \in 0 .. w - 1
    PROVE  (w * k + r) % w = r /\ (w * k + r) \div w = k
<1> DEFINE a == w * k + r
           q == a \div w
           s == a % w
<1>1. a \in Int /\ q \in Int /\ s \in 0 .. w - 1 /\ a = w * q + s
  OBVIOUS
<1>2. w * (k - q) = s - r
  BY <1>1
<1>3. -w < s - r /\ s - r < w
  BY <1>1
<1> HIDE DEF a, q, s
<1>4. k - q = 0
  <2> DEFINE x == k - q
  <2>1. x \in Int
    BY <1>1
  <2> HIDE DEF x
  <2>2. CASE x >= 1
    <3>1. w * x >= w
      BY <2>1, <2>2
    <3> QED
      BY <3>1, <1>1, <1>2, <1>3 DEF x
  <2>3. CASE x <= -1
    <3>1. w * x <= -w
      BY <2>1, <2>3
    <3> QED
      BY <3>1, <1>1, <1>2, <1>3 DEF x
  <2> QED
    BY <2>1, <2>2, <2>3 DEF x
<1>5. q = k /\ s = r
  BY <1>1, <1>2, <1>4
<1> QED
  BY <1>5 DEF a, q, s
(* The words of the counter, from quotients and remainders by Word. *)
LEMMA WordsOf ==
    ASSUME NEW n \in Nat
    PROVE  /\ Lo(n) \in 0 .. Word - 1 /\ Hi(n) \in 0 .. Word - 1
           /\ n = Word * (n \div Word) + Lo(n)
           /\ n \div Word \in Nat
BY ClockAssumption DEF Lo, Hi

(* Factors may be taken out.                                               *)
LEMMA Distributes ==
    ASSUME NEW w \in Int, NEW p \in Int, NEW e \in Int
    PROVE  w * (p + e) = w * p + w * e
OBVIOUS

(* The words of a sum, from those of its parts.                            *)
LEMMA SumOfWords ==
    ASSUME NEW w \in Nat \ {0}, NEW p \in Int, NEW e \in Int,
           NEW a \in 0 .. w - 1, NEW b \in 0 .. w - 1, NEW s,
           s = (w * p + a) + (w * e + b)
    PROVE  /\ a + b < w => s % w = a + b /\ s \div w = p + e
           /\ a + b >= w => s % w = a + b - w /\ s \div w = p + e + 1
<1>1. \A k \in Int, r \in 0 .. w - 1 : s = w * k + r => s % w = r /\ s \div w = k
  BY DivisionIsUnique
<1>2. w * (p + e) = w * p + w * e /\ w * (p + e + 1) = w * (p + e) + w * 1
  BY Distributes
<1>3. CASE a + b < w
  <2>1. s = w * (p + e) + (a + b) /\ a + b \in 0 .. w - 1 /\ p + e \in Int
    BY <1>2, <1>3
  <2> QED
    BY <1>1, <1>3, <2>1
<1>4. CASE a + b >= w
  <2>1. /\ s = w * (p + e + 1) + (a + b - w)
        /\ a + b - w \in 0 .. w - 1 /\ p + e + 1 \in Int
    BY <1>2, <1>4
  <2> QED
    BY <1>1, <1>4, <2>1
<1> QED
  BY <1>3, <1>4

(* Adding d to n adds the words of d, with a carry c. *)
LEMMA CarryOf ==
    ASSUME NEW n \in Nat, NEW d \in Nat
    PROVE  \E c \in {0, 1} :
              /\ Lo(n + d) = Lo(n) + Lo(d) - Word * c
              /\ (n + d) \div Word = (n \div Word) + (d \div Word) + c
<1> DEFINE p == n \div Word
           e == d \div Word
<1>1. /\ Lo(n) \in 0 .. Word - 1 /\ Lo(d) \in 0 .. Word - 1
      /\ n = Word * p + Lo(n) /\ d = Word * e + Lo(d)
      /\ p \in Nat /\ e \in Nat
      /\ Word \in Nat \ {0}
  BY WordsOf, ClockAssumption
<1> HIDE DEF p, e
<1>2. /\ Lo(n) + Lo(d) < Word =>
            (n + d) % Word = Lo(n) + Lo(d) /\ (n + d) \div Word = p + e
      /\ Lo(n) + Lo(d) >= Word =>
            (n + d) % Word = Lo(n) + Lo(d) - Word /\ (n + d) \div Word = p + e + 1
  <2>1. n + d = (Word * p + Lo(n)) + (Word * e + Lo(d))
    BY <1>1
  <2>2. p \in Int /\ e \in Int
    BY <1>1
  <2> QED
    BY <1>1, <2>1, <2>2, SumOfWords
<1>3. /\ Lo(n) + Lo(d) < Word => Lo(n + d) = Lo(n) + Lo(d) - Word * 0
      /\ Lo(n) + Lo(d) >= Word => Lo(n + d) = Lo(n) + Lo(d) - Word * 1
  BY <1>1, <1>2 DEF Lo
<1> QED
  BY <1>1, <1>2, <1>3 DEF p, e

(* The double precision subtraction of get_counter is exact as long as     *)
(* less than the counter's range has passed, wherever low and high word    *)
(* wrapped around (clock.c:63-66).                                         *)
THEOREM CounterIsExact ==
    ASSUME NEW n \in Nat, NEW d \in Nat, d < Word * Word
    PROVE  get_counter(Hi(n), Lo(n), Hi(n + d), Lo(n + d)) = d
<1> DEFINE p == n \div Word
           e == d \div Word
           q == (n + d) \div Word
<1>1. /\ Word \in Nat \ {0} /\ p \in Nat /\ e \in Nat /\ q \in Nat
      /\ Lo(n) \in 0 .. Word - 1 /\ Lo(d) \in 0 .. Word - 1 /\ Lo(n + d) \in 0 .. Word - 1
      /\ d = Word * e + Lo(d)
  <2>1. n + d \in Nat
    OBVIOUS
  <2> QED
    BY <2>1, WordsOf, ClockAssumption
<1>2. PICK c \in {0, 1} :
        Lo(n + d) = Lo(n) + Lo(d) - Word * c /\ q = p + e + c
  BY CarryOf
<1>3. Hi(n) = p % Word /\ Hi(n + d) = q % Word
  BY DEF Hi
<1> HIDE DEF p, e, q
<1>4. e < Word
  <2>1. CASE e >= Word
    <3>1. Word * e >= Word * Word
      BY <1>1, <2>1
    <3> QED
      BY <3>1, <1>1
  <2> QED
    BY <2>1, <1>1
<1> DEFINE lo == (Lo(n + d) - Lo(n)) % Word
           borrow == IF lo > Lo(n + d) THEN 1 ELSE 0
           hi == ((q % Word) - (p % Word) - borrow) % Word
<1>5. lo = Lo(d)
  <2> DEFINE k == 0 - c
  <2>1. k \in Int /\ Lo(n + d) - Lo(n) = Word * k + Lo(d)
    BY <1>1, <1>2
  <2> HIDE DEF k
  <2>2. (Word * k + Lo(d)) % Word = Lo(d)
    BY <1>1, <2>1, DivisionIsUnique
  <2> QED
    BY <2>1, <2>2
<1>6. borrow = c
  BY <1>1, <1>2, <1>5
<1>7. hi = e
  <2> DEFINE kp == p \div Word
             kq == q \div Word
  <2>1. /\ p = Word * kp + (p % Word) /\ q = Word * kq + (q % Word)
        /\ kp \in Int /\ kq \in Int /\ (p % Word) \in Int /\ (q % Word) \in Int
    BY <1>1
  <2> HIDE DEF kp, kq
  <2> DEFINE k == kp - kq
  <2>2. k \in Int /\ Word * k = Word * kp - Word * kq
    BY <1>1, <2>1
  <2>3. (q % Word) - (p % Word) - c = Word * k + e
    BY <1>1, <1>2, <2>1, <2>2
  <2> HIDE DEF k
  <2>4. e \in 0 .. Word - 1
    BY <1>1, <1>4
  <2>5. (Word * k + e) % Word = e
    BY <1>1, <2>2, <2>4, DivisionIsUnique
  <2> QED
    BY <1>6, <2>3, <2>5
<1>8. get_counter(Hi(n), Lo(n), Hi(n + d), Lo(n + d)) = hi * Word + lo
  BY <1>3 DEF get_counter
<1> HIDE DEF lo, hi, borrow
<1> QED
  BY <1>1, <1>5, <1>7, <1>8
-----------------------------------------------------------------------------
(* The sampler.                                                            *)

(* What start_counter read is where f started. *)
ReadWhereItBegan == at = "run" => cyc_hi = Hi(began) /\ cyc_lo = Lo(began)

(* Only the value at pos, during the sort, may be below one before it. *)
SortedButOne ==
    \A i, j \in Kept : i < j /\ (at = "sort" => j # pos) => values[i] <= values[j]

(* Nothing but samples is kept, and no sample is below all that is kept. *)
KeptAreSamples == \A i \in Kept : \E j \in DOMAIN seen : seen[j] = values[i]
SamplesAreCovered == \A j \in DOMAIN seen : \E i \in Kept : values[i] <= seen[j]

FcycIInv ==
    /\ FcycTypeOK
    /\ Len(seen) = samplecount
    /\ at = "sort" => pos \in Kept
    /\ SamplesAreExact
    /\ ReadWhereItBegan
    /\ SortedButOne
    /\ KeptAreSamples
    /\ SamplesAreCovered

(* The slots in use are slots.                                             *)
LEMMA KeptInSlots ==
    ASSUME FcycTypeOK
    PROVE  /\ Kept \subseteq Slots
           /\ \A i \in Kept : i \in Nat /\ values[i] \in Int
           /\ samplecount > 0 => 0 \in Kept
           /\ \A i \in Kept, k \in Nat : k < i => k \in Kept
           /\ \A i : i \in Kept <=> (i \in Slots /\ i < samplecount)
BY FcycAssumption DEF FcycTypeOK, Kept, Least, Slots

(* The values are in order when nothing is left to be swapped. *)
LEMMA SettledIsSorted ==
    ASSUME FcycIInv, Settled, NEW i \in Kept, NEW j \in Kept, i < j
    PROVE  values[i] <= values[j]
<1>1. CASE at = "sort" => j # pos
  BY <1>1 DEF FcycIInv, SortedButOne
<1>2. CASE at = "sort" /\ j = pos
  <2>1. ~Unsorted
    BY <1>2 DEF Settled
  <2>2. /\ i \in Nat /\ pos \in Nat /\ pos > 0
        /\ values[i] \in Int /\ values[pos] \in Int
    BY <1>2, KeptInSlots DEF FcycIInv
  <2>3. pos - 1 \in Kept /\ values[pos - 1] \in Int
    BY <1>2, <2>2, KeptInSlots DEF FcycIInv
  <2>4. values[pos - 1] <= values[pos]
    BY <2>1, <2>2, <2>3 DEF Unsorted
  <2>5. CASE i = pos - 1
    BY <1>2, <2>4, <2>5
  <2>6. CASE i < pos - 1
    <3>1. values[i] <= values[pos - 1]
      BY <2>2, <2>3, <2>6 DEF FcycIInv, SortedButOne
    <3> QED
      BY <1>2, <2>2, <2>3, <2>4, <3>1
  <2> QED
    BY <1>2, <2>2, <2>5, <2>6
<1> QED
  BY <1>1, <1>2

(* Nothing has been sampled at the start.                                  *)
LEMMA FcycInitIsGood == FcycInit => FcycIInv
<1> SUFFICES ASSUME FcycInit
             PROVE  FcycIInv
  OBVIOUS
<1>1. FcycTypeOK
  BY FcycAssumption, ClockAssumption DEF FcycInit, FcycTypeOK, Slots
<1>2. Kept = {} /\ Len(seen) = 0 /\ DOMAIN seen = {}
  BY FcycAssumption DEF FcycInit, Kept, Least
<1> QED
  BY <1>1, <1>2 DEF FcycInit, FcycIInv, SamplesAreExact, ReadWhereItBegan, SortedButOne,
                    KeptAreSamples, SamplesAreCovered

(* A new measurement starts with no samples.                               *)
LEMMA InitSamplerIsGood == FcycIInv /\ init_sampler => FcycIInv'
<1> SUFFICES ASSUME FcycIInv, init_sampler
             PROVE  FcycIInv'
  OBVIOUS
<1>1. FcycTypeOK'
  BY FcycAssumption DEF init_sampler, FcycIInv, FcycTypeOK, Slots
<1>2. Kept' = {} /\ Len(seen)' = 0 /\ (DOMAIN seen)' = {}
  BY FcycAssumption DEF init_sampler, Kept, Least
<1> QED
  BY <1>1, <1>2 DEF init_sampler, FcycIInv, SamplesAreExact, ReadWhereItBegan, SortedButOne,
                    KeptAreSamples, SamplesAreCovered

(* Reading the counter changes no sample.                                  *)
LEMMA StartIsGood ==
    ASSUME FcycIInv, NEW n \in Readings, NEW late \in Ticks, start_counter(n, late)
    PROVE  FcycIInv'
<1>1. n \in Nat /\ late \in Nat
  BY FcycAssumption
<1>2. FcycTypeOK'
  BY <1>1, WordsOf DEF start_counter, FcycIInv, FcycTypeOK
<1>3. Kept' = Kept
  BY DEF start_counter, Kept
<1> QED
  BY <1>2, <1>3 DEF start_counter, FcycIInv, SamplesAreExact, ReadWhereItBegan, SortedButOne,
                    KeptAreSamples, SamplesAreCovered

(* Neither does the end of the loop.                                       *)
LEMMA LoopEndIsGood ==
    ASSUME FcycIInv, Again \/ Enough
    PROVE  FcycIInv'
<1>1. /\ at = "sort" /\ ~Unsorted /\ at' \in {"start", "off"}
      /\ UNCHANGED <<values, samplecount, pos, cyc_hi, cyc_lo, ticks, began, seen, took>>
      /\ result' = result \/ result' = values[0]
  BY DEF Again, Enough
<1>2. FcycTypeOK'
  BY <1>1, FcycAssumption DEF FcycIInv, FcycTypeOK, Slots
<1>3. Kept' = Kept
  BY <1>1 DEF Kept
<1>4. SortedButOne'
  BY <1>1, <1>3, SettledIsSorted DEF Settled, SortedButOne
<1> QED
  BY <1>1, <1>2, <1>3, <1>4 DEF FcycIInv, SamplesAreExact, ReadWhereItBegan,
                                KeptAreSamples, SamplesAreCovered

(* A swap moves the value that may be out of order one place down.         *)
LEMMA SwapIsGood ==
    ASSUME FcycIInv, Swap
    PROVE  FcycIInv'
<1>1. /\ at = "sort" /\ pos > 0 /\ values[pos - 1] > values[pos]
      /\ values' = [values EXCEPT ![pos - 1] = values[pos], ![pos] = values[pos - 1]]
      /\ pos' = pos - 1
      /\ UNCHANGED <<at, samplecount, cyc_hi, cyc_lo, ticks, result, began, seen, took>>
  BY DEF Swap, Unsorted
<1>2. /\ pos \in Nat /\ pos \in Kept /\ pos - 1 \in Kept
      /\ pos \in Slots /\ pos - 1 \in Slots
      /\ values[pos] \in Int /\ values[pos - 1] \in Int
  BY <1>1, KeptInSlots DEF FcycIInv
<1>3. FcycTypeOK'
  BY <1>1, <1>2 DEF FcycIInv, FcycTypeOK
<1>4. Kept' = Kept
  BY <1>1 DEF Kept
<1>5. /\ values'[pos] = values[pos - 1] /\ values'[pos - 1] = values[pos]
      /\ \A i \in Slots : i # pos /\ i # pos - 1 => values'[i] = values[i]
  BY <1>1, <1>2 DEF FcycIInv, FcycTypeOK
<1>6. SortedButOne'
  <2> SUFFICES ASSUME NEW i \in Kept, NEW j \in Kept, i < j, j # pos - 1
               PROVE  values'[i] <= values'[j]
    BY <1>1, <1>4 DEF SortedButOne
  <2>1. /\ i \in Nat /\ j \in Nat /\ i \in Slots /\ j \in Slots
        /\ values[i] \in Int /\ values[j] \in Int
    BY KeptInSlots DEF FcycIInv
  <2>2. \A a, b \in Kept : a < b /\ b # pos => values[a] <= values[b]
    BY DEF FcycIInv, SortedButOne
  <2>3. CASE j = pos /\ i = pos - 1
    BY <1>1, <1>2, <1>5, <2>3
  <2>4. CASE j = pos /\ i # pos - 1
    <3>1. i < pos - 1 /\ values'[i] = values[i] /\ values'[j] = values[pos - 1]
      BY <1>2, <1>5, <2>1, <2>4
    <3>2. values[i] <= values[pos - 1]
      BY <1>2, <2>2, <3>1
    <3> QED
      BY <3>1, <3>2
  <2>5. CASE j # pos
    <3>1. values'[j] = values[j] /\ values[i] <= values[j]
      BY <1>5, <2>1, <2>2, <2>5
    <3>2. CASE i = pos
      <4>1. values[pos - 1] <= values[j]
        BY <1>2, <2>1, <2>2, <2>5, <3>2
      <4> QED
        BY <1>5, <3>1, <3>2, <4>1
    <3>3. CASE i = pos - 1
      <4>1. values[pos] <= values[j]
        BY <1>2, <2>1, <2>2, <2>5, <3>3
      <4> QED
        BY <1>5, <3>1, <3>3, <4>1
    <3>4. CASE i # pos /\ i # pos - 1
      BY <1>5, <2>1, <3>1, <3>4
    <3> QED
      BY <3>2, <3>3, <3>4
  <2> QED
    BY <2>3, <2>4, <2>5
<1>7. KeptAreSamples'
  <2> SUFFICES ASSUME NEW i \in Kept
               PROVE  \E j \in DOMAIN seen : seen[j] = values'[i]
    BY <1>1, <1>4 DEF KeptAreSamples
  <2>1. \E k \in Kept : values'[i] = values[k]
    BY <1>2, <1>5, KeptInSlots DEF FcycIInv
  <2> QED
    BY <2>1 DEF FcycIInv, KeptAreSamples
<1>8. SamplesAreCovered'
  <2> SUFFICES ASSUME NEW j \in DOMAIN seen
               PROVE  \E i \in Kept : values'[i] <= seen[j]
    BY <1>1, <1>4 DEF SamplesAreCovered
  <2>1. PICK k \in Kept : values[k] <= seen[j]
    BY DEF FcycIInv, SamplesAreCovered
  <2>2. \E i \in Kept : values'[i] = values[k]
    BY <1>2, <1>5, KeptInSlots DEF FcycIInv
  <2> QED
    BY <2>1, <2>2
<1> QED
  BY <1>1, <1>2, <1>3, <1>4, <1>6, <1>7, <1>8
     DEF FcycIInv, SamplesAreExact, ReadWhereItBegan

(* The new sample, and which of the values it meets. *)
LEMMA ReturnIsGood ==
    ASSUME FcycIInv, NEW d \in Cycles, NEW early \in Ticks, FReturns(d, early)
    PROVE  FcycIInv'
<1> DEFINE time == get_counter(cyc_hi, cyc_lo, Hi(began + d), Lo(began + d))
           Less(t) == IF compensate THEN t - (ticks + early) * cyc_per_tick ELSE t
           val == Less(time)
<1>1. /\ at = "run" /\ at' = "sort"
      /\ ticks' = ticks + early
      /\ add_sample(val)
      /\ seen' = Append(seen, val)
      /\ took' = Append(took, Less(d))
      /\ UNCHANGED <<cyc_hi, cyc_lo, result, began>>
  BY DEF FReturns
<1>2. /\ d \in Nat /\ early \in Nat /\ d < Word * Word
      /\ ticks \in Nat /\ began \in Nat /\ cyc_per_tick \in Nat /\ kbest \in Nat \ {0}
      /\ samplecount \in Nat /\ values \in [Slots -> Int] /\ compensate \in BOOLEAN
      /\ seen \in Seq(Int) /\ Len(seen) = samplecount
  BY FcycAssumption, CyclesAssumption DEF FcycIInv, FcycTypeOK
<1>3. time = d
  BY <1>1, <1>2, CounterIsExact DEF FcycIInv, ReadWhereItBegan
<1> HIDE DEF time
<1>4. Less(d) \in Int
  <2>1. (ticks + early) * cyc_per_tick \in Int
    BY <1>2
  <2> QED
    BY <1>2, <2>1
<1>5. took = seen
  BY DEF FcycIInv, SamplesAreExact
<1>6. took' = seen' /\ val \in Int
  BY <1>1, <1>3, <1>4, <1>5
<1> HIDE DEF val, Less
<1> DEFINE free == samplecount < kbest
           better == val < values[kbest - 1]
           p == IF free THEN samplecount ELSE IF better THEN kbest - 1 ELSE 0
<1>7. kbest - 1 \in Slots /\ p \in Slots /\ values[kbest - 1] \in Int
  BY <1>2 DEF Slots
<1>8. /\ pos' = p /\ samplecount' = samplecount + 1
      /\ free \/ better => values' = [values EXCEPT ![p] = val]
      /\ ~free /\ ~better => values' = values
  BY <1>1 DEF add_sample
<1> HIDE DEF p
<1>9. FcycTypeOK'
  <2>1. values' \in [Slots -> Int]
    BY <1>2, <1>6, <1>7, <1>8
  <2>2. seen' \in Seq(Int) /\ took' \in Seq(Int)
    BY <1>1, <1>2, <1>6
  <2>3. ticks' \in Nat /\ samplecount' \in Nat
    BY <1>1, <1>2, <1>8
  <2> QED
    BY <1>1, <1>7, <1>8, <2>1, <2>2, <2>3 DEF FcycIInv, FcycTypeOK
<1>10. /\ Len(seen') = samplecount + 1
       /\ DOMAIN seen' = DOMAIN seen \cup {samplecount + 1}
       /\ seen'[samplecount + 1] = val
       /\ \A j \in DOMAIN seen : seen'[j] = seen[j]
  BY <1>1, <1>2, <1>6
<1>11. /\ \A i : i \in Kept <=> (i \in Slots /\ i < samplecount)
       /\ \A i : i \in Kept' <=> (i \in Slots /\ i < samplecount + 1)
  <2>1. FcycTypeOK
    BY DEF FcycIInv
  <2>2. Kept' = 0 .. Least(samplecount + 1, kbest) - 1
    BY <1>8 DEF Kept
  <2> QED
    BY <1>2, <2>1, <2>2, KeptInSlots DEF Slots, Least
<1>12. SortedButOne /\ KeptAreSamples /\ SamplesAreCovered
  BY DEF FcycIInv
<1>13. ASSUME free
       PROVE  SortedButOne' /\ KeptAreSamples' /\ SamplesAreCovered' /\ pos' \in Kept'
  <2>1. p = samplecount /\ Kept' = Kept \cup {p} /\ p \notin Kept
    <3>1. p = samplecount
      BY <1>13 DEF p
    <3>2. \A i \in Slots : i < samplecount + 1 <=> (i < samplecount \/ i = p)
      BY <1>2, <3>1 DEF Slots
    <3>3. p \notin Kept
      BY <1>2, <1>11, <3>1
    <3>4. \A i : i \in Kept' <=> (i \in Kept \/ i = p)
      BY <1>7, <1>11, <3>1, <3>2
    <3> QED
      BY <3>1, <3>3, <3>4
  <2>2. /\ values'[p] = val
        /\ \A i \in Kept : values'[i] = values[i] /\ i \in Nat /\ values[i] \in Int
    BY <1>2, <1>7, <1>8, <1>11, <1>13, <2>1 DEF Slots
  <2>3. SortedButOne'
    <3> SUFFICES ASSUME NEW i \in Kept', NEW j \in Kept', i < j, j # p
                 PROVE  values'[i] <= values'[j]
      BY <1>1, <1>8 DEF SortedButOne
    <3>1. j \in Kept /\ j \in Nat /\ j < samplecount
      BY <1>11, <2>1, <2>2
    <3>2. i \in Kept
      BY <1>2, <2>1, <3>1
    <3> QED
      BY <1>1, <1>12, <2>2, <3>1, <3>2 DEF SortedButOne
  <2>4. KeptAreSamples'
    BY <1>2, <1>10, <1>12, <2>1, <2>2 DEF KeptAreSamples
  <2>5. SamplesAreCovered'
    BY <1>6, <1>10, <1>12, <2>1, <2>2 DEF SamplesAreCovered
  <2>6. pos' \in Kept'
    BY <1>8, <2>1
  <2> QED
    BY <2>3, <2>4, <2>5, <2>6
<1>14. ASSUME ~free
       PROVE  SortedButOne' /\ KeptAreSamples' /\ SamplesAreCovered' /\ pos' \in Kept'
  <2>1. Kept' = Kept /\ Kept = Slots
    <3>1. \A i \in Slots : i < samplecount /\ i < samplecount + 1
      BY <1>2, <1>14 DEF Slots
    <3> QED
      BY <1>11, <3>1
  <2>2. CASE better
    <3>1. p = kbest - 1 /\ p \in Kept
      BY <1>7, <1>14, <2>1, <2>2 DEF p
    <3>2. /\ values'[p] = val
          /\ \A i \in Kept : i # p => values'[i] = values[i]
      BY <1>2, <1>8, <2>1, <2>2, <3>1
    <3>3. SortedButOne'
      <4> SUFFICES ASSUME NEW i \in Kept, NEW j \in Kept, i < j, j # p
                   PROVE  values'[i] <= values'[j]
        BY <1>1, <1>8, <2>1 DEF SortedButOne
      <4>1. i # p
        BY <1>2, <2>1, <3>1 DEF Slots
      <4> QED
        BY <1>1, <1>12, <3>2, <4>1 DEF SortedButOne
    <3>4. KeptAreSamples'
      BY <1>2, <1>10, <1>12, <2>1, <3>2 DEF KeptAreSamples
    <3>5. SamplesAreCovered'
      <4> SUFFICES ASSUME NEW j \in DOMAIN seen'
                   PROVE  \E i \in Kept : values'[i] <= seen'[j]
        BY <2>1 DEF SamplesAreCovered
      <4>1. CASE j = samplecount + 1
        BY <1>6, <1>10, <3>1, <3>2, <4>1
      <4>2. CASE j # samplecount + 1
        <5>1. j \in DOMAIN seen /\ seen'[j] = seen[j] /\ seen[j] \in Int
          BY <1>2, <1>10, <4>2
        <5>2. PICK i \in Kept : values[i] <= seen[j]
          BY <1>12, <5>1 DEF SamplesAreCovered
        <5>3. CASE i = p
          <6>1. val <= seen[j]
            BY <1>6, <1>7, <2>2, <3>1, <5>1, <5>2, <5>3
          <6> QED
            BY <3>1, <3>2, <5>1, <6>1
        <5>4. CASE i # p
          BY <3>2, <5>1, <5>2, <5>4
        <5> QED
          BY <5>3, <5>4
      <4> QED
        BY <4>1, <4>2
    <3>6. pos' \in Kept'
      BY <1>8, <2>1, <3>1
    <3> QED
      BY <3>3, <3>4, <3>5, <3>6
  <2>3. CASE ~better
    <3>1. p = 0 /\ values' = values
      BY <1>8, <1>14, <2>3 DEF p
    <3>2. SortedButOne'
      <4> SUFFICES ASSUME NEW i \in Kept, NEW j \in Kept, i < j
                   PROVE  values[i] <= values[j]
        BY <2>1, <3>1 DEF SortedButOne
      <4> QED
        BY <1>1, <1>12 DEF SortedButOne
    <3>3. KeptAreSamples'
      BY <1>10, <1>12, <2>1, <3>1 DEF KeptAreSamples
    <3>4. SamplesAreCovered'
      <4>1. values[kbest - 1] <= val /\ kbest - 1 \in Kept
        BY <1>6, <1>7, <2>1, <2>3
      <4> QED
        BY <1>10, <1>12, <2>1, <3>1, <4>1 DEF SamplesAreCovered
    <3>5. pos' \in Kept'
      BY <1>7, <1>8, <2>1
    <3> QED
      BY <3>2, <3>3, <3>4, <3>5
  <2> QED
    BY <2>2, <2>3
<1>15. SortedButOne' /\ KeptAreSamples' /\ SamplesAreCovered' /\ pos' \in Kept'
  BY <1>13, <1>14
<1> QED
  BY <1>1, <1>6, <1>8, <1>9, <1>10, <1>15 DEF FcycIInv, SamplesAreExact, ReadWhereItBegan

(* Every step of fcyc keeps the invariant.                                 *)
LEMMA FcycStepKeeps == FcycIInv /\ [FcycNext]_fcycVars => FcycIInv'
<1> SUFFICES ASSUME FcycIInv, [FcycNext]_fcycVars
             PROVE  FcycIInv'
  OBVIOUS
<1>1. CASE init_sampler
  BY <1>1, InitSamplerIsGood
<1>2. CASE \E n \in Readings, late \in Ticks : start_counter(n, late)
  BY <1>2, StartIsGood
<1>3. CASE \E d \in Cycles, early \in Ticks : FReturns(d, early)
  BY <1>3, ReturnIsGood
<1>4. CASE Swap
  BY <1>4, SwapIsGood
<1>5. CASE Again \/ Enough
  BY <1>5, LoopEndIsGood
<1>6. CASE UNCHANGED fcycVars
  <2>1. Kept' = Kept
    BY <1>6 DEF fcycVars, Kept
  <2> QED
    BY <1>6, <2>1 DEF fcycVars, FcycIInv, FcycTypeOK, SamplesAreExact, ReadWhereItBegan,
                      SortedButOne, KeptAreSamples, SamplesAreCovered
<1> QED
  BY <1>1, <1>2, <1>3, <1>4, <1>5, <1>6 DEF FcycNext

(* So it always holds.                                                     *)
LEMMA FcycInvariance == FcycSpec => []FcycIInv
BY FcycInitIsGood, FcycStepKeeps, PTL DEF FcycSpec

(* fcyc.c's state stays well formed; the insertion sort never leaves the   *)
(* values (fcyc.c:67-88).                                                  *)
THEOREM FcycTypeCorrect == FcycSpec => []FcycTypeOK
<1>1. FcycIInv => FcycTypeOK
  BY DEF FcycIInv
<1> QED
  BY <1>1, FcycInvariance, PTL

(* Every sample is what f took, less the interrupts counted, whatever the  *)
(* counter's words did meanwhile (clock.c:53-71 and 263-278).              *)
THEOREM SamplesAreAlwaysExact == FcycSpec => []SamplesAreExact
<1>1. FcycIInv => SamplesAreExact
  BY DEF FcycIInv
<1> QED
  BY <1>1, FcycInvariance, PTL

(* In a state of the invariant the first value is the least of the samples.*)
LEMMA FirstIsLeast ==
    ASSUME FcycIInv, Settled, samplecount > 0
    PROVE  /\ \E i \in DOMAIN seen : seen[i] = values[0]
           /\ \A i \in DOMAIN seen : values[0] <= seen[i]
<1>1. FcycTypeOK
  BY DEF FcycIInv
<1>2. 0 \in Kept /\ values[0] \in Int
  BY <1>1, KeptInSlots
<1>3. ASSUME NEW i \in DOMAIN seen
      PROVE  values[0] <= seen[i]
  <2>1. PICK k \in Kept : values[k] <= seen[i]
    BY DEF FcycIInv, SamplesAreCovered
  <2>2. k \in Nat /\ values[k] \in Int /\ seen[i] \in Int
    BY <1>1, KeptInSlots DEF FcycTypeOK
  <2>3. values[0] <= values[k]
    BY <1>2, <2>2, SettledIsSorted
  <2> QED
    BY <1>2, <2>1, <2>2, <2>3
<1> QED
  BY <1>2, <1>3 DEF FcycIInv, KeptAreSamples

-----------------------------------------------------------------------------
(* The kbest smallest samples.                                             *)
(*                                                                         *)
(* That each value is a sample and none is below the first says nothing of *)
(* how often a sample is kept, nor of the values between.  Every value     *)
(* needs a sample of its own, and what add_sample dropped must not be less *)
(* than anything that it kept.                                             *)

(* place tells which sample is in which slot. *)
IsPlacing(place) ==
    /\ place \in [Kept -> DOMAIN seen]
    /\ \A i, k \in Kept : place[i] = place[k] => i = k
    /\ \A i \in Kept : seen[place[i]] = values[i]
    /\ \A j \in DOMAIN seen :
          (\A i \in Kept : place[i] # j) => \A i \in Kept : values[i] <= seen[j]

KeptAreTheBest == \E place \in [Kept -> DOMAIN seen] : IsPlacing(place)

(* The samples are numbered from 1, the slots in use from 0. *)
LEMMA KeptAndSamples ==
    ASSUME FcycIInv
    PROVE  /\ samplecount \in Nat
           /\ DOMAIN seen = 1 .. samplecount
           /\ samplecount <= kbest => Kept = 0 .. samplecount - 1
           /\ \A j \in DOMAIN seen : seen[j] \in Int
BY FcycAssumption DEF FcycIInv, FcycTypeOK, Kept, Least

(* As long as there is room, every sample is kept. *)
LEMMA NothingIsDropped ==
    ASSUME FcycIInv, samplecount <= kbest, NEW place, IsPlacing(place),
           NEW j \in DOMAIN seen
    PROVE  \E i \in Kept : place[i] = j
<1>1. /\ samplecount \in Nat /\ DOMAIN seen = 1 .. samplecount
      /\ Kept = 0 .. samplecount - 1
  BY KeptAndSamples
<1>2. place \in Injection(Kept, DOMAIN seen)
  BY DEF IsPlacing, Injection, IsInjective
<1>3. IsFiniteSet(DOMAIN seen) /\ Cardinality(DOMAIN seen) = samplecount
  BY <1>1, FS_Interval
<1>4. Cardinality(Kept) = samplecount
  BY <1>1, FS_Interval
<1>5. place \in Surjection(Kept, DOMAIN seen)
  BY <1>2, <1>3, <1>4, FS_Injection
<1> QED
  BY <1>5 DEF Surjection

(* With no slot in use there is nothing to place.                          *)
LEMMA NothingToPlace ==
    ASSUME Kept = {}
    PROVE  KeptAreTheBest
<1> DEFINE place == [i \in Kept |-> 1]
<1>1. place \in [Kept -> DOMAIN seen] /\ IsPlacing(place)
  BY DEF IsPlacing
<1> QED
  BY <1>1 DEF KeptAreTheBest

(* A swap moves two values, and their samples with them.                   *)
LEMMA SwapPlaces ==
    ASSUME FcycIInv, KeptAreTheBest, Swap
    PROVE  KeptAreTheBest'
<1>1. PICK place \in [Kept -> DOMAIN seen] : IsPlacing(place)
  BY DEF KeptAreTheBest
<1>2. /\ pos > 0
      /\ values' = [values EXCEPT ![pos - 1] = values[pos], ![pos] = values[pos - 1]]
      /\ UNCHANGED <<samplecount, seen>>
  BY DEF Swap, Unsorted
<1>3. /\ pos \in Nat /\ pos \in Kept /\ pos - 1 \in Kept
      /\ pos \in Slots /\ pos - 1 \in Slots /\ Kept \subseteq Slots
      /\ \A i \in Kept : i \in Nat
  BY <1>2, KeptInSlots DEF FcycIInv, Swap
<1>4. Kept' = Kept
  BY <1>2 DEF Kept
<1>a. PICK other : other = [place EXCEPT ![pos - 1] = place[pos], ![pos] = place[pos - 1]]
  OBVIOUS
<1>5. /\ other \in [Kept -> DOMAIN seen]
      /\ other[pos] = place[pos - 1] /\ other[pos - 1] = place[pos]
      /\ \A i \in Kept : i # pos /\ i # pos - 1 => other[i] = place[i]
  BY <1>3, <1>a
<1>6. /\ values'[pos] = values[pos - 1] /\ values'[pos - 1] = values[pos]
      /\ \A i \in Kept : i # pos /\ i # pos - 1 => values'[i] = values[i]
  BY <1>2, <1>3 DEF FcycIInv, FcycTypeOK
<1>7. /\ \A i, k \in Kept : other[i] = other[k] => i = k
      /\ \A i \in Kept : seen[other[i]] = values'[i]
  BY <1>1, <1>3, <1>5, <1>6 DEF IsPlacing
<1>8. ASSUME NEW j \in DOMAIN seen, \A i \in Kept : other[i] # j, NEW i \in Kept
      PROVE  values'[i] <= seen[j]
  <2>1. \A k \in Kept : place[k] # j
    BY <1>3, <1>5, <1>8
  <2>2. \A k \in Kept : values[k] <= seen[j]
    BY <1>1, <2>1 DEF IsPlacing
  <2> QED
    BY <1>3, <1>6, <2>2
<1>9. IsPlacing(other)'
  BY <1>2, <1>4, <1>5, <1>7, <1>8 DEF IsPlacing
<1> QED
  BY <1>2, <1>4, <1>5, <1>9 DEF KeptAreTheBest

(* A sample that is kept has its own slot; one that is dropped, the new    *)
(* one or the largest so far, is not less than any that stays.             *)
LEMMA ReturnPlaces ==
    ASSUME FcycIInv, KeptAreTheBest,
           NEW d \in Cycles, NEW early \in Ticks, FReturns(d, early)
    PROVE  KeptAreTheBest'
<1>1. PICK place \in [Kept -> DOMAIN seen] : IsPlacing(place)
  BY DEF KeptAreTheBest
<1>2. PICK val : add_sample(val) /\ seen' = Append(seen, val)
  BY DEF FReturns
<1>3. FcycIInv' /\ at = "run" /\ kbest \in Nat \ {0} /\ samplecount' = samplecount + 1
  BY <1>2, ReturnIsGood, FcycAssumption DEF FReturns, add_sample
<1> DEFINE new == samplecount + 1
<1>4. /\ samplecount \in Nat /\ seen' \in Seq(Int) /\ values' \in [Slots -> Int]
      /\ DOMAIN seen = 1 .. samplecount /\ DOMAIN seen' = 1 .. new
      /\ \A j \in DOMAIN seen : seen[j] \in Int
  <2>1. seen' \in Seq(Int) /\ values' \in [Slots -> Int] /\ Len(seen') = new
    BY <1>3 DEF FcycIInv, FcycTypeOK
  <2> QED
    BY <2>1, KeptAndSamples
<1>5. /\ seen'[new] = val /\ val \in Int
      /\ \A j \in DOMAIN seen : seen'[j] = seen[j]
  <2>1. Len(seen) = samplecount /\ seen \in Seq(Int)
    BY DEF FcycIInv, FcycTypeOK
  <2>2. /\ seen'[new] = val
        /\ \A j \in DOMAIN seen : seen'[j] = seen[j]
    BY <1>2, <1>4, <2>1
  <2> QED
    BY <1>4, <2>2
<1>6. /\ Kept \subseteq Slots
      /\ \A i \in Kept : i \in Nat /\ values[i] \in Int
      /\ \A i : i \in Kept <=> (i \in Slots /\ i < samplecount)
      /\ \A i : i \in Kept' <=> (i \in Slots /\ i < samplecount + 1)
  <2>1. FcycTypeOK /\ FcycTypeOK'
    BY <1>3 DEF FcycIInv
  <2>2. \A i : i \in Kept' <=> (i \in Slots /\ i < samplecount + 1)
    BY <1>3, <1>4, FcycAssumption DEF Kept, Least, Slots
  <2> QED
    BY <2>1, <2>2, KeptInSlots
<1>7. CASE samplecount < kbest
  <2>1. samplecount \in Slots /\ values' = [values EXCEPT ![samplecount] = val]
    BY <1>2, <1>3, <1>4, <1>7 DEF add_sample, Slots
  <2>2. Kept' = Kept \cup {samplecount} /\ samplecount \notin Kept
    <3>1. \A i \in Slots : i < samplecount + 1 <=> (i < samplecount \/ i = samplecount)
      BY <1>3, <1>4 DEF Slots
    <3>2. samplecount \notin Kept
      BY <1>4, <1>6
    <3> QED
      BY <1>6, <2>1, <3>1, <3>2
  <2>3. /\ values'[samplecount] = val
        /\ \A i \in Kept : values'[i] = values[i]
    BY <1>6, <2>1, <2>2 DEF FcycIInv, FcycTypeOK
  <2>a. PICK other : other = [i \in Kept' |-> IF i = samplecount THEN new ELSE place[i]]
    OBVIOUS
  <2>4. /\ other \in [Kept' -> DOMAIN seen']
        /\ other[samplecount] = new
        /\ \A i \in Kept : other[i] = place[i] /\ place[i] \in DOMAIN seen
    BY <1>1, <1>4, <2>2, <2>a
  <2>5. ASSUME NEW i \in Kept', NEW k \in Kept', other[i] = other[k]
        PROVE  i = k
    <3>1. new \notin DOMAIN seen
      BY <1>4
    <3> QED
      BY <1>1, <2>2, <2>4, <2>5, <3>1 DEF IsPlacing
  <2>6. ASSUME NEW i \in Kept'
        PROVE  seen'[other[i]] = values'[i]
    BY <1>1, <1>5, <2>2, <2>3, <2>4 DEF IsPlacing
  <2>7. ASSUME NEW j \in DOMAIN seen'
        PROVE  \E i \in Kept' : other[i] = j
    <3>1. CASE j = new
      BY <2>2, <2>4, <3>1
    <3>2. CASE j # new
      <4>1. j \in DOMAIN seen
        BY <1>4, <3>2
      <4>2. \E i \in Kept : place[i] = j
        BY <1>1, <1>3, <1>4, <1>7, <4>1, NothingIsDropped
      <4> QED
        BY <2>2, <2>4, <4>2
    <3> QED
      BY <3>1, <3>2
  <2>8. IsPlacing(other)'
    BY <2>4, <2>5, <2>6, <2>7 DEF IsPlacing
  <2> QED
    BY <2>4, <2>8 DEF KeptAreTheBest
<1>8. CASE ~(samplecount < kbest)
  <2> DEFINE last == kbest - 1
  <2>1. /\ Kept' = Kept /\ Kept = Slots
        /\ last \in Kept /\ last \in Int /\ values[last] \in Int
        /\ \A i \in Kept : i # last => i < last
    <3>1. \A i \in Slots : i < samplecount /\ i < samplecount + 1
      BY <1>3, <1>4, <1>8 DEF Slots
    <3>2. Kept' = Kept /\ Kept = Slots
      BY <1>6, <3>1
    <3> QED
      BY <1>3, <1>6, <3>2 DEF Slots
  <2>2. \A i \in Kept : i # last => values[i] <= values[last]
    BY <1>3, <2>1, SettledIsSorted DEF Settled
  <2> HIDE DEF last
  <2>3. CASE val < values[last]
    <3>1. values' = [values EXCEPT ![last] = val]
      BY <1>2, <1>8, <2>3 DEF add_sample, last
    <3>2. /\ values'[last] = val
          /\ \A i \in Kept : i # last => values'[i] = values[i]
      BY <2>1, <3>1 DEF FcycIInv, FcycTypeOK
    <3>a. PICK other : other = [place EXCEPT ![last] = new]
      OBVIOUS
    <3>3. /\ other \in [Kept -> DOMAIN seen']
          /\ other[last] = new
          /\ \A i \in Kept : i # last => other[i] = place[i]
          /\ \A i \in Kept : place[i] \in DOMAIN seen
      BY <1>1, <1>4, <2>1, <3>a
    <3>4. new \notin DOMAIN seen
      BY <1>4
    <3>5. ASSUME NEW i \in Kept, NEW k \in Kept, other[i] = other[k]
          PROVE  i = k
      BY <1>1, <3>3, <3>4, <3>5 DEF IsPlacing
    <3>6. ASSUME NEW i \in Kept
          PROVE  seen'[other[i]] = values'[i]
      BY <1>1, <1>5, <3>2, <3>3 DEF IsPlacing
    <3>7. ASSUME NEW j \in DOMAIN seen', \A k \in Kept : other[k] # j,
                 NEW i \in Kept
          PROVE  values'[i] <= seen'[j]
      <4>1. j \in DOMAIN seen /\ seen'[j] = seen[j] /\ seen[j] \in Int
        BY <1>4, <1>5, <2>1, <3>3, <3>7
      <4>2. values[i] <= seen[j] /\ values[last] <= seen[j]
        <5>1. CASE place[last] = j
          BY <1>1, <1>6, <2>1, <2>2, <5>1 DEF IsPlacing
        <5>2. CASE place[last] # j
          <6>1. \A k \in Kept : place[k] # j
            BY <3>3, <3>7, <5>2
          <6> QED
            BY <1>1, <2>1, <4>1, <6>1 DEF IsPlacing
        <5> QED
          BY <5>1, <5>2
      <4>3. CASE i = last
        BY <1>5, <2>1, <2>3, <3>2, <4>1, <4>2, <4>3
      <4>4. CASE i # last
        BY <3>2, <4>1, <4>2, <4>4
      <4> QED
        BY <4>3, <4>4
    <3>8. IsPlacing(other)'
      BY <2>1, <3>3, <3>5, <3>6, <3>7 DEF IsPlacing
    <3> QED
      BY <2>1, <3>3, <3>8 DEF KeptAreTheBest
  <2>4. CASE ~(val < values[last])
    <3>1. values' = values
      BY <1>2, <1>8, <2>4 DEF add_sample, last
    <3>2. /\ place \in [Kept -> DOMAIN seen']
          /\ \A i \in Kept : place[i] \in DOMAIN seen
      BY <1>1, <1>4
    <3>3. ASSUME NEW j \in DOMAIN seen', \A k \in Kept : place[k] # j,
                 NEW i \in Kept
          PROVE  values[i] <= seen'[j]
      <4>1. CASE j = new
        <5>1. values[i] \in Int /\ values[last] <= val
          BY <1>5, <1>6, <2>1, <2>4
        <5> QED
          BY <1>5, <2>1, <2>2, <4>1, <5>1
      <4>2. CASE j # new
        BY <1>1, <1>4, <1>5, <3>3, <4>2 DEF IsPlacing
      <4> QED
        BY <4>1, <4>2
    <3>4. IsPlacing(place)'
      BY <1>1, <1>5, <2>1, <3>1, <3>2, <3>3 DEF IsPlacing
    <3> QED
      BY <2>1, <3>2, <3>4 DEF KeptAreTheBest
  <2> QED
    BY <2>3, <2>4
<1> QED
  BY <1>7, <1>8

(* Every step of fcyc keeps the smallest samples.                          *)
LEMMA StepKeepsTheBest ==
    FcycIInv /\ KeptAreTheBest /\ [FcycNext]_fcycVars => KeptAreTheBest'
<1> SUFFICES ASSUME FcycIInv, KeptAreTheBest, [FcycNext]_fcycVars
             PROVE  KeptAreTheBest'
  OBVIOUS
<1>1. CASE init_sampler
  <2>1. Kept' = {}
    BY <1>1, FcycAssumption DEF init_sampler, Kept, Least
  <2>2. (Kept = {} => KeptAreTheBest)'
    BY NothingToPlace, PTL
  <2> QED
    BY <2>1, <2>2
<1>2. CASE UNCHANGED <<values, samplecount, seen>>
  <2>1. Kept' = Kept
    BY <1>2 DEF Kept
  <2> QED
    BY <1>2, <2>1 DEF KeptAreTheBest, IsPlacing
<1>3. CASE \E n \in Readings, late \in Ticks : start_counter(n, late)
  BY <1>2, <1>3 DEF start_counter
<1>4. CASE \E d \in Cycles, early \in Ticks : FReturns(d, early)
  BY <1>4, ReturnPlaces
<1>5. CASE Swap
  BY <1>5, SwapPlaces
<1>6. CASE Again \/ Enough
  BY <1>2, <1>6 DEF Again, Enough
<1>7. CASE UNCHANGED fcycVars
  BY <1>2, <1>7 DEF fcycVars
<1> QED
  BY <1>1, <1>3, <1>4, <1>5, <1>6, <1>7 DEF FcycNext

(* Samples with places of their own are counted by the places.             *)
LEMMA PlacesCount ==
    ASSUME FcycIInv, KeptAreTheBest, Settled, NEW i \in Kept
    PROVE  /\ Cardinality({j \in DOMAIN seen : seen[j] <= values[i]}) > i
           /\ Cardinality({j \in DOMAIN seen : seen[j] < values[i]}) <= i
<1>1. PICK place \in [Kept -> DOMAIN seen] : IsPlacing(place)
  BY DEF KeptAreTheBest
<1>2. /\ \A k \in Kept : k \in Nat /\ values[k] \in Int
      /\ \A k \in Nat : k < i => k \in Kept
  BY KeptInSlots DEF FcycIInv
<1>3. IsFiniteSet(DOMAIN seen)
  BY KeptAndSamples, FS_Interval
<1>4. \A j \in DOMAIN seen : seen[j] \in Int
  BY KeptAndSamples
<1> DEFINE upto == {j \in DOMAIN seen : seen[j] <= values[i]}
           below == {j \in DOMAIN seen : seen[j] < values[i]}
<1>5. IsFiniteSet(upto) /\ Cardinality(upto) \in Nat
  BY <1>3, FS_Subset, FS_CardinalityType
<1>6. Cardinality(upto) > i
  <2> DEFINE f == [k \in 0 .. i |-> place[k]]
  <2>1. \A k \in 0 .. i : k \in Kept /\ place[k] \in upto
    <3> SUFFICES ASSUME NEW k \in 0 .. i
                 PROVE  k \in Kept /\ place[k] \in upto
      OBVIOUS
    <3>1. k \in Kept /\ (k = i \/ k < i)
      BY <1>2
    <3>2. values[k] <= values[i]
      BY <1>2, <3>1, SettledIsSorted
    <3> QED
      BY <1>1, <3>1, <3>2 DEF IsPlacing
  <2>2. f \in Injection(0 .. i, upto)
    <3>1. f \in [0 .. i -> upto]
      BY <2>1
    <3>2. \A k, l \in 0 .. i : f[k] = f[l] => k = l
      BY <1>1, <2>1 DEF IsPlacing
    <3> QED
      BY <3>1, <3>2 DEF Injection, IsInjective
  <2>3. Cardinality(0 .. i) <= Cardinality(upto)
    BY <1>5, <2>2, FS_Injection
  <2>4. Cardinality(0 .. i) = i + 1
    BY <1>2, FS_Interval
  <2> QED
    BY <1>2, <1>5, <2>3, <2>4
<1>7. Cardinality(below) <= i
  <2> DEFINE first0 == {place[k] : k \in 0 .. i - 1}
             f == [k \in 0 .. i - 1 |-> place[k]]
  <2>1. f \in Surjection(0 .. i - 1, first0)
    BY DEF Surjection
  <2>2. IsFiniteSet(0 .. i - 1) /\ Cardinality(0 .. i - 1) = i
    BY <1>2, FS_Interval
  <2>3. IsFiniteSet(first0) /\ Cardinality(first0) <= i
    BY <2>1, <2>2, FS_Surjection
  <2>4. below \subseteq first0
    <3> SUFFICES ASSUME NEW j \in DOMAIN seen, seen[j] < values[i]
                 PROVE  j \in first0
      OBVIOUS
    <3>1. PICK k \in Kept : place[k] = j
      BY <1>1, <1>2, <1>4 DEF IsPlacing
    <3>2. values[k] < values[i]
      BY <1>1, <3>1 DEF IsPlacing
    <3>3. k < i
      BY <1>2, <3>2, SettledIsSorted
    <3> QED
      BY <1>2, <3>1, <3>3
  <2>5. Cardinality(below) <= Cardinality(first0)
    BY <2>3, <2>4, FS_Subset
  <2>6. Cardinality(below) \in Nat /\ Cardinality(first0) \in Nat
    BY <2>3, <2>4, FS_Subset, FS_CardinalityType
  <2> HIDE DEF first0, below
  <2> QED
    BY <1>2, <2>3, <2>5, <2>6
<1> QED
  BY <1>6, <1>7

(* The values are the kbest smallest samples, each as often as it was      *)
(* taken, whenever has_converged compares the first with the last: so the  *)
(* kbest samples that agree are the fastest there were (fcyc.c:67-97).     *)
THEOREM ValuesAreTheSmallest == FcycSpec => []KBest
<1>1. FcycInit => FcycIInv /\ KeptAreTheBest
  <2> SUFFICES ASSUME FcycInit
               PROVE  KeptAreTheBest
    BY FcycInitIsGood
  <2>1. Kept = {}
    BY FcycAssumption DEF FcycInit, Kept, Least
  <2> QED
    BY <2>1, NothingToPlace
<1>2. FcycIInv /\ KeptAreTheBest => KBest
  BY PlacesCount DEF KBest
<1> QED
  BY <1>1, <1>2, FcycStepKeeps, StepKeepsTheBest, PTL DEF FcycSpec

-----------------------------------------------------------------------------
(* The sampler in the driver.                                              *)

(* A step of the driver is one of fcyc's, or leaves fcyc alone.            *)
LEMMA DriverStepsAreFcycSteps == [EvalNext]_evalVars => [FcycNext]_fcycVars
<1> SUFFICES ASSUME [EvalNext]_evalVars
             PROVE  [FcycNext]_fcycVars
  OBVIOUS
<1>1. CASE Validate \/ Evaluate \/ eval_mm_util \/ UtilReturns \/ eval_mm_speed
  BY <1>1 DEF Validate, Evaluate, eval_mm_util, UtilReturns, eval_mm_speed
<1>2. CASE TimerStarts \/ TimerGoesOn
  BY <1>2 DEF TimerStarts, TimerGoesOn
<1>3. CASE FcycStarts \/ FcycRuns \/ FcycSamples \/ FcycGoesOn
  BY <1>3 DEF FcycStarts, FcycRuns, FcycSamples, FcycGoesOn, FcycNext
<1>4. CASE UNCHANGED evalVars
  BY <1>4 DEF evalVars
<1> QED
  BY <1>1, <1>2, <1>3, <1>4 DEF EvalNext

(* Whatever trace is timed and however the runs of it go, each sample the  *)
(* score may rest on is exact, and the values are the smallest of them     *)
(* (mdriver.c:313, fsecs.c:48, fcyc.c:132-152).                            *)
THEOREM DriverIsTimedRightly ==
    EvalSpec => [](SamplesAreExact /\ KBest)
<1>1. EvalInit => FcycInit
  BY DEF EvalInit
<1>2. EvalSpec => FcycSpec
  BY <1>1, DriverStepsAreFcycSteps, PTL DEF EvalSpec, FcycSpec
<1> QED
  BY <1>2, SamplesAreAlwaysExact, ValuesAreTheSmallest, PTL

(* The difference of two times, taken part by part, is the time between.   *)
LEMMA BetweenIsExact ==
    ASSUME NEW s \in Int, NEW e \in Int
    PROVE  Between(s, e) = e - s
<1>1. Micro \in Nat \ {0}
  BY ClockAssumption
<1> DEFINE ks == s \div Micro
           ke == e \div Micro
<1>2. /\ ks \in Int /\ ke \in Int /\ (s % Micro) \in Int /\ (e % Micro) \in Int
      /\ s = Micro * ks + (s % Micro) /\ e = Micro * ke + (e % Micro)
  BY <1>1
<1>3. Between(s, e) = Micro * (ke - ks) + ((e % Micro) - (s % Micro))
  BY DEF Between, Seconds, Microseconds
<1> HIDE DEF ks, ke
<1>4. Micro * (ke - ks) = Micro * ke - Micro * ks
  BY <1>1, <1>2
<1> QED
  BY <1>1, <1>2, <1>3, <1>4

(* So it is with the time of day and with a timer that counts down.        *)
LEMMA ElapsedIsExact ==
    ASSUME NEW s \in Int, NEW e \in Int
    PROVE  Elapsed(s, e) = e - s
<1> DEFINE m == Micro * MAX_ETIME
<1>1. m \in Int
  BY ClockAssumption
<1>2. get_etime(m - e) = Between(m - e, m) /\ get_etime(m - s) = Between(m - s, m)
  BY DEF get_etime
<1>3. Elapsed(s, e) = IF method = "gettod" THEN Between(s, e)
                      ELSE get_etime(m - e) - get_etime(m - s)
  BY DEF Elapsed
<1> HIDE DEF m
<1>4. m - e \in Int /\ m - s \in Int
  BY <1>1
<1>5. Between(m - e, m) = e /\ Between(m - s, m) = s
  BY <1>1, <1>4, BetweenIsExact
<1> QED
  BY <1>2, <1>3, <1>5, BetweenIsExact

(* The clock shows numbers, and a score has been computed from the clock,  *)
(* or from the least of what fcyc's runs of f took.                        *)
ScoreIInv ==
    /\ FcycIInv
    /\ first \in Int /\ now \in Int
    /\ phase = "scored" /\ Timer => tmeas = now - first
    /\ phase = "scored" /\ ~Timer =>
          /\ \E i \in DOMAIN took : took[i] = result
          /\ \A i \in DOMAIN took : result <= took[i]

(* fcyc returns the least of what the runs took.                           *)
LEMMA EnoughIsLeast ==
    ASSUME FcycIInv, Enough
    PROVE  /\ \E i \in DOMAIN took' : took'[i] = result'
           /\ \A i \in DOMAIN took' : result' <= took'[i]
<1>1. /\ at = "sort" /\ ~Unsorted
      /\ result' = values[0] /\ took' = took /\ took = seen
  BY DEF Enough, FcycIInv, SamplesAreExact
<1>2. pos \in Kept /\ samplecount > 0
  <2>1. pos \in Kept
    BY <1>1 DEF FcycIInv
  <2>2. pos \in Nat /\ pos < samplecount /\ samplecount \in Nat
    BY <2>1, KeptInSlots DEF FcycIInv, FcycTypeOK
  <2> QED
    BY <2>1, <2>2
<1>3. /\ \E i \in DOMAIN seen : seen[i] = values[0]
      /\ \A i \in DOMAIN seen : values[0] <= seen[i]
  BY <1>1, <1>2, FirstIsLeast DEF Settled
<1> QED
  BY <1>1, <1>3

(* Every step of the driver leaves it so.                                  *)
LEMMA StepsKeepScore == ScoreIInv /\ [EvalNext]_evalVars => ScoreIInv'
<1> SUFFICES ASSUME ScoreIInv, [EvalNext]_evalVars
             PROVE  ScoreIInv'
  OBVIOUS
<1>1. FcycIInv'
  BY DriverStepsAreFcycSteps, FcycStepKeeps DEF ScoreIInv
<1>2. CASE Validate \/ Evaluate \/ eval_mm_util \/ UtilReturns \/ eval_mm_speed
  <2>1. /\ phase' # "scored"
        /\ UNCHANGED <<first, now>>
    BY <1>2 DEF Validate, Evaluate, eval_mm_util, UtilReturns, eval_mm_speed, Restart,
                Proceed, app_error, timerVars
  <2> QED
    BY <1>1, <2>1 DEF ScoreIInv
<1>3. CASE TimerStarts
  <2>1. /\ phase' # "scored"
        /\ first' \in Int /\ now' \in Int
    BY <1>3, FcycAssumption DEF TimerStarts, Restart, app_error
  <2> QED
    BY <1>1, <2>1 DEF ScoreIInv
<1>4. CASE TimerGoesOn
  <2>1. /\ first' = first /\ first \in Int /\ now' \in Int
        /\ Timer /\ method' = method
    BY <1>4, FcycAssumption DEF TimerGoesOn, ScoreIInv
  <2>2. phase' = "scored" => tmeas' = now' - first'
    <3>1. phase' = "scored" => tmeas' = Elapsed(first, now')
      BY <1>4 DEF TimerGoesOn, Restart, app_error
    <3> QED
      BY <2>1, <3>1, ElapsedIsExact
  <2>3. Timer'
    BY <2>1 DEF Timer
  <2> QED
    BY <1>1, <2>1, <2>2, <2>3 DEF ScoreIInv
<1>5. CASE FcycStarts \/ FcycRuns \/ FcycSamples
  <2>1. /\ phase' # "scored"
        /\ UNCHANGED <<first, now>>
    BY <1>5 DEF FcycStarts, FcycRuns, FcycSamples, Restart, app_error, timerVars
  <2> QED
    BY <1>1, <2>1 DEF ScoreIInv
<1>6. CASE FcycGoesOn
  <2>1. /\ UNCHANGED <<first, now>> /\ method' = "fcyc"
        /\ phase' # "scored" \/ Enough
    BY <1>6 DEF FcycGoesOn, timerVars
  <2>2. ~Timer'
    BY <2>1 DEF Timer
  <2> QED
    BY <1>1, <2>1, <2>2, EnoughIsLeast DEF ScoreIInv
<1>7. CASE UNCHANGED evalVars
  BY <1>1, <1>7 DEF evalVars, timerVars, fcycVars, ScoreIInv, Timer
<1> QED
  BY <1>2, <1>3, <1>4, <1>5, <1>6, <1>7 DEF EvalNext

(* The time a score is computed from is the time that passed, or that of   *)
(* the fastest run (fsecs.c:45-55, ftimer.c:23-53, fcyc.c:129-168).        *)
THEOREM ScoresRestOnElapsedTime == EvalSpec => []TimeIsElapsed
<1>1. EvalInit => ScoreIInv
  BY FcycInitIsGood DEF EvalInit, ScoreIInv
<1>2. ScoreIInv => TimeIsElapsed
  <2> SUFFICES ASSUME ScoreIInv, phase = "scored", ~Timer
               PROVE  result = Min({took[i] : i \in DOMAIN took})
    BY DEF ScoreIInv, TimeIsElapsed
  <2> DEFINE times == {took[i] : i \in DOMAIN took}
  <2>1. /\ times \subseteq Int
        /\ result \in times /\ \A t \in times : result <= t
    BY DEF ScoreIInv, FcycIInv, FcycTypeOK
  <2> HIDE DEF times
  <2>2. Min(times) \in times /\ \A t \in times : Min(times) <= t
    BY <2>1 DEF Min
  <2>3. result = Min(times)
    <3>1. /\ result \in Int /\ Min(times) \in Int
          /\ result <= Min(times) /\ Min(times) <= result
      BY <2>1, <2>2
    <3> QED
      BY <3>1
  <2> QED
    BY <2>3 DEF times
<1> QED
  BY <1>1, <1>2, StepsKeepScore, PTL DEF EvalSpec

-----------------------------------------------------------------------------
(* Sums.                                                                   *)

(* The sum of f over the subsets of S, with one element taken off at a     *)
(* time.                                                                   *)
Summing(f, S, F) ==
    \A s \in SUBSET S :
        F[s] = IF s = {} THEN 0
               ELSE f[CHOOSE x \in s : TRUE] + F[s \ {CHOOSE x \in s : TRUE}]

(* The sum of f over S. *)
SumOf(f, S) == MapThenSumSet(LAMBDA i : f[i], S)

(* There is such a sum. *)
LEMMA SumUnfolds ==
    ASSUME NEW S, IsFiniteSet(S), NEW f
    PROVE  \E F : Summing(f, S, F) /\ SumOf(f, S) = F[S]
<1> DEFINE c(s) == CHOOSE x \in s : TRUE
           Small(k) == {s \in SUBSET S : Cardinality(s) <= k}
           Sums(k, F) == F = [s \in Small(k) |-> IF s = {} THEN 0 ELSE f[c(s)] + F[s \ {c(s)}]]
           Ks == {k \in Nat : \E F : Sums(k, F)}
<1>1. ASSUME NEW s \in SUBSET S
      PROVE  /\ IsFiniteSet(s) /\ Cardinality(s) \in Nat
             /\ Cardinality(s) = 0 <=> s = {}
             /\ s # {} => c(s) \in s /\ Cardinality(s \ {c(s)}) = Cardinality(s) - 1
  <2>1. IsFiniteSet(s) /\ Cardinality(s) \in Nat
    BY FS_Subset, FS_CardinalityType
  <2>2. Cardinality(s) = 0 <=> s = {}
    BY <2>1, FS_EmptySet
  <2>3. s # {} => c(s) \in s
    OBVIOUS
  <2>4. s # {} => Cardinality(s \ {c(s)}) = Cardinality(s) - 1
    BY <2>1, <2>3, FS_RemoveElement
  <2> QED
    BY <2>1, <2>2, <2>3, <2>4
<1>2. 0 \in Ks
  <2>1. PICK F : F = [s \in Small(0) |-> 0]
    OBVIOUS
  <2>2. ASSUME NEW s \in Small(0)
        PROVE  s = {}
    <3>1. s \in SUBSET S /\ Cardinality(s) <= 0
      OBVIOUS
    <3>2. Cardinality(s) = 0
      <4>1. Cardinality(s) \in Nat
        BY <1>1, <3>1
      <4> QED
        BY <3>1, <4>1
    <3> QED
      BY <1>1, <3>1, <3>2
  <2>3. Sums(0, F)
    BY <2>1, <2>2
  <2> QED
    BY <2>3
<1>3. ASSUME NEW k \in Nat, k \in Ks
      PROVE  k + 1 \in Ks
  <2>1. PICK F : Sums(k, F)
    BY <1>3
  <2>2. PICK G : G = [s \in Small(k + 1) |-> IF s = {} THEN 0 ELSE f[c(s)] + F[s \ {c(s)}]]
    OBVIOUS
  <2>3. ASSUME NEW s \in Small(k + 1), s # {}
        PROVE  G[s \ {c(s)}] = F[s \ {c(s)}]
    <3>1. PICK r : r = s \ {c(s)}
      OBVIOUS
    <3>2. r \in Small(k) /\ r \in Small(k + 1)
      <4>1. s \in SUBSET S /\ Cardinality(s) <= k + 1 /\ Cardinality(s) \in Nat
        BY <1>1
      <4>2. Cardinality(r) = Cardinality(s) - 1 /\ r \in SUBSET S
        BY <1>1, <2>3, <3>1, <4>1
      <4> QED
        BY <4>1, <4>2
    <3>3. F[r] = IF r = {} THEN 0 ELSE f[c(r)] + F[r \ {c(r)}]
      BY <2>1, <3>2
    <3>4. G[r] = IF r = {} THEN 0 ELSE f[c(r)] + F[r \ {c(r)}]
      BY <2>2, <3>2
    <3> QED
      BY <3>1, <3>3, <3>4
  <2>4. \A s \in Small(k + 1) :
           (IF s = {} THEN 0 ELSE f[c(s)] + F[s \ {c(s)}])
             = IF s = {} THEN 0 ELSE f[c(s)] + G[s \ {c(s)}]
    BY <2>3
  <2> HIDE DEF Small, c
  <2>5. Sums(k + 1, G)
    BY <2>2, <2>4
  <2> HIDE DEF Sums
  <2>6. k + 1 \in Nat /\ \E H : Sums(k + 1, H)
    BY <2>5
  <2> QED
    BY <2>6
<1> HIDE DEF Ks
<1>4. Ks = Nat
  BY <1>2, <1>3, AllNumbers DEF Ks
<1>5. PICK k \in Nat : k = Cardinality(S)
  BY FS_CardinalityType
<1>6. Small(k) = SUBSET S
  <2>1. \A s \in SUBSET S : Cardinality(s) <= Cardinality(S)
    BY FS_Subset
  <2> QED
    BY <1>5, <2>1
<1>7. \E F : Sums(k, F)
  BY <1>4 DEF Ks
<1>7a. \E F : F = [s \in SUBSET S |-> IF s = {} THEN 0 ELSE f[c(s)] + F[s \ {c(s)}]]
  <2>1. PICK F : Sums(k, F)
    BY <1>7
  <2>2. F = [s \in Small(k) |-> IF s = {} THEN 0 ELSE f[c(s)] + F[s \ {c(s)}]]
    BY <2>1
  <2> HIDE DEF Small, c
  <2>3. F = [s \in SUBSET S |-> IF s = {} THEN 0 ELSE f[c(s)] + F[s \ {c(s)}]]
    BY <1>6, <2>2
  <2> QED
    BY <2>3
<1>8. PICK F : F = CHOOSE G : G = [s \in SUBSET S |->
                 IF s = {} THEN 0 ELSE f[c(s)] + G[s \ {c(s)}]]
  OBVIOUS
<1>9. F = [s \in SUBSET S |-> IF s = {} THEN 0 ELSE f[c(s)] + F[s \ {c(s)}]]
  BY <1>7a, <1>8
<1>10. SumOf(f, S) = F[S]
  BY <1>8 DEF SumOf, MapThenSumSet, MapThenFoldSet
<1>11. Summing(f, S, F)
  BY <1>9 DEF Summing
<1> QED
  BY <1>10, <1>11

(* The sets of k elements at most have P, if those of none have and the    *)
(* others have it from those with fewer.                                   *)
LEMMA SubsetsClimb ==
    ASSUME NEW S, IsFiniteSet(S), NEW P,
           \A s \in SUBSET S : (\A r \in SUBSET S :
               Cardinality(r) < Cardinality(s) => r \in P) => s \in P
    PROVE  \A s \in SUBSET S : s \in P
<1> DEFINE Bad == {Cardinality(s) : s \in {r \in SUBSET S : r \notin P}}
<1>1. \A s \in SUBSET S : Cardinality(s) \in Nat
  BY FS_Subset, FS_CardinalityType
<1> SUFFICES ASSUME Bad # {}
             PROVE  FALSE
  OBVIOUS
<1>2. Bad \subseteq Nat
  BY <1>1
<1>3. PICK m \in Bad : \A n \in Bad : m <= n
  BY <1>2, LeastNumber
<1>4. PICK s \in SUBSET S : s \notin P /\ Cardinality(s) = m
  BY <1>3
<1>5. \A r \in SUBSET S : Cardinality(r) < Cardinality(s) => r \in P
  <2> SUFFICES ASSUME NEW r \in SUBSET S, r \notin P, Cardinality(r) < Cardinality(s)
               PROVE  FALSE
    OBVIOUS
  <2>1. Cardinality(r) \in Bad
    OBVIOUS
  <2>2. m <= Cardinality(r) /\ m \in Nat /\ Cardinality(r) \in Nat
    BY <1>1, <1>2, <1>3, <2>1
  <2> QED
    BY <1>4, <2>2
<1> QED
  BY <1>4, <1>5

(* Any element can be taken off first. *)
LEMMA SumTakesOff ==
    ASSUME NEW S, IsFiniteSet(S), NEW f, \A i \in S : f[i] \in Nat, NEW F, Summing(f, S, F)
    PROVE  \A s \in SUBSET S : F[s] \in Nat /\ \A x \in s : F[s] = f[x] + F[s \ {x}]
<1> DEFINE P == {s \in SUBSET S : F[s] \in Nat /\ \A x \in s : F[s] = f[x] + F[s \ {x}]}
<1>1. ASSUME NEW s \in SUBSET S, \A r \in SUBSET S : Cardinality(r) < Cardinality(s) => r \in P
      PROVE  s \in P
  <2>1. \A x \in s : s \ {x} \in P
    <3> TAKE x \in s
    <3>1. IsFiniteSet(s)
      BY FS_Subset
    <3>2. Cardinality(s \ {x}) = Cardinality(s) - 1 /\ Cardinality(s) \in Nat
      BY <3>1, FS_RemoveElement, FS_CardinalityType
    <3>3. s \ {x} \in SUBSET S /\ Cardinality(s \ {x}) < Cardinality(s)
      BY <3>2
    <3> QED
      BY <1>1, <3>3
  <2>2. CASE s = {}
    <3>1. F[s] = 0
      BY <2>2 DEF Summing
    <3> QED
      BY <2>2, <3>1
  <2>3. CASE s # {}
    <3>1. PICK c \in s : F[s] = f[c] + F[s \ {c}]
      <4>1. (CHOOSE x \in s : TRUE) \in s
        BY <2>3
      <4>2. F[s] = f[CHOOSE x \in s : TRUE] + F[s \ {CHOOSE x \in s : TRUE}]
        BY <2>3 DEF Summing
      <4> QED
        BY <4>1, <4>2
    <3>2. F[s] \in Nat
      <4>1. F[s \ {c}] \in Nat /\ f[c] \in Nat
        BY <2>1
      <4> QED
        BY <3>1, <4>1
    <3>3. ASSUME NEW x \in s, x # c
          PROVE  F[s] = f[x] + F[s \ {x}]
      <4>1. PICK r, p, q : r = s \ {c, x} /\ p = s \ {c} /\ q = s \ {x}
        OBVIOUS
      <4>2. r = p \ {x} /\ r = q \ {c} /\ x \in p /\ c \in q
        BY <3>3, <4>1
      <4>3. p \in P /\ q \in P
        BY <2>1, <4>1
      <4>4. F[p] = f[x] + F[r] /\ F[q] = f[c] + F[r]
        BY <4>2, <4>3
      <4>5. F[p] \in Nat /\ F[q] \in Nat /\ f[x] \in Nat /\ f[c] \in Nat
        BY <4>3
      <4>6. F[r] \in Nat
        <5>1. Cardinality(r) < Cardinality(s) /\ r \in SUBSET S
          <6>1. IsFiniteSet(s) /\ IsFiniteSet(p)
            BY <4>1, FS_Subset
          <6>2. Cardinality(p) = Cardinality(s) - 1 /\ Cardinality(r) = Cardinality(p) - 1
            <7>1. Cardinality(p) = Cardinality(s) - 1
              BY <4>1, <6>1, FS_RemoveElement
            <7>2. Cardinality(r) = Cardinality(p) - 1
              BY <4>2, <6>1, FS_RemoveElement
            <7> QED
              BY <7>1, <7>2
          <6>3. Cardinality(s) \in Nat
            BY <6>1, FS_CardinalityType
          <6> QED
            BY <4>1, <6>2, <6>3
        <5> QED
          BY <1>1, <5>1
      <4>7. F[s] = f[c] + F[p]
        BY <3>1, <4>1
      <4>8. F[s] = f[x] + F[q]
        BY <4>4, <4>5, <4>6, <4>7
      <4> QED
        BY <4>1, <4>8
    <3> QED
      BY <3>1, <3>2, <3>3
  <2> QED
    BY <2>2, <2>3
<1> HIDE DEF P
<1>2. \A s \in SUBSET S : s \in P
  BY <1>1, SubsetsClimb
<1> QED
  BY <1>2 DEF P

(* A sum of numbers is a number, 0 if they are all 0. *)
LEMMA SumIsNumber ==
    ASSUME NEW S, IsFiniteSet(S), NEW f, \A i \in S : f[i] \in Nat
    PROVE  SumOf(f, S) \in Nat /\ ((\A i \in S : f[i] = 0) => SumOf(f, S) = 0)
<1>1. PICK F : Summing(f, S, F) /\ SumOf(f, S) = F[S]
  BY SumUnfolds
<1>2. \A s \in SUBSET S : F[s] \in Nat /\ \A x \in s : F[s] = f[x] + F[s \ {x}]
  <2>1. (\A i \in S : f[i] \in Nat) /\ Summing(f, S, F)
    BY <1>1
  <2> QED
    BY <2>1, SumTakesOff
<1>3. ASSUME \A i \in S : f[i] = 0
      PROVE  F[S] = 0
  <2> DEFINE P == {s \in SUBSET S : F[s] = 0}
  <2>1. ASSUME NEW s \in SUBSET S, \A r \in SUBSET S : Cardinality(r) < Cardinality(s) => r \in P
        PROVE  s \in P
    <3>1. CASE s = {}
      BY <1>1, <3>1 DEF Summing
    <3>2. ASSUME NEW x \in s
          PROVE  F[s] = 0
      <4>1. PICK r : r = s \ {x}
        OBVIOUS
      <4>2. Cardinality(r) = Cardinality(s) - 1 /\ Cardinality(s) \in Nat
        <5>1. IsFiniteSet(s)
          BY FS_Subset
        <5> QED
          BY <4>1, <5>1, FS_RemoveElement, FS_CardinalityType
      <4>3. r \in P
        BY <2>1, <4>1, <4>2
      <4>4. F[s] = f[x] + F[r] /\ F[r] = 0 /\ f[x] = 0
        BY <1>2, <1>3, <4>1, <4>3
      <4> QED
        BY <4>4
    <3> QED
      BY <3>1, <3>2
  <2> HIDE DEF P
  <2>2. \A s \in SUBSET S : s \in P
    BY <2>1, SubsetsClimb
  <2> QED
    BY <2>2 DEF P
<1> QED
  BY <1>1, <1>2, <1>3

(* When one of the numbers changes, the sum changes by the difference. *)
LEMMA SumFollows ==
    ASSUME NEW S, IsFiniteSet(S), NEW f, \A i \in S : f[i] \in Nat,
           NEW x \in S, NEW g, g[x] \in Nat, \A i \in S \ {x} : g[i] = f[i]
    PROVE  SumOf(g, S) = SumOf(f, S) - f[x] + g[x]
<1>1. PICK F : Summing(f, S, F) /\ SumOf(f, S) = F[S]
  BY SumUnfolds
<1>2. PICK G : Summing(g, S, G) /\ SumOf(g, S) = G[S]
  BY SumUnfolds
<1>3. \A i \in S : g[i] \in Nat
  OBVIOUS
<1>4. /\ \A s \in SUBSET S : F[s] \in Nat /\ \A y \in s : F[s] = f[y] + F[s \ {y}]
      /\ \A s \in SUBSET S : G[s] \in Nat /\ \A y \in s : G[s] = g[y] + G[s \ {y}]
  BY <1>1, <1>2, <1>3, SumTakesOff
<1> DEFINE P == {s \in SUBSET S : x \notin s => F[s] = G[s]}
<1>5. ASSUME NEW s \in SUBSET S, \A r \in SUBSET S : Cardinality(r) < Cardinality(s) => r \in P
      PROVE  s \in P
  <2>1. CASE s = {}
    BY <1>1, <1>2, <2>1 DEF Summing
  <2>2. ASSUME NEW y \in s, x \notin s
        PROVE  F[s] = G[s]
    <3>1. PICK r : r = s \ {y}
      OBVIOUS
    <3>2. Cardinality(r) = Cardinality(s) - 1 /\ Cardinality(s) \in Nat
      <4>1. IsFiniteSet(s)
        BY FS_Subset
      <4> QED
        BY <3>1, <4>1, FS_RemoveElement, FS_CardinalityType
    <3>3. r \in P /\ x \notin r /\ g[y] = f[y]
      BY <1>5, <2>2, <3>1, <3>2
    <3> QED
      BY <1>4, <3>1, <3>3
  <2> QED
    BY <2>1, <2>2
<1> HIDE DEF P
<1>6. S \ {x} \in P
  BY <1>5, SubsetsClimb
<1>7. PICK r : r = S \ {x}
  OBVIOUS
<1>8. F[r] = G[r]
  BY <1>6, <1>7 DEF P
<1>9. F[S] = f[x] + F[r] /\ G[S] = g[x] + G[r] /\ F[r] \in Nat
  BY <1>4, <1>7
<1> QED
  BY <1>1, <1>2, <1>8, <1>9

(* The pieces f of i from at[i] on lie apart between lo and hi. *)
Apart(S, f, at1, lo, hi) ==
    /\ lo \in Nat /\ hi \in Nat /\ lo <= hi
    /\ \A i \in S : f[i] \in Nat /\ at1[i] \in Nat
    /\ \A i \in S : f[i] # 0 => lo <= at1[i] /\ at1[i] + f[i] <= hi
    /\ \A i, j \in S : i # j /\ f[i] # 0 /\ f[j] # 0 =>
          at1[i] + f[i] <= at1[j] \/ at1[j] + f[j] <= at1[i]

(* Together they are no longer than the way from lo to hi. *)
LEMMA SumOfApart ==
    ASSUME NEW S, IsFiniteSet(S), NEW f, NEW at1, NEW lo, NEW hi, Apart(S, f, at1, lo, hi)
    PROVE  SumOf(f, S) <= hi - lo
<1>1. PICK F : Summing(f, S, F) /\ SumOf(f, S) = F[S]
  BY SumUnfolds
<1>2. \A s \in SUBSET S : F[s] \in Nat /\ \A x \in s : F[s] = f[x] + F[s \ {x}]
  <2>1. (\A i \in S : f[i] \in Nat) /\ Summing(f, S, F)
    BY <1>1 DEF Apart
  <2> QED
    BY <2>1, SumTakesOff
<1> DEFINE Below(s, e) == \A i \in s : f[i] # 0 => at1[i] + f[i] <= e
           P == {s \in SUBSET S : \A e \in Nat : lo <= e /\ Below(s, e) => F[s] <= e - lo}
<1>3. /\ lo \in Nat /\ hi \in Nat /\ lo <= hi
      /\ \A i \in S : f[i] \in Nat /\ at1[i] \in Nat
      /\ \A i \in S : f[i] # 0 => lo <= at1[i] /\ at1[i] + f[i] <= hi
      /\ \A i, j \in S : i # j /\ f[i] # 0 /\ f[j] # 0 =>
            at1[i] + f[i] <= at1[j] \/ at1[j] + f[j] <= at1[i]
  BY DEF Apart
<1>4. ASSUME NEW s \in SUBSET S, \A r \in SUBSET S : Cardinality(r) < Cardinality(s) => r \in P
      PROVE  s \in P
  <2> SUFFICES ASSUME NEW e \in Nat, lo <= e, Below(s, e)
               PROVE  F[s] <= e - lo
    OBVIOUS
  <2>1. ASSUME NEW x \in s, NEW d \in Nat, lo <= d, Below(s \ {x}, d)
        PROVE  F[s] = f[x] + F[s \ {x}] /\ F[s \ {x}] <= d - lo /\ F[s \ {x}] \in Nat
    <3>1. PICK r : r = s \ {x}
      OBVIOUS
    <3>2. Cardinality(r) = Cardinality(s) - 1 /\ Cardinality(s) \in Nat
      <4>1. IsFiniteSet(s)
        BY FS_Subset
      <4> QED
        BY <3>1, <4>1, FS_RemoveElement, FS_CardinalityType
    <3>3. r \in P
      BY <1>4, <3>1, <3>2
    <3>4. F[r] <= d - lo
      BY <2>1, <3>1, <3>3
    <3>5. F[s] = f[x] + F[r] /\ F[r] \in Nat
      BY <1>2, <3>1
    <3> QED
      BY <3>1, <3>4, <3>5
  <2>2. CASE s = {}
    <3>1. F[s] = 0
      BY <1>1, <2>2 DEF Summing
    <3> QED
      BY <1>3, <3>1
  <2>3. ASSUME NEW x \in s, f[x] = 0
        PROVE  F[s] <= e - lo
    <3>1. F[s] = f[x] + F[s \ {x}] /\ F[s \ {x}] <= e - lo /\ F[s \ {x}] \in Nat
      BY <2>1
    <3> QED
      BY <1>3, <2>3, <3>1
  <2>4. CASE s # {} /\ \A x \in s : f[x] # 0
    <3>1. \A i \in s : at1[i] \in Nat /\ f[i] \in Nat /\ f[i] # 0 /\ at1[i] + f[i] <= e
      BY <1>3, <2>4
    <3>2. PICK x \in s : \A i \in s : at1[i] <= at1[x]
      <4> DEFINE D == {e - at1[i] : i \in s}
      <4>1. D \subseteq Nat /\ D # {}
        BY <2>4, <3>1
      <4>2. PICK m \in D : \A n \in D : m <= n
        BY <4>1, LeastNumber
      <4>3. PICK x \in s : m = e - at1[x]
        BY <4>2
      <4>4. ASSUME NEW i \in s
            PROVE  at1[i] <= at1[x]
        <5>1. m <= e - at1[i]
          BY <4>2
        <5> QED
          BY <3>1, <4>3, <5>1
      <4> QED
        BY <4>4
    <3>3. lo <= at1[x] /\ at1[x] \in Nat
      BY <1>3, <2>4
    <3>4. ASSUME NEW i \in s \ {x}
          PROVE  at1[i] + f[i] <= at1[x]
      <4>1. at1[i] + f[i] <= at1[x] \/ at1[x] + f[x] <= at1[i]
        BY <1>3, <2>4
      <4>2. at1[i] <= at1[x] /\ f[x] \in Nat /\ f[x] # 0 /\ at1[i] \in Nat /\ at1[x] \in Nat
        BY <3>1, <3>2
      <4> QED
        BY <4>1, <4>2
    <3>5. Below(s \ {x}, at1[x])
      BY <3>4
    <3>6. F[s] = f[x] + F[s \ {x}] /\ F[s \ {x}] <= at1[x] - lo /\ F[s \ {x}] \in Nat
      BY <2>1, <3>3, <3>5
    <3> QED
      BY <1>3, <3>1, <3>3, <3>6
  <2> QED
    BY <2>2, <2>3, <2>4
<1> HIDE DEF P
<1>5. S \in P
  BY <1>4, SubsetsClimb
<1> QED
  BY <1>1, <1>3, <1>5 DEF P

-----------------------------------------------------------------------------
(* What the client holds.                                                  *)

(* The sizes after each request of t, up to the n-th. *)
HoldingUpTo(t, n, s) ==
    s = [k \in 0 .. n |-> IF k = 0 THEN [i \in Ids |-> 0]
                          ELSE [s[k - 1] EXCEPT ![t[k].index] = t[k].size]]

(* There are such sizes, and only one choice of them. *)
LEMMA HoldingExists ==
    ASSUME NEW t
    PROVE  \A n \in Nat : \E s : HoldingUpTo(t, n, s) /\ Holding(t, n) = s[n]
<1> DEFINE Ns == {n \in Nat : \E s : HoldingUpTo(t, n, s)}
<1>1. 0 \in Ns
  <2>1. PICK s : s = [k \in 0 .. 0 |-> [i \in Ids |-> 0]]
    OBVIOUS
  <2>2. \A k \in 0 .. 0 : k = 0
    OBVIOUS
  <2>3. HoldingUpTo(t, 0, s)
    BY <2>1, <2>2 DEF HoldingUpTo
  <2> QED
    BY <2>3
<1>2. ASSUME NEW n \in Nat, n \in Ns
      PROVE  n + 1 \in Ns
  <2>1. PICK s : HoldingUpTo(t, n, s)
    BY <1>2
  <2>2. PICK r : r = [k \in 0 .. n + 1 |-> IF k = 0 THEN [i \in Ids |-> 0]
                          ELSE [s[k - 1] EXCEPT ![t[k].index] = t[k].size]]
    OBVIOUS
  <2>3. ASSUME NEW k \in 0 .. n + 1, k # 0
        PROVE  r[k - 1] = s[k - 1]
    <3>1. k - 1 \in 0 .. n /\ k - 1 \in 0 .. n + 1
      BY <2>3
    <3>2. PICK j : j = k - 1
      OBVIOUS
    <3>3. s[j] = IF j = 0 THEN [i \in Ids |-> 0] ELSE [s[j - 1] EXCEPT ![t[j].index] = t[j].size]
      BY <2>1, <3>1, <3>2 DEF HoldingUpTo
    <3>4. r[j] = IF j = 0 THEN [i \in Ids |-> 0] ELSE [s[j - 1] EXCEPT ![t[j].index] = t[j].size]
      BY <2>2, <3>1, <3>2
    <3> QED
      BY <3>2, <3>3, <3>4
  <2>4. \A k \in 0 .. n + 1 :
           (IF k = 0 THEN [i \in Ids |-> 0] ELSE [s[k - 1] EXCEPT ![t[k].index] = t[k].size])
             = IF k = 0 THEN [i \in Ids |-> 0] ELSE [r[k - 1] EXCEPT ![t[k].index] = t[k].size]
    BY <2>3
  <2>5. HoldingUpTo(t, n + 1, r)
    BY <2>2, <2>4 DEF HoldingUpTo
  <2>6. n + 1 \in Nat
    OBVIOUS
  <2> QED
    BY <2>5, <2>6
<1> HIDE DEF Ns
<1>3. \A n \in Nat : n \in Ns
  BY <1>1, <1>2, AllNumbers
<1>4. ASSUME NEW n \in Nat
      PROVE  \E s : HoldingUpTo(t, n, s) /\ Holding(t, n) = s[n]
  <2>1. PICK s : s = CHOOSE r : HoldingUpTo(t, n, r)
    OBVIOUS
  <2>2. HoldingUpTo(t, n, s)
    <3>1. \E r : HoldingUpTo(t, n, r)
      BY <1>3 DEF Ns
    <3> QED
      BY <2>1, <3>1
  <2>3. Holding(t, n) = s[n]
    BY <2>1 DEF Holding, HoldingUpTo
  <2> QED
    BY <2>2, <2>3
<1> QED
  BY <1>4

(* The traces t and u begin with the same m requests. *)
SameUpTo(t, u, m) == \A k \in 1 .. m : t[k] = u[k]

(* The sizes after m requests rest on these alone. *)
LEMMA HoldingIsOne ==
    ASSUME NEW t, NEW u, NEW m \in Nat, NEW n \in Nat, m <= n, SameUpTo(t, u, m),
           NEW r, HoldingUpTo(t, m, r), NEW s, HoldingUpTo(u, n, s)
    PROVE  r[m] = s[m]
<1> DEFINE Agreed == {k \in Nat : k \in 0 .. m => r[k] = s[k]}
<1>0. /\ r = [k \in 0 .. m |-> IF k = 0 THEN [i \in Ids |-> 0]
                          ELSE [r[k - 1] EXCEPT ![t[k].index] = t[k].size]]
      /\ s = [k \in 0 .. n |-> IF k = 0 THEN [i \in Ids |-> 0]
                          ELSE [s[k - 1] EXCEPT ![u[k].index] = u[k].size]]
  BY DEF HoldingUpTo
<1>1. 0 \in Agreed
  <2>1. 0 \in 0 .. m /\ 0 \in 0 .. n
    OBVIOUS
  <2>2. r[0] = [i \in Ids |-> 0] /\ s[0] = [i \in Ids |-> 0]
    BY <1>0, <2>1
  <2> QED
    BY <2>2
<1>2. ASSUME NEW k \in Nat, k \in Agreed
      PROVE  k + 1 \in Agreed
  <2> SUFFICES ASSUME k + 1 \in 0 .. m
               PROVE  r[k + 1] = s[k + 1]
    OBVIOUS
  <2>1. PICK j : j = k + 1
    OBVIOUS
  <2>2. j \in 0 .. m /\ j \in 0 .. n /\ j # 0 /\ j - 1 = k /\ j \in 1 .. m /\ k \in 0 .. m
    BY <2>1
  <2>3. r[j] = [r[k] EXCEPT ![t[j].index] = t[j].size]
    BY <1>0, <2>2
  <2>4. s[j] = [s[k] EXCEPT ![u[j].index] = u[j].size]
    BY <1>0, <2>2
  <2>5. r[k] = s[k] /\ t[j] = u[j]
    BY <1>2, <2>2 DEF SameUpTo
  <2> QED
    BY <2>1, <2>3, <2>4, <2>5
<1> HIDE DEF Agreed
<1>3. \A k \in Nat : k \in Agreed
  BY <1>1, <1>2, AllNumbers
<1> QED
  BY <1>3 DEF Agreed

(* The next request changes one size. *)
LEMMA HoldingFollows ==
    ASSUME NEW t, NEW n \in Nat
    PROVE  /\ Holding(t, 0) = [i \in Ids |-> 0]
           /\ Holding(t, n + 1) = [Holding(t, n) EXCEPT ![t[n + 1].index] = t[n + 1].size]
<1>1. PICK o : HoldingUpTo(t, 0, o) /\ Holding(t, 0) = o[0]
  BY HoldingExists
<1>2. PICK r : HoldingUpTo(t, n, r) /\ Holding(t, n) = r[n]
  BY HoldingExists
<1>3. PICK m, s : m = n + 1 /\ HoldingUpTo(t, m, s) /\ Holding(t, m) = s[m]
  BY HoldingExists
<1>4. o[0] = [i \in Ids |-> 0]
  BY <1>1 DEF HoldingUpTo
<1>5. s[m] = [s[n] EXCEPT ![t[m].index] = t[m].size]
  <2>1. m \in 0 .. m /\ m # 0 /\ m - 1 = n
    BY <1>3
  <2> QED
    BY <1>3, <2>1 DEF HoldingUpTo
<1>6. r[n] = s[n]
  <2>1. m \in Nat /\ n <= m /\ SameUpTo(t, t, n)
    BY <1>3 DEF SameUpTo
  <2> QED
    BY <1>2, <1>3, <2>1, HoldingIsOne
<1> QED
  BY <1>1, <1>2, <1>3, <1>4, <1>5, <1>6

(* A longer trace holds the same after the requests of the shorter. *)
LEMMA HoldingStays ==
    ASSUME NEW t, NEW u, NEW n \in Nat, SameUpTo(t, u, n)
    PROVE  Holding(t, n) = Holding(u, n)
<1>1. PICK r : HoldingUpTo(t, n, r) /\ Holding(t, n) = r[n]
  BY HoldingExists
<1>2. PICK s : HoldingUpTo(u, n, s) /\ Holding(u, n) = s[n]
  BY HoldingExists
<1>3. n <= n
  OBVIOUS
<1>4. r[n] = s[n]
  BY <1>1, <1>2, <1>3, HoldingIsOne
<1> QED
  BY <1>1, <1>2, <1>4

-----------------------------------------------------------------------------
(* The client of a run: blocks, whatever is in them.                       *)

(* The numbers that hold something. *)
HeldBy(held) == {i \in Ids : held[i] # 0}

(* The blocks in use of h are the prologue and those of the numbers that   *)
(* hold something, each with room for it.                                  *)
Serving(h, C, at1, held) ==
    /\ Sound(h, C)
    /\ at1 \in [Ids -> Nat] /\ held \in [Ids -> Sizes \cup {0}]
    /\ InUse(h, C) = {heap_listp} \cup {at1[j] : j \in HeldBy(held)}
    /\ \A j \in HeldBy(held) : at1[j] # heap_listp /\ at1[j] + held[j] + 8 <= After(h, at1[j])
    /\ \A i, j \in HeldBy(held) : at1[i] = at1[j] => i = j

(* There are few numbers. *)
LEMMA IdsAreFinite == IsFiniteSet(Ids)
<1>1. PICK a, z : a = 1 /\ z = 15
  OBVIOUS
<1>2. a \in Int /\ z \in Int /\ Ids \subseteq a .. z
  BY <1>1, TraceAssumption
<1>3. IsFiniteSet(a .. z)
  BY <1>2, FS_Interval
<1> QED
  BY <1>2, <1>3, FS_Subset

(* What all hold together is less than the heap. *)
LEMMA HeldIsLess ==
    ASSUME NEW h, NEW C, NEW at1, NEW held, Serving(h, C, at1, held)
    PROVE  /\ SumOf(held, Ids) \in Nat
           /\ SumOf(held, Ids) + 16 <= h.mem_brk - mem_start_brk
<1>1. IsFiniteSet(Ids)
  BY IdsAreFinite
<1>2. \A i \in Ids : held[i] \in Nat /\ at1[i] \in Nat
  BY SizesAreWords DEF Serving
<1>3. SumOf(held, Ids) \in Nat
  BY <1>1, <1>2, SumIsNumber
<1>4. Tiling(h, C) /\ Sound(h, C)
  BY DEF Serving, Sound
<1>5. /\ heap_listp \in C /\ heap_listp # h.mem_brk
      /\ heap_listp = mem_start_brk + 8 /\ heap_listp \in Nat /\ mem_start_brk \in Nat
      /\ h.mem_brk \in Nat /\ Size(h, heap_listp) = 8
  <2>1. heap_listp \in C /\ heap_listp < h.mem_brk /\ heap_listp \in Nat
    BY <1>4 DEF Tiling, Bounds
  <2> QED
    BY <1>4, <2>1, BlockFacts, AreaAssumption
<1>6. After(h, heap_listp) = mem_start_brk + 16 /\ After(h, heap_listp) <= h.mem_brk
  <2>1. After(h, heap_listp) <= h.mem_brk
    BY <1>4, <1>5, BlockFacts
  <2> QED
    BY <1>5, <2>1 DEF After
<1>7. ASSUME NEW i \in HeldBy(held)
      PROVE  /\ mem_start_brk + 16 <= at1[i] /\ at1[i] + held[i] <= h.mem_brk
             /\ at1[i] \in C /\ at1[i] + held[i] + 8 <= After(h, at1[i])
             /\ at1[i] \in Nat /\ held[i] \in Nat /\ After(h, at1[i]) \in Nat
             /\ \A c \in C : at1[i] < c => After(h, at1[i]) <= c
  <2>1. at1[i] \in InUse(h, C) /\ at1[i] # heap_listp /\ at1[i] + held[i] + 8 <= After(h, at1[i])
    BY DEF Serving
  <2>2. PICK b : b = at1[i]
    OBVIOUS
  <2>3. b \in C \ {h.mem_brk}
    BY <2>1, <2>2 DEF InUse
  <2>4. /\ b \in Nat /\ heap_listp <= b /\ After(h, b) <= h.mem_brk /\ After(h, b) \in Nat
        /\ \A c \in C : b < c => After(h, b) <= c
    BY <1>4, <2>3, BlockFacts
  <2>5. After(h, heap_listp) <= b
    <3>1. heap_listp < b
      BY <1>5, <2>1, <2>2, <2>4
    <3> QED
      BY <1>4, <1>5, <2>3, <3>1, BlockFacts
  <2>6. i \in Ids /\ held[i] \in Nat
    BY <1>2 DEF HeldBy
  <2> QED
    BY <1>5, <1>6, <2>1, <2>2, <2>3, <2>4, <2>5, <2>6
<1>8. PICK lo, hi : lo = mem_start_brk + 16 /\ hi = h.mem_brk
  OBVIOUS
<1>9. Apart(Ids, held, at1, lo, hi)
  <2>1. lo \in Nat /\ hi \in Nat /\ lo <= hi
    BY <1>5, <1>6, <1>8
  <2>2. \A i \in Ids : held[i] # 0 => i \in HeldBy(held)
    BY DEF HeldBy
  <2>3. \A i \in Ids : held[i] # 0 => lo <= at1[i] /\ at1[i] + held[i] <= hi
    BY <1>7, <1>8, <2>2
  <2>4. ASSUME NEW i \in Ids, NEW j \in Ids, i # j, held[i] # 0, held[j] # 0
        PROVE  at1[i] + held[i] <= at1[j] \/ at1[j] + held[j] <= at1[i]
    <3>1. i \in HeldBy(held) /\ j \in HeldBy(held)
      BY <2>2, <2>4
    <3>2. at1[i] # at1[j]
      BY <2>4, <3>1 DEF Serving
    <3>3. /\ at1[i] \in C /\ at1[j] \in C
          /\ at1[i] \in Nat /\ at1[j] \in Nat /\ held[i] \in Nat /\ held[j] \in Nat
          /\ After(h, at1[i]) \in Nat /\ After(h, at1[j]) \in Nat
          /\ at1[i] + held[i] + 8 <= After(h, at1[i]) /\ at1[j] + held[j] + 8 <= After(h, at1[j])
          /\ at1[i] < at1[j] => After(h, at1[i]) <= at1[j]
          /\ at1[j] < at1[i] => After(h, at1[j]) <= at1[i]
      BY <1>7, <3>1
    <3> QED
      BY <3>2, <3>3
  <2> QED
    BY <1>2, <2>1, <2>3, <2>4 DEF Apart
<1>10. SumOf(held, Ids) <= hi - lo
  BY <1>1, <1>9, SumOfApart
<1> QED
  BY <1>3, <1>5, <1>8, <1>10

(* The blocks in use but for the one of i. *)
Keeping(at1, held, i) == {heap_listp} \cup {at1[j] : j \in HeldBy(held) \ {i}}

(* The number i gets size bytes, where k was returned. *)
Gets(at1, held, i, k, size, bt, now1) ==
    /\ i \in Ids /\ size \in Sizes
    /\ bt = [at1 EXCEPT ![i] = k.ret] /\ now1 = [held EXCEPT ![i] = size]

(* A block that is served is that number's. *)
LEMMA ServingMore ==
    ASSUME NEW h, NEW C, NEW at1, NEW held, Serving(h, C, at1, held),
           NEW i, NEW k, NEW size, NEW bt, NEW now1, Gets(at1, held, i, k, size, bt, now1),
           NEW S, S = Keeping(at1, held, i), NEW n, n = Adjusted(size), Serves(h, S, k, n)
    PROVE  \E D : Serving(k, D, bt, now1) /\ k.ret # NULL /\ k.ret \in Nat
<1>1. PICK D : /\ Sound(k, D)
               /\ InUse(k, D) = S \cup {k.ret} /\ k.ret \notin S
               /\ Keeps(h, k, S)
               /\ k.ret \in Nat /\ After(k, k.ret) \in Nat /\ k.ret + n <= After(k, k.ret)
  BY DEF Serves
<1>2. /\ i \in Ids /\ size \in Sizes /\ bt = [at1 EXCEPT ![i] = k.ret]
      /\ now1 = [held EXCEPT ![i] = size]
      /\ at1 \in [Ids -> Nat] /\ held \in [Ids -> Sizes \cup {0}]
      /\ size \in Nat /\ size # 0
  BY SizesAreWords DEF Gets, Serving
<1>3. HeldBy(now1) = (HeldBy(held) \ {i}) \cup {i}
  BY <1>2 DEF HeldBy
<1>4. /\ bt \in [Ids -> Nat] /\ now1 \in [Ids -> Sizes \cup {0}]
      /\ bt[i] = k.ret /\ now1[i] = size
      /\ \A j \in HeldBy(held) \ {i} : bt[j] = at1[j] /\ now1[j] = held[j] /\ j \in Ids
  BY <1>1, <1>2 DEF HeldBy
<1>5. InUse(k, D) = {heap_listp} \cup {bt[j] : j \in HeldBy(now1)}
  <2>1. \A c : c \in {bt[j] : j \in HeldBy(now1)}
                 <=> c = k.ret \/ c \in {at1[j] : j \in HeldBy(held) \ {i}}
    BY <1>3, <1>4
  <2>2. \A c : c \in InUse(k, D) <=> c = k.ret \/ c \in S
    BY <1>1
  <2> QED
    BY <2>1, <2>2 DEF Keeping
<1>6. ASSUME NEW j \in HeldBy(held) \ {i}
      PROVE  /\ bt[j] # heap_listp /\ bt[j] + now1[j] + 8 <= After(k, bt[j])
             /\ bt[j] # k.ret
  <2>1. at1[j] # heap_listp /\ at1[j] + held[j] + 8 <= After(h, at1[j])
    BY DEF Serving
  <2>2. at1[j] \in S
    BY DEF Keeping
  <2>3. After(k, at1[j]) = After(h, at1[j])
    BY <1>1, <2>2 DEF Keeps
  <2> QED
    BY <1>1, <1>4, <2>1, <2>2, <2>3
<1>7. bt[i] # heap_listp /\ bt[i] + now1[i] + 8 <= After(k, bt[i])
  <2>1. k.ret # heap_listp
    BY <1>1 DEF Keeping
  <2>2. n \in Nat /\ size + 8 <= n
    BY <1>2, AdjustedIsEnough DEF OVERHEAD
  <2>3. k.ret + size + 8 <= After(k, k.ret)
    BY <1>1, <1>2, <2>2
  <2> QED
    BY <1>4, <2>1, <2>3
<1>8. \A j \in HeldBy(now1) : bt[j] # heap_listp /\ bt[j] + now1[j] + 8 <= After(k, bt[j])
  BY <1>3, <1>6, <1>7
<1>9. \A j, l \in HeldBy(now1) : bt[j] = bt[l] => j = l
  <2>1. \A j, l \in HeldBy(held) \ {i} : bt[j] = bt[l] => j = l
    BY <1>4 DEF Serving
  <2>2. \A j \in HeldBy(held) \ {i} : bt[j] # bt[i]
    BY <1>4, <1>6
  <2> QED
    BY <1>3, <2>1, <2>2
<1>10. Serving(k, D, bt, now1)
  BY <1>1, <1>4, <1>5, <1>8, <1>9 DEF Serving
<1>11. k.ret # NULL
  <2>1. k.ret \in D
    BY <1>1 DEF InUse
  <2>2. heap_listp <= k.ret /\ heap_listp = mem_start_brk + 8 /\ k.ret \in Nat
    BY <1>1, <2>1, BlockFacts DEF Sound
  <2> QED
    BY <2>2, AreaAssumption DEF NULL
<1> QED
  BY <1>1, <1>10, <1>11

(* A block that is given back is no longer held. *)
LEMMA ServingLess ==
    ASSUME NEW h, NEW C, NEW at1, NEW held, Serving(h, C, at1, held),
           NEW i \in HeldBy(held), NEW g, NEW b, b = at1[i], GaveBack(h, C, b, g),
           NEW now1, now1 = [held EXCEPT ![i] = 0]
    PROVE  \E D : Serving(g, D, at1, now1)
<1>1. PICK D : /\ Sound(g, D) /\ InUse(g, D) = InUse(h, C) \ {b}
               /\ Keeps(h, g, InUse(h, C) \ {b})
  BY DEF GaveBack
<1>2. /\ i \in Ids /\ at1 \in [Ids -> Nat] /\ held \in [Ids -> Sizes \cup {0}]
      /\ InUse(h, C) = {heap_listp} \cup {at1[j] : j \in HeldBy(held)}
      /\ \A j \in HeldBy(held) : at1[j] # heap_listp /\ at1[j] + held[j] + 8 <= After(h, at1[j])
      /\ \A l, j \in HeldBy(held) : at1[l] = at1[j] => l = j
  BY DEF Serving, HeldBy
<1>3. HeldBy(now1) = HeldBy(held) \ {i} /\ \A j \in HeldBy(now1) : now1[j] = held[j]
  BY <1>2 DEF HeldBy
<1>4. now1 \in [Ids -> Sizes \cup {0}]
  BY <1>2
<1>5. InUse(g, D) = {heap_listp} \cup {at1[j] : j \in HeldBy(now1)}
  <2>1. \A c : c \in InUse(g, D) <=> c # b /\ (c = heap_listp \/ \E j \in HeldBy(held) : c = at1[j])
    BY <1>1, <1>2
  <2>2. b # heap_listp /\ \A j \in HeldBy(held) : at1[j] = b <=> j = i
    BY <1>2
  <2>3. ASSUME NEW c
        PROVE  c \in InUse(g, D) <=> c \in {heap_listp} \cup {at1[j] : j \in HeldBy(now1)}
    <3>1. (\E j \in HeldBy(now1) : c = at1[j]) <=> c # b /\ \E j \in HeldBy(held) : c = at1[j]
      BY <1>3, <2>2
    <3> QED
      BY <2>1, <2>2, <3>1
  <2> QED
    BY <2>3
<1>6. \A j \in HeldBy(now1) : at1[j] # heap_listp /\ at1[j] + now1[j] + 8 <= After(g, at1[j])
  <2> TAKE j \in HeldBy(now1)
  <2>1. at1[j] \in InUse(h, C) \ {b}
    BY <1>1, <1>5
  <2>2. After(g, at1[j]) = After(h, at1[j])
    BY <1>1, <2>1 DEF Keeps
  <2> QED
    BY <1>2, <1>3, <2>2
<1> QED
  BY <1>1, <1>2, <1>3, <1>4, <1>5, <1>6 DEF Serving

(* At the start nobody holds anything. *)
LEMMA ServingNobody ==
    ASSUME NEW g, Fresh(g), NEW at1 \in [Ids -> Nat], NEW held, held = [i \in Ids |-> 0]
    PROVE  \E D : Serving(g, D, at1, held)
<1>1. PICK D : Sound(g, D) /\ InUse(g, D) = {heap_listp}
  BY DEF Fresh
<1>2. HeldBy(held) = {} /\ held \in [Ids -> Sizes \cup {0}]
  BY DEF HeldBy
<1> QED
  BY <1>1, <1>2 DEF Serving

-----------------------------------------------------------------------------
(* Traces.                                                                 *)

(* What a request may be. *)
Requests == [type : {"a", "r", "f"}, index : Ids, size : Sizes \cup {0}]

(* The request op can be made where held is what is held. *)
LegalOp(held, op) ==
    /\ op.index \in Ids
    /\ \/ op.type = "a" /\ held[op.index] = 0 /\ op.size \in Sizes
       \/ op.type = "r" /\ held[op.index] # 0 /\ op.size \in Sizes
       \/ op.type = "f" /\ held[op.index] # 0 /\ op.size = 0

(* The requests of t can be made one after the other. *)
LegalTrace(t) ==
    /\ t \in Seq(Requests)
    /\ \A n \in 0 .. Len(t) : Holding(t, n) \in [Ids -> Sizes \cup {0}]
    /\ \A n \in 0 .. Len(t) - 1 : LegalOp(Holding(t, n), t[n + 1])

(* No request has been made. *)
LEMMA EmptyIsLegal == LegalTrace(<<>>) /\ Holding(<<>>, 0) = [i \in Ids |-> 0]
<1>1. PICK t : t = <<>>
  OBVIOUS
<1>2. t \in Seq(Requests) /\ Len(t) = 0
  BY <1>1
<1>3. Holding(t, 0) = [i \in Ids |-> 0]
  BY HoldingFollows
<1>4. Holding(t, 0) \in [Ids -> Sizes \cup {0}]
  BY <1>3
<1>5. LegalTrace(t)
  BY <1>2, <1>4 DEF LegalTrace
<1> QED
  BY <1>1, <1>3, <1>5

(* The trace u is t and the request op. *)
Longer(t, op, u) ==
    /\ Len(t) \in Nat /\ Len(u) = Len(t) + 1 /\ u[Len(t) + 1] = op
    /\ \A n \in 1 .. Len(t) : u[n] = t[n]
    /\ \A n \in 0 .. Len(t) : Holding(u, n) = Holding(t, n)
    /\ Holding(u, Len(t) + 1) = [Holding(t, Len(t)) EXCEPT ![op.index] = op.size]

(* Another request leaves the ones before as they are. *)
LEMMA AppendsToTrace ==
    ASSUME NEW t \in Seq(Requests),
           NEW op \in Requests,
           NEW u, u = Append(t, op)
    PROVE  u \in Seq(Requests) /\ Longer(t, op, u)
<1>1. /\ u \in Seq(Requests)
      /\ Len(t) \in Nat /\ Len(u) = Len(t) + 1 /\ u[Len(t) + 1] = op
      /\ \A n \in 1 .. Len(t) : u[n] = t[n]
  OBVIOUS
<1>2. \A n \in 0 .. Len(t) : Holding(u, n) = Holding(t, n)
  <2> TAKE n \in 0 .. Len(t)
  <2>1. n \in Nat /\ SameUpTo(u, t, n)
    BY <1>1 DEF SameUpTo
  <2> QED
    BY <2>1, HoldingStays
<1>3. PICK n : n = Len(t)
  OBVIOUS
<1>4. n \in Nat /\ u[n + 1] = op /\ Holding(u, n) = Holding(t, n)
  BY <1>1, <1>2, <1>3
<1>5. Holding(u, n + 1) = [Holding(u, n) EXCEPT ![u[n + 1].index] = u[n + 1].size]
  BY <1>4, HoldingFollows
<1>6. Holding(u, n + 1) = [Holding(t, n) EXCEPT ![op.index] = op.size]
  BY <1>4, <1>5
<1> QED
  BY <1>1, <1>2, <1>3, <1>6 DEF Longer

(* The trace u is t and one request that can be made after it. *)
OneMore(t, op, u) ==
    /\ LegalTrace(t) /\ u = Append(t, op)
    /\ LegalOp(Holding(t, Len(t)), op) /\ op = Op(op.type, op.index, op.size)

(* It is legal, too. *)
LEMMA OneMoreIsLegal ==
    ASSUME NEW t, NEW op, NEW u, OneMore(t, op, u)
    PROVE  LegalTrace(u) /\ Longer(t, op, u)
<1>1. /\ t \in Seq(Requests)
      /\ u = Append(t, op) /\ LegalOp(Holding(t, Len(t)), op)
      /\ \A n \in 0 .. Len(t) : Holding(t, n) \in [Ids -> Sizes \cup {0}]
      /\ \A n \in 0 .. Len(t) - 1 : LegalOp(Holding(t, n), t[n + 1])
      /\ op = Op(op.type, op.index, op.size)
  BY DEF OneMore, LegalTrace
<1>2. op \in Requests
  <2>1. op.type \in {"a", "r", "f"} /\ op.index \in Ids /\ op.size \in Sizes \cup {0}
    BY <1>1 DEF LegalOp
  <2> QED
    BY <1>1, <2>1 DEF Op, Requests
<1>3. /\ u \in Seq(Requests)
      /\ Len(t) \in Nat /\ Len(u) = Len(t) + 1 /\ u[Len(t) + 1] = op
      /\ \A n \in 1 .. Len(t) : u[n] = t[n]
      /\ \A n \in 0 .. Len(t) : Holding(u, n) = Holding(t, n)
      /\ Holding(u, Len(t) + 1) = [Holding(t, Len(t)) EXCEPT ![op.index] = op.size]
  <2>1. u \in Seq(Requests) /\ Longer(t, op, u)
    BY <1>1, <1>2, AppendsToTrace
  <2> QED
    BY <2>1 DEF Longer
<1>4. ASSUME NEW n \in 0 .. Len(u)
      PROVE  Holding(u, n) \in [Ids -> Sizes \cup {0}]
  <2>1. CASE n \in 0 .. Len(t)
    BY <1>1, <1>3, <2>1
  <2>2. CASE n = Len(t) + 1
    <3>1. Len(t) \in 0 .. Len(t)
      BY <1>3
    <3>2. /\ Holding(t, Len(t)) \in [Ids -> Sizes \cup {0}]
          /\ op.index \in Ids /\ op.size \in Sizes \cup {0}
      BY <1>1, <1>2, <3>1 DEF Requests
    <3> QED
      BY <1>3, <2>2, <3>2
  <2> QED
    BY <1>3, <2>1, <2>2
<1>5. ASSUME NEW n \in 0 .. Len(u) - 1
      PROVE  LegalOp(Holding(u, n), u[n + 1])
  <2>1. n \in 0 .. Len(t) /\ Holding(u, n) = Holding(t, n)
    BY <1>3
  <2>2. CASE n \in 0 .. Len(t) - 1
    <3>1. n + 1 \in 1 .. Len(t)
      BY <1>3, <2>2
    <3>2. u[n + 1] = t[n + 1] /\ LegalOp(Holding(t, n), t[n + 1])
      BY <1>1, <1>3, <2>2, <3>1
    <3> QED
      BY <2>1, <3>2
  <2>3. CASE n = Len(t)
    BY <1>1, <1>3, <2>1, <2>3
  <2> QED
    BY <1>3, <2>1, <2>2, <2>3
<1> QED
  BY <1>3, <1>4, <1>5 DEF LegalTrace, Longer

-----------------------------------------------------------------------------
(* A run of the trace.                                                     *)

(* The heap serves the client as far as the run has come. *)
Replaying ==
    ListOK(package, heap) /\ \E C : Serving(heap, C, blocks, Holding(trace, done))

(* A run starts. *)
LEMMA RestartServes ==
    ASSUME 16 + CHUNKSIZE <= MAX_HEAP, package \in {"mm", "mm-firstfit"}, package' = package,
           heap \in Heaps, ListOK(package, heap), blocks \in [Ids -> Nat], blocks' = blocks,
           NEW p, Restart(p)
    PROVE  /\ Replaying' /\ phase' = p /\ done' = 0
           /\ heap'.mem_brk = mem_start_brk + 16 + CHUNKSIZE
<1>1. PICK g : g = Started(heap)
  OBVIOUS
<1>2. heap' = g /\ done' = 0 /\ phase' = IF g.ret < 0 THEN app_error ELSE p
  BY <1>1 DEF Restart
<1>3. Fresh(g)
  <2>1. package = "mm" \/ heap.free_listp = NULL
    BY DEF ListOK
  <2> QED
    BY <1>1, <2>1, PackageStarts
<1>4. g.ret = 0 /\ g.mem_brk = mem_start_brk + 16 + CHUNKSIZE /\ ListOK(package, g)
  BY <1>3 DEF Fresh
<1>5. PICK zero : zero = [i \in Ids |-> 0]
  OBVIOUS
<1>6. \E D : Serving(g, D, blocks, zero)
  BY <1>3, <1>5, ServingNobody
<1>7. Holding(trace', 0) = zero
  BY <1>5, HoldingFollows
<1>8. Replaying'
  BY <1>2, <1>4, <1>6, <1>7 DEF Replaying
<1> QED
  BY <1>2, <1>4, <1>8

(* What the allocator does with the request op, the blocks being at at1. *)
Reply(op, h, at1, order) ==
    CASE op.type = "a" -> mm_malloc(h, op.size)
      [] op.type = "r" -> mm_realloc(h, at1[op.index], op.size, order)
      [] op.type = "f" -> mm_free(h, at1[op.index])

(* It has no answer. *)
Fails(op, k) == op.type # "f" /\ k.ret \in {NULL, Exited}

(* Where the blocks are when the answer is remembered. *)
Noted(op, at1, k) == IF op.type = "f" THEN at1 ELSE [at1 EXCEPT ![op.index] = k.ret]

(* A heap that serves the client is asked for what he may ask for, and k   *)
(* is what comes of it.                                                    *)
Asked(h, C, at1, held, op, order, k) ==
    /\ package \in {"mm", "mm-firstfit"} /\ Suited
    /\ Serving(h, C, at1, held) /\ ListOK(package, h)
    /\ LegalOp(held, op) /\ (op.type = "r" => order \in Memcpy)
    /\ k = Reply(op, h, at1, order)

(* The client is served by k, where now1 is what he holds. *)
StillServes(h, op, at1, k, now1) ==
    /\ ~Fails(op, k) /\ ListOK(package, k) /\ h.mem_brk <= k.mem_brk
    /\ \E D : Serving(k, D, Noted(op, at1, k), now1)

(* The block that was returned is that of the number. *)
LEMMA ReplyServed ==
    ASSUME NEW h, NEW C, NEW at1, NEW held, Serving(h, C, at1, held),
           NEW op, op.type # "f", op.index \in Ids, op.size \in Sizes, NEW k,
           NEW S, S = Keeping(at1, held, op.index),
           NEW n, n = Adjusted(op.size), Serves(h, S, k, n)
    PROVE  /\ ~Fails(op, k)
           /\ \E D : Serving(k, D, Noted(op, at1, k), [held EXCEPT ![op.index] = op.size])
<1>1. PICK bt, now1 : /\ bt = [at1 EXCEPT ![op.index] = k.ret]
                      /\ now1 = [held EXCEPT ![op.index] = op.size]
  OBVIOUS
<1>2. PICK i, size : i = op.index /\ size = op.size
  OBVIOUS
<1>3. Gets(at1, held, i, k, size, bt, now1) /\ S = Keeping(at1, held, i) /\ n = Adjusted(size)
  BY <1>1, <1>2 DEF Gets
<1>4. PICK D : Serving(k, D, bt, now1) /\ k.ret # NULL /\ k.ret \in Nat
  BY <1>3, ServingMore
<1>5. k.ret # Exited
  BY <1>4 DEF Exited
<1> QED
  BY <1>1, <1>4, <1>5 DEF Fails, Noted

(* One request: the heap serves the client still, or it fails.             *)
LEMMA ReplyServes ==
    ASSUME NEW h, NEW C, NEW at1, NEW held, NEW op, NEW order, NEW k,
           Asked(h, C, at1, held, op, order, k),
           NEW now1, now1 = [held EXCEPT ![op.index] = op.size]
    PROVE  Fails(op, k) \/ StillServes(h, op, at1, k, now1)
<1>1. /\ package \in {"mm", "mm-firstfit"} /\ Suited
      /\ Serving(h, C, at1, held) /\ ListOK(package, h) /\ LegalOp(held, op)
  BY DEF Asked
<1>2. /\ Sound(h, C) /\ h \in Heaps /\ h.mem_brk \in Nat /\ CHUNKSIZE \in Nat
      /\ \A m \in Nat : GrowsBy(m) \in Nat
  <2>1. Sound(h, C) /\ Tiling(h, C) /\ h \in Heaps
    BY <1>1 DEF Serving, Sound, Tiling, Bounds
  <2> QED
    BY <2>1, ChunkAssumption DEF Heaps, GrowsBy
<1>3. PICK i, size : i = op.index /\ size = op.size
  OBVIOUS
<1>4. CASE op.type = "a"
  <2>1. k = mm_malloc(h, size) /\ i \in Ids /\ size \in Sizes /\ held[i] = 0
    BY <1>1, <1>3, <1>4 DEF Asked, Reply, LegalOp
  <2>2. size \in Nat \ {0}
    BY <2>1, SizesAreWords
  <2>3. PICK n : n = Adjusted(size) /\ n \in Nat
    BY <2>2, AdjustedIsEnough
  <2>4. \/ Serves(h, InUse(h, C), k, n) /\ ListOK(package, k) /\ Granted(h, C, k, n)
        \/ Full(h, C, n) /\ Returning(h, k, NULL)
    BY <1>1, <1>2, <2>1, <2>2, <2>3, PackageAllocates
  <2>5. CASE Returning(h, k, NULL)
    <3>1. k.ret = NULL
      BY <2>5, <1>2 DEF Returning, Heaps
    <3> QED
      BY <1>4, <3>1 DEF Fails
  <2>6. CASE Serves(h, InUse(h, C), k, n) /\ ListOK(package, k) /\ Granted(h, C, k, n)
    <3>1. InUse(h, C) = Keeping(at1, held, i)
      <4>1. HeldBy(held) \ {i} = HeldBy(held)
        BY <2>1 DEF HeldBy
      <4> QED
        BY <1>1, <4>1 DEF Keeping, Serving
    <3>2. PICK S : S = Keeping(at1, held, op.index) /\ Serves(h, S, k, n)
      BY <1>3, <2>6, <3>1
    <3>3. op.type # "f" /\ op.index \in Ids /\ op.size \in Sizes /\ n = Adjusted(op.size)
      BY <1>3, <1>4, <2>1, <2>3
    <3>4. /\ ~Fails(op, k)
          /\ \E D : Serving(k, D, Noted(op, at1, k), [held EXCEPT ![op.index] = op.size])
      BY <1>1, <3>2, <3>3, ReplyServed
    <3>5. h.mem_brk <= k.mem_brk
      <4>1. k.mem_brk = h.mem_brk \/ k.mem_brk = h.mem_brk + GrowsBy(n)
        BY <2>6 DEF Granted, Placement, InGap, AtEnd
      <4> QED
        BY <1>2, <2>3, <4>1
    <3> QED
      BY <2>6, <3>4, <3>5 DEF StillServes
  <2> QED
    BY <2>4, <2>5, <2>6
<1>5. CASE op.type = "r"
  <2>1. PICK ptr : ptr = at1[i]
    OBVIOUS
  <2>2. /\ k = mm_realloc(h, ptr, size, order) /\ order \in Memcpy
        /\ i \in Ids /\ size \in Sizes /\ held[i] # 0
    BY <1>1, <1>3, <1>5, <2>1 DEF Asked, Reply, LegalOp
  <2>3. PICK n : n = Adjusted(size) /\ n \in Nat
    BY <2>2, SizesAreWords, AdjustedIsEnough
  <2>4. i \in HeldBy(held) /\ ptr \in InUse(h, C) \ {heap_listp}
    BY <1>1, <2>1, <2>2 DEF Serving, HeldBy
  <2>5. \/ /\ Resized(h, C, ptr, size, n, k)
           /\ Adapted(h, C, ptr, size, n, k) \/ Resettled(h, C, ptr, n, k)
        \/ NoPlace(h, C, ptr, n) /\ \E r \in {NULL, Exited} : Returning(h, k, r)
    BY <1>1, <1>2, <2>2, <2>3, <2>4, PackageReallocates
  <2>6. CASE \E r \in {NULL, Exited} : Returning(h, k, r)
    <3>1. k.ret \in {NULL, Exited}
      BY <2>6, <1>2 DEF Returning, Heaps
    <3> QED
      BY <1>5, <3>1 DEF Fails
  <2>7. CASE /\ Resized(h, C, ptr, size, n, k)
             /\ Adapted(h, C, ptr, size, n, k) \/ Resettled(h, C, ptr, n, k)
    <3>1. InUse(h, C) \ {ptr} = Keeping(at1, held, i)
      <4>1. /\ \A j \in HeldBy(held) : at1[j] # heap_listp
            /\ \A j \in HeldBy(held) : at1[j] = ptr <=> j = i
            /\ ptr # heap_listp
        BY <1>1, <2>1, <2>4 DEF Serving
      <4>2. \A c : c \in InUse(h, C) <=> c = heap_listp \/ \E j \in HeldBy(held) : c = at1[j]
        BY <1>1 DEF Serving
      <4>3. \A c : c \in Keeping(at1, held, i)
                     <=> c = heap_listp \/ \E j \in HeldBy(held) : j # i /\ c = at1[j]
        BY DEF Keeping
      <4>4. \A c : c \in InUse(h, C) \ {ptr} <=> c \in Keeping(at1, held, i)
        BY <4>1, <4>2, <4>3
      <4> QED
        BY <4>4
    <3>2. PICK S : S = Keeping(at1, held, op.index) /\ Serves(h, S, k, n)
      BY <1>3, <2>7, <3>1 DEF Resized
    <3>3. op.type # "f" /\ op.index \in Ids /\ op.size \in Sizes /\ n = Adjusted(op.size)
      BY <1>3, <1>5, <2>2, <2>3
    <3>4. /\ ~Fails(op, k)
          /\ \E D : Serving(k, D, Noted(op, at1, k), [held EXCEPT ![op.index] = op.size])
      BY <1>1, <3>2, <3>3, ReplyServed
    <3>5. h.mem_brk <= k.mem_brk
      <4>1. \/ k.mem_brk = h.mem_brk \/ k.mem_brk = h.mem_brk + GrowsBy(n)
            \/ k.mem_brk = h.mem_brk + CHUNKSIZE
        BY <2>7 DEF Adapted, Resettled, StaysPut, GrowsOut, Granted, Placement, InGap, AtEnd
      <4> QED
        BY <1>2, <2>3, <4>1
    <3>6. ListOK(package, k)
      BY <2>7 DEF Resized
    <3> QED
      BY <3>4, <3>5, <3>6 DEF StillServes
  <2> QED
    BY <2>5, <2>6, <2>7
<1>6. CASE op.type = "f"
  <2>1. PICK ptr : ptr = at1[i]
    OBVIOUS
  <2>2. k = mm_free(h, ptr) /\ i \in Ids /\ size = 0 /\ held[i] # 0
    BY <1>1, <1>3, <1>6, <2>1 DEF Asked, Reply, LegalOp
  <2>3. i \in HeldBy(held) /\ ptr \in InUse(h, C) \ {heap_listp}
    BY <1>1, <2>1, <2>2 DEF Serving, HeldBy
  <2>4. GaveBack(h, C, ptr, k)
    BY <1>1, <1>2, <2>2, <2>3, PackageFrees
  <2>5. now1 = [held EXCEPT ![i] = 0]
    BY <1>3, <2>2
  <2>6. \E D : Serving(k, D, at1, now1)
    <3>1. Serving(h, C, at1, held) /\ i \in HeldBy(held) /\ ptr = at1[i] /\ GaveBack(h, C, ptr, k)
      BY <1>1, <2>1, <2>3, <2>4
    <3>2. PICK z : z = [held EXCEPT ![i] = 0]
      OBVIOUS
    <3>3. \E D : Serving(k, D, at1, z)
      BY ONLY <3>1, <3>2, ServingLess
    <3> QED
      BY ONLY <2>5, <3>2, <3>3
  <2>7. ~Fails(op, k) /\ Noted(op, at1, k) = at1
    BY <1>6 DEF Fails, Noted
  <2>8. ListOK(package, k) /\ k.mem_brk = h.mem_brk
    BY <2>4 DEF GaveBack
  <2> QED
    BY <1>2, <2>6, <2>7, <2>8 DEF StillServes
<1> QED
  BY <1>1, <1>4, <1>5, <1>6 DEF LegalOp

(* A request of a run is one of these. *)
LEMMA ProceedReplies ==
    ASSUME NEW op, op = Request, op.type \in {"a", "r", "f"},
           NEW order, NEW k, k = Served(order), Proceed(k)
    PROVE  /\ k = Reply(op, heap, blocks, order) /\ heap' = k
           /\ phase' = IF Fails(op, k) THEN app_error ELSE phase
           /\ ~Fails(op, k) => blocks' = Noted(op, blocks, k)
<1>1. k = Reply(op, heap, blocks, order) /\ heap' = k
  BY DEF Served, Reply, Proceed
<1>2. phase' = IF Fails(op, k) THEN app_error ELSE phase
  BY DEF Proceed, Fails
<1>3. ~Fails(op, k) => blocks' = Noted(op, blocks, k)
  BY DEF Proceed, Fails, Noted
<1> QED
  BY <1>1, <1>2, <1>3

(* One request of a run: the heap serves it, or the run is aborted.        *)
LEMMA ProceedServes ==
    ASSUME package \in {"mm", "mm-firstfit"}, Suited,
           NEW C, NEW held, Serving(heap, C, blocks, held), ListOK(package, heap),
           NEW op, op = Request, LegalOp(held, op),
           NEW order \in Memcpy, NEW k, k = Served(order), Proceed(k)
    PROVE  \/ phase' = app_error
           \/ /\ phase' = phase /\ ListOK(package, heap') /\ heap.mem_brk <= heap'.mem_brk
              /\ \E D : Serving(heap', D, blocks', [held EXCEPT ![op.index] = op.size])
<1>1. /\ k = Reply(op, heap, blocks, order) /\ heap' = k
      /\ phase' = IF Fails(op, k) THEN app_error ELSE phase
      /\ ~Fails(op, k) => blocks' = Noted(op, blocks, k)
  BY ProceedReplies DEF LegalOp
<1>2. Asked(heap, C, blocks, held, op, order, k)
  BY <1>1 DEF Asked
<1>3. PICK now1 : now1 = [held EXCEPT ![op.index] = op.size]
  OBVIOUS
<1>4. Fails(op, k) \/ StillServes(heap, op, blocks, k, now1)
  BY <1>2, <1>3, ReplyServes
<1> QED
  BY <1>1, <1>3, <1>4 DEF StillServes

-----------------------------------------------------------------------------
(* The runs compared.                                                      *)

(* Two that hold the same have their blocks at the same addresses. *)
Matched(at1, at2, held) ==
    at2 \in [Ids -> Nat] /\ \A i \in HeldBy(held) : at2[i] = at1[i]

(* The package cannot tell h1 and h2, and both serve the client.           *)
Paired(h1, at1, h2, at2, held) ==
    \E C : Alike(h1, h2, C) /\ Serving(h1, C, at1, held) /\ Matched(at1, at2, held)

(* What the one serves the other does.                                     *)
LEMMA ServingSame ==
    ASSUME NEW h1, NEW h2, NEW C, Alike(h1, h2, C), NEW at1, NEW held,
           Serving(h1, C, at1, held), NEW at2, Matched(at1, at2, held)
    PROVE  Serving(h2, C, at2, held)
<1>1. Sound(h2, C) /\ SameTags(h1, h2, C)
  BY DEF Alike, TagTwins
<1>2. /\ at1 \in [Ids -> Nat] /\ held \in [Ids -> Sizes \cup {0}] /\ at2 \in [Ids -> Nat]
      /\ InUse(h1, C) = {heap_listp} \cup {at1[j] : j \in HeldBy(held)}
      /\ \A j \in HeldBy(held) : at1[j] # heap_listp /\ at1[j] + held[j] + 8 <= After(h1, at1[j])
      /\ \A i, j \in HeldBy(held) : at1[i] = at1[j] => i = j
      /\ \A j \in HeldBy(held) : at2[j] = at1[j]
  BY DEF Serving, Matched
<1>3. InUse(h2, C) = InUse(h1, C)
  <2>1. \A c : c \in InUse(h2, C) <=> c \in InUse(h1, C)
    BY <1>1 DEF InUse, SameTags
  <2> QED
    BY <2>1
<1>4. {at2[j] : j \in HeldBy(held)} = {at1[j] : j \in HeldBy(held)}
  BY <1>2
<1>5. \A j \in HeldBy(held) : After(h2, at2[j]) = After(h1, at1[j])
  <2>1. \A j \in HeldBy(held) : at1[j] \in C
    BY <1>2 DEF InUse
  <2> QED
    BY <1>1, <1>2, <2>1 DEF SameTags
<1>6. \A j \in HeldBy(held) : at2[j] # heap_listp /\ at2[j] + held[j] + 8 <= After(h2, at2[j])
  BY <1>2, <1>5
<1>7. \A i, j \in HeldBy(held) : at2[i] = at2[j] => i = j
  BY <1>2
<1> QED
  BY <1>1, <1>2, <1>3, <1>4, <1>6, <1>7 DEF Serving

(* So both serve him. *)
LEMMA PairedServe ==
    ASSUME NEW h1, NEW at1, NEW h2, NEW at2, NEW held, Paired(h1, at1, h2, at2, held)
    PROVE  \E C : /\ Alike(h1, h2, C) /\ Matched(at1, at2, held)
                  /\ Serving(h1, C, at1, held) /\ Serving(h2, C, at2, held)
<1>1. PICK C : Alike(h1, h2, C) /\ Serving(h1, C, at1, held) /\ Matched(at1, at2, held)
  BY DEF Paired
<1>2. Serving(h2, C, at2, held)
  BY <1>1, ServingSame
<1> QED
  BY <1>1, <1>2

(* Heaps that agree are a pair when one of them serves the client. *)
LEMMA PairUp ==
    ASSUME NEW h1, NEW h2, Agree(h1, h2), NEW at1, NEW held, \E D : Serving(h1, D, at1, held),
           NEW at2, Matched(at1, at2, held)
    PROVE  Paired(h1, at1, h2, at2, held)
<1>1. PICK C : Alike(h1, h2, C)
  BY DEF Agree
<1>2. PICK D : Serving(h1, D, at1, held)
  OBVIOUS
<1>3. Tiling(h1, C) /\ Tiling(h1, D)
  BY <1>1, <1>2 DEF Alike, TagTwins, Serving, Sound
<1>4. C = D
  BY <1>3, TilingsAreOne
<1> QED
  BY <1>1, <1>2, <1>4 DEF Paired

(* Heaps that agree gave the same answer. *)
LEMMA AgreeAnswers ==
    ASSUME NEW h1, NEW h2, Agree(h1, h2)
    PROVE  Answer(h1) = Answer(h2) /\ \A op : Fails(op, h1) <=> Fails(op, h2)
<1>1. h1.ret = h2.ret /\ h1.mem_brk = h2.mem_brk
  BY DEF Agree, Alike, TagTwins, SameTags
<1> QED
  BY <1>1 DEF Answer, Fails

(* Both heaps of a pair are asked for the same.                            *)
BothAsked(h1, at1, h2, at2, held, op, o1, o2, k1, k2) ==
    /\ package \in {"mm", "mm-firstfit"} /\ Suited
    /\ Paired(h1, at1, h2, at2, held) /\ LegalOp(held, op)
    /\ op.type = "r" => o1 \in Memcpy /\ o2 \in Memcpy
    /\ k1 = Reply(op, h1, at1, o1) /\ k2 = Reply(op, h2, at2, o2)

(* They answer the same. *)
LEMMA ReplyAgrees ==
    ASSUME NEW h1, NEW at1, NEW h2, NEW at2, NEW held, NEW op, NEW o1, NEW o2, NEW k1, NEW k2,
           BothAsked(h1, at1, h2, at2, held, op, o1, o2, k1, k2)
    PROVE  Agree(k1, k2)
<1>1. /\ package \in {"mm", "mm-firstfit"} /\ Suited /\ LegalOp(held, op)
      /\ Paired(h1, at1, h2, at2, held)
  BY DEF BothAsked
<1>2. PICK C : Alike(h1, h2, C) /\ Serving(h1, C, at1, held) /\ Matched(at1, at2, held)
  BY <1>1 DEF Paired
<1>3. PICK i, size, ptr : i = op.index /\ size = op.size /\ ptr = at1[i]
  OBVIOUS
<1>4. held[i] # 0 => ptr \in InUse(h1, C) \ {heap_listp} /\ at2[i] = ptr
  <2>1. SUFFICES ASSUME held[i] # 0
                 PROVE  ptr \in InUse(h1, C) \ {heap_listp} /\ at2[i] = ptr
    OBVIOUS
  <2>2. i \in HeldBy(held)
    BY <1>1, <1>3, <2>1 DEF LegalOp, HeldBy
  <2> QED
    BY <1>2, <1>3, <2>2 DEF Serving, Matched
<1>5. CASE op.type = "a"
  <2>1. k1 = mm_malloc(h1, size) /\ k2 = mm_malloc(h2, size) /\ size \in Sizes
    BY <1>1, <1>3, <1>5 DEF BothAsked, Reply, LegalOp
  <2>2. size \in Nat \ {0}
    BY <2>1, SizesAreWords
  <2> QED
    BY <1>1, <1>2, <2>1, <2>2, MallocAgrees
<1>6. CASE op.type = "r"
  <2>1. /\ k1 = mm_realloc(h1, at1[i], size, o1) /\ k2 = mm_realloc(h2, at2[i], size, o2)
        /\ o1 \in Memcpy /\ o2 \in Memcpy /\ size \in Sizes /\ held[i] # 0
    BY <1>1, <1>3, <1>6 DEF BothAsked, Reply, LegalOp
  <2>2. /\ k1 = mm_realloc(h1, ptr, size, o1) /\ k2 = mm_realloc(h2, ptr, size, o2)
        /\ ptr \in InUse(h1, C) \ {heap_listp}
    BY <1>3, <1>4, <2>1
  <2> QED
    BY <1>1, <1>2, <2>1, <2>2, ReallocAgrees
<1>7. CASE op.type = "f"
  <2>1. k1 = mm_free(h1, at1[i]) /\ k2 = mm_free(h2, at2[i]) /\ held[i] # 0
    BY <1>1, <1>3, <1>7 DEF BothAsked, Reply, LegalOp
  <2>2. k1 = mm_free(h1, ptr) /\ k2 = mm_free(h2, ptr) /\ ptr \in InUse(h1, C) \ {heap_listp}
    BY <1>3, <1>4, <2>1
  <2> QED
    BY <1>1, <1>2, <2>2, FreeAgrees
<1> QED
  BY <1>1, <1>5, <1>6, <1>7 DEF LegalOp

(* The table at2 becomes bt2 when g2 answers. *)
Takes(op, at2, g2, bt2) ==
    IF op.type = "f"
    THEN bt2 \in [Ids -> Nat] /\ \A j \in Ids \ {op.index} : bt2[j] = at2[j]
    ELSE bt2 = [at2 EXCEPT ![op.index] = g2.ret]

(* What agrees with the answer is its pair. *)
LEMMA ReplyPairs ==
    ASSUME NEW h1, NEW at1, NEW h2, NEW at2, NEW held, NEW op, NEW o1, NEW o2, NEW k1, NEW k2,
           BothAsked(h1, at1, h2, at2, held, op, o1, o2, k1, k2), ~Fails(op, k1),
           NEW g2, Agree(k1, g2), NEW bt2, Takes(op, at2, g2, bt2),
           NEW now1, now1 = [held EXCEPT ![op.index] = op.size]
    PROVE  Paired(k1, Noted(op, at1, k1), g2, bt2, now1)
<1>1. /\ package \in {"mm", "mm-firstfit"} /\ Suited /\ LegalOp(held, op)
      /\ Paired(h1, at1, h2, at2, held)
  BY DEF BothAsked
<1>2. PICK C : Alike(h1, h2, C) /\ Serving(h1, C, at1, held) /\ Matched(at1, at2, held)
  BY <1>1 DEF Paired
<1>3. Asked(h1, C, at1, held, op, o1, k1)
  BY <1>1, <1>2 DEF Asked, BothAsked, Alike
<1>4. Fails(op, k1) \/ StillServes(h1, op, at1, k1, now1)
  BY <1>3, ReplyServes
<1>5. PICK bt1 : bt1 = Noted(op, at1, k1)
  OBVIOUS
<1>6. PICK D : Serving(k1, D, bt1, now1)
  BY <1>4, <1>5 DEF StillServes
<1>7. Matched(bt1, bt2, now1)
  <2>1. PICK i : i = op.index /\ i \in Ids
    BY <1>1 DEF LegalOp
  <2>2. /\ held \in [Ids -> Sizes \cup {0}] /\ at1 \in [Ids -> Nat] /\ bt1 \in [Ids -> Nat]
        /\ at2 \in [Ids -> Nat] /\ \A j \in HeldBy(held) : at2[j] = at1[j]
    BY <1>2, <1>6 DEF Serving, Matched
  <2>3. \A j \in HeldBy(now1) \ {i} : j \in HeldBy(held) /\ j \in Ids
    BY <2>1, <2>2 DEF HeldBy
  <2>4. CASE op.type = "f"
    <3>1. bt1 = at1 /\ bt2 \in [Ids -> Nat] /\ \A j \in Ids \ {i} : bt2[j] = at2[j]
      BY <1>5, <2>1, <2>4 DEF Takes, Noted
    <3>2. i \notin HeldBy(now1)
      <4>1. now1[i] = 0
        BY <1>1, <2>1, <2>2, <2>4 DEF LegalOp
      <4> QED
        BY <4>1 DEF HeldBy
    <3> QED
      BY <2>2, <2>3, <3>1, <3>2 DEF Matched
  <2>5. CASE op.type # "f"
    <3>1. PICK r : r = g2.ret /\ r = k1.ret
      BY DEF Agree
    <3>2. bt1 = [at1 EXCEPT ![i] = r] /\ bt2 = [at2 EXCEPT ![i] = r]
      BY <1>5, <2>1, <2>5, <3>1 DEF Takes, Noted
    <3>3. r \in Nat
      BY <2>1, <2>2, <3>2
    <3> QED
      BY <2>1, <2>2, <2>3, <3>2, <3>3 DEF Matched
  <2> QED
    BY <2>4, <2>5
<1> QED
  BY <1>5, <1>6, <1>7, PairUp

(* The request op leads from h and at1 to k and bt, and ans was the answer. *)
Leads(h, at1, op, k, bt, ans) ==
    /\ \E order : (op.type = "r" => order \in Memcpy) /\ k = Reply(op, h, at1, order)
    /\ ~Fails(op, k) /\ bt = Noted(op, at1, k) /\ ans = Answer(k)

(* A run of t over new memory, that got gs: the heaps H, the tables T.     *)
Replay(t, gs, H, T) ==
    /\ H[0] = Started(mem_init) /\ T[0] = [i \in Ids |-> NULL]
    /\ \A n \in 0 .. Len(t) - 1 : Leads(H[n], T[n], t[n + 1], H[n + 1], T[n + 1], gs[n + 1])

(* After n requests h and at2 are a pair to those of such a run.           *)
Accords(t, gs, n, h, at2) ==
    /\ \E H, T : Replay(t, gs, H, T) /\ Paired(H[n], T[n], h, at2, Holding(t, n))
    /\ n > 0 => Answer(h) = gs[n]

(* Another run of the trace gets what that run got, whatever is in memory. *)
LEMMA ReplayGoesOn ==
    ASSUME package \in {"mm", "mm-firstfit"}, Suited, NEW t, LegalTrace(t), NEW gs,
           NEW n \in 0 .. Len(t) - 1, NEW h, NEW at2, Accords(t, gs, n, h, at2),
           NEW op, op = t[n + 1], NEW order \in Memcpy, NEW k, k = Reply(op, h, at2, order)
    PROVE  ~Fails(op, k) /\ Accords(t, gs, n + 1, k, Noted(op, at2, k))
<1>1. PICK H, T : Replay(t, gs, H, T) /\ Paired(H[n], T[n], h, at2, Holding(t, n))
  BY DEF Accords
<1>2. Leads(H[n], T[n], op, H[n + 1], T[n + 1], gs[n + 1])
  BY <1>1 DEF Replay
<1>3. PICK h1, at1, k1, bt1 : h1 = H[n] /\ at1 = T[n] /\ k1 = H[n + 1] /\ bt1 = T[n + 1]
  OBVIOUS
<1>4. PICK held, now1 : held = Holding(t, n) /\ now1 = [held EXCEPT ![op.index] = op.size]
  OBVIOUS
<1>5. n \in Nat /\ LegalOp(held, op) /\ Holding(t, n + 1) = now1
  <2>1. n \in Nat
    BY DEF LegalTrace
  <2>2. LegalOp(held, op)
    BY <1>4 DEF LegalTrace
  <2>3. Holding(t, n + 1) = [Holding(t, n) EXCEPT ![t[n + 1].index] = t[n + 1].size]
    BY <2>1, HoldingFollows
  <2> QED
    BY <1>4, <2>1, <2>2, <2>3
<1>6. PICK o1 : (op.type = "r" => o1 \in Memcpy) /\ k1 = Reply(op, h1, at1, o1)
  BY <1>2, <1>3 DEF Leads
<1>7. BothAsked(h1, at1, h, at2, held, op, o1, order, k1, k)
  BY <1>1, <1>3, <1>4, <1>5, <1>6 DEF BothAsked
<1>8. Agree(k1, k)
  BY <1>7, ReplyAgrees
<1>9. /\ ~Fails(op, k1) /\ ~Fails(op, k) /\ bt1 = Noted(op, at1, k1)
      /\ Answer(k) = gs[n + 1]
  BY <1>2, <1>3, <1>8, AgreeAnswers DEF Leads
<1>10. PICK bt2 : bt2 = Noted(op, at2, k)
  OBVIOUS
<1>11. Takes(op, at2, k, bt2)
  <2>1. at2 \in [Ids -> Nat]
    BY <1>1 DEF Paired, Matched
  <2> QED
    BY <1>10, <2>1 DEF Takes, Noted
<1>12. Paired(k1, Noted(op, at1, k1), k, bt2, now1)
  BY <1>4, <1>7, <1>8, <1>9, <1>11, ReplyPairs
<1>13. Paired(H[n + 1], T[n + 1], k, bt2, Holding(t, n + 1))
  BY <1>3, <1>5, <1>9, <1>12
<1> QED
  BY <1>1, <1>9, <1>10, <1>13 DEF Accords

(* The answer of h to op, with what is written into the block, is g2.      *)
Answers(h, at2, op, order, k, g2, bt2) ==
    /\ package \in {"mm", "mm-firstfit"} /\ Suited
    /\ op.type = "r" => order \in Memcpy
    /\ k = Reply(op, h, at2, order) /\ ~Fails(op, k) /\ Takes(op, at2, g2, bt2)
    /\ \A g1 : Agree(g1, k) => Agree(g1, g2)

(* What the validation gets a run over new memory gets.                    *)
LEMMA ValidationGoesOn ==
    ASSUME NEW t, NEW gs, gs \in Seq([ret : Int, brk : Nat]), Len(gs) = Len(t),
           NEW h, NEW at2, Accords(t, gs, Len(t), h, at2),
           NEW op, NEW u, OneMore(t, op, u), NEW order, NEW k, NEW g2, NEW bt2,
           Answers(h, at2, op, order, k, g2, bt2), Answer(g2) \in [ret : Int, brk : Nat],
           NEW us, us = Append(gs, Answer(g2))
    PROVE  Accords(u, us, Len(u), g2, bt2)
<1>1. LegalTrace(u) /\ Longer(t, op, u)
  BY OneMoreIsLegal
<1>2. PICK L : L = Len(t) /\ L \in Nat /\ Len(u) = L + 1 /\ Len(us) = L + 1
  <2>1. PICK a : a = Answer(g2) /\ a \in [ret : Int, brk : Nat]
    OBVIOUS
  <2>2. Len(us) = Len(gs) + 1
    BY <2>1
  <2> QED
    BY <1>1, <2>2 DEF Longer
<1>3. PICK H, T : Replay(t, gs, H, T) /\ Paired(H[L], T[L], h, at2, Holding(t, L))
  BY <1>2 DEF Accords
<1>4. PICK h1, at1, held, now1 : /\ h1 = H[L] /\ at1 = T[L] /\ held = Holding(t, L)
                                 /\ now1 = [held EXCEPT ![op.index] = op.size]
  OBVIOUS
<1>5. LegalOp(held, op) /\ Holding(u, L + 1) = now1
  BY <1>1, <1>2, <1>4 DEF OneMore, Longer
<1>6. PICK k1, bt1 : k1 = Reply(op, h1, at1, order) /\ bt1 = Noted(op, at1, k1)
  OBVIOUS
<1>7. BothAsked(h1, at1, h, at2, held, op, order, order, k1, k)
  BY <1>3, <1>4, <1>5, <1>6 DEF BothAsked, Answers
<1>8. Agree(k1, k) /\ Agree(k1, g2)
  BY <1>7, ReplyAgrees DEF Answers
<1>9. ~Fails(op, k1) /\ Answer(k1) = Answer(g2)
  BY <1>8, AgreeAnswers DEF Answers
<1>10. Paired(k1, bt1, g2, bt2, now1)
  <2>1. Takes(op, at2, g2, bt2)
    BY DEF Answers
  <2> QED
    BY <1>4, <1>6, <1>7, <1>8, <1>9, <2>1, ReplyPairs
<1>11. Leads(h1, at1, op, k1, bt1, Answer(g2))
  BY <1>6, <1>9 DEF Leads, Answers
<1>12. PICK H2, T2 : /\ H2 = [n \in 0 .. L + 1 |-> IF n = L + 1 THEN k1 ELSE H[n]]
                     /\ T2 = [n \in 0 .. L + 1 |-> IF n = L + 1 THEN bt1 ELSE T[n]]
  OBVIOUS
<1>13. /\ H2[L + 1] = k1 /\ T2[L + 1] = bt1
       /\ \A n \in 0 .. L : H2[n] = H[n] /\ T2[n] = T[n]
  BY <1>2, <1>12
<1>14. us[L + 1] = Answer(g2) /\ \A n \in 1 .. L : us[n] = gs[n]
  BY <1>2
<1>15. Replay(u, us, H2, T2)
  <2>1. H2[0] = Started(mem_init) /\ T2[0] = [i \in Ids |-> NULL]
    BY <1>2, <1>3, <1>13 DEF Replay
  <2>2. ASSUME NEW n \in 0 .. Len(u) - 1
        PROVE  Leads(H2[n], T2[n], u[n + 1], H2[n + 1], T2[n + 1], us[n + 1])
    <3>1. CASE n = L
      <4>1. u[L + 1] = op
        BY <1>1, <1>2 DEF Longer
      <4>2. H2[L] = h1 /\ T2[L] = at1
        BY <1>2, <1>4, <1>13
      <4> QED
        BY <1>11, <1>13, <1>14, <3>1, <4>1, <4>2
    <3>2. CASE n # L
      <4>1. n \in 0 .. L /\ n + 1 \in 0 .. L /\ n + 1 \in 1 .. L /\ n \in 0 .. Len(t) - 1
        BY <1>2, <3>2
      <4>2. Leads(H[n], T[n], t[n + 1], H[n + 1], T[n + 1], gs[n + 1])
        BY <1>3, <4>1 DEF Replay
      <4>3. u[n + 1] = t[n + 1]
        BY <1>1, <1>2, <4>1 DEF Longer
      <4>4. H2[n] = H[n] /\ T2[n] = T[n] /\ H2[n + 1] = H[n + 1] /\ T2[n + 1] = T[n + 1]
        BY <1>13, <4>1
      <4>5. us[n + 1] = gs[n + 1]
        BY <1>14, <4>1
      <4> QED
        BY <4>2, <4>3, <4>4, <4>5
    <3> QED
      BY <3>1, <3>2
  <2> QED
    BY <2>1, <2>2 DEF Replay
<1>16. Paired(H2[L + 1], T2[L + 1], g2, bt2, Holding(u, L + 1))
  BY <1>5, <1>10, <1>13
<1> QED
  BY <1>2, <1>14, <1>15, <1>16 DEF Accords

(* A run over whatever is in memory starts as one over new memory.         *)
LEMMA StartAccords ==
    ASSUME 16 + CHUNKSIZE <= MAX_HEAP, package \in {"mm", "mm-firstfit"},
           NEW h \in Heaps, ListOK(package, h), NEW g, g = Started(h),
           NEW at2 \in [Ids -> Nat], NEW t, NEW gs, \E H, T : Replay(t, gs, H, T)
    PROVE  g.ret = 0 /\ Accords(t, gs, 0, g, at2)
<1>1. PICK H, T : Replay(t, gs, H, T)
  OBVIOUS
<1>2. PICK h1, at1, zero : h1 = H[0] /\ at1 = T[0] /\ zero = [i \in Ids |-> 0]
  OBVIOUS
<1>3. h1 = Started(mem_init) /\ at1 = [i \in Ids |-> NULL] /\ Holding(t, 0) = zero
  <2>1. Holding(t, 0) = [i \in Ids |-> 0]
    BY HoldingFollows
  <2> QED
    BY <1>1, <1>2, <2>1 DEF Replay
<1>4. package = "mm" \/ h.free_listp = NULL
  BY DEF ListOK
<1>5. mem_init \in Heaps /\ (package = "mm" \/ mem_init.free_listp = NULL)
  BY MemoryStarts
<1>6. Fresh(g) /\ Fresh(h1)
  BY <1>3, <1>4, <1>5, PackageStarts
<1>7. Agree(h1, g)
  BY <1>3, <1>4, <1>5, StartAgrees
<1>8. \E D : Serving(h1, D, at1, zero)
  <2>1. at1 \in [Ids -> Nat]
    BY <1>3 DEF NULL
  <2> QED
    BY <1>2, <1>6, <2>1, ServingNobody
<1>9. Matched(at1, at2, zero)
  BY <1>2 DEF Matched, HeldBy
<1>10. Paired(h1, at1, g, at2, zero)
  BY <1>7, <1>8, <1>9, PairUp
<1>11. Paired(H[0], T[0], g, at2, Holding(t, 0))
  BY <1>2, <1>3, <1>10
<1>12. g.ret = 0
  BY <1>6 DEF Fresh
<1> QED
  BY <1>1, <1>11, <1>12 DEF Accords

(* The validation starts over new memory.                                  *)
LEMMA FirstAccords ==
    ASSUME 16 + CHUNKSIZE <= MAX_HEAP, package \in {"mm", "mm-firstfit"},
           NEW g, g = Started(mem_init), NEW at2 \in [Ids -> Nat]
    PROVE  Accords(<<>>, <<>>, 0, g, at2)
<1>1. PICK H, T : H = [n \in {0} |-> g] /\ T = [n \in {0} |-> [i \in Ids |-> NULL]]
  OBVIOUS
<1>2. PICK t : t = <<>> /\ Len(t) = 0
  OBVIOUS
<1>3. Replay(t, t, H, T)
  <2>1. 0 .. Len(t) - 1 = {}
    BY <1>2
  <2>2. H[0] = g /\ T[0] = [i \in Ids |-> NULL]
    BY <1>1
  <2> QED
    BY <2>1, <2>2 DEF Replay
<1>4. Fresh(g)
  BY MemoryStarts, PackageStarts
<1>5. PICK at1, zero : at1 = T[0] /\ zero = [i \in Ids |-> 0]
  OBVIOUS
<1>6. Agree(g, g)
  BY MemoryStarts, StartAgrees
<1>7. \E D : Serving(g, D, at1, zero)
  <2>1. at1 \in [Ids -> Nat]
    BY <1>1, <1>5 DEF NULL
  <2> QED
    BY <1>4, <1>5, <2>1, ServingNobody
<1>8. Matched(at1, at2, zero)
  BY <1>5 DEF Matched, HeldBy
<1>9. Paired(g, at1, g, at2, zero)
  BY <1>6, <1>7, <1>8, PairUp
<1>10. Holding(t, 0) = zero
  BY <1>5, HoldingFollows
<1>11. Paired(H[0], T[0], g, at2, Holding(t, 0))
  BY <1>1, <1>5, <1>9, <1>10
<1> QED
  BY <1>2, <1>3, <1>11 DEF Accords

(* mm_malloc's answer passes, and the block is filled.                     *)
LEMMA AllocAnswers ==
    ASSUME package \in {"mm", "mm-firstfit"}, Suited,
           NEW C, Sound(heap, C), ListOK(package, heap), blocks \in [Ids -> Nat],
           NEW i \in Ids, NEW size \in Sizes, Alloc(i, size), verdict' = "ok",
           NEW op, op = Op("a", i, size)
    PROVE  \E order, k : Answers(heap, blocks, op, order, k, heap', blocks')
<1> DEFINE said(k) == IF k.ret = NULL THEN "mm_malloc failed"
                      ELSE RangeVerdict(ranges, k, k.ret, size)
<1>1. PICK k, n : k = mm_malloc(heap, size) /\ n = Adjusted(size)
  OBVIOUS
<1>2. \/ said(k) = "ok" /\ Remember(i, k, k.ret, size, ranges)
      \/ said(k) # "ok" /\ malloc_error(said(k), k, ranges)
  BY <1>1, Zenon DEF Alloc
<1>3. k.ret # NULL /\ Remember(i, k, k.ret, size, ranges)
  BY <1>2 DEF malloc_error
<1> HIDE DEF said
<1>4. heap \in Heaps /\ size \in Nat \ {0}
  BY SizesAreWords DEF Sound, Tiling, Bounds
<1>5. \/ Serves(heap, InUse(heap, C), k, n) /\ ListOK(package, k) /\ Granted(heap, C, k, n)
      \/ Full(heap, C, n) /\ Returning(heap, k, NULL)
  BY <1>1, <1>4, PackageAllocates
<1>6. Serves(heap, InUse(heap, C), k, n)
  <2>1. Returning(heap, k, NULL) => k.ret = NULL
    BY <1>4 DEF Returning, Heaps
  <2> QED
    BY <1>3, <1>5, <2>1
<1>7. k.ret \in Nat /\ k \in Heaps
  BY <1>6 DEF Serves, Sound, Tiling, Bounds
<1>8. PICK f, bt : f = heap' /\ bt = blocks'
  OBVIOUS
<1>9. f = memset(k, k.ret, i, size) /\ bt = [blocks EXCEPT ![i] = k.ret]
  BY <1>3, <1>8 DEF Remember
<1>10. f.ret = k.ret
  BY <1>7, <1>9, MemsetWrites
<1>11. ASSUME NEW g1, Agree(g1, k)
       PROVE  Agree(g1, f)
  BY <1>1, <1>6, <1>9, <1>11, MemsetAgrees
<1>12. op.type = "a" /\ op.index = i /\ op.size = size
  BY DEF Op
<1>13. k = Reply(op, heap, blocks, "up")
  BY <1>1, <1>12 DEF Reply
<1>14. ~Fails(op, k)
  BY <1>3, <1>7 DEF Fails, Exited
<1>15. Takes(op, blocks, f, bt)
  BY <1>9, <1>10, <1>12 DEF Takes
<1>16. Answers(heap, blocks, op, "up", k, f, bt)
  BY <1>11, <1>12, <1>13, <1>14, <1>15 DEF Answers
<1> QED
  BY <1>8, <1>16

(* So does mm_realloc's, whichever way memcpy copies.                      *)
LEMMA ReallocAnswers ==
    ASSUME package \in {"mm", "mm-firstfit"}, Suited,
           NEW C, Sound(heap, C), ListOK(package, heap), blocks \in [Ids -> Nat],
           NEW i \in Ids, NEW size \in Sizes, NEW order \in Memcpy,
           blocks[i] \in InUse(heap, C) \ {heap_listp},
           Realloc(i, size, order), verdict' = "ok", NEW op, op = Op("r", i, size)
    PROVE  \E k : Answers(heap, blocks, op, order, k, heap', blocks')
<1>1. PICK k, n, ptr : /\ ptr = blocks[i] /\ k = mm_realloc(heap, ptr, size, order)
                       /\ n = Adjusted(size)
  OBVIOUS
<1>2. PICK rs : rs = remove_range(ranges, ptr)
  OBVIOUS
<1>3. PICK said : said = ReallocVerdict(i, k, size, rs)
  OBVIOUS
<1>4. \/ said = "ok" /\ Remember(i, k, k.ret, size, rs)
      \/ said # "ok" /\ malloc_error(said, k, IF k.ret \in {NULL, Exited} THEN ranges ELSE rs)
  BY <1>1, <1>2, <1>3, Zenon DEF Realloc
<1>5. said = "ok" /\ Remember(i, k, k.ret, size, rs)
  BY <1>4 DEF malloc_error
<1>6. k.ret \notin {NULL, Exited}
  BY <1>3, <1>5 DEF ReallocVerdict
<1>7. heap \in Heaps /\ ptr \in InUse(heap, C) \ {heap_listp}
  BY <1>1 DEF Sound, Tiling, Bounds
<1>8. \/ /\ Resized(heap, C, ptr, size, n, k)
         /\ Adapted(heap, C, ptr, size, n, k) \/ Resettled(heap, C, ptr, n, k)
      \/ NoPlace(heap, C, ptr, n) /\ \E r \in {NULL, Exited} : Returning(heap, k, r)
  BY <1>1, <1>7, PackageReallocates
<1>9. Serves(heap, InUse(heap, C) \ {ptr}, k, n)
  <2>1. ~ \E r \in {NULL, Exited} : Returning(heap, k, r)
    BY <1>6, <1>7 DEF Returning, Heaps
  <2> QED
    BY <1>8, <2>1 DEF Resized
<1>10. k.ret \in Nat /\ k \in Heaps
  BY <1>9 DEF Serves, Sound, Tiling, Bounds
<1>11. PICK f, bt : f = heap' /\ bt = blocks'
  OBVIOUS
<1>12. f = memset(k, k.ret, i, size) /\ bt = [blocks EXCEPT ![i] = k.ret]
  BY <1>5, <1>11 DEF Remember
<1>13. f.ret = k.ret
  BY <1>10, <1>12, MemsetWrites
<1>14. ASSUME NEW g1, Agree(g1, k)
       PROVE  Agree(g1, f)
  <2>1. PICK S : S = InUse(heap, C) \ {ptr} /\ Serves(heap, S, k, n)
    BY <1>9
  <2> QED
    BY <1>1, <1>12, <1>14, <2>1, MemsetAgrees
<1>15. op.type = "r" /\ op.index = i /\ op.size = size
  BY DEF Op
<1>16. k = Reply(op, heap, blocks, order)
  BY <1>1, <1>15 DEF Reply
<1>17. ~Fails(op, k)
  BY <1>6 DEF Fails
<1>18. Takes(op, blocks, f, bt)
  BY <1>12, <1>13, <1>15 DEF Takes
<1>19. Answers(heap, blocks, op, order, k, f, bt)
  BY <1>14, <1>16, <1>17, <1>18 DEF Answers
<1> QED
  BY <1>11, <1>19

(* mm_free has no answer, and no block is filled.                          *)
LEMMA FreeAnswers ==
    ASSUME package \in {"mm", "mm-firstfit"}, Suited, blocks \in [Ids -> Nat],
           NEW i \in Ids, Free(i), NEW op, op = Op("f", i, 0)
    PROVE  \E order, k : Answers(heap, blocks, op, order, k, heap', blocks')
<1>1. PICK f, bt : f = heap' /\ bt = blocks'
  OBVIOUS
<1>2. f = mm_free(heap, blocks[i]) /\ bt = [blocks EXCEPT ![i] = NULL]
  BY <1>1 DEF Free
<1>3. op.type = "f" /\ op.index = i
  BY DEF Op
<1>4. f = Reply(op, heap, blocks, "up") /\ ~Fails(op, f)
  BY <1>2, <1>3 DEF Reply, Fails
<1>5. Takes(op, blocks, f, bt)
  BY <1>2, <1>3 DEF Takes, NULL
<1>6. Answers(heap, blocks, op, "up", f, f, bt)
  BY <1>3, <1>4, <1>5 DEF Answers
<1> QED
  BY <1>1, <1>6

-----------------------------------------------------------------------------
(* The invariant of the evaluation.                                        *)

(* The driver is linked and set up. *)
Setting == package \in Packages /\ Suited /\ method \in Methods

(* What the validation got is what it asked for. *)
Traced ==
    /\ LegalTrace(trace) /\ Len(trace) <= Longest
    /\ given \in Seq([ret : Int, brk : Nat]) /\ Len(given) = Len(trace)
    /\ done \in 0 .. Len(trace)

(* The runs are timed until there is a score. *)
Timed ==
    /\ phase \in {"valid", "util", "fsecs", "speed", "scored", "aborted"}
    /\ runs \in 0 .. Runs /\ tmeas \in Int
    /\ phase # "scored" => runs < Runs

(* The driver is in order, and who has a block is who holds something.     *)
Validating ==
    /\ Inductive /\ done = 0
    /\ verdict = "ok" => LiveOf(blocks) = HeldBy(Holding(trace, Len(trace)))

(* After the n-th request and before, m is the most that was held. *)
IsMost(m, n) ==
    (\E k \in 0 .. n : Demand(k) = m) /\ \A k \in 0 .. n : Demand(k) <= m

(* The totals are numbers. *)
Totals ==
    /\ total_size \in Nat /\ max_total_size \in Nat
    /\ util.hwm \in Nat /\ util.heapsize \in Nat

(* What eval_mm_util has counted so far. *)
Counted ==
    /\ block_sizes \in [Ids -> Sizes \cup {0}]
    /\ \A i \in HeldBy(Holding(trace, done)) : block_sizes[i] = Holding(trace, done)[i]
    /\ total_size = Demand(done) /\ IsMost(max_total_size, done)
    /\ max_total_size + 16 <= heap.mem_brk - mem_start_brk

(* What it has returned. *)
Utilized == IsMost(util.hwm, Len(trace)) /\ util.hwm < util.heapsize

(* What holds of the evaluation of a trace, phase by phase. *)
EvalIInv ==
    /\ ScoreIInv /\ Setting /\ Traced /\ Timed /\ Totals
    /\ phase = "valid" => Validating
    /\ phase \in {"util", "fsecs", "speed"} => Replaying
    /\ phase = "util" => Counted
    /\ phase \in {"fsecs", "speed", "scored"} => Utilized

(* The demand is a sum. *)
LEMMA DemandIsSum ==
    ASSUME NEW n
    PROVE  Demand(n) = SumOf(Holding(trace, n), Ids)
BY DEF Demand, Total, SumOf

(* It is a number. *)
LEMMA DemandIsNumber ==
    ASSUME LegalTrace(trace), NEW n \in 0 .. Len(trace)
    PROVE  Demand(n) \in Nat
<1>1. PICK held : held = Holding(trace, n)
  OBVIOUS
<1>2. held \in [Ids -> Sizes \cup {0}]
  BY <1>1 DEF LegalTrace
<1>3. \A i \in Ids : held[i] \in Nat
  BY <1>2, SizesAreWords
<1>4. SumOf(held, Ids) \in Nat
  BY <1>3, IdsAreFinite, SumIsNumber
<1> QED
  BY <1>1, <1>4, DemandIsSum

(* The most is the maximum. *)
LEMMA MostIsMax ==
    ASSUME LegalTrace(trace), NEW n \in 0 .. Len(trace), NEW m, IsMost(m, n)
    PROVE  m = Max({Demand(k) : k \in 0 .. n})
<1> DEFINE ds == {Demand(k) : k \in 0 .. n}
<1>1. ASSUME NEW k \in 0 .. n
      PROVE  Demand(k) \in Nat
  <2>1. k \in 0 .. Len(trace)
    BY DEF LegalTrace
  <2> QED
    BY <2>1, DemandIsNumber
<1>2. m \in ds /\ ds \subseteq Nat /\ \A d \in ds : d <= m
  BY <1>1 DEF IsMost
<1> HIDE DEF ds
<1>3. Max(ds) \in ds /\ \A d \in ds : Max(ds) >= d
  BY <1>2 DEF Max
<1>4. m \in Nat /\ Max(ds) \in Nat /\ m <= Max(ds) /\ Max(ds) <= m
  BY <1>2, <1>3
<1>5. m = Max(ds)
  BY <1>4
<1> QED
  BY <1>5 DEF ds

(* The larger of two numbers. *)
LEMMA MaxOfTwo ==
    ASSUME NEW a \in Nat, NEW b \in Nat
    PROVE  Max({a, b}) \in {a, b} /\ a <= Max({a, b}) /\ b <= Max({a, b})
<1>1. \E m \in {a, b} : \A d \in {a, b} : m >= d
  BY a >= b \/ b >= a, a >= a, b >= b
<1> QED
  BY <1>1 DEF Max

(* The next request adds to what is known of the most.                     *)
LEMMA MostGrows ==
    ASSUME LegalTrace(trace), NEW n \in 0 .. Len(trace) - 1, NEW m, IsMost(m, n)
    PROVE  LET l == Max({m, Demand(n + 1)})
           IN  IsMost(l, n + 1) /\ l \in Nat /\ l \in {m, Demand(n + 1)}
<1>0. Len(trace) \in Nat /\ n \in 0 .. Len(trace) /\ n + 1 \in 0 .. Len(trace) /\ n \in Nat
  BY DEF LegalTrace
<1>1. PICK d : d = Demand(n + 1)
  OBVIOUS
<1>2. d \in Nat
  BY <1>0, <1>1, DemandIsNumber
<1>3. m \in Nat
  <2>1. PICK k \in 0 .. n : Demand(k) = m
    BY DEF IsMost
  <2>2. k \in 0 .. Len(trace)
    BY <1>0
  <2> QED
    BY <2>1, <2>2, DemandIsNumber
<1>4. PICK l : l = Max({m, d})
  OBVIOUS
<1>5. l \in {m, d} /\ m <= l /\ d <= l /\ l \in Nat
  BY <1>2, <1>3, <1>4, MaxOfTwo
<1>6. \E k \in 0 .. n + 1 : Demand(k) = l
  <2>1. CASE l = d
    <3>1. n + 1 \in 0 .. n + 1
      BY <1>0
    <3> QED
      BY <1>1, <2>1, <3>1
  <2>2. CASE l = m
    <3>1. PICK k \in 0 .. n : Demand(k) = m
      BY DEF IsMost
    <3>2. k \in 0 .. n + 1
      BY <1>0
    <3> QED
      BY <2>2, <3>1, <3>2
  <2> QED
    BY <1>5, <2>1, <2>2
<1>7. ASSUME NEW k \in 0 .. n + 1
      PROVE  Demand(k) <= l
  <2>1. CASE k = n + 1
    BY <1>1, <1>5, <2>1
  <2>2. CASE k \in 0 .. n
    <3>1. Demand(k) <= m /\ Demand(k) \in Nat
      <4>1. k \in 0 .. Len(trace)
        BY <1>0, <2>2
      <4>2. Demand(k) <= m
        BY <2>2 DEF IsMost
      <4> QED
        BY <4>1, <4>2, DemandIsNumber
    <3> QED
      BY <1>3, <1>5, <3>1
  <2> QED
    BY <1>0, <2>1, <2>2
<1>8. IsMost(l, n + 1)
  BY <1>6, <1>7 DEF IsMost
<1> QED
  BY <1>1, <1>4, <1>5, <1>8

(* Where the trace stays, so does what is said of it. *)
LEMMA TraceStays ==
    ASSUME UNCHANGED <<trace, given, method>>, LegalTrace(trace), Len(trace) <= Longest,
           given \in Seq([ret : Int, brk : Nat]), Len(given) = Len(trace),
           done' \in 0 .. Len(trace)
    PROVE  Traced' /\ (Utilized /\ util' = util => Utilized')
<1>1. trace' = trace /\ given' = given /\ method' = method
  OBVIOUS
<1>2. \A k : Demand(k)' = Demand(k)
  <2> TAKE k
  <2>1. Demand(k)' = Total(Holding(trace', k))
    BY DEF Demand
  <2>2. Demand(k) = Total(Holding(trace, k))
    BY DEF Demand
  <2> QED
    BY <1>1, <2>1, <2>2
<1>3. \A m, n : IsMost(m, n) => IsMost(m, n)'
  BY <1>2 DEF IsMost
<1>4. Utilized /\ util' = util => Utilized'
  BY <1>1, <1>3 DEF Utilized
<1>5. Longest' = Longest
  BY <1>1 DEF Longest
<1> QED
  BY <1>1, <1>4, <1>5 DEF Traced

-----------------------------------------------------------------------------
(* The validation.                                                         *)

(* The driver starts with an empty trace. *)
LEMMA EvaluationStarts ==
    ASSUME 16 + CHUNKSIZE <= MAX_HEAP
    PROVE  EvalInit /\ Suited => EvalIInv
<1> SUFFICES ASSUME EvalInit, Suited
             PROVE  EvalIInv
  OBVIOUS
<1>1. Init /\ Inductive
  BY StartsInOrder DEF EvalInit
<1>2. ScoreIInv
  BY FcycInitIsGood DEF EvalInit, ScoreIInv
<1>3. Setting
  BY <1>1 DEF EvalInit, Setting, Inductive
<1>4. trace = <<>> /\ Len(trace) = 0 /\ given = <<>> /\ done = 0
  BY DEF EvalInit
<1>5. LegalTrace(trace) /\ Holding(trace, Len(trace)) = [i \in Ids |-> 0]
  BY <1>4, EmptyIsLegal
<1>6. Traced
  <2>1. Longest \in Nat
    BY EvaluationAssumption DEF Longest
  <2>2. given \in Seq([ret : Int, brk : Nat]) /\ Len(given) = 0
    BY <1>4
  <2> QED
    BY <1>4, <1>5, <2>1, <2>2 DEF Traced
<1>7. Timed /\ Totals
  BY EvaluationAssumption DEF EvalInit, Timed, Totals
<1>8. Validating
  <2>1. LiveOf(blocks) = {}
    BY <1>1 DEF Init, LiveOf
  <2>2. HeldBy(Holding(trace, Len(trace))) = {}
    BY <1>5 DEF HeldBy
  <2> QED
    BY <1>1, <1>4, <2>1, <2>2 DEF Validating
<1>9. phase = "valid"
  BY DEF EvalInit
<1> QED
  BY <1>2, <1>3, <1>6, <1>7, <1>8, <1>9 DEF EvalIInv

(* The validation has made the request op. *)
Recorded(op) ==
    /\ LegalOp(Holding(trace, Len(trace)), op) /\ op = Op(op.type, op.index, op.size)
    /\ trace' = Append(trace, op)
    /\ verdict' = "ok" =>
          LiveOf(blocks') = HeldBy([Holding(trace, Len(trace)) EXCEPT ![op.index] = op.size])

(* Who has a block at at1 is who holds something. *)
Matching(at1, held) ==
    /\ at1 \in [Ids -> Nat] /\ held \in [Ids -> Sizes \cup {0}]
    /\ LiveOf(at1) = HeldBy(held)

(* The number i gets the address p, and holds size bytes. *)
Changing(at1, held, i, p, size, bt, now1) ==
    /\ i \in Ids /\ (p = NULL <=> size = 0)
    /\ bt = [at1 EXCEPT ![i] = p] /\ now1 = [held EXCEPT ![i] = size]

(* A number that gets an address has a block, one that gets NULL has none. *)
LEMMA LiveFollows ==
    ASSUME NEW at1, NEW held, Matching(at1, held), NEW i, NEW p, NEW size, NEW bt, NEW now1,
           Changing(at1, held, i, p, size, bt, now1)
    PROVE  LiveOf(bt) = HeldBy(now1)
<1>1. bt[i] = p /\ now1[i] = size /\ i \in Ids /\ (p = NULL <=> size = 0)
  BY DEF Matching, Changing
<1>2. \A j \in Ids \ {i} : bt[j] = at1[j] /\ now1[j] = held[j]
  BY DEF Matching, Changing
<1>3. \A j \in Ids : at1[j] # NULL <=> held[j] # 0
  BY DEF LiveOf, HeldBy, Matching
<1>4. \A j \in Ids : bt[j] # NULL <=> now1[j] # 0
  BY <1>1, <1>2, <1>3
<1> QED
  BY <1>4 DEF LiveOf, HeldBy

(* Every step of the validation records the request it makes. *)
LEMMA ValidateRecords ==
    ASSUME Validating, Traced, Setting, Validate
    PROVE  \E op : Recorded(op)
<1>1. Inductive /\ package' = package /\ LegalTrace(trace)
  BY DEF Validating, Validate, Traced
<1>2. PICK C : Order(heap, C, blocks, block_sizes, ranges, verdict)
  BY <1>1 DEF Inductive, InOrder
<1>3. LiveOf(blocks) = Live /\ blocks \in [Ids -> Nat]
  <2>1. LiveOf(blocks) = Live
    BY <1>2, OrderHas
  <2>2. ClientHas(heap, C, blocks, block_sizes, LiveOf(blocks), {})
    BY <1>2 DEF Order
  <2> QED
    BY <2>1, <2>2 DEF ClientHas
<1>4. PICK held : held = Holding(trace, Len(trace))
  OBVIOUS
<1>5. held \in [Ids -> Sizes \cup {0}]
  <2>1. Len(trace) \in 0 .. Len(trace)
    BY <1>1 DEF LegalTrace
  <2> QED
    BY <1>1, <1>4, <2>1 DEF LegalTrace
<1>6. /\ verdict = "ok" => LiveOf(blocks) = HeldBy(held)
      /\ verdict = "ok" => Matching(blocks, held)
  BY <1>3, <1>4, <1>5 DEF Validating, Matching
<1>7. ASSUME NEW i \in Ids, NEW size \in Sizes, Alloc(i, size),
             trace' = Append(trace, Op("a", i, size))
      PROVE  \E op : Recorded(op)
  <2>1. PICK op : op = Op("a", i, size)
    OBVIOUS
  <2>2. op.type = "a" /\ op.index = i /\ op.size = size /\ op = Op(op.type, op.index, op.size)
    BY <2>1 DEF Op
  <2>3. verdict = "ok" /\ i \notin LiveOf(blocks) /\ held[i] = 0
    <3>1. verdict = "ok" /\ i \notin LiveOf(blocks)
      BY <1>3, <1>7 DEF Alloc
    <3> QED
      BY <1>6, <3>1 DEF HeldBy
  <2>4. LegalOp(held, op)
    BY <2>2, <2>3 DEF LegalOp
  <2>5. PICK n : n = Adjusted(size)
    OBVIOUS
  <2>6. (\E k : Hands(i, k)) \/ Errs
    BY <1>1, <1>2, <1>7, <2>5, AllocKeeps
  <2>7. PICK now1 : now1 = [held EXCEPT ![i] = size]
    OBVIOUS
  <2>8. verdict' = "ok" => LiveOf(blocks') = HeldBy(now1)
    <3> SUFFICES ASSUME verdict' = "ok"
                 PROVE  LiveOf(blocks') = HeldBy(now1)
      OBVIOUS
    <3>1. PICK p : blocks' = [blocks EXCEPT ![i] = p] /\ p # NULL
      BY <2>6 DEF Hands, Given, Errs
    <3>2. p = NULL <=> size = 0
      BY <3>1, SizesAreWords
    <3>3. PICK bt : bt = blocks'
      OBVIOUS
    <3>4. Matching(blocks, held) /\ Changing(blocks, held, i, p, size, bt, now1)
      BY <1>6, <2>3, <2>7, <3>1, <3>2, <3>3 DEF Changing
    <3>5. LiveOf(bt) = HeldBy(now1)
      BY <3>4, LiveFollows
    <3> QED
      BY <3>3, <3>5
  <2> QED
    BY <1>4, <1>7, <2>1, <2>2, <2>4, <2>7, <2>8 DEF Recorded
<1>8. ASSUME NEW i \in Ids, NEW size \in Sizes, NEW order \in Memcpy, Realloc(i, size, order),
             trace' = Append(trace, Op("r", i, size))
      PROVE  \E op : Recorded(op)
  <2>1. PICK op : op = Op("r", i, size)
    OBVIOUS
  <2>2. op.type = "r" /\ op.index = i /\ op.size = size /\ op = Op(op.type, op.index, op.size)
    BY <2>1 DEF Op
  <2>3. verdict = "ok" /\ i \in LiveOf(blocks) /\ held[i] # 0
    <3>1. verdict = "ok" /\ i \in LiveOf(blocks)
      BY <1>3, <1>8 DEF Realloc
    <3> QED
      BY <1>6, <3>1 DEF HeldBy
  <2>4. LegalOp(held, op)
    BY <2>2, <2>3 DEF LegalOp
  <2>5. PICK n, ptr : n = Adjusted(size) /\ ptr = blocks[i]
    OBVIOUS
  <2>6. (\E k : Hands(i, k)) \/ Errs
    BY <1>1, <1>2, <1>8, <2>5, ReallocKeeps
  <2>7. PICK now1 : now1 = [held EXCEPT ![i] = size]
    OBVIOUS
  <2>8. verdict' = "ok" => LiveOf(blocks') = HeldBy(now1)
    <3> SUFFICES ASSUME verdict' = "ok"
                 PROVE  LiveOf(blocks') = HeldBy(now1)
      OBVIOUS
    <3>1. PICK p : blocks' = [blocks EXCEPT ![i] = p] /\ p # NULL
      BY <2>6 DEF Hands, Given, Errs
    <3>2. p = NULL <=> size = 0
      BY <3>1, SizesAreWords
    <3>3. PICK bt : bt = blocks'
      OBVIOUS
    <3>4. Matching(blocks, held) /\ Changing(blocks, held, i, p, size, bt, now1)
      BY <1>6, <2>3, <2>7, <3>1, <3>2, <3>3 DEF Changing
    <3>5. LiveOf(bt) = HeldBy(now1)
      BY <3>4, LiveFollows
    <3> QED
      BY <3>3, <3>5
  <2> QED
    BY <1>4, <1>8, <2>1, <2>2, <2>4, <2>7, <2>8 DEF Recorded
<1>9. ASSUME NEW i \in Ids, Free(i), trace' = Append(trace, Op("f", i, 0))
      PROVE  \E op : Recorded(op)
  <2>1. PICK op : op = Op("f", i, 0)
    OBVIOUS
  <2>2. op.type = "f" /\ op.index = i /\ op.size = 0 /\ op = Op(op.type, op.index, op.size)
    BY <2>1 DEF Op
  <2>3. verdict = "ok" /\ i \in LiveOf(blocks) /\ held[i] # 0
    <3>1. verdict = "ok" /\ i \in LiveOf(blocks)
      BY <1>3, <1>9 DEF Free
    <3> QED
      BY <1>6, <3>1 DEF HeldBy
  <2>4. LegalOp(held, op)
    BY <2>2, <2>3 DEF LegalOp
  <2>5. PICK p, size : p = NULL /\ size = 0
    OBVIOUS
  <2>6. PICK bt, now1 : bt = [blocks EXCEPT ![i] = p] /\ now1 = [held EXCEPT ![i] = size]
    OBVIOUS
  <2>7. blocks' = bt
    BY <1>9, <2>5, <2>6 DEF Free
  <2>8. LiveOf(bt) = HeldBy(now1)
    <3>1. Matching(blocks, held) /\ Changing(blocks, held, i, p, size, bt, now1)
      BY <1>6, <2>3, <2>5, <2>6 DEF Changing
    <3> QED
      BY <3>1, LiveFollows
  <2> QED
    BY <1>4, <1>9, <2>1, <2>2, <2>4, <2>5, <2>6, <2>7, <2>8 DEF Recorded
<1> QED
  BY <1>7, <1>8, <1>9 DEF Validate

(* So the validation keeps the invariant. *)
LEMMA ValidateKeeps ==
    ASSUME 16 + CHUNKSIZE <= MAX_HEAP, EvalIInv, ScoreIInv', Validate
    PROVE  EvalIInv'
<1>1. /\ phase = "valid" /\ phase' = phase /\ package' = package /\ method' = method
      /\ UNCHANGED <<done, total_size, max_total_size, util, runs, tmeas>>
      /\ Len(trace) < Longest /\ given' = Append(given, Answer(heap'))
  BY DEF Validate, replayVars, timerVars
<1>2. Validating /\ Traced /\ Setting /\ Timed /\ Totals
  BY <1>1 DEF EvalIInv
<1>3. PICK op : Recorded(op)
  BY <1>2, ValidateRecords
<1>4. Inductive'
  <2>1. Next
    BY <1>1 DEF Validate, Next
  <2> QED
    BY <1>2, <2>1, StepsKeepOrder DEF Validating
<1>5. Setting'
  BY <1>1, <1>2 DEF Setting, Suited
<1>6. Timed' /\ Totals'
  BY <1>1, <1>2 DEF Timed, Totals
<1>7. PICK u : u = trace'
  OBVIOUS
<1>8. OneMore(trace, op, u)
  BY <1>2, <1>3, <1>7 DEF OneMore, Recorded, Traced
<1>9. LegalTrace(u) /\ Longer(trace, op, u)
  BY <1>8, OneMoreIsLegal
<1>10. Traced'
  <2>1. Len(u) = Len(trace) + 1 /\ Len(trace) \in Nat
    BY <1>9 DEF Longer
  <2>2. Longest \in Nat /\ Longest' = Longest
    BY <1>1, EvaluationAssumption DEF Longest
  <2>3. Answer(heap') \in [ret : Int, brk : Nat]
    <3>1. (heap \in Heaps)'
      BY <1>4 DEF Inductive, InOrder, Order, ClientHas, Sound, Tiling, Bounds
    <3> QED
      BY <3>1 DEF Answer, Heaps
  <2>4. PICK a : a = Answer(heap') /\ a \in [ret : Int, brk : Nat]
    BY <2>3
  <2>5. given' \in Seq([ret : Int, brk : Nat]) /\ Len(given') = Len(given) + 1
    BY <1>1, <1>2, <2>4 DEF Traced
  <2>6. done' = 0 /\ done' \in 0 .. Len(u)
    BY <1>1, <1>2, <2>1 DEF Validating
  <2>7. Len(given') = Len(u)
    BY <1>2, <2>1, <2>5 DEF Traced
  <2>8. Len(u) <= Longest
    BY <1>1, <2>1, <2>2
  <2> QED
    BY <1>7, <1>9, <2>2, <2>5, <2>6, <2>7, <2>8 DEF Traced
<1>11. Validating'
  <2>1. done' = 0
    BY <1>1, <1>2 DEF Validating
  <2>2. Holding(u, Len(u)) = [Holding(trace, Len(trace)) EXCEPT ![op.index] = op.size]
    BY <1>9 DEF Longer
  <2>3. verdict' = "ok" => LiveOf(blocks') = HeldBy(Holding(u, Len(u)))
    BY <1>3, <2>2 DEF Recorded
  <2> QED
    BY <1>4, <1>7, <2>1, <2>3 DEF Validating
<1> QED
  BY <1>1, <1>5, <1>6, <1>10, <1>11 DEF EvalIInv

-----------------------------------------------------------------------------
(* The runs.                                                               *)

(* The heap that serves the client is a heap, and the addresses are numbers. *)
LEMMA ReplayingFacts ==
    ASSUME Replaying
    PROVE  /\ heap \in Heaps /\ ListOK(package, heap) /\ blocks \in [Ids -> Nat]
           /\ heap.mem_brk \in Nat
BY DEF Replaying, Serving, Sound, Tiling, Bounds, Heaps

(* A run of f starts. *)
LEMMA RunStarts ==
    ASSUME 16 + CHUNKSIZE <= MAX_HEAP, Setting, Traced, heap \in Heaps, ListOK(package, heap),
           blocks \in [Ids -> Nat], UNCHANGED <<package, blocks, trace, given, method>>,
           NEW p, Restart(p)
    PROVE  /\ Replaying' /\ phase' = p /\ done' = 0 /\ Traced' /\ Setting'
           /\ Utilized /\ util' = util => Utilized'
           /\ heap'.mem_brk = mem_start_brk + 16 + CHUNKSIZE
<1>1. package \in {"mm", "mm-firstfit"}
  BY PackagesAssumption DEF Setting
<1>2. /\ Replaying' /\ phase' = p /\ done' = 0
      /\ heap'.mem_brk = mem_start_brk + 16 + CHUNKSIZE
  BY <1>1, RestartServes
<1>3. done' \in 0 .. Len(trace)
  BY <1>2 DEF Traced
<1>4. Traced' /\ (Utilized /\ util' = util => Utilized')
  BY <1>3, TraceStays DEF Traced
<1>5. Setting'
  BY DEF Setting, Suited
<1> QED
  BY <1>2, <1>4, <1>5

(* One request of a run, in which the client gets what he asks for.        *)
LEMMA RunGoesOn ==
    ASSUME Setting, Traced, Replaying, done < Len(trace),
           UNCHANGED <<package, trace, given, method>>,
           NEW order \in Memcpy, NEW k, k = Served(order), Proceed(k)
    PROVE  /\ Traced' /\ Setting' /\ (Utilized /\ util' = util => Utilized')
           /\ done' = done + 1
           /\ \/ phase' = "aborted"
              \/ phase' = phase /\ Replaying' /\ heap.mem_brk <= heap'.mem_brk
           /\ LegalOp(Holding(trace, done), Request)
           /\ Holding(trace, done + 1) =
                 [Holding(trace, done) EXCEPT ![Request.index] = Request.size]
<1>1. package \in {"mm", "mm-firstfit"} /\ Suited
  BY PackagesAssumption DEF Setting
<1>2. LegalTrace(trace) /\ Len(trace) \in Nat /\ done \in 0 .. Len(trace) - 1
  BY DEF Traced, LegalTrace
<1>3. PICK op, held : op = Request /\ held = Holding(trace, done)
  OBVIOUS
<1>4. LegalOp(held, op)
  BY <1>2, <1>3 DEF LegalTrace, Request
<1>5. PICK C : Serving(heap, C, blocks, held) /\ ListOK(package, heap)
  BY <1>3 DEF Replaying
<1>6. \/ phase' = app_error
      \/ /\ phase' = phase /\ ListOK(package, heap') /\ heap.mem_brk <= heap'.mem_brk
         /\ \E D : Serving(heap', D, blocks', [held EXCEPT ![op.index] = op.size])
  BY <1>1, <1>3, <1>4, <1>5, ProceedServes
<1>7. done' = done + 1 /\ done' \in 0 .. Len(trace)
  BY <1>2 DEF Proceed
<1>8. Holding(trace, done + 1) = [held EXCEPT ![op.index] = op.size]
  <2>1. done \in Nat
    BY <1>2
  <2>2. PICK n : n = done
    OBVIOUS
  <2>3. Holding(trace, n + 1) = [Holding(trace, n) EXCEPT ![trace[n + 1].index] = trace[n + 1].size]
    BY <2>1, <2>2, HoldingFollows
  <2> QED
    BY <1>3, <2>2, <2>3 DEF Request
<1>9. Traced' /\ (Utilized /\ util' = util => Utilized')
  BY <1>7, TraceStays DEF Traced
<1>10. Setting'
  BY DEF Setting, Suited
<1>11. (\E D : Serving(heap', D, blocks', [held EXCEPT ![op.index] = op.size]))
         /\ ListOK(package, heap') => Replaying'
  <2>1. PICK now1 : now1 = [held EXCEPT ![op.index] = op.size]
    OBVIOUS
  <2>2. Holding(trace', done') = now1
    BY <1>7, <1>8, <2>1
  <2>3. (\E D : Serving(heap', D, blocks', now1)) /\ ListOK(package, heap') => Replaying'
    BY <2>2 DEF Replaying
  <2> QED
    BY <2>1, <2>3
<1> QED
  BY <1>3, <1>4, <1>6, <1>7, <1>8, <1>9, <1>10, <1>11 DEF app_error

(* The run for the utilization starts with nothing counted. *)
LEMMA EvaluateKeeps ==
    ASSUME 16 + CHUNKSIZE <= MAX_HEAP, EvalIInv, ScoreIInv', Evaluate
    PROVE  EvalIInv'
<1>1. /\ phase = "valid" /\ verdict = "ok" /\ Restart("util")
      /\ total_size' = 0 /\ max_total_size' = 0
      /\ UNCHANGED <<package, block_sizes, blocks, method, trace, given, util, runs, tmeas>>
  BY DEF Evaluate, driverVars, timerVars
<1>2. Validating /\ Traced /\ Setting /\ Timed /\ Totals
  BY <1>1 DEF EvalIInv
<1>3. /\ heap \in Heaps /\ ListOK(package, heap) /\ blocks \in [Ids -> Nat]
      /\ block_sizes \in [Ids -> Sizes \cup {0}]
  BY <1>2 DEF Validating, Inductive, InOrder, Order, ClientHas, Sound, Tiling, Bounds
<1>4. /\ Replaying' /\ phase' = "util" /\ done' = 0 /\ Traced' /\ Setting'
      /\ heap'.mem_brk = mem_start_brk + 16 + CHUNKSIZE
  BY <1>1, <1>2, <1>3, RunStarts
<1>5. Timed' /\ Totals'
  BY <1>1, <1>2, <1>4 DEF Timed, Totals
<1>6. Counted'
  <2>1. Holding(trace', 0) = [i \in Ids |-> 0]
    BY HoldingFollows
  <2>2. PICK zero : zero = [i \in Ids |-> 0]
    OBVIOUS
  <2>3. Total(zero) = 0
    <3>1. \A i \in Ids : zero[i] \in Nat /\ zero[i] = 0
      BY <2>2
    <3>2. SumOf(zero, Ids) = 0
      BY <3>1, IdsAreFinite, SumIsNumber
    <3> QED
      BY <3>2 DEF Total, SumOf
  <2>4. Demand(0)' = 0
    <3>1. Demand(0)' = Total(Holding(trace', 0))
      BY DEF Demand
    <3> QED
      BY <2>1, <2>2, <2>3, <3>1
  <2>5. IsMost(0, 0)'
    <3>1. \A k \in 0 .. 0 : k = 0
      OBVIOUS
    <3> QED
      BY <2>4, <3>1 DEF IsMost
  <2>6. HeldBy(Holding(trace', 0)) = {}
    BY <2>1 DEF HeldBy
  <2>7. max_total_size' + 16 <= heap'.mem_brk - mem_start_brk
    BY <1>1, <1>4, ChunkAssumption, AreaAssumption
  <2>8. (Demand(done))' = 0 /\ IsMost(max_total_size, done)'
    BY <1>1, <1>4, <2>4, <2>5
  <2> QED
    BY <1>1, <1>3, <1>4, <2>6, <2>7, <2>8 DEF Counted
<1> QED
  BY <1>4, <1>5, <1>6 DEF EvalIInv

(* What eval_mm_util adds is the change of the demand.                     *)
LEMMA BalanceIsChange ==
    ASSUME LegalTrace(trace), NEW n \in 0 .. Len(trace) - 1,
           NEW held, held = Holding(trace, n), NEW op, op = trace[n + 1],
           \A i \in HeldBy(held) : block_sizes[i] = held[i]
    PROVE  Demand(n + 1) = Demand(n) + Balance(op)
<1>1. LegalOp(held, op) /\ held \in [Ids -> Sizes \cup {0}] /\ n \in Nat
  <2>1. n \in 0 .. Len(trace) /\ n \in Nat
    BY DEF LegalTrace
  <2> QED
    BY <2>1 DEF LegalTrace
<1>2. PICK i, size : i = op.index /\ size = op.size
  OBVIOUS
<1>3. PICK g : g = [held EXCEPT ![i] = size]
  OBVIOUS
<1>4. Holding(trace, n + 1) = g
  BY <1>1, <1>2, <1>3, HoldingFollows
<1>5. Demand(n + 1) = SumOf(g, Ids) /\ Demand(n) = SumOf(held, Ids)
  BY <1>4, DemandIsSum
<1>6. /\ \A j \in Ids : held[j] \in Nat
      /\ i \in Ids /\ g[i] = size /\ size \in Nat
      /\ \A j \in Ids \ {i} : g[j] = held[j]
  BY <1>1, <1>2, <1>3, SizesAreWords DEF LegalOp
<1>7. SumOf(g, Ids) = SumOf(held, Ids) - held[i] + g[i]
  <2>1. g[i] \in Nat /\ IsFiniteSet(Ids)
    BY <1>6, IdsAreFinite
  <2> QED
    BY <1>6, <2>1, SumFollows
<1>8. SumOf(held, Ids) \in Nat
  BY <1>6, IdsAreFinite, SumIsNumber
<1>9. Balance(op) = size - held[i]
  <2>1. held[i] # 0 => block_sizes[i] = held[i]
    BY <1>6 DEF HeldBy
  <2>2. CASE op.type = "a"
    <3>1. held[i] = 0 /\ Balance(op) = size
      BY <1>1, <1>2, <2>2 DEF LegalOp, Balance
    <3> QED
      BY <1>6, <3>1
  <2>3. CASE op.type = "r"
    BY <1>1, <1>2, <2>1, <2>3 DEF LegalOp, Balance
  <2>4. CASE op.type = "f"
    <3>1. held[i] # 0 /\ size = 0 /\ Balance(op) = - block_sizes[i]
      BY <1>1, <1>2, <2>4 DEF LegalOp, Balance
    <3> QED
      BY <1>6, <2>1, <3>1
  <2> QED
    BY <1>1, <2>2, <2>3, <2>4 DEF LegalOp
<1>10. SumOf(held, Ids) - held[i] + size = SumOf(held, Ids) + (size - held[i])
  BY <1>6, <1>8
<1> QED
  BY <1>5, <1>6, <1>7, <1>9, <1>10

(* A request of eval_mm_util is counted. *)
LEMMA UtilStepKeeps ==
    ASSUME EvalIInv, ScoreIInv', eval_mm_util
    PROVE  EvalIInv'
<1>1. /\ phase = "util" /\ done < Len(trace)
      /\ total_size' = total_size + Balance(Request)
      /\ max_total_size' = Max({max_total_size, total_size'})
      /\ block_sizes' = IF Request.type = "f" THEN block_sizes
                        ELSE [block_sizes EXCEPT ![Request.index] = Request.size]
      /\ UNCHANGED <<package, trace, given, method, util, runs, tmeas>>
  BY DEF eval_mm_util, timerVars
<1>0. PICK order \in Memcpy : Proceed(Served(order))
  BY DEF eval_mm_util
<1>2. PICK k : k = Served(order) /\ Proceed(k)
  BY <1>0
<1>3. Setting /\ Traced /\ Timed /\ Totals /\ Replaying /\ Counted
  BY <1>1 DEF EvalIInv
<1>4. PICK op, held : op = Request /\ held = Holding(trace, done)
  OBVIOUS
<1>5. /\ Traced' /\ Setting'
      /\ done' = done + 1
      /\ \/ phase' = "aborted"
         \/ phase' = phase /\ Replaying' /\ heap.mem_brk <= heap'.mem_brk
      /\ LegalOp(held, op)
      /\ Holding(trace, done + 1) = [held EXCEPT ![op.index] = op.size]
  <2>1. /\ Traced' /\ Setting'
        /\ done' = done + 1
        /\ \/ phase' = "aborted"
           \/ phase' = phase /\ Replaying' /\ heap.mem_brk <= heap'.mem_brk
        /\ LegalOp(Holding(trace, done), Request)
        /\ Holding(trace, done + 1) =
              [Holding(trace, done) EXCEPT ![Request.index] = Request.size]
    BY <1>1, <1>2, <1>3, RunGoesOn
  <2> QED
    BY <1>4, <2>1
<1>6. LegalTrace(trace) /\ done \in 0 .. Len(trace) - 1 /\ done \in Nat /\ Len(trace) \in Nat
  BY <1>1, <1>3 DEF Traced, LegalTrace
<1>7. total_size' = Demand(done + 1)
  <2>1. \A i \in HeldBy(held) : block_sizes[i] = held[i]
    BY <1>3, <1>4 DEF Counted
  <2>2. op = trace[done + 1]
    BY <1>4 DEF Request
  <2>3. PICK n : n = done
    OBVIOUS
  <2>4. n \in 0 .. Len(trace) - 1 /\ held = Holding(trace, n) /\ op = trace[n + 1]
    BY <1>4, <1>6, <2>2, <2>3
  <2>5. Demand(n + 1) = Demand(n) + Balance(op)
    BY <1>6, <2>1, <2>4, BalanceIsChange
  <2>6. total_size = Demand(n)
    BY <1>3, <2>3 DEF Counted
  <2> QED
    BY <1>1, <1>4, <2>3, <2>5, <2>6
<1>8. IsMost(max_total_size', done + 1) /\ max_total_size' \in {max_total_size, total_size'}
      /\ max_total_size' \in Nat
  <2>1. IsMost(max_total_size, done)
    BY <1>3 DEF Counted
  <2>2. PICK n, m : n = done /\ m = max_total_size
    OBVIOUS
  <2>3. n \in 0 .. Len(trace) - 1 /\ IsMost(m, n)
    BY <1>6, <2>1, <2>2
  <2>4. LET l == Max({m, Demand(n + 1)})
        IN  IsMost(l, n + 1) /\ l \in Nat /\ l \in {m, Demand(n + 1)}
    BY <1>6, <2>3, MostGrows
  <2> QED
    BY <1>1, <1>7, <2>2, <2>4
<1>9. \A j : Demand(j)' = Demand(j)
  <2> TAKE j
  <2>1. Demand(j)' = Total(Holding(trace', j)) /\ Demand(j) = Total(Holding(trace, j))
    BY DEF Demand
  <2> QED
    BY <1>1, <2>1
<1>10. total_size' \in Nat
  <2>1. PICK n : n = done + 1
    OBVIOUS
  <2>2. n \in 0 .. Len(trace)
    BY <1>6, <2>1
  <2>3. Demand(n) \in Nat
    BY <1>6, <2>2, DemandIsNumber
  <2> QED
    BY <1>7, <2>1, <2>3
<1>11. Totals' /\ Timed'
  <2>1. phase' \in {"aborted", "util"}
    BY <1>1, <1>5
  <2> QED
    BY <1>1, <1>3, <1>8, <1>10, <2>1 DEF Totals, Timed
<1>12. CASE phase' = "aborted"
  BY <1>5, <1>11, <1>12 DEF EvalIInv
<1>13. CASE phase' = phase /\ Replaying' /\ heap.mem_brk <= heap'.mem_brk
  <2>1. PICK now1 : now1 = [held EXCEPT ![op.index] = op.size]
    OBVIOUS
  <2>2. Holding(trace', done') = now1
    BY <1>1, <1>5, <2>1
  <2>3. /\ op.index \in Ids /\ op.type \in {"a", "r", "f"}
        /\ op.type = "f" => op.size = 0
        /\ op.type # "f" => op.size \in Sizes
    BY <1>5 DEF LegalOp
  <2>4. held \in [Ids -> Sizes \cup {0}] /\ block_sizes \in [Ids -> Sizes \cup {0}]
        /\ \A i \in HeldBy(held) : block_sizes[i] = held[i]
    <3>1. done \in 0 .. Len(trace)
      BY <1>6
    <3> QED
      BY <1>3, <1>4, <1>6, <3>1 DEF Counted, LegalTrace
  <2>5. block_sizes' \in [Ids -> Sizes \cup {0}]
    BY <1>1, <1>4, <2>3, <2>4
  <2>6. \A i \in HeldBy(now1) : block_sizes'[i] = now1[i]
    <3>1. CASE op.type = "f"
      <4>1. \A i \in HeldBy(now1) : i \in HeldBy(held) /\ now1[i] = held[i]
        BY <2>1, <2>3, <2>4, <3>1 DEF HeldBy
      <4> QED
        BY <1>1, <1>4, <2>4, <3>1, <4>1
    <3>2. CASE op.type # "f"
      <4>1. block_sizes' = [block_sizes EXCEPT ![op.index] = op.size]
        BY <1>1, <1>4, <3>2
      <4>2. \A i \in HeldBy(now1) : i = op.index \/ (i \in HeldBy(held) /\ now1[i] = held[i])
        BY <2>1, <2>3, <2>4 DEF HeldBy
      <4>3. now1[op.index] = op.size /\ block_sizes'[op.index] = op.size
        BY <2>1, <2>3, <2>4, <4>1
      <4>4. \A i \in Ids : i # op.index => block_sizes'[i] = block_sizes[i]
        BY <2>4, <4>1
      <4>5. \A i \in HeldBy(held) : i \in Ids
        BY DEF HeldBy
      <4> QED
        BY <2>4, <4>2, <4>3, <4>4, <4>5
    <3> QED
      BY <3>1, <3>2
  <2>7. total_size' + 16 <= heap'.mem_brk - mem_start_brk
    <3>1. PICK h, D, bt : h = heap' /\ bt = blocks' /\ Serving(h, D, bt, now1)
      BY <1>13, <2>2 DEF Replaying
    <3>2. SumOf(now1, Ids) + 16 <= h.mem_brk - mem_start_brk
      BY <3>1, HeldIsLess
    <3>3. Demand(done + 1) = SumOf(Holding(trace, done + 1), Ids)
      BY DemandIsSum
    <3> QED
      BY <1>5, <1>7, <2>1, <3>1, <3>2, <3>3
  <2>8. max_total_size' + 16 <= heap'.mem_brk - mem_start_brk
    <3>1. max_total_size + 16 <= heap.mem_brk - mem_start_brk /\ max_total_size \in Nat
      BY <1>3 DEF Counted, Totals
    <3>2. heap.mem_brk \in Nat /\ mem_start_brk \in Nat /\ heap'.mem_brk \in Nat
      <4>1. (heap.mem_brk \in Nat)'
        BY <1>13 DEF Replaying, Serving, Sound, Tiling, Bounds, Heaps
      <4> QED
        BY <1>3, <4>1, ReplayingFacts, AreaAssumption
    <3>3. max_total_size + 16 <= heap'.mem_brk - mem_start_brk
      BY <1>13, <3>1, <3>2
    <3> QED
      BY <1>8, <2>7, <3>3
  <2>9. (total_size = Demand(done))' /\ IsMost(max_total_size, done)'
    <3>1. Demand(done') = Demand(done)'
      BY <1>9
    <3>2. total_size' = Demand(done)'
      BY <1>5, <1>7, <3>1
    <3>3. IsMost(max_total_size', done')
      BY <1>5, <1>8
    <3>4. IsMost(max_total_size, done)'
      BY <1>9, <3>3 DEF IsMost
    <3> QED
      BY <3>2, <3>4
  <2>10. Counted'
    BY <2>2, <2>5, <2>6, <2>8, <2>9 DEF Counted
  <2> QED
    BY <1>1, <1>5, <1>11, <1>13, <2>10 DEF EvalIInv
<1> QED
  BY <1>5, <1>12, <1>13

(* Where the run stands, so does what is said of it. *)
LEMMA RunStands ==
    ASSUME Traced, Setting,
           UNCHANGED <<package, heap, blocks, trace, given, method, done>>
    PROVE  /\ Traced' /\ Setting' /\ (Replaying => Replaying')
           /\ Utilized /\ util' = util => Utilized'
<1>1. Traced' /\ (Utilized /\ util' = util => Utilized')
  BY TraceStays DEF Traced
<1>2. Setting'
  BY DEF Setting, Suited
<1>3. Holding(trace', done') = Holding(trace, done)
  OBVIOUS
<1>4. Replaying => Replaying'
  BY <1>3 DEF Replaying
<1> QED
  BY <1>1, <1>2, <1>4

(* The run for the utilization returns what it has counted. *)
LEMMA ReturnKeeps ==
    ASSUME EvalIInv, ScoreIInv', UtilReturns
    PROVE  EvalIInv'
<1>1. /\ phase = "util" /\ done = Len(trace) /\ phase' = "fsecs"
      /\ util' = [hwm |-> max_total_size, heapsize |-> mem_heapsize]
      /\ UNCHANGED <<package, heap, blocks, trace, given, method, done>>
      /\ UNCHANGED <<total_size, max_total_size, runs, tmeas>>
  BY DEF UtilReturns, vars, timerVars
<1>2. Setting /\ Traced /\ Timed /\ Totals /\ Replaying /\ Counted
  BY <1>1 DEF EvalIInv
<1>3. Traced' /\ Setting' /\ Replaying'
  BY <1>1, <1>2, RunStands
<1>4. Timed'
  BY <1>1, <1>2 DEF Timed
<1>5. /\ util'.hwm = max_total_size /\ util'.heapsize = heap.mem_brk - mem_start_brk
      /\ max_total_size + 16 <= heap.mem_brk - mem_start_brk
      /\ max_total_size \in Nat /\ heap.mem_brk \in Nat /\ mem_start_brk \in Nat
  BY <1>1, <1>2, ReplayingFacts, AreaAssumption DEF Counted, Totals, mem_heapsize
<1>6. util'.heapsize \in Nat /\ util'.hwm < util'.heapsize
  BY <1>5
<1>7. Totals'
  BY <1>1, <1>2, <1>5, <1>6 DEF Totals
<1>8. IsMost(util.hwm, Len(trace))'
  <2>1. \A j : Demand(j)' = Demand(j)
    <3> TAKE j
    <3>1. Demand(j)' = Total(Holding(trace', j)) /\ Demand(j) = Total(Holding(trace, j))
      BY DEF Demand
    <3> QED
      BY <1>1, <3>1
  <2>2. IsMost(max_total_size, Len(trace))
    BY <1>1, <1>2 DEF Counted
  <2> QED
    BY <1>1, <1>5, <2>1, <2>2 DEF IsMost
<1>9. Utilized'
  BY <1>6, <1>8 DEF Utilized
<1> QED
  BY <1>1, <1>3, <1>4, <1>7, <1>9 DEF EvalIInv

(* So does a request of a run that is timed. *)
LEMMA SpeedStepKeeps ==
    ASSUME EvalIInv, ScoreIInv', eval_mm_speed
    PROVE  EvalIInv'
<1>1. /\ phase = "speed" /\ done < Len(trace)
      /\ UNCHANGED <<package, trace, given, method, total_size, max_total_size, util, runs, tmeas>>
  BY DEF eval_mm_speed, driverVars, timerVars
<1>0. PICK order \in Memcpy : Proceed(Served(order))
  BY DEF eval_mm_speed
<1>2. PICK k : k = Served(order) /\ Proceed(k)
  BY <1>0
<1>3. Setting /\ Traced /\ Timed /\ Totals /\ Replaying /\ Utilized
  BY <1>1 DEF EvalIInv
<1>4. /\ Traced' /\ Setting' /\ Utilized'
      /\ phase' = "aborted" \/ (phase' = phase /\ Replaying')
  BY <1>1, <1>2, <1>3, RunGoesOn
<1>5. Totals'
  BY <1>1, <1>3 DEF Totals
<1>6. Timed'
  BY <1>1, <1>3, <1>4 DEF Timed
<1> QED
  BY <1>1, <1>4, <1>5, <1>6 DEF EvalIInv

(* The steps of fcyc between the runs leave the run where it is. *)
LEMMA FcycKeeps ==
    ASSUME EvalIInv, ScoreIInv', FcycStarts \/ FcycSamples \/ FcycGoesOn
    PROVE  EvalIInv'
<1>1. /\ phase \in {"fsecs", "speed"} /\ phase' \in {"fsecs", "scored"}
      /\ UNCHANGED <<package, heap, blocks, trace, given, method, done>>
      /\ UNCHANGED <<total_size, max_total_size, util, runs, tmeas>>
  BY DEF FcycStarts, FcycSamples, FcycGoesOn, vars, replayVars, timerVars
<1>2. Setting /\ Traced /\ Timed /\ Totals /\ Replaying /\ Utilized
  BY <1>1 DEF EvalIInv
<1>3. Traced' /\ Setting' /\ Replaying' /\ Utilized'
  BY <1>1, <1>2, RunStands
<1>4. Timed' /\ Totals'
  BY <1>1, <1>2 DEF Timed, Totals
<1> QED
  BY <1>1, <1>3, <1>4 DEF EvalIInv

(* A run is started to be timed. *)
LEMMA TimedRunKeeps ==
    ASSUME 16 + CHUNKSIZE <= MAX_HEAP, EvalIInv, ScoreIInv', FcycRuns \/ TimerStarts
    PROVE  EvalIInv'
<1>1. /\ phase = "fsecs" /\ Restart("speed")
      /\ UNCHANGED <<package, blocks, trace, given, method>>
      /\ UNCHANGED <<total_size, max_total_size, util, runs, tmeas>>
  BY DEF FcycRuns, TimerStarts, driverVars, timerVars
<1>2. Setting /\ Traced /\ Timed /\ Totals /\ Replaying /\ Utilized
  BY <1>1 DEF EvalIInv
<1>3. heap \in Heaps /\ ListOK(package, heap) /\ blocks \in [Ids -> Nat]
  BY <1>2, ReplayingFacts
<1>4. Replaying' /\ phase' = "speed" /\ Traced' /\ Setting' /\ Utilized'
  BY <1>1, <1>2, <1>3, RunStarts
<1>5. Timed' /\ Totals'
  BY <1>1, <1>2, <1>4 DEF Timed, Totals
<1> QED
  BY <1>4, <1>5 DEF EvalIInv

(* A run that was timed is the last, or another follows. *)
LEMMA TimerKeeps ==
    ASSUME 16 + CHUNKSIZE <= MAX_HEAP, EvalIInv, ScoreIInv', TimerGoesOn
    PROVE  EvalIInv'
<1>1. /\ phase = "speed" /\ runs' = runs + 1
      /\ UNCHANGED <<package, blocks, trace, given, method>>
      /\ UNCHANGED <<total_size, max_total_size, util>>
      /\ \/ runs' < Runs /\ Restart("speed") /\ tmeas' = tmeas
         \/ /\ runs' = Runs /\ phase' = "scored"
            /\ tmeas' = Elapsed(first, now')
            /\ UNCHANGED <<heap, done>>
  BY DEF TimerGoesOn, driverVars
<1>2. Setting /\ Traced /\ Timed /\ Totals /\ Replaying /\ Utilized
  BY <1>1 DEF EvalIInv
<1>3. heap \in Heaps /\ ListOK(package, heap) /\ blocks \in [Ids -> Nat]
  BY <1>2, ReplayingFacts
<1>4. Totals' /\ runs \in Nat /\ runs' \in 0 .. Runs
  BY <1>1, <1>2, EvaluationAssumption DEF Totals, Timed
<1>5. CASE runs' < Runs /\ Restart("speed") /\ tmeas' = tmeas
  <2>1. Replaying' /\ phase' = "speed" /\ Traced' /\ Setting' /\ Utilized'
    BY <1>1, <1>2, <1>3, <1>5, RunStarts
  <2>2. Timed'
    BY <1>2, <1>4, <1>5, <2>1 DEF Timed
  <2> QED
    BY <1>4, <2>1, <2>2 DEF EvalIInv
<1>6. CASE /\ runs' = Runs /\ phase' = "scored"
           /\ tmeas' = Elapsed(first, now')
           /\ UNCHANGED <<heap, done>>
  <2>1. Traced' /\ Setting' /\ Utilized'
    BY <1>1, <1>2, <1>6, RunStands
  <2>2. tmeas' \in Int
    <3>1. first \in Int /\ now' \in Int
      BY DEF EvalIInv, ScoreIInv
    <3>2. Elapsed(first, now') = now' - first
      BY <3>1, ElapsedIsExact
    <3> QED
      BY <1>6, <3>1, <3>2
  <2>3. Timed'
    BY <1>4, <1>6, <2>2 DEF Timed
  <2> QED
    BY <1>4, <1>6, <2>1, <2>3 DEF EvalIInv
<1> QED
  BY <1>1, <1>5, <1>6

(* Nothing happens. *)
LEMMA IdleKeeps ==
    ASSUME 16 + CHUNKSIZE <= MAX_HEAP, EvalIInv, ScoreIInv', UNCHANGED evalVars
    PROVE  EvalIInv'
<1>1. /\ phase' = phase
      /\ UNCHANGED <<package, heap, blocks, block_sizes, ranges, verdict>>
      /\ UNCHANGED <<package, heap, blocks, trace, given, method, done>>
      /\ UNCHANGED <<total_size, max_total_size, util, runs, tmeas>>
      /\ UNCHANGED vars
  BY DEF evalVars, vars, replayVars, timerVars
<1>2. Setting /\ Traced /\ Timed /\ Totals
  BY DEF EvalIInv
<1>3. /\ Traced' /\ Setting' /\ (Replaying => Replaying')
      /\ Utilized /\ util' = util => Utilized'
  BY <1>1, <1>2, RunStands
<1>4. Timed' /\ Totals'
  BY <1>1, <1>2 DEF Timed, Totals
<1>5. Validating => Validating'
  <2> SUFFICES ASSUME Validating
               PROVE  Validating'
    OBVIOUS
  <2>1. Inductive'
    BY <1>1, StepsKeepOrder DEF Validating
  <2>2. Holding(trace', Len(trace')) = Holding(trace, Len(trace))
    BY <1>1
  <2> QED
    BY <1>1, <2>1, <2>2 DEF Validating
<1>6. Counted => Counted'
  <2>1. Holding(trace', done') = Holding(trace, done)
    BY <1>1
  <2>2. \A j : Demand(j)' = Demand(j)
    <3> TAKE j
    <3>1. Demand(j)' = Total(Holding(trace', j)) /\ Demand(j) = Total(Holding(trace, j))
      BY DEF Demand
    <3> QED
      BY <1>1, <3>1
  <2>3. Demand(done)' = Demand(done)
    <3>1. /\ Demand(done)' = Total(Holding(trace', done'))
          /\ Demand(done) = Total(Holding(trace, done))
      BY DEF Demand
    <3> QED
      BY <2>1, <3>1
  <2>4. IsMost(max_total_size, done) => IsMost(max_total_size, done)'
    BY <1>1, <2>2 DEF IsMost
  <2> QED
    BY <1>1, <2>1, <2>3, <2>4 DEF Counted
<1> QED
  BY <1>1, <1>3, <1>4, <1>5, <1>6 DEF EvalIInv

(* Every step of the driver keeps the invariant. *)
LEMMA StepsKeepEval ==
    ASSUME 16 + CHUNKSIZE <= MAX_HEAP
    PROVE  EvalIInv /\ [EvalNext]_evalVars => EvalIInv'
<1> SUFFICES ASSUME EvalIInv, [EvalNext]_evalVars
             PROVE  EvalIInv'
  OBVIOUS
<1>1. ScoreIInv'
  BY StepsKeepScore DEF EvalIInv
<1>2. CASE Validate
  BY <1>1, <1>2, ValidateKeeps
<1>3. CASE Evaluate
  BY <1>1, <1>3, EvaluateKeeps
<1>4. CASE eval_mm_util
  BY <1>1, <1>4, UtilStepKeeps
<1>5. CASE UtilReturns
  BY <1>1, <1>5, ReturnKeeps
<1>6. CASE eval_mm_speed
  BY <1>1, <1>6, SpeedStepKeeps
<1>7. CASE FcycStarts \/ FcycSamples \/ FcycGoesOn
  BY <1>1, <1>7, FcycKeeps
<1>8. CASE FcycRuns \/ TimerStarts
  BY <1>1, <1>8, TimedRunKeeps
<1>9. CASE TimerGoesOn
  BY <1>1, <1>9, TimerKeeps
<1>10. CASE UNCHANGED evalVars
  BY <1>1, <1>10, IdleKeeps
<1> QED
  BY <1>2, <1>3, <1>4, <1>5, <1>6, <1>7, <1>8, <1>9, <1>10 DEF EvalNext

(* The invariant implies that the driver's variables are what they should  *)
(* be.                                                                     *)
LEMMA EvalIInvTypes == EvalIInv => EvalTypeOK
BY DEF EvalIInv, ScoreIInv, FcycIInv, Setting, Traced, Timed, Totals, EvalTypeOK

(* It implies that the utilization is what it should be.                   *)
LEMMA EvalIInvMost == EvalIInv => HighWater
<1> SUFFICES ASSUME EvalIInv
             PROVE  HighWater
  OBVIOUS
<1>1. LegalTrace(trace) /\ Len(trace) \in 0 .. Len(trace) /\ done \in 0 .. Len(trace)
  BY DEF EvalIInv, Traced, LegalTrace
<1>2. ASSUME phase = "util"
      PROVE  /\ total_size = Demand(done)
             /\ max_total_size = Max({Demand(n) : n \in 0 .. done})
  <2>1. total_size = Demand(done) /\ IsMost(max_total_size, done)
    BY <1>2 DEF EvalIInv, Counted
  <2>2. PICK n, m : n = done /\ m = max_total_size
    OBVIOUS
  <2>3. n \in 0 .. Len(trace) /\ IsMost(m, n)
    BY <1>1, <2>1, <2>2
  <2>4. m = Max({Demand(k) : k \in 0 .. n})
    BY <1>1, <2>3, MostIsMax
  <2> QED
    BY <2>1, <2>2, <2>4
<1>3. ASSUME phase \in {"fsecs", "speed", "scored"}
      PROVE  /\ util.hwm = Max({Demand(n) : n \in 0 .. Len(trace)})
             /\ util.hwm < util.heapsize
  <2>1. IsMost(util.hwm, Len(trace)) /\ util.hwm < util.heapsize
    BY <1>3 DEF EvalIInv, Utilized
  <2>2. PICK n, m : n = Len(trace) /\ m = util.hwm
    OBVIOUS
  <2>3. n \in 0 .. Len(trace) /\ IsMost(m, n)
    BY <1>1, <2>1, <2>2
  <2>4. m = Max({Demand(k) : k \in 0 .. n})
    BY <1>1, <2>3, MostIsMax
  <2> QED
    BY <2>1, <2>2, <2>4
<1> QED
  BY <1>2, <1>3 DEF HighWater

-----------------------------------------------------------------------------
(* The runs agree.                                                         *)

(* The validation could be one over new memory, so far as its answers      *)
(* tell, and so could every run that follows, none of which fails.         *)
Agreeing ==
    /\ phase # "aborted"
    /\ phase = "valid" /\ verdict = "ok" => Accords(trace, given, Len(trace), heap, blocks)
    /\ phase \in {"util", "speed"} => Accords(trace, given, done, heap, blocks)
    /\ phase = "fsecs" => \E H, T : Replay(trace, given, H, T)

(* What is said of runs depends on the package, which stays. *)
LEMMA PackageStays ==
    ASSUME package' = package
    PROVE  /\ \A t, gs, H, T : Replay(t, gs, H, T)' <=> Replay(t, gs, H, T)
           /\ \A t, gs, n, h, at2 : Accords(t, gs, n, h, at2)' <=> Accords(t, gs, n, h, at2)
<1>1. \A h : Started(h)' = Started(h)
  BY DEF Started, mm_init
<1>2. \A op, h, at1, order : Reply(op, h, at1, order)' = Reply(op, h, at1, order)
  BY DEF Reply, mm_malloc, mm_realloc, mm_free
<1>3. \A h, at1, op, k, bt, ans :
          Leads(h, at1, op, k, bt, ans)' <=> Leads(h, at1, op, k, bt, ans)
  BY <1>2 DEF Leads
<1>4. \A t, gs, H, T : Replay(t, gs, H, T)' <=> Replay(t, gs, H, T)
  BY <1>1, <1>3 DEF Replay
<1>5. \A h1, h2, B : Alike(h1, h2, B)' <=> Alike(h1, h2, B)
  BY DEF Alike
<1>6. \A h1, at1, h2, at2, held :
          Paired(h1, at1, h2, at2, held)' <=> Paired(h1, at1, h2, at2, held)
  BY <1>5 DEF Paired
<1>7. \A t, gs, n, h, at2 : Accords(t, gs, n, h, at2)' <=> Accords(t, gs, n, h, at2)
  BY <1>4, <1>6 DEF Accords
<1> QED
  BY <1>4, <1>7

(* A heap of a pair is in order. *)
LEMMA AccordsFacts ==
    ASSUME NEW t, NEW gs, NEW n, NEW h, NEW at2, Accords(t, gs, n, h, at2)
    PROVE  \E C : Serving(h, C, at2, Holding(t, n)) /\ ListOK(package, h)
<1>1. PICK H, T : Paired(H[n], T[n], h, at2, Holding(t, n))
  BY DEF Accords
<1>2. PICK h1, at1, held : h1 = H[n] /\ at1 = T[n] /\ held = Holding(t, n)
  OBVIOUS
<1>3. Paired(h1, at1, h, at2, held)
  BY <1>1, <1>2
<1>4. PICK C : Alike(h1, h, C) /\ Serving(h, C, at2, held)
  BY <1>3, PairedServe
<1> QED
  BY <1>2, <1>4 DEF Alike

(* The validation gets on as a run over new memory does.                   *)
LEMMA ValidateAgrees ==
    ASSUME 16 + CHUNKSIZE <= MAX_HEAP, EvalIInv, Agreeing, EvalIInv', Validate
    PROVE  Agreeing'
<1>1. phase = "valid" /\ phase' = "valid" /\ package' = package
      /\ given' = Append(given, Answer(heap'))
  BY DEF Validate
<1>2. Validating /\ Traced /\ Setting /\ Validating'
  BY <1>1 DEF EvalIInv
<1>3. package \in {"mm", "mm-firstfit"} /\ Suited /\ LegalTrace(trace)
  BY <1>2, PackagesAssumption DEF Setting, Traced
<1>4. verdict = "ok"
  BY Zenon DEF Validate, Alloc, Realloc, Free
<1>5. SUFFICES ASSUME verdict' = "ok"
               PROVE  Accords(trace', given', Len(trace'), heap', blocks')
  BY <1>1, PackageStays DEF Agreeing
<1>6. Accords(trace, given, Len(trace), heap, blocks)
  BY <1>1, <1>4 DEF Agreeing
<1>7. PICK held : held = Holding(trace, Len(trace))
  OBVIOUS
<1>8. PICK C : Serving(heap, C, blocks, held) /\ ListOK(package, heap)
  BY <1>6, <1>7, AccordsFacts
<1>9. /\ Sound(heap, C) /\ blocks \in [Ids -> Nat]
      /\ \A i \in HeldBy(held) : blocks[i] \in InUse(heap, C) \ {heap_listp}
  BY <1>8 DEF Serving
<1>10. \A i \in Ids : blocks[i] # NULL <=> held[i] # 0
  <2>1. LiveOf(blocks) = HeldBy(held)
    BY <1>2, <1>4, <1>7 DEF Validating
  <2> QED
    BY <2>1 DEF LiveOf, HeldBy
<1>11. PICK u, us, g, bt : u = trace' /\ us = given' /\ g = heap' /\ bt = blocks'
  OBVIOUS
<1>12. Answer(g) \in [ret : Int, brk : Nat]
  <2>1. Inductive'
    BY <1>2 DEF Validating
  <2>2. (heap \in Heaps)'
    BY <2>1 DEF Inductive, InOrder, Order, ClientHas, Sound, Tiling, Bounds
  <2> QED
    BY <1>11, <2>2 DEF Answer, Heaps
<1>13. ASSUME NEW op, op = Op(op.type, op.index, op.size), LegalOp(held, op),
              u = Append(trace, op), NEW order, NEW k, Answers(heap, blocks, op, order, k, g, bt)
       PROVE  Accords(u, us, Len(u), g, bt)
  <2>1. OneMore(trace, op, u)
    BY <1>3, <1>7, <1>13 DEF OneMore
  <2>2. us = Append(given, Answer(g))
    BY <1>1, <1>11
  <2>3. given \in Seq([ret : Int, brk : Nat]) /\ Len(given) = Len(trace)
    BY <1>2 DEF Traced
  <2> QED
    BY <1>6, <1>12, <1>13, <2>1, <2>2, <2>3, ValidationGoesOn
<1>14. ASSUME NEW i \in Ids, NEW size \in Sizes, Alloc(i, size),
              trace' = Append(trace, Op("a", i, size))
       PROVE  Accords(u, us, Len(u), g, bt)
  <2>1. PICK op : op = Op("a", i, size)
    OBVIOUS
  <2>2. op = Op(op.type, op.index, op.size) /\ op.type = "a" /\ op.index = i /\ op.size = size
    BY <2>1 DEF Op
  <2>3. LegalOp(held, op)
    <3>1. i \notin Live
      BY <1>14, Zenon DEF Alloc
    <3>2. held[i] = 0
      BY <1>10, <3>1 DEF Live
    <3> QED
      BY <2>2, <3>2 DEF LegalOp
  <2>4. PICK order, k : Answers(heap, blocks, op, order, k, g, bt)
    BY <1>3, <1>5, <1>8, <1>9, <1>11, <1>14, <2>1, AllocAnswers
  <2> QED
    BY <1>11, <1>13, <1>14, <2>1, <2>2, <2>3, <2>4
<1>15. ASSUME NEW i \in Ids, NEW size \in Sizes, NEW order \in Memcpy, Realloc(i, size, order),
              trace' = Append(trace, Op("r", i, size))
       PROVE  Accords(u, us, Len(u), g, bt)
  <2>1. PICK op : op = Op("r", i, size)
    OBVIOUS
  <2>2. op = Op(op.type, op.index, op.size) /\ op.type = "r" /\ op.index = i /\ op.size = size
    BY <2>1 DEF Op
  <2>3. held[i] # 0
    BY <1>10, <1>15 DEF Realloc, Live
  <2>4. LegalOp(held, op)
    BY <2>2, <2>3 DEF LegalOp
  <2>5. blocks[i] \in InUse(heap, C) \ {heap_listp}
    BY <1>9, <2>3 DEF HeldBy
  <2>6. PICK k : Answers(heap, blocks, op, order, k, g, bt)
    BY <1>3, <1>5, <1>8, <1>9, <1>11, <1>15, <2>1, <2>5, ReallocAnswers
  <2> QED
    BY <1>11, <1>13, <1>15, <2>1, <2>2, <2>4, <2>6
<1>16. ASSUME NEW i \in Ids, Free(i), trace' = Append(trace, Op("f", i, 0))
       PROVE  Accords(u, us, Len(u), g, bt)
  <2>1. PICK op : op = Op("f", i, 0)
    OBVIOUS
  <2>2. op = Op(op.type, op.index, op.size) /\ op.type = "f" /\ op.index = i /\ op.size = 0
    BY <2>1 DEF Op
  <2>3. held[i] # 0
    BY <1>10, <1>16 DEF Free, Live
  <2>4. LegalOp(held, op)
    BY <2>2, <2>3 DEF LegalOp
  <2>5. PICK order, k : Answers(heap, blocks, op, order, k, g, bt)
    BY <1>3, <1>9, <1>11, <1>16, <2>1, FreeAnswers
  <2> QED
    BY <1>11, <1>13, <1>16, <2>1, <2>2, <2>4, <2>5
<1>17. Accords(u, us, Len(u), g, bt)
  BY <1>14, <1>15, <1>16 DEF Validate
<1> QED
  BY <1>11, <1>17

(* A run starts as the validation did.                                     *)
LEMMA RestartAgrees ==
    ASSUME 16 + CHUNKSIZE <= MAX_HEAP, package \in {"mm", "mm-firstfit"},
           heap \in Heaps, ListOK(package, heap), blocks \in [Ids -> Nat],
           UNCHANGED <<package, blocks, trace, given>>,
           \E H, T : Replay(trace, given, H, T), NEW p \in {"util", "speed"}, Restart(p)
    PROVE  Agreeing'
<1>1. PICK g, t, gs, at2 : g = Started(heap) /\ t = trace /\ gs = given /\ at2 = blocks
  OBVIOUS
<1>2. \E H, T : Replay(t, gs, H, T)
  BY <1>1
<1>3. g.ret = 0 /\ Accords(t, gs, 0, g, at2)
  BY <1>1, <1>2, StartAccords
<1>4. /\ heap' = g /\ done' = 0 /\ phase' = p
      /\ trace' = t /\ given' = gs /\ blocks' = at2
  BY <1>1, <1>3 DEF Restart
<1>5. Accords(trace, given, done, heap, blocks)'
  BY <1>3, <1>4, PackageStays
<1> QED
  BY <1>4, <1>5 DEF Agreeing

(* A request of a run gets what it got.                                    *)
LEMMA ProceedAgrees ==
    ASSUME EvalIInv, Agreeing, phase \in {"util", "speed"}, done < Len(trace),
           UNCHANGED <<package, trace, given>>,
           NEW order \in Memcpy, NEW k, k = Served(order), Proceed(k)
    PROVE  Agreeing'
<1>1. package \in {"mm", "mm-firstfit"} /\ Suited /\ LegalTrace(trace) /\ done \in 0 .. Len(trace)
  BY PackagesAssumption DEF EvalIInv, Setting, Traced
<1>2. PICK t, gs, n, h, at2, op : /\ t = trace /\ gs = given /\ n = done /\ h = heap
                                  /\ at2 = blocks /\ op = Request
  OBVIOUS
<1>3. n \in 0 .. Len(t) - 1 /\ op = t[n + 1] /\ Accords(t, gs, n, h, at2)
  BY <1>1, <1>2 DEF Agreeing, Request, LegalTrace
<1>4. op.type \in {"a", "r", "f"}
  BY <1>1, <1>2, <1>3 DEF LegalTrace, LegalOp
<1>5. /\ k = Reply(op, h, at2, order) /\ heap' = k
      /\ phase' = IF Fails(op, k) THEN app_error ELSE phase
      /\ ~Fails(op, k) => blocks' = Noted(op, at2, k)
  BY <1>2, <1>4, ProceedReplies
<1>6. ~Fails(op, k) /\ Accords(t, gs, n + 1, k, Noted(op, at2, k))
  BY <1>1, <1>2, <1>3, <1>5, ReplayGoesOn
<1>7. done' = n + 1 /\ phase' = phase /\ blocks' = Noted(op, at2, k)
  BY <1>2, <1>5, <1>6 DEF Proceed
<1>8. Accords(trace, given, done, heap, blocks)'
  BY <1>2, <1>5, <1>6, <1>7, PackageStays
<1> QED
  BY <1>7, <1>8 DEF Agreeing

(* Every step of the driver keeps the runs in agreement.                   *)
LEMMA StepsAgree ==
    ASSUME 16 + CHUNKSIZE <= MAX_HEAP
    PROVE  EvalIInv /\ Agreeing /\ [EvalNext]_evalVars => EvalIInv' /\ Agreeing'
<1> SUFFICES ASSUME EvalIInv, Agreeing, [EvalNext]_evalVars
             PROVE  EvalIInv' /\ Agreeing'
  OBVIOUS
<1>1. EvalIInv'
  BY StepsKeepEval
<1>2. package \in {"mm", "mm-firstfit"}
  BY PackagesAssumption DEF EvalIInv, Setting
<1>3. CASE Validate
  BY <1>1, <1>3, ValidateAgrees
<1>4. CASE Evaluate
  <2>1. /\ phase = "valid" /\ verdict = "ok" /\ Restart("util")
        /\ UNCHANGED <<package, blocks, trace, given>>
    BY <1>4 DEF Evaluate, driverVars
  <2>2. heap \in Heaps /\ ListOK(package, heap) /\ blocks \in [Ids -> Nat]
    <3>1. Inductive
      BY <2>1 DEF EvalIInv, Validating
    <3> QED
      BY <3>1 DEF Inductive, InOrder, Order, ClientHas, Sound, Tiling, Bounds
  <2>3. \E H, T : Replay(trace, given, H, T)
    BY <2>1 DEF Agreeing, Accords
  <2> QED
    BY <1>1, <1>2, <2>1, <2>2, <2>3, RestartAgrees
<1>5. CASE eval_mm_util \/ eval_mm_speed
  <2>1. /\ phase \in {"util", "speed"} /\ done < Len(trace)
        /\ UNCHANGED <<package, trace, given>>
        /\ \E order \in Memcpy : \E k \in {Served(order)} : Proceed(k)
    BY <1>5 DEF eval_mm_util, eval_mm_speed, driverVars
  <2>2. PICK order \in Memcpy : Proceed(Served(order))
    BY <2>1
  <2>3. PICK k : k = Served(order) /\ Proceed(k)
    BY <2>2
  <2>4. Agreeing'
    BY <2>1, <2>3, ProceedAgrees
  <2> QED
    BY <1>1, <2>4
<1>6. CASE UtilReturns \/ FcycStarts \/ FcycSamples \/ FcycGoesOn
  <2>1. /\ phase \in {"util", "fsecs", "speed"} /\ phase' \in {"fsecs", "scored"}
        /\ UNCHANGED <<package, trace, given>>
    BY <1>6 DEF UtilReturns, FcycStarts, FcycSamples, FcycGoesOn, vars
  <2>2. \E H, T : Replay(trace, given, H, T)
    BY <2>1 DEF Agreeing, Accords
  <2>3. (\E H, T : Replay(trace, given, H, T))'
    BY <2>1, <2>2, PackageStays
  <2>4. Agreeing'
    BY <2>1, <2>3 DEF Agreeing
  <2> QED
    BY <1>1, <2>4
<1>7. CASE FcycRuns \/ TimerStarts \/ TimerGoesOn
  <2>1. /\ phase \in {"fsecs", "speed"} /\ UNCHANGED <<package, blocks, trace, given>>
        /\ Restart("speed") \/ phase' = "scored"
    BY <1>7 DEF FcycRuns, TimerStarts, TimerGoesOn, driverVars
  <2>2. CASE Restart("speed")
    <3>1. heap \in Heaps /\ ListOK(package, heap) /\ blocks \in [Ids -> Nat]
      BY <2>1, ReplayingFacts DEF EvalIInv
    <3>2. \E H, T : Replay(trace, given, H, T)
      BY <2>1 DEF Agreeing, Accords
    <3> QED
      BY <1>1, <1>2, <2>1, <2>2, <3>1, <3>2, RestartAgrees
  <2>3. CASE phase' = "scored"
    BY <1>1, <2>3 DEF Agreeing
  <2> QED
    BY <2>1, <2>2, <2>3
<1>8. CASE UNCHANGED evalVars
  <2>1. UNCHANGED <<package, phase, verdict, trace, given, done, heap, blocks>>
    BY <1>8 DEF evalVars, vars, replayVars
  <2>2. (\E H, T : Replay(trace, given, H, T)) => (\E H, T : Replay(trace, given, H, T))'
    BY <2>1, PackageStays
  <2>3. Accords(trace, given, done, heap, blocks) => Accords(trace, given, done, heap, blocks)'
    BY <2>1, PackageStays
  <2>4. Accords(trace, given, Len(trace), heap, blocks)
          => Accords(trace, given, Len(trace), heap, blocks)'
    BY <2>1, PackageStays
  <2>5. Agreeing'
    BY <2>1, <2>2, <2>3, <2>4 DEF Agreeing
  <2> QED
    BY <1>1, <2>5
<1> QED
  BY <1>3, <1>4, <1>5, <1>6, <1>7, <1>8 DEF EvalNext

(* They agree before anything was asked.                                   *)
LEMMA AgreementStarts ==
    ASSUME 16 + CHUNKSIZE <= MAX_HEAP
    PROVE  EvalInit /\ Suited => EvalIInv /\ Agreeing
<1> SUFFICES ASSUME EvalInit, Suited
             PROVE  EvalIInv /\ Agreeing
  OBVIOUS
<1>1. EvalIInv
  BY EvaluationStarts
<1>2. package \in {"mm", "mm-firstfit"}
  BY <1>1, PackagesAssumption DEF EvalIInv, Setting
<1>3. /\ phase = "valid" /\ trace = <<>> /\ given = <<>> /\ heap = Started(mem_init)
      /\ blocks \in [Ids -> Nat]
  <2>1. blocks = [i \in Ids |-> NULL] /\ heap = Started(mem_init)
    BY DEF EvalInit, Init
  <2>2. blocks \in [Ids -> Nat]
    BY <2>1 DEF NULL
  <2> QED
    BY <2>1, <2>2 DEF EvalInit
<1>4. PICK g, at2 : g = heap /\ at2 = blocks
  OBVIOUS
<1>5. Accords(<<>>, <<>>, 0, g, at2)
  BY <1>2, <1>3, <1>4, FirstAccords
<1>6. Len(trace) = 0
  BY <1>3
<1>7. Accords(trace, given, Len(trace), heap, blocks)
  BY <1>3, <1>4, <1>5, <1>6
<1> QED
  BY <1>1, <1>3, <1>7 DEF Agreeing

(* So a run's last answer is the one the validation got. *)
LEMMA AgreeingReplays == Agreeing => ReplaysAgree
BY DEF Agreeing, Accords, ReplaysAgree

(* The requests of a run never go past the trace's, no answer of the       *)
(* validation is missing, no total is negative and no run is counted that  *)
(* is not one of the n of ftimer's, through all the phases a trace goes    *)
(* through, with an allocator that is Suited (mdriver.c:294-320,           *)
(* fsecs.c:44-56, ftimer.c:23-53).                                         *)
THEOREM EvaluationTypes ==
    ASSUME 16 + CHUNKSIZE <= MAX_HEAP
    PROVE  EvalSpec /\ Suited => []EvalTypeOK
BY EvaluationStarts, StepsKeepEval, EvalIInvTypes, PTL DEF EvalSpec

(* What eval_mm_util returns is the most that the trace ever asked for at  *)
(* one time, and the heap it is divided by is larger, whatever the trace   *)
(* and whichever the allocator, as far as it is Suited (mdriver.c:716-780).*)
THEOREM UtilizationIsTheHighWater ==
    ASSUME 16 + CHUNKSIZE <= MAX_HEAP
    PROVE  EvalSpec /\ Suited => []HighWater
BY EvaluationStarts, StepsKeepEval, EvalIInvMost, PTL DEF EvalSpec

(* What is measured is what was validated: after every request of every    *)
(* run the block is at the address, and the heap as large, as they were    *)
(* when the answers were checked, whatever the runs before left in memory, *)
(* however long the trace is and whichever the allocator, as far as it is  *)
(* Suited (mdriver.c:716-768, 799-831).                                    *)
THEOREM RunsAgree ==
    ASSUME 16 + CHUNKSIZE <= MAX_HEAP
    PROVE  EvalSpec /\ Suited => []ReplaysAgree
BY AgreementStarts, StepsAgree, AgreeingReplays, PTL DEF EvalSpec

(* No later run of a trace that was found valid fails: a request that was  *)
(* served then is served now, by an allocator that is Suited (app_error,   *)
(* mdriver.c:718-751, 801-821).                                            *)
THEOREM ValidNeverAborts ==
    ASSUME 16 + CHUNKSIZE <= MAX_HEAP
    PROVE  EvalSpec /\ Suited => [](phase # "aborted")
<1>1. Agreeing => phase # "aborted"
  BY DEF Agreeing
<1> QED
  BY <1>1, AgreementStarts, StepsAgree, PTL DEF EvalSpec
===============================================================================
