# A verification development of the styrikerfi labs

The repository holds the exercises of an operating-systems course: four
programs in C that have nothing to do with each other, and some scripts. The
TLA+ modules here model the three that have state worth checking: the
barbershop simulator (`src/thrlab`), the tiny shell (`src/shlab-handout2`) and
the two memory allocators with their test driver (`src/malloclab-handout2`).

## 1. Inventory

### The desk of the barbershop (`thrlab/help.c`, `help.h`)
*State*: the customers' statuses, who is in which room, three counters of
customers, 25 of complaints, the list of threads, a mutex. *Operations*: customers
come in at the door and get a thread each; `accept`, `reject`, `prepare` and
`dismiss` are called by the shop and file a complaint when they come in the
wrong state; `cleanup` joins the threads and speaks the verdict. *Hard*: the
calls of all threads interleave with the door, which starts a thread before it
has counted the customer; two tables and three counters say the same thing
twice. *Correct when*: tables and counters agree whatever the shop does, and a
silent verdict is earned.

### The barbershop (`thrlab/main.c`)
*State*: a ring of chairs, three semaphores, a semaphore per customer.
*Operations*: the steps of each customer's and each barber's thread, hiring,
cleanup. It calls the desk, and the desk calls it back in each customer's
thread. *Hard*: every interleaving of these threads; memory and semaphores are
freed while the detached barbers live. *Correct when*: the semaphores account
for the ring, customers are served first come first served, each exactly once,
nobody uses what was freed, everyone seated is served.

### The tiny shell (`shlab-handout2/tsh.c`)
*State*: the job list, the next job identifier, `eval`'s local variables, the
signal mask; the kernel's view of the children. *Operations*: `eval`, `fg`,
`bg`, `waitfg`, the handlers of SIGCHLD, SIGINT and SIGTSTP. *Hard*: handlers
run between any two unprotected steps of main and inside each other; signals
do not queue; a pid is used again once its process is reaped. *Correct when*:
list and children agree, there is one foreground job at most and keys reach
nobody else, every zombie is reaped, and the prompt comes back.

### The allocators (`malloclab-handout2/mm.c`, `mm-firstfit.c`) over `memlib.c`
*State*: the words of the heap (tags, payloads and, in `mm.c`, links), the list
head, the break. *Operations*: `mm_init`, `mm_malloc`, `mm_free`,
`mm_realloc`. The driver is linked with one of the two; `mm-firstfit.c` has the
same tags, no list, and a `mm_realloc` that always moves. *Hard*: sequential,
but every address is computed from tags that earlier writes changed;
splitting, merging and extending must keep tags and the doubly linked list in
step; sizes at their limits. *Correct when*: what `mm_checkheap` looks for
holds after every request, the list is the free blocks, payloads survive, and
no room is wasted that the code means to use.

### The trace driver (`malloclab-handout2/mdriver.c`)
*State*: the trace, its blocks and sizes, the list of ranges, the accounts of
the utilization. *Operations*: `eval_mm_valid` runs requests and checks the
answers; `eval_mm_util` and `eval_mm_speed` run the same requests again without
checks. *Hard*: each run starts on the memory, the static variables and the
trace's tables that the run before left. *Correct when*: it reports an error
exactly when the allocator makes one, every later run is the run that was
checked, and each valid trace gets a score.

### Timing (`fcyc.c`, `clock.c`, `ftimer.c`, `fsecs.c`)
*State*: the reading of the cycle counter in two words, the sampler's sorted
values, the interval timer. *Operations*: `start_counter`, `get_counter`, the
same with compensation for timer interrupts, `fcyc`, `ftimer_itimer`,
`ftimer_gettod`. `fsecs` is built with one of the three and calls
`eval_mm_speed` through a pointer. *Hard*: differences taken part by part,
interrupts that come between two readings, samples that never agree. *Correct
when*: a sample is what the function took, the answer is the least of them, and
sampling ends.

### Not modelled
* `callibrate`, `mhz` and `clear` (clock.c, fcyc.c) measure the machine or touch
  its cache; what they yield is floating-point data, here the constant
  `cyc_per_tick`. The options of `mdriver.c`, its parser of trace files, the
  evaluation of the C library's malloc and the printing of results.
* `sdriver.pl`, `myspin.c` and the like are the shell's test harness: their
  effect, a child that ends or stops when it likes, is in the shell's model.
* `sty15-hw1` (one-line answers to exercises), `buflab-handout` (no program
  source) and the dotfiles have no behaviour to model.

## 2. The modules

| module | what it is |
|---|---|
| `Thrlab` | the desk: state and actions of `help.c`, and its invariants |
| `AnyShop` | the desk under a shop that may make any call at any time |
| `Barbershop` | the threads of `main.c`, composed with `Thrlab` |
| `WaitingRoom` | what the shop promises: first come, first served, so many chairs |
| `ThrlabProofs`, `AnyShopProofs`, `BarbershopProofs` | the theorems of the barbershop |
| `JobList` | the job list of `tsh.c`: `addjob`, `deletejob`, the searches |
| `Tsh` | the shell with its handlers, its children and the kernel's signals, over `JobList` |
| `TshProofs` | the theorems of the job list and the shell |
| `Memlib` | `memlib.c`, and the heap as words by address |
| `Tags` | what both allocators share: the tags, joining free blocks, growing |
| `Mm`, `FirstFit` | `mm.c` and `mm-firstfit.c` as operators from a heap to a heap |
| `Mdriver` | `eval_mm_valid` as the client that calls either and checks it |
| `Arena` | what an allocator promises its client, without tags and lists |
| `Clock` | the differences of counter and timer readings |
| `Fcyc` | the K-best sampler |
| `Evaluation` | what becomes of a trace: `Mdriver` and `Fcyc` under `main` |
| `MmProofs` | what tags, walks and lists do to a heap, and the contracts of the functions of both packages |
| `MdriverProofs` | the theorems of the driver linked with either package |
| `ArenaProofs` | the theorems of the arena |
| `EvaluationProofs` | the theorems of the timing and of the evaluation of a trace |

`PROJECT.json` maps every definition to its lines. Definitions whose names
begin with `Mut` are faulty variants of the definition that follows them; each
property of a passing run is shown to notice one of them.

**Barbershop.** A call of the desk runs under one mutex from start to end and
is one action. The door holds that mutex over several steps (`AddCustomer`,
`CreateThread`, `CountPending`), because the thread it creates runs meanwhile.
In `main.c` each semaphore operation, each call and each access to the ring is
a step; `at` and `barber` are the threads' program counters.

**Shell.** An action is a stretch of code between two accesses a handler could
come between. `frames` is the stack of running handlers, main moves only when
it is empty. Commands are abstracted to what they do: `job`, `job&`, `fg`,
`bg`, `blank`. A job is one process in a group of its own; children run, stop
and end as they like. `Send` and `Waitable` follow POSIX; signals are assumed
to start with their default dispositions.

**Allocators.** A heap is a record of words by address, and a function of
`mm.c` or `mm-firstfit.c` maps a heap to a heap, its PUTs in the order of the
code. Words and addresses are taken modulo `Span`, the width the unsigned
arithmetic of the code depends on. A payload word is the driver's filler.
A walk over the blocks is a function of the number of steps taken, which stays
at the epilogue (in `mm.c`'s list, at NULL) from the step that reaches it, and
`FirstOf` is the loop that returns the first of them that fits.
`memcpy` has an order of copying as a parameter, because C leaves it open and
`mm_realloc` of `mm.c` copies between overlapping areas. Words outside the heap
read as 0. `Mdriver` instantiates both modules and chooses by the variable
`package`, as the linker does.

**The arena.** `Arena` knows extents, gaps and a break, and nothing of how they
are found: every gap that is left between two extents can be used, the break
moves only when no gap is large enough, and a request is refused only when the
break cannot move. The refinement mapping reads a block's extent from its
header. Two flags of the arena tell the packages apart: `mm-firstfit.c` takes
the lowest gap that fits, and `mm.c` moves a block only when there is no room
beside it, with one exception that the code has and `Loose` names (a block that
is too large by less than a minimal block is moved, mm.c:329).

**Evaluation.** `Validate` is `Mdriver`'s requests with the trace remembered;
`eval_mm_util` and `eval_mm_speed` are one action per request, so that what one
run leaves is what the next one finds. `fsecs` is four actions around `Fcyc`
or two around the timers of `ftimer.c`. The clock is a number of cycles or
microseconds; `Fcyc` and the timers see it only in parts. Requests fail in a
replay by `app_error`, the phase "aborted".

## 3. The runs

Passing runs, each with its bounds:

* **desk_any_shop** (`AnyShop`: 3 visitors, 2 barbers, 1 chair, at most one
  complaint). The desk's counters, tables and verdict under every order of
  calls. Three visitors are enough for two rooms and an overcrowded chair; one
  complaint is enough to break the silence of the verdict, and
  `OvercrowdingReported` is proved without the bound.
* **barbershop** (`Barbershop`: 3 visitors, 2 barbers, 2 chairs). The ring
  goes round, both barbers compete, and a third customer may find it full.
  `OneHaircut`, `SemaphoresAccount`, `RingIsSound`, `NothingToComplain`,
  `CustomerStays`, `NoUseAfterFree`, the refinement `ImplementsWaitingRoom`,
  and the liveness properties `SeatedAreServed` and `DayEnds`.
* **shell** (`Tsh`: 2 entries, 2 pids, job identifiers up to 3, every
  command). Two jobs are enough for a foreground and a background job to race
  and, as pids are reused, for a job that has taken the place of another.
  `OneForeground`, `ForegroundIsAwaited`, `JobsAreChildren`,
  `ChildrenAreListed`, `BackgroundUntouched`, and `ZombiesAreReaped`.
* **shell_eval** (the same without `fg` and `bg`). Here the prompt returns
  (`PromptReturns`) and a quiet list marks the stopped jobs (`QuietTable`);
  with `fg` neither need hold, see below.
* **malloc** (`Mdriver`: both packages, 3 blocks of 8, 12 or 36 bytes, chunks
  of 48 bytes, a heap of two chunks). The blocks are 16, 24 and 48 bytes long:
  a block fills a chunk, leaves a remainder too small to split, or spans two
  chunks that merged; with three of them both neighbours of a block can be
  free. Every case of `mm_realloc` and of `coalesce` occurs, and so does the
  end of memory. The heap's consistency (`HeapChecks`),
  `FreeListIsTheFreeBlocks`, `ClientOwnsAllocated`, `PayloadsKept`,
  `FailsOnlyWhenFull`, and the refinement `ImplementsArena`. Two things are
  fixed by the constants: no block grows by a chunk less 8 bytes or more (see
  realloc_grows_a_chunk), and `memcpy` copies upwards (see below). `VIEW View`
  leaves words no block uses out of the comparison of states; no function reads
  such a word before writing it as long as the invariants hold. The run
  `evaluation` compares whole states and would notice if one did.
* **evaluation** (`Evaluation`: both packages; traces of up to 4 requests over 2
  blocks for the time of day, of up to 2 for the other two methods; the 2 best
  of at most 4 samples; words of 4 values, seconds of 4 microseconds). Four
  requests are enough to allocate, reallocate and free with a neighbour, two
  runs of `f` to time one on what another left, and words so short that the
  counter's low word, its high word and the seconds all wrap while `f` runs.
  `ReplaysAgree`: every run after the validation gets the same answers at the
  same addresses. `HighWater`: the account kept by differences is the most the
  trace ever held. `KBest`, `SamplesAreExact`, `TimeIsElapsed`,
  and the liveness property `ValidIsScored`: a valid trace is not stopped by a
  failure in a later run, nor by samples that never agree. Times and interrupts
  are chosen from two values each, which is enough for samples that agree, that
  do not, and that are negative.

`CHECK_DEADLOCK FALSE` is set for the driver and the evaluation only: after
`exit(1)`, an error or a score nothing more happens to a trace. The other models end in a step that changes nothing.

Runs that refute a claim of the sources:

| run | what the trace shows |
|---|---|
| full_shop | `Sem_trywait` treats EAGAIN as an error, so a customer who finds no chair ends the process; main.c:176 has him turned away |
| barbers_after_cleanup | `cleanup` destroys semaphores that a barber still posts; main.c:158 says the barbers' threads are ended |
| waitfg_null | a foreground job that ends before `waitfg` looks it up makes the shell follow a null pointer |
| ctrl_c_lost | ctrl-c before the child's `setpgid` or `execve` reaches nobody |
| fg_hangs | `fg` overwrites the state a handler has just written, and waits for a stopped job for ever |
| realloc_grows_a_chunk | the last block grows by exactly `CHUNKSIZE`; the leftover block of size 0 destroys its footer and the epilogue |

The bounds of these runs are the smallest that show the behaviour.

One more defect is left out of every run by a constant. When a block moves into
its free predecessor, `mm_realloc` calls `memcpy` on areas that overlap if the
predecessor is the smaller one (mm.c:288, 306), and C leaves the order of copying
open. All configurations have `Memcpy = {"up"}`, the order in which this does no
harm, so that no property they check notices it. With
`Memcpy = {"up", "down"}` in `Mdriver.cfg` TLC refutes `PayloadsKept` and
`FailsOnlyWhenFull` in four requests to `mm.c`: malloc 1 of 8 bytes, malloc 2 of
12, realloc 1 to 12 (it moves, and its 16 bytes are free), realloc 2 to 36. Block 2
moves down by 16 bytes; copied from its end, its first words are overwritten with
its last ones before they are read, and the check of mdriver.c:657 that "the new
block contains the data from the old block" fails although there is memory.

`HeapChecks` and `FreeListIsTheFreeBlocks` are stronger than `mm_checkheap`:
its test whether a listed block is free (mm.c:380) applies `GET_ALLOC` to the
block's first word, which is the link `prev`, and so never fires; the model
looks at the header. The overlap test of `add_range` (mdriver.c:417) misses a
payload that encloses an older one; `ClientOwnsAllocated` does not.

`addjob` wraps `nextjid` to 1 whether or not job 1 is there (tsh.c:566): with
`MAXJOBS` 4 and jobs 1, 2, 3, deleting 2 and adding two more gives two jobs the
identifier 1. `JobList` models it as it is, and no property of the shell rests
on identifiers being unique. An interrupt between `times` and the reading of
the counter (clock.c:258-260) is subtracted from a sample it did not lengthen;
`took` counts it the same way, so that `SamplesAreExact` says that the reading
is exact, not that the compensation is.

## 4. Fairness

*Barbershop*: weak fairness of `main`, of every customer's and of every
barber's thread. A thread that can run is run by the scheduler in the end;
nothing more is needed, since a semaphore's waiters here never compete for
ever: the day has finitely many customers.

*Shell*: strong fairness of main, of the reaping handler and of the handlers
that forward keys, weak fairness of the delivery of SIGCHLD. A user may press
keys for ever, and each press interrupts main; strong fairness says that
between two keys the shell gets to run. Children and the user owe nothing: a
job may run or stay stopped for ever.

*Evaluation*: the driver is one thread, so the fairness says that it goes on
while it can. For the steps that call no allocator this is WF. The allocators
are too large for TLC to evaluate under ENABLED, and for the steps that call
them the same is said with a predicate, `Calling`, that holds where such a step
can be taken: infinitely often not `Calling`, or infinitely often a step.

The desk and the allocators by themselves state no liveness: the desk waits for
the shop, and an allocator is sequential code that always returns.

## 5. What is proved

The theorems hold for every value of the constants that the named assumptions
allow (`ThrlabAssumption`, and the like), not for the bounds of the runs. What a
theorem assumes beyond these is in its statement and named below.

* **The desk under any shop** (`AnyShopProofs`): `ThrlabTypeOK`, `CountsAgree`,
  `RoomsAgree`, `OvercrowdingReported`, `VerdictIsEarned`. The invariant adds
  `DoorAgrees`, which says what the door may rely on between starting a thread
  and counting the customer. The verdict is earned because the three counters
  that `check_complaints` adds up are the customers who are still about, and
  because none of them moves once it is spoken. `ThrlabProofs` has one lemma per action of the desk, and both
  `AnyShop` and `Barbershop` use them.
* **The barbershop** (`BarbershopProofs`): the safety invariants of the run
  except the refinement follow from one inductive invariant `IInv`, which
  says who holds the mutex (`MutexHeld`), what each thread may rely on at each
  step (`CustomersInPlace`, `BarbersInPlace`), what the ring holds
  (`RingHolds`) and how semaphores, ring and threads add up (`Accounts`).
  None of the properties is inductive alone: that the ring does not overflow
  needs the account of `slots`, which needs to know where every thread is.
* **Refinement** (`ShopImplementsWaitingRoom`): every step of the shop is a step of
  `WaitingRoom` or leaves it unchanged; `Insert` seats, `Fetch` calls,
  `DismissCustomer` releases. It rests on `IInv`.
* **The shell** (`TshProofs`): type correctness, `OneForeground`,
  `ForegroundIsAwaited`, `JobsAreChildren` and `BackgroundUntouched`, for any
  size of the list and any set of pids. The invariant adds what the signal
  mask protects between fork and addjob (`MaskInv`), that entries not in use
  are clear (`EmptyInv`), what `eval`'s pid and job and `do_bgfg`'s pointer
  mean while handlers run (`ForkedInv`, `PointerInv`, `WaitInv`), which
  children have a group (`GroupInv`), and what a handler that was interrupted
  still remembers (`TargetInv`). `ChildrenAreListed` needs one more assumption
  in its theorem, an entry for every pid, and a pigeonhole argument that then
  `addjob` always finds room. `QuietTable` is proved under the assumption its
  run makes, that nobody types `fg` or `bg`: both write a state over the one a
  handler has just written (see fg_hangs). Its invariant `StopsInv` follows a
  stop on its way to the list: a child that stopped is marked stopped, or its
  stop is news that the kernel has not told, and as long as there is news a
  SIGCHLD is pending or being handled.
* **The heap** (`MmProofs`): lemmas for both allocators. A set of addresses
  *tiles* a heap (`Tiling`) when each of its blocks ends where the next one
  starts, from the prologue to the epilogue at the break, with equal tags at both
  ends. Writing tags around neighbours fuses them (`FuseTiles`), writing tags
  within a block splits it (`SplitTiles`), `extend_heap` appends one
  (`GrownTiles`), and `coalesce` leaves no two free blocks side by side
  (`JoinedCoalesces`); each lemma says also which words it leaves alone. A walk
  goes over all blocks of the tiling in order (`WalkIsTiles`), and the first that
  fits is the lowest (`FirstOfFits`). `AdjustedIsEnough`: the block that serves
  a request of any size holds the payload, both tags and the links, and wastes
  less than a minimal block.
* **The free list** (`MmProofs`): a set of blocks is *linked* (`Linked`) when its
  members can be numbered by an age such that `next` leads from each to a
  smaller number and `prev` back. With numbers instead of a path, `insertBlock`
  gives the new head a number above all, `removeBlock` takes one out of any
  place, and neither needs an induction over the list; that following the list
  from its head reaches every member (`ListCovers`) is proved once. A heap is
  *tidy* (`Tidy`) when it is tiled without two free neighbours and its free
  blocks are linked. Each function has its contract (`MmAllocates`, `MmFrees`,
  `MmReallocates` with the cases `StaysPut`, `GrowsOut` and `MovesOut`,
  `MmStarts`; `FirstFitAllocates` and so on): the heap is in order afterwards,
  the other blocks in use keep their tags and words, and the answer is a block
  that serves the request.
* **The driver** (`MdriverProofs`), linked with either package, with any heap in
  which `mm_init` succeeds (`16 + CHUNKSIZE <= MAX_HEAP`), any numbers and any
  sizes: `TypeOK`, `HeapChecks`, `FreeListIsTheFreeBlocks`,
  `ClientOwnsAllocated`, `PayloadsKept`, `FailsOnlyWhenFull` and the refinement
  `ImplementsArena`. The inductive invariant (`Inductive`, theorem `KeepsOrder`)
  says that some tiling of the heap has no two free neighbours, that its blocks
  in use are the prologue and the client's, with what he wrote in them, that the
  driver's ranges are the payloads, that an error is one of exhausted memory
  (`InOrder`), and that the free list is linked (`ListOK`). None of the
  properties is inductive alone: that a payload survives needs the tags of all
  blocks to be where the code looks for them, and for `mm.c` the links too, since
  `removeBlock` writes through them.
  The theorems assume `Suited` of `mm.c`, and nothing of `mm-firstfit.c`: no
  block is larger than a chunk, and `memcpy` copies upwards. Both are the limits
  of the code and not of the proof. A block that grows by a chunk less 8 bytes or
  more corrupts the heap (the run realloc_grows_a_chunk), and a `memcpy` that
  copies downwards destroys a payload that moves into its free predecessor (section 3).
  `FailsOnlyWhenFull` assumes that no block is larger than a chunk for both, since a
  larger one fails while a chunk would still fit. For the
  refinement, the free blocks are shown to be the arena's gaps (`GapsAreFree`,
  which rests on coalescing), the block that is found to be the place that the
  arena allows (`GrantedIsPlace`), a refusal to be one the arena must make as
  well (`DeniedHasNoPlace`), and the room that `mm_realloc` finds by looking at
  the tags before and after a block to be the room around its extent
  (`RoomIsJoin`).
* **The arena** (`ArenaProofs`) keeps its extents apart and below the limit, for
  any lengths, any chunk and any policy; with the refinement, this is what a
  client of either package relies on. The invariant adds only types; the work is
  in `GapIsFree` and `PlaceIsFree`, which say what a gap is.
* **Timing** (`EvaluationProofs`): the subtraction by words with a borrow is exact for
  any word size (`CounterIsExact`, from quotients and remainders); every sample
  is exact; whenever the values are looked at, they are the smallest samples,
  each as often as it was taken (`ValuesAreTheSmallest`, which places the values at the indices of distinct
  samples and finds all other samples no smaller). The invariant says that during the insertion sort only the value at `pos`
  may be below one before it (`SortedButOne`), that only samples are kept and
  that none is below all that is kept. `DriverIsTimedRightly` carries this to
  the driver: every step of `Evaluation` is one of `Fcyc`'s or leaves it alone.
  `ScoresRestOnElapsedTime` is `TimeIsElapsed` for all three methods.
* **The evaluation of a trace** (`EvaluationProofs`), under the assumptions of the
  driver: `EvalTypeOK` and `HighWater`. The invariant `EvalIInv` goes through the
  phases of `main`. During the validation it is the driver's, and the numbers with
  a block are those that the trace, so far as it has been recorded, leaves with a
  size (`Holding`), so that a recorded trace is one whose requests can be made one
  after the other (`LegalTrace`). From then on some tiling of the heap serves the
  client of the run (`Serving`): his blocks are the ones that the first `done`
  requests leave with a size, each with room for it; nothing is said of what is in
  them, since a replay fills no payload. The contracts of the packages give this
  for every request (`ProceedServes`), from whatever heap the run before left
  (`RestartServes`). `eval_mm_util` subtracts sizes from `trace->block_sizes`,
  which the validation has filled already: they are right for the numbers that
  hold something (`Counted`), and for no other. The heap is larger than what is
  held, because the blocks are apart and below the break (`HeldIsLess`, a sum
  over the blocks in order of their addresses).
* **The runs agree** (`EvaluationProofs`): `ReplaysAgree`, and that no later run of a
  valid trace is aborted (`ValidNeverAborts`). Two heaps are *alike* (`Alike`,
  `MdriverProofs`) when they have the same blocks with the same tags and, for
  `mm.c`, the same list head and the same links in their free blocks; of payloads,
  of memory beyond the break and of what was there before, nothing is said. Each
  function of either package takes alike heaps to alike heaps and returns the same
  for both (`MallocAgrees`, `FreeAgrees`, `ReallocAgrees`, the last one however
  `memcpy` copies in each), `mm_init` makes any two heaps alike (`StartAgrees`), and
  what the driver writes into a block does not matter (`MemsetAgrees`). The
  invariant `Agreeing` compares the present run with an imaginary one over new
  memory (`Replay`: a sequence of heaps and one of tables, the first made by
  `mm_init`, each next one by a request of the trace), whose answers are the
  recorded ones: the heap is alike to the one of that run after as many requests,
  and what the client holds is at the same addresses (`Accords`). The validation,
  which fills the payloads and clears the numbers that it frees, accords with the
  run that its own requests make up; a replay starts and goes on in accord with it.
  Without that run nothing relates a replay to the validation, whose heaps are long
  gone. `Agreeing` speaks of all such runs and cannot be evaluated by TLC, which
  checks `ReplaysAgree` itself.

A walk is a recursive function of a number, and what holds of every step of it is
proved with the least number for which it would fail (`LeastNumber`, from the
well-foundedness of `<`), since the library's induction rules cannot be used.

Only model-checked: all liveness (`SeatedAreServed`, `DayEnds`,
`ZombiesAreReaped`, `PromptReturns`, `ValidIsScored`), which needs ENABLED. Every
invariant and action property that a run checks is also proved.

## 6. What is abstracted

* Names, printing and the random delays of the barbershop; a haircut's pace
  is a choice.
* Failures of the C library that the code answers with `exit` are taken at
  the points where they differ for the state: creating a thread, a full
  waiting room, exhausted memory.
* The shell's parsing, `execve`'s failure (a child that ends), groups of more
  than one process, the stdio buffers. `MaxJid` bounds the identifiers, which
  grow without limit because nothing compares them with `MAXJID`.
* Request sizes near 2^32; `mm_realloc` of NULL and of size 0 are in the model,
  but no trace asks for them. Reading a trace, options and the averages over
  traces; an unsigned counter's cycles per second.
* Error paths that are one straight line to `exit`: failures of malloc and of
  the mutex in the barbershop's `setup` and `thrlab_setup` (help.c:913 frees
  `statuses` twice).
* Where each block's number may be above 127, the driver's comparison of a
  signed char (mdriver.c:664) reports every realloc; `TraceAssumption` keeps the
  numbers below.

## 7. Plan

1. *Done, in this order*: the desk, the shop and its refinement with their
   proofs; the job list, the shell and its proofs; the allocator and the
   driver's validation; the arena and the second allocator; the timing package
   and the evaluation of a trace, with their proofs.
2. *Done*: the doubly linked list of `mm.c`, and from it, with the lemmas on tags,
   for `mm.c` all that is proved of `mm-firstfit.c`.
3. *Done*: `ReplaysAgree`, from the contracts of two heaps at a time (`Alike`,
   `Agree`).
4. *Left out for good*, unless the shell's jobs are ever pipelines: groups of two
   processes, for which `kill(-pid)` and `waitpid` would differ.
