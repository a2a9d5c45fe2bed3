----------------------------- MODULE TshProofs -----------------------------
(***************************************************************************)
(* The safety of the tiny shell, for a job list of any size and any number *)
(* of children.  The inductive invariant says, besides the properties      *)
(* themselves, what each place in the code may rely on: which places the   *)
(* signal mask protects, what the local variables of main point to, and    *)
(* what the handlers that were interrupted still remember.                 *)
(***************************************************************************)
EXTENDS Tsh, WellFoundedInduction, FiniteSetTheorems, TLAPS

-----------------------------------------------------------------------------
(* What the helpers of the job list return and do, for a list of any size. *)
(* Every access of the shell to its list is reasoned about with these      *)
(* lemmas alone.                                                           *)

(* A set of natural numbers that is not empty has a least element. *)
LEMMA LeastNumber ==
    ASSUME NEW S, S \subseteq Nat, S # {}
    PROVE  \E m \in S : \A n \in S : m <= n
<1>1. OpToRel(<, Nat) = {ss \in Nat \X Nat : ss[1] < ss[2]}
    BY Zenon DEF OpToRel
<1>2. PICK m \in S : \A n \in S : ~(<<n, m>> \in OpToRel(<, Nat))
    BY NatLessThanWellFounded, WFMin, Zenon
<1>3. ASSUME NEW n \in S PROVE m <= n
    <2>1. m \in Nat /\ n \in Nat
        OBVIOUS
    <2>2. <<n, m>> \notin {ss \in Nat \X Nat : ss[1] < ss[2]}
        BY <1>1, <1>2
    <2> QED BY <2>1, <2>2
<1> QED BY <1>3

LEMMA SlotsAreNumbers == Slots \subseteq Nat /\ NULL \notin Slots
    BY JobListAssumption DEF Slots

(* A search of the table returns an entry it looks for, or NULL only when  *)
(* there is none.                                                          *)
LEMMA FirstOfSound ==
    ASSUME NEW S, S \subseteq Slots
    PROVE  /\ FirstOf(S) = NULL <=> S = {}
           /\ S # {} => FirstOf(S) \in S
<1>1. CASE S = {}
    BY <1>1 DEF FirstOf
<1>2. CASE S # {}
    <2>1. \E m \in S : \A n \in S : m <= n
        BY <1>2, LeastNumber, SlotsAreNumbers
    <2>2. FirstOf(S) \in S
        BY <1>2, <2>1 DEF FirstOf
    <2> QED BY <1>2, <2>2, SlotsAreNumbers
<1> QED BY <1>1, <1>2

(* getjobpid finds a listed process, and only a listed one. *)
LEMMA GetJobPid ==
    ASSUME NEW p \in Pids
    PROVE  /\ getjobpid(p) = NULL => \A i \in Slots : jobs[i].pid # p
           /\ getjobpid(p) # NULL => /\ getjobpid(p) \in Slots
                                     /\ jobs[getjobpid(p)].pid = p
<1> DEFINE S == {i \in Slots : p >= 1 /\ jobs[i].pid = p}
<1>1. p \in Nat /\ p >= 1
    BY JobListAssumption
<1>2. /\ FirstOf(S) = NULL <=> S = {}
      /\ S # {} => FirstOf(S) \in S
    BY FirstOfSound
<1>3. getjobpid(p) = FirstOf(S)
    BY DEF getjobpid
<1> QED BY <1>1, <1>2, <1>3

LEMMA GetJobJid ==
    ASSUME NEW j \in Nat, getjobjid(j) # NULL
    PROVE  /\ getjobjid(j) \in Slots
           /\ jobs[getjobjid(j)].jid = j /\ j >= 1
<1> DEFINE S == {i \in Slots : j >= 1 /\ jobs[i].jid = j}
<1>1. /\ FirstOf(S) = NULL <=> S = {}
      /\ S # {} => FirstOf(S) \in S
    BY FirstOfSound
<1>2. getjobjid(j) = FirstOf(S)
    BY DEF getjobjid
<1> QED BY <1>1, <1>2

LEMMA FreeSlot ==
    /\ freeslot = NULL => \A i \in Slots : jobs[i].pid # 0
    /\ freeslot # NULL => freeslot \in Slots /\ jobs[freeslot].pid = 0
<1> DEFINE S == {i \in Slots : jobs[i].pid = 0}
<1>1. /\ FirstOf(S) = NULL <=> S = {}
      /\ S # {} => FirstOf(S) \in S
    BY FirstOfSound
<1>2. freeslot = FirstOf(S)
    BY DEF freeslot
<1> QED BY <1>1, <1>2

(* fgpid returns the process of an entry in the foreground, or 0. *)
LEMMA FgPid ==
    ASSUME JobListTypeOK
    PROVE  /\ fgpid \in Pids \cup {0}
           /\ fgpid # 0 => \E i \in Slots : /\ jobs[i].state = "FG"
                                            /\ jobs[i].pid = fgpid
<1> DEFINE S == {k \in Slots : jobs[k].state = "FG"}
<1>1. /\ FirstOf(S) = NULL <=> S = {}
      /\ S # {} => FirstOf(S) \in S
    BY FirstOfSound
<1>2. fgpid = IF FirstOf(S) = NULL THEN 0 ELSE jobs[FirstOf(S)].pid
    BY DEF fgpid
<1>3. \A i \in Slots : jobs[i].pid \in Pids \cup {0}
    BY DEF JobListTypeOK
<1> QED BY <1>1, <1>2, <1>3

(* A table has a largest job identifier. *)
HasLargest(f, n) == \E i \in 0 .. n : \A k \in 0 .. n : f[k] <= f[i]

LEMMA LargestJid ==
    ASSUME NEW f \in [Slots -> Nat]
    PROVE  \E i \in Slots : \A k \in Slots : f[k] <= f[i]
<1> DEFINE Lacking == {n \in Slots : ~HasLargest(f, n)}
<1>1. MAXJOBS \in Nat /\ MAXJOBS >= 1
    BY JobListAssumption
<1>2. \A k \in 0 .. MAXJOBS - 1 : f[k] \in Nat
    BY DEF Slots
<1>3. Lacking = {}
    <2> SUFFICES ASSUME Lacking # {} PROVE FALSE
        OBVIOUS
    <2>1. Lacking \subseteq Nat
        BY SlotsAreNumbers
    <2>2. PICK n \in Lacking : \A m \in Lacking : n <= m
        BY <2>1, LeastNumber
    <2>3. n \in 0 .. MAXJOBS - 1 /\ ~HasLargest(f, n)
        BY DEF Slots
    <2>4. n # 0
        <3>1. SUFFICES ASSUME n = 0 PROVE FALSE
            OBVIOUS
        <3>2. 0 \in 0 .. n /\ \A k \in 0 .. n : k = 0
            BY <3>1
        <3>3. f[0] \in Nat
            BY <1>1, <1>2
        <3>4. \A k \in 0 .. n : f[k] <= f[0]
            BY <3>2, <3>3
        <3> QED BY <2>3, <3>2, <3>4 DEF HasLargest
    <2>5. n - 1 \in Slots /\ ~(n <= n - 1)
        BY <1>1, <2>3, <2>4 DEF Slots
    <2>6. n - 1 \notin Lacking
        BY <2>2, <2>5
    <2>7. PICK i \in 0 .. n - 1 : \A k \in 0 .. n - 1 : f[k] <= f[i]
        BY <2>5, <2>6 DEF HasLargest
    <2>8. /\ n \in 0 .. n /\ i \in 0 .. n
          /\ f[i] \in Nat /\ f[n] \in Nat
          /\ \A k \in 0 .. n : f[k] \in Nat /\ (k \in 0 .. n - 1 \/ k = n)
        BY <1>1, <1>2, <2>3
    <2>9. HasLargest(f, n)
        <3>1. CASE f[i] <= f[n]
            <4>1. \A k \in 0 .. n : f[k] <= f[n]
                BY <2>7, <2>8, <3>1
            <4> QED BY <2>8, <4>1 DEF HasLargest
        <3>2. CASE ~(f[i] <= f[n])
            <4>1. f[n] <= f[i]
                BY <2>8, <3>2
            <4>2. \A k \in 0 .. n : f[k] <= f[i]
                BY <2>7, <2>8, <4>1
            <4> QED BY <2>8, <4>2 DEF HasLargest
        <3> QED BY <3>1, <3>2
    <2> QED BY <2>3, <2>9
<1>4. MAXJOBS - 1 \in Slots
    BY <1>1 DEF Slots
<1>5. HasLargest(f, MAXJOBS - 1)
    BY <1>3, <1>4
<1> QED BY <1>5 DEF HasLargest, Slots

LEMMA MaxJidType ==
    ASSUME NEW table, \A i \in Slots : table[i].jid \in Nat
    PROVE  maxjid(table) \in Nat
<1> DEFINE f == [i \in Slots |-> table[i].jid]
           S == {table[i].jid : i \in Slots}
<1>1. f \in [Slots -> Nat] /\ \A i \in Slots : f[i] = table[i].jid
    OBVIOUS
<1> HIDE DEF f
<1>2. PICK i \in Slots : \A k \in Slots : f[k] <= f[i]
    BY <1>1, LargestJid
<1>3. \E m \in S : \A k \in Slots : table[k].jid <= m
    BY <1>1, <1>2
<1>4. maxjid(table) \in S
    BY <1>3 DEF maxjid
<1> QED BY <1>4

-----------------------------------------------------------------------------
(* What the three writers of the list do to each of its entries. *)

(* A change of an entry's state changes nothing else. *)
LEMMA SetStateDoes ==
    ASSUME JobListTypeOK, NEW i \in Slots, NEW s \in JobStates, setstate(i, s)
    PROVE  /\ JobListTypeOK'
           /\ \A k \in Slots : /\ jobs'[k].pid = jobs[k].pid
                               /\ jobs'[k].jid = jobs[k].jid
                               /\ jobs'[k].state = IF k = i
                                                   THEN s ELSE jobs[k].state
<1>1. jobs' = [jobs EXCEPT ![i].state = s] /\ nextjid' = nextjid
    BY DEF setstate
<1>2. jobs \in [Slots -> [pid : Pids \cup {0}, jid : Nat, state : JobStates]]
    BY DEF JobListTypeOK
<1>3. jobs' \in [Slots -> [pid : Pids \cup {0}, jid : Nat, state : JobStates]]
    BY <1>1, <1>2
<1>4. JobListTypeOK'
    BY <1>1, <1>3 DEF JobListTypeOK
<1> QED BY <1>1, <1>2, <1>4

(* addjob takes a free entry, and leaves the list alone only if there is   *)
(* none.                                                                   *)
LEMMA AddJobDoes ==
    ASSUME JobListTypeOK, NEW p \in Pids, NEW s \in JobStates, addjob(p, s)
    PROVE  /\ JobListTypeOK'
           /\ \/ jobs' = jobs /\ \A i \in Slots : jobs[i].pid # 0
              \/ \E f \in Slots :
                    /\ jobs[f].pid = 0
                    /\ jobs'[f].pid = p /\ jobs'[f].state = s
                    /\ jobs'[f].jid = nextjid
                    /\ \A k \in Slots : k # f => jobs'[k] = jobs[k]
<1>1. CASE freeslot = NULL
    <2>1. jobs' = jobs /\ nextjid' = nextjid
        BY <1>1 DEF addjob, jobVars
    <2> QED BY <1>1, <2>1, FreeSlot DEF JobListTypeOK
<1>2. CASE freeslot # NULL
    <2> DEFINE f == freeslot
               entry == [pid |-> p, jid |-> nextjid, state |-> s]
    <2>1. f \in Slots /\ jobs[f].pid = 0
        BY <1>2, FreeSlot
    <2>2. /\ jobs' = [jobs EXCEPT ![f] = entry]
          /\ nextjid' = IF nextjid + 1 > MAXJOBS THEN 1 ELSE nextjid + 1
        BY <1>2 DEF addjob
    <2> HIDE DEF f
    <2>3. /\ jobs \in [Slots -> [pid : Pids \cup {0}, jid : Nat,
                                 state : JobStates]]
          /\ nextjid \in Nat \ {0}
        BY DEF JobListTypeOK
    <2>4. entry \in [pid : Pids \cup {0}, jid : Nat, state : JobStates]
        BY <2>3
    <2>5. nextjid' \in Nat \ {0}
        BY <2>2, <2>3, JobListAssumption
    <2>6. jobs' \in [Slots -> [pid : Pids \cup {0}, jid : Nat,
                               state : JobStates]]
        BY <2>1, <2>2, <2>3, <2>4
    <2>7. JobListTypeOK'
        BY <2>5, <2>6 DEF JobListTypeOK
    <2>8. jobs'[f] = entry /\ \A k \in Slots : k # f => jobs'[k] = jobs[k]
        BY <2>1, <2>2, <2>3
    <2> QED BY <2>1, <2>7, <2>8
<1> QED BY <1>1, <1>2

(* deletejob clears the entry of p; where p is listed once, it is listed   *)
(* no more.                                                                *)
LEMMA DeleteJobDoes ==
    ASSUME JobListTypeOK, NEW p \in Pids, deletejob(p),
           \A i, k \in Slots : jobs[i].pid = p /\ jobs[k].pid = p => i = k
    PROVE  /\ JobListTypeOK'
           /\ \A k \in Slots : jobs'[k] = IF jobs[k].pid = p
                                          THEN cleared ELSE jobs[k]
<1>1. CASE getjobpid(p) = NULL
    <2>1. jobs' = jobs /\ nextjid' = nextjid
        BY <1>1 DEF deletejob, jobVars
    <2> QED BY <1>1, <2>1, GetJobPid DEF JobListTypeOK
<1>2. CASE getjobpid(p) # NULL
    <2> DEFINE i == getjobpid(p)
    <2>1. i \in Slots /\ jobs[i].pid = p
        BY <1>2, GetJobPid
    <2>2. /\ jobs' = [jobs EXCEPT ![i] = cleared]
          /\ nextjid' = maxjid(jobs') + 1
        BY <1>2 DEF deletejob
    <2> HIDE DEF i
    <2>3. jobs \in [Slots -> [pid : Pids \cup {0}, jid : Nat,
                              state : JobStates]]
        BY DEF JobListTypeOK
    <2>4. cleared \in [pid : Pids \cup {0}, jid : Nat, state : JobStates]
        BY DEF cleared, JobStates
    <2>5. jobs' \in [Slots -> [pid : Pids \cup {0}, jid : Nat,
                               state : JobStates]]
        BY <2>1, <2>2, <2>3, <2>4
    <2>6. \A k \in Slots : jobs'[k].jid \in Nat
        BY <2>5
    <2>7. maxjid(jobs') \in Nat
        BY <2>6, MaxJidType
    <2>8. JobListTypeOK'
        BY <2>2, <2>5, <2>7 DEF JobListTypeOK
    <2>9. \A k \in Slots : jobs'[k] = IF k = i THEN cleared ELSE jobs[k]
        BY <2>1, <2>2, <2>3
    <2> QED BY <2>1, <2>8, <2>9
<1> QED BY <1>1, <1>2

-----------------------------------------------------------------------------
(* The shell.                                                              *)

(* SIGCHLD is masked from the fork to the end of addjob, and its handler   *)
(* does not run there.                                                     *)
MaskInv ==
    /\ masked <=> pc \in {"addjob", "unblock"}
    /\ masked => \A k \in DOMAIN frames : frames[k].sig # "SIGCHLD"

(* An entry without a process has no job identifier either. *)
EmptyInv == \A i \in Slots : jobs[i].pid = 0 => jobs[i].jid = 0

(* eval's child exists, and is not listed before addjob has listed it. *)
ForkedInv ==
    /\ pc # "prompt" => pid \in Pids
    /\ pc = "addjob" => /\ proc[pid] # "none"
                        /\ \A i \in Slots : jobs[i].pid # pid

(* The entry do_bgfg holds is the job's as long as the job is listed. *)
PointerInv ==
    pc \in {"continue", "setstate"} =>
        /\ job \in Slots /\ jobs[job].pid \in {pid, 0}
        /\ jobs[job].pid = 0 => \A i \in Slots : jobs[i].pid # pid

(* What waitfg will find, and then what it holds. *)
WaitInv ==
    /\ \A i \in Slots : jobs[i].state = "FG" /\ jobs[i].pid = 0
            => \A k \in Slots : jobs[k].pid # pid
    /\ pc = "unblock" /\ mode = "BG" => \A i \in Slots : jobs[i].state # "FG"
    /\ pc = "waiting" => /\ job \in Slots
                         /\ \A i \in Slots : jobs[i].state = "FG" => i = job

(* A program runs only in a process group of its own. *)
InOwnGroup == {"grouped", "running", "stopped", "doomed"}

GroupInv == \A p \in Pids : proc[p] \in InOwnGroup => p \in own

(* The job a handler is about to signal has not become a background job.   *)
TargetInv ==
    \A k \in DOMAIN frames : \A i \in Slots :
        frames[k].pid # 0 /\ jobs[i].pid = frames[k].pid
            => jobs[i].state # "BG"

IInv == /\ TypeOK /\ OneForeground /\ ForegroundIsAwaited /\ JobsAreChildren
        /\ MaskInv /\ EmptyInv /\ ForkedInv /\ PointerInv /\ WaitInv
        /\ GroupInv /\ TargetInv

(* One lemma for each operation on the stack of handlers and for the       *)
(* sending of signals, then one for each action.                           *)

Frame == [sig : Keys \cup {"SIGCHLD"}, pid : Pids \cup {0}]

(* A handler that starts is put before those it interrupts. *)
LEMMA PushFrame ==
    ASSUME NEW s \in Seq(Frame), NEW f \in Frame
    PROVE  /\ <<f>> \o s \in Seq(Frame)
           /\ \A k \in DOMAIN (<<f>> \o s) :
                \/ (<<f>> \o s)[k] = f
                \/ \E j \in DOMAIN s : (<<f>> \o s)[k] = s[j]
<1> DEFINE t == <<f>> \o s
<1>1. t \in Seq(Frame) /\ Len(t) = Len(s) + 1 /\ Len(s) \in Nat
    OBVIOUS
<1>2. \A k \in 1 .. Len(s) + 1 : t[k] = IF k = 1 THEN f ELSE s[k - 1]
    OBVIOUS
<1>3. DOMAIN t = 1 .. Len(s) + 1 /\ DOMAIN s = 1 .. Len(s)
    BY <1>1
<1> HIDE DEF t
<1>4. ASSUME NEW k \in DOMAIN t
      PROVE  t[k] = f \/ \E j \in DOMAIN s : t[k] = s[j]
    <2>1. k \in 1 .. Len(s) + 1
        BY <1>3
    <2>2. CASE k = 1
        BY <1>2, <2>1, <2>2
    <2>3. CASE k # 1
        <3>1. k - 1 \in DOMAIN s
            BY <1>1, <1>3, <2>1, <2>3
        <3> QED BY <1>2, <2>1, <2>3, <3>1
    <2> QED BY <2>2, <2>3
<1> QED BY <1>1, <1>4 DEF t

(* A handler that ends gives way to the one it interrupted. *)
LEMMA PopFrame ==
    ASSUME NEW s \in Seq(Frame), s # <<>>
    PROVE  /\ Tail(s) \in Seq(Frame)
           /\ 1 \in DOMAIN s /\ Head(s) = s[1] /\ s[1] \in Frame
           /\ \A k \in DOMAIN Tail(s) :
                \E j \in DOMAIN s : Tail(s)[k] = s[j]
<1>1. /\ Len(s) \in Nat /\ Len(s) >= 1 /\ DOMAIN s = 1 .. Len(s)
      /\ Head(s) = s[1] /\ s[1] \in Frame
    OBVIOUS
<1>2. /\ Tail(s) \in Seq(Frame) /\ Len(Tail(s)) = Len(s) - 1
      /\ \A k \in 1 .. Len(s) - 1 : Tail(s)[k] = s[k + 1]
    OBVIOUS
<1>3. ASSUME NEW k \in DOMAIN Tail(s)
      PROVE  \E j \in DOMAIN s : Tail(s)[k] = s[j]
    <2>1. k \in 1 .. Len(s) - 1
        BY <1>2
    <2>2. k + 1 \in DOMAIN s
        BY <1>1, <2>1
    <2> QED BY <1>2, <2>1, <2>2
<1> QED BY <1>1, <1>2, <1>3

(* The frame that a SIGCHLD pushes, alone or not. *)
LEMMA ChldFrames ==
    /\ ChldFrame \in Frame /\ ChldFrame.pid = 0 /\ ChldFrame.sig = "SIGCHLD"
    /\ <<>> \in Seq(Frame) /\ DOMAIN <<>> = {}
    /\ <<ChldFrame>> \in Seq(Frame)
    /\ \A k \in DOMAIN <<ChldFrame>> : <<ChldFrame>>[k] = ChldFrame
<1>1. ChldFrame \in Frame /\ ChldFrame.pid = 0 /\ ChldFrame.sig = "SIGCHLD"
    BY DEF ChldFrame, Frame
<1> HIDE DEF ChldFrame
<1>2. /\ <<>> \in Seq(Frame) /\ DOMAIN <<>> = {}
      /\ <<ChldFrame>> \in Seq(Frame)
    BY <1>1
<1>3. ASSUME NEW k \in DOMAIN <<ChldFrame>>
      PROVE  <<ChldFrame>>[k] = ChldFrame
    <2>1. k = 1
        OBVIOUS
    <2> QED BY <2>1
<1> QED BY <1>1, <1>2, <1>3

(* A signal neither makes nor unmakes a child, and none but a program that *)
(* runs in a group of its own, or is stopped, heeds it.                    *)
LEMMA SendDoes ==
    ASSUME TypeOK, NEW sig \in Keys \cup {"SIGCONT"},
           NEW S, S \subseteq Pids, Send(sig, S)
    PROVE  /\ proc' \in [Pids -> {"none", "forked", "grouped", "running",
                                  "stopped", "doomed", "zombie"}]
           /\ news' \subseteq Pids /\ sigchld' \in BOOLEAN
           /\ \A p \in Pids :
                /\ proc'[p] = "none" <=> proc[p] = "none"
                /\ proc'[p] \in InOwnGroup => proc[p] \in InOwnGroup
                /\ proc'[p] # proc[p]
                      => p \in S /\ proc[p] \in InOwnGroup
<1> DEFINE States == {"none", "forked", "grouped", "running", "stopped",
                      "doomed", "zombie"}
<1>1. /\ proc' = [p \in Pids |-> IF p \in S THEN After(sig, proc[p])
                                             ELSE proc[p]]
      /\ news' \subseteq Pids /\ sigchld' \in BOOLEAN
    BY DEF Send, TypeOK
<1>2. \A p \in Pids : proc[p] \in States
    BY DEF TypeOK
<1>3. \A st \in States :
        /\ After(sig, st) \in States
        /\ After(sig, st) = "none" <=> st = "none"
        /\ After(sig, st) \in InOwnGroup => st \in InOwnGroup
        /\ After(sig, st) # st => st \in InOwnGroup
    BY DEF After, InOwnGroup, Keys
<1>4. \A p \in Pids : proc'[p] = IF p \in S THEN After(sig, proc[p])
                                             ELSE proc[p]
    BY <1>1
<1>5. proc' \in [Pids -> States]
    BY <1>1, <1>2, <1>3
<1> HIDE DEF States
<1>6. \A p \in Pids :
        /\ proc'[p] = "none" <=> proc[p] = "none"
        /\ proc'[p] \in InOwnGroup => proc[p] \in InOwnGroup
        /\ proc'[p] # proc[p] => p \in S /\ proc[p] \in InOwnGroup
    BY <1>2, <1>3, <1>4
<1> QED BY <1>1, <1>5, <1>6 DEF States

(* eval forks a child that is listed nowhere, and masks SIGCHLD. *)
LEMMA ForkKeeps ==
    ASSUME IInv, NEW m \in {"FG", "BG"}, Fork(m)
    PROVE  IInv'
<1> USE DEF IInv
<1>1. PICK p \in Pids : /\ proc[p] = "none" /\ pid' = p
                       /\ proc' = [proc EXCEPT ![p] = "forked"]
    BY DEF Fork
<1>2. /\ pc = "prompt" /\ frames = <<>> /\ mode' = m /\ masked' = TRUE
      /\ pc' = "addjob" /\ jobs' = jobs /\ nextjid' = nextjid
      /\ shell' = shell /\ job' = job /\ frames' = frames
      /\ sigchld' = sigchld /\ own' = own /\ news' = news
    BY DEF Fork, MainAt, jobVars
<1>3. \A q \in Pids : proc'[q] = IF q = p THEN "forked" ELSE proc[q]
    BY <1>1 DEF TypeOK
<1>4. \A i \in Slots : jobs[i].state # "FG"
    BY <1>2 DEF ForegroundIsAwaited
<1>5. p # 0 /\ \A i \in Slots : jobs[i].pid # p
    BY <1>1, JobListAssumption DEF JobsAreChildren
<1>6. TypeOK'
    BY <1>1, <1>2 DEF TypeOK, JobListTypeOK
<1>7. OneForeground'
    BY <1>2 DEF OneForeground
<1>8. ForegroundIsAwaited'
    BY <1>2, <1>4 DEF ForegroundIsAwaited
<1>9. JobsAreChildren'
    BY <1>2, <1>3, <1>5 DEF JobsAreChildren, TypeOK, JobListTypeOK
<1>10. MaskInv'
    BY <1>2 DEF MaskInv
<1>11. EmptyInv'
    BY <1>2 DEF EmptyInv
<1>12. ForkedInv'
    BY <1>1, <1>2, <1>3, <1>5 DEF ForkedInv
<1>13. PointerInv'
    BY <1>2 DEF PointerInv
<1>14. WaitInv'
    BY <1>2, <1>4 DEF WaitInv
<1>15. GroupInv'
    BY <1>2, <1>3 DEF GroupInv, InOwnGroup
<1>16. TargetInv'
    BY <1>2 DEF TargetInv
<1> QED BY <1>6, <1>7, <1>8, <1>9, <1>10, <1>11, <1>12, <1>13, <1>14, <1>15,
   <1>16

(* addjob lists the child that was forked, in a free entry if any. *)
LEMMA AddJobKeeps ==
    ASSUME IInv, AddJob
    PROVE  IInv'
<1> USE DEF IInv
<1>1. /\ pc = "addjob" /\ pc' = "unblock" /\ frames = <<>> /\ addjob(pid, mode)
      /\ shell' = shell /\ mode' = mode /\ pid' = pid /\ job' = job
      /\ masked' = masked /\ frames' = frames /\ sigchld' = sigchld
      /\ proc' = proc /\ own' = own /\ news' = news
    BY DEF AddJob, MainAt, childVars
<1>2. pid \in Pids /\ pid # 0 /\ mode \in JobStates /\ JobListTypeOK
    BY <1>1, JobListAssumption DEF ForkedInv, TypeOK, JobStates
<1>3. /\ JobListTypeOK'
      /\ \A k \in Slots :
            \/ jobs'[k] = jobs[k]
            \/ /\ jobs[k].pid = 0
               /\ jobs'[k].pid = pid /\ jobs'[k].state = mode
      /\ \A k, l \in Slots :
            jobs'[k] # jobs[k] /\ jobs'[l] # jobs[l] => k = l
    BY <1>1, <1>2, AddJobDoes
<1>4. \A i \in Slots : jobs[i].state # "FG"
    BY <1>1 DEF ForegroundIsAwaited
<1>5. proc[pid] # "none" /\ \A i \in Slots : jobs[i].pid # pid
    BY <1>1 DEF ForkedInv
<1>6. mode = "FG" \/ mode = "BG"
    BY DEF TypeOK
<1>7. TypeOK'
    BY <1>1, <1>3 DEF TypeOK
<1>8. OneForeground'
    BY <1>3, <1>4 DEF OneForeground
<1>9. ForegroundIsAwaited'
    BY <1>1, <1>3 DEF ForegroundIsAwaited
<1>10. JobsAreChildren'
    BY <1>1, <1>3, <1>5 DEF JobsAreChildren
<1>11. MaskInv'
    BY <1>1 DEF MaskInv
<1>12. EmptyInv'
    BY <1>2, <1>3 DEF EmptyInv
<1>13. ForkedInv'
    BY <1>1 DEF ForkedInv
<1>14. PointerInv'
    BY <1>1 DEF PointerInv
<1>15. WaitInv'
    BY <1>1, <1>2, <1>3, <1>4 DEF WaitInv
<1>16. GroupInv'
    BY <1>1 DEF GroupInv, InOwnGroup
<1>17. TargetInv'
    BY <1>1 DEF TargetInv
<1> QED BY <1>7, <1>8, <1>9, <1>10, <1>11, <1>12, <1>13, <1>14, <1>15, <1>16,
   <1>17

(* The mask is lifted; a pending SIGCHLD is delivered at once. *)
LEMMA UnblockKeeps ==
    ASSUME IInv, Unblock
    PROVE  IInv'
<1> USE DEF IInv
<1>1. /\ pc = "unblock" /\ frames = <<>> /\ masked' = FALSE /\ sigchld' = FALSE
      /\ frames' = IF sigchld THEN <<ChldFrame>> ELSE frames
      /\ jobs' = jobs /\ nextjid' = nextjid /\ shell' = shell /\ mode' = mode
      /\ proc' = proc /\ own' = own /\ news' = news
    BY DEF Unblock, MainAt, childVars, jobVars
<1>2. \/ mode = "FG" /\ pc' = "waitfg" /\ pid' = pid /\ job' = job
      \/ mode = "BG" /\ pc' = "prompt" /\ pid' = 0 /\ job' = NULL
    BY DEF Unblock, ToPrompt, TypeOK
<1>3. /\ frames' \in Seq(Frame)
      /\ \A k \in DOMAIN frames' : frames'[k].pid = 0
    BY <1>1, ChldFrames
<1>4. pc' = "prompt" => \A i \in Slots : jobs[i].state # "FG"
    BY <1>1, <1>2 DEF WaitInv
<1>5. TypeOK'
    BY <1>1, <1>2, <1>3 DEF TypeOK, JobListTypeOK, Frame
<1>6. OneForeground'
    BY <1>1 DEF OneForeground
<1>7. ForegroundIsAwaited'
    BY <1>1, <1>2, <1>4 DEF ForegroundIsAwaited
<1>8. JobsAreChildren'
    BY <1>1 DEF JobsAreChildren
<1>9. MaskInv'
    BY <1>1, <1>2 DEF MaskInv
<1>10. EmptyInv'
    BY <1>1 DEF EmptyInv
<1>11. ForkedInv'
    BY <1>1, <1>2 DEF ForkedInv
<1>12. PointerInv'
    BY <1>2 DEF PointerInv
<1>13. WaitInv'
    BY <1>1, <1>2 DEF WaitInv
<1>14. GroupInv'
    BY <1>1 DEF GroupInv, InOwnGroup
<1>15. TargetInv'
    BY <1>3 DEF TargetInv
<1> QED BY <1>5, <1>6, <1>7, <1>8, <1>9, <1>10, <1>11, <1>12, <1>13, <1>14,
   <1>15

(* The shell may die of an empty line. *)
LEMMA BlankLineKeeps ==
    ASSUME IInv, BlankLine
    PROVE  IInv'
<1> USE DEF IInv
<1>1. /\ jobs' = jobs /\ nextjid' = nextjid /\ pc' = pc /\ mode' = mode
      /\ pid' = pid /\ job' = job /\ masked' = masked /\ frames' = frames
      /\ sigchld' = sigchld /\ proc' = proc /\ own' = own /\ news' = news
      /\ shell' \in {"up", "exited", "crashed"}
    BY DEF BlankLine, MainAt, Crash, jobVars, shellVars, childVars
<1>2. TypeOK'
    BY <1>1 DEF TypeOK, JobListTypeOK
<1>3. OneForeground'
    BY <1>1 DEF OneForeground
<1>4. ForegroundIsAwaited'
    BY <1>1 DEF ForegroundIsAwaited
<1>5. JobsAreChildren'
    BY <1>1 DEF JobsAreChildren
<1>6. MaskInv'
    BY <1>1 DEF MaskInv
<1>7. EmptyInv'
    BY <1>1 DEF EmptyInv
<1>8. ForkedInv'
    BY <1>1 DEF ForkedInv
<1>9. PointerInv'
    BY <1>1 DEF PointerInv
<1>10. WaitInv'
    BY <1>1 DEF WaitInv
<1>11. GroupInv'
    BY <1>1 DEF GroupInv, InOwnGroup
<1>12. TargetInv'
    BY <1>1 DEF TargetInv
<1> QED BY <1>2, <1>3, <1>4, <1>5, <1>6, <1>7, <1>8, <1>9, <1>10, <1>11, <1>12

(* The shell may exit. *)
LEMMA ExitKeeps ==
    ASSUME IInv, Exit
    PROVE  IInv'
<1> USE DEF IInv
<1>1. /\ jobs' = jobs /\ nextjid' = nextjid /\ pc' = pc /\ mode' = mode
      /\ pid' = pid /\ job' = job /\ masked' = masked /\ frames' = frames
      /\ sigchld' = sigchld /\ proc' = proc /\ own' = own /\ news' = news
      /\ shell' \in {"up", "exited", "crashed"}
    BY DEF Exit, jobVars, shellVars, childVars
<1>2. TypeOK'
    BY <1>1 DEF TypeOK, JobListTypeOK
<1>3. OneForeground'
    BY <1>1 DEF OneForeground
<1>4. ForegroundIsAwaited'
    BY <1>1 DEF ForegroundIsAwaited
<1>5. JobsAreChildren'
    BY <1>1 DEF JobsAreChildren
<1>6. MaskInv'
    BY <1>1 DEF MaskInv
<1>7. EmptyInv'
    BY <1>1 DEF EmptyInv
<1>8. ForkedInv'
    BY <1>1 DEF ForkedInv
<1>9. PointerInv'
    BY <1>1 DEF PointerInv
<1>10. WaitInv'
    BY <1>1 DEF WaitInv
<1>11. GroupInv'
    BY <1>1 DEF GroupInv, InOwnGroup
<1>12. TargetInv'
    BY <1>1 DEF TargetInv
<1> QED BY <1>2, <1>3, <1>4, <1>5, <1>6, <1>7, <1>8, <1>9, <1>10, <1>11, <1>12

(* do_bgfg remembers an entry that holds a job. *)
LEMMA DoBgFgKeeps ==
    ASSUME IInv, NEW m \in {"FG", "BG"}, NEW i \in Arguments, DoBgFg(m, i)
    PROVE  IInv'
<1> USE DEF IInv
<1>1. /\ pc = "prompt" /\ pc' = "continue" /\ mode' = m
      /\ pid' = jobs[i].pid /\ job' = i
      /\ jobs' = jobs /\ nextjid' = nextjid /\ shell' = shell
      /\ masked' = masked
      /\ frames' = frames /\ sigchld' = sigchld /\ proc' = proc /\ own' = own
      /\ news' = news
    BY DEF DoBgFg, MainAt, jobVars, shellVars, childVars
<1>2. i \in Slots /\ (jobs[i].pid # 0 \/ jobs[i].jid # 0)
    <2>1. CASE \E p \in Pids : i = getjobpid(p)
        BY <2>1, GetJobPid, JobListAssumption DEF Arguments
    <2>2. CASE \E j \in 1 .. MaxJid : i = getjobjid(j)
        <3>1. PICK j \in 1 .. MaxJid : i = getjobjid(j)
            BY <2>2
        <3>2. j \in Nat /\ i # NULL
            BY DEF Arguments
        <3>3. i \in Slots /\ jobs[i].jid = j /\ j >= 1
            BY <3>1, <3>2, GetJobJid
        <3> QED BY <3>3
    <2> QED BY <2>1, <2>2 DEF Arguments
<1>3. jobs[i].pid # 0
    BY <1>2 DEF EmptyInv
<1>4. jobs[i].pid \in Pids
    BY <1>2, <1>3 DEF TypeOK, JobListTypeOK
<1>5. \A k \in Slots : jobs[k].state # "FG"
    BY <1>1 DEF ForegroundIsAwaited
<1>6. TypeOK'
    BY <1>1, <1>2, <1>4 DEF TypeOK, JobListTypeOK
<1>7. OneForeground'
    BY <1>1 DEF OneForeground
<1>8. ForegroundIsAwaited'
    BY <1>1 DEF ForegroundIsAwaited
<1>9. JobsAreChildren'
    BY <1>1 DEF JobsAreChildren
<1>10. MaskInv'
    BY <1>1 DEF MaskInv
<1>11. EmptyInv'
    BY <1>1 DEF EmptyInv
<1>12. ForkedInv'
    BY <1>1, <1>4 DEF ForkedInv
<1>13. PointerInv'
    BY <1>1, <1>2, <1>3 DEF PointerInv
<1>14. WaitInv'
    BY <1>1, <1>5 DEF WaitInv
<1>15. GroupInv'
    BY <1>1 DEF GroupInv, InOwnGroup
<1>16. TargetInv'
    BY <1>1 DEF TargetInv
<1> QED BY <1>6, <1>7, <1>8, <1>9, <1>10, <1>11, <1>12, <1>13, <1>14, <1>15,
   <1>16

(* bg and fg continue the job. *)
LEMMA ContinueKeeps ==
    ASSUME IInv, Continue
    PROVE  IInv'
<1> USE DEF IInv
<1>1. /\ pc = "continue" /\ pc' = "setstate" /\ KillGroup(pid, "SIGCONT")
      /\ jobs' = jobs /\ nextjid' = nextjid /\ shell' = shell /\ mode' = mode
      /\ pid' = pid /\ job' = job /\ masked' = masked /\ frames' = frames
      /\ own' = own
    BY DEF Continue, MainAt, jobVars, shellVars, childVars
<1>2. {pid} \cap own \subseteq Pids
    BY DEF TypeOK
<1>3. /\ proc' \in [Pids -> {"none", "forked", "grouped", "running",
                             "stopped", "doomed", "zombie"}]
      /\ news' \subseteq Pids /\ sigchld' \in BOOLEAN
      /\ \A p \in Pids :
            /\ proc'[p] = "none" <=> proc[p] = "none"
            /\ proc'[p] \in InOwnGroup => proc[p] \in InOwnGroup
    BY <1>1, <1>2, SendDoes DEF KillGroup
<1>4. TypeOK'
    BY <1>1, <1>3 DEF TypeOK, JobListTypeOK
<1>5. OneForeground'
    BY <1>1 DEF OneForeground
<1>6. ForegroundIsAwaited'
    BY <1>1 DEF ForegroundIsAwaited
<1>7. JobsAreChildren'
    BY <1>1, <1>3 DEF JobsAreChildren, TypeOK, JobListTypeOK
<1>8. MaskInv'
    BY <1>1 DEF MaskInv
<1>9. EmptyInv'
    BY <1>1 DEF EmptyInv
<1>10. ForkedInv'
    BY <1>1 DEF ForkedInv
<1>11. PointerInv'
    BY <1>1 DEF PointerInv
<1>12. WaitInv'
    BY <1>1 DEF WaitInv
<1>13. GroupInv'
    BY <1>1, <1>3 DEF GroupInv, InOwnGroup
<1>14. TargetInv'
    BY <1>1 DEF TargetInv
<1> QED BY <1>4, <1>5, <1>6, <1>7, <1>8, <1>9, <1>10, <1>11, <1>12, <1>13, <1>14

(* bg and fg write the new state to the entry they hold. *)
LEMMA SetStateKeeps ==
    ASSUME IInv, SetState
    PROVE  IInv'
<1> USE DEF IInv
<1>1. /\ pc = "setstate" /\ setstate(job, mode) /\ frames = <<>>
      /\ shell' = shell /\ mode' = mode /\ masked' = masked /\ frames' = frames
      /\ sigchld' = sigchld /\ proc' = proc /\ own' = own /\ news' = news
    BY DEF SetState, MainAt, childVars
<1>2. \/ mode = "FG" /\ pc' = "waitfg" /\ pid' = pid /\ job' = job
      \/ mode = "BG" /\ pc' = "prompt" /\ pid' = 0 /\ job' = NULL
    BY DEF SetState, ToPrompt, TypeOK
<1>3. job \in Slots /\ mode \in JobStates /\ JobListTypeOK
    BY <1>1, <1>2 DEF PointerInv, TypeOK, JobStates
<1>4. /\ JobListTypeOK'
      /\ \A k \in Slots : /\ jobs'[k].pid = jobs[k].pid
                          /\ jobs'[k].jid = jobs[k].jid
                          /\ jobs'[k].state = IF k = job
                                              THEN mode ELSE jobs[k].state
    BY <1>1, <1>3, SetStateDoes
<1>5. \A k \in Slots : jobs[k].state # "FG"
    BY <1>1 DEF ForegroundIsAwaited
<1>6. /\ jobs[job].pid \in {pid, 0}
      /\ jobs[job].pid = 0 => \A i \in Slots : jobs[i].pid # pid
    BY <1>1 DEF PointerInv
<1>7. pid \in Pids /\ pid # 0
    BY <1>1, JobListAssumption DEF ForkedInv
<1>8. TypeOK'
    BY <1>1, <1>2, <1>4 DEF TypeOK
<1>9. OneForeground'
    BY <1>4, <1>5 DEF OneForeground
<1>10. ForegroundIsAwaited'
    BY <1>1, <1>2, <1>4, <1>6 DEF ForegroundIsAwaited
<1>11. JobsAreChildren'
    BY <1>1, <1>4 DEF JobsAreChildren
<1>12. MaskInv'
    BY <1>1, <1>2 DEF MaskInv
<1>13. EmptyInv'
    BY <1>4 DEF EmptyInv
<1>14. ForkedInv'
    BY <1>1, <1>2 DEF ForkedInv
<1>15. PointerInv'
    BY <1>2 DEF PointerInv
<1>16. WaitInv'
    BY <1>2, <1>4, <1>5, <1>6 DEF WaitInv
<1>17. GroupInv'
    BY <1>1 DEF GroupInv, InOwnGroup
<1>18. TargetInv'
    BY <1>1 DEF TargetInv
<1> QED BY <1>8, <1>9, <1>10, <1>11, <1>12, <1>13, <1>14, <1>15, <1>16,
   <1>17, <1>18

(* waitfg holds the entry of the one job that is in the foreground. *)
LEMMA WaitFgKeeps ==
    ASSUME IInv, WaitFg
    PROVE  IInv'
<1> USE DEF IInv
<1>1. /\ pc = "waitfg"
      /\ jobs' = jobs /\ nextjid' = nextjid /\ mode' = mode /\ pid' = pid
      /\ masked' = masked /\ frames' = frames /\ sigchld' = sigchld
      /\ proc' = proc
      /\ own' = own /\ news' = news
    BY DEF WaitFg, MainAt, Crash, jobVars, shellVars, childVars
<1>2. pid \in Pids /\ pid # 0
    BY <1>1, JobListAssumption DEF ForkedInv
<1>3. \/ /\ pc' = pc /\ job' = job /\ shell' = "crashed"
      \/ /\ pc' = "waiting" /\ job' \in Slots /\ shell' = shell
         /\ jobs[job'].pid = pid
    BY <1>1, <1>2, GetJobPid DEF WaitFg, Crash
<1>4. pc' = "waiting" => \A i \in Slots : jobs[i].state = "FG" => i = job'
    <2> SUFFICES ASSUME pc' = "waiting", NEW i \in Slots, jobs[i].state = "FG"
                 PROVE  i = job'
        OBVIOUS
    <2>1. job' \in Slots /\ jobs[job'].pid = pid
        BY <1>1, <1>3
    <2>2. jobs[i].pid \in {pid, 0}
        BY DEF ForegroundIsAwaited
    <2>3. jobs[i].pid # 0
        BY <2>1 DEF WaitInv
    <2> QED BY <1>2, <2>1, <2>2, <2>3 DEF JobsAreChildren
<1>5. TypeOK'
    BY <1>1, <1>3 DEF TypeOK, JobListTypeOK
<1>6. OneForeground'
    BY <1>1 DEF OneForeground
<1>7. ForegroundIsAwaited'
    BY <1>1, <1>3 DEF ForegroundIsAwaited
<1>8. JobsAreChildren'
    BY <1>1 DEF JobsAreChildren
<1>9. MaskInv'
    BY <1>1, <1>3 DEF MaskInv
<1>10. EmptyInv'
    BY <1>1 DEF EmptyInv
<1>11. ForkedInv'
    BY <1>1, <1>3 DEF ForkedInv
<1>12. PointerInv'
    BY <1>1, <1>3 DEF PointerInv
<1>13. WaitInv'
    BY <1>1, <1>3, <1>4 DEF WaitInv
<1>14. GroupInv'
    BY <1>1 DEF GroupInv, InOwnGroup
<1>15. TargetInv'
    BY <1>1 DEF TargetInv
<1> QED BY <1>5, <1>6, <1>7, <1>8, <1>9, <1>10, <1>11, <1>12, <1>13, <1>14,
   <1>15

(* When waitfg returns, no job is left in the foreground. *)
LEMMA WaitOverKeeps ==
    ASSUME IInv, WaitOver
    PROVE  IInv'
<1> USE DEF IInv
<1>1. /\ pc = "waiting" /\ jobs[job].state # "FG"
      /\ pc' = "prompt" /\ pid' = 0 /\ job' = NULL
      /\ jobs' = jobs /\ nextjid' = nextjid /\ shell' = shell /\ mode' = mode
      /\ masked' = masked /\ frames' = frames /\ sigchld' = sigchld
      /\ proc' = proc
      /\ own' = own /\ news' = news
    BY DEF WaitOver, MainAt, ToPrompt, jobVars, shellVars, childVars
<1>2. \A i \in Slots : jobs[i].state # "FG"
    BY <1>1 DEF WaitInv
<1>3. TypeOK'
    BY <1>1 DEF TypeOK, JobListTypeOK
<1>4. OneForeground'
    BY <1>1, <1>2 DEF OneForeground
<1>5. ForegroundIsAwaited'
    BY <1>1, <1>2 DEF ForegroundIsAwaited
<1>6. JobsAreChildren'
    BY <1>1, <1>2 DEF JobsAreChildren
<1>7. MaskInv'
    BY <1>1, <1>2 DEF MaskInv
<1>8. EmptyInv'
    BY <1>1, <1>2 DEF EmptyInv
<1>9. ForkedInv'
    BY <1>1, <1>2 DEF ForkedInv
<1>10. PointerInv'
    BY <1>1, <1>2 DEF PointerInv
<1>11. WaitInv'
    BY <1>1, <1>2 DEF WaitInv
<1>12. GroupInv'
    BY <1>1, <1>2 DEF GroupInv, InOwnGroup
<1>13. TargetInv'
    BY <1>1, <1>2 DEF TargetInv
<1> QED BY <1>3, <1>4, <1>5, <1>6, <1>7, <1>8, <1>9, <1>10, <1>11, <1>12, <1>13

(* A key is pressed: the handler remembers the foreground job. *)
LEMMA PressKeeps ==
    ASSUME IInv, NEW sig \in Keys, Press(sig)
    PROVE  IInv'
<1> USE DEF IInv
<1>1. /\ frames' = <<[sig |-> sig, pid |-> fgpid]>> \o frames
      /\ Send(sig, Pids \ own)
      /\ jobs' = jobs /\ nextjid' = nextjid /\ shell' = shell /\ pc' = pc
      /\ mode' = mode /\ pid' = pid /\ job' = job /\ masked' = masked
      /\ own' = own
    BY DEF Press, jobVars, shellVars, childVars
<1>2. /\ fgpid \in Pids \cup {0}
      /\ fgpid # 0 => \E i \in Slots : /\ jobs[i].state = "FG"
                                       /\ jobs[i].pid = fgpid
    BY FgPid DEF TypeOK
<1>3. fgpid # 0 => \A i \in Slots : jobs[i].pid = fgpid => jobs[i].state = "FG"
    BY <1>2 DEF JobsAreChildren
<1>4. /\ proc' \in [Pids -> {"none", "forked", "grouped", "running",
                             "stopped", "doomed", "zombie"}]
      /\ news' \subseteq Pids /\ sigchld' \in BOOLEAN
      /\ \A p \in Pids :
            /\ proc'[p] = "none" <=> proc[p] = "none"
            /\ proc'[p] \in InOwnGroup => proc[p] \in InOwnGroup
    BY <1>1, SendDoes
<1>5. frames \in Seq(Frame) /\ [sig |-> sig, pid |-> fgpid] \in Frame
    BY <1>2 DEF TypeOK, Frame
<1>6. /\ frames' \in Seq(Frame)
      /\ \A k \in DOMAIN frames' :
            \/ frames'[k] = [sig |-> sig, pid |-> fgpid]
            \/ \E j \in DOMAIN frames : frames'[k] = frames[j]
    BY <1>1, <1>5, PushFrame
<1>7. TypeOK'
    BY <1>1, <1>4, <1>6 DEF TypeOK, JobListTypeOK, Frame
<1>8. OneForeground'
    BY <1>1 DEF OneForeground
<1>9. ForegroundIsAwaited'
    BY <1>1 DEF ForegroundIsAwaited
<1>10. JobsAreChildren'
    BY <1>1, <1>4 DEF JobsAreChildren, TypeOK, JobListTypeOK
<1>11. MaskInv'
    BY <1>1, <1>6 DEF MaskInv, Keys
<1>12. EmptyInv'
    BY <1>1 DEF EmptyInv
<1>13. ForkedInv'
    BY <1>1, <1>4 DEF ForkedInv
<1>14. PointerInv'
    BY <1>1 DEF PointerInv
<1>15. WaitInv'
    BY <1>1 DEF WaitInv
<1>16. GroupInv'
    BY <1>1, <1>4 DEF GroupInv, InOwnGroup
<1>17. TargetInv'
    BY <1>1, <1>3 DEF TargetInv
<1> QED BY <1>7, <1>8, <1>9, <1>10, <1>11, <1>12, <1>13, <1>14, <1>15, <1>16,
   <1>17

(* The handler passes the signal on and returns. *)
LEMMA ForwardKeeps ==
    ASSUME IInv, NEW sig \in Keys, Forward(sig)
    PROVE  IInv'
<1> USE DEF IInv
<1>1. /\ frames # <<>> /\ frames' = Tail(frames)
      /\ jobs' = jobs /\ nextjid' = nextjid /\ shell' = shell /\ pc' = pc
      /\ mode' = mode /\ pid' = pid /\ job' = job /\ masked' = masked
      /\ own' = own
    BY DEF Forward, InHandler, jobVars, shellVars, childVars
<1>2. /\ proc' \in [Pids -> {"none", "forked", "grouped", "running",
                             "stopped", "doomed", "zombie"}]
      /\ news' \subseteq Pids /\ sigchld' \in BOOLEAN
      /\ \A p \in Pids :
            /\ proc'[p] = "none" <=> proc[p] = "none"
            /\ proc'[p] \in InOwnGroup => proc[p] \in InOwnGroup
    <2>1. CASE Head(frames).pid # 0
        <3>1. Send(sig, {Head(frames).pid} \cap own)
            BY <2>1 DEF Forward, KillGroup
        <3>2. {Head(frames).pid} \cap own \subseteq Pids
            BY DEF TypeOK
        <3> QED BY <3>1, <3>2, SendDoes
    <2>2. CASE Head(frames).pid = 0
        BY <2>2 DEF Forward, TypeOK
    <2> QED BY <2>1, <2>2
<1>3. frames \in Seq(Frame)
    BY DEF TypeOK, Frame
<1>4. /\ frames' \in Seq(Frame)
     
      /\ \A k \in DOMAIN frames' :
            \E j \in DOMAIN frames : frames'[k] = frames[j]
    BY <1>1, <1>3, PopFrame
<1>5. TypeOK'
    BY <1>1, <1>2, <1>4 DEF TypeOK, JobListTypeOK, Frame
<1>6. OneForeground'
    BY <1>1 DEF OneForeground
<1>7. ForegroundIsAwaited'
    BY <1>1 DEF ForegroundIsAwaited
<1>8. JobsAreChildren'
    BY <1>1, <1>2 DEF JobsAreChildren, TypeOK, JobListTypeOK
<1>9. MaskInv'
    BY <1>1, <1>4 DEF MaskInv, Keys
<1>10. EmptyInv'
    BY <1>1 DEF EmptyInv
<1>11. ForkedInv'
    BY <1>1, <1>2 DEF ForkedInv
<1>12. PointerInv'
    BY <1>1 DEF PointerInv
<1>13. WaitInv'
    BY <1>1 DEF WaitInv
<1>14. GroupInv'
    BY <1>1, <1>2 DEF GroupInv, InOwnGroup
<1>15. TargetInv'
    BY <1>1, <1>4 DEF TargetInv
<1> QED BY <1>5, <1>6, <1>7, <1>8, <1>9, <1>10, <1>11, <1>12, <1>13, <1>14,
   <1>15

(* The handler of SIGCHLD starts, where it is not masked. *)
LEMMA DeliverKeeps ==
    ASSUME IInv, Deliver
    PROVE  IInv'
<1> USE DEF IInv
<1>1. /\ ~masked /\ frames' = <<ChldFrame>> \o frames /\ sigchld' = FALSE
      /\ jobs' = jobs /\ nextjid' = nextjid /\ shell' = shell /\ pc' = pc
      /\ mode' = mode /\ pid' = pid /\ job' = job /\ masked' = masked
      /\ proc' = proc /\ own' = own /\ news' = news
    BY DEF Deliver, jobVars, shellVars, childVars
<1>2. frames \in Seq(Frame) /\ ChldFrame \in Frame /\ ChldFrame.pid = 0
    BY ChldFrames DEF TypeOK, Frame
<1>3. /\ frames' \in Seq(Frame)
      /\ \A k \in DOMAIN frames' :
            \/ frames'[k] = ChldFrame
            \/ \E j \in DOMAIN frames : frames'[k] = frames[j]
    BY <1>1, <1>2, PushFrame
<1>4. TypeOK'
    BY <1>1, <1>3 DEF TypeOK, JobListTypeOK, Frame
<1>5. OneForeground'
    BY <1>1 DEF OneForeground
<1>6. ForegroundIsAwaited'
    BY <1>1 DEF ForegroundIsAwaited
<1>7. JobsAreChildren'
    BY <1>1 DEF JobsAreChildren
<1>8. MaskInv'
    BY <1>1, <1>3 DEF MaskInv, Keys
<1>9. EmptyInv'
    BY <1>1 DEF EmptyInv
<1>10. ForkedInv'
    BY <1>1 DEF ForkedInv
<1>11. PointerInv'
    BY <1>1 DEF PointerInv
<1>12. WaitInv'
    BY <1>1 DEF WaitInv
<1>13. GroupInv'
    BY <1>1 DEF GroupInv, InOwnGroup
<1>14. TargetInv'
    BY <1>1, <1>2 DEF TargetInv
<1> QED BY <1>4, <1>5, <1>6, <1>7, <1>8, <1>9, <1>10, <1>11, <1>12, <1>13, <1>14

(* A child that has ended is reaped and deleted. *)
LEMMA ReapKeeps ==
    ASSUME IInv, NEW p \in Pids, Reap(p)
    PROVE  IInv'
<1> USE DEF IInv
<1>1. /\ deletejob(p) /\ proc' = [proc EXCEPT ![p] = "none"] /\ own' = own \ {p}
      /\ shell' = shell /\ pc' = pc /\ mode' = mode /\ pid' = pid
      /\ job' = job /\ masked' = masked /\ frames' = frames
      /\ sigchld' = sigchld
      /\ news' = news
    BY DEF Reap, jobVars, shellVars, childVars
<1>2. pc # "addjob"
    <2>1. frames # <<>> /\ Head(frames).sig = "SIGCHLD"
        BY DEF Reap, InHandler
    <2>2. 1 \in DOMAIN frames /\ Head(frames) = frames[1]
        BY <2>1, PopFrame DEF TypeOK, Frame
    <2> QED BY <2>1, <2>2 DEF MaskInv
<1>3. p # 0 /\ JobListTypeOK
    BY JobListAssumption DEF TypeOK
<1>4. \A i, k \in Slots : jobs[i].pid = p /\ jobs[k].pid = p => i = k
    BY <1>3 DEF JobsAreChildren
<1>5. /\ JobListTypeOK'
      /\ \A k \in Slots : jobs'[k] = IF jobs[k].pid = p
                                     THEN cleared ELSE jobs[k]
    BY <1>1, <1>3, <1>4, DeleteJobDoes
<1>6. cleared.pid = 0 /\ cleared.jid = 0 /\ cleared.state = "UNDEF"
    BY DEF cleared
<1>7. \A q \in Pids : proc'[q] = IF q = p THEN "none" ELSE proc[q]
    BY <1>1 DEF TypeOK
<1>8. \A i \in Slots : jobs[i].pid \in Pids \cup {0}
    BY DEF TypeOK, JobListTypeOK
<1>9. TypeOK'
    BY <1>1, <1>5 DEF TypeOK
<1>10. OneForeground'
    BY <1>5, <1>6 DEF OneForeground
<1>11. ForegroundIsAwaited'
    BY <1>1, <1>5, <1>6 DEF ForegroundIsAwaited
<1>12. JobsAreChildren'
    BY <1>1, <1>5, <1>6 DEF JobsAreChildren
<1>13. MaskInv'
    BY <1>1 DEF MaskInv
<1>14. EmptyInv'
    BY <1>5, <1>6 DEF EmptyInv
<1>15. ForkedInv'
    BY <1>1, <1>2 DEF ForkedInv
<1>16. PointerInv'
    BY <1>1, <1>5, <1>6 DEF PointerInv
<1>17. WaitInv'
    BY <1>1, <1>5, <1>6 DEF WaitInv
<1>18. GroupInv'
    BY <1>1, <1>7 DEF GroupInv, InOwnGroup
<1>19. TargetInv'
    BY <1>1, <1>5, <1>6 DEF TargetInv
<1> QED BY <1>9, <1>10, <1>11, <1>12, <1>13, <1>14, <1>15, <1>16, <1>17,
   <1>18, <1>19

(* A child that has stopped is marked so, or the shell dies of it. *)
LEMMA NoteStopKeeps ==
    ASSUME IInv, NEW p \in Pids, NoteStop(p)
    PROVE  IInv'
<1> USE DEF IInv
<1>1. /\ news' = news \ {p} /\ shell' \in {"up", "exited", "crashed"}
      /\ pc' = pc /\ mode' = mode /\ pid' = pid /\ job' = job
      /\ masked' = masked /\ frames' = frames /\ sigchld' = sigchld
      /\ proc' = proc
      /\ own' = own
    BY DEF NoteStop, Crash, TypeOK, jobVars, shellVars, childVars
<1>2. /\ JobListTypeOK'
      /\ \A k \in Slots : /\ jobs'[k].pid = jobs[k].pid
                          /\ jobs'[k].jid = jobs[k].jid
                          /\ jobs'[k].state \in {jobs[k].state, "ST"}
    <2>1. CASE getjobpid(p) = NULL
        <3>1. jobs' = jobs /\ nextjid' = nextjid
            BY <2>1 DEF NoteStop, jobVars
        <3> QED BY <3>1 DEF TypeOK, JobListTypeOK
    <2>2. CASE getjobpid(p) # NULL
        <3>1. getjobpid(p) \in Slots /\ setstate(getjobpid(p), "ST")
            BY <2>2, GetJobPid DEF NoteStop
        <3>2. "ST" \in JobStates /\ JobListTypeOK
            BY DEF JobStates, TypeOK
        <3> QED BY <3>1, <3>2, SetStateDoes
    <2> QED BY <2>1, <2>2
<1>3. TypeOK'
    BY <1>1, <1>2 DEF TypeOK
<1>4. OneForeground'
    BY <1>1, <1>2 DEF OneForeground
<1>5. ForegroundIsAwaited'
    BY <1>1, <1>2 DEF ForegroundIsAwaited
<1>6. JobsAreChildren'
    BY <1>1, <1>2 DEF JobsAreChildren
<1>7. MaskInv'
    BY <1>1, <1>2 DEF MaskInv
<1>8. EmptyInv'
    BY <1>1, <1>2 DEF EmptyInv
<1>9. ForkedInv'
    BY <1>1, <1>2 DEF ForkedInv
<1>10. PointerInv'
    BY <1>1, <1>2 DEF PointerInv
<1>11. WaitInv'
    BY <1>1, <1>2 DEF WaitInv
<1>12. GroupInv'
    BY <1>1, <1>2 DEF GroupInv, InOwnGroup
<1>13. TargetInv'
    BY <1>1, <1>2 DEF TargetInv
<1> QED BY <1>3, <1>4, <1>5, <1>6, <1>7, <1>8, <1>9, <1>10, <1>11, <1>12, <1>13

(* The handler of SIGCHLD returns. *)
LEMMA HandlerDoneKeeps ==
    ASSUME IInv, HandlerDone
    PROVE  IInv'
<1> USE DEF IInv
<1>1. /\ frames # <<>> /\ frames' = Tail(frames)
      /\ jobs' = jobs /\ nextjid' = nextjid /\ shell' = shell /\ pc' = pc
      /\ mode' = mode /\ pid' = pid /\ job' = job /\ masked' = masked
      /\ sigchld' = sigchld /\ proc' = proc /\ own' = own /\ news' = news
    BY DEF HandlerDone, InHandler, jobVars, shellVars, childVars
<1>2. frames \in Seq(Frame)
    BY DEF TypeOK, Frame
<1>3. /\ frames' \in Seq(Frame)
     
      /\ \A k \in DOMAIN frames' :
            \E j \in DOMAIN frames : frames'[k] = frames[j]
    BY <1>1, <1>2, PopFrame
<1>4. TypeOK'
    BY <1>1, <1>3 DEF TypeOK, JobListTypeOK, Frame
<1>5. OneForeground'
    BY <1>1 DEF OneForeground
<1>6. ForegroundIsAwaited'
    BY <1>1 DEF ForegroundIsAwaited
<1>7. JobsAreChildren'
    BY <1>1 DEF JobsAreChildren
<1>8. MaskInv'
    BY <1>1, <1>3 DEF MaskInv
<1>9. EmptyInv'
    BY <1>1 DEF EmptyInv
<1>10. ForkedInv'
    BY <1>1 DEF ForkedInv
<1>11. PointerInv'
    BY <1>1 DEF PointerInv
<1>12. WaitInv'
    BY <1>1 DEF WaitInv
<1>13. GroupInv'
    BY <1>1 DEF GroupInv, InOwnGroup
<1>14. TargetInv'
    BY <1>1, <1>3 DEF TargetInv
<1> QED BY <1>4, <1>5, <1>6, <1>7, <1>8, <1>9, <1>10, <1>11, <1>12, <1>13, <1>14

(* A child goes on, ends or stops by itself. *)
LEMMA ChildKeeps ==
    ASSUME IInv, NEW p \in Pids, Setpgid(p) \/ Exec(p) \/ End(p) \/ Stop(p)
    PROVE  IInv'
<1> USE DEF IInv
<1>1. /\ sigchld' \in BOOLEAN /\ news' \subseteq Pids /\ own' \subseteq Pids
      /\ jobs' = jobs /\ nextjid' = nextjid /\ shell' = shell /\ pc' = pc
      /\ mode' = mode /\ pid' = pid /\ job' = job /\ masked' = masked
      /\ frames' = frames
    BY DEF Setpgid, Exec, End, Stop, TypeOK, jobVars, shellVars, childVars
<1>2. /\ own \subseteq own'
      /\ \/ /\ proc[p] = "forked" /\ p \in own'
            /\ proc' = [proc EXCEPT ![p] = "grouped"]
         \/ \E st \in {"running", "stopped", "zombie"} :
                /\ proc[p] \in {"grouped", "running"}
                /\ proc' = [proc EXCEPT ![p] = st]
    BY DEF Setpgid, Exec, End, Stop, Becomes, jobVars, shellVars, childVars
<1>3. /\ proc' \in [Pids -> {"none", "forked", "grouped", "running",
                             "stopped", "doomed", "zombie"}]
      /\ \A q \in Pids :
            /\ proc'[q] = "none" <=> proc[q] = "none"
            /\ proc'[q] \in InOwnGroup => proc[q] \in InOwnGroup \/ q \in own'
    BY <1>2 DEF TypeOK, InOwnGroup
<1>4. TypeOK'
    BY <1>1, <1>3 DEF TypeOK, JobListTypeOK
<1>5. OneForeground'
    BY <1>1 DEF OneForeground
<1>6. ForegroundIsAwaited'
    BY <1>1 DEF ForegroundIsAwaited
<1>7. JobsAreChildren'
    BY <1>1, <1>3 DEF JobsAreChildren, TypeOK, JobListTypeOK
<1>8. MaskInv'
    BY <1>1 DEF MaskInv
<1>9. EmptyInv'
    BY <1>1 DEF EmptyInv
<1>10. ForkedInv'
    BY <1>1, <1>3 DEF ForkedInv
<1>11. PointerInv'
    BY <1>1 DEF PointerInv
<1>12. WaitInv'
    BY <1>1 DEF WaitInv
<1>13. GroupInv'
    BY <1>2, <1>3 DEF GroupInv, InOwnGroup
<1>14. TargetInv'
    BY <1>1 DEF TargetInv
<1> QED BY <1>4, <1>5, <1>6, <1>7, <1>8, <1>9, <1>10, <1>11, <1>12, <1>13, <1>14

(* A step that changes nothing. *)
LEMMA StutterKeeps ==
    ASSUME IInv, UNCHANGED vars
    PROVE  IInv'
<1> USE DEF IInv
<1>1. /\ jobs' = jobs /\ nextjid' = nextjid /\ shell' = shell /\ pc' = pc
      /\ mode' = mode /\ pid' = pid /\ job' = job /\ masked' = masked
      /\ frames' = frames /\ sigchld' = sigchld /\ proc' = proc /\ own' = own
      /\ news' = news
    BY DEF vars, jobVars, shellVars, childVars
<1>2. TypeOK'
    BY <1>1 DEF TypeOK, JobListTypeOK
<1>3. OneForeground'
    BY <1>1 DEF OneForeground
<1>4. ForegroundIsAwaited'
    BY <1>1 DEF ForegroundIsAwaited
<1>5. JobsAreChildren'
    BY <1>1 DEF JobsAreChildren
<1>6. MaskInv'
    BY <1>1 DEF MaskInv
<1>7. EmptyInv'
    BY <1>1 DEF EmptyInv
<1>8. ForkedInv'
    BY <1>1 DEF ForkedInv
<1>9. PointerInv'
    BY <1>1 DEF PointerInv
<1>10. WaitInv'
    BY <1>1 DEF WaitInv
<1>11. GroupInv'
    BY <1>1 DEF GroupInv, InOwnGroup
<1>12. TargetInv'
    BY <1>1 DEF TargetInv
<1> QED BY <1>2, <1>3, <1>4, <1>5, <1>6, <1>7, <1>8, <1>9, <1>10, <1>11, <1>12

-----------------------------------------------------------------------------
(* The invariant and what follows from it. *)

(* The shell starts with an empty list and no child. *)
LEMMA InitHolds == Init => IInv
<1> SUFFICES ASSUME Init PROVE IInv
    OBVIOUS
<1>1. /\ jobs = [i \in Slots |-> cleared] /\ nextjid = 1
      /\ shell = "up" /\ pc = "prompt" /\ mode = "FG" /\ pid = 0 /\ job = NULL
      /\ masked = FALSE /\ frames = <<>> /\ sigchld = FALSE
      /\ proc = [p \in Pids |-> "none"] /\ own = {} /\ news = {}
    BY DEF Init, initjobs
<1>2. \A i \in Slots : /\ jobs[i] = cleared /\ jobs[i].pid = 0
                       /\ jobs[i].jid = 0 /\ jobs[i].state = "UNDEF"
    BY <1>1 DEF cleared
<1>3. JobListTypeOK
    BY <1>1 DEF JobListTypeOK, cleared, JobStates
<1>4. frames \in Seq(Frame) /\ DOMAIN frames = {}
    BY <1>1, ChldFrames
<1>5. TypeOK
    BY <1>1, <1>3, <1>4 DEF TypeOK, Frame
<1>6. OneForeground /\ ForegroundIsAwaited /\ JobsAreChildren
    BY <1>2 DEF OneForeground, ForegroundIsAwaited, JobsAreChildren
<1>7. MaskInv /\ EmptyInv /\ ForkedInv /\ PointerInv
    BY <1>1, <1>2 DEF MaskInv, EmptyInv, ForkedInv, PointerInv
<1>8. WaitInv
    BY <1>1, <1>2 DEF WaitInv
<1>9. GroupInv /\ TargetInv
    BY <1>1, <1>4 DEF GroupInv, InOwnGroup, TargetInv
<1> QED BY <1>5, <1>6, <1>7, <1>8, <1>9 DEF IInv

(* Every step keeps the invariant. *)
LEMMA NextKeeps == IInv /\ [Next]_vars => IInv'
<1> SUFFICES ASSUME IInv, [Next]_vars PROVE IInv'
    OBVIOUS
<1>1. CASE MainRuns
    BY <1>1, AddJobKeeps, UnblockKeeps, ContinueKeeps, SetStateKeeps,
       WaitFgKeeps, WaitOverKeeps DEF MainRuns
<1>2. CASE Exit \/ BlankLine
    BY <1>2, ExitKeeps, BlankLineKeeps
<1>3. ASSUME NEW m \in {"FG", "BG"},
             Fork(m) \/ \E i \in Arguments : DoBgFg(m, i)
      PROVE  IInv'
    BY <1>3, ForkKeeps, DoBgFgKeeps
<1>4. ASSUME NEW sig \in Keys, Press(sig) \/ Forward(sig)
      PROVE  IInv'
    BY <1>4, PressKeeps, ForwardKeeps
<1>5. CASE Deliver
    BY <1>5, DeliverKeeps
<1>6. CASE Reaps
    BY <1>6, HandlerDoneKeeps, ReapKeeps, NoteStopKeeps DEF Reaps
<1>7. ASSUME NEW p \in Pids, Setpgid(p) \/ Exec(p) \/ End(p) \/ Stop(p)
      PROVE  IInv'
    BY <1>7, ChildKeeps
<1>8. CASE Over \/ UNCHANGED vars
    BY <1>8, StutterKeeps DEF Over
<1> QED BY <1>1, <1>2, <1>3, <1>4, <1>5, <1>6, <1>7, <1>8 DEF Next

(* The inductive invariant holds for ever: what the mask protects, what    *)
(* main's pointers point to and what interrupted handlers remember.        *)
THEOREM TshInvariant == Spec => []IInv
<1>1. IInv /\ [Next]_vars => IInv'
    BY NextKeeps
<1> QED BY <1>1, InitHolds, PTL DEF Spec

(* All variables of the shell keep their types; in particular nextjid, set *)
(* by maxjid over the whole list, is always a positive number.             *)
THEOREM TshTypeCorrect == Spec => []TypeOK
<1>1. IInv => TypeOK
    BY DEF IInv
<1> QED BY <1>1, TshInvariant, PTL

(* "At most 1 job can be in the FG state" (tsh.c:43).                      *)
THEOREM TshOneForeground == Spec => []OneForeground
<1>1. IInv => OneForeground
    BY DEF IInv
<1> QED BY <1>1, TshInvariant, PTL

(* Whatever is in the foreground, waitfg is about it.                      *)
THEOREM TshAwaitsForeground == Spec => []ForegroundIsAwaited
<1>1. IInv => ForegroundIsAwaited
    BY DEF IInv
<1> QED BY <1>1, TshInvariant, PTL

(* No entry of the job list outlives its process, and no process has two.  *)
THEOREM TshListIsSound == Spec => []JobsAreChildren
<1>1. IInv => JobsAreChildren
    BY DEF IInv
<1> QED BY <1>1, TshInvariant, PTL

(* A key, whether the kernel or a handler sends the signal, and however    *)
(* late the handler sends it, changes no process of a background job.      *)
LEMMA KeysSpareBackground ==
    ASSUME IInv, NEW sig \in Keys, Press(sig) \/ Forward(sig),
           NEW i \in Slots, jobs[i].state = "BG", jobs[i].pid # 0
    PROVE  proc'[jobs[i].pid] = proc[jobs[i].pid]
<1> USE DEF IInv
<1> DEFINE p == jobs[i].pid
<1>1. p \in Pids
    BY DEF TypeOK, JobListTypeOK
<1>2. TypeOK /\ Pids \ own \subseteq Pids
    OBVIOUS
<1>3. CASE Press(sig)
    <2>1. Send(sig, Pids \ own)
        BY <1>3 DEF Press
    <2>2. proc'[p] # proc[p] => p \in Pids \ own /\ proc[p] \in InOwnGroup
        BY <1>1, <1>2, <2>1, SendDoes
    <2> QED BY <1>1, <2>2 DEF GroupInv, InOwnGroup
<1>4. CASE Forward(sig)
    <2>1. /\ frames \in Seq(Frame) /\ frames # <<>>
        BY <1>4 DEF Forward, InHandler, TypeOK, Frame
    <2>2. 1 \in DOMAIN frames /\ Head(frames) = frames[1]
        BY <2>1, PopFrame
    <2>3. CASE Head(frames).pid = 0
        BY <1>4, <2>3 DEF Forward
    <2>4. CASE Head(frames).pid # 0
        <3>1. Send(sig, {Head(frames).pid} \cap own)
            BY <1>4, <2>4 DEF Forward, KillGroup
        <3>2. {Head(frames).pid} \cap own \subseteq Pids
            BY DEF TypeOK
        <3>3. p # Head(frames).pid
            BY <2>2, <2>4 DEF TargetInv
        <3>4. proc'[p] # proc[p] => p \in {Head(frames).pid} \cap own
            BY <1>1, <1>2, <3>1, <3>2, SendDoes
        <3> QED BY <3>3, <3>4
    <2> QED BY <2>3, <2>4
<1> QED BY <1>3, <1>4

(* "Our background children don't receive SIGINT (SIGTSTP)" (tsh.c:178).   *)
THEOREM TshSparesBackground == Spec => BackgroundUntouched
<1> DEFINE A == (\E sig \in Keys : Press(sig) \/ Forward(sig))
                => \A i \in Slots : jobs[i].state = "BG" /\ jobs[i].pid # 0
                        => proc'[jobs[i].pid] = proc[jobs[i].pid]
<1>1. IInv => A
    BY KeysSpareBackground
<1>2. BackgroundUntouched <=> [][A]_vars
    BY DEF BackgroundUntouched
<1> HIDE DEF A
<1>3. IInv /\ [Next]_vars => [A]_vars
    BY <1>1
<1> QED BY <1>2, <1>3, TshInvariant, PTL DEF Spec

-----------------------------------------------------------------------------
(* A list that is large enough. *)

(* A full list has as many processes as entries. *)
LEMMA FullList ==
    ASSUME TypeOK, JobsAreChildren, \A i \in Slots : jobs[i].pid # 0,
           NEW p \in Pids, \A i \in Slots : jobs[i].pid # p,
           Cardinality(Pids) <= MAXJOBS
    PROVE  FALSE
<1> DEFINE f == [i \in Slots |-> jobs[i].pid]
           T == Pids \ {p}
<1>1. MAXJOBS \in Nat /\ MAXJOBS >= 1 /\ IsFiniteSet(Pids)
    BY JobListAssumption
<1>2. /\ IsFiniteSet(T) /\ Cardinality(T) = Cardinality(Pids) - 1
      /\ Cardinality(Pids) \in Nat
    BY <1>1, FS_RemoveElement, FS_CardinalityType
<1>3. IsFiniteSet(Slots) /\ Cardinality(Slots) = MAXJOBS
    <2>1. 0 \in Int /\ MAXJOBS - 1 \in Int /\ ~(0 > MAXJOBS - 1)
        BY <1>1
    <2>2. /\ IsFiniteSet(0 .. MAXJOBS - 1)
          /\ Cardinality(0 .. MAXJOBS - 1) = MAXJOBS - 1 - 0 + 1
        BY <2>1, FS_Interval
    <2> QED BY <1>1, <2>2 DEF Slots
<1>4. f \in [Slots -> T]
    BY DEF TypeOK, JobListTypeOK
<1> HIDE DEF T
<1>5. Cardinality(T) < Cardinality(Slots)
    BY <1>1, <1>2, <1>3
<1>6. \A i \in Slots : f[i] = jobs[i].pid
    OBVIOUS
<1> HIDE DEF f
<1>7. PICK i, k \in Slots : i # k /\ f[i] = f[k]
    BY <1>2, <1>3, <1>4, <1>5, FS_PigeonHole
<1> QED BY <1>6, <1>7 DEF JobsAreChildren

(* addjob finds an entry for every child, and only reaping frees it.       *)
LEMMA ChildrenStayListed ==
    ASSUME Cardinality(Pids) <= MAXJOBS, IInv, ChildrenAreListed, [Next]_vars
    PROVE  ChildrenAreListed'
<1> USE DEF IInv
<1> SUFFICES ASSUME NEW p \in Pids, proc'[p] # "none",
                    ~(pc' = "addjob" /\ pid' = p)
             PROVE  \E i \in Slots : jobs'[i].pid = p
    BY DEF ChildrenAreListed
<1>1. p # 0
    BY JobListAssumption
<1>2. CASE AddJob
    <2>1. /\ pc = "addjob" /\ addjob(pid, mode) /\ proc' = proc
        BY <1>2 DEF AddJob, MainAt, childVars
    <2>2. pid \in Pids /\ mode \in JobStates /\ JobListTypeOK
        BY <2>1 DEF ForkedInv, TypeOK, JobStates
    <2>3. \/ jobs' = jobs /\ \A i \in Slots : jobs[i].pid # 0
          \/ \E f \in Slots :
                /\ jobs[f].pid = 0
                /\ jobs'[f].pid = pid
                /\ \A k \in Slots : k # f => jobs'[k] = jobs[k]
        BY <2>1, <2>2, AddJobDoes
    <2>4. ~(\A i \in Slots : jobs[i].pid # 0)
        <3>1. \A i \in Slots : jobs[i].pid # pid
            BY <2>1 DEF ForkedInv
        <3> QED BY <2>2, <3>1, FullList
    <2>5. PICK f \in Slots :
                /\ jobs[f].pid = 0
                /\ jobs'[f].pid = pid
                /\ \A k \in Slots : k # f => jobs'[k] = jobs[k]
        BY <2>3, <2>4
    <2>6. CASE p = pid
        BY <2>5, <2>6
    <2>7. CASE p # pid
        <3>1. PICK i \in Slots : jobs[i].pid = p
            BY <2>1, <2>7 DEF ChildrenAreListed
        <3> QED BY <1>1, <2>5, <3>1
    <2> QED BY <2>6, <2>7
<1>3. ASSUME NEW q \in Pids, Reap(q)
      PROVE  \E i \in Slots : jobs'[i].pid = p
    <2>1. /\ deletejob(q) /\ proc' = [proc EXCEPT ![q] = "none"]
          /\ pc' = pc /\ pid' = pid
        BY <1>3 DEF Reap, shellVars
    <2>2. q # 0 /\ JobListTypeOK
        BY JobListAssumption DEF TypeOK
    <2>3. \A i, k \in Slots : jobs[i].pid = q /\ jobs[k].pid = q => i = k
        BY <2>2 DEF JobsAreChildren
    <2>4. \A k \in Slots : jobs'[k] = IF jobs[k].pid = q
                                      THEN cleared ELSE jobs[k]
        BY <2>1, <2>2, <2>3, DeleteJobDoes
    <2>5. p # q /\ proc[p] # "none"
        BY <2>1 DEF TypeOK
    <2>6. PICK i \in Slots : jobs[i].pid = p
        BY <2>1, <2>5 DEF ChildrenAreListed
    <2> QED BY <2>4, <2>5, <2>6
<1>4. ASSUME \A i \in Slots : jobs'[i].pid = jobs[i].pid,
             proc[p] # "none", ~(pc = "addjob" /\ pid = p)
      PROVE  \E i \in Slots : jobs'[i].pid = p
    BY <1>4 DEF ChildrenAreListed
<1>5. ASSUME NEW m \in {"FG", "BG"}, Fork(m)
      PROVE  \E i \in Slots : jobs'[i].pid = p
    <2>1. /\ pc = "prompt" /\ jobs' = jobs /\ pc' = "addjob"
          /\ proc' = [proc EXCEPT ![pid'] = "forked"] /\ pid' \in Pids
        BY <1>5 DEF Fork, MainAt, jobVars
    <2>2. proc[p] # "none"
        BY <2>1 DEF TypeOK
    <2> QED BY <1>4, <2>1, <2>2
<1>6. ASSUME SetState \/ \E q \in Pids : NoteStop(q)
      PROVE  \E i \in Slots : jobs'[i].pid = p
    <2>1. \A i \in Slots : jobs'[i].pid = jobs[i].pid
        <3>1. CASE SetState
            <4>1. setstate(job, mode) /\ job \in Slots /\ mode \in JobStates
                BY <3>1 DEF SetState, MainAt, PointerInv, TypeOK, JobStates
            <4> QED BY <4>1, SetStateDoes DEF TypeOK
        <3>2. ASSUME NEW q \in Pids, NoteStop(q)
              PROVE  \A i \in Slots : jobs'[i].pid = jobs[i].pid
            <4>1. CASE getjobpid(q) = NULL
                BY <3>2, <4>1 DEF NoteStop, jobVars
            <4>2. CASE getjobpid(q) # NULL
                <5>1. /\ getjobpid(q) \in Slots
                      /\ setstate(getjobpid(q), "ST") /\ "ST" \in JobStates
                    BY <3>2, <4>2, GetJobPid DEF NoteStop, JobStates
                <5> QED BY <5>1, SetStateDoes DEF TypeOK
            <4> QED BY <4>1, <4>2
        <3> QED BY <1>6, <3>1, <3>2
    <2>2. proc' = proc /\ pc # "addjob"
        <3>1. CASE SetState
            BY <3>1 DEF SetState, MainAt, childVars
        <3>2. ASSUME NEW q \in Pids, NoteStop(q)
              PROVE  proc' = proc /\ pc # "addjob"
            <4>1. /\ proc' = proc /\ frames # <<>>
                  /\ Head(frames).sig = "SIGCHLD"
                BY <3>2 DEF NoteStop, InHandler
            <4>2. 1 \in DOMAIN frames /\ Head(frames) = frames[1]
                BY <4>1, PopFrame DEF TypeOK, Frame
            <4> QED BY <4>1, <4>2 DEF MaskInv
        <3> QED BY <1>6, <3>1, <3>2
    <2> QED BY <1>4, <2>1, <2>2
<1>7. ASSUME jobs' = jobs, proc' = proc, pc # "addjob"
      PROVE  \E i \in Slots : jobs'[i].pid = p
    BY <1>4, <1>7
<1>8. CASE Unblock \/ WaitFg \/ WaitOver \/ BlankLine
    BY <1>7, <1>8 DEF Unblock, WaitFg, WaitOver, BlankLine, MainAt, jobVars,
                      childVars
<1>9. ASSUME NEW m \in {"FG", "BG"}, NEW i \in Arguments, DoBgFg(m, i)
      PROVE  \E k \in Slots : jobs'[k].pid = p
    BY <1>7, <1>9 DEF DoBgFg, MainAt, jobVars, childVars
<1>10. ASSUME jobs' = jobs, pc' = pc, pid' = pid, proc[p] # "none"
       PROVE  \E i \in Slots : jobs'[i].pid = p
    BY <1>4, <1>10
<1>11. CASE Exit \/ Deliver \/ HandlerDone \/ Over \/ UNCHANGED vars
    BY <1>10, <1>11 DEF Exit, Deliver, HandlerDone, Over, vars, shellVars,
                        jobVars, childVars
<1>12. CASE Continue
    <2>1. /\ jobs' = jobs /\ pid' = pid /\ pc = "continue"
          /\ KillGroup(pid, "SIGCONT")
        BY <1>12 DEF Continue, MainAt, jobVars
    <2>2. {pid} \cap own \subseteq Pids
        BY DEF TypeOK
    <2>3. proc[p] # "none"
        BY <2>1, <2>2, SendDoes DEF KillGroup
    <2> QED BY <1>4, <2>1, <2>3
<1>13. ASSUME NEW sig \in Keys, Press(sig) \/ Forward(sig)
       PROVE  \E i \in Slots : jobs'[i].pid = p
    <2>1. jobs' = jobs /\ pc' = pc /\ pid' = pid
        BY <1>13 DEF Press, Forward, jobVars, shellVars
    <2>2. \/ \E S \in SUBSET Pids : Send(sig, S)
          \/ proc' = proc
        <3>1. Pids \ own \in SUBSET Pids
            OBVIOUS
        <3>2. {Head(frames).pid} \cap own \in SUBSET Pids
            BY DEF TypeOK
        <3> QED BY <1>13, <3>1, <3>2 DEF Press, Forward, KillGroup
    <2>3. proc[p] # "none"
        BY <2>2, SendDoes
    <2> QED BY <1>10, <2>1, <2>3
<1>14. ASSUME NEW q \in Pids, Setpgid(q) \/ Exec(q) \/ End(q) \/ Stop(q)
       PROVE  \E i \in Slots : jobs'[i].pid = p
    <2>1. jobs' = jobs /\ pc' = pc /\ pid' = pid
        BY <1>14 DEF Setpgid, Exec, End, Stop, jobVars, shellVars
    <2>2. /\ proc[q] # "none"
          /\ \E st \in {"grouped", "running", "stopped", "zombie"} :
                proc' = [proc EXCEPT ![q] = st]
        BY <1>14 DEF Setpgid, Exec, End, Stop, Becomes
    <2>3. proc[p] # "none"
        BY <2>2 DEF TypeOK
    <2> QED BY <1>10, <2>1, <2>3
<1>15. CASE MainRuns
    BY <1>2, <1>6, <1>8, <1>12, <1>15 DEF MainRuns
<1>16. CASE Reaps
    BY <1>3, <1>6, <1>11, <1>16 DEF Reaps
<1> QED BY <1>5, <1>8, <1>9, <1>11, <1>13, <1>14, <1>15, <1>16 DEF Next

(* With an entry for every process there can be, addjob's failure, which   *)
(* eval ignores, never happens: every child is on the list.                *)
THEOREM TshListIsComplete ==
    ASSUME Cardinality(Pids) <= MAXJOBS
    PROVE  Spec => []ChildrenAreListed
<1>1. Init => ChildrenAreListed
    BY DEF Init, ChildrenAreListed
<1>2. IInv /\ ChildrenAreListed /\ [Next]_vars => ChildrenAreListed'
    BY ChildrenStayListed
<1> QED BY <1>1, <1>2, TshInvariant, PTL DEF Spec

-----------------------------------------------------------------------------
(* Stops, as long as nothing is continued: without fg and bg.              *)

(* A child that stopped is marked stopped, or its stop is news the kernel  *)
(* has not told yet; news is pending or being heard.  A shell that crashed *)
(* hears nothing.                                                          *)
MarkedStopped(p) == \E i \in Slots : jobs[i].pid = p /\ jobs[i].state = "ST"

MarksAreTrue ==
    \A i \in Slots : jobs[i].pid # 0 /\ jobs[i].state = "ST" => Stopped(jobs[i].pid)

StopsAreTold == \A p \in Pids : Stopped(p) => p \in news \/ MarkedStopped(p)

NewsIsHeard == news # {} => sigchld \/ Handling("SIGCHLD")

StopsInv ==
    shell = "up" =>
        /\ pc \notin {"continue", "setstate"}
        /\ \A p \in news : Stopped(p)
        /\ MarksAreTrue /\ StopsAreTold /\ NewsIsHeard

(* Another handler on top leaves a SIGCHLD handler where it is; so does    *)
(* the end of a handler of another signal.                                 *)
LEMMA HandlersStay ==
    ASSUME TypeOK, TypeOK', Handling("SIGCHLD"),
           \/ \E f \in Frame : frames' = <<f>> \o frames
           \/ frames # <<>> /\ Head(frames).sig # "SIGCHLD" /\ frames' = Tail(frames)
    PROVE  Handling("SIGCHLD")'
<1>1. frames \in Seq(Frame)
    BY DEF TypeOK, Frame
<1>2. PICK k \in DOMAIN frames : frames[k].sig = "SIGCHLD"
    BY DEF Handling
<1>3. k \in 1 .. Len(frames) /\ Len(frames) \in Nat
    BY <1>1
<1>4. ASSUME NEW f \in Frame, frames' = <<f>> \o frames
      PROVE  k + 1 \in DOMAIN frames' /\ frames'[k + 1] = frames[k]
    BY <1>1, <1>3, <1>4
<1>5. ASSUME frames # <<>>, Head(frames).sig # "SIGCHLD", frames' = Tail(frames)
      PROVE  k - 1 \in DOMAIN frames' /\ frames'[k - 1] = frames[k]
    <2>1. Head(frames) = frames[1] /\ k # 1
        BY <1>1, <1>2, <1>5
    <2> QED BY <1>1, <1>3, <1>5, <2>1
<1> QED BY <1>2, <1>4, <1>5 DEF Handling

(* A handler of SIGCHLD that starts is one that runs. *)
LEMMA HandlerStarts ==
    ASSUME TypeOK, frames' = <<ChldFrame>> \o frames \/ frames' = <<ChldFrame>>
    PROVE  Handling("SIGCHLD")'
<1>1. frames \in Seq(Frame) /\ ChldFrame.sig = "SIGCHLD"
    BY ChldFrames DEF TypeOK, Frame
<1>2. 1 \in DOMAIN frames' /\ frames'[1] = ChldFrame
    BY <1>1
<1> QED BY <1>1, <1>2 DEF Handling

(* The keys' signals stop what runs, and let nothing stopped go on.        *)
LEMMA KeysStop ==
    ASSUME TypeOK, NEW sig \in Keys, NEW S, S \subseteq Pids, Send(sig, S),
           \A p \in news : Stopped(p)
    PROVE  /\ \A p \in Pids : Stopped(p)' <=> Stopped(p) \/ p \in news' \ news
           /\ news \subseteq news' /\ news' \subseteq Pids
           /\ sigchld => sigchld'
           /\ news' # news => sigchld'
<1>1. \A p \in Pids : proc'[p] = IF p \in S THEN After(sig, proc[p]) ELSE proc[p]
    BY DEF Send
<1>2. news' = news \cup {p \in S : proc[p] = "running" /\ After(sig, proc[p]) = "stopped"}
    BY DEF Send, Keys
<1>3. sigchld' = (sigchld \/ \E p \in S : After(sig, proc[p]) \notin {proc[p], "doomed"})
    BY DEF Send
<1>4. \A p \in Pids : proc[p] \in {"none", "forked", "grouped", "running", "stopped",
                                   "doomed", "zombie"}
    BY DEF TypeOK
<1>5. \A p \in Pids :
        LET after == After(sig, proc[p])
        IN  /\ after \in {"stopped", "doomed"} <=>
                 \/ proc[p] \in {"stopped", "doomed"}
                 \/ proc[p] = "running" /\ after = "stopped"
            /\ proc[p] = "running" /\ after = "stopped" => after \notin {proc[p], "doomed"}
    BY <1>4 DEF After, Keys
<1>6. news' \subseteq Pids
    BY <1>2 DEF TypeOK
<1>7. \A p \in Pids : Stopped(p)' <=> Stopped(p) \/ p \in news' \ news
    BY <1>1, <1>2, <1>5 DEF Stopped
<1> QED BY <1>1, <1>2, <1>3, <1>5, <1>6, <1>7

(* A step that leaves alone what stops and what is known of it.            *)
LEMMA StopsUntouched ==
    ASSUME TypeOK, TypeOK', IInv, StopsInv,
           shell' = "up" => /\ shell = "up"
                            /\ pc' \notin {"continue", "setstate"}
                            /\ news' = news
                            /\ news # {} /\ (sigchld \/ Handling("SIGCHLD"))
                                  => sigchld' \/ Handling("SIGCHLD")',
           \A p \in Pids : Stopped(p)' <=> Stopped(p),
           \A i \in Slots : /\ jobs'[i].pid # 0 /\ jobs'[i].state = "ST" => jobs'[i] = jobs[i]
                            /\ jobs[i].state = "ST" /\ jobs[i].pid # 0 /\ Stopped(jobs[i].pid)
                                  => jobs'[i] = jobs[i]
    PROVE  StopsInv'
<1>1. SUFFICES ASSUME shell' = "up" PROVE StopsInv'
    BY DEF StopsInv
<1>2. \A i \in Slots : jobs[i].pid \in Pids \cup {0} /\ jobs'[i].pid \in Pids \cup {0}
    BY DEF TypeOK, JobListTypeOK
<1>3. 0 \notin Pids /\ news \subseteq Pids
    BY JobListAssumption DEF TypeOK
<1>4. MarksAreTrue'
    BY <1>1, <1>2 DEF StopsInv, MarksAreTrue
<1>5. StopsAreTold'
    BY <1>1, <1>3 DEF StopsInv, StopsAreTold, MarkedStopped
<1>6. NewsIsHeard'
    BY <1>1 DEF StopsInv, NewsIsHeard
<1> QED BY <1>1, <1>3, <1>4, <1>5, <1>6 DEF StopsInv

(* A key is pressed, or a handler passes its signal on.                    *)
LEMMA KeysAreTold ==
    ASSUME IInv, TypeOK', StopsInv, NEW sig \in Keys, Press(sig) \/ Forward(sig)
    PROVE  StopsInv'
<1>1. /\ TypeOK /\ shell = "up" /\ jobs' = jobs /\ pc' = pc /\ shell' = shell
    BY DEF IInv, Press, Forward, InHandler, jobVars, shellVars
<1>2. Handling("SIGCHLD") => Handling("SIGCHLD")'
    <2>1. CASE Press(sig)
        <3>1. [sig |-> sig, pid |-> fgpid] \in Frame
            BY <1>1, FgPid DEF TypeOK, Frame
        <3>2. frames' = <<[sig |-> sig, pid |-> fgpid]>> \o frames
            BY <2>1 DEF Press
        <3> QED BY <1>1, <3>1, <3>2, HandlersStay
    <2>2. CASE Forward(sig)
        <3>1. frames # <<>> /\ Head(frames).sig # "SIGCHLD" /\ frames' = Tail(frames)
            BY <2>2 DEF Forward, InHandler, Keys
        <3> QED BY <1>1, <3>1, HandlersStay
    <2> QED BY <2>1, <2>2
<1>3. \/ \E S \in SUBSET Pids : Send(sig, S)
      \/ UNCHANGED <<proc, news, sigchld>>
    <2>1. Pids \ own \in SUBSET Pids /\ {Head(frames).pid} \cap own \in SUBSET Pids
        BY <1>1 DEF TypeOK
    <2> QED BY <2>1 DEF Press, Forward, KillGroup
<1>4. CASE UNCHANGED <<proc, news, sigchld>>
    <2>1. \A p \in Pids : Stopped(p)' <=> Stopped(p)
        BY <1>4 DEF Stopped
    <2> QED BY <1>1, <1>2, <1>4, <2>1, StopsUntouched DEF StopsInv
<1>5. ASSUME NEW S \in SUBSET Pids, Send(sig, S)
      PROVE  StopsInv'
    <2>1. /\ \A p \in Pids : Stopped(p)' <=> Stopped(p) \/ p \in news' \ news
          /\ news \subseteq news' /\ news' \subseteq Pids
          /\ sigchld => sigchld'
          /\ news' # news => sigchld'
        BY <1>1, <1>5, KeysStop DEF StopsInv
    <2>2. \A i \in Slots : jobs[i].pid \in Pids \cup {0}
        BY <1>1 DEF TypeOK, JobListTypeOK
    <2>3. MarksAreTrue'
        BY <1>1, <2>1, <2>2 DEF StopsInv, MarksAreTrue
    <2>4. StopsAreTold'
        BY <1>1, <2>1 DEF StopsInv, StopsAreTold, MarkedStopped
    <2>5. NewsIsHeard'
        BY <1>1, <1>2, <2>1 DEF StopsInv, NewsIsHeard
    <2>6. \A p \in news' : Stopped(p)'
        BY <1>1, <2>1 DEF StopsInv
    <2> QED BY <1>1, <2>3, <2>4, <2>5, <2>6 DEF StopsInv
<1> QED BY <1>3, <1>4, <1>5

(* eval forks and lists a child, which is not stopped yet as far as main   *)
(* knows; then main waits.                                                 *)
LEMMA MainTells ==
    ASSUME IInv, TypeOK', StopsInv,
           \/ \E m \in {"FG", "BG"} : Fork(m)
           \/ AddJob \/ Unblock \/ WaitFg \/ WaitOver
    PROVE  StopsInv'
<1>1. TypeOK /\ shell = "up" /\ frames = <<>>
    BY DEF IInv, Fork, AddJob, Unblock, WaitFg, WaitOver, MainAt
<1>2. ~Handling("SIGCHLD")
    BY <1>1, ChldFrames DEF Handling
<1>3. ASSUME NEW m \in {"FG", "BG"}, Fork(m)
      PROVE  StopsInv'
    <2>1. /\ pc' = "addjob" /\ shell' = shell /\ jobs' = jobs /\ sigchld' = sigchld
          /\ frames' = frames /\ news' = news
          /\ \E p \in Pids : proc[p] = "none" /\ proc' = [proc EXCEPT ![p] = "forked"]
        BY <1>3 DEF Fork, jobVars
    <2>2. \A p \in Pids : Stopped(p)' <=> Stopped(p)
        BY <1>1, <2>1 DEF Stopped, TypeOK
    <2> QED BY <1>1, <1>2, <2>1, <2>2, StopsUntouched
<1>4. CASE AddJob
    <2>1. /\ pc = "addjob" /\ pc' = "unblock" /\ addjob(pid, mode) /\ shell' = shell
          /\ sigchld' = sigchld /\ frames' = frames /\ news' = news /\ proc' = proc
        BY <1>4 DEF AddJob, MainAt, childVars
    <2>2. pid \in Pids /\ pid # 0 /\ mode \in {"FG", "BG"} /\ JobListTypeOK
        BY <1>1, <2>1, JobListAssumption DEF IInv, ForkedInv, TypeOK
    <2>3. \A k \in Slots :
            \/ jobs'[k] = jobs[k]
            \/ jobs[k].pid = 0 /\ jobs'[k].state = mode
        BY <2>1, <2>2, AddJobDoes DEF JobStates
    <2>4. \A p \in Pids : Stopped(p)' <=> Stopped(p)
        BY <2>1 DEF Stopped
    <2> QED BY <1>1, <1>2, <2>1, <2>2, <2>3, <2>4, StopsUntouched
<1>5. CASE Unblock
    <2>1. /\ pc' \in {"waitfg", "prompt"} /\ shell' = shell /\ jobs' = jobs
          /\ news' = news /\ proc' = proc
          /\ sigchld => frames' = <<ChldFrame>>
        BY <1>5 DEF Unblock, ToPrompt, jobVars, childVars
    <2>2. \A p \in Pids : Stopped(p)' <=> Stopped(p)
        BY <2>1 DEF Stopped
    <2>3. sigchld => Handling("SIGCHLD")'
        BY <1>1, <2>1, HandlerStarts
    <2> QED BY <1>1, <1>2, <2>1, <2>2, <2>3, StopsUntouched
<1>6. CASE WaitFg \/ WaitOver
    <2>1. /\ pc' \in {"waitfg", "waiting", "prompt"} /\ jobs' = jobs
          /\ news' = news /\ proc' = proc /\ sigchld' = sigchld /\ frames' = frames
        BY <1>6 DEF WaitFg, WaitOver, MainAt, Crash, ToPrompt, jobVars, childVars
    <2>2. \A p \in Pids : Stopped(p)' <=> Stopped(p)
        BY <2>1 DEF Stopped
    <2> QED BY <1>1, <1>2, <2>1, <2>2, StopsUntouched
<1> QED BY <1>3, <1>4, <1>5, <1>6

(* sigchld_handler hears the news and writes it down, and forgets only     *)
(* those that have ended.                                                  *)
LEMMA HandlerTells ==
    ASSUME IInv, TypeOK', StopsInv, Deliver \/ Reaps
    PROVE  StopsInv'
<1>1. TypeOK /\ JobListTypeOK /\ shell = "up" /\ pc \notin {"continue", "setstate"}
    BY DEF IInv, TypeOK, Deliver, Reaps, Reap, NoteStop, HandlerDone, InHandler, StopsInv
<1>2. CASE Deliver
    <2>1. /\ frames' = <<ChldFrame>> \o frames /\ jobs' = jobs /\ pc' = pc /\ shell' = shell
          /\ news' = news /\ proc' = proc
        BY <1>2 DEF Deliver, jobVars, shellVars, childVars
    <2>2. \A p \in Pids : Stopped(p)' <=> Stopped(p)
        BY <2>1 DEF Stopped
    <2>3. Handling("SIGCHLD")'
        BY <1>1, <2>1, HandlerStarts
    <2> QED BY <1>1, <2>1, <2>2, <2>3, StopsUntouched
<1>3. CASE HandlerDone
    <2>1. /\ news = {} /\ news' = {} /\ jobs' = jobs /\ pc' = pc /\ shell' = shell
          /\ proc' = proc
        BY <1>3 DEF HandlerDone, Waitable, jobVars, shellVars, childVars
    <2>2. \A p \in Pids : Stopped(p)' <=> Stopped(p)
        BY <2>1 DEF Stopped
    <2> QED BY <1>1, <2>1, <2>2, StopsUntouched
<1>4. ASSUME NEW p \in Pids, Reap(p)
      PROVE  StopsInv'
    <2>1. /\ deletejob(p) /\ proc[p] = "zombie" /\ proc' = [proc EXCEPT ![p] = "none"]
          /\ shell' = shell /\ pc' = pc /\ frames' = frames /\ sigchld' = sigchld
          /\ news' = news
        BY <1>4 DEF Reap, Zombie, shellVars
    <2>2. p # 0 /\ \A i, k \in Slots : jobs[i].pid = p /\ jobs[k].pid = p => i = k
        BY JobListAssumption DEF IInv, JobsAreChildren
    <2>3. \A k \in Slots : jobs'[k] = IF jobs[k].pid = p THEN cleared ELSE jobs[k]
        BY <1>1, <2>1, <2>2, DeleteJobDoes
    <2>4. /\ \A q \in Pids : Stopped(q)' <=> Stopped(q)
          /\ ~Stopped(p)
        BY <1>1, <2>1 DEF Stopped, TypeOK
    <2>5. cleared.pid = 0
        BY DEF cleared
    <2>6. Handling("SIGCHLD")' = Handling("SIGCHLD")
        BY <2>1 DEF Handling
    <2> QED BY <1>1, <2>1, <2>3, <2>4, <2>5, <2>6, StopsUntouched
<1>5. ASSUME NEW p \in Pids, NoteStop(p)
      PROVE  StopsInv'
    <2>1. SUFFICES ASSUME shell' = "up" PROVE StopsInv'
        BY DEF StopsInv
    <2>2. /\ getjobpid(p) # NULL /\ setstate(getjobpid(p), "ST")
          /\ p \in news /\ news' = news \ {p} /\ proc' = proc /\ pc' = pc
          /\ frames' = frames /\ sigchld' = sigchld
        BY <1>5, <2>1 DEF NoteStop, Crash, shellVars
    <2>3. getjobpid(p) \in Slots /\ jobs[getjobpid(p)].pid = p
        BY <2>2, GetJobPid
    <2>4. \A k \in Slots : /\ jobs'[k].pid = jobs[k].pid
                           /\ jobs'[k].state = IF k = getjobpid(p)
                                               THEN "ST" ELSE jobs[k].state
        BY <1>1, <2>2, <2>3, SetStateDoes DEF JobStates
    <2>5. Stopped(p) /\ \A q \in Pids : Stopped(q)' <=> Stopped(q)
        BY <1>1, <2>2 DEF StopsInv, Stopped
    <2>6. \A i \in Slots : jobs[i].pid \in Pids \cup {0}
        BY <1>1 DEF JobListTypeOK
    <2>7. MarksAreTrue'
        BY <1>1, <2>3, <2>4, <2>5, <2>6 DEF StopsInv, MarksAreTrue
    <2>8. StopsAreTold'
        <3> SUFFICES ASSUME NEW q \in Pids, Stopped(q)'
                     PROVE  q \in news' \/ MarkedStopped(q)'
            BY DEF StopsAreTold
        <3>1. q = p => MarkedStopped(q)'
            BY <2>3, <2>4 DEF MarkedStopped
        <3>2. q \in news \/ MarkedStopped(q)
            BY <1>1, <2>5 DEF StopsInv, StopsAreTold
        <3>3. MarkedStopped(q) => MarkedStopped(q)'
            BY <2>4 DEF MarkedStopped
        <3> QED BY <2>2, <3>1, <3>2, <3>3
    <2>9. NewsIsHeard'
        BY <1>1, <2>2 DEF StopsInv, NewsIsHeard, Handling
    <2>10. \A q \in news' : Stopped(q)'
        BY <1>1, <2>2, <2>5 DEF StopsInv, TypeOK
    <2> QED BY <1>1, <2>2, <2>7, <2>8, <2>9, <2>10 DEF StopsInv
<1> QED BY <1>2, <1>3, <1>4, <1>5 DEF Reaps

(* A child goes on, ends, or stops: its stop is news.                      *)
LEMMA ChildTells ==
    ASSUME IInv, TypeOK', StopsInv, NEW p \in Pids,
           Setpgid(p) \/ Exec(p) \/ End(p) \/ Stop(p)
    PROVE  StopsInv'
<1>1. /\ TypeOK /\ shell = "up" /\ shell' = shell /\ jobs' = jobs /\ pc' = pc
      /\ frames' = frames
      /\ sigchld => sigchld'
    BY DEF IInv, Setpgid, Exec, End, Stop, Becomes, jobVars, shellVars
<1>2. Handling("SIGCHLD")' = Handling("SIGCHLD")
    BY <1>1 DEF Handling
<1>3. CASE Setpgid(p) \/ Exec(p) \/ End(p)
    <2>1. /\ news' = news
          /\ \E st \in {"grouped", "running", "zombie"} :
                /\ proc[p] \in {"forked", "grouped", "running"}
                /\ proc' = [proc EXCEPT ![p] = st]
        BY <1>3 DEF Setpgid, Exec, End, Becomes
    <2>2. \A q \in Pids : Stopped(q)' <=> Stopped(q)
        BY <1>1, <2>1 DEF Stopped, TypeOK
    <2> QED BY <1>1, <1>2, <2>1, <2>2, StopsUntouched DEF StopsInv
<1>4. CASE Stop(p)
    <2>1. /\ proc[p] = "running" /\ proc' = [proc EXCEPT ![p] = "stopped"]
          /\ news' = news \cup {p} /\ sigchld'
        BY <1>4 DEF Stop, Becomes
    <2>2. \A q \in Pids : Stopped(q)' <=> Stopped(q) \/ q = p
        BY <1>1, <2>1 DEF Stopped, TypeOK
    <2>3. \A i \in Slots : jobs[i].pid \in Pids \cup {0}
        BY <1>1 DEF TypeOK, JobListTypeOK
    <2>4. MarksAreTrue'
        BY <1>1, <2>2, <2>3 DEF StopsInv, MarksAreTrue
    <2>5. StopsAreTold'
        BY <1>1, <2>1, <2>2 DEF StopsInv, StopsAreTold, MarkedStopped
    <2>6. NewsIsHeard'
        BY <2>1 DEF NewsIsHeard
    <2>7. \A q \in news' : Stopped(q)'
        BY <1>1, <2>1, <2>2 DEF StopsInv, TypeOK
    <2> QED BY <1>1, <2>4, <2>5, <2>6, <2>7 DEF StopsInv
<1> QED BY <1>3, <1>4

(* What every step does for the stops. *)
LEMMA StopsKept ==
    ASSUME "fg" \notin Commands, "bg" \notin Commands,
           IInv, IInv', StopsInv, [Next]_vars
    PROVE  StopsInv'
<1>1. TypeOK /\ TypeOK'
    BY DEF IInv
<1>2. \A m \in {"FG", "BG"}, i \in Arguments : ~DoBgFg(m, i)
    BY DEF DoBgFg
<1>3. CASE MainRuns
    <2>1. ~Continue /\ ~SetState
        BY DEF Continue, SetState, MainAt, StopsInv
    <2> QED BY <1>1, <1>3, <2>1, MainTells DEF MainRuns
<1>4. CASE Exit \/ BlankLine
    <2>1. shell' # "up"
        BY <1>4 DEF Exit, BlankLine, Crash
    <2> QED BY <2>1 DEF StopsInv
<1>5. CASE Over \/ UNCHANGED vars
    <2>1. /\ shell' = shell /\ pc' = pc /\ news' = news /\ sigchld' = sigchld
          /\ jobs' = jobs /\ proc' = proc /\ frames' = frames
        BY <1>5 DEF Over, vars, jobVars, shellVars, childVars
    <2> QED BY <2>1 DEF StopsInv, MarksAreTrue, StopsAreTold, MarkedStopped, NewsIsHeard,
                Handling, Stopped
<1> QED BY <1>1, <1>2, <1>3, <1>4, <1>5, KeysAreTold, MainTells, HandlerTells, ChildTells
        DEF Next

(* Where nothing is continued, a quiet shell's list marks as stopped the   *)
(* jobs that are, and no other.  (With fg and bg a job may stop again      *)
(* before do_bgfg has written that it runs.)                               *)
THEOREM TshQuietTable ==
    ASSUME "fg" \notin Commands, "bg" \notin Commands
    PROVE  Spec => []QuietTable
<1>1. Init => StopsInv
    BY DEF Init, initjobs, cleared, StopsInv, MarksAreTrue, StopsAreTold, NewsIsHeard, Stopped
<1>2. IInv /\ IInv' /\ StopsInv /\ [Next]_vars => StopsInv'
    BY StopsKept
<1>3. IInv /\ StopsInv => QuietTable
    <2> SUFFICES ASSUME IInv, StopsInv, MainAt("prompt"), ~sigchld, NEW i \in Slots,
                        jobs[i].pid # 0
                 PROVE  (jobs[i].state = "ST") <=> Stopped(jobs[i].pid)
        BY DEF QuietTable
    <2>1. shell = "up" /\ frames = <<>>
        BY DEF MainAt
    <2>2. ~Handling("SIGCHLD")
        BY <2>1, ChldFrames DEF Handling
    <2>3. news = {}
        BY <2>1, <2>2 DEF StopsInv, NewsIsHeard
    <2>4. jobs[i].pid \in Pids
        BY DEF IInv, TypeOK, JobListTypeOK
    <2>5. ASSUME Stopped(jobs[i].pid)
          PROVE  jobs[i].state = "ST"
        <3>1. PICK k \in Slots : jobs[k].pid = jobs[i].pid /\ jobs[k].state = "ST"
            BY <2>1, <2>3, <2>4, <2>5 DEF StopsInv, StopsAreTold, MarkedStopped
        <3> QED BY <3>1 DEF IInv, JobsAreChildren
    <2> QED BY <2>1, <2>5 DEF StopsInv, MarksAreTrue
<1> QED BY <1>1, <1>2, <1>3, TshInvariant, PTL DEF Spec
=============================================================================
