------------------------------ MODULE JobList ------------------------------
(***************************************************************************)
(* The job list of the tiny shell (shlab-handout2/tsh.c): a table of       *)
(* MAXJOBS entries and the next job identifier to give out.  An entry is   *)
(* free when its pid is 0.  The operators and actions keep the names of    *)
(* the C helpers; command lines are left out.                              *)
(***************************************************************************)
EXTENDS Integers, FiniteSets

CONSTANTS
    MAXJOBS,    \* number of entries
    Pids,       \* the process identifiers in use
    NULL        \* the null pointer

ASSUME JobListAssumption ==
    /\ MAXJOBS \in Nat \ {0}
    /\ Pids \subseteq Nat \ {0}
    /\ IsFiniteSet(Pids)
    /\ NULL \notin Int

VARIABLES jobs, nextjid

jobVars == <<jobs, nextjid>>

Slots == 0 .. MAXJOBS - 1

JobStates == {"UNDEF", "FG", "BG", "ST"}

JobListTypeOK ==
    /\ jobs \in [Slots -> [pid : Pids \cup {0}, jid : Nat, state : JobStates]]
    /\ nextjid \in Nat \ {0}

cleared == [pid |-> 0, jid |-> 0, state |-> "UNDEF"]

initjobs == jobs = [i \in Slots |-> cleared] /\ nextjid = 1

(* What a loop over the table that returns at its first hit returns. *)
FirstOf(S) == IF S = {} THEN NULL ELSE CHOOSE i \in S : \A k \in S : i <= k

getjobpid(p) == FirstOf({i \in Slots : p >= 1 /\ jobs[i].pid = p})
getjobjid(j) == FirstOf({i \in Slots : j >= 1 /\ jobs[i].jid = j})
(* Fault: the search for a free entry starts at the second one. *)
Mutfreeslot  == FirstOf({i \in Slots : i >= 1 /\ jobs[i].pid = 0})
freeslot     == FirstOf({i \in Slots : jobs[i].pid = 0})

fgpid == LET i == FirstOf({k \in Slots : jobs[k].state = "FG"})
         IN  IF i = NULL THEN 0 ELSE jobs[i].pid

maxjid(table) ==
    CHOOSE m \in {table[i].jid : i \in Slots} :
        \A i \in Slots : table[i].jid <= m

(* A full table is reported and left as it is; the caller goes on. *)
addjob(p, s) ==
    IF freeslot = NULL
    THEN UNCHANGED jobVars
    ELSE /\ jobs' = [jobs EXCEPT ![freeslot] =
                        [pid |-> p, jid |-> nextjid, state |-> s]]
         /\ nextjid' = IF nextjid + 1 > MAXJOBS THEN 1 ELSE nextjid + 1

deletejob(p) ==
    IF getjobpid(p) = NULL
    THEN UNCHANGED jobVars
    ELSE /\ jobs' = [jobs EXCEPT ![getjobpid(p)] = cleared]
         /\ nextjid' = maxjid(jobs') + 1

setstate(i, s) ==
    /\ jobs' = [jobs EXCEPT ![i].state = s]
    /\ UNCHANGED nextjid

=============================================================================
