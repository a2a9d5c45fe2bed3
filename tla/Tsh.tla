-------------------------------- MODULE Tsh --------------------------------
(***************************************************************************)
(* The tiny shell (shlab-handout2/tsh.c): its read/eval loop, the signal   *)
(* handlers that interrupt it, and the child processes, each alone in its  *)
(* process group.  Time passes between any two of the shell's accesses to  *)
(* the job list that are not protected by the signal mask.                 *)
(*                                                                         *)
(* The kernel's side is modelled as POSIX has it: a pending signal is one  *)
(* bit, it is not delivered while blocked or while its handler runs, a     *)
(* signal unblocked while pending is delivered before sigprocmask returns, *)
(* a stopped process keeps a SIGINT until it is continued, a stop is       *)
(* reported once and no longer after a SIGCONT.  Between fork and execve a *)
(* child runs the shell's own handlers, with no foreground job in its copy *)
(* of the list: it absorbs SIGINT and SIGTSTP.                             *)
(***************************************************************************)
EXTENDS JobList, Sequences

CONSTANTS
    Commands,   \* what the user types: "job", "job&", "fg", "bg", "blank"
    MaxJid      \* bound on the job identifiers given out

VARIABLES
    shell,      \* "up", "exited" or "crashed" (a null pointer was followed)
    pc,         \* what the shell does next when no handler runs
    mode,       \* state in eval; what isbg says in do_bgfg
    pid, job,   \* local variables of eval, do_bgfg and waitfg
    masked,     \* SIGCHLD is blocked
    frames,     \* the handlers that run, the innermost first
    sigchld,    \* a SIGCHLD is pending
    proc,       \* what each child does
    own,        \* the children that are in a process group of their own
    news        \* the stopped children waitpid has not reported

shellVars == <<shell, pc, mode, pid, job, masked>>
childVars == <<proc, own, news>>
vars      == <<jobVars, shellVars, frames, sigchld, childVars>>

Keys == {"SIGINT", "SIGTSTP"}

TypeOK ==
    /\ JobListTypeOK
    /\ shell \in {"up", "exited", "crashed"}
    /\ pc \in {"prompt", "addjob", "unblock", "waitfg", "waiting",
               "continue", "setstate"}
    /\ mode \in {"FG", "BG"}
    /\ pid \in Pids \cup {0}
    /\ job \in Slots \cup {NULL}
    /\ masked \in BOOLEAN /\ sigchld \in BOOLEAN
    /\ frames \in Seq([sig : Keys \cup {"SIGCHLD"}, pid : Pids \cup {0}])
    /\ proc \in [Pids -> {"none", "forked", "grouped", "running", "stopped",
                          "doomed", "zombie"}]
    /\ own \subseteq Pids /\ news \subseteq Pids

Init ==
    /\ initjobs
    /\ shell = "up" /\ pc = "prompt" /\ mode = "FG" /\ pid = 0 /\ job = NULL
    /\ masked = FALSE /\ frames = <<>> /\ sigchld = FALSE
    /\ proc = [p \in Pids |-> "none"]
    /\ own = {} /\ news = {}

-----------------------------------------------------------------------------
(* Signals sent to processes. *)

Stopped(p) == proc[p] \in {"stopped", "doomed"}
Zombie(p)  == proc[p] = "zombie"

(* What a process in state st does of a signal's default action. *)
After(sig, st) ==
    CASE sig = "SIGINT"  /\ st = "running" -> "zombie"
      [] sig = "SIGINT"  /\ st = "stopped" -> "doomed"
      [] sig = "SIGTSTP" /\ st = "running" -> "stopped"
      [] sig = "SIGCONT" /\ st = "stopped" -> "running"
      [] sig = "SIGCONT" /\ st = "doomed"  -> "zombie"
      [] OTHER -> st

(* The kernel sends sig to the processes of S, and the shell a SIGCHLD if  *)
(* one of them ends, stops or continues.                                   *)
Send(sig, S) ==
    /\ proc' = [p \in Pids |-> IF p \in S THEN After(sig, proc[p])
                                          ELSE proc[p]]
    /\ news' = IF sig = "SIGCONT"
               THEN news \ S
               ELSE news \cup {p \in S : proc[p] = "running"
                                         /\ After(sig, proc[p]) = "stopped"}
    /\ sigchld' = (sigchld \/ \E p \in S :
                        After(sig, proc[p]) \notin {proc[p], "doomed"})

(* kill(-p, sig): there is no group p before the child has made it. *)
KillGroup(p, sig) == Send(sig, {p} \cap own)

-----------------------------------------------------------------------------
(* The read/eval loop. *)

MainAt(step) == shell = "up" /\ frames = <<>> /\ pc = step

ToPrompt == pc' = "prompt" /\ pid' = 0 /\ job' = NULL

Crash ==
    /\ shell' = "crashed"
    /\ UNCHANGED <<pc, mode, pid, job, masked>>

(* Fault: SIGCHLD is not blocked around the fork. *)
MutFork(m) ==
    /\ MainAt("prompt")
    /\ (IF m = "FG" THEN "job" ELSE "job&") \in Commands
    /\ nextjid <= MaxJid
    /\ \E p \in Pids :
        /\ proc[p] = "none"
        /\ proc' = [proc EXCEPT ![p] = "forked"]
        /\ pid' = p
    /\ mode' = m
    /\ pc' = "addjob"
    /\ UNCHANGED <<jobVars, shell, job, masked, frames, sigchld, own, news>>

(* eval of a command line that is not built in, as far as the fork. *)
Fork(m) ==
    /\ MainAt("prompt")
    /\ (IF m = "FG" THEN "job" ELSE "job&") \in Commands
    /\ nextjid <= MaxJid
    /\ \E p \in Pids :
        /\ proc[p] = "none"
        /\ proc' = [proc EXCEPT ![p] = "forked"]
        /\ pid' = p
    /\ mode' = m
    /\ masked' = TRUE
    /\ pc' = "addjob"
    /\ UNCHANGED <<jobVars, shell, job, frames, sigchld, own, news>>

AddJob ==
    /\ MainAt("addjob")
    /\ addjob(pid, mode)
    /\ pc' = "unblock"
    /\ UNCHANGED <<shell, mode, pid, job, masked, frames, sigchld, childVars>>

ChldFrame == [sig |-> "SIGCHLD", pid |-> 0]

(* A background job is then announced, which changes nothing. *)
Unblock ==
    /\ MainAt("unblock")
    /\ masked' = FALSE
    /\ frames' = IF sigchld THEN <<ChldFrame>> ELSE frames
    /\ sigchld' = FALSE
    /\ IF mode = "FG" THEN pc' = "waitfg" /\ UNCHANGED <<pid, job>>
                      ELSE ToPrompt
    /\ UNCHANGED <<jobVars, shell, mode, childVars>>

(* An empty line: argv[0] is null, and the test for it compares argv. *)
BlankLine ==
    /\ MainAt("prompt") /\ "blank" \in Commands
    /\ Crash
    /\ UNCHANGED <<jobVars, frames, sigchld, childVars>>

(* Fault: the job identifier is taken for the process identifier. *)
MutDoBgFg(m, i) ==
    /\ MainAt("prompt")
    /\ (IF m = "FG" THEN "fg" ELSE "bg") \in Commands
    /\ pid' = jobs[i].jid /\ job' = i /\ mode' = m
    /\ pc' = "continue"
    /\ UNCHANGED <<jobVars, shell, masked, frames, sigchld, childVars>>

(* do_bgfg has found entry i; an argument that names none changes nothing. *)
(* A handler that clears i before its pid is read leads where one that     *)
(* clears it afterwards does: kill reaches nobody, waitfg finds nothing.   *)
DoBgFg(m, i) ==
    /\ MainAt("prompt")
    /\ (IF m = "FG" THEN "fg" ELSE "bg") \in Commands
    /\ pid' = jobs[i].pid /\ job' = i /\ mode' = m
    /\ pc' = "continue"
    /\ UNCHANGED <<jobVars, shell, masked, frames, sigchld, childVars>>

Arguments == ({getjobpid(p) : p \in Pids} \cup
              {getjobjid(j) : j \in 1 .. MaxJid}) \ {NULL}

Continue ==
    /\ MainAt("continue")
    /\ KillGroup(pid, "SIGCONT")
    /\ pc' = "setstate"
    /\ UNCHANGED <<jobVars, shell, mode, pid, job, masked, frames, own>>

(* Fault: fg does not wait for the job. *)
MutSetState ==
    /\ MainAt("setstate")
    /\ setstate(job, mode)
    /\ ToPrompt
    /\ UNCHANGED <<shell, mode, masked, frames, sigchld, childVars>>


SetState ==
    /\ MainAt("setstate")
    /\ setstate(job, mode)
    /\ IF mode = "FG" THEN pc' = "waitfg" /\ UNCHANGED <<pid, job>>
                      ELSE ToPrompt
    /\ UNCHANGED <<shell, mode, masked, frames, sigchld, childVars>>

(* waitfg looks the job up once... *)
WaitFg ==
    /\ MainAt("waitfg")
    /\ IF getjobpid(pid) = NULL
       THEN Crash
       ELSE /\ job' = getjobpid(pid)
            /\ pc' = "waiting"
            /\ UNCHANGED <<shell, mode, pid, masked>>
    /\ UNCHANGED <<jobVars, frames, sigchld, childVars>>

(* Fault: waitfg sleeps once, whatever the state of the job. *)
MutWaitOver ==
    /\ MainAt("waiting")
    /\ ToPrompt
    /\ UNCHANGED <<jobVars, shell, mode, masked, frames, sigchld, childVars>>

(* ...and sleeps until its entry is no longer in the foreground. *)
WaitOver ==
    /\ MainAt("waiting")
    /\ jobs[job].state # "FG"
    /\ ToPrompt
    /\ UNCHANGED <<jobVars, shell, mode, masked, frames, sigchld, childVars>>

(* quit, end of file or a failed fork at the prompt, SIGQUIT at any time. *)
Exit ==
    /\ shell = "up"
    /\ shell' = "exited"
    /\ UNCHANGED <<jobVars, pc, mode, pid, job, masked, frames, sigchld,
                   childVars>>

MainRuns ==
    AddJob \/ Unblock \/ Continue \/ SetState \/ WaitFg \/ WaitOver

-----------------------------------------------------------------------------
(* The signal handlers.  A signal is blocked while its own handler runs.   *)

Handling(sig) == \E k \in DOMAIN frames : frames[k].sig = sig

InHandler(sigs) ==
    shell = "up" /\ frames # <<>> /\ Head(frames).sig \in sigs

(* The user types ctrl-c or ctrl-z: the kernel signals the shell's group,  *)
(* and the shell's handler looks for a foreground job.                     *)
Press(sig) ==
    /\ shell = "up" /\ ~Handling(sig)
    /\ frames' = <<[sig |-> sig, pid |-> fgpid]>> \o frames
    /\ Send(sig, Pids \ own)
    /\ UNCHANGED <<jobVars, shellVars, own>>

(* sigint_handler and sigtstp_handler pass the signal on. *)
Forward(sig) ==
    /\ InHandler({sig})
    /\ IF Head(frames).pid # 0
       THEN KillGroup(Head(frames).pid, sig)
       ELSE UNCHANGED <<proc, news, sigchld>>
    /\ frames' = Tail(frames)
    /\ UNCHANGED <<jobVars, shellVars, own>>

Deliver ==
    /\ shell = "up" /\ sigchld /\ ~masked /\ ~Handling("SIGCHLD")
    /\ frames' = <<ChldFrame>> \o frames
    /\ sigchld' = FALSE
    /\ UNCHANGED <<jobVars, shellVars, childVars>>

(* Fault: the handler reaps one child, with an if for the while. *)
MutReap(p) ==
    /\ InHandler({"SIGCHLD"}) /\ Zombie(p)
    /\ deletejob(p)
    /\ proc' = [proc EXCEPT ![p] = "none"]
    /\ own' = own \ {p}
    /\ frames' = Tail(frames)
    /\ UNCHANGED <<shellVars, sigchld, news>>

(* One round of sigchld_handler's loop: a child that has ended... *)
Reap(p) ==
    /\ InHandler({"SIGCHLD"}) /\ Zombie(p)
    /\ deletejob(p)
    /\ proc' = [proc EXCEPT ![p] = "none"]
    /\ own' = own \ {p}
    /\ UNCHANGED <<shellVars, frames, sigchld, news>>

(* Fault: a stop is reported to the user but not recorded. *)
MutNoteStop(p) ==
    /\ InHandler({"SIGCHLD"}) /\ p \in news
    /\ news' = news \ {p}
    /\ UNCHANGED <<jobVars, shellVars, frames, sigchld, proc, own>>

(* ...or one that has stopped. *)
NoteStop(p) ==
    /\ InHandler({"SIGCHLD"}) /\ p \in news
    /\ news' = news \ {p}
    /\ IF getjobpid(p) = NULL
       THEN Crash /\ UNCHANGED jobVars
       ELSE setstate(getjobpid(p), "ST") /\ UNCHANGED shellVars
    /\ UNCHANGED <<frames, sigchld, proc, own>>

Waitable == {p \in Pids : Zombie(p)} \cup news

(* Fault: waitpid is called without WUNTRACED. *)
MutHandlerDone ==
    /\ InHandler({"SIGCHLD"}) /\ ~\E p \in Pids : Zombie(p)
    /\ frames' = Tail(frames)
    /\ UNCHANGED <<jobVars, shellVars, sigchld, childVars>>


HandlerDone ==
    /\ InHandler({"SIGCHLD"}) /\ Waitable = {}
    /\ frames' = Tail(frames)
    /\ UNCHANGED <<jobVars, shellVars, sigchld, childVars>>

Reaps == HandlerDone \/ \E p \in Pids : Reap(p) \/ NoteStop(p)

-----------------------------------------------------------------------------
(* The children. *)

Becomes(p, from, to) ==
    shell = "up" /\ proc[p] = from /\ proc' = [proc EXCEPT ![p] = to]

(* Fault: the child stays in the process group of the shell. *)
MutSetpgid(p) ==
    /\ Becomes(p, "forked", "grouped")
    /\ UNCHANGED <<jobVars, shellVars, frames, sigchld, own, news>>


Setpgid(p) ==
    /\ Becomes(p, "forked", "grouped")
    /\ own' = own \cup {p}
    /\ UNCHANGED <<jobVars, shellVars, frames, sigchld, news>>

Exec(p) ==
    /\ Becomes(p, "grouped", "running")
    /\ UNCHANGED <<jobVars, shellVars, frames, sigchld, own, news>>

(* The program ends by itself or by a signal, or there is no such program. *)
End(p) ==
    /\ Becomes(p, "running", "zombie") \/ Becomes(p, "grouped", "zombie")
    /\ sigchld' = TRUE
    /\ UNCHANGED <<jobVars, shellVars, frames, own, news>>

Stop(p) ==
    /\ Becomes(p, "running", "stopped")
    /\ news' = news \cup {p}
    /\ sigchld' = TRUE
    /\ UNCHANGED <<jobVars, shellVars, frames, own>>

(* What the children do once the shell is gone is of no interest. *)
Over == shell # "up" /\ UNCHANGED vars

Next ==
    \/ MainRuns \/ Exit \/ BlankLine
    \/ \E m \in {"FG", "BG"} : Fork(m) \/ \E i \in Arguments : DoBgFg(m, i)
    \/ \E sig \in Keys : Press(sig) \/ Forward(sig)
    \/ Deliver \/ Reaps
    \/ \E p \in Pids : Setpgid(p) \/ Exec(p) \/ End(p) \/ Stop(p)
    \/ Over

(* The shell runs: a step of main or of a handler that is possible again   *)
(* and again, between the keys a user types, is taken.  Children and users *)
(* owe nothing.                                                            *)
Fairness ==
    /\ SF_vars(MainRuns) /\ SF_vars(Reaps) /\ WF_vars(Deliver)
    /\ \A sig \in Keys : SF_vars(Forward(sig))

Spec == Init /\ [][Next]_vars /\ Fairness

-----------------------------------------------------------------------------
(* Properties. *)

(* "At most 1 job can be in the FG state" (tsh.c:43): eval and do_bgfg     *)
(* write FG only because waitfg kept main away while an older one lasted.  *)
OneForeground ==
    \A i, k \in Slots : jobs[i].state = "FG" /\ jobs[k].state = "FG" => i = k

(* A job in the foreground is the one main waits for: at the prompt there  *)
(* is none, so ctrl-c there harms nobody.  (An entry of pid 0 was cleared  *)
(* by the handler just before do_bgfg wrote FG to it.)                     *)
ForegroundIsAwaited ==
    \A i \in Slots :
        jobs[i].state = "FG" => /\ pc \in {"unblock", "waitfg", "waiting"}
                                /\ jobs[i].pid \in {pid, 0}

(* The mask of eval (tsh.c:206) and deletejob keep the list sound: no      *)
(* child is listed twice, and none after it was reaped, when its pid may   *)
(* be another's.                                                           *)
JobsAreChildren ==
    /\ \A i, k \in Slots : jobs[i].pid = jobs[k].pid /\ i # k
                           => jobs[i].pid = 0
    /\ \A i \in Slots : jobs[i].pid # 0 => proc[jobs[i].pid] # "none"

(* As long as the table is large enough, addjob and deletejob lose nobody: *)
(* every child is listed from addjob until it is reaped.                   *)
ChildrenAreListed ==
    \A p \in Pids :
        proc[p] # "none" /\ ~(pc = "addjob" /\ pid = p)
        => \E i \in Slots : jobs[i].pid = p

(* "so that our background children don't receive SIGINT (SIGTSTP) from    *)
(* the kernel when we type ctrl-c (ctrl-z)" (tsh.c:178): neither the       *)
(* kernel's signal nor the one a handler forwards, to a job that was in    *)
(* the foreground when the handler looked, reaches a job in the background.*)
BackgroundUntouched ==
    [][(\E sig \in Keys : Press(sig) \/ Forward(sig))
       => \A i \in Slots : jobs[i].state = "BG" /\ jobs[i].pid # 0
                           => proc'[jobs[i].pid] = proc[jobs[i].pid]]_vars

(* "The handler reaps all available zombie children" (tsh.c:446), although *)
(* several deaths make one pending signal.                                 *)
ZombiesAreReaped ==
    \A p \in Pids : Zombie(p) ~> (proc[p] = "none" \/ shell # "up")

(* "waitfg - Block until process pid is no longer the foreground process"  *)
(* (tsh.c:426): a shell that waits for a job that has stopped or ended     *)
(* comes back to the prompt.                                               *)
PromptReturns ==
    (pc = "waiting" /\ (Stopped(pid) \/ Zombie(pid)))
    ~> (pc = "prompt" \/ shell # "up")

(* When the shell is at its prompt and owes the kernel nothing, the list   *)
(* tells the truth: the jobs are marked stopped that are, and no other.    *)
QuietTable ==
    MainAt("prompt") /\ ~sigchld
    => \A i \in Slots : jobs[i].pid # 0
                        => ((jobs[i].state = "ST") <=> Stopped(jobs[i].pid))

(* "If the job is running in the foreground, wait for it to terminate and  *)
(* then return" (tsh.c:175): eval does not follow a null pointer.          *)
EvalSurvives == shell # "crashed"

(* sigint_handler is to "catch it and send it along to the foreground job" *)
(* (tsh.c:487): the job it is sent to does not go on.                      *)
CtrlCReaches ==
    [][Forward("SIGINT") /\ Head(frames).pid # 0
       => proc'[Head(frames).pid] \notin {"forked", "grouped", "running"}]_vars

=============================================================================
