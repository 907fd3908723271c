------------------------------- MODULE Pssh -------------------------------
(***************************************************************************)
(* Job control in the pssh shell (pssh_v2: pssh.c, jobs.c, builtin.c): one *)
(* shell process, the children it forks, the part of the kernel both talk  *)
(* to (process groups, the terminal's foreground group, wait statuses,     *)
(* SIGCHLD), and the job table J the SIGCHLD handler and the main program  *)
(* share.  A shell step is the code between two points at which a signal   *)
(* can change something the code goes on to use; a step of the handler is  *)
(* one turn of its waitpid loop.                                           *)
(***************************************************************************)
EXTENDS Naturals, Sequences, FiniteSets, Functions

CONSTANTS
  Pid,       \* pids the kernel can hand to children; none is reused
  Shell,     \* the shell's own process group, pssh_pgrp
  MaxJobs,   \* MAX_JOBS, the size of J
  MaxTasks,  \* longest pipeline a user types
  MaxStops,  \* how many stop signals the environment sends in all
  Races      \* the timing windows the environment may hit, see Windows

(***************************************************************************)
(* Situations in which the code is exposed.  A run lists in Races those in *)
(* which anything may happen; in the others the children are assumed to be *)
(* slow enough, or the user patient enough, to stay out of the way.        *)
(*   register  a child exits or stops before job_add has recorded it       *)
(*   childfg   the last child's tcsetpgrp comes after job_add              *)
(*   fg        a stop of a job is still unreported while fg acts on it     *)
(*   pause     SIGCHLD arrives between tcgetpgrp() and pause()             *)
(*   full      a command is launched while J has no free slot              *)
(***************************************************************************)
Windows == {"register", "childfg", "fg", "pause", "full"}

ASSUME PsshAssumption ==
  /\ Shell \notin Pid
  /\ MaxJobs \in Nat \ {0}
  /\ MaxTasks \in Nat \ {0}
  /\ MaxStops \in Nat
  /\ Races \subseteq Windows

Slot      == 0 .. MaxJobs - 1
Pgrp      == Pid \union {Shell}
JobStatus == {"STOPPED", "TERM", "BG", "FG"}

Job    == [name : BOOLEAN, pids : SUBSET Pid, pgrp : Pgrp, status : JobStatus]
Locals == [procs : Seq(Pid), ntasks : 1 .. MaxTasks, background : BOOLEAN, slot : Slot]

VARIABLES
  st,        \* kernel: none, run, stop, zombie, gone (waited for)
  pgrp,      \* kernel: process group of each child
  note,      \* kernel: state change waitpid has yet to report for a live child
  pending,   \* kernel: children a stop signal was sent to, not yet delivered
  tty,       \* kernel: foreground process group of the terminal
  chld,      \* kernel: SIGCHLD is pending for the shell
  stops,     \* stop signals the environment has sent
  stage,     \* child: the system call it makes next on its way to exec
  leader,    \* child: its copy of pid[0] (itself for the first one)
  takesTty,  \* children that will call set_fg_process_group
  J,         \* the job table of jobs.c
  pc,        \* the shell's next step
  cur,       \* locals of execute_tasks, job_add and builtin_fg
  inHandler  \* the shell is in handler (SIGCHLD)

kernel == <<st, pgrp, note, pending, tty, chld, stops>>
child  == <<stage, leader, takesTty>>
vars   == <<kernel, child, J, pc, cur, inHandler>>

NoCommand == [procs |-> <<>>, ntasks |-> 1, background |-> FALSE, slot |-> 0]

Registering == {"fork", "setpgid", "setfg", "add_name", "add_pids", "add_status"}
InFg        == {"fg_status", "fg_tty", "fg_cont"}

TypeOK ==
  /\ st \in [Pid -> {"none", "run", "stop", "zombie", "gone"}]
  /\ pgrp \in [Pid -> Pgrp]
  /\ note \in [Pid -> {"none", "stopped", "continued"}]
  /\ pending \subseteq Pid
  /\ tty \in Pgrp
  /\ chld \in BOOLEAN
  /\ stops \in Nat
  /\ stage \in [Pid -> {"setpgid", "setfg", "exec"}]
  /\ leader \in [Pid -> Pid]
  /\ takesTty \subseteq Pid
  /\ J \in [Slot -> Job]
  /\ pc \in Registering \union InFg \union
            {"prompt", "topause", "paused", "crashed"}
  /\ cur \in Locals
  /\ inHandler \in BOOLEAN

---------------------------------------------------------------------------
(* The kernel calls the shell and its children make.                       *)

Unreaped(p) == st[p] \in {"run", "stop", "zombie"}
Members(g)  == {p \in Pid : Unreaped(p) /\ pgrp[p] = g}

\* setpgid(p, g): fails when g is neither p itself nor an existing group.
SetpgidTo(p, g) ==
  IF p = g \/ Members(g) # {} THEN [pgrp EXCEPT ![p] = g] ELSE pgrp

\* set_fg_process_group(g): tcsetpgrp fails for a group with no member left.
TtyAfter(g) == IF g = Shell \/ Members(g) # {} THEN g ELSE tty

StopSignal(S) ==
  pending' = pending \union {p \in S : st[p] = "run"}

ContSignal(S) ==
  LET woken == {p \in S : st[p] = "stop"} IN
  /\ st'      = [p \in Pid |-> IF p \in woken THEN "run" ELSE st[p]]
  /\ note'    = [p \in Pid |-> IF p \in woken THEN "continued" ELSE note[p]]
  /\ pending' = pending \ S
  /\ chld'    = (chld \/ woken # {})

KillSignal(S) ==
  LET killed == {p \in S : st[p] \in {"run", "stop"}} IN
  /\ st'      = [p \in Pid |-> IF p \in killed THEN "zombie" ELSE st[p]]
  /\ note'    = [p \in Pid |-> IF p \in killed THEN "none" ELSE note[p]]
  /\ pending' = pending \ S
  /\ chld'    = (chld \/ killed # {})

Waitable(p) == st[p] = "zombie" \/ (Unreaped(p) /\ note[p] # "none")

---------------------------------------------------------------------------
(* jobs.c                                                                  *)

jobs_init ==
  J = [i \in Slot |-> [name |-> FALSE, pids |-> {},
                       pgrp |-> Shell, status |-> "STOPPED"]]

FreeSlots_oneTooMany == {i \in 0 .. MaxJobs : i = MaxJobs \/ ~J[i].name}  \* mutant: <= MAX_JOBS

FreeSlots == {i \in Slot : ~J[i].name}

job_exists(i) == J[i].name

job_status(i) == IF job_exists(i) THEN J[i].status ELSE "TERM"

JobOf(p) == {i \in Slot : p \in J[i].pids}

job_set_status_inverted(i, s) ==                       \* mutant: if (job_exists) return
  IF job_exists(i) THEN J ELSE [J EXCEPT ![i].status = s]

job_set_status(i, s) ==
  IF job_exists(i) THEN [J EXCEPT ![i].status = s] ELSE J

job_remove_pid(i, p) == [J EXCEPT ![i].pids = @ \ {p}]

job_is_done_early(table, i) == table[i].pids # J[i].pids   \* mutant: any entry cleared

job_is_done(table, i) == table[i].pids = {}

job_delete_keepsName(table, i) == [table EXCEPT ![i].pids = {}]  \* mutant: name stays

job_delete(table, i) == [table EXCEPT ![i].pids = {}, ![i].name = FALSE]

\* job_kill reads J[i].pgrp and signals that whole group.
JobGroup(i) == IF job_exists(i) THEN Members(J[i].pgrp) ELSE {}

---------------------------------------------------------------------------
(* Children, from fork to exec and from exec to exit.                      *)

\* A child of the command being launched, while "register" is not raced.
Quiet(p) == "register" \in Races \/ pc \notin Registering
                                 \/ p \notin Range(cur.procs)

ChildSetpgid(p) ==
  /\ st[p] = "run" /\ stage[p] = "setpgid"
  /\ pgrp'  = SetpgidTo(p, leader[p])
  /\ stage' = [stage EXCEPT ![p] = IF p \in takesTty THEN "setfg" ELSE "exec"]
  /\ UNCHANGED <<st, note, pending, tty, chld, stops, leader, takesTty,
                 J, pc, cur, inHandler>>

ChildSetFg(p) ==
  /\ st[p] = "run" /\ stage[p] = "setfg"
  /\ tty'   = TtyAfter(leader[p])
  /\ stage' = [stage EXCEPT ![p] = "exec"]
  /\ UNCHANGED <<st, pgrp, note, pending, chld, stops, leader, takesTty,
                 J, pc, cur, inHandler>>

Exit(p) ==
  /\ st[p] = "run" /\ stage[p] = "exec" /\ Quiet(p)
  /\ st'      = [st EXCEPT ![p] = "zombie"]
  /\ note'    = [note EXCEPT ![p] = "none"]
  /\ pending' = pending \ {p}
  /\ chld'    = TRUE
  /\ UNCHANGED <<pgrp, tty, stops, child, J, pc, cur, inHandler>>

\* A stop signal sent earlier takes effect on p.
StopDelivered(p) ==
  /\ p \in pending /\ Quiet(p)
  /\ "childfg" \in Races \/ stage[p] = "exec"
  /\ "fg" \in Races \/ ~(pc \in InFg /\ p \in J[cur.slot].pids)
  /\ st'      = [st EXCEPT ![p] = "stop"]
  /\ note'    = [note EXCEPT ![p] = "stopped"]
  /\ pending' = pending \ {p}
  /\ chld'    = TRUE
  /\ UNCHANGED <<pgrp, tty, stops, child, J, pc, cur, inHandler>>

\* p reads the terminal from the background: SIGTTIN for its whole group.
BackgroundRead(p) ==
  /\ st[p] = "run" /\ stage[p] = "exec" /\ pgrp[p] \notin {tty, Shell}
  /\ stops < MaxStops
  /\ stops' = stops + 1
  /\ StopSignal(Members(pgrp[p]))
  /\ UNCHANGED <<st, pgrp, note, tty, chld, child, J, pc, cur, inHandler>>

\* The user types ctrl+z at a foreground job.
CtrlZ ==
  /\ tty # Shell /\ stops < MaxStops
  /\ stops' = stops + 1
  /\ StopSignal(Members(tty))
  /\ UNCHANGED <<st, pgrp, note, tty, chld, child, J, pc, cur, inHandler>>

\* The user types ctrl+c at a foreground job.
CtrlC ==
  /\ tty # Shell /\ \A p \in Members(tty) : Quiet(p)
  /\ KillSignal({p \in Members(tty) : st[p] = "run"})
  /\ UNCHANGED <<pgrp, tty, stops, child, J, pc, cur, inHandler>>

---------------------------------------------------------------------------
(* The main program: readline, execute_tasks, job_add, the built-ins.      *)

At(l) == pc = l /\ ~inHandler

\* The shell touches the terminal while another group owns it: SIGTTOU or
\* SIGTTIN, whose handler tests tcgetpgrp() and then calls pause().
TtySignal ==
  /\ At("prompt") /\ tty # Shell
  /\ pc' = IF "pause" \in Races THEN "topause" ELSE "paused"
  /\ UNCHANGED <<kernel, child, J, cur, inHandler>>

Pause ==
  /\ At("topause")
  /\ pc' = "paused"
  /\ UNCHANGED <<kernel, child, J, cur, inHandler>>

Command == At("prompt") /\ tty = Shell

Launch(n, bg) ==
  /\ Command
  /\ Cardinality({p \in Pid : st[p] = "none"}) >= n
  /\ "full" \in Races \/ FreeSlots # {}
  /\ cur' = [NoCommand EXCEPT !.ntasks = n, !.background = bg]
  /\ pc'  = "fork"
  /\ UNCHANGED <<kernel, child, J, inHandler>>

Fork(p) ==
  /\ At("fork") /\ st[p] = "none"
  /\ LET procs == Append(cur.procs, p) IN
     /\ cur'      = [cur EXCEPT !.procs = procs]
     /\ leader'   = [leader EXCEPT ![p] = procs[1]]
     /\ takesTty' = IF Len(procs) = cur.ntasks /\ Len(procs) > 1
                       /\ ~cur.background
                    THEN takesTty \union {p} ELSE takesTty
  /\ st' = [st EXCEPT ![p] = "run"]
  /\ pc' = "setpgid"
  /\ UNCHANGED <<pgrp, note, pending, tty, chld, stops, stage, J, inHandler>>

\* setpgid(pid[t], pid[0]) in the parent: EACCES once the child has exec'd.
ParentSetpgid ==
  /\ At("setpgid")
  /\ LET p == cur.procs[Len(cur.procs)] IN
     pgrp' = IF Unreaped(p) /\ stage[p] # "exec"
             THEN SetpgidTo(p, cur.procs[1]) ELSE pgrp
  /\ pc' = IF Len(cur.procs) < cur.ntasks THEN "fork"
           ELSE IF cur.background THEN "add_name" ELSE "setfg"
  /\ UNCHANGED <<st, note, pending, tty, chld, stops, child, J, cur, inHandler>>

ParentSetFg ==
  /\ At("setfg")
  /\ tty' = TtyAfter(cur.procs[1])
  /\ pc'  = "add_name"
  /\ UNCHANGED <<st, pgrp, note, pending, chld, stops, child, J, cur, inHandler>>

\* job_add, first part: the lowest free slot, or return 0 when J is full.
AddName ==
  /\ At("add_name")
  /\ \/ "childfg" \in Races
     \/ \A p \in Range(cur.procs) : st[p] = "run" => stage[p] = "exec"
  /\ \/ /\ FreeSlots = {}
        /\ pc'  = "prompt"
        /\ cur' = NoCommand
        /\ UNCHANGED J
     \/ \E i \in FreeSlots :
        /\ \A k \in FreeSlots : i <= k
        /\ J'   = [J EXCEPT ![i].name = TRUE]
        /\ cur' = [cur EXCEPT !.slot = i]
        /\ pc'  = "add_pids"
  /\ UNCHANGED <<kernel, child, inHandler>>

AddPids_offByOne ==                            \* mutant: copies npids - 1 entries
  /\ At("add_pids")
  /\ J'  = [J EXCEPT ![cur.slot].pids =
               {cur.procs[k] : k \in 1 .. Len(cur.procs) - 1}]
  /\ pc' = "add_status"
  /\ UNCHANGED <<kernel, child, cur, inHandler>>

AddPids ==
  /\ At("add_pids")
  /\ J'  = [J EXCEPT ![cur.slot].pids = Range(cur.procs)]
  /\ pc' = "add_status"
  /\ UNCHANGED <<kernel, child, cur, inHandler>>

AddStatus_swapped ==                           \* mutant: BG and FG exchanged
  /\ At("add_status")
  /\ J'   = [J EXCEPT ![cur.slot].pgrp   = cur.procs[1],
                      ![cur.slot].status = IF cur.background THEN "FG" ELSE "BG"]
  /\ pc'  = "prompt"
  /\ cur' = NoCommand
  /\ UNCHANGED <<kernel, child, inHandler>>

AddStatus_perTask ==                           \* mutant: job_add runs once for each task
  /\ At("add_status")
  /\ J'   = [J EXCEPT ![cur.slot].pgrp   = cur.procs[1],
                      ![cur.slot].status = IF cur.background THEN "BG" ELSE "FG"]
  /\ pc'  = "add_name"
  /\ UNCHANGED <<kernel, child, cur, inHandler>>

AddStatus ==
  /\ At("add_status")
  /\ J'   = [J EXCEPT ![cur.slot].pgrp   = cur.procs[1],
                      ![cur.slot].status = IF cur.background THEN "BG" ELSE "FG"]
  /\ pc'  = "prompt"
  /\ cur' = NoCommand
  /\ UNCHANGED <<kernel, child, inHandler>>

Reported(i) == \A p \in J[i].pids : note[p] # "stopped" /\ p \notin pending

Fg(i) ==
  /\ Command /\ job_exists(i)
  /\ "fg" \in Races \/ Reported(i)
  /\ cur' = [NoCommand EXCEPT !.slot = i]
  /\ pc'  = "fg_status"
  /\ UNCHANGED <<kernel, child, J, inHandler>>

FgStatus ==
  /\ At("fg_status")
  /\ J'  = job_set_status(cur.slot, "FG")
  /\ pc' = "fg_tty"
  /\ UNCHANGED <<kernel, child, cur, inHandler>>

FgTty ==
  /\ At("fg_tty")
  /\ tty' = TtyAfter(J[cur.slot].pgrp)
  /\ pc'  = "fg_cont"
  /\ UNCHANGED <<st, pgrp, note, pending, chld, stops, child, J, cur, inHandler>>

FgCont ==
  /\ At("fg_cont")
  /\ ContSignal(JobGroup(cur.slot))
  /\ pc'  = "prompt"
  /\ cur' = NoCommand
  /\ UNCHANGED <<pgrp, tty, stops, child, J, inHandler>>

Bg(i) ==
  /\ Command /\ job_exists(i)
  /\ ContSignal(JobGroup(i))
  /\ UNCHANGED <<pgrp, tty, stops, child, J, pc, cur, inHandler>>

KillStop(i) ==
  /\ Command /\ job_exists(i) /\ stops < MaxStops
  /\ stops' = stops + 1
  /\ StopSignal(JobGroup(i))
  /\ UNCHANGED <<st, pgrp, note, tty, chld, child, J, pc, cur, inHandler>>

\* kill -s 9 %i.  (A kill with a signal some processes of the job survive is a
\* choice of which of them Exit.)
Kill(i) ==
  /\ Command /\ job_exists(i)
  /\ KillSignal(JobGroup(i))
  /\ UNCHANGED <<pgrp, tty, stops, child, J, pc, cur, inHandler>>

---------------------------------------------------------------------------
(* handler, case SIGCHLD.                                                  *)

EnterHandler ==
  /\ chld /\ ~inHandler /\ pc # "crashed"
  /\ chld'      = FALSE
  /\ inHandler' = TRUE
  /\ UNCHANGED <<st, pgrp, note, pending, tty, stops, child, J, pc, cur>>

\* job_get_number returned -1 and the handler goes on with J[-1], memory that
\* is no job: it aborts in strdup or free, or leaves the table as it is, and
\* with the wrong bytes there it may move the terminal to the shell.
NoSuchJob ==
  /\ \/ pc' = "crashed" /\ UNCHANGED tty
     \/ pc' = pc /\ UNCHANGED tty
     \/ pc' = pc /\ tty' = Shell
  /\ UNCHANGED J

WaitStopped(p) ==
  /\ inHandler /\ st[p] = "stop" /\ note[p] = "stopped"
  /\ note' = [note EXCEPT ![p] = "none"]
  /\ \/ \E i \in JobOf(p) :
          /\ IF job_status(i) # "STOPPED"
             THEN J' = job_set_status(i, "STOPPED") /\ tty' = Shell
             ELSE UNCHANGED <<J, tty>>
          /\ pc' = pc
     \/ JobOf(p) = {} /\ NoSuchJob
  /\ inHandler' = (pc' # "crashed")
  /\ UNCHANGED <<st, pgrp, pending, chld, stops, child, cur>>

WaitContinued(p) ==
  /\ inHandler /\ st[p] = "run" /\ note[p] = "continued"
  /\ note' = [note EXCEPT ![p] = "none"]
  /\ \/ \E i \in JobOf(p) :
          /\ J'  = IF job_status(i) = "STOPPED" THEN job_set_status(i, "BG") ELSE J
          /\ UNCHANGED <<tty, pc>>
     \/ JobOf(p) = {} /\ NoSuchJob
  /\ inHandler' = (pc' # "crashed")
  /\ UNCHANGED <<st, pgrp, pending, chld, stops, child, cur>>

TtyAfterLastExit_deletedFirst(i) == tty     \* mutant: job_delete first, status then TERM

TtyAfterLastExit(i) == IF job_status(i) = "FG" THEN Shell ELSE tty

WaitExited(p) ==
  /\ inHandler /\ st[p] = "zombie"
  /\ st' = [st EXCEPT ![p] = "gone"]
  /\ \/ \E i \in JobOf(p) :
          LET table == job_remove_pid(i, p) IN
          /\ IF job_is_done(table, i)
             THEN /\ tty' = TtyAfterLastExit(i)
                  /\ J'   = job_delete(table, i)
             ELSE J' = table /\ UNCHANGED tty
          /\ pc' = pc
     \/ JobOf(p) = {} /\ NoSuchJob
  /\ inHandler' = (pc' # "crashed")
  /\ UNCHANGED <<pgrp, note, pending, chld, stops, child, cur>>

LeaveHandler_restarted ==                   \* mutant: pause() goes on after the handler
  /\ inHandler /\ \A p \in Pid : ~Waitable(p)
  /\ inHandler' = FALSE
  /\ UNCHANGED <<kernel, child, J, pc, cur>>

\* waitpid has nothing more to report; a pause() that was interrupted ends and
\* the loop around it tests tcgetpgrp() again.
LeaveHandler ==
  /\ inHandler /\ \A p \in Pid : ~Waitable(p)
  /\ inHandler' = FALSE
  /\ pc' = IF pc = "paused" THEN "prompt" ELSE pc
  /\ UNCHANGED <<kernel, child, J, cur>>

---------------------------------------------------------------------------
Init ==
  /\ st        = [p \in Pid |-> "none"]
  /\ pgrp      = [p \in Pid |-> Shell]
  /\ note      = [p \in Pid |-> "none"]
  /\ pending   = {}
  /\ tty       = Shell
  /\ chld      = FALSE
  /\ stops     = 0
  /\ stage     = [p \in Pid |-> "setpgid"]
  /\ leader    = [p \in Pid |-> p]
  /\ takesTty  = {}
  /\ jobs_init
  /\ pc        = "prompt"
  /\ cur       = NoCommand
  /\ inHandler = FALSE

\* What the user and the programs that were started do, at any time or never.
Environment ==
  \/ CtrlZ
  \/ CtrlC
  \/ \E p \in Pid : Exit(p) \/ BackgroundRead(p)
  \/ \E n \in 1 .. MaxTasks, bg \in BOOLEAN : Launch(n, bg)
  \/ \E i \in Slot : Fg(i) \/ Bg(i) \/ KillStop(i) \/ Kill(i)

\* What a child does before exec, and the delivery of a signal sent to it.
ChildStep(p) == ChildSetpgid(p) \/ ChildSetFg(p) \/ StopDelivered(p)

ShellStep ==
  \/ TtySignal \/ Pause
  \/ \E p \in Pid : Fork(p)
  \/ ParentSetpgid \/ ParentSetFg \/ AddName \/ AddPids \/ AddStatus
  \/ FgStatus \/ FgTty \/ FgCont

HandlerStep ==
  \/ EnterHandler
  \/ \E p \in Pid : WaitStopped(p) \/ WaitContinued(p) \/ WaitExited(p)
  \/ LeaveHandler

Next ==
  \/ Environment
  \/ \E p \in Pid : ChildStep(p)
  \/ ShellStep
  \/ HandlerStep

\* The scheduler runs the shell and its children; nothing obliges the user to
\* type or a program to exit.
Fairness ==
  /\ WF_vars(ShellStep)
  /\ WF_vars(HandlerStep)
  /\ \A p \in Pid : WF_vars(ChildStep(p))

Spec     == Init /\ [][Next]_vars
FairSpec == Spec /\ Fairness

---------------------------------------------------------------------------
(* Properties.                                                             *)

\* Nothing is in flight: the shell reads a command and has nothing to wait for.
Quiescent ==
  /\ At("prompt")
  /\ pending = {}
  /\ \A p \in Pid : ~Waitable(p)

LiveProcs(i) == {p \in J[i].pids : Unreaped(p)}
Launched(i)  == {p \in Pid : st[p] # "none" /\ leader[p] = J[i].pgrp}

\* A pid is in the pids array of at most one job, so that job_get_number finds
\* the job a wait status belongs to.
OneJobPerProcess ==
  \A i, k \in Slot : i # k => J[i].pids \intersect J[k].pids = {}

\* A job forgets a process (job_remove_pid, job_delete, a reused slot) only
\* when the handler has waited for that process: a live child is never lost.
ReapedBeforeForgotten ==
  [][\A i \in Slot : \A p \in J[i].pids \ J'[i].pids : st'[p] = "gone"]_vars

\* Once everything is reported, a job in the table has a process left: the
\* last exit of a job removes it.
NoStaleJob ==
  Quiescent => \A i \in Slot : job_exists(i) => LiveProcs(i) # {}

\* Once everything is reported, a job none of whose processes has ended and
\* all of whose processes are stopped is shown as stopped by jobs.
StoppedIsShown ==
  Quiescent => \A i \in Slot :
     (job_exists(i) /\ \A p \in Launched(i) : st[p] = "stop")
       => J[i].status = "STOPPED"

\* Once everything is reported, the terminal is the shell's or belongs to a
\* live job marked FG, whose end will give it back.
TerminalOwned ==
  Quiescent =>
    \/ tty = Shell
    \/ \E i \in Slot : /\ job_exists(i) /\ J[i].pgrp = tty
                       /\ J[i].status = "FG" /\ LiveProcs(i) # {}

\* The handler never acts on a job number of -1.
NoPhantomJob == pc # "crashed"

\* A terminal whose owner has no process left comes back to the shell.
TerminalReturned ==
  (Members(tty) \subseteq {p \in Pid : st[p] = "zombie"}) ~> (tty = Shell)

\* A shell waiting in its SIGTTIN/SIGTTOU handler resumes once it owns the
\* terminal.
PromptReturns ==
  (pc \in {"topause", "paused"} /\ tty = Shell) ~> (pc = "prompt")
=============================================================================
