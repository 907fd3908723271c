---------------------------- MODULE Pssh_proofs ----------------------------
(***************************************************************************)
(* For any number of pids, job slots and pipeline lengths.  Whatever the   *)
(* timing: the types of the state, that a pid belongs to one job, and that *)
(* a job forgets a process only once it has been waited for (IInv).  While *)
(* no process outruns job_add: jobs have processes, and are shown stopped  *)
(* when theirs are (RecordedInv).  While J has room too: the handler finds *)
(* the job of every child (Tracked).  While neither the last child's       *)
(* tcsetpgrp nor an unreported stop comes late: the terminal has an owner  *)
(* that gives it back (TerminalInv).                                       *)
(***************************************************************************)
EXTENDS Pssh, TLAPS

---------------------------------------------------------------------------
(* The inductive invariant of the job table.                               *)

\* The pids array of a free slot is empty (jobs_init, job_delete).
FreeSlotsEmpty == \A i \in Slot : ~J[i].name => J[i].pids = {}

\* A pid in the table, or among the locals of execute_tasks, has been forked.
KnownPidsForked ==
  /\ \A i \in Slot : \A p \in J[i].pids : st[p] # "none"
  /\ \A p \in Range(cur.procs) : st[p] # "none"

\* Until job_add stores them, the pids of the command being launched are in
\* no job, and the slot job_add has picked is empty.
LaunchedPidsFresh ==
  /\ pc \in Registering \ {"fork"} => cur.procs # <<>>
  /\ pc \in Registering \ {"add_status"} =>
       \A i \in Slot : J[i].pids \intersect Range(cur.procs) = {}
  /\ pc = "add_pids" => J[cur.slot].name /\ J[cur.slot].pids = {}

TableInv == OneJobPerProcess /\ FreeSlotsEmpty /\ KnownPidsForked /\ LaunchedPidsFresh

IInv == TypeOK /\ TableInv

---------------------------------------------------------------------------
LEMMA RangeAppend ==
  ASSUME NEW S, NEW s \in Seq(S), NEW e \in S
  PROVE  /\ Append(s, e) \in Seq(S)
         /\ Append(s, e) # <<>>
         /\ Append(s, e)[1] \in S
         /\ Range(Append(s, e)) = Range(s) \union {e}
  <1> DEFINE t == Append(s, e)
  <1>1. /\ t \in Seq(S) /\ t # <<>> /\ Len(t) = Len(s) + 1
        /\ \A i \in 1 .. Len(s) : t[i] = s[i]
        /\ t[Len(s) + 1] = e
    OBVIOUS
  <1>2. t[1] \in S
    BY <1>1
  <1>3. DOMAIN s = 1 .. Len(s) /\ DOMAIN t = 1 .. (Len(s) + 1) /\ Len(s) \in Nat
    BY <1>1
  <1>4. Range(t) = {t[i] : i \in 1 .. (Len(s) + 1)}
    BY <1>3 DEF Range
  <1>5. Range(s) = {s[i] : i \in 1 .. Len(s)}
    BY <1>3 DEF Range
  <1>6. 1 .. (Len(s) + 1) = (1 .. Len(s)) \union {Len(s) + 1}
    BY <1>3
  <1> HIDE DEF t
  <1>7. Range(t) = Range(s) \union {e}
    BY <1>1, <1>4, <1>5, <1>6
  <1> QED BY <1>1, <1>2, <1>7 DEF t

LEMMA RangeSeq ==
  ASSUME NEW S, NEW s \in Seq(S)
  PROVE  /\ Range(s) \subseteq S
         /\ s # <<>> => s[1] \in S /\ s[Len(s)] \in S
  BY DEF Range

LEMMA SlotType == 0 \in Slot /\ 1 \in 1 .. MaxTasks
  BY PsshAssumption DEF Slot

LEMMA InitIInv == Init => IInv
  <1> SUFFICES ASSUME Init PROVE IInv
    OBVIOUS
  <1>1. NoCommand \in Locals
    BY SlotType DEF NoCommand, Locals
  <1>2. TypeOK
    BY <1>1, PsshAssumption
       DEF Init, TypeOK, jobs_init, Job, Pgrp, JobStatus, Registering, InFg
  <1>3. Range(<<>>) = {}
    BY DEF Range
  <1>4. TableInv
    BY <1>3 DEF Init, TableInv, OneJobPerProcess, FreeSlotsEmpty, KnownPidsForked,
       LaunchedPidsFresh, jobs_init, Registering, NoCommand
  <1> QED BY <1>2, <1>4 DEF IInv

---------------------------------------------------------------------------
(* TypeOK is preserved, one step per action.                               *)

LEMMA CommandType ==
  /\ NoCommand \in Locals
  /\ Range(NoCommand.procs) = {}
  BY SlotType DEF NoCommand, Locals, Range

\* Every way the code writes one field of one slot.
LEMMA JobUpdate ==
  ASSUME NEW T \in [Slot -> Job], NEW i \in Slot
  PROVE  /\ [T EXCEPT ![i].name = TRUE] \in [Slot -> Job]
         /\ \A S \in SUBSET Pid : [T EXCEPT ![i].pids = S] \in [Slot -> Job]
         /\ \A g \in Pgrp, s \in JobStatus :
              [T EXCEPT ![i].pgrp = g, ![i].status = s] \in [Slot -> Job]
         /\ \A s \in JobStatus : [T EXCEPT ![i].status = s] \in [Slot -> Job]
         /\ \A p \in Pid : [T EXCEPT ![i].pids = @ \ {p}] \in [Slot -> Job]
         /\ job_delete(T, i) \in [Slot -> Job]
  <1> USE DEF Job
  <1>1. [T EXCEPT ![i].name = TRUE] \in [Slot -> Job]
    OBVIOUS
  <1>2. \A S \in SUBSET Pid : [T EXCEPT ![i].pids = S] \in [Slot -> Job]
    OBVIOUS
  <1>3. \A g \in Pgrp, s \in JobStatus :
          [T EXCEPT ![i].pgrp = g, ![i].status = s] \in [Slot -> Job]
    OBVIOUS
  <1>4. \A s \in JobStatus : [T EXCEPT ![i].status = s] \in [Slot -> Job]
    OBVIOUS
  <1>5. \A p \in Pid : [T EXCEPT ![i].pids = @ \ {p}] \in [Slot -> Job]
    OBVIOUS
  <1>6. job_delete(T, i) \in [Slot -> Job]
    BY DEF job_delete
  <1> QED BY <1>1, <1>2, <1>3, <1>4, <1>5, <1>6

LEMMA JobCalls ==
  ASSUME J \in [Slot -> Job], NEW i \in Slot
  PROVE  /\ \A s \in JobStatus : job_set_status(i, s) \in [Slot -> Job]
         /\ \A p \in Pid : /\ job_remove_pid(i, p) \in [Slot -> Job]
                           /\ job_delete(job_remove_pid(i, p), i) \in [Slot -> Job]
  <1>1. ASSUME NEW s \in JobStatus PROVE job_set_status(i, s) \in [Slot -> Job]
    <2>1. [J EXCEPT ![i].status = s] \in [Slot -> Job]
      BY DEF Job
    <2> QED BY <2>1 DEF job_set_status
  <1>2. ASSUME NEW p \in Pid PROVE job_remove_pid(i, p) \in [Slot -> Job]
    <2>1. [J EXCEPT ![i].pids = @ \ {p}] \in [Slot -> Job]
      BY JobUpdate
    <2> QED BY <2>1 DEF job_remove_pid
  <1>3. ASSUME NEW p \in Pid
        PROVE  job_delete(job_remove_pid(i, p), i) \in [Slot -> Job]
    BY <1>2, JobUpdate
  <1> QED BY <1>1, <1>2, <1>3

LEMMA TypeStep == IInv /\ [Next]_vars => TypeOK'
  <1> SUFFICES ASSUME IInv, [Next]_vars PROVE TypeOK'
    OBVIOUS
  <1>0. TypeOK /\ LaunchedPidsFresh
    BY DEF IInv, TableInv
  <1> USE <1>0 DEF TypeOK, Pgrp, JobStatus, Registering, InFg
  <1>1. CASE UNCHANGED vars
    BY <1>1 DEF vars, kernel, child
  <1>2. CASE CtrlZ
    BY <1>2 DEF CtrlZ, StopSignal, Members, child
  <1>3. CASE CtrlC
    BY <1>3 DEF CtrlC, KillSignal, child
  <1>4. ASSUME NEW p \in Pid, Exit(p) PROVE TypeOK'
    BY <1>4 DEF Exit, child
  <1>5. ASSUME NEW p \in Pid, BackgroundRead(p) PROVE TypeOK'
    BY <1>5 DEF BackgroundRead, StopSignal, Members, child
  <1>6. ASSUME NEW n \in 1 .. MaxTasks, NEW bg \in BOOLEAN, Launch(n, bg)
        PROVE TypeOK'
    BY <1>6, SlotType DEF Launch, kernel, child, NoCommand, Locals
  <1>7. ASSUME NEW i \in Slot, Fg(i) PROVE TypeOK'
    <2>1. cur' \in Locals
      BY <1>7, SlotType DEF Fg, NoCommand, Locals
    <2> QED BY <1>7, <2>1 DEF Fg, kernel, child
  <1>8. ASSUME NEW i \in Slot, Bg(i) PROVE TypeOK'
    BY <1>8 DEF Bg, ContSignal, child
  <1>9. ASSUME NEW i \in Slot, KillStop(i) PROVE TypeOK'
    BY <1>9 DEF KillStop, StopSignal, JobGroup, Members, child
  <1>10. ASSUME NEW i \in Slot, Kill(i) PROVE TypeOK'
    BY <1>10 DEF Kill, KillSignal, child
  <1>11. ASSUME NEW p \in Pid, ChildSetpgid(p) PROVE TypeOK'
    BY <1>11 DEF ChildSetpgid, SetpgidTo
  <1>12. ASSUME NEW p \in Pid, ChildSetFg(p) PROVE TypeOK'
    BY <1>12 DEF ChildSetFg, TtyAfter
  <1>13. ASSUME NEW p \in Pid, StopDelivered(p) PROVE TypeOK'
    BY <1>13 DEF StopDelivered, child
  <1>14. CASE TtySignal
    BY <1>14 DEF TtySignal, kernel, child
  <1>15. CASE Pause
    BY <1>15 DEF Pause, kernel, child
  <1>16. ASSUME NEW p \in Pid, Fork(p) PROVE TypeOK'
    <2>1. cur.procs \in Seq(Pid)
      BY DEF Locals
    <2>2. Append(cur.procs, p) \in Seq(Pid) /\ Append(cur.procs, p)[1] \in Pid
      BY <2>1, RangeAppend
    <2> QED BY <1>16, <2>2 DEF Fork, Locals
  <1>17. CASE ParentSetpgid
    <2>1. cur.procs \in Seq(Pid) /\ cur.procs # <<>>
      BY <1>17 DEF ParentSetpgid, At, LaunchedPidsFresh, Locals
    <2>2. cur.procs[1] \in Pid /\ cur.procs[Len(cur.procs)] \in Pid
      BY <2>1, RangeSeq
    <2> QED BY <1>17, <2>2 DEF ParentSetpgid, SetpgidTo, child
  <1>18. CASE ParentSetFg
    <2>1. cur.procs[1] \in Pid
      BY <1>18, RangeSeq DEF ParentSetFg, At, LaunchedPidsFresh, Locals
    <2> QED BY <1>18, <2>1 DEF ParentSetFg, TtyAfter, child
  <1>19. CASE AddName
    <2>1. CASE FreeSlots = {} /\ pc' = "prompt" /\ cur' = NoCommand /\ UNCHANGED J
      BY <1>19, <2>1, CommandType DEF AddName, kernel, child
    <2>2. ASSUME NEW i \in FreeSlots, J' = [J EXCEPT ![i].name = TRUE],
                 cur' = [cur EXCEPT !.slot = i], pc' = "add_pids"
          PROVE  TypeOK'
      <3>1. i \in Slot
        BY DEF FreeSlots
      <3>2. J' \in [Slot -> Job]
        BY <2>2, <3>1, JobUpdate
      <3>3. cur' \in Locals
        BY <2>2, <3>1 DEF Locals
      <3> QED BY <1>19, <2>2, <3>2, <3>3 DEF AddName, kernel, child
    <2> QED BY <1>19, <2>1, <2>2 DEF AddName
  <1>20. CASE AddPids
    <2>1. cur.slot \in Slot /\ Range(cur.procs) \in SUBSET Pid
      BY RangeSeq DEF Locals
    <2>2. J' \in [Slot -> Job]
      BY <1>20, <2>1, JobUpdate DEF AddPids
    <2> QED BY <1>20, <2>2 DEF AddPids, kernel, child
  <1>21. CASE AddStatus
    <2>1. cur.procs[1] \in Pid
      BY <1>21, RangeSeq DEF AddStatus, At, LaunchedPidsFresh, Locals
    <2>2. cur.slot \in Slot
      BY DEF Locals
    <2>3. (IF cur.background THEN "BG" ELSE "FG") \in JobStatus
      OBVIOUS
    <2>4. J' \in [Slot -> Job]
      BY <1>21, <2>1, <2>2, <2>3, JobUpdate DEF AddStatus
    <2> QED BY <1>21, <2>4, CommandType DEF AddStatus, kernel, child
  <1>22. CASE FgStatus
    <2>1. J' \in [Slot -> Job]
      BY <1>22, JobUpdate DEF FgStatus, job_set_status, Locals
    <2> QED BY <1>22, <2>1 DEF FgStatus, kernel, child
  <1>23. CASE FgTty
    BY <1>23 DEF FgTty, TtyAfter, child, Locals, Job
  <1>24. CASE FgCont
    BY <1>24, CommandType DEF FgCont, ContSignal, child
  <1>25. CASE EnterHandler
    BY <1>25 DEF EnterHandler, child
  <1>26. ASSUME NEW p \in Pid, WaitStopped(p) PROVE TypeOK'
    <2>1. J' \in [Slot -> Job]
      <3>1. CASE NoSuchJob
        BY <3>1 DEF NoSuchJob
      <3>2. CASE ~NoSuchJob
        <4>1. PICK i \in Slot : J' = job_set_status(i, "STOPPED") \/ UNCHANGED J
          BY <1>26, <3>2 DEF WaitStopped, JobOf
        <4> QED BY <4>1, JobCalls
      <3> QED BY <3>1, <3>2
    <2>2. tty' \in Pgrp /\ pc' \in {pc, "crashed"}
      BY <1>26 DEF WaitStopped, NoSuchJob
    <2> QED BY <1>26, <2>1, <2>2 DEF WaitStopped, child
  <1>27. ASSUME NEW p \in Pid, WaitContinued(p) PROVE TypeOK'
    <2>1. J' \in [Slot -> Job]
      <3>1. CASE NoSuchJob
        BY <3>1 DEF NoSuchJob
      <3>2. CASE ~NoSuchJob
        <4>1. PICK i \in Slot : J' = job_set_status(i, "BG") \/ UNCHANGED J
          BY <1>27, <3>2 DEF WaitContinued, JobOf
        <4> QED BY <4>1, JobCalls
      <3> QED BY <3>1, <3>2
    <2>2. tty' \in Pgrp /\ pc' \in {pc, "crashed"}
      BY <1>27 DEF WaitContinued, NoSuchJob
    <2> QED BY <1>27, <2>1, <2>2 DEF WaitContinued, child
  <1>28. ASSUME NEW p \in Pid, WaitExited(p) PROVE TypeOK'
    <2>1. J' \in [Slot -> Job]
      <3>1. CASE NoSuchJob
        BY <3>1 DEF NoSuchJob
      <3>2. CASE ~NoSuchJob
        <4>1. PICK i \in Slot : J' = job_remove_pid(i, p) \/ J' = job_delete(job_remove_pid(i, p), i)
          BY <1>28, <3>2 DEF WaitExited, JobOf
        <4> QED BY <4>1, JobCalls
      <3> QED BY <3>1, <3>2
    <2>2. tty' \in Pgrp /\ pc' \in {pc, "crashed"}
      BY <1>28 DEF WaitExited, NoSuchJob, TtyAfterLastExit
    <2> QED BY <1>28, <2>1, <2>2 DEF WaitExited, child
  <1>29. CASE LeaveHandler
    BY <1>29 DEF LeaveHandler, kernel, child
  <1> QED
    BY <1>1, <1>2, <1>3, <1>4, <1>5, <1>6, <1>7, <1>8, <1>9, <1>10, <1>11, <1>12,
       <1>13, <1>14, <1>15, <1>16, <1>17, <1>18, <1>19, <1>20, <1>21, <1>22, <1>23,
       <1>24, <1>25, <1>26, <1>27, <1>28, <1>29
       DEF Next, Environment, ChildStep, ShellStep, HandlerStep

---------------------------------------------------------------------------
(* The table.  Most actions leave it alone or only shrink a pids array.    *)

Shrinks ==
  /\ \A i \in Slot : J'[i].pids \subseteq J[i].pids
  /\ \A i \in Slot : ~J'[i].name => J'[i].pids = {}
  /\ \A p \in Pid : st[p] # "none" => st'[p] # "none"

ControlMoves ==
  \/ pc' = pc /\ cur' = cur /\ (pc = "add_pids" => J'[cur.slot].name)
  \/ pc' \notin Registering /\ (cur' = cur \/ cur'.procs = <<>>)
  \/ pc' = "fork" /\ cur'.procs = <<>>

LEMMA ShrinkStep ==
  ASSUME IInv, TypeOK', Shrinks, ControlMoves
  PROVE  TableInv'
  <1> USE DEF IInv, TableInv, Shrinks
  <1>0. Range(<<>>) = {}
    BY DEF Range
  <1>1. OneJobPerProcess'
    BY DEF OneJobPerProcess
  <1>2. FreeSlotsEmpty'
    BY DEF FreeSlotsEmpty
  <1>3. Range(cur'.procs) \in {Range(cur.procs), {}}
    BY <1>0 DEF ControlMoves
  <1>4. Range(cur.procs) \subseteq Pid
    BY RangeSeq DEF TypeOK, Locals
  <1>5. \A i \in Slot : J[i].pids \subseteq Pid
    BY DEF TypeOK, Job
  <1>6. KnownPidsForked'
    BY <1>3, <1>4, <1>5 DEF KnownPidsForked
  <1>7. LaunchedPidsFresh'
    <2>1. CASE pc' = pc /\ cur' = cur /\ (pc = "add_pids" => J'[cur.slot].name)
      <3>1. cur.slot \in Slot /\ LaunchedPidsFresh
        BY DEF TypeOK, Locals
      <3>2. \A i \in Slot : J'[i].pids \subseteq J[i].pids
        OBVIOUS
      <3> HIDE DEF IInv, TableInv, Shrinks
      <3>3. pc' \in Registering \ {"add_status"} =>
              \A i \in Slot : J'[i].pids \cap Range(cur'.procs) = {}
        BY <2>1, <3>1, <3>2 DEF LaunchedPidsFresh
      <3>4. pc' = "add_pids" => J'[cur'.slot].name /\ J'[cur'.slot].pids = {}
        BY <2>1, <3>1, <3>2 DEF LaunchedPidsFresh
      <3> QED BY <2>1, <3>1, <3>3, <3>4 DEF LaunchedPidsFresh
    <2>2. CASE pc' \notin Registering
      BY <2>2 DEF LaunchedPidsFresh, Registering
    <2>3. CASE pc' = "fork" /\ cur'.procs = <<>>
      BY <2>3, <1>0 DEF LaunchedPidsFresh
    <2> QED BY <2>1, <2>2, <2>3 DEF ControlMoves
  <1> QED BY <1>1, <1>2, <1>6, <1>7

LEMMA TableKept ==
  ASSUME IInv, UNCHANGED J, \A p \in Pid : st[p] # "none" => st'[p] # "none"
  PROVE  /\ Shrinks
         /\ pc' = pc /\ cur' = cur => ControlMoves
  BY DEF IInv, TableInv, Shrinks, FreeSlotsEmpty, ControlMoves, LaunchedPidsFresh

LEMMA StatusWritten ==
  ASSUME IInv, NEW i \in Slot, NEW s \in JobStatus, J' = job_set_status(i, s),
         \A p \in Pid : st[p] # "none" => st'[p] # "none"
  PROVE  /\ Shrinks
         /\ \A k \in Slot : J'[k].pids = J[k].pids
         /\ pc' = pc /\ cur' = cur => ControlMoves
  <1>1. J \in [Slot -> Job]
    BY DEF IInv, TypeOK
  <1>2. \A k \in Slot : J'[k].pids = J[k].pids /\ J'[k].name = J[k].name
    BY <1>1 DEF job_set_status, Job
  <1>3. cur.slot \in Slot
    BY DEF IInv, TypeOK, Locals
  <1> QED BY <1>2, <1>3 DEF IInv, TableInv, Shrinks, FreeSlotsEmpty, ControlMoves,
             LaunchedPidsFresh

LEMMA ExitWaited ==
  ASSUME IInv, NEW i \in Slot, NEW p \in J[i].pids,
         \/ J' = job_remove_pid(i, p) /\ job_remove_pid(i, p)[i].pids # {}
         \/ J' = job_delete(job_remove_pid(i, p), i) /\ job_remove_pid(i, p)[i].pids = {},
         st' = [st EXCEPT ![p] = "gone"]
  PROVE  /\ Shrinks
         /\ \A k \in Slot : \A q \in J[k].pids \ J'[k].pids : q = p
         /\ pc' = pc /\ cur' = cur => ControlMoves
  <1>1. J \in [Slot -> Job] /\ st \in [Pid -> {"none", "run", "stop", "zombie", "gone"}]
    BY DEF IInv, TypeOK
  <1>2. cur.slot \in Slot
    BY DEF IInv, TypeOK, Locals
  <1>3. \A k \in Slot \ {i} : J'[k].pids = J[k].pids /\ J'[k].name = J[k].name
    BY <1>1 DEF job_remove_pid, job_delete, Job
  <1>4. J'[i].pids = J[i].pids \ {p}
    BY <1>1 DEF job_remove_pid, job_delete, Job
  <1>5. J'[i].name = J[i].name \/ J'[i].pids = {}
    BY <1>1 DEF job_remove_pid, job_delete, Job
  <1>6. J[i].name
    BY DEF IInv, TableInv, FreeSlotsEmpty
  <1>7. pc = "add_pids" => cur.slot # i
    BY DEF IInv, TableInv, LaunchedPidsFresh
  <1>8. Shrinks
    BY <1>1, <1>3, <1>4, <1>5, <1>6 DEF IInv, TableInv, FreeSlotsEmpty, Shrinks
  <1>9. pc' = pc /\ cur' = cur => ControlMoves
    BY <1>2, <1>3, <1>7 DEF IInv, TableInv, LaunchedPidsFresh, ControlMoves
  <1> QED BY <1>3, <1>4, <1>8, <1>9

---------------------------------------------------------------------------
(* The invariant of the table and what a step may forget, one step per     *)
(* action.                                                                 *)

Forgets == \A i \in Slot : \A p \in J[i].pids \ J'[i].pids : st'[p] = "gone"

\* The actions that leave J alone and are not those of execute_tasks.
LEMMA QuietStep ==
  ASSUME IInv, TypeOK', UNCHANGED J,
         \A p \in Pid : st[p] # "none" => st'[p] # "none",
         \/ pc' = pc /\ cur' = cur
         \/ pc' \notin Registering /\ (cur' = cur \/ cur'.procs = <<>>)
         \/ pc' = "fork" /\ cur'.procs = <<>>
  PROVE  TableInv' /\ Forgets
  <1>1. Shrinks /\ ControlMoves
    BY TableKept DEF ControlMoves
  <1>2. TableInv'
    BY <1>1, ShrinkStep
  <1> QED BY <1>2 DEF Forgets

LEMMA TableStep == IInv /\ TypeOK' /\ [Next]_vars => TableInv' /\ Forgets
  <1> SUFFICES ASSUME IInv, TypeOK', [Next]_vars PROVE TableInv' /\ Forgets
    OBVIOUS
  <1> DEFINE Goal == TableInv' /\ Forgets
             Mono == \A p \in Pid : st[p] # "none" => st'[p] # "none"
  <1>t. /\ st \in [Pid -> {"none", "run", "stop", "zombie", "gone"}]
        /\ J \in [Slot -> Job] /\ cur \in Locals
    BY DEF IInv, TypeOK
  <1>n. NoCommand.procs = <<>>
    BY DEF NoCommand
  <1>1. CASE UNCHANGED vars
    BY <1>1, QuietStep DEF vars, kernel, child
  <1>2. CASE CtrlZ
    BY <1>2, QuietStep DEF CtrlZ
  <1>3. CASE CtrlC
    <2>1. Mono
      BY <1>3, <1>t DEF CtrlC, KillSignal
    <2> QED BY <1>3, <2>1, QuietStep DEF CtrlC
  <1>4. ASSUME NEW p \in Pid, Exit(p) PROVE Goal
    <2>1. Mono
      BY <1>4, <1>t DEF Exit
    <2> QED BY <1>4, <2>1, QuietStep DEF Exit
  <1>5. ASSUME NEW p \in Pid, BackgroundRead(p) PROVE Goal
    BY <1>5, QuietStep DEF BackgroundRead
  <1>6. ASSUME NEW n \in 1 .. MaxTasks, NEW bg \in BOOLEAN, Launch(n, bg)
        PROVE Goal
    <2>1. cur'.procs = <<>>
      BY <1>6, <1>n DEF Launch, NoCommand
    <2> QED BY <1>6, <2>1, QuietStep DEF Launch, kernel
  <1>7. ASSUME NEW i \in Slot, Fg(i) PROVE Goal
    <2>1. cur'.procs = <<>>
      BY <1>7, <1>n DEF Fg, NoCommand
    <2> QED BY <1>7, <2>1, QuietStep DEF Fg, kernel, Registering
  <1>8. ASSUME NEW i \in Slot, Bg(i) PROVE Goal
    <2>1. Mono
      BY <1>8, <1>t DEF Bg, ContSignal
    <2> QED BY <1>8, <2>1, QuietStep DEF Bg
  <1>9. ASSUME NEW i \in Slot, KillStop(i) PROVE Goal
    BY <1>9, QuietStep DEF KillStop
  <1>10. ASSUME NEW i \in Slot, Kill(i) PROVE Goal
    <2>1. Mono
      BY <1>10, <1>t DEF Kill, KillSignal
    <2> QED BY <1>10, <2>1, QuietStep DEF Kill
  <1>11. ASSUME NEW p \in Pid, ChildSetpgid(p) PROVE Goal
    BY <1>11, QuietStep DEF ChildSetpgid
  <1>12. ASSUME NEW p \in Pid, ChildSetFg(p) PROVE Goal
    BY <1>12, QuietStep DEF ChildSetFg
  <1>13. ASSUME NEW p \in Pid, StopDelivered(p) PROVE Goal
    <2>1. Mono
      BY <1>13, <1>t DEF StopDelivered
    <2> QED BY <1>13, <2>1, QuietStep DEF StopDelivered
  <1>14. CASE TtySignal
    BY <1>14, QuietStep DEF TtySignal, kernel, Registering
  <1>15. CASE Pause
    BY <1>15, QuietStep DEF Pause, kernel, Registering
  <1>16. ASSUME NEW p \in Pid, Fork(p) PROVE Goal
    <2>1. /\ cur'.procs = Append(cur.procs, p) /\ cur'.slot = cur.slot
          /\ pc = "fork" /\ pc' = "setpgid"
          /\ UNCHANGED J /\ st' = [st EXCEPT ![p] = "run"] /\ st[p] = "none"
      BY <1>16, <1>t DEF Fork, At, Locals
    <2>2. /\ cur'.procs # <<>>
          /\ Range(cur'.procs) = Range(cur.procs) \union {p}
      BY <2>1, <1>t, RangeAppend DEF Locals
    <2>3. /\ \A i \in Slot : J[i].pids \subseteq Pid
          /\ Range(cur.procs) \subseteq Pid
      BY <1>t, RangeSeq DEF Job, Locals
    <2>4. Mono
      BY <2>1, <1>t
    <2>5. KnownPidsForked'
      BY <2>1, <2>2, <2>3, <2>4, <1>t DEF IInv, TableInv, KnownPidsForked
    <2>6. LaunchedPidsFresh'
      BY <2>1, <2>2 DEF IInv, TableInv, KnownPidsForked, LaunchedPidsFresh, Registering
    <2>7. OneJobPerProcess' /\ FreeSlotsEmpty' /\ Forgets
      BY <2>1 DEF IInv, TableInv, OneJobPerProcess, FreeSlotsEmpty, Forgets
    <2> QED BY <2>5, <2>6, <2>7 DEF TableInv
  <1>17. ASSUME UNCHANGED <<J, cur, st>>,
                pc \in {"setpgid", "setfg"},
                pc' \in {"fork", "setfg", "add_name"}
         PROVE  Goal
    <2>1. LaunchedPidsFresh'
      BY <1>17 DEF IInv, TableInv, LaunchedPidsFresh, Registering
    <2> QED BY <1>17, <2>1 DEF IInv, TableInv, OneJobPerProcess, FreeSlotsEmpty,
            KnownPidsForked, Forgets
  <1>18. CASE ParentSetpgid
    BY <1>17, <1>18 DEF ParentSetpgid, At
  <1>19. CASE ParentSetFg
    BY <1>17, <1>19 DEF ParentSetFg, At
  <1>20. CASE AddName
    <2>1. CASE pc' = "prompt" /\ cur' = NoCommand /\ UNCHANGED J
      BY <1>20, <1>n, <2>1, QuietStep DEF AddName, kernel, Registering
    <2>2. ASSUME NEW i \in FreeSlots, J' = [J EXCEPT ![i].name = TRUE],
                 cur' = [cur EXCEPT !.slot = i], pc' = "add_pids"
          PROVE  Goal
      <3>1. i \in Slot /\ J[i].pids = {}
        BY DEF FreeSlots, IInv, TableInv, FreeSlotsEmpty
      <3>2. /\ \A k \in Slot : J'[k].pids = J[k].pids
            /\ \A k \in Slot : ~J'[k].name => ~J[k].name
            /\ J'[i].name
        BY <1>t, <2>2, <3>1 DEF Job
      <3>3. cur'.procs = cur.procs /\ cur'.slot = i
        BY <1>t, <2>2 DEF Locals
      <3>4. pc = "add_name" /\ UNCHANGED st
        BY <1>20 DEF AddName, At, kernel
      <3>5. LaunchedPidsFresh'
        BY <2>2, <3>1, <3>2, <3>3, <3>4
           DEF IInv, TableInv, LaunchedPidsFresh, Registering
      <3>6. OneJobPerProcess' /\ FreeSlotsEmpty' /\ KnownPidsForked' /\ Forgets
        BY <3>2, <3>3, <3>4 DEF IInv, TableInv, OneJobPerProcess, FreeSlotsEmpty,
           KnownPidsForked, Forgets
      <3> QED BY <3>5, <3>6 DEF TableInv
    <2> QED BY <1>20, <2>1, <2>2 DEF AddName
  <1>21. CASE AddPids
    <2>1. /\ pc = "add_pids" /\ pc' = "add_status" /\ UNCHANGED <<cur, st>>
          /\ J' = [J EXCEPT ![cur.slot].pids = Range(cur.procs)]
          /\ cur.slot \in Slot
      BY <1>21, <1>t DEF AddPids, At, kernel, Locals
    <2>2. /\ J'[cur.slot].pids = Range(cur.procs) /\ J'[cur.slot].name
          /\ \A k \in Slot \ {cur.slot} : J'[k] = J[k]
      BY <2>1, <1>t DEF IInv, TableInv, LaunchedPidsFresh, Job
    <2>3. /\ J[cur.slot].pids = {} /\ cur.procs # <<>>
          /\ \A i \in Slot : J[i].pids \intersect Range(cur.procs) = {}
      BY <2>1 DEF IInv, TableInv, LaunchedPidsFresh, Registering
    <2>4. OneJobPerProcess' /\ FreeSlotsEmpty' /\ Forgets
      BY <2>1, <2>2, <2>3 DEF IInv, TableInv, OneJobPerProcess, FreeSlotsEmpty, Forgets
    <2>5. KnownPidsForked' /\ LaunchedPidsFresh'
      BY <2>1, <2>2, <2>3 DEF IInv, TableInv, KnownPidsForked, LaunchedPidsFresh,
         Registering
    <2> QED BY <2>4, <2>5 DEF TableInv
  <1>22. CASE AddStatus
    <2>1. cur.slot \in Slot
      BY <1>t DEF Locals
    <2>2. \A k \in Slot : J'[k].pids = J[k].pids /\ J'[k].name = J[k].name
      BY <1>22, <1>t, <2>1 DEF AddStatus, Job
    <2>3. Shrinks /\ Forgets
      BY <1>22, <2>2 DEF AddStatus, kernel, IInv, TableInv, FreeSlotsEmpty, Shrinks,
         Forgets
    <2>4. ControlMoves
      BY <1>22, <1>n DEF AddStatus, ControlMoves, Registering
    <2> QED BY <2>3, <2>4, ShrinkStep
  <1>23. CASE FgStatus
    <2>1. /\ cur.slot \in Slot /\ J' = job_set_status(cur.slot, "FG")
          /\ "FG" \in JobStatus /\ UNCHANGED <<st, cur>> /\ pc' = "fg_tty"
      BY <1>23, <1>t DEF FgStatus, Locals, JobStatus, kernel
    <2>2. Shrinks /\ Forgets
      BY <2>1, StatusWritten DEF Forgets
    <2>3. ControlMoves
      BY <2>1 DEF ControlMoves, Registering
    <2> QED BY <2>2, <2>3, ShrinkStep
  <1>24. CASE FgTty
    BY <1>24, QuietStep DEF FgTty, Registering
  <1>25. CASE FgCont
    <2>1. Mono
      BY <1>25, <1>t DEF FgCont, ContSignal
    <2> QED BY <1>25, <2>1, <1>n, QuietStep DEF FgCont, Registering
  <1>26. CASE EnterHandler
    BY <1>26, QuietStep DEF EnterHandler
  <1>27. ASSUME NEW s \in {"STOPPED", "BG"}, UNCHANGED <<st, cur>>,
                pc' \in {pc, "crashed"},
                \/ UNCHANGED J
                \/ pc' = pc /\ \E i \in Slot : J' = job_set_status(i, s)
         PROVE  Goal
    <2>1. CASE UNCHANGED J
      BY <1>27, <2>1, QuietStep DEF Registering
    <2>2. ASSUME NEW i \in Slot, J' = job_set_status(i, s), pc' = pc PROVE Goal
      <3>1. Shrinks /\ ControlMoves /\ Forgets
        BY <1>27, <2>2, StatusWritten DEF JobStatus, Forgets
      <3> QED BY <3>1, ShrinkStep
    <2> QED BY <1>27, <2>1, <2>2
  <1>28. ASSUME NEW p \in Pid, WaitStopped(p) PROVE Goal
    <2>1. \/ UNCHANGED J
          \/ pc' = pc /\ \E i \in Slot : J' = job_set_status(i, "STOPPED")
      BY <1>28 DEF WaitStopped, NoSuchJob, JobOf
    <2>2. UNCHANGED <<st, cur>> /\ pc' \in {pc, "crashed"}
      BY <1>28 DEF WaitStopped, NoSuchJob
    <2> QED BY <1>27, <2>1, <2>2
  <1>29. ASSUME NEW p \in Pid, WaitContinued(p) PROVE Goal
    <2>1. \/ UNCHANGED J
          \/ pc' = pc /\ \E i \in Slot : J' = job_set_status(i, "BG")
      BY <1>29 DEF WaitContinued, NoSuchJob, JobOf
    <2>2. UNCHANGED <<st, cur>> /\ pc' \in {pc, "crashed"}
      BY <1>29 DEF WaitContinued, NoSuchJob
    <2> QED BY <1>27, <2>1, <2>2
  <1>30. ASSUME NEW p \in Pid, WaitExited(p) PROVE Goal
    <2>1. st' = [st EXCEPT ![p] = "gone"] /\ UNCHANGED cur
      BY <1>30 DEF WaitExited
    <2>2. Mono /\ st'[p] = "gone"
      BY <2>1, <1>t
    <2>3. CASE NoSuchJob
      <3>1. UNCHANGED J /\ pc' \in {pc, "crashed"}
        BY <2>3 DEF NoSuchJob
      <3> QED BY <2>1, <2>2, <3>1, QuietStep DEF Registering
    <2>4. CASE ~NoSuchJob
      <3>1. PICK i \in Slot : /\ p \in J[i].pids /\ pc' = pc
                              /\ \/ /\ J' = job_remove_pid(i, p)
                                    /\ job_remove_pid(i, p)[i].pids # {}
                                 \/ /\ J' = job_delete(job_remove_pid(i, p), i)
                                    /\ job_remove_pid(i, p)[i].pids = {}
        BY <1>30, <2>4 DEF WaitExited, JobOf, job_is_done
      <3>2. Shrinks /\ ControlMoves /\ Forgets
        BY <2>1, <2>2, <3>1, ExitWaited DEF Forgets
      <3> QED BY <3>2, ShrinkStep
    <2> QED BY <2>3, <2>4
  <1>31. CASE LeaveHandler
    BY <1>31, QuietStep DEF LeaveHandler, kernel, Registering
  <1> QED
    BY <1>1, <1>2, <1>3, <1>4, <1>5, <1>6, <1>7, <1>8, <1>9, <1>10, <1>11, <1>12,
       <1>13, <1>14, <1>15, <1>16, <1>18, <1>19, <1>20, <1>21, <1>22, <1>23, <1>24,
       <1>25, <1>26, <1>28, <1>29, <1>30, <1>31
       DEF Next, Environment, ChildStep, ShellStep, HandlerStep

---------------------------------------------------------------------------
(* Whatever the timing.                                                    *)

LEMMA Invariance == Spec => []IInv
  <1>1. Init => IInv
    BY InitIInv
  <1>2. IInv /\ [Next]_vars => IInv'
    BY TypeStep, TableStep DEF IInv
  <1> QED BY <1>1, <1>2, PTL DEF Spec

\* The state of the kernel, the children, the job table and the shell keeps
\* its types, whatever the number of pids and slots and whatever is raced.
THEOREM TypeCorrect == Spec => []TypeOK
  <1>1. IInv => TypeOK
    BY DEF IInv
  <1> QED BY <1>1, Invariance, PTL

\* job_get_number is unambiguous: no pid is in the pids arrays of two jobs.
THEOREM OneJob == Spec => []OneJobPerProcess
  <1>1. IInv => OneJobPerProcess
    BY DEF IInv, TableInv
  <1> QED BY <1>1, Invariance, PTL

\* job_remove_pid, job_delete and the reuse of a slot by job_add never drop a
\* child that has not been waited for.
THEOREM NoChildForgotten == Spec => ReapedBeforeForgotten
  <1>1. IInv /\ [Next]_vars =>
          [\A i \in Slot : \A p \in J[i].pids \ J'[i].pids : st'[p] = "gone"]_vars
    BY TypeStep, TableStep DEF Forgets
  <1> QED BY <1>1, Invariance, PTL DEF Spec, ReapedBeforeForgotten

---------------------------------------------------------------------------
(* What the kernel, the children and the table say of each other while no  *)
(* process outruns job_add.                                                *)

\* A process that has not been forked has no past, and a stop signal is
\* outstanding only for one that runs.
Unborn      == \A p \in Pid : st[p] = "none" => note[p] = "none" /\ stage[p] = "setpgid"
Outstanding == \A p \in pending : st[p] = "run"

\* The processes of the command being launched run and have nothing to report.
LaunchedRun ==
  pc \in Registering => \A p \in Range(cur.procs) : st[p] = "run" /\ note[p] = "none"

\* What is in the pids array of a job has not been waited for, and a job has
\* something there once job_add has filled it in.
Filled(i)   == J[i].name /\ ~(pc = "add_pids" /\ i = cur.slot)
Complete(i) == Filled(i) /\ ~(pc = "add_status" /\ i = cur.slot)

JobsAlive ==
  \A i \in Slot : /\ \A p \in J[i].pids : Unreaped(p)
                  /\ Filled(i) => J[i].pids # {}

\* The processes of a command have the same leader, its first; they are those
\* execute_tasks has forked so far, or those of the job not yet waited for.
ForkedLeaders == \A p \in Pid : st[p] # "none" => st[leader[p]] # "none"

LaunchedLeader ==
  pc \in Registering /\ cur.procs # <<>> =>
    \A p \in Pid : p \in Range(cur.procs) <=> st[p] # "none" /\ leader[p] = cur.procs[1]

Stored == pc = "add_status" => J[cur.slot].pids = Range(cur.procs)

JobLeader ==
  \A i \in Slot : Complete(i) =>
    \A p \in Pid : p \in J[i].pids <=> Unreaped(p) /\ leader[p] = J[i].pgrp

\* Each process is in the group of its leader, or about to be put there.
Grouped ==
  \A p \in Pid : st[p] # "none" =>
    \/ pgrp[p] = leader[p]
    \/ pc = "setpgid" /\ stage[p] = "setpgid" /\ p = cur.procs[Len(cur.procs)]

KernelInv ==
  /\ Unborn /\ Outstanding /\ LaunchedRun /\ JobsAlive
  /\ ForkedLeaders /\ LaunchedLeader /\ Stored /\ JobLeader /\ Grouped

\* A job that is not shown as stopped has a process that is not, or one whose
\* stop has not been reported, unless fg is about to continue it.
Lively(p) == st[p] # "stop" \/ note[p] = "stopped"
Moving(i) == \E p \in Launched(i) : Lively(p)

Shown ==
  \A i \in Slot : Complete(i) /\ J[i].status # "STOPPED" /\ ~(pc \in InFg /\ i = cur.slot)
                    => Moving(i)

RecordedInv == KernelInv /\ Shown

---------------------------------------------------------------------------
(* Steps that leave the entries of the table as they are.                  *)

ProcessesKept ==
  /\ leader' = leader /\ pgrp' = pgrp
  /\ \A p \in Pid : /\ st'[p] = "none" <=> st[p] = "none"
                    /\ Unreaped(p)' <=> Unreaped(p)
                    /\ st'[p] = "none" => note'[p] = note[p] /\ stage'[p] = stage[p]
                    /\ stage[p] = "setpgid" => stage'[p] = "setpgid"
  /\ \A p \in pending' : st'[p] = "run"
  /\ pc \in Registering => \A p \in Range(cur.procs) : st'[p] = "run" /\ note'[p] = "none"

EntriesKept == 
  \A i \in Slot : /\ J'[i].name = J[i].name
                  /\ J'[i].pids = J[i].pids
                  /\ J'[i].pgrp = J[i].pgrp

ControlKept ==
  \/ pc' = pc /\ cur' = cur
  \/ pc \notin Registering /\ pc' \notin Registering
  \/ pc \notin Registering /\ pc' = "fork" /\ cur'.procs = <<>>
  \/ pc = "setfg" /\ pc' = "add_name" /\ cur' = cur

LEMMA KernelKept ==
  ASSUME IInv, KernelInv, TypeOK', ProcessesKept, EntriesKept, ControlKept
  PROVE  KernelInv'
  <1> USE DEF IInv, KernelInv, ProcessesKept
  <1>0. Range(<<>>) = {}
    BY DEF Range
  <1>t. /\ Range(cur.procs) \subseteq Pid /\ \A i \in Slot : J[i].pids \subseteq Pid
        /\ leader \in [Pid -> Pid]
    BY RangeSeq DEF TypeOK, Locals, Job
  <1>1. Unborn' /\ Outstanding'
    BY DEF Unborn, Outstanding
  <1>2. LaunchedRun'
    BY <1>0 DEF LaunchedRun, ControlKept, Registering
  <1>3. \A i \in Slot : Filled(i)' <=> Filled(i)
    BY DEF Filled, ControlKept, Registering, EntriesKept
  <1>4. \A i \in Slot : Complete(i)' <=> Complete(i)
    BY <1>3 DEF Complete, ControlKept, Registering
  <1>5. JobsAlive'
    BY <1>3, <1>t DEF JobsAlive, EntriesKept
  <1>6. ForkedLeaders'
    BY <1>t DEF ForkedLeaders
  <1>7. LaunchedLeader'
    BY DEF LaunchedLeader, ControlKept, Registering
  <1>8. Stored'
    BY DEF Stored, ControlKept, Registering, EntriesKept, TypeOK, Locals
  <1>9. JobLeader'
    BY <1>4 DEF JobLeader, EntriesKept
  <1>10. Grouped'
    BY DEF Grouped, ControlKept, Registering
  <1> QED BY <1>1, <1>2, <1>5, <1>6, <1>7, <1>8, <1>9, <1>10

LEMMA ShownKept ==
  ASSUME IInv, Shown, ProcessesKept, UNCHANGED J, ControlKept,
         pc \in InFg => pc' \in InFg /\ cur' = cur,
         \A p \in Pid : Lively(p) => Lively(p)'
  PROVE  Shown'
  <1>1. \A i \in Slot : Complete(i)' <=> Complete(i)
    BY DEF Filled, Complete, ControlKept, Registering
  <1>2. \A i \in Slot : Moving(i) => Moving(i)'
    BY DEF Moving, Launched, ProcessesKept
  <1>3. \A i \in Slot : ~(pc' \in InFg /\ i = cur'.slot) => ~(pc \in InFg /\ i = cur.slot)
    OBVIOUS
  <1> QED BY <1>1, <1>2, <1>3 DEF Shown

StateKept ==
  /\ ProcessesKept /\ UNCHANGED J /\ ControlKept
  /\ pc \in InFg => pc' \in InFg /\ cur' = cur
  /\ \A p \in Pid : Lively(p) => Lively(p)'

LEMMA RecordedKept ==
  ASSUME IInv, RecordedInv, TypeOK', StateKept
  PROVE  RecordedInv'
  <1>1. EntriesKept
    BY DEF StateKept, EntriesKept
  <1> QED BY <1>1, KernelKept, ShownKept DEF StateKept, RecordedInv

\* Signals sent and delivered, exits, and the calls that only move the
\* terminal or the shell's own control.
LEMMA SignalStep ==
  ASSUME "register" \notin Races, IInv, RecordedInv,
         \/ UNCHANGED vars
         \/ CtrlZ \/ CtrlC
         \/ \E p \in Pid : Exit(p) \/ BackgroundRead(p) \/ ChildSetFg(p) \/ StopDelivered(p)
         \/ \E i \in Slot : Bg(i) \/ KillStop(i) \/ Kill(i)
         \/ EnterHandler
  PROVE  StateKept
  <1> USE DEF IInv, RecordedInv, KernelInv
  <1>t. /\ st \in [Pid -> {"none", "run", "stop", "zombie", "gone"}]
        /\ note \in [Pid -> {"none", "stopped", "continued"}]
        /\ stage \in [Pid -> {"setpgid", "setfg", "exec"}]
        /\ pending \subseteq Pid
        /\ Range(cur.procs) \subseteq Pid
    BY RangeSeq DEF TypeOK, Locals
  <1>0. /\ \A p \in pending : st[p] = "run"
        /\ pc \in Registering =>
             \A p \in Range(cur.procs) : st[p] = "run" /\ note[p] = "none"
        /\ \A p \in Pid : Quiet(p) => ~(pc \in Registering /\ p \in Range(cur.procs))
    BY DEF Outstanding, LaunchedRun, Quiet
  <1> USE DEF StateKept, ProcessesKept, ControlKept, Unreaped, Lively
  <1>1. CASE UNCHANGED vars
    BY <1>1, <1>0 DEF vars, kernel, child
  <1>2. ASSUME NEW S, StopSignal(S), S \subseteq Pid,
               UNCHANGED <<st, pgrp, note, child, J, pc, cur>>
        PROVE  StateKept
    BY <1>0, <1>2 DEF StopSignal, child
  <1>3. \A g : Members(g) \subseteq Pid
    BY DEF Members
  <1>4. CASE CtrlZ
    BY <1>2, <1>3, <1>4 DEF CtrlZ
  <1>5. ASSUME NEW p \in Pid, BackgroundRead(p) PROVE StateKept
    BY <1>2, <1>3, <1>5 DEF BackgroundRead
  <1>6. \A i \in Slot : JobGroup(i) \subseteq Pid
    BY <1>3 DEF JobGroup
  <1>7. ASSUME NEW i \in Slot, KillStop(i) PROVE StateKept
    BY <1>2, <1>6, <1>7 DEF KillStop
  <1>8. ASSUME NEW S, KillSignal(S), S \subseteq Pid,
               pc \in Registering => S \cap Range(cur.procs) = {},
               UNCHANGED <<pgrp, child, J, pc, cur>>
        PROVE  StateKept
    BY <1>t, <1>0, <1>8 DEF KillSignal, child
  <1>9. CASE CtrlC
    <2>1. \A p \in Members(tty) : ~(pc \in Registering /\ p \in Range(cur.procs))
      BY <1>0, <1>3, <1>9 DEF CtrlC
    <2> DEFINE S == {p \in Members(tty) : st[p] = "run"}
    <2>2. S \subseteq Pid /\ (pc \in Registering => S \cap Range(cur.procs) = {})
      BY <1>3, <2>1
    <2>3. KillSignal(S) /\ UNCHANGED <<pgrp, child, J, pc, cur>>
      BY <1>9 DEF CtrlC
    <2> HIDE DEF S
    <2> QED BY <1>8, <2>2, <2>3
  <1>10. ASSUME NEW i \in Slot, Kill(i) PROVE StateKept
    BY <1>6, <1>8, <1>10 DEF Kill, Command, At, Registering
  <1>11. ASSUME NEW i \in Slot, Bg(i) PROVE StateKept
    BY <1>t, <1>0, <1>6, <1>11 DEF Bg, ContSignal, Command, At, Registering, child
  <1>12. ASSUME NEW p \in Pid, Exit(p) PROVE StateKept
    BY <1>t, <1>0, <1>12 DEF Exit, child
  <1>13. ASSUME NEW p \in Pid, ChildSetFg(p) PROVE StateKept
    BY <1>t, <1>0, <1>13 DEF ChildSetFg
  <1>14. ASSUME NEW p \in Pid, StopDelivered(p) PROVE StateKept
    BY <1>t, <1>0, <1>14 DEF StopDelivered, child
  <1>15. CASE EnterHandler
    BY <1>0, <1>15 DEF EnterHandler, child
  <1> QED BY <1>1, <1>4, <1>5, <1>7, <1>9, <1>10, <1>11, <1>12, <1>13, <1>14, <1>15

LEMMA ControlStep ==
  ASSUME IInv, RecordedInv,
         \/ \E n \in 1 .. MaxTasks, bg \in BOOLEAN : Launch(n, bg)
         \/ \E i \in Slot : Fg(i)
         \/ TtySignal \/ Pause \/ ParentSetFg \/ FgTty \/ LeaveHandler
  PROVE  StateKept
  <1> USE DEF IInv, RecordedInv, KernelInv, StateKept, ProcessesKept, ControlKept, Lively,
              Unreaped, kernel, child, Registering, InFg, Outstanding, LaunchedRun
  <1>1. ASSUME NEW n \in 1 .. MaxTasks, NEW bg \in BOOLEAN, Launch(n, bg) PROVE StateKept
    BY <1>1 DEF Launch, Command, At, NoCommand
  <1>2. ASSUME NEW i \in Slot, Fg(i) PROVE StateKept
    BY <1>2 DEF Fg, Command, At
  <1>3. CASE TtySignal
    BY <1>3 DEF TtySignal, At
  <1>4. CASE Pause
    BY <1>4 DEF Pause, At
  <1>5. CASE ParentSetFg
    BY <1>5 DEF ParentSetFg, At
  <1>6. CASE FgTty
    BY <1>6 DEF FgTty, At
  <1>7. CASE LeaveHandler
    BY <1>7 DEF LeaveHandler
  <1> QED BY <1>1, <1>2, <1>3, <1>4, <1>5, <1>6, <1>7

---------------------------------------------------------------------------
(* execute_tasks.                                                          *)

LEMMA AppendEnds ==
  ASSUME NEW S, NEW s \in Seq(S), NEW e \in S
  PROVE  LET t == Append(s, e) IN
         /\ t[Len(t)] = e
         /\ t[1] = IF s = <<>> THEN e ELSE s[1]
  OBVIOUS

LEMMA ForkStep ==
  ASSUME IInv, IInv', RecordedInv, NEW p \in Pid, Fork(p)
  PROVE  RecordedInv'
  <1> USE DEF IInv, RecordedInv, KernelInv
  <1> DEFINE procs == Append(cur.procs, p)
  <1>t. /\ st \in [Pid -> {"none", "run", "stop", "zombie", "gone"}]
        /\ note \in [Pid -> {"none", "stopped", "continued"}]
        /\ stage \in [Pid -> {"setpgid", "setfg", "exec"}]
        /\ leader \in [Pid -> Pid]
        /\ cur \in Locals /\ cur.procs \in Seq(Pid) /\ pending \subseteq Pid
        /\ Range(cur.procs) \subseteq Pid /\ \A i \in Slot : J[i].pids \subseteq Pid
    BY RangeSeq DEF TypeOK, Locals, Job
  <1>1. /\ cur'.procs = procs /\ procs # <<>>
        /\ Range(procs) = Range(cur.procs) \union {p}
        /\ procs[Len(procs)] = p
        /\ procs[1] = (IF cur.procs = <<>> THEN p ELSE cur.procs[1])
        /\ cur.procs = <<>> => Range(cur.procs) = {}
    <2>1. Range(<<>>) = {}
      BY DEF Range
    <2> QED BY <1>t, <2>1, RangeAppend, AppendEnds DEF Fork, Locals
  <1>2. /\ pc = "fork" /\ pc' = "setpgid" /\ st[p] = "none" /\ UNCHANGED J
        /\ st' = [st EXCEPT ![p] = "run"] /\ leader' = [leader EXCEPT ![p] = procs[1]]
        /\ UNCHANGED <<pgrp, note, pending, stage>>
    BY DEF Fork, At
  <1> HIDE DEF procs
  <1>3. /\ \A q \in Pid \ {p} : st'[q] = st[q] /\ leader'[q] = leader[q]
        /\ st'[p] = "run" /\ leader'[p] = procs[1]
    BY <1>2, <1>t
  <1>4. \A q \in Range(cur.procs) : st[q] # "none"
    BY <1>2 DEF TableInv, KnownPidsForked
  <1>5. cur.procs # <<>> => cur.procs[1] \in Range(cur.procs)
    BY <1>t, RangeSeq DEF Range
  <1>6. Unborn' /\ Outstanding'
    BY <1>2, <1>3, <1>t DEF Unborn, Outstanding
  <1>7. LaunchedRun'
    BY <1>1, <1>2, <1>3, <1>t DEF LaunchedRun, Unborn, Registering
  <1>8. \A i \in Slot : /\ Filled(i)' <=> Filled(i)
                        /\ Complete(i)' <=> Filled(i)
                        /\ Complete(i) <=> Filled(i)
    BY <1>2 DEF Filled, Complete
  <1>9. JobsAlive'
    BY <1>2, <1>3, <1>8, <1>t DEF JobsAlive, Unreaped
  <1>10. ForkedLeaders'
    BY <1>1, <1>3, <1>4, <1>5, <1>t DEF ForkedLeaders
  <1>11. LaunchedLeader'
    <2>1. CASE cur.procs = <<>>
      BY <2>1, <1>1, <1>2, <1>3, <1>t DEF LaunchedLeader, ForkedLeaders
    <2>2. CASE cur.procs # <<>>
      BY <2>2, <1>1, <1>2, <1>3, <1>t DEF LaunchedLeader, Registering
    <2> QED BY <2>1, <2>2
  <1>12. Stored'
    BY <1>2 DEF Stored
  <1>13. ASSUME NEW i \in Slot, Filled(i) PROVE J[i].pgrp # procs[1]
    <2>1. PICK q \in J[i].pids : Unreaped(q) /\ leader[q] = J[i].pgrp
      BY <1>8, <1>13, <1>t DEF JobsAlive, JobLeader
    <2>2. q \in Pid /\ st[q] # "none" /\ st[J[i].pgrp] # "none"
      BY <2>1, <1>t DEF ForkedLeaders, Unreaped
    <2>3. CASE cur.procs = <<>>
      BY <2>2, <2>3, <1>1, <1>2
    <2>4. CASE cur.procs # <<>>
      <3>1. q \notin Range(cur.procs)
        BY <1>2 DEF TableInv, LaunchedPidsFresh, Registering
      <3> QED BY <3>1, <2>1, <2>2, <2>4, <1>1, <1>2 DEF LaunchedLeader, Registering
    <2> QED BY <2>3, <2>4
  <1>14. JobLeader'
    <2>1. \A i \in Slot : p \notin J[i].pids
      BY <1>2, <1>t DEF JobsAlive, Unreaped
    <2> QED BY <2>1, <1>2, <1>3, <1>8, <1>13 DEF JobLeader, Unreaped
  <1>15. Grouped'
    BY <1>1, <1>2, <1>3, <1>t DEF Grouped, Unborn
  <1>16. Shown'
    <2>1. \A i \in Slot : Moving(i) => Moving(i)'
      BY <1>2, <1>3, <1>t DEF Moving, Launched, Lively
    <2> QED BY <2>1, <1>2, <1>8 DEF Shown, InFg
  <1> QED BY <1>6, <1>7, <1>9, <1>10, <1>11, <1>12, <1>14, <1>15, <1>16

\* The leader of a command being launched is a group of its own.
LEMMA LeaderGroup ==
  ASSUME IInv, KernelInv, pc \in {"setpgid", "setfg", "add_name", "add_pids", "add_status"}
  PROVE  /\ cur.procs[1] \in Pid /\ cur.procs[1] \in Range(cur.procs)
         /\ cur.procs[Len(cur.procs)] \in Range(cur.procs)
         /\ cur.procs[Len(cur.procs)] \in Pid
         /\ \A p \in Range(cur.procs) :
              /\ p \in Pid /\ leader[p] = cur.procs[1] /\ st[p] = "run"
              /\ \/ p = cur.procs[1] \/ Members(cur.procs[1]) # {}
                 \/ p # cur.procs[Len(cur.procs)]
  <1> USE DEF IInv, KernelInv, Registering
  <1>1. cur.procs \in Seq(Pid) /\ cur.procs # <<>>
    BY DEF TypeOK, Locals, TableInv, LaunchedPidsFresh
  <1>2. /\ cur.procs[1] \in Range(cur.procs)
        /\ cur.procs[Len(cur.procs)] \in Range(cur.procs)
        /\ Range(cur.procs) \subseteq Pid
    BY <1>1, RangeSeq DEF Range
  <1>3. \A p \in Range(cur.procs) : leader[p] = cur.procs[1] /\ st[p] = "run"
    BY <1>1, <1>2 DEF LaunchedLeader, LaunchedRun
  <1>4. pgrp[cur.procs[1]] = cur.procs[1] \/ cur.procs[1] = cur.procs[Len(cur.procs)]
    BY <1>2, <1>3 DEF Grouped
  <1>5. pgrp[cur.procs[1]] = cur.procs[1] => Members(cur.procs[1]) # {}
    BY <1>2, <1>3 DEF Members, Unreaped
  <1> QED BY <1>2, <1>3, <1>4, <1>5

LEMMA ChildSetpgidStep ==
  ASSUME IInv, IInv', RecordedInv, NEW p \in Pid, ChildSetpgid(p)
  PROVE  RecordedInv'
  <1> USE DEF IInv, RecordedInv, KernelInv
  <1>t. /\ st \in [Pid -> {"none", "run", "stop", "zombie", "gone"}]
        /\ stage \in [Pid -> {"setpgid", "setfg", "exec"}]
        /\ pgrp \in [Pid -> Pgrp] /\ leader \in [Pid -> Pid]
    BY DEF TypeOK
  <1>1. /\ st[p] = "run" /\ stage[p] = "setpgid" /\ pgrp' = SetpgidTo(p, leader[p])
        /\ stage'[p] # "setpgid" /\ \A q \in Pid \ {p} : stage'[q] = stage[q]
        /\ UNCHANGED <<st, note, pending, leader, J, pc, cur>>
    BY <1>t DEF ChildSetpgid
  <1>2. pgrp'[p] = leader[p] /\ \A q \in Pid \ {p} : pgrp'[q] = pgrp[q]
    <2>1. pgrp[p] = leader[p] \/ p = leader[p] \/ Members(leader[p]) # {}
      <3>1. CASE pgrp[p] = leader[p]
        BY <3>1
      <3>2. CASE pc = "setpgid" /\ p = cur.procs[Len(cur.procs)]
        BY <3>2, LeaderGroup
      <3> QED BY <3>1, <3>2, <1>1 DEF Grouped
    <2> QED BY <2>1, <1>1, <1>t DEF SetpgidTo
  <1>3. Grouped'
    BY <1>1, <1>2 DEF Grouped
  <1>4. Unborn'
    BY <1>1 DEF Unborn
  <1>5. \A i \in Slot : /\ Filled(i)' <=> Filled(i)
                        /\ Complete(i)' <=> Complete(i)
                        /\ Moving(i)' <=> Moving(i)
    BY <1>1 DEF Filled, Complete, Moving, Launched, Lively
  <1>6. Outstanding' /\ LaunchedRun' /\ ForkedLeaders' /\ LaunchedLeader' /\ Stored'
    BY <1>1 DEF Outstanding, LaunchedRun, ForkedLeaders, LaunchedLeader, Stored
  <1>7. JobsAlive' /\ JobLeader' /\ Shown'
    BY <1>1, <1>5 DEF JobsAlive, JobLeader, Shown, Unreaped
  <1> QED BY <1>3, <1>4, <1>6, <1>7

LEMMA ParentSetpgidStep ==
  ASSUME IInv, IInv', RecordedInv, ParentSetpgid
  PROVE  RecordedInv'
  <1> USE DEF IInv, RecordedInv, KernelInv
  <1> DEFINE p == cur.procs[Len(cur.procs)]
  <1>t. pgrp \in [Pid -> Pgrp]
    BY DEF TypeOK
  <1>1. /\ pc = "setpgid" /\ pc' \in {"fork", "add_name", "setfg"}
        /\ pgrp' = IF Unreaped(p) /\ stage[p] # "exec"
                   THEN SetpgidTo(p, cur.procs[1]) ELSE pgrp
        /\ UNCHANGED <<st, note, pending, stage, leader, J, cur>>
    BY DEF ParentSetpgid, At, child
  <1>2. p \in Pid /\ st[p] = "run" /\ leader[p] = cur.procs[1]
        /\ (p = cur.procs[1] \/ Members(cur.procs[1]) # {})
    BY <1>1, LeaderGroup
  <1> HIDE DEF p
  <1>3. pgrp'[p] = leader[p]
    <2>1. CASE stage[p] = "exec"
      BY <2>1, <1>1, <1>2 DEF Grouped
    <2>2. CASE stage[p] # "exec"
      BY <2>2, <1>1, <1>2, <1>t DEF SetpgidTo, Unreaped
    <2> QED BY <2>1, <2>2
  <1>4. \A q \in Pid \ {p} : pgrp'[q] = pgrp[q]
    BY <1>1, <1>2, <1>t DEF SetpgidTo
  <1>5. Grouped'
    BY <1>1, <1>3, <1>4 DEF Grouped, p
  <1>6. \A i \in Slot : /\ Filled(i)' <=> Filled(i)
                        /\ Complete(i)' <=> Complete(i)
                        /\ Moving(i)' <=> Moving(i)
    BY <1>1 DEF Filled, Complete, Moving, Launched, Lively
  <1>7. /\ Unborn' /\ Outstanding' /\ LaunchedRun' /\ ForkedLeaders'
        /\ LaunchedLeader' /\ Stored'
    BY <1>1 DEF Unborn, Outstanding, LaunchedRun, ForkedLeaders, LaunchedLeader, Stored,
       Registering
  <1>8. JobsAlive' /\ JobLeader' /\ Shown'
    BY <1>1, <1>6 DEF JobsAlive, JobLeader, Shown, Unreaped, InFg
  <1> QED BY <1>5, <1>7, <1>8

---------------------------------------------------------------------------
(* job_add.                                                                *)

\* What job_add does to the table does not touch the processes.
LEMMA AddKept ==
  ASSUME IInv, KernelInv, UNCHANGED <<kernel, child>>,
         Range(cur'.procs) \in {{}, Range(cur.procs)},
         pc \in Registering \ {"setpgid"}, pc' # "setpgid"
  PROVE  Unborn' /\ Outstanding' /\ LaunchedRun' /\ ForkedLeaders' /\ Grouped'
  BY DEF KernelInv, Unborn, Outstanding, LaunchedRun, ForkedLeaders, Grouped, kernel, child

LEMMA AddNameStep ==
  ASSUME IInv, IInv', RecordedInv, AddName
  PROVE  RecordedInv'
  <1> USE DEF IInv, RecordedInv, KernelInv
  <1>0. /\ pc = "add_name" /\ UNCHANGED <<kernel, child>>
        /\ UNCHANGED <<st, note, leader>>
    BY DEF AddName, At, kernel, child
  <1>t. J \in [Slot -> Job] /\ cur \in Locals
    BY DEF TypeOK
  <1>l. \A i \in Slot :
          /\ Launched(i)' = {p \in Pid : st[p] # "none" /\ leader[p] = J'[i].pgrp}
          /\ \A p \in Pid : Lively(p)' <=> Lively(p)
    BY <1>0 DEF Launched, Lively
  <1>1. CASE pc' = "prompt" /\ cur' = NoCommand /\ UNCHANGED J
    <2>1. Range(cur'.procs) = {} /\ cur'.procs = <<>>
      BY <1>1, CommandType DEF NoCommand
    <2>2. Unborn' /\ Outstanding' /\ LaunchedRun' /\ ForkedLeaders' /\ Grouped'
      BY <1>0, <1>1, <2>1, AddKept DEF Registering
    <2>3. \A i \in Slot : (Filled(i)' <=> Filled(i)) /\ (Complete(i)' <=> Complete(i))
      BY <1>0, <1>1 DEF Filled, Complete
    <2>4. JobsAlive' /\ LaunchedLeader' /\ Stored' /\ JobLeader'
      BY <1>0, <1>1, <2>1, <2>3
         DEF JobsAlive, LaunchedLeader, Stored, JobLeader, Unreaped
    <2>5. Shown'
      BY <1>0, <1>1, <1>l, <2>3 DEF Shown, Moving, Launched, InFg
    <2> QED BY <2>2, <2>4, <2>5
  <1>2. ASSUME NEW i \in FreeSlots, J' = [J EXCEPT ![i].name = TRUE],
               cur' = [cur EXCEPT !.slot = i], pc' = "add_pids"
        PROVE  RecordedInv'
    <2>1. i \in Slot /\ ~J[i].name
      BY DEF FreeSlots
    <2>2. /\ \A k \in Slot : /\ J'[k].pids = J[k].pids /\ J'[k].pgrp = J[k].pgrp
                             /\ J'[k].status = J[k].status
          /\ \A k \in Slot \ {i} : J'[k].name = J[k].name
          /\ cur'.procs = cur.procs /\ cur'.slot = i
      BY <1>t, <1>2, <2>1 DEF Job, Locals
    <2>3. Unborn' /\ Outstanding' /\ LaunchedRun' /\ ForkedLeaders' /\ Grouped'
      BY <1>0, <1>2, <2>2, AddKept DEF Registering
    <2>4. \A k \in Slot : (Filled(k)' <=> Filled(k)) /\ (Complete(k)' <=> Complete(k))
      BY <1>0, <1>2, <2>1, <2>2 DEF Filled, Complete
    <2>5. JobsAlive' /\ LaunchedLeader' /\ Stored' /\ JobLeader'
      BY <1>0, <1>2, <2>2, <2>4
         DEF JobsAlive, LaunchedLeader, Stored, JobLeader, Unreaped, Registering
    <2>6. Shown'
      BY <1>0, <1>2, <1>l, <2>2, <2>4 DEF Shown, Moving, Launched, InFg
    <2> QED BY <2>3, <2>5, <2>6
  <1> QED BY <1>1, <1>2 DEF AddName

LEMMA AddPidsStep ==
  ASSUME IInv, IInv', RecordedInv, AddPids
  PROVE  RecordedInv'
  <1> USE DEF IInv, RecordedInv, KernelInv
  <1>t. J \in [Slot -> Job] /\ cur \in Locals
    BY DEF TypeOK
  <1>0. /\ pc = "add_pids" /\ pc' = "add_status" /\ UNCHANGED <<kernel, child, cur>>
        /\ UNCHANGED <<st, note, leader>>
        /\ J' = [J EXCEPT ![cur.slot].pids = Range(cur.procs)]
        /\ cur.slot \in Slot
    BY <1>t DEF AddPids, At, kernel, child, Locals
  <1>1. /\ \A i \in Slot : /\ J'[i].pgrp = J[i].pgrp /\ J'[i].name = J[i].name
                           /\ J'[i].status = J[i].status
        /\ \A i \in Slot \ {cur.slot} : J'[i].pids = J[i].pids
        /\ J'[cur.slot].pids = Range(cur.procs)
    BY <1>t, <1>0 DEF Job
  <1>2. Unborn' /\ Outstanding' /\ LaunchedRun' /\ ForkedLeaders' /\ Grouped'
    BY <1>0, AddKept DEF Registering
  <1>3. cur.procs[1] \in Range(cur.procs) /\ \A p \in Range(cur.procs) : st[p] = "run"
    BY <1>0, LeaderGroup
  <1>4. \A i \in Slot \ {cur.slot} : /\ Filled(i)' <=> Filled(i)
                                     /\ Complete(i)' <=> Complete(i)
    BY <1>0, <1>1 DEF Filled, Complete
  <1>5. ~Complete(cur.slot)'
    BY <1>0 DEF Complete
  <1>6. JobsAlive'
    BY <1>0, <1>1, <1>3, <1>4 DEF JobsAlive, Unreaped
  <1>7. LaunchedLeader' /\ Stored'
    BY <1>0, <1>1 DEF LaunchedLeader, Stored, Registering
  <1>8. JobLeader'
    BY <1>0, <1>1, <1>4, <1>5 DEF JobLeader, Unreaped
  <1>9. Shown'
    BY <1>0, <1>1, <1>4, <1>5 DEF Shown, Moving, Launched, Lively, InFg
  <1> QED BY <1>2, <1>6, <1>7, <1>8, <1>9

LEMMA AddStatusStep ==
  ASSUME IInv, IInv', RecordedInv, AddStatus
  PROVE  RecordedInv'
  <1> USE DEF IInv, RecordedInv, KernelInv
  <1>t. J \in [Slot -> Job] /\ cur \in Locals
    BY DEF TypeOK
  <1>0. /\ pc = "add_status" /\ pc' = "prompt" /\ cur' = NoCommand
        /\ UNCHANGED <<kernel, child>>
        /\ UNCHANGED <<st, note, leader>>
        /\ cur.slot \in Slot
        /\ cur'.procs = <<>> /\ Range(cur'.procs) = {}
    BY <1>t, CommandType DEF AddStatus, At, kernel, child, Locals, NoCommand
  <1>1. /\ \A i \in Slot : J'[i].pids = J[i].pids /\ J'[i].name = J[i].name
        /\ \A i \in Slot \ {cur.slot} : J'[i] = J[i]
        /\ J'[cur.slot].pgrp = cur.procs[1]
    BY <1>t, <1>0 DEF AddStatus, Job
  <1>2. Unborn' /\ Outstanding' /\ LaunchedRun' /\ ForkedLeaders' /\ Grouped'
    BY <1>0, AddKept DEF Registering
  <1>3. /\ cur.procs[1] \in Range(cur.procs) /\ cur.procs[1] \in Pid
        /\ \A p \in Range(cur.procs) : st[p] = "run" /\ leader[p] = cur.procs[1]
    BY <1>0, LeaderGroup
  <1>4. cur.procs # <<>> /\ J[cur.slot].pids = Range(cur.procs)
    BY <1>0 DEF TableInv, LaunchedPidsFresh, Stored, Registering
  <1>5. \A i \in Slot : Filled(i)' <=> Filled(i)
    BY <1>0, <1>1 DEF Filled
  <1>6. \A i \in Slot \ {cur.slot} : Complete(i)' <=> Complete(i)
    BY <1>0, <1>5 DEF Complete
  <1>7. JobsAlive'
    BY <1>0, <1>1, <1>5 DEF JobsAlive, Unreaped
  <1>8. LaunchedLeader' /\ Stored'
    BY <1>0 DEF LaunchedLeader, Stored
  <1>9. JobLeader'
    <2>1. \A p \in Pid : p \in J'[cur.slot].pids <=>
                           Unreaped(p)' /\ leader'[p] = J'[cur.slot].pgrp
      BY <1>0, <1>1, <1>3, <1>4 DEF LaunchedLeader, Unreaped, Registering
    <2> QED BY <2>1, <1>0, <1>1, <1>6 DEF JobLeader, Unreaped
  <1>10. Shown'
    <2>1. PICK i \in Slot : i = cur.slot
      BY <1>0
    <2>2. Moving(i)'
      BY <2>1, <1>0, <1>1, <1>3 DEF Moving, Launched, Lively
    <2> QED BY <2>1, <2>2, <1>0, <1>1, <1>6 DEF Shown, Moving, Launched, Lively, InFg
  <1> QED BY <1>2, <1>7, <1>8, <1>9, <1>10

---------------------------------------------------------------------------
(* fg and the handler.                                                     *)

\* A live process of a job that job_add has recorded is in the job's group,
\* and no other job's.
LEMMA JobProcess ==
  ASSUME IInv, KernelInv, NEW i \in Slot, NEW p \in J[i].pids,
         ~(pc \in Registering /\ st[p] = "run" /\ note[p] = "none")
  PROVE  /\ p \in Pid /\ Unreaped(p) /\ J[i].name /\ Complete(i) /\ p \in Launched(i)
         /\ \A k \in Slot \ {i} : p \notin J[k].pids
         /\ \A k \in Slot \ {i} : Complete(k) => p \notin Launched(k)
  <1> USE DEF IInv, KernelInv
  <1>1. p \in Pid
    BY DEF TypeOK, Job
  <1>2. Unreaped(p) /\ J[i].name
    BY DEF JobsAlive, TableInv, FreeSlotsEmpty
  <1>3. ~(pc = "add_pids" /\ i = cur.slot)
    BY DEF TableInv, LaunchedPidsFresh
  <1>4. ~(pc = "add_status" /\ i = cur.slot)
    BY DEF Stored, LaunchedRun, Registering
  <1>5. Complete(i)
    BY <1>2, <1>3, <1>4 DEF Complete, Filled
  <1>6. p \in Launched(i)
    BY <1>1, <1>2, <1>5 DEF JobLeader, Launched, Unreaped
  <1>7. \A k \in Slot \ {i} : p \notin J[k].pids
    BY DEF TableInv, OneJobPerProcess
  <1>8. \A k \in Slot \ {i} : Complete(k) => p \notin Launched(k)
    BY <1>1, <1>2, <1>7 DEF JobLeader, Launched
  <1> QED BY <1>1, <1>2, <1>5, <1>6, <1>7, <1>8

\* A process in no job is of no job's command.
LEMMA NoJobProcess ==
  ASSUME IInv, KernelInv, NEW p \in Pid, Unreaped(p), JobOf(p) = {}
  PROVE  \A k \in Slot : Complete(k) => p \notin Launched(k)
  BY DEF KernelInv, JobLeader, Launched, JobOf

LEMMA StatusKept ==
  ASSUME IInv, NEW i \in Slot, NEW s \in JobStatus, J' = job_set_status(i, s)
  PROVE  /\ EntriesKept
         /\ \A k \in Slot \ {i} : J'[k] = J[k]
         /\ J[i].name => J'[i].status = s
         /\ ~J[i].name => J' = J
  BY DEF IInv, TypeOK, EntriesKept, job_set_status, job_exists, Job

LEMMA FgStatusStep ==
  ASSUME IInv, IInv', RecordedInv, FgStatus
  PROVE  RecordedInv'
  <1> USE DEF IInv, RecordedInv
  <1>1. /\ pc = "fg_status" /\ pc' = "fg_tty" /\ J' = job_set_status(cur.slot, "FG")
        /\ UNCHANGED <<kernel, child, cur>>
        /\ UNCHANGED <<st, note, leader, pgrp, stage, pending>>
        /\ cur.slot \in Slot /\ "FG" \in JobStatus
    BY DEF FgStatus, At, TypeOK, Locals, JobStatus, kernel, child
  <1>2. EntriesKept /\ \A k \in Slot \ {cur.slot} : J'[k] = J[k]
    BY <1>1, StatusKept
  <1>3. ProcessesKept /\ ControlKept
    BY <1>1 DEF ProcessesKept, ControlKept, KernelInv, Outstanding, Registering, Unreaped
  <1>4. KernelInv'
    BY <1>2, <1>3, KernelKept
  <1>5. Shown'
    BY <1>1, <1>2 DEF Shown, Complete, Filled, Moving, Launched, Lively, InFg
  <1> QED BY <1>4, <1>5

LEMMA FgContStep ==
  ASSUME IInv, IInv', RecordedInv, FgCont
  PROVE  RecordedInv'
  <1> USE DEF IInv, RecordedInv
  <1>t. /\ st \in [Pid -> {"none", "run", "stop", "zombie", "gone"}]
        /\ cur.slot \in Slot /\ pending \subseteq Pid
    BY DEF TypeOK, Locals
  <1> DEFINE woken == {p \in JobGroup(cur.slot) : st[p] = "stop"}
  <1>1. /\ pc = "fg_cont" /\ pc' = "prompt" /\ UNCHANGED <<J, leader, pgrp, stage>>
        /\ st' = [p \in Pid |-> IF p \in woken THEN "run" ELSE st[p]]
        /\ note' = [p \in Pid |-> IF p \in woken THEN "continued" ELSE note[p]]
        /\ pending' = pending \ JobGroup(cur.slot)
    BY DEF FgCont, At, ContSignal, child
  <1>2. ProcessesKept /\ ControlKept /\ EntriesKept
    BY <1>1, <1>t
       DEF ProcessesKept, ControlKept, EntriesKept, KernelInv, Outstanding, Registering,
           Unreaped
  <1>3. KernelInv'
    BY <1>2, KernelKept
  <1>4. \A i \in Slot : Complete(i)' <=> Complete(i)
    BY <1>1 DEF Complete, Filled
  <1>5. \A i \in Slot : Moving(i) => Moving(i)'
    BY <1>1, <1>t DEF Moving, Launched, Lively
  <1>6. ASSUME NEW i \in Slot, i = cur.slot, Complete(i)
        PROVE  Moving(i)'
    <2>1. PICK p \in J[i].pids : TRUE
      BY <1>6 DEF Complete, KernelInv, JobsAlive
    <2>2. p \in Pid /\ Unreaped(p) /\ p \in Launched(i) /\ J[i].name
      BY <1>1, JobProcess DEF Registering
    <2>3. pgrp[p] = J[i].pgrp
      BY <2>2, <1>1 DEF KernelInv, Grouped, Launched
    <2>4. p \in JobGroup(cur.slot)
      BY <2>2, <2>3, <1>6 DEF JobGroup, job_exists, Members
    <2>5. st'[p] # "stop" /\ st'[p] # "none"
      BY <2>2, <2>4, <1>1, <1>t DEF Unreaped
    <2> QED BY <2>2, <2>5, <1>1 DEF Moving, Launched, Lively
  <1>7. Shown'
    BY <1>1, <1>4, <1>5, <1>6 DEF Shown, InFg
  <1> QED BY <1>3, <1>7

LEMMA WaitStoppedStep ==
  ASSUME IInv, IInv', RecordedInv, NEW p \in Pid, WaitStopped(p), pc' # "crashed"
  PROVE  RecordedInv'
  <1> USE DEF IInv, RecordedInv
  <1>t. /\ note \in [Pid -> {"none", "stopped", "continued"}]
        /\ Range(cur.procs) \subseteq Pid /\ pending \subseteq Pid
    BY RangeSeq DEF TypeOK, Locals
  <1>1. /\ st[p] = "stop" /\ note[p] = "stopped"
        /\ note' = [note EXCEPT ![p] = "none"] /\ pc' = pc
        /\ UNCHANGED <<st, leader, pgrp, stage, pending, cur>>
    BY DEF WaitStopped, NoSuchJob, child
  <1>2. ProcessesKept /\ ControlKept
    BY <1>1, <1>t
       DEF ProcessesKept, ControlKept, KernelInv, Outstanding, LaunchedRun, Unreaped
  <1>3. \A q \in Pid : q # p /\ Lively(q) => Lively(q)'
    BY <1>1, <1>t DEF Lively
  <1>4. CASE JobOf(p) = {}
    <2>1. UNCHANGED J
      BY <1>4 DEF WaitStopped, NoSuchJob
    <2>2. KernelInv'
      BY <1>2, <2>1, KernelKept DEF EntriesKept
    <2>3. \A k \in Slot : Complete(k) => p \notin Launched(k)
      BY <1>1, <1>4, NoJobProcess DEF Unreaped
    <2>4. Shown'
      BY <1>1, <1>3, <2>1, <2>3 DEF Shown, Complete, Filled, Moving, Launched
    <2> QED BY <2>2, <2>4
  <1>5. ASSUME NEW i \in JobOf(p),
               IF job_status(i) # "STOPPED"
               THEN J' = job_set_status(i, "STOPPED") ELSE UNCHANGED J
        PROVE  RecordedInv'
    <2>1. i \in Slot /\ p \in J[i].pids
      BY DEF JobOf
    <2>2. /\ J[i].name
          /\ \A k \in Slot \ {i} : Complete(k) => p \notin Launched(k)
      BY <1>1, <2>1, JobProcess
    <2>3. /\ EntriesKept /\ J'[i].status = "STOPPED"
          /\ \A k \in Slot \ {i} : J'[k] = J[k]
      BY <1>5, <2>1, <2>2, StatusKept DEF EntriesKept, job_status, job_exists, JobStatus
    <2>4. KernelInv'
      BY <1>2, <2>3, KernelKept
    <2>5. \A k \in Slot \ {i} : Complete(k)' <=> Complete(k)
      BY <1>1, <2>3 DEF Complete, Filled
    <2>6. \A k \in Slot \ {i} : Complete(k) /\ Moving(k) => Moving(k)'
      BY <1>1, <1>3, <2>2, <2>3 DEF Moving, Launched
    <2>7. Shown'
      BY <1>1, <2>3, <2>5, <2>6 DEF Shown
    <2> QED BY <2>4, <2>7
  <1> QED BY <1>4, <1>5 DEF WaitStopped

LEMMA WaitContinuedStep ==
  ASSUME IInv, IInv', RecordedInv, NEW p \in Pid, WaitContinued(p), pc' # "crashed"
  PROVE  RecordedInv'
  <1> USE DEF IInv, RecordedInv
  <1>t. /\ note \in [Pid -> {"none", "stopped", "continued"}]
        /\ Range(cur.procs) \subseteq Pid /\ pending \subseteq Pid
    BY RangeSeq DEF TypeOK, Locals
  <1>1. /\ st[p] = "run" /\ note[p] = "continued"
        /\ note' = [note EXCEPT ![p] = "none"] /\ pc' = pc
        /\ UNCHANGED <<st, leader, pgrp, stage, pending, cur>>
    BY DEF WaitContinued, NoSuchJob, child
  <1>2. ProcessesKept /\ ControlKept
    BY <1>1, <1>t
       DEF ProcessesKept, ControlKept, KernelInv, Outstanding, LaunchedRun, Unreaped
  <1>3. \A q \in Pid : Lively(q) => Lively(q)'
    BY <1>1, <1>t DEF Lively
  <1>4. CASE UNCHANGED J
    BY <1>1, <1>2, <1>3, <1>4, RecordedKept DEF StateKept
  <1>5. ASSUME NEW i \in JobOf(p), J' = job_set_status(i, "BG")
        PROVE  RecordedInv'
    <2>1. i \in Slot /\ p \in J[i].pids
      BY DEF JobOf
    <2>2. p \in Launched(i)
      BY <1>1, <2>1, JobProcess
    <2>3. EntriesKept /\ \A k \in Slot \ {i} : J'[k] = J[k]
      BY <1>5, <2>1, StatusKept DEF JobStatus
    <2>4. KernelInv'
      BY <1>2, <2>3, KernelKept
    <2>5. \A k \in Slot : Complete(k)' <=> Complete(k)
      BY <1>1, <2>3 DEF Complete, Filled, EntriesKept
    <2>6. \A k \in Slot : Moving(k) => Moving(k)'
      BY <1>1, <1>3, <2>3 DEF Moving, Launched, EntriesKept
    <2>7. Moving(i)'
      BY <1>1, <2>1, <2>2, <2>3 DEF Moving, Launched, Lively, EntriesKept
    <2>8. Shown'
      BY <1>1, <2>3, <2>5, <2>6, <2>7 DEF Shown
    <2> QED BY <2>4, <2>8
  <1> QED BY <1>4, <1>5 DEF WaitContinued, NoSuchJob

LEMMA WaitExitedStep ==
  ASSUME IInv, IInv', RecordedInv, NEW p \in Pid, WaitExited(p), pc' # "crashed"
  PROVE  RecordedInv'
  <1> USE DEF IInv, RecordedInv, KernelInv
  <1>t. /\ st \in [Pid -> {"none", "run", "stop", "zombie", "gone"}]
        /\ Range(cur.procs) \subseteq Pid /\ pending \subseteq Pid
        /\ leader \in [Pid -> Pid]
        /\ J \in [Slot -> Job]
        /\ \A i \in Slot : J[i].pids \subseteq Pid
    BY RangeSeq DEF TypeOK, Locals, Job
  <1>1. /\ st[p] = "zombie" /\ st' = [st EXCEPT ![p] = "gone"] /\ pc' = pc
        /\ UNCHANGED <<note, leader, pgrp, stage, pending, cur>>
    BY DEF WaitExited, NoSuchJob, child
  <1>2. st'[p] = "gone" /\ \A q \in Pid \ {p} : st'[q] = st[q]
    BY <1>1, <1>t
  <1>3. pc \in Registering => p \notin Range(cur.procs)
    BY <1>1 DEF LaunchedRun
  <1>4. /\ Unborn' /\ Outstanding' /\ LaunchedRun' /\ ForkedLeaders'
        /\ LaunchedLeader' /\ Grouped'
    BY <1>1, <1>2, <1>3, <1>t
       DEF Unborn, Outstanding, LaunchedRun, ForkedLeaders, LaunchedLeader, Grouped
  <1>5. \A k \in Slot : /\ J'[k].pgrp = J[k].pgrp
                        /\ J'[k].status = J[k].status
                        /\ J'[k].pids = J[k].pids \ {p}
                        /\ J'[k].name => J[k].name
                        /\ p \in J[k].pids /\ J'[k].name => J'[k].pids # {}
    <2>1. CASE JobOf(p) = {}
      BY <2>1 DEF WaitExited, NoSuchJob, JobOf
    <2>2. ASSUME NEW i \in JobOf(p),
                 \/ J' = job_remove_pid(i, p) /\ ~job_is_done(job_remove_pid(i, p), i)
                 \/ /\ J' = job_delete(job_remove_pid(i, p), i)
                    /\ job_is_done(job_remove_pid(i, p), i)
          PROVE  \A k \in Slot : /\ J'[k].pgrp = J[k].pgrp
                                 /\ J'[k].status = J[k].status
                                 /\ J'[k].pids = J[k].pids \ {p}
                                 /\ J'[k].name => J[k].name
                                 /\ p \in J[k].pids /\ J'[k].name => J'[k].pids # {}
      <3>1. i \in Slot /\ p \in J[i].pids
        BY DEF JobOf
      <3>2. \A k \in Slot \ {i} : p \notin J[k].pids /\ J'[k] = J[k]
        BY <2>2, <3>1, <1>t DEF job_remove_pid, job_delete, TableInv, OneJobPerProcess
      <3>3. /\ J'[i].pgrp = J[i].pgrp /\ J'[i].status = J[i].status
            /\ J'[i].pids = J[i].pids \ {p}
            /\ J'[i].name => J[i].name
            /\ J'[i].name => J'[i].pids # {}
        BY <2>2, <3>1, <1>t DEF job_remove_pid, job_delete, job_is_done, Job
      <3> QED BY <3>1, <3>2, <3>3
    <2> QED BY <2>1, <2>2 DEF WaitExited
  <1>6. \A k \in Slot : Complete(k)' => Complete(k)
    BY <1>1, <1>5 DEF Complete, Filled
  <1>7. JobsAlive'
    BY <1>1, <1>2, <1>5, <1>t DEF JobsAlive, Filled, Unreaped
  <1>8. Stored'
    <2>1. pc = "add_status" => p \notin J[cur.slot].pids /\ cur.slot \in Slot
      BY <1>3 DEF Stored, Registering, TypeOK, Locals
    <2> QED BY <2>1, <1>1, <1>5 DEF Stored
  <1>9. JobLeader'
    BY <1>1, <1>2, <1>5, <1>6 DEF JobLeader, Unreaped
  <1>10. \A k \in Slot : Moving(k) => Moving(k)'
    BY <1>1, <1>2, <1>5 DEF Moving, Launched, Lively
  <1>11. Shown'
    BY <1>1, <1>5, <1>6, <1>10 DEF Shown
  <1> QED BY <1>4, <1>7, <1>8, <1>9, <1>11

---------------------------------------------------------------------------
(* The invariant holds until the handler goes on with J[-1].               *)

LEMMA RecordedInit == Init => RecordedInv
  <1> SUFFICES ASSUME Init PROVE RecordedInv
    OBVIOUS
  <1>1. /\ pc = "prompt" /\ st = [p \in Pid |-> "none"] /\ note = [p \in Pid |-> "none"]
        /\ stage = [p \in Pid |-> "setpgid"] /\ pending = {}
        /\ \A i \in Slot : ~J[i].name /\ J[i].pids = {}
    BY DEF Init, jobs_init
  <1>2. KernelInv
    BY <1>1 DEF KernelInv, Unborn, Outstanding, LaunchedRun, JobsAlive, ForkedLeaders,
       LaunchedLeader, Stored, JobLeader, Grouped, Filled, Complete, Registering
  <1>3. Shown
    BY <1>1 DEF Shown, Complete, Filled
  <1> QED BY <1>2, <1>3 DEF RecordedInv

LEMMA RecordedStep ==
  ASSUME "register" \notin Races, IInv, IInv', RecordedInv, [Next]_vars, pc' # "crashed"
  PROVE  RecordedInv'
  <1>t. TypeOK'
    BY DEF IInv
  <1>1. CASE UNCHANGED vars
    BY <1>1, <1>t, SignalStep, RecordedKept
  <1>2. CASE Environment
    BY <1>2, <1>t, SignalStep, ControlStep, RecordedKept DEF Environment
  <1>3. ASSUME NEW p \in Pid, ChildStep(p) PROVE RecordedInv'
    BY <1>3, <1>t, SignalStep, RecordedKept, ChildSetpgidStep DEF ChildStep
  <1>4. CASE ShellStep
    BY <1>4, <1>t, ControlStep, RecordedKept, ForkStep, ParentSetpgidStep, AddNameStep,
       AddPidsStep, AddStatusStep, FgStatusStep, FgContStep DEF ShellStep
  <1>5. CASE HandlerStep
    BY <1>5, <1>t, SignalStep, ControlStep, RecordedKept, WaitStoppedStep,
       WaitContinuedStep, WaitExitedStep DEF HandlerStep
  <1> QED BY <1>1, <1>2, <1>3, <1>4, <1>5 DEF Next

\* A shell that has crashed takes no further step.
LEMMA CrashStays == pc = "crashed" /\ [Next]_vars => pc' = "crashed"
  <1> SUFFICES ASSUME pc = "crashed", [Next]_vars PROVE pc' = "crashed"
    OBVIOUS
  <1>1. CASE UNCHANGED vars
    BY <1>1 DEF vars
  <1>2. CASE Environment
    BY <1>2 DEF Environment, CtrlZ, CtrlC, Exit, BackgroundRead, Launch, Fg, Bg, KillStop,
       Kill, Command, At
  <1>3. ASSUME NEW p \in Pid, ChildStep(p) PROVE pc' = "crashed"
    BY <1>3 DEF ChildStep, ChildSetpgid, ChildSetFg, StopDelivered
  <1>4. CASE ShellStep
    BY <1>4 DEF ShellStep, TtySignal, Pause, Fork, ParentSetpgid, ParentSetFg, AddName,
       AddPids, AddStatus, FgStatus, FgTty, FgCont, At
  <1>5. CASE HandlerStep
    BY <1>5 DEF HandlerStep, EnterHandler, WaitStopped, WaitContinued, WaitExited,
       NoSuchJob, LeaveHandler
  <1> QED BY <1>1, <1>2, <1>3, <1>4, <1>5 DEF Next

RecordedUntilCrash == pc # "crashed" => RecordedInv

LEMMA Recorded ==
  ASSUME "register" \notin Races
  PROVE  Spec => []RecordedUntilCrash
  <1>1. Init => RecordedUntilCrash
    BY RecordedInit DEF RecordedUntilCrash
  <1>2. IInv /\ IInv' /\ RecordedUntilCrash /\ [Next]_vars => RecordedUntilCrash'
    BY RecordedStep, CrashStays DEF RecordedUntilCrash
  <1> QED BY <1>1, <1>2, Invariance, PTL DEF Spec

\* Whatever else is raced, provided no process of a command exits or stops
\* before job_add has recorded it: once everything is reported, a job in the
\* table has a process left (the handler's job_delete at the last exit).
THEOREM JobsHaveProcesses ==
  ASSUME "register" \notin Races
  PROVE  Spec => []NoStaleJob
  <1>1. IInv /\ RecordedUntilCrash => NoStaleJob
    <2> SUFFICES ASSUME IInv, RecordedInv, Quiescent, NEW i \in Slot, job_exists(i)
                 PROVE  LiveProcs(i) # {}
      BY DEF RecordedUntilCrash, NoStaleJob, Quiescent, At
    <2>1. Filled(i)
      BY DEF Quiescent, At, Filled, job_exists
    <2> QED BY <2>1 DEF RecordedInv, KernelInv, JobsAlive, LiveProcs
  <1> QED BY <1>1, Recorded, Invariance, PTL

\* Under the same proviso jobs shows a job as stopped once all the processes of
\* its command have stopped and the handler has been told.
THEOREM StoppedJobsShown ==
  ASSUME "register" \notin Races
  PROVE  Spec => []StoppedIsShown
  <1>1. IInv /\ RecordedUntilCrash => StoppedIsShown
    <2> SUFFICES ASSUME IInv, RecordedInv, Quiescent, NEW i \in Slot, job_exists(i),
                        \A p \in Launched(i) : st[p] = "stop", J[i].status # "STOPPED"
                 PROVE  FALSE
      BY DEF RecordedUntilCrash, StoppedIsShown, Quiescent, At
    <2>1. Moving(i)
      BY DEF Quiescent, At, Complete, Filled, job_exists, RecordedInv, Shown, InFg
    <2>2. PICK p \in Pid : st[p] = "stop" /\ note[p] = "stopped"
      BY <2>1 DEF Moving, Launched, Lively
    <2> QED BY <2>2 DEF Quiescent, Waitable, Unreaped
  <1> QED BY <1>1, Recorded, Invariance, PTL

---------------------------------------------------------------------------
(* While J has a free slot for every command, each child is in the table.  *)

\* A process that can be waited for is in the pids array of a job or among the
\* locals of execute_tasks, and job_add finds the slot it needs.
InTable ==
  \A p \in Pid : Unreaped(p) =>
    (\E i \in Slot : p \in J[i].pids) \/ (pc \in Registering /\ p \in Range(cur.procs))

RoomLeft == pc \in {"fork", "setpgid", "setfg", "add_name"} => FreeSlots # {}

Tracked == NoPhantomJob /\ RecordedInv /\ InTable /\ RoomLeft

\* The handler finds the job of every status it is told.
LEMMA ReportedKnown ==
  ASSUME IInv, Tracked, NEW p \in Pid,
         \/ st[p] = "stop" \/ st[p] = "zombie" \/ (st[p] = "run" /\ note[p] = "continued")
  PROVE  JobOf(p) # {}
  BY DEF Tracked, InTable, RecordedInv, KernelInv, LaunchedRun, Unreaped, JobOf

LEMMA NeverCrashes ==
  ASSUME IInv, Tracked, [Next]_vars
  PROVE  pc' # "crashed"
  <1>0. pc # "crashed"
    BY DEF Tracked, NoPhantomJob
  <1>1. CASE UNCHANGED vars
    BY <1>0, <1>1 DEF vars
  <1>2. CASE Environment
    BY <1>0, <1>2 DEF Environment, CtrlZ, CtrlC, Exit, BackgroundRead, Launch, Fg, Bg,
       KillStop, Kill
  <1>3. ASSUME NEW p \in Pid, ChildStep(p) PROVE pc' # "crashed"
    BY <1>0, <1>3 DEF ChildStep, ChildSetpgid, ChildSetFg, StopDelivered
  <1>4. CASE ShellStep
    BY <1>4 DEF ShellStep, TtySignal, Pause, Fork, ParentSetpgid, ParentSetFg, AddName,
       AddPids, AddStatus, FgStatus, FgTty, FgCont
  <1>5. CASE HandlerStep
    <2>1. CASE EnterHandler \/ LeaveHandler
      BY <1>0, <2>1 DEF EnterHandler, LeaveHandler
    <2>2. ASSUME NEW p \in Pid, WaitStopped(p) \/ WaitContinued(p) \/ WaitExited(p)
          PROVE  pc' = pc
      <3>1. st[p] = "stop" \/ st[p] = "zombie" \/ (st[p] = "run" /\ note[p] = "continued")
        <4>1. CASE WaitStopped(p)
          BY <4>1 DEF WaitStopped
        <4>2. CASE WaitContinued(p)
          BY <4>2 DEF WaitContinued
        <4>3. CASE WaitExited(p)
          BY <4>3 DEF WaitExited
        <4> QED BY <2>2, <4>1, <4>2, <4>3
      <3>2. JobOf(p) # {}
        BY <3>1, ReportedKnown
      <3> QED BY <3>2, <2>2 DEF WaitStopped, WaitContinued, WaitExited
    <2> QED BY <1>0, <1>5, <2>1, <2>2 DEF HandlerStep
  <1> QED BY <1>1, <1>2, <1>3, <1>4, <1>5 DEF Next

\* Steps that add nothing to the table and drop no process from it.
LEMMA CoveredKept ==
  ASSUME IInv, InTable, RoomLeft,
         \A p \in Pid : Unreaped(p)' => Unreaped(p),
         \A i \in Slot : /\ J'[i].name => J[i].name
                         /\ \A p \in J[i].pids : p \in J'[i].pids \/ st'[p] = "gone",
         \/ pc' = pc /\ cur' = cur
         \/ pc \notin Registering /\ pc' \notin Registering
         \/ pc \notin Registering /\ pc' = "fork" /\ FreeSlots # {}
         \/ /\ pc \in {"setpgid", "setfg"} /\ pc' \in {"fork", "setfg", "add_name"}
            /\ cur' = cur
  PROVE  InTable' /\ RoomLeft'
  <1>1. FreeSlots \subseteq FreeSlots'
    BY DEF FreeSlots
  <1>2. RoomLeft'
    BY <1>1 DEF RoomLeft, Registering
  <1>3. InTable'
    BY DEF InTable, Registering, Unreaped
  <1> QED BY <1>2, <1>3

LEMMA CoveredStep ==
  ASSUME "full" \notin Races, IInv, IInv', Tracked, [Next]_vars
  PROVE  InTable' /\ RoomLeft'
  <1> DEFINE Goal == InTable' /\ RoomLeft'
             Less == \A p \in Pid : Unreaped(p)' => Unreaped(p)
  <1> USE DEF IInv
  <1>t. /\ st \in [Pid -> {"none", "run", "stop", "zombie", "gone"}]
        /\ J \in [Slot -> Job] /\ cur \in Locals /\ cur.slot \in Slot
        /\ InTable /\ RoomLeft
    BY DEF TypeOK, Locals, Tracked
  <1>1. CASE UNCHANGED vars
    BY <1>1, <1>t, CoveredKept DEF vars, kernel, child, Unreaped
  <1>2. ASSUME UNCHANGED <<J, pc, cur>>, Less PROVE Goal
    BY <1>2, <1>t, CoveredKept
  <1>3. CASE CtrlZ \/ EnterHandler \/ \E i \in Slot : KillStop(i)
    BY <1>2, <1>3 DEF CtrlZ, EnterHandler, KillStop, Unreaped
  <1>4. CASE CtrlC
    <2>1. Less
      BY <1>4, <1>t DEF CtrlC, KillSignal, Unreaped
    <2> QED BY <1>2, <1>4, <2>1 DEF CtrlC
  <1>5. ASSUME NEW i \in Slot, Kill(i) PROVE Goal
    <2>1. Less
      BY <1>5, <1>t DEF Kill, KillSignal, Unreaped
    <2> QED BY <1>2, <1>5, <2>1 DEF Kill
  <1>6. ASSUME NEW i \in Slot, Bg(i) PROVE Goal
    <2>1. Less
      BY <1>6, <1>t DEF Bg, ContSignal, Unreaped
    <2> QED BY <1>2, <1>6, <2>1 DEF Bg
  <1>7. ASSUME NEW p \in Pid,
               \/ Exit(p) \/ BackgroundRead(p) \/ StopDelivered(p)
               \/ ChildSetpgid(p) \/ ChildSetFg(p)
        PROVE  Goal
    <2>1. Less
      <3>1. CASE StopDelivered(p)
        BY <3>1, <1>t
           DEF StopDelivered, Unreaped, Tracked, RecordedInv, KernelInv, Outstanding
      <3> QED BY <3>1, <1>7, <1>t
              DEF Exit, BackgroundRead, ChildSetpgid, ChildSetFg, Unreaped
    <2> QED BY <1>2, <1>7, <2>1
            DEF Exit, BackgroundRead, StopDelivered, ChildSetpgid, ChildSetFg
  <1>8. ASSUME NEW n \in 1 .. MaxTasks, NEW bg \in BOOLEAN, Launch(n, bg) PROVE Goal
    BY <1>8, <1>t, CoveredKept DEF Launch, Command, At, Registering, kernel, Unreaped
  <1>9. ASSUME UNCHANGED <<J, st>>, pc \notin Registering, pc' \notin Registering PROVE Goal
    BY <1>9, <1>t, CoveredKept DEF Unreaped
  <1>10. CASE TtySignal \/ Pause \/ LeaveHandler \/ \E i \in Slot : Fg(i)
    <2>1. CASE LeaveHandler /\ pc # "paused"
      BY <2>1, <1>2 DEF LeaveHandler, kernel, Unreaped
    <2> QED BY <1>9, <1>10, <2>1
            DEF TtySignal, Pause, LeaveHandler, Fg, Command, At, Registering, kernel, InFg
  <1>11. CASE FgTty
    BY <1>9, <1>11 DEF FgTty, At, Registering
  <1>12. CASE FgCont
    <2>1. Less /\ pc = "fg_cont" /\ pc' = "prompt" /\ UNCHANGED J
      BY <1>12, <1>t DEF FgCont, At, ContSignal, Unreaped
    <2> QED BY <2>1, <1>t, CoveredKept DEF Registering
  <1>13. CASE FgStatus
    <2>1. /\ pc = "fg_status" /\ pc' = "fg_tty" /\ UNCHANGED st
          /\ J' = job_set_status(cur.slot, "FG")
      BY <1>13 DEF FgStatus, At, kernel
    <2>2. EntriesKept
      BY <2>1, <1>t, StatusKept DEF JobStatus
    <2> QED BY <2>1, <2>2, <1>t, CoveredKept DEF EntriesKept, Unreaped, Registering
  <1>14. CASE ParentSetpgid \/ ParentSetFg
    <2>1. /\ UNCHANGED <<st, J, cur>> /\ pc \in {"setpgid", "setfg"}
          /\ pc' \in {"fork", "setfg", "add_name"}
      BY <1>14 DEF ParentSetpgid, ParentSetFg, At
    <2> QED BY <2>1, <1>t, CoveredKept DEF Unreaped
  <1>15. ASSUME NEW p \in Pid, Fork(p) PROVE Goal
    <2>1. /\ pc = "fork" /\ pc' = "setpgid" /\ UNCHANGED J
          /\ cur'.procs = Append(cur.procs, p) /\ st' = [st EXCEPT ![p] = "run"]
      BY <1>15, <1>t DEF Fork, At, Locals
    <2>2. Range(cur'.procs) = Range(cur.procs) \union {p}
      BY <2>1, <1>t, RangeAppend DEF Locals
    <2>3. \A q \in Pid : Unreaped(q)' => Unreaped(q) \/ q = p
      BY <2>1, <1>t DEF Unreaped
    <2> QED BY <2>1, <2>2, <2>3, <1>t DEF InTable, RoomLeft, FreeSlots, Registering
  <1>16. CASE AddName
    <2>1. pc = "add_name" /\ UNCHANGED st /\ FreeSlots # {}
      BY <1>16, <1>t DEF AddName, At, kernel, RoomLeft
    <2>2. PICK i \in FreeSlots : /\ J' = [J EXCEPT ![i].name = TRUE]
                                 /\ cur' = [cur EXCEPT !.slot = i] /\ pc' = "add_pids"
      BY <1>16, <2>1 DEF AddName
    <2>3. cur'.procs = cur.procs /\ \A k \in Slot : J'[k].pids = J[k].pids
      BY <2>2, <1>t DEF Locals, Job
    <2> QED BY <2>1, <2>2, <2>3, <1>t DEF InTable, RoomLeft, Unreaped, Registering
  <1>17. CASE AddPids
    <2>1. /\ pc = "add_pids" /\ pc' = "add_status" /\ UNCHANGED <<st, cur>>
          /\ J' = [J EXCEPT ![cur.slot].pids = Range(cur.procs)]
      BY <1>17 DEF AddPids, At, kernel
    <2>2. /\ J'[cur.slot].pids = Range(cur.procs) /\ J[cur.slot].pids = {}
          /\ \A k \in Slot \ {cur.slot} : J'[k] = J[k]
      BY <2>1, <1>t DEF TableInv, LaunchedPidsFresh, Job
    <2> QED BY <2>1, <2>2, <1>t DEF InTable, RoomLeft, Unreaped, Registering
  <1>18. CASE AddStatus
    <2>1. /\ pc = "add_status" /\ pc' = "prompt" /\ UNCHANGED st
          /\ \A k \in Slot : J'[k].pids = J[k].pids
      BY <1>18, <1>t DEF AddStatus, At, kernel, Job
    <2>2. J[cur.slot].pids = Range(cur.procs)
      BY <2>1 DEF Tracked, RecordedInv, KernelInv, Stored
    <2> QED BY <2>1, <2>2, <1>t DEF InTable, RoomLeft, Unreaped
  <1>19. ASSUME NEW p \in Pid, WaitStopped(p) \/ WaitContinued(p) PROVE Goal
    <2>1. UNCHANGED <<st, cur>> /\ pc' = pc
      BY <1>19, NeverCrashes DEF WaitStopped, WaitContinued, NoSuchJob
    <2>2. EntriesKept
      <3>1. \/ UNCHANGED J
            \/ \E i \in Slot, s \in {"STOPPED", "BG"} : J' = job_set_status(i, s)
        BY <1>19 DEF WaitStopped, WaitContinued, NoSuchJob, JobOf
      <3> QED BY <3>1, StatusKept DEF JobStatus, EntriesKept
    <2> QED BY <2>1, <2>2, <1>t, CoveredKept DEF EntriesKept, Unreaped
  <1>20. ASSUME NEW p \in Pid, WaitExited(p) PROVE Goal
    <2>1. /\ st' = [st EXCEPT ![p] = "gone"] /\ UNCHANGED cur /\ pc' = pc
      BY <1>20, NeverCrashes DEF WaitExited, NoSuchJob
    <2>2. \A i \in Slot : /\ J'[i].name => J[i].name
                          /\ \A q \in J[i].pids : q \in J'[i].pids \/ q = p
      <3>1. CASE UNCHANGED J
        BY <3>1
      <3>2. ASSUME NEW i \in Slot,
                   \/ J' = job_remove_pid(i, p)
                   \/ /\ J' = job_delete(job_remove_pid(i, p), i)
                    /\ job_is_done(job_remove_pid(i, p), i)
            PROVE  \A k \in Slot : /\ J'[k].name => J[k].name
                                   /\ \A q \in J[k].pids : q \in J'[k].pids \/ q = p
        BY <3>2, <1>t DEF job_remove_pid, job_delete, job_is_done, Job
      <3> QED BY <3>1, <3>2, <1>20 DEF WaitExited, NoSuchJob, JobOf
    <2>3. st'[p] = "gone" /\ Less
      BY <2>1, <1>t DEF Unreaped
    <2> QED BY <2>1, <2>2, <2>3, <1>t, CoveredKept
  <1> QED
    BY <1>1, <1>3, <1>4, <1>5, <1>6, <1>7, <1>8, <1>10, <1>11, <1>12, <1>13, <1>14,
       <1>15, <1>16, <1>17, <1>18, <1>19, <1>20
       DEF Next, Environment, ChildStep, ShellStep, HandlerStep

LEMMA TrackedInvariant ==
  ASSUME "register" \notin Races, "full" \notin Races
  PROVE  Spec => []Tracked
  <1>1. Init => Tracked
    <2> SUFFICES ASSUME Init PROVE Tracked
      OBVIOUS
    <2> QED BY RecordedInit
            DEF Init, Tracked, NoPhantomJob, InTable, RoomLeft, Unreaped, Registering
  <1>2. IInv /\ IInv' /\ Tracked /\ [Next]_vars => Tracked'
    <2> SUFFICES ASSUME IInv, IInv', Tracked, [Next]_vars PROVE Tracked'
      OBVIOUS
    <2>1. pc' # "crashed"
      BY NeverCrashes
    <2>2. RecordedInv'
      BY <2>1, RecordedStep DEF Tracked
    <2>3. InTable' /\ RoomLeft'
      BY CoveredStep
    <2> QED BY <2>1, <2>2, <2>3 DEF Tracked, NoPhantomJob
  <1> QED BY <1>1, <1>2, Invariance, PTL DEF Spec

\* As long as job_add is never too late or out of slots, the handler finds the
\* job of every child waitpid reports and never indexes J with -1.
THEOREM HandlerFindsJob ==
  ASSUME "register" \notin Races, "full" \notin Races
  PROVE  Spec => []NoPhantomJob
  <1>1. Tracked => NoPhantomJob
    BY DEF Tracked
  <1> QED BY <1>1, TrackedInvariant, PTL

---------------------------------------------------------------------------
(* The terminal, while nothing but pause() is raced.                       *)

\* The children of a command exec before job_add records it; the last one of a
\* foreground command takes the terminal before that, the shell too.
Starting ==
  /\ \A p \in Pid : st[p] # "none" /\ stage[p] # "exec" =>
       p \in Range(cur.procs) /\ pc \in {"fork", "setpgid", "setfg", "add_name"}
  /\ \A p \in Pid : st[p] # "none" /\ stage[p] = "setfg" => p \in takesTty
  /\ \A p \in takesTty : st[p] # "none"
  /\ pc \in Registering => \A p \in takesTty \intersect Range(cur.procs) : ~cur.background
  /\ pc = "setfg" => ~cur.background

\* The job fg acts on is marked FG before it gets the terminal, and has no stop
\* to report; if it has ended meanwhile, its group is empty.
FgActs ==
  /\ pc \in {"fg_tty", "fg_cont"} /\ J[cur.slot].name => J[cur.slot].status = "FG"
  /\ pc \in InFg => \A p \in J[cur.slot].pids : note[p] # "stopped"
  /\ pc \in InFg /\ ~J[cur.slot].name => Members(J[cur.slot].pgrp) = {}

\* The terminal is the shell's, a foreground job's, or the foreground command's
\* being launched.
OwnedByJob    == \E i \in Slot : Complete(i) /\ J[i].pgrp = tty /\ J[i].status = "FG"
OwnedByLaunch == /\ pc \in Registering /\ ~cur.background
                 /\ cur.procs # <<>> /\ tty = cur.procs[1]
Owned         == tty = Shell \/ OwnedByJob \/ OwnedByLaunch

TerminalInv == Starting /\ FgActs /\ Owned

\* No process is forked, and a child goes on to its next call at most.
NoneForked    == \A p \in Pid : st'[p] = "none" <=> st[p] = "none"
StagesAdvance ==
  \A p \in Pid : \/ stage'[p] = stage[p] \/ stage'[p] = "exec"
                 \/ stage'[p] = "setfg" /\ p \in takesTty /\ stage[p] # "exec"

LEMMA StartingKept ==
  ASSUME IInv, Starting, takesTty' = takesTty, NoneForked, StagesAdvance,
         \/ pc' = pc /\ cur' = cur
         \/ pc \notin Registering /\ pc' \notin Registering
         \/ pc \notin Registering /\ pc' = "fork" /\ cur'.procs = <<>>
         \/ /\ pc \in {"setpgid", "setfg"} /\ pc' \in {"fork", "setfg", "add_name"}
            /\ cur' = cur
            /\ pc' = "setfg" => ~cur.background
         \/ pc = "add_pids" /\ pc' = "add_status" /\ cur' = cur
         \/ pc = "add_status" /\ pc' = "prompt"
  PROVE  Starting'
  <1>0. Range(<<>>) = {}
    BY DEF Range
  <1>t. takesTty \subseteq Pid
    BY DEF IInv, TypeOK
  <1> QED BY <1>0, <1>t DEF Starting, NoneForked, StagesAdvance, Registering

LEMMA StartingStep ==
  ASSUME "childfg" \notin Races, IInv, IInv', Tracked, Starting, [Next]_vars
  PROVE  Starting'
  <1>t. /\ st \in [Pid -> {"none", "run", "stop", "zombie", "gone"}]
        /\ stage \in [Pid -> {"setpgid", "setfg", "exec"}]
        /\ cur \in Locals
    BY DEF IInv, TypeOK
  <1>1. ASSUME UNCHANGED <<stage, takesTty, pc, cur>>, NoneForked PROVE Starting'
    BY <1>1, StartingKept DEF StagesAdvance
  <1>2. ASSUME UNCHANGED <<stage, takesTty>>, NoneForked,
               pc \notin Registering, pc' \notin Registering PROVE Starting'
    BY <1>2, StartingKept DEF StagesAdvance
  <1>3. CASE UNCHANGED vars
    BY <1>1, <1>3 DEF vars, kernel, child, NoneForked
  <1>4. ASSUME NEW S, KillSignal(S) \/ ContSignal(S) PROVE NoneForked
    BY <1>4, <1>t DEF KillSignal, ContSignal, NoneForked
  <1>5. CASE CtrlZ \/ EnterHandler \/ \E i \in Slot : KillStop(i)
    BY <1>1, <1>5 DEF CtrlZ, EnterHandler, KillStop, child, NoneForked
  <1>6. CASE CtrlC
    BY <1>1, <1>4, <1>6 DEF CtrlC, child
  <1>7. ASSUME NEW i \in Slot, Bg(i) \/ Kill(i) PROVE Starting'
    BY <1>1, <1>4, <1>7 DEF Bg, Kill, child
  <1>8. ASSUME NEW p \in Pid, Exit(p) \/ BackgroundRead(p) PROVE Starting'
    BY <1>1, <1>8, <1>t DEF Exit, BackgroundRead, child, NoneForked
  <1>9. ASSUME NEW p \in Pid, StopDelivered(p) PROVE Starting'
    BY <1>1, <1>9, <1>t
       DEF StopDelivered, child, NoneForked, Tracked, RecordedInv, KernelInv, Outstanding
  <1>10. ASSUME NEW p \in Pid, ChildSetpgid(p) \/ ChildSetFg(p) PROVE Starting'
    <2>1. /\ UNCHANGED <<st, takesTty, pc, cur>> /\ stage[p] # "exec"
          /\ \A q \in Pid \ {p} : stage'[q] = stage[q]
          /\ stage'[p] = "exec" \/ (stage'[p] = "setfg" /\ p \in takesTty)
      BY <1>10, <1>t DEF ChildSetpgid, ChildSetFg
    <2> QED BY <2>1, StartingKept DEF StagesAdvance, NoneForked
  <1>11. ASSUME NEW n \in 1 .. MaxTasks, NEW bg \in BOOLEAN, Launch(n, bg) PROVE Starting'
    BY <1>11, StartingKept DEF Launch, Command, At, Registering, kernel, child, NoCommand,
       NoneForked, StagesAdvance
  <1>12. CASE TtySignal \/ Pause \/ FgStatus \/ FgTty \/ \E i \in Slot : Fg(i)
    BY <1>2, <1>12 DEF TtySignal, Pause, FgStatus, FgTty, Fg, Command, At, Registering,
       InFg, kernel, child, NoneForked
  <1>13. CASE LeaveHandler
    BY <1>1, <1>2, <1>13 DEF LeaveHandler, Registering, kernel, child, NoneForked
  <1>14. CASE FgCont
    BY <1>2, <1>4, <1>14 DEF FgCont, At, Registering, child
  <1>15. CASE ParentSetpgid \/ ParentSetFg
    <2>1. /\ UNCHANGED <<st, stage, takesTty, cur>> /\ pc \in {"setpgid", "setfg"}
          /\ pc' \in {"fork", "setfg", "add_name"} /\ (pc' = "setfg" => ~cur.background)
      BY <1>15, <1>t DEF ParentSetpgid, ParentSetFg, At, child
    <2> QED BY <2>1, StartingKept DEF StagesAdvance, NoneForked
  <1>16. ASSUME NEW p \in Pid, Fork(p) PROVE Starting'
    <2>1. /\ pc = "fork" /\ pc' = "setpgid" /\ UNCHANGED stage
          /\ cur'.procs = Append(cur.procs, p) /\ cur'.background = cur.background
          /\ st' = [st EXCEPT ![p] = "run"] /\ st[p] = "none"
          /\ \/ takesTty' = takesTty
             \/ ~cur.background /\ takesTty' = takesTty \union {p}
      BY <1>16, <1>t DEF Fork, At, Locals
    <2>2. Range(cur'.procs) = Range(cur.procs) \union {p}
      BY <2>1, <1>t, RangeAppend DEF Locals
    <2>3. stage[p] = "setpgid" /\ takesTty \subseteq Pid
      BY <2>1 DEF Tracked, RecordedInv, KernelInv, Unborn, IInv, TypeOK
    <2> QED BY <2>1, <2>2, <2>3, <1>t DEF Starting, Registering
  <1>17. CASE AddName
    <2>1. /\ pc = "add_name" /\ UNCHANGED <<st, stage, takesTty>>
          /\ \A p \in Range(cur.procs) : st[p] = "run" => stage[p] = "exec"
          /\ pc' \in {"prompt", "add_pids"}
          /\ pc' = "add_pids" => cur'.procs = cur.procs /\ cur'.background = cur.background
      BY <1>17, <1>t DEF AddName, At, kernel, child, Locals
    <2>2. \A p \in Range(cur.procs) : st[p] = "run"
      BY <2>1 DEF Tracked, RecordedInv, KernelInv, LaunchedRun, Registering
    <2> QED BY <2>1, <2>2 DEF Starting, Registering
  <1>18. CASE AddPids \/ AddStatus
    BY <1>18, StartingKept DEF AddPids, AddStatus, At, kernel, child, NoneForked,
       StagesAdvance
  <1>19. ASSUME NEW p \in Pid, WaitStopped(p) \/ WaitContinued(p) \/ WaitExited(p)
         PROVE  Starting'
    <2>1. UNCHANGED <<stage, takesTty, pc, cur>> /\ NoneForked
      BY <1>19, <1>t, NeverCrashes
         DEF WaitStopped, WaitContinued, WaitExited, NoSuchJob, child, NoneForked
    <2> QED BY <1>1, <2>1
  <1> QED
    BY <1>3, <1>5, <1>6, <1>7, <1>8, <1>9, <1>10, <1>11, <1>12, <1>13, <1>14, <1>15,
       <1>16, <1>17, <1>18, <1>19
       DEF Next, Environment, ChildStep, ShellStep, HandlerStep

\* While fg runs, no child is on its way to exec.
LEMMA FgChildren ==
  ASSUME Starting, pc \in InFg, NEW p \in Pid, st[p] # "none"
  PROVE  stage[p] = "exec"
  BY DEF Starting, InFg

LEMMA FgActsKept ==
  ASSUME IInv, FgActs, UNCHANGED <<J, pgrp, pc, cur>>,
         \A p \in Pid : Unreaped(p)' => Unreaped(p),
         \A p \in J[cur.slot].pids : note'[p] = "stopped" => note[p] = "stopped"
  PROVE  FgActs'
  BY DEF FgActs, Members

LEMMA FgActsStep ==
  ASSUME "fg" \notin Races, IInv, IInv', Tracked, Starting, FgActs, [Next]_vars
  PROVE  FgActs'
  <1> USE DEF IInv
  <1>t. /\ st \in [Pid -> {"none", "run", "stop", "zombie", "gone"}]
        /\ note \in [Pid -> {"none", "stopped", "continued"}]
        /\ J \in [Slot -> Job] /\ cur \in Locals /\ cur.slot \in Slot
        /\ \A i \in Slot : J[i].pids \subseteq Pid
        /\ pending \subseteq Pid /\ \A p \in pending : st[p] = "run"
    BY DEF TypeOK, Locals, Job, Tracked, RecordedInv, KernelInv, Outstanding
  <1>0. CASE pc' \notin InFg
    BY <1>0 DEF FgActs, InFg
  <1>1. CASE UNCHANGED vars
    BY <1>1, FgActsKept DEF vars, kernel, child, Unreaped
  <1>2. CASE CtrlZ \/ EnterHandler \/ \E p \in Pid : BackgroundRead(p) \/ ChildSetFg(p)
    BY <1>2, FgActsKept DEF CtrlZ, EnterHandler, BackgroundRead, ChildSetFg, Unreaped
  <1>3. CASE CtrlC
    <2>1. /\ \A p \in Pid : Unreaped(p)' => Unreaped(p)
          /\ \A p \in Pid : note'[p] = "stopped" => note[p] = "stopped"
      BY <1>3, <1>t DEF CtrlC, KillSignal, Unreaped
    <2> QED BY <2>1, <1>3, <1>t, FgActsKept DEF CtrlC
  <1>4. ASSUME NEW p \in Pid, Exit(p) PROVE FgActs'
    <2>1. /\ \A q \in Pid : Unreaped(q)' => Unreaped(q)
          /\ \A q \in Pid : note'[q] = "stopped" => note[q] = "stopped"
      BY <1>4, <1>t DEF Exit, Unreaped
    <2> QED BY <2>1, <1>4, <1>t, FgActsKept DEF Exit
  <1>5. ASSUME NEW p \in Pid, StopDelivered(p), pc \in InFg PROVE FgActs'
    <2>1. p \notin J[cur.slot].pids
      BY <1>5 DEF StopDelivered
    <2>2. /\ \A q \in Pid : Unreaped(q)' => Unreaped(q)
          /\ \A q \in Pid \ {p} : note'[q] = note[q]
      BY <1>5, <1>t DEF StopDelivered, Unreaped
    <2> QED BY <2>1, <2>2, <1>5, <1>t, FgActsKept DEF StopDelivered
  <1>6. ASSUME NEW p \in Pid, ChildSetpgid(p), pc \in InFg PROVE FALSE
    BY <1>6, FgChildren DEF ChildSetpgid
  <1>7. ASSUME NEW i \in Slot, Fg(i) PROVE FgActs'
    <2>1. /\ pc' = "fg_status" /\ cur'.slot = i /\ J' = J /\ note' = note
          /\ J[i].name /\ \A p \in J[i].pids : note[p] # "stopped"
      BY <1>7 DEF Fg, NoCommand, kernel, job_exists, Reported
    <2> QED BY <2>1 DEF FgActs
  <1>8. CASE FgStatus
    <2>1. /\ pc = "fg_status" /\ pc' = "fg_tty" /\ UNCHANGED <<st, note, pgrp, cur>>
          /\ J' = job_set_status(cur.slot, "FG")
      BY <1>8 DEF FgStatus, At, kernel
    <2>2. /\ EntriesKept
          /\ J'[cur.slot].name => J'[cur.slot].status = "FG"
      BY <2>1, <1>t, StatusKept DEF JobStatus, EntriesKept
    <2> QED BY <2>1, <2>2, <1>t DEF FgActs, EntriesKept, Members, Unreaped, InFg
  <1>9. CASE FgTty
    <2>1. pc = "fg_tty" /\ pc' = "fg_cont" /\ UNCHANGED <<st, note, pgrp, cur, J>>
      BY <1>9 DEF FgTty, At
    <2> QED BY <2>1 DEF FgActs, Members, Unreaped, InFg
  <1>10. CASE LeaveHandler /\ pc' = pc
    BY <1>10, FgActsKept DEF LeaveHandler, kernel, Unreaped
  <1>11. ASSUME NEW p \in Pid, WaitStopped(p) \/ WaitContinued(p), pc \in InFg PROVE FgActs'
    <2>1. /\ UNCHANGED <<st, pgrp, cur>> /\ pc' = pc
          /\ \A q \in Pid : note'[q] = "stopped" => note[q] = "stopped"
      BY <1>11, <1>t, NeverCrashes DEF WaitStopped, WaitContinued, NoSuchJob
    <2>2. CASE UNCHANGED J
      BY <2>1, <2>2, <1>t, FgActsKept DEF Unreaped
    <2>3. ASSUME NEW i \in JobOf(p), J' = job_set_status(i, "STOPPED"), note[p] = "stopped"
          PROVE  FgActs'
      <3>1. i \in Slot /\ i # cur.slot
        BY <2>3, <1>11 DEF JobOf, FgActs
      <3>2. J'[cur.slot] = J[cur.slot]
        BY <2>3, <3>1, <1>t, StatusKept DEF JobStatus
      <3> QED BY <2>1, <3>2, <1>t DEF FgActs, Members, Unreaped
    <2>4. ASSUME NEW i \in JobOf(p), J' = job_set_status(i, "BG"), job_status(i) = "STOPPED"
          PROVE  FgActs'
      <3>1. i \in Slot /\ EntriesKept /\ \A k \in Slot \ {i} : J'[k] = J[k]
        BY <2>4, StatusKept DEF JobOf, JobStatus
      <3>2. J[i].name /\ J[i].status = "STOPPED"
        BY <2>4, <3>1 DEF job_status, job_exists
      <3>3. pc \in {"fg_tty", "fg_cont"} => i # cur.slot
        BY <3>2 DEF FgActs
      <3> QED BY <2>1, <3>1, <3>3, <1>t DEF FgActs, EntriesKept, Members, Unreaped
    <2>5. CASE WaitStopped(p)
      BY <2>5, <2>2, <2>3 DEF WaitStopped, NoSuchJob
    <2>6. CASE WaitContinued(p)
      BY <2>6, <2>2, <2>4 DEF WaitContinued, NoSuchJob
    <2> QED BY <1>11, <2>5, <2>6
  <1>12. ASSUME NEW p \in Pid, WaitExited(p), pc \in InFg PROVE FgActs'
    <2>1. /\ st' = [st EXCEPT ![p] = "gone"] /\ UNCHANGED <<note, pgrp, cur>> /\ pc' = pc
          /\ st[p] = "zombie"
      BY <1>12, NeverCrashes DEF WaitExited, NoSuchJob
    <2>2. PICK i \in JobOf(p) :
            \/ J' = job_remove_pid(i, p)
            \/ /\ J' = job_delete(job_remove_pid(i, p), i)
               /\ job_is_done(job_remove_pid(i, p), i)
      BY <1>12, <2>1, ReportedKnown DEF WaitExited
    <2>3. i \in Slot /\ p \in J[i].pids
      BY DEF JobOf
    <2>4. /\ \A k \in Slot \ {i} : J'[k] = J[k]
          /\ J'[i].pgrp = J[i].pgrp /\ J'[i].status = J[i].status
          /\ J'[i].pids \subseteq J[i].pids
          /\ J'[i].name => J[i].name
          /\ ~J'[i].name /\ J[i].name => J[i].pids \subseteq {p}
      BY <2>2, <2>3, <1>t DEF job_remove_pid, job_delete, job_is_done, Job
    <2>5. \A q \in Pid : Unreaped(q)' => Unreaped(q) /\ q # p
      BY <2>1, <1>t DEF Unreaped
    <2>6. CASE i # cur.slot
      BY <2>1, <2>3, <2>4, <2>5, <2>6, <1>t DEF FgActs, Members
    <2>7. CASE i = cur.slot
      <3>1. J[i].name /\ Complete(i)
        BY <2>1, <2>3, <1>12, JobProcess DEF Tracked, RecordedInv
      <3>2. ASSUME ~J'[i].name, NEW q \in Pid, Unreaped(q)', pgrp[q] = J[i].pgrp
            PROVE  FALSE
        <4>1. Unreaped(q) /\ q # p /\ st[q] # "none"
          BY <2>5, <3>2 DEF Unreaped
        <4>2. leader[q] = J[i].pgrp
          BY <4>1, <3>2, <1>12 DEF Tracked, RecordedInv, KernelInv, Grouped, InFg
        <4>3. q \in J[i].pids
          BY <4>1, <4>2, <3>1, <2>3 DEF Tracked, RecordedInv, KernelInv, JobLeader
        <4> QED BY <4>1, <4>3, <2>4, <3>1, <3>2
      <3>3. ~J'[i].name => \A q \in Pid : Unreaped(q)' => pgrp'[q] # J'[i].pgrp
        BY <3>2, <2>1, <2>4
      <3>4. J'[cur'.slot].name =>
              J'[cur'.slot].status = J[cur.slot].status /\ J[cur.slot].name
        BY <2>1, <2>4, <2>7
      <3>5. \A q \in J'[cur'.slot].pids : note'[q] # "stopped"
        BY <2>1, <2>4, <2>7, <1>12 DEF FgActs
      <3> QED BY <2>1, <2>7, <1>12, <3>3, <3>4, <3>5 DEF FgActs, Members
    <2> QED BY <2>6, <2>7
  <1>13. CASE pc \notin InFg /\ pc' = pc
    BY <1>13, <1>0
  <1>14. CASE TtySignal \/ Pause \/ ParentSetpgid \/ ParentSetFg \/ AddName \/ AddPids
              \/ AddStatus \/ FgCont \/ \E p \in Pid : Fork(p)
    BY <1>0, <1>14 DEF TtySignal, Pause, ParentSetpgid, ParentSetFg, AddName, AddPids,
       AddStatus, FgCont, Fork, InFg
  <1>15. CASE \/ \E n \in 1 .. MaxTasks, bg \in BOOLEAN : Launch(n, bg)
              \/ \E i \in Slot : Bg(i) \/ KillStop(i) \/ Kill(i)
    BY <1>0, <1>15 DEF Launch, Bg, KillStop, Kill, Command, At, InFg
  <1>16. ASSUME NEW p \in Pid,
                \/ StopDelivered(p) \/ ChildSetpgid(p)
                \/ WaitStopped(p) \/ WaitContinued(p) \/ WaitExited(p)
         PROVE  FgActs'
    <2>1. pc' = pc
      BY <1>16, NeverCrashes DEF StopDelivered, ChildSetpgid, WaitStopped, WaitContinued,
         WaitExited, NoSuchJob
    <2> QED BY <2>1, <1>5, <1>6, <1>11, <1>12, <1>13, <1>16
  <1>17. CASE LeaveHandler
    BY <1>0, <1>10, <1>17 DEF LeaveHandler, InFg
  <1> QED
    BY <1>1, <1>2, <1>3, <1>4, <1>7, <1>8, <1>9, <1>14, <1>15, <1>16, <1>17
       DEF Next, Environment, ChildStep, ShellStep, HandlerStep

\* The terminal and the entries of J are as they were.
LEMMA OwnedKept ==
  ASSUME IInv, Owned, tty' = tty \/ tty' = Shell, UNCHANGED J,
         \/ pc' = pc /\ cur' = cur
         \/ pc \notin Registering /\ pc' \notin Registering
         \/ tty = Shell
         \/ /\ pc \in {"setpgid", "setfg"} /\ pc' \in {"fork", "setfg", "add_name"}
            /\ cur' = cur
  PROVE  Owned'
  BY DEF Owned, OwnedByJob, OwnedByLaunch, Complete, Filled, Registering

LEMMA OwnedStep ==
  ASSUME IInv, IInv', Tracked, Starting, FgActs, Owned, [Next]_vars
  PROVE  Owned'
  <1> USE DEF IInv
  <1>t. /\ J \in [Slot -> Job] /\ cur \in Locals /\ cur.slot \in Slot
        /\ cur.procs \in Seq(Pid) /\ leader \in [Pid -> Pid]
    BY DEF TypeOK, Locals
  <1>0. CASE tty' = Shell
    BY <1>0 DEF Owned
  <1>1. ASSUME UNCHANGED <<tty, J, pc, cur>> PROVE Owned'
    BY <1>1, OwnedKept
  <1>2. CASE UNCHANGED vars \/ CtrlZ \/ CtrlC \/ EnterHandler
    BY <1>1, <1>2 DEF vars, kernel, CtrlZ, CtrlC, EnterHandler
  <1>3. ASSUME NEW p \in Pid,
               Exit(p) \/ BackgroundRead(p) \/ ChildSetpgid(p) \/ StopDelivered(p)
        PROVE  Owned'
    BY <1>1, <1>3 DEF Exit, BackgroundRead, ChildSetpgid, StopDelivered
  <1>4. ASSUME NEW i \in Slot, Bg(i) \/ KillStop(i) \/ Kill(i) PROVE Owned'
    BY <1>1, <1>4 DEF Bg, KillStop, Kill
  <1>5. ASSUME NEW n \in 1 .. MaxTasks, NEW bg \in BOOLEAN, Launch(n, bg) PROVE Owned'
    BY <1>0, <1>5 DEF Launch, Command, kernel
  <1>6. ASSUME NEW i \in Slot, Fg(i) PROVE Owned'
    BY <1>0, <1>6 DEF Fg, Command, kernel
  <1>7. ASSUME NEW p \in Pid, ChildSetFg(p) PROVE Owned'
    <2>1. /\ st[p] = "run" /\ stage[p] = "setfg" /\ UNCHANGED <<J, pc, cur>>
          /\ tty' \in {tty, leader[p]}
      BY <1>7 DEF ChildSetFg, TtyAfter
    <2>2. /\ p \in Range(cur.procs) /\ pc \in Registering /\ ~cur.background
      BY <2>1 DEF Starting, Registering
    <2>3. cur.procs # <<>>
      BY <2>2 DEF Range
    <2>4. leader[p] = cur.procs[1]
      BY <2>2, <2>3 DEF Tracked, RecordedInv, KernelInv, LaunchedLeader
    <2>5. CASE tty' = tty
      BY <1>1, <2>1, <2>5
    <2>6. CASE tty' = cur.procs[1]
      BY <2>1, <2>2, <2>3, <2>6 DEF Owned, OwnedByLaunch
    <2> QED BY <2>1, <2>4, <2>5, <2>6
  <1>8. CASE TtySignal \/ Pause
    BY <1>8, OwnedKept DEF TtySignal, Pause, At, kernel, Registering
  <1>9. ASSUME NEW p \in Pid, Fork(p) PROVE Owned'
    <2>1. /\ pc = "fork" /\ pc' = "setpgid" /\ UNCHANGED <<J, tty>>
          /\ cur'.procs = Append(cur.procs, p) /\ cur'.background = cur.background
      BY <1>9, <1>t DEF Fork, At, Locals
    <2>2. cur'.procs # <<>> /\ (cur.procs # <<>> => cur'.procs[1] = cur.procs[1])
      BY <2>1, <1>t, AppendEnds, RangeAppend
    <2> QED BY <2>1, <2>2
            DEF Owned, OwnedByJob, OwnedByLaunch, Complete, Filled, Registering
  <1>10. CASE ParentSetpgid
    BY <1>10, OwnedKept DEF ParentSetpgid, At
  <1>11. CASE ParentSetFg
    <2>1. /\ pc = "setfg" /\ pc' = "add_name" /\ UNCHANGED <<J, cur>>
          /\ tty' \in {tty, cur.procs[1]}
      BY <1>11 DEF ParentSetFg, At, TtyAfter, child
    <2>2. cur.procs # <<>> /\ ~cur.background
      BY <2>1 DEF TableInv, LaunchedPidsFresh, Starting, Registering
    <2>3. CASE tty' = tty
      BY <2>1, <2>3, OwnedKept
    <2>4. CASE tty' = cur.procs[1]
      BY <2>1, <2>2, <2>4 DEF Owned, OwnedByLaunch, Registering
    <2> QED BY <2>1, <2>3, <2>4
  <1>12. CASE AddName
    <2>1. pc = "add_name" /\ tty' = tty /\ FreeSlots # {}
      BY <1>12 DEF AddName, At, kernel, Tracked, RoomLeft
    <2>2. PICK i \in FreeSlots : /\ J' = [J EXCEPT ![i].name = TRUE]
                                 /\ cur' = [cur EXCEPT !.slot = i] /\ pc' = "add_pids"
      BY <1>12, <2>1 DEF AddName
    <2>3. /\ cur'.procs = cur.procs /\ cur'.background = cur.background /\ cur'.slot = i
          /\ i \in Slot /\ ~J[i].name /\ \A k \in Slot \ {i} : J'[k] = J[k]
      BY <2>2, <1>t DEF Locals, Job, FreeSlots
    <2> QED BY <2>1, <2>2, <2>3
            DEF Owned, OwnedByJob, OwnedByLaunch, Complete, Filled, Registering
  <1>13. CASE AddPids
    <2>1. /\ pc = "add_pids" /\ pc' = "add_status" /\ UNCHANGED <<tty, cur>>
          /\ \A k \in Slot \ {cur.slot} : J'[k] = J[k]
      BY <1>13, <1>t DEF AddPids, At, kernel
    <2> QED BY <2>1, <1>t
            DEF Owned, OwnedByJob, OwnedByLaunch, Complete, Filled, Registering
  <1>14. CASE AddStatus
    <2>1. /\ pc = "add_status" /\ pc' = "prompt" /\ tty' = tty
          /\ \A k \in Slot \ {cur.slot} : J'[k] = J[k]
          /\ J'[cur.slot].name = J[cur.slot].name /\ J'[cur.slot].pgrp = cur.procs[1]
          /\ ~cur.background => J'[cur.slot].status = "FG"
      BY <1>14, <1>t DEF AddStatus, At, kernel, Job
    <2>2. J[cur.slot].name
      <3>1. J[cur.slot].pids = Range(cur.procs) /\ cur.procs # <<>>
        BY <2>1 DEF Tracked, RecordedInv, KernelInv, Stored, TableInv, LaunchedPidsFresh,
           Registering
      <3>2. cur.procs[1] \in Range(cur.procs)
        BY <2>1, LeaderGroup DEF Tracked, RecordedInv
      <3> QED BY <3>1, <3>2, <1>t DEF TableInv, FreeSlotsEmpty
    <2>3. CASE OwnedByLaunch
      BY <2>1, <2>2, <2>3, <1>t DEF Owned, OwnedByJob, OwnedByLaunch, Complete, Filled
    <2>4. CASE OwnedByJob
      <3>1. PICK i \in Slot : Complete(i) /\ J[i].pgrp = tty /\ J[i].status = "FG"
        BY <2>4 DEF OwnedByJob
      <3>2. i # cur.slot /\ J[i].name
        BY <2>1, <3>1 DEF Complete, Filled
      <3> QED BY <2>1, <3>1, <3>2 DEF Owned, OwnedByJob, Complete, Filled
    <2>5. CASE tty = Shell
      BY <1>0, <2>1, <2>5
    <2> QED BY <2>3, <2>4, <2>5 DEF Owned
  <1>15. CASE FgStatus
    <2>1. /\ pc = "fg_status" /\ pc' = "fg_tty" /\ UNCHANGED <<tty, cur>>
          /\ J' = job_set_status(cur.slot, "FG")
      BY <1>15 DEF FgStatus, At, kernel
    <2>2. /\ EntriesKept
          /\ \A k \in Slot : J'[k].status \in {J[k].status, "FG"}
      BY <2>1, <1>t, StatusKept DEF JobStatus, EntriesKept
    <2> QED BY <2>1, <2>2 DEF Owned, OwnedByJob, OwnedByLaunch, Complete, Filled,
            EntriesKept, Registering
  <1>16. CASE FgTty
    <2>1. /\ pc = "fg_tty" /\ pc' = "fg_cont" /\ UNCHANGED <<J, cur>>
          /\ tty' = TtyAfter(J[cur.slot].pgrp)
      BY <1>16 DEF FgTty, At
    <2>2. CASE tty' = tty
      BY <2>1, <2>2, OwnedKept DEF Registering
    <2>3. CASE tty' # tty /\ tty' # Shell
      <3>1. tty' = J[cur.slot].pgrp /\ Members(J[cur.slot].pgrp) # {}
        BY <2>1, <2>3 DEF TtyAfter
      <3>2. J[cur.slot].name /\ J[cur.slot].status = "FG"
        BY <2>1, <3>1 DEF FgActs, InFg
      <3> QED BY <2>1, <3>1, <3>2, <1>t DEF Owned, OwnedByJob, Complete, Filled
    <2> QED BY <1>0, <2>2, <2>3
  <1>17. CASE FgCont
    BY <1>17, OwnedKept DEF FgCont, At, Registering
  <1>18. CASE LeaveHandler
    BY <1>18, OwnedKept DEF LeaveHandler, kernel, Registering
  <1>19. ASSUME NEW p \in Pid, WaitStopped(p) PROVE Owned'
    <2>1. JobOf(p) # {}
      BY <1>19, ReportedKnown DEF WaitStopped
    <2>2. tty' = Shell \/ UNCHANGED <<J, tty, pc, cur>>
      BY <1>19, <2>1 DEF WaitStopped
    <2> QED BY <1>0, <1>1, <2>2
  <1>20. ASSUME NEW p \in Pid, WaitContinued(p) PROVE Owned'
    <2>1. PICK i \in JobOf(p) : /\ J' = IF job_status(i) = "STOPPED"
                                       THEN job_set_status(i, "BG") ELSE J
                                /\ UNCHANGED <<tty, pc, cur>>
      <3>1. JobOf(p) # {}
        BY <1>20, ReportedKnown DEF WaitContinued
      <3> QED BY <1>20, <3>1 DEF WaitContinued
    <2>2. CASE job_status(i) = "STOPPED"
      <3>1. i \in Slot /\ EntriesKept /\ \A k \in Slot \ {i} : J'[k] = J[k]
        BY <2>1, <2>2, StatusKept DEF JobOf, JobStatus
      <3>2. J[i].status # "FG"
        BY <2>2 DEF job_status
      <3> QED BY <2>1, <3>1, <3>2
              DEF Owned, OwnedByJob, OwnedByLaunch, Complete, Filled, EntriesKept
    <2> QED BY <1>1, <2>1, <2>2
  <1>21. ASSUME NEW p \in Pid, WaitExited(p) PROVE Owned'
    <2>1. PICK i \in JobOf(p) :
            /\ pc' = pc /\ cur' = cur
            /\ \/ /\ tty' = TtyAfterLastExit(i)
                  /\ J' = job_delete(job_remove_pid(i, p), i)
               \/ J' = job_remove_pid(i, p) /\ UNCHANGED tty
      <3>1. JobOf(p) # {}
        BY <1>21, ReportedKnown DEF WaitExited
      <3> QED BY <1>21, <3>1 DEF WaitExited
    <2>2. /\ i \in Slot /\ \A k \in Slot \ {i} : J'[k] = J[k]
          /\ J'[i].pgrp = J[i].pgrp /\ J'[i].status = J[i].status
      BY <2>1, <1>t DEF JobOf, job_remove_pid, job_delete, Job
    <2>3. CASE J' = job_remove_pid(i, p) /\ tty' = tty
      <3>1. J'[i].name = J[i].name
        BY <2>2, <2>3, <1>t DEF job_remove_pid, Job
      <3> QED BY <2>1, <2>2, <2>3, <3>1
              DEF Owned, OwnedByJob, OwnedByLaunch, Complete, Filled
    <2>4. CASE tty' = TtyAfterLastExit(i)
      <3>1. tty' = Shell \/ (tty' = tty /\ job_status(i) # "FG")
        BY <2>4 DEF TtyAfterLastExit
      <3>2. job_status(i) # "FG" => ~J[i].name \/ J[i].status # "FG"
        BY DEF job_status, job_exists
      <3> QED BY <1>0, <2>1, <2>2, <3>1, <3>2
              DEF Owned, OwnedByJob, OwnedByLaunch, Complete, Filled
    <2> QED BY <2>1, <2>3, <2>4
  <1> QED
    BY <1>2, <1>3, <1>4, <1>5, <1>6, <1>7, <1>8, <1>9, <1>10, <1>11, <1>12, <1>13,
       <1>14, <1>15, <1>16, <1>17, <1>18, <1>19, <1>20, <1>21
       DEF Next, Environment, ChildStep, ShellStep, HandlerStep

\* When every child runs and execs before its command is in the table, J has
\* room, and fg meets no unreported stop: once everything is reported, the
\* terminal is the shell's or a live foreground job's (pssh's SIGTTOU handler,
\* and the handler's set_fg_process_group calls on a stop and on the last exit).
THEOREM TerminalIsOwned ==
  ASSUME "register" \notin Races, "full" \notin Races,
         "childfg" \notin Races, "fg" \notin Races
  PROVE  Spec => []TerminalOwned
  <1>1. Init => TerminalInv
    <2> SUFFICES ASSUME Init PROVE TerminalInv
      OBVIOUS
    <2>1. Starting
      BY DEF Init, Starting, Registering
    <2> QED BY <2>1 DEF Init, TerminalInv, FgActs, Owned, InFg
  <1>2. IInv /\ IInv' /\ Tracked /\ TerminalInv /\ [Next]_vars => TerminalInv'
    BY StartingStep, FgActsStep, OwnedStep DEF TerminalInv
  <1>3. Tracked /\ TerminalInv => TerminalOwned
    <2> SUFFICES ASSUME Tracked, TerminalInv, Quiescent, tty # Shell
                 PROVE  \E i \in Slot : /\ job_exists(i) /\ J[i].pgrp = tty
                                        /\ J[i].status = "FG" /\ LiveProcs(i) # {}
      BY DEF TerminalOwned
    <2>1. PICK i \in Slot : Complete(i) /\ J[i].pgrp = tty /\ J[i].status = "FG"
      BY DEF TerminalInv, Owned, OwnedByJob, OwnedByLaunch, Quiescent, At, Registering
    <2>2. J[i].name /\ LiveProcs(i) # {}
      BY <2>1 DEF Complete, Filled, Tracked, RecordedInv, KernelInv, JobsAlive, LiveProcs
    <2> QED BY <2>1, <2>2 DEF job_exists
  <1> QED BY <1>1, <1>2, <1>3, TrackedInvariant, Invariance, PTL DEF Spec
=============================================================================
