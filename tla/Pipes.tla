-------------------------------- MODULE Pipes --------------------------------
(***************************************************************************)
(* The programs that fork and talk over pipes.  Each process runs a script *)
(* of its system calls.  A pipe has two ends; a process holds an end until *)
(* it closes it or ends, and a child gets copies of all ends its parent    *)
(* holds.  read() on an empty pipe ends with EOF once nobody can write.    *)
(***************************************************************************)
EXTENDS IpcParameters, SequencesExt

Proc == 0 .. num_children            \* 0 is the parent
End  == {1, 2} \X {"read", "write"}  \* of at most two pipes

VARIABLES
  version,
  script,      \* what each process runs; exec and fork set it
  at,          \* its next call
  status,      \* "none", "running", "ended", "killed", "gone" (waited for)
  parent,      \* who forked it
  holds,       \* the ends each process holds
  pipe,        \* what is in each pipe
  file,        \* message.txt: "old", "written", "seen"
  eof          \* the processes that read an end of file

vars == <<version, script, at, status, parent, holds, pipe, file, eof>>

Call(what, k)  == [op |-> what, arg |-> k, side |-> "none"]
Close(k, side) == [op |-> "close", arg |-> k, side |-> side]
---------------------------------------------------------------------------
\* barrier_sync_with_pipes.c
barrier_main_open == [j \in 1 .. num_children |-> Call("fork", j)]   \* mutant
                     \o <<Call("drain", 1), Call("exit", 0)>>
barrier_main == [j \in 1 .. num_children |-> Call("fork", j)]
                \o <<Close(1, "write"), Call("drain", 1), Call("exit", 0)>>
barrier_child == <<Close(1, "read"), Call("sleep", 0), Close(1, "write"), Call("exit", 0)>>

\* simple_pipe.c and 1-pipes.c
simple_main  == <<Call("fork", 1), Close(1, "read"), Call("write", 1), Call("wait", 0)>>
simple_child == <<Close(1, "write"), Call("read", 1), Call("exit", 0)>>
pipes_main   == <<Call("fork", 1), Close(1, "read"), Call("write", 1), Close(1, "write"),
                  Call("wait", 0)>>
pipes_child  == <<Close(1, "write"), Call("read", 1), Close(1, "read"), Call("exit", 0)>>

\* simple_co_process.c; its child runs add2.c, or nothing if exec fails.
co_process_main == <<Call("fork", 1), Close(1, "read"), Close(2, "write"),
                     Call("write", 1), Call("read", 2)>>
co_process_child == <<Close(1, "write"), Close(2, "read"), Call("exec", 0)>>
add2 == <<Call("read", 1), Call("write", 2), Call("exit", 0)>>

\* pipe_ls_wc.c and 2-pipes-dup.c: in the second, an ls that cannot be run goes
\* on as another parent, without the ends it closed.
ls_child == <<Close(1, "read"), Call("exec", 0)>>
wc_child == <<Close(1, "write"), Call("exec", 0)>>
ls == [k \in 1 .. num_lines |-> Call("write", 1)] \o <<Call("exit", 0)>>
wc == <<Call("drain", 1), Call("exit", 0)>>
ls_wc_parent == <<Close(1, "read"), Close(1, "write"), Call("wait", 0), Call("wait", 0)>>
ls_wc_main   == <<Call("fork", 1), Call("fork", 2)>> \o ls_wc_parent
falls_through == <<Call("fork", 3), Call("wait", 0), Call("wait", 0)>>

\* sync_with_pipes.c
tell_parent     == <<Call("write", 2)>>
wait_for_parent_not == <<>>              \* mutant: the child does not wait

wait_for_parent == <<Call("read", 1)>>
tell_child      == <<Call("write", 1)>>
wait_for_child  == <<Call("read", 2)>>
sync_main  == <<Call("fork", 1), Call("fopen", 0), Call("fprintf", 0)>>
              \o tell_child \o wait_for_child \o <<Call("report", 0), Call("wait", 0)>>
sync_child == wait_for_parent \o <<Call("fopen", 0), Call("fscanf", 0)>> \o tell_parent
              \o <<Call("exit", 0)>>

\* ipc/main.c: the same, but main does not wait for the child to end.
sync_main_2 == <<Call("fork", 1), Call("fopen", 0), Call("fprintf", 0)>>
               \o tell_child \o wait_for_child \o <<Call("report", 0)>>

Version == {"barrier", "simple", "pipes", "co_process", "ls_wc", "dup", "sync", "sync2"}

MainScript ==
  CASE version = "barrier"    -> barrier_main
    [] version = "simple"     -> simple_main
    [] version = "pipes"      -> pipes_main
    [] version = "co_process" -> co_process_main
    [] version = "sync"       -> sync_main
    [] version = "sync2"      -> sync_main_2
    [] OTHER                  -> ls_wc_main

ChildScript(c) ==
  CASE version = "barrier"    -> barrier_child
    [] version = "simple"     -> simple_child
    [] version = "pipes"      -> pipes_child
    [] version = "co_process" -> co_process_child
    [] version \in {"sync", "sync2"} -> sync_child
    [] OTHER -> IF c = 1 THEN ls_child ELSE IF c = 2 THEN wc_child ELSE <<>>

Program(c) == CASE version = "co_process" -> add2 [] c = 1 -> ls [] OTHER -> wc
TwoPipes   == version \in {"co_process", "sync", "sync2"}

TypeOK ==
  /\ version \in Version
  /\ at \in [Proc -> 1 .. num_children + num_lines + 8]
  /\ status \in [Proc -> {"none", "running", "ended", "killed", "gone"}]
  /\ parent \in [Proc -> Proc] /\ holds \in [Proc -> SUBSET End]
  /\ \A k \in {1, 2} : pipe[k] \in 0 .. pipe_size
  /\ file \in {"old", "written", "seen"} /\ eof \subseteq Proc

\* The parent has made the pipes.
Init ==
  /\ version \in Version
  /\ script = [p \in Proc |-> IF p = 0 THEN MainScript ELSE <<>>]
  /\ at = [p \in Proc |-> 1]
  /\ status = [p \in Proc |-> IF p = 0 THEN "running" ELSE "none"]
  /\ parent = [p \in Proc |-> 0]
  /\ holds = [p \in Proc |->
       IF p # 0 THEN {} ELSE {e \in End : e[1] = 1 \/ TwoPipes}]
  /\ pipe = [k \in {1, 2} |-> 0]
  /\ file = "old" /\ eof = {}
---------------------------------------------------------------------------
Running(p) == status[p] = "running"
Done(p)    == at[p] > Len(script[p])
NextCall(p, op) == Running(p) /\ ~Done(p) /\ script[p][at[p]].op = op
Arg(p)     == script[p][at[p]].arg
Go(p)      == at' = [at EXCEPT ![p] = @ + 1]
Open(k, side) == \E p \in Proc : <<k, side>> \in holds[p]

close(p) ==
  /\ NextCall(p, "close") /\ Go(p)
  /\ holds' = [holds EXCEPT ![p] = @ \ {<<Arg(p), script[p][at[p]].side>>}]
  /\ UNCHANGED <<version, script, status, parent, pipe, file, eof>>

write(p) ==
  /\ NextCall(p, "write") /\ Open(Arg(p), "read") /\ pipe[Arg(p)] < pipe_size
  /\ Go(p)
  /\ pipe' = [pipe EXCEPT ![Arg(p)] = @ + 1]
  /\ UNCHANGED <<version, script, status, parent, holds, file, eof>>

\* The argument these programs write may be empty: write() of 0 bytes.
writeNothing(p) ==
  /\ version \in {"simple", "co_process"} /\ p = 0 /\ NextCall(p, "write") /\ Go(p)
  /\ UNCHANGED <<version, script, status, parent, holds, pipe, file, eof>>

\* Nobody can read any more: SIGPIPE.
writeBroken(p) ==
  /\ NextCall(p, "write") /\ ~Open(Arg(p), "read")
  /\ status' = [status EXCEPT ![p] = "killed"]
  /\ holds' = [holds EXCEPT ![p] = {}]
  /\ UNCHANGED <<version, script, at, parent, pipe, file, eof>>

\* read takes what one write() put in; "drain" reads on until the end of file.
read(p) ==
  /\ NextCall(p, "read") \/ NextCall(p, "drain")
  /\ pipe[Arg(p)] > 0
  /\ pipe' = [pipe EXCEPT ![Arg(p)] = @ - 1]
  /\ IF NextCall(p, "read") THEN Go(p) ELSE UNCHANGED at
  /\ UNCHANGED <<version, script, status, parent, holds, file, eof>>

readEOF(p) ==
  /\ NextCall(p, "read") \/ NextCall(p, "drain")
  /\ pipe[Arg(p)] = 0 /\ ~Open(Arg(p), "write")
  /\ eof' = eof \cup {p}
  /\ Go(p)
  /\ UNCHANGED <<version, script, status, parent, holds, pipe, file>>

fork(p) ==
  /\ NextCall(p, "fork") /\ Go(p)
  /\ status' = [status EXCEPT ![Arg(p)] = "running"]
  /\ parent' = [parent EXCEPT ![Arg(p)] = p]
  /\ script' = [script EXCEPT ![Arg(p)] = ChildScript(Arg(p))]
  /\ holds' = [holds EXCEPT ![Arg(p)] = holds[p]]
  /\ UNCHANGED <<version, pipe, file, eof>>

\* A program that cannot be run: exit(EXIT_FAILURE), except in "dup".
exec(p) ==
  /\ NextCall(p, "exec")
  /\ \/ script' = [script EXCEPT ![p] = Program(p)]
     \/ script' = [script EXCEPT ![p] =
                     IF version = "dup" /\ p = 1 THEN falls_through
                     ELSE IF version = "dup" THEN <<Call("wait", 0), Call("wait", 0)>>
                     ELSE <<>>]
  /\ at' = [at EXCEPT ![p] = 1]
  /\ UNCHANGED <<version, status, parent, holds, pipe, file, eof>>

Children(p) == {c \in Proc \ {0} : parent[c] = p /\ status[c] \in {"running", "ended", "killed"}}

\* wait() takes any child that has ended; without a child it is an error.
wait(p) ==
  /\ NextCall(p, "wait") /\ Go(p)
  /\ \/ \E c \in Children(p) : status[c] # "running" /\ status' = [status EXCEPT ![c] = "gone"]
     \/ Children(p) = {} /\ UNCHANGED status
  /\ UNCHANGED <<version, script, parent, holds, pipe, file, eof>>

exit(p) ==
  /\ Running(p) /\ (Done(p) \/ NextCall(p, "exit"))
  /\ status' = [status EXCEPT ![p] = "ended"]
  /\ holds' = [holds EXCEPT ![p] = {}]
  /\ UNCHANGED <<version, script, at, parent, pipe, file, eof>>

\* The file may not open.  The parent then exits without telling the child; the
\* child does not look, and its fscanf(NULL) kills it.
fopen(p) ==
  /\ NextCall(p, "fopen")
  /\ \/ Go(p) /\ UNCHANGED <<status, holds>>
     \/ /\ status' = [status EXCEPT ![p] = IF p = 0 THEN "ended" ELSE "killed"]
        /\ holds' = [holds EXCEPT ![p] = {}] /\ UNCHANGED at
  /\ UNCHANGED <<version, script, parent, pipe, file, eof>>

UseFile(p) ==
  /\ \/ NextCall(p, "fprintf") /\ file' = "written"
     \/ NextCall(p, "fscanf") /\ file' = IF file = "written" THEN "seen" ELSE file
  /\ Go(p)
  /\ UNCHANGED <<version, script, status, parent, holds, pipe, eof>>

Other(p) ==
  /\ NextCall(p, "sleep") \/ NextCall(p, "report")
  /\ Go(p)
  /\ UNCHANGED <<version, script, status, parent, holds, pipe, file, eof>>

process(p) ==
  close(p) \/ write(p) \/ writeNothing(p) \/ writeBroken(p) \/ read(p) \/ readEOF(p)
  \/ fork(p) \/ exec(p) \/ wait(p) \/ exit(p) \/ fopen(p) \/ UseFile(p) \/ Other(p)

\* Whoever is left alone when the file does not open in the other process holds
\* the end it would have to see closed, and waits for ever.
LeftBehind ==
  /\ version \in {"sync", "sync2"}
  /\ \/ status[0] = "ended" /\ file = "old" /\ NextCall(1, "read")
     \/ status[1] = "killed" /\ NextCall(0, "read")

\* The child waits for a byte of the empty argument, and the parent for the child.
NothingSent ==
  /\ version \in {"simple", "co_process"}
  /\ pipe[1] = 0 /\ NextCall(1, "read") /\ (NextCall(0, "wait") \/ NextCall(0, "read"))

AllEnded   == \A p \in Proc : ~Running(p)

Next ==
  \/ \E p \in Proc : process(p)
  \/ (AllEnded \/ LeftBehind \/ NothingSent) /\ UNCHANGED vars

Spec == Init /\ [][Next]_vars
---------------------------------------------------------------------------
\* The parent passes the barrier only when every child has closed its end, the
\* child reads the file only when it is written, and the parent says that it
\* was read only when it was.
TurnsKept ==
  /\ version = "barrier" /\ 0 \in eof =>
       \A c \in Proc \ {0} : <<1, "write">> \notin holds[c] /\ status[c] # "none"
  /\ \A p \in Proc : NextCall(p, "fscanf") => file = "written"
  /\ \A p \in Proc : NextCall(p, "report") => file = "seen"

\* Every process ends, because every end a reader waits for gets closed, and
\* what was written has been read, unless the program that should read it could
\* not be run.  Two mistakes of the programs are exempted, each of which makes
\* two processes wait for ever: a file that does not open, and an empty argument.
NotRun == \/ version = "co_process" /\ script[1] # add2
          \/ version \in {"ls_wc", "dup"} /\ script[2] # wc

PipesDrained ==
  <>(\/ AllEnded /\ (NotRun \/ \A k \in {1, 2} : pipe[k] = 0)
     \/ LeftBehind \/ NothingSent)
=============================================================================
