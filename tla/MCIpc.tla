-------------------------------- MODULE MCIpc --------------------------------
(***************************************************************************)
(* The programs that talk over pipes, fifos, sockets, a shared segment and *)
(* signals, and the parser of the shell, checked side by side: a behaviour *)
(* runs one of the programs named in Programs, the variables of the others *)
(* stay as they are.                                                       *)
(***************************************************************************)
EXTENDS IpcParameters

CONSTANTS Programs, c1, c2

VARIABLES
  program,
  pipe_version, script, at, status, parent, holds, pipe, file, eof,
  seqnum, server_fifo, made, writers, req, seq_num, seq_len, resp, got, seq_pc,
  semid, shmid, count, buf, attached, read_blocks, written, blocks_out, writer, reader,
  socket, server, serving, queue, sent, buffer, out, socket_pc,
  fg_version, tostop, main, handler, child, report, fg_sigchld, fg, fg_pgid, child_dead,
  forked, running, zombies, reaped, reap_sigchld, reaping, counted,
  command, style, cmdline, P, shell

pipe_vars   == <<pipe_version, script, at, status, parent, holds, pipe, file, eof>>
fifo_vars   == <<seqnum, server_fifo, made, writers, req, seq_num, seq_len, resp, got,
                 seq_pc>>
shm_vars    == <<semid, shmid, count, buf, attached, read_blocks, written, blocks_out,
                 writer, reader>>
socket_vars == <<socket, server, serving, queue, sent, buffer, out, socket_pc>>
fg_vars     == <<fg_version, tostop, main, handler, child, report, fg_sigchld, fg,
                 fg_pgid, child_dead>>
reap_vars   == <<forked, running, zombies, reaped, reap_sigchld, reaping, counted>>
parse_vars  == <<command, style, cmdline, P, shell>>
vars == <<program, pipe_vars, fifo_vars, shm_vars, socket_vars, fg_vars, reap_vars,
          parse_vars>>

Pipe   == INSTANCE Pipes WITH version <- pipe_version
Fifo   == INSTANCE SeqnumServer WITH server <- seqnum, pc <- seq_pc
Shm    == INSTANCE SharedSegment WITH out <- blocks_out
Socket == INSTANCE Sockets WITH version <- socket, pc <- socket_pc
Fg     == INSTANCE Foreground WITH version <- fg_version, sigchld <- fg_sigchld
Reap   == INSTANCE Reaper WITH sigchld <- reap_sigchld, handler <- reaping
Line   == INSTANCE Parse WITH pc <- shell

\* A program that does not run keeps one of its initial states.
Init ==
  /\ program \in Programs
  /\ Pipe!Init /\ Fifo!Init /\ Shm!Init /\ Socket!Init /\ Fg!Init /\ Reap!Init
  /\ Line!Init
  /\ program # "pipe" => pipe_version = "barrier"
  /\ program # "fifo" => \A c \in Client : seq_len[c] = 1
  /\ program # "socket" => socket = "stream"
  /\ program # "fg" => fg_version = "foreground" /\ ~tostop

Runs(p) ==
  /\ program = p /\ UNCHANGED program
  /\ p # "pipe"   => UNCHANGED pipe_vars
  /\ p # "fifo"   => UNCHANGED fifo_vars
  /\ p # "shm"    => UNCHANGED shm_vars
  /\ p # "socket" => UNCHANGED socket_vars
  /\ p # "fg"     => UNCHANGED fg_vars
  /\ p # "reap"   => UNCHANGED reap_vars
  /\ p # "parse"  => UNCHANGED parse_vars

Next ==
  \/ Pipe!Next /\ Runs("pipe")
  \/ Fifo!Next /\ Runs("fifo")
  \/ Shm!Next /\ Runs("shm")
  \/ Socket!Next /\ Runs("socket")
  \/ Fg!Next /\ Runs("fg")
  \/ Reap!Next /\ Runs("reap")
  \/ program = "parse" /\ Line!Next /\ Runs("parse")

\* Every process that can run does.  Nobody has to kill a client, to stop or
\* continue a child, or to resume a parent; the child of Foreground dies of
\* itself, and a server that has connections to accept is given the time.
Fairness ==
  /\ \A p \in Pipe!Proc : WF_vars(Pipe!process(p) /\ Runs("pipe"))
  /\ WF_vars(Fifo!fifo_seqnum_server /\ Runs("fifo"))
  /\ \A c \in Client : WF_vars(Fifo!fifo_seqnum_client(c) /\ Runs("fifo"))
  /\ WF_vars(Shm!svshm_xfr_writer /\ Runs("shm"))
  /\ WF_vars(Shm!svshm_xfr_reader /\ Runs("shm"))
  /\ WF_vars(Socket!us_xfr_server /\ Runs("socket"))
  /\ WF_vars(Socket!ud_ucase_server /\ Runs("socket"))
  /\ \A c \in Client : SF_vars(Socket!client(c) /\ Runs("socket"))
  /\ SF_vars(Fg!main_step /\ Runs("fg")) /\ WF_vars(Fg!handler_step /\ Runs("fg"))

Spec     == Init /\ [][Next]_vars
FairSpec == Spec /\ Fairness

\* The lengths in the runs: none, usual ones, and what atoi() makes of the rest.
AskedFor == {-1, 0, 1, 2, INT_MAX}

---------------------------------------------------------------------------
\* The variables of every program keep their types.
IpcTypes ==
  /\ Pipe!TypeOK /\ Fifo!TypeOK /\ Shm!TypeOK /\ Socket!TypeOK /\ Fg!TypeOK
  /\ Reap!TypeOK

\* The properties of the modules, under the names a configuration can use.
TurnsKept      == Pipe!TurnsKept
RangesDisjoint == Fifo!RangesDisjoint
SegmentIsFifo  == Shm!SegmentIsFifo
StreamWhole    == Socket!StreamWhole

ArgvTerminated  == Line!ArgvTerminated

\* The two programs that wait for children in a SIGCHLD handler: no child is
\* missed, and the terminal does not stay with one that is gone.
SignalsKept == Fg!TerminalKept /\ Reap!NoZombie

\* Each program gets its work done and ends, or waits for more of it.  Three ways to
\* wait for ever are mistakes of the programs, exempted by name where they are
\* defined: Pipe!LeftBehind (a file does not open), Pipe!NothingSent (an empty
\* argument is written) and Fg!LostWakeup (SIGCHLD comes before pause()).
AllServed ==
  /\ (program = "pipe")   => Pipe!PipesDrained
  /\ (program = "fifo")   => Fifo!Answered
  /\ (program = "shm")    => Shm!SegmentCleared
  /\ (program = "socket") => Socket!Served
  /\ (program = "fg")     => Fg!ParentEnds
=============================================================================
