---------------------------- MODULE SharedSegment ----------------------------
(***************************************************************************)
(* svshm_xfr_writer.c and svshm_xfr_reader.c: blocks of a file go through  *)
(* one shared memory segment, and two semaphores pass the turn back and    *)
(* forth.  A block of size zero marks the end.                             *)
(***************************************************************************)
EXTENDS IpcParameters, Sequences

VARIABLES
  semid,         \* the two semaphores once they exist, in the order of creation
  shmid,         \* the segment: "none", "made", "removed"
  count, buf,    \* its contents: 0 means the end of the file
  attached,      \* processes that have the segment attached
  read_blocks,   \* blocks the writer has read and put there
  written,       \* the last block the reader wrote out
  out,           \* how many it wrote out
  writer, reader

vars == <<semid, shmid, count, buf, attached, read_blocks, written, out, writer, reader>>

WRITE_SEM == "write"
READ_SEM  == "read"

TypeOK ==
  /\ semid \in [{WRITE_SEM, READ_SEM} -> {0, 1}] \cup {<<>>}
  /\ shmid \in {"none", "made", "removed"}
  /\ count \in {0, 1} /\ buf \in 0 .. num_lines
  /\ attached \subseteq {"writer", "reader"}
  /\ read_blocks \in 0 .. num_lines /\ written \in 0 .. num_lines /\ out \in 0 .. num_lines
  /\ writer \in {"semget", "available", "inuse", "shmget", "reserve", "read", "release",
                 "eof", "last", "remove", "end"}
  /\ reader \in {"start", "reserve", "test", "write", "release", "detach", "last", "end"}

Init ==
  /\ semid = <<>> /\ shmid = "none" /\ count = 0 /\ buf = 0 /\ attached = {}
  /\ read_blocks = 0 /\ written = 0 /\ out = 0
  /\ writer = "semget" /\ reader = "start"
---------------------------------------------------------------------------
reserveSem(s) == semid[s] > 0 /\ semid' = [semid EXCEPT ![s] = @ - 1]
releaseSem(s) == semid' = [semid EXCEPT ![s] = @ + 1]
setval(s, n)  == semid' = [semid EXCEPT ![s] = n]
initSemAvailable(s) == setval(s, 1)
initSemInUse_free(s) == setval(s, 1)     \* mutant
initSemInUse(s)     == setval(s, 0)

Writer(from, to) == writer = from /\ writer' = to /\ UNCHANGED <<reader, written, out>>
segment == <<shmid, count, buf, attached>>

semget ==
  /\ Writer("semget", "available")
  /\ semid' = [s \in {WRITE_SEM, READ_SEM} |-> 0]
  /\ UNCHANGED <<segment, read_blocks>>

InitWriteSem == Writer("available", "inuse") /\ initSemAvailable(WRITE_SEM)
                /\ UNCHANGED <<segment, read_blocks>>
InitReadSem  == Writer("inuse", "shmget") /\ initSemInUse(READ_SEM)
                /\ UNCHANGED <<segment, read_blocks>>

shmget ==
  /\ Writer("shmget", "reserve")
  /\ shmid' = "made" /\ attached' = attached \cup {"writer"}
  /\ UNCHANGED <<semid, count, buf, read_blocks>>

ReserveWrite == Writer("reserve", "read") /\ reserveSem(WRITE_SEM)
                /\ UNCHANGED <<segment, read_blocks>>

\* read() puts the next block into the segment, or finds the end of the file.
ReadBlock ==
  /\ Writer("read", "release")
  /\ IF read_blocks < num_lines
       THEN count' = 1 /\ buf' = read_blocks + 1 /\ read_blocks' = read_blocks + 1
       ELSE count' = 0 /\ UNCHANGED <<buf, read_blocks>>
  /\ UNCHANGED <<semid, shmid, attached>>

ReleaseRead_both ==      \* mutant: the writer gives itself the turn as well
  /\ Writer("release", "eof")
  /\ semid' = [s \in {WRITE_SEM, READ_SEM} |-> 1]
  /\ UNCHANGED <<segment, read_blocks>>

ReleaseRead == Writer("release", "eof") /\ releaseSem(READ_SEM)
               /\ UNCHANGED <<segment, read_blocks>>

\* count is read after the turn was given away.
TestCount ==
  /\ Writer("eof", IF count = 0 THEN "last" ELSE "reserve")
  /\ UNCHANGED <<semid, segment, read_blocks>>

ReserveLast == Writer("last", "remove") /\ reserveSem(WRITE_SEM)
               /\ UNCHANGED <<segment, read_blocks>>

Remove ==
  /\ Writer("remove", "end")
  /\ semid' = <<>> /\ shmid' = "removed" /\ attached' = attached \ {"writer"}
  /\ UNCHANGED <<count, buf, read_blocks>>

svshm_xfr_writer ==
  semget \/ InitWriteSem \/ InitReadSem \/ shmget \/ ReserveWrite \/ ReadBlock
  \/ ReleaseRead \/ TestCount \/ ReserveLast \/ Remove
---------------------------------------------------------------------------
Reader(from, to) == reader = from /\ reader' = to /\ UNCHANGED <<writer, read_blocks>>

\* A reader that finds no semaphores or no segment ends, and is started again.
Attach ==
  /\ semid # <<>> /\ shmid = "made"
  /\ Reader("start", "reserve")
  /\ attached' = attached \cup {"reader"}
  /\ UNCHANGED <<semid, shmid, count, buf, written, out>>

ReserveRead == Reader("reserve", "test") /\ reserveSem(READ_SEM)
               /\ UNCHANGED <<segment, written, out>>

TestEOF == Reader("test", IF count = 0 THEN "detach" ELSE "write")
           /\ UNCHANGED <<semid, segment, written, out>>

WriteBlock ==
  /\ Reader("write", "release")
  /\ written' = buf /\ out' = out + 1
  /\ UNCHANGED <<semid, segment>>

ReleaseWrite == Reader("release", "reserve") /\ releaseSem(WRITE_SEM)
                /\ UNCHANGED <<segment, written, out>>

Detach ==
  /\ Reader("detach", "last") /\ attached' = attached \ {"reader"}
  /\ UNCHANGED <<semid, shmid, count, buf, written, out>>

ReleaseLast == Reader("last", "end") /\ releaseSem(WRITE_SEM)
               /\ UNCHANGED <<segment, written, out>>

svshm_xfr_reader ==
  Attach \/ ReserveRead \/ TestEOF \/ WriteBlock \/ ReleaseWrite \/ Detach \/ ReleaseLast

Ended == writer = "end" /\ reader = "end"

Next == svshm_xfr_writer \/ svshm_xfr_reader \/ (Ended /\ UNCHANGED vars)

Spec == Init /\ [][Next]_vars
---------------------------------------------------------------------------
\* The segment is a queue with room for one block: a block is in it from the
\* writer's read() to the reader's write(), and no block is lost or seen twice.
Fifo == INSTANCE BoundedFifo WITH
          Size <- 1, Items <- num_lines, sent <- read_blocks, received <- written,
          inside <- [k \in 1 .. read_blocks - out |-> out + k]

SegmentIsFifo == Fifo!Spec

\* Both end, and the writer removes the segment only when the reader has let go.
SegmentCleared ==
  /\ <>Ended
  /\ [](shmid = "removed" => attached = {})
=============================================================================
