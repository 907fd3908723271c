---------------------------- MODULE MCIpc_proofs ----------------------------
(***************************************************************************)
(* The programs that talk to each other, for every number of clients,      *)
(* children and blocks.                                                    *)
(***************************************************************************)
EXTENDS MCIpc, SequenceTheorems, FiniteSetTheorems, TLAPS

---------------------------------------------------------------------------
(* The shared segment *)

Begun   == writer \notin {"semget", "available", "inuse", "shmget"}
Written == semid["write"]
Read    == semid["read"]

\* Before the segment exists there is no reader and nothing has been read.
BeforeSegment ==
  /\ semid = IF writer = "semget" THEN <<>>
             ELSE [s \in {"write", "read"} |->
                     IF s = "write" /\ writer # "available" THEN 1 ELSE 0]
  /\ shmid = "none" /\ count = 0 /\ reader = "start" /\ read_blocks = 0

\* The turn is in one place: in one of the semaphores, with the writer or with
\* the reader.
WriterHas == writer \in {"read", "release", "remove"}
ReaderHas == reader \in {"test", "write", "release", "detach", "last"}
OneTurn ==
  /\ semid \in [{"write", "read"} -> {0, 1}]
  /\ shmid = "made"
  /\ \/ Written = 1 /\ Read = 0 /\ ~WriterHas /\ ~ReaderHas
     \/ Written = 0 /\ Read = 1 /\ ~WriterHas /\ ~ReaderHas
     \/ Written = 0 /\ Read = 0 /\ WriterHas /\ ~ReaderHas
     \/ Written = 0 /\ Read = 0 /\ ~WriterHas /\ ReaderHas

\* A block is in the segment from the writer's read() to the reader's write(),
\* or the end of the file has been reached and is what the segment says.
BlockThere == IF count = 0 THEN read_blocks = blocks_out
              ELSE read_blocks = blocks_out + 1 /\ buf = read_blocks
WhatIsThere ==
  /\ writer = "release" \/ Read = 1 \/ reader = "test" => BlockThere
  /\ reader = "write" => count = 1 /\ BlockThere
  /\ writer \in {"read", "remove"} \/ Written = 1 \/ reader \in {"release", "detach", "last"}
       => read_blocks = blocks_out

\* Who has seen the end of the file does not go back, and the writer gets its
\* last turn from a reader that has ended.
EndOfFile ==
  /\ writer = "reserve" /\ count = 0 => Written = 1
  /\ writer = "last" => count = 0
  /\ reader \in {"detach", "last", "end"} => count = 0 /\ writer \in {"eof", "last", "remove"}
  /\ reader = "release" => count = 1
  /\ count = 0 /\ Written = 1 /\ writer \in {"eof", "last"} => reader = "end"
  /\ writer = "remove" => reader = "end"

SegmentInv ==
  /\ writer \in {"semget", "available", "inuse", "shmget", "reserve", "read", "release",
                 "eof", "last", "remove", "end"}
  /\ reader \in {"start", "reserve", "test", "write", "release", "detach", "last", "end"}
  /\ count \in {0, 1} /\ buf \in 0 .. num_lines
  /\ read_blocks \in 0 .. num_lines /\ blocks_out \in 0 .. num_lines
  /\ written = blocks_out
  /\ blocks_out <= read_blocks /\ read_blocks <= blocks_out + 1
  /\ ~Begun => BeforeSegment
  /\ Begun /\ writer # "end" => OneTurn /\ WhatIsThere /\ EndOfFile
  /\ writer = "end" => reader = "end" /\ semid = <<>>

LEMMA SegmentInit == Init => SegmentInv
  BY PipesAssumption DEF Init, Shm!Init, SegmentInv, Begun, BeforeSegment

LEMMA SegmentStep == SegmentInv /\ [Shm!Next]_shm_vars => SegmentInv'
  <1> SUFFICES ASSUME SegmentInv, [Shm!Next]_shm_vars PROVE SegmentInv'
    OBVIOUS
  <1> USE PipesAssumption DEF SegmentInv, Begun, Written, Read, BeforeSegment, OneTurn,
          WriterHas, ReaderHas, BlockThere, WhatIsThere, EndOfFile, Shm!Writer, Shm!Reader, Shm!segment,
          Shm!WRITE_SEM, Shm!READ_SEM, Shm!reserveSem, Shm!releaseSem, Shm!setval
  <1>1. CASE UNCHANGED shm_vars
    BY <1>1 DEF shm_vars
  <1>2. CASE Shm!semget
    BY <1>2 DEF Shm!semget
  <1>3. CASE Shm!InitWriteSem
    BY <1>3 DEF Shm!InitWriteSem, Shm!initSemAvailable
  <1>4. CASE Shm!InitReadSem
    BY <1>4 DEF Shm!InitReadSem, Shm!initSemInUse
  <1>5. CASE Shm!shmget
    BY <1>5 DEF Shm!shmget
  <1>6. CASE Shm!ReserveWrite
    BY <1>6 DEF Shm!ReserveWrite
  <1>7. CASE Shm!ReadBlock
    BY <1>7 DEF Shm!ReadBlock
  <1>8. CASE Shm!ReleaseRead
    BY <1>8 DEF Shm!ReleaseRead
  <1>9. CASE Shm!TestCount
    BY <1>9 DEF Shm!TestCount
  <1>10. CASE Shm!ReserveLast
    BY <1>10 DEF Shm!ReserveLast
  <1>11. CASE Shm!Remove
    BY <1>11 DEF Shm!Remove
  <1>12. CASE Shm!Attach
    BY <1>12 DEF Shm!Attach
  <1>13. CASE Shm!ReserveRead
    BY <1>13 DEF Shm!ReserveRead
  <1>14. CASE Shm!TestEOF
    <2>1. CASE count = 0
      BY <1>14, <2>1 DEF Shm!TestEOF
    <2>2. CASE count = 1
      BY <1>14, <2>2 DEF Shm!TestEOF
    <2> QED BY <2>1, <2>2
  <1>15. CASE Shm!WriteBlock
    BY <1>15 DEF Shm!WriteBlock
  <1>16. CASE Shm!ReleaseWrite
    BY <1>16 DEF Shm!ReleaseWrite
  <1>17. CASE Shm!Detach
    BY <1>17 DEF Shm!Detach
  <1>18. CASE Shm!ReleaseLast
    BY <1>18 DEF Shm!ReleaseLast
  <1>19. CASE Shm!Ended /\ UNCHANGED Shm!vars
    BY <1>19 DEF Shm!vars
  <1> QED
    BY <1>1, <1>2, <1>3, <1>4, <1>5, <1>6, <1>7, <1>8, <1>9, <1>10, <1>11, <1>12, <1>13,
       <1>14, <1>15, <1>16, <1>17, <1>18, <1>19
    DEF Shm!Next, Shm!svshm_xfr_writer, Shm!svshm_xfr_reader

\* A step of the two is a step of a queue with room for one block.
LEMMA SegmentFifoStep == SegmentInv /\ [Shm!Next]_shm_vars => [Shm!Fifo!Next]_(Shm!Fifo!vars)
  <1> SUFFICES ASSUME SegmentInv, [Shm!Next]_shm_vars PROVE [Shm!Fifo!Next]_(Shm!Fifo!vars)
    OBVIOUS
  <1> DEFINE inside == [k \in 1 .. read_blocks - blocks_out |-> blocks_out + k]
  <1> USE PipesAssumption DEF SegmentInv, Begun, BeforeSegment, Written, Read, OneTurn,
          WriterHas, ReaderHas, BlockThere, WhatIsThere, Shm!Writer, Shm!Reader, Shm!segment
  <1>1. CASE Shm!ReadBlock /\ read_blocks < num_lines
    <2>1. read_blocks = blocks_out /\ read_blocks' = blocks_out + 1
          /\ UNCHANGED <<blocks_out, written>>
      BY <1>1 DEF Shm!ReadBlock
    <2>2. inside = <<>> /\ inside' = <<blocks_out + 1>>
      BY <2>1
    <2> QED
      BY <1>1, <2>1, <2>2 DEF Shm!Fifo!Next, Shm!Fifo!Put
  <1>2. CASE Shm!WriteBlock
    <2>1. read_blocks = blocks_out + 1 /\ buf = read_blocks /\ blocks_out' = read_blocks
          /\ written' = read_blocks /\ UNCHANGED read_blocks
      BY <1>2 DEF Shm!WriteBlock
    <2>2. inside' = <<>> /\ inside = <<blocks_out + 1>>
      BY <2>1
    <2> QED
      BY <1>2, <2>1, <2>2 DEF Shm!Fifo!Next, Shm!Fifo!Get
  <1>3. CASE UNCHANGED <<read_blocks, blocks_out, written>>
    BY <1>3 DEF Shm!Fifo!vars
  <1> QED
    BY <1>1, <1>2, <1>3
    DEF Shm!Next, Shm!svshm_xfr_writer, Shm!svshm_xfr_reader, shm_vars, Shm!vars,
        Shm!semget, Shm!InitWriteSem, Shm!InitReadSem, Shm!shmget, Shm!ReserveWrite, Shm!ReadBlock,
        Shm!ReleaseRead, Shm!TestCount, Shm!ReserveLast, Shm!Remove, Shm!Attach,
        Shm!ReserveRead, Shm!TestEOF, Shm!ReleaseWrite, Shm!Detach, Shm!ReleaseLast

LEMMA ShmAlone == [Next]_vars => [Shm!Next]_shm_vars
  BY DEF Next, Runs, vars

LEMMA SegmentInvariance == Spec => []SegmentInv
  BY SegmentInit, SegmentStep, ShmAlone, PTL DEF Spec

\* The two semaphores make the segment a queue with room for one block: none
\* is lost, overwritten or written out twice.
THEOREM SegmentRefinement == Spec => SegmentIsFifo
  <1>1. Init => Shm!Fifo!Init
    BY DEF Init, Shm!Init, Shm!Fifo!Init
  <1> QED
    BY <1>1, SegmentInvariance, SegmentFifoStep, ShmAlone, PTL
    DEF Spec, SegmentIsFifo, Shm!SegmentIsFifo, Shm!Fifo!Spec

---------------------------------------------------------------------------
(* The parents that wait in a SIGCHLD handler *)

\* What waitpid would report agrees with the child, and a group without a
\* member has the terminal only while the handler that waited for it has not
\* yet taken it to print: where it hands it back, tcsetpgrp fails.
ForegroundInv ==
  /\ fg \in {"parent", "child"} /\ fg_pgid \in {"parent", "child"}
  /\ child = "dead" => report = "dead"
  /\ child \in {"none", "reaped"} => report = "none"
  /\ report = "dead" => child = "dead"
  /\ handler = "print" => fg = "parent"
  /\ child = "reaped" /\ handler \in {"none", "wait", "print", "dead"} => fg = "parent"
  /\ main = "fork" <=> child = "none"
  /\ main = "end" => handler = "none" /\ fg = "parent"

LEMMA ForegroundStep == ForegroundInv /\ [Fg!Next]_fg_vars => ForegroundInv'
  <1> SUFFICES ASSUME ForegroundInv, [Fg!Next]_fg_vars PROVE ForegroundInv'
    OBVIOUS
  <1> USE DEF ForegroundInv, Fg!Main, Fg!Handler, Fg!kernel, Fg!set_fg_pgid
  <1>1. CASE UNCHANGED fg_vars
    BY <1>1 DEF fg_vars
  <1>2. CASE Fg!main_step \/ Fg!Resume
    BY <1>2 DEF Fg!main_step, Fg!Fork, Fg!GiveTerminal, Fg!HiMom, Fg!Resume,
                Fg!TtouTest, Fg!TtouPause, Fg!TestDead, Fg!Pause, Fg!TakeTerminal
  <1>3. CASE Fg!EnterHandler \/ Fg!WaitPid \/ Fg!SaveFg \/ Fg!OwnFg
    BY <1>3 DEF Fg!EnterHandler, Fg!WaitPid, Fg!SaveFg, Fg!OwnFg
  <1>4. CASE Fg!RestoreFg
    BY <1>4 DEF Fg!RestoreFg
  <1>5. CASE Fg!ChildDead
    BY <1>5 DEF Fg!ChildDead
  <1>6. CASE Fg!LeaveHandler
    BY <1>6 DEF Fg!LeaveHandler
  <1>7. CASE Fg!Stop \/ Fg!Continue \/ Fg!Die
    BY <1>7 DEF Fg!Stop, Fg!Continue, Fg!Die, Fg!Change
  <1>8. CASE (main = "end" \/ Fg!LostWakeup) /\ UNCHANGED Fg!vars
    BY <1>8 DEF Fg!vars
  <1> QED
    BY <1>1, <1>2, <1>3, <1>4, <1>5, <1>6, <1>7, <1>8 DEF Fg!Next, Fg!handler_step

\* waitpid() is called until it finds nothing, so the signal of a child that
\* ends while the handler runs is either still pending or not needed.
ReaperInv == reaping \in BOOLEAN /\ reap_sigchld \in BOOLEAN /\ Reap!NoZombie

LEMMA ReaperStep == ReaperInv /\ [Reap!Next]_reap_vars => ReaperInv'
  <1> SUFFICES ASSUME ReaperInv, [Reap!Next]_reap_vars PROVE ReaperInv'
    OBVIOUS
  <1> USE DEF ReaperInv, Reap!NoZombie
  <1>1. CASE Reap!Fork
    BY <1>1, Zenon DEF Reap!Fork
  <1>2. CASE Reap!CountUp
    BY <1>2, Zenon DEF Reap!CountUp
  <1>3. CASE Reap!EnterHandler
    BY <1>3, Zenon DEF Reap!EnterHandler
  <1>4. CASE Reap!WaitPid
    BY <1>4, Zenon DEF Reap!WaitPid
  <1>5. CASE Reap!LeaveHandler
    BY <1>5, Zenon DEF Reap!LeaveHandler
  <1>6. ASSUME NEW c \in Reap!Child, Reap!Exit(c) PROVE ReaperInv'
    BY <1>6, Zenon DEF Reap!Exit
  <1>7. CASE UNCHANGED reap_vars \/ UNCHANGED Reap!vars
    BY <1>7 DEF reap_vars, Reap!vars
  <1> QED
    BY <1>1, <1>2, <1>3, <1>4, <1>5, <1>6, <1>7 DEF Reap!Next, Reap!parent

\* The handler prints in the foreground, a group that is gone does not keep the
\* terminal, the parent ends with it, and no child that has ended is forgotten.
THEOREM SignalsAnswered == Spec => []SignalsKept
  <1>1. Init => ForegroundInv /\ ReaperInv
    BY DEF Init, Fg!Init, Reap!Init, ForegroundInv, ReaperInv, Reap!NoZombie
  <1>2. [Next]_vars => [Fg!Next]_fg_vars
    BY DEF Next, Runs, vars
  <1>3. [Next]_vars => [Reap!Next]_reap_vars
    BY DEF Next, Runs, vars
  <1>4. ForegroundInv /\ ReaperInv => SignalsKept
    BY DEF ForegroundInv, ReaperInv, SignalsKept, Fg!TerminalKept
  <1> QED
    BY <1>1, <1>2, <1>3, <1>4, ForegroundStep, ReaperStep, PTL DEF Spec

---------------------------------------------------------------------------
(* The server that hands out numbers *)

FifoTypes ==
  /\ server_fifo \in Seq(Client)
  /\ seqnum \in {"mkfifo", "open", "dummy", "read", "open_client", "write", "update"}
  /\ seqnum \in {"open_client", "write", "update"} => req \in Client
  /\ seq_num \in Fifo!numbers /\ seq_len \in [Client -> Lengths]
  /\ resp \in [Client -> SUBSET Fifo!numbers] /\ got \in [Client -> SUBSET Fifo!numbers]
  /\ seq_pc \in [Client -> {"mkfifo", "connect", "send", "open", "read", "exit", "failed",
                            "killed"}]
  /\ made \subseteq Client \cup {"server"} /\ writers \subseteq Client \cup {"server"}
  /\ req \in Client \cup {Fifo!None}

\* The server holds its own fifo open for writing before it reads it.
FifoOpen == seqnum \in {"read", "open_client", "write", "update"} => "server" \in writers

\* A client has received what its fifo held.
Received == \A c \in Client : got[c] # {} => seq_pc[c] = "exit" /\ got[c] = resp[c]

\* Every request that waits or is being answered was sent by a client of its
\* own, and what was answered before took no more than a share for each.
Share   == INT_MAX \div Cardinality(Client)
HasSent == {c \in Client : seq_pc[c] \in {"open", "read", "exit", "killed"}}
InHand  == IF seqnum \in {"open_client", "write", "update"} THEN 1 ELSE 0
NumbersTaken ==
  Fifo!Modest => /\ 0 <= seq_num
                 /\ seq_num + Share * (Len(server_fifo) + InHand) <= Share * Cardinality(HasSent)

\* An answer lies below the server's number, but for the one it has just
\* written and not yet counted; and no two answers overlap.
Asked(c) == IF seqnum = "update" /\ c = req THEN seq_len[c] ELSE 0
Below ==
  Fifo!Modest => \A c \in Client : \A n \in resp[c] :
    0 <= n /\ n + seq_len[c] <= seq_num + Asked(c)
Apart ==
  Fifo!Modest => \A c, d \in Client : \A n \in resp[c], m \in resp[d] :
    c # d => n + seq_len[c] <= m \/ m + seq_len[d] <= n

FifoInv == FifoTypes /\ FifoOpen /\ Received /\ NumbersTaken /\ Below /\ Apart

LEMMA IntsWrap ==
  /\ \A n \in Fifo!numbers : n \in Int /\ Fifo!wrap(n) = n
  /\ \A n, m \in Fifo!numbers : Fifo!wrap(n + m) \in Fifo!numbers
  /\ 0 \in Fifo!numbers /\ Lengths \subseteq Fifo!numbers
  BY NumberAssumption DEF Fifo!numbers, Fifo!wrap

\* What a modest client asks for, and what is left for the others.
LEMMA Shares ==
  /\ Share \in Nat
  /\ \A a, b \in Nat : a <= b => Share * a <= Share * b
  /\ \A a \in Nat : Share * a \in Nat /\ Share * (a + 1) = Share * a + Share
  /\ Share * Cardinality(Client) <= INT_MAX
  <1> DEFINE n == Cardinality(Client)
             s == INT_MAX \div n
  <1>1. n \in Nat \ {0} /\ INT_MAX \in Nat
    BY ClientAssumption, NumberAssumption, FS_CardinalityType, FS_EmptySet
  <1> HIDE DEF n
  <1>2. s \in Nat /\ n * s <= INT_MAX
    BY <1>1
  <1>3. n * s = s * n
    BY <1>1, <1>2
  <1>4. \A a, b \in Nat : a <= b => s * a <= s * b
    BY <1>2
  <1>5. \A a \in Nat : s * a \in Nat /\ s * (a + 1) = s * a + s
    BY <1>2
  <1> QED BY <1>2, <1>3, <1>4, <1>5 DEF n, Share

LEMMA ModestLengths ==
  ASSUME FifoTypes, Fifo!Modest
  PROVE  \A c \in Client : seq_len[c] \in Nat /\ seq_len[c] <= Share
  <1>1. Fifo!Cardinality(Client) = Cardinality(Client)
    BY DEF Fifo!Cardinality, Cardinality, Fifo!IsFiniteSet, IsFiniteSet
  <1> QED BY <1>1, Shares DEF Fifo!Modest, Share

LEMMA SentFinite ==
  /\ IsFiniteSet(HasSent) /\ Cardinality(HasSent) \in Nat
  /\ Cardinality(HasSent) <= Cardinality(Client) /\ Cardinality(Client) \in Nat
  /\ \A c \in Client \ HasSent : Cardinality(HasSent \cup {c}) = Cardinality(HasSent) + 1
  BY ClientAssumption, FS_Subset, FS_CardinalityType, FS_AddElement DEF HasSent

LEMMA FifoInit == Init => FifoInv
  <1> SUFFICES ASSUME Init PROVE FifoInv
    OBVIOUS
  <1>1. /\ made = {} /\ writers = {} /\ req = Fifo!None /\ seq_num = 0 /\ server_fifo = <<>>
        /\ seqnum = "mkfifo" /\ seq_len \in [Client -> Lengths]
        /\ resp = [c \in Client |-> {}] /\ got = [c \in Client |-> {}]
        /\ seq_pc = [c \in Client |-> "mkfifo"]
    BY DEF Init, Fifo!Init
  <1>2. FifoTypes
    BY <1>1, IntsWrap DEF FifoTypes
  <1>3. NumbersTaken
    BY <1>1, SentFinite, Shares DEF NumbersTaken, InHand
  <1>4. FifoOpen /\ Received /\ Below /\ Apart
    BY <1>1 DEF FifoOpen, Received, Below, Apart
  <1> QED BY <1>2, <1>3, <1>4 DEF FifoInv

LEMMA FifoTypesStep == FifoTypes /\ [Fifo!Next]_fifo_vars => FifoTypes' /\ seq_len' = seq_len
  <1> SUFFICES ASSUME FifoTypes, [Fifo!Next]_fifo_vars PROVE FifoTypes' /\ seq_len' = seq_len
    OBVIOUS
  <1> USE DEF FifoTypes, Fifo!Server, Fifo!client_state, Fifo!server_state, Fifo!Goto
  <1>1. CASE UNCHANGED fifo_vars \/ UNCHANGED Fifo!vars
    BY <1>1 DEF fifo_vars, Fifo!vars
  <1>2. CASE Fifo!mkfifoServer \/ Fifo!openRead \/ Fifo!openDummy \/ Fifo!openClient
    BY <1>2 DEF Fifo!mkfifoServer, Fifo!openRead, Fifo!openDummy, Fifo!openClient
  <1>3. CASE Fifo!readRequest
    <2>1. CASE server_fifo # <<>>
      <3>1. req' = Head(server_fifo) /\ server_fifo' = Tail(server_fifo)
        BY <1>3, <2>1 DEF Fifo!readRequest
      <3>2. req' \in Client /\ server_fifo' \in Seq(Client)
        BY <2>1, <3>1
      <3> QED BY <1>3, <3>2 DEF Fifo!readRequest
    <2>2. CASE server_fifo = <<>>
      BY <1>3, <2>2 DEF Fifo!readRequest
    <2> QED BY <2>1, <2>2
  <1>4. CASE Fifo!writeResponse
    <2>1. resp' = resp \/ (req \in Client /\ resp' = [resp EXCEPT ![req] = {seq_num}])
      BY <1>4 DEF Fifo!writeResponse
    <2>2. resp' \in [Client -> SUBSET Fifo!numbers]
      BY <2>1
    <2> QED BY <1>4, <2>2 DEF Fifo!writeResponse
  <1>5. CASE Fifo!update
    <2>1. seq_len[req] \in Fifo!numbers
      BY <1>5, IntsWrap DEF Fifo!update
    <2>2. seq_num' \in Fifo!numbers
      BY <1>5, <2>1, IntsWrap DEF Fifo!update
    <2> QED BY <1>5, <2>2 DEF Fifo!update
  <1>6. ASSUME NEW c \in Client, Fifo!fifo_seqnum_client(c) \/ Fifo!Kill(c)
        PROVE  FifoTypes' /\ seq_len' = seq_len
    <2>1. CASE Fifo!mkfifoClient(c) \/ Fifo!connect(c) \/ Fifo!open(c) \/ Fifo!Kill(c)
      BY <2>1 DEF Fifo!mkfifoClient, Fifo!connect, Fifo!open, Fifo!Kill
    <2>2. CASE Fifo!send(c)
      BY <2>2 DEF Fifo!send
    <2>3. CASE Fifo!readResponse(c)
      BY <2>3 DEF Fifo!readResponse
    <2> QED BY <1>6, <2>1, <2>2, <2>3 DEF Fifo!fifo_seqnum_client
  <1> QED
    BY <1>1, <1>2, <1>3, <1>4, <1>5, <1>6 DEF Fifo!Next, Fifo!fifo_seqnum_server

\* Nothing overflows: there is room for the request that is being answered.
LEMMA RoomForOne ==
  ASSUME FifoTypes, NumbersTaken, Fifo!Modest, InHand = 1
  PROVE  /\ seq_num \in Nat /\ seq_num + Share <= INT_MAX
         /\ seq_num + Share + Share * Len(server_fifo) <= Share * Cardinality(HasSent)
  <1> DEFINE k == Len(server_fifo)
             m == Cardinality(HasSent)
             n == Cardinality(Client)
  <1>1. k \in Nat /\ m \in Nat /\ n \in Nat /\ m <= n /\ seq_num \in Int /\ INT_MAX \in Nat
    BY SentFinite, IntsWrap, NumberAssumption DEF FifoTypes
  <1>2. 0 <= seq_num /\ seq_num + Share * (k + 1) <= Share * m
    BY DEF NumbersTaken
  <1>3. /\ Share \in Nat /\ Share * k \in Nat /\ Share * (k + 1) = Share * k + Share
        /\ Share * m <= Share * n /\ Share * n <= INT_MAX
        /\ Share * m \in Nat /\ Share * n \in Nat
    <2> HIDE DEF k, m
    <2> QED BY <1>1, Shares
  <1> DEFINE x == Share * k
             y == Share * m
             z == Share * n
  <1>4. /\ x \in Nat /\ y \in Nat /\ z \in Nat /\ Share \in Nat
        /\ y <= z /\ z <= INT_MAX /\ seq_num + (x + Share) <= y
    BY <1>2, <1>3
  <1> HIDE DEF x, y, z
  <1>5. seq_num \in Nat /\ seq_num + Share <= INT_MAX /\ seq_num + Share + x <= y
    BY <1>1, <1>2, <1>4
  <1> QED BY <1>5 DEF x, y

\* What the others have taken bounds what is left, whoever joins.
LEMMA TakenStep ==
  ASSUME FifoTypes, FifoTypes', NumbersTaken, [Fifo!Next]_fifo_vars
  PROVE  NumbersTaken'
  <1> SUFFICES ASSUME Fifo!Modest
               PROVE  0 <= seq_num' /\ seq_num' + Share * (Len(server_fifo') + InHand')
                                       <= Share * Cardinality(HasSent')
    BY FifoTypesStep DEF NumbersTaken, Fifo!Modest
  <1> DEFINE k == Len(server_fifo) + InHand
             j == Len(server_fifo') + InHand'
             m == Cardinality(HasSent)
             l == Cardinality(HasSent')
  <1>1. /\ k \in Nat /\ j \in Nat /\ m \in Nat /\ l \in Nat
        /\ seq_num \in Int /\ seq_num' \in Int
    <2>1. IsFiniteSet(HasSent') /\ l \in Nat
      BY ClientAssumption, FS_Subset, FS_CardinalityType DEF HasSent
    <2>2. Len(server_fifo) \in Nat /\ Len(server_fifo') \in Nat
      BY DEF FifoTypes
    <2> QED BY <2>1, <2>2, SentFinite, IntsWrap DEF FifoTypes, InHand
  <1>2. 0 <= seq_num /\ seq_num + Share * k <= Share * m
    BY DEF NumbersTaken
  \* Nothing is handed out, and no more waits than have sent.
  <1>3. ASSUME seq_num' = seq_num, NEW a \in {0, 1}, j <= k + a, m + a <= l
        PROVE  0 <= seq_num' /\ seq_num' + Share * j <= Share * l
    <2> HIDE DEF k, j, m, l
    <2> DEFINE x == Share * k
               y == Share * m
               u == Share * j
               v == Share * l
    <2>1. /\ x \in Nat /\ y \in Nat /\ u \in Nat /\ v \in Nat /\ Share \in Nat
          /\ a = 0 => u <= x /\ y <= v
          /\ a = 1 => u <= x + Share /\ y + Share <= v
      <3>1. CASE a = 0
        BY <1>1, <1>3, <3>1, Shares
      <3>2. CASE a = 1
        <4>1. Share * j <= Share * (k + 1) /\ Share * (m + 1) <= Share * l
          BY <1>1, <1>3, <3>2, Shares
        <4>2. Share * (k + 1) = x + Share /\ Share * (m + 1) = y + Share
          BY <1>1, Shares
        <4> QED BY <1>1, <3>2, <4>1, <4>2, Shares
      <3> QED BY <3>1, <3>2
    <2>2. 0 <= seq_num /\ seq_num + x <= y
      BY <1>2
    <2> HIDE DEF x, y, u, v
    <2>3. 0 <= seq_num' /\ seq_num' + u <= v
      BY <1>1, <1>3, <2>1, <2>2
    <2> QED BY <2>3 DEF u, v
  <1> USE DEF Fifo!Server, Fifo!client_state, Fifo!server_state, Fifo!Goto
  <1>s. UNCHANGED seq_pc => l = m
    BY DEF HasSent
  <1>4. CASE UNCHANGED fifo_vars \/ UNCHANGED Fifo!vars
    <2>1. seq_num' = seq_num /\ j = k /\ l = m
      BY <1>4, <1>s DEF fifo_vars, Fifo!vars, InHand
    <2>2. j <= k + 0 /\ m + 0 <= l
      BY <1>1, <2>1
    <2> QED BY <1>3, <2>1, <2>2
  <1>5. CASE Fifo!fifo_seqnum_server /\ ~Fifo!update
    <2>1. seq_num' = seq_num /\ UNCHANGED seq_pc
      BY <1>5 DEF Fifo!fifo_seqnum_server, Fifo!mkfifoServer, Fifo!openRead, Fifo!openDummy,
         Fifo!readRequest, Fifo!openClient, Fifo!writeResponse
    <2>2. CASE Fifo!readRequest /\ server_fifo # <<>>
      <3>1. /\ server_fifo' = Tail(server_fifo) /\ server_fifo \in Seq(Client)
            /\ InHand = 0 /\ InHand' = 1
        BY <2>2 DEF Fifo!readRequest, FifoTypes, InHand
      <3>2. Len(server_fifo') = Len(server_fifo) - 1 /\ Len(server_fifo) \in Nat
        BY <2>2, <3>1
      <3>3. j <= k
        <4>1. j = Len(server_fifo') + 1 /\ k = Len(server_fifo) + 0
          BY <3>1
        <4> HIDE DEF j, k
        <4> QED BY <3>2, <4>1
      <3> QED BY <1>1, <1>3, <1>s, <2>1, <3>3
    <2>3. CASE ~(Fifo!readRequest /\ server_fifo # <<>>)
      <3>1. server_fifo' = server_fifo /\ InHand' <= InHand
        BY <1>5, <2>3 DEF Fifo!fifo_seqnum_server, Fifo!mkfifoServer, Fifo!openRead,
           Fifo!openDummy, Fifo!readRequest, Fifo!openClient, Fifo!writeResponse, InHand
      <3>2. j <= k
        BY <1>1, <3>1 DEF InHand, FifoTypes
      <3> QED BY <1>1, <1>3, <1>s, <2>1, <3>2
    <2> QED BY <2>2, <2>3
  <1>6. CASE Fifo!update
    <2>1. /\ InHand = 1 /\ InHand' = 0 /\ seq_num' = Fifo!wrap(seq_num + seq_len[req])
          /\ UNCHANGED <<server_fifo, seq_pc>> /\ req \in Client
      BY <1>6 DEF Fifo!update, InHand, FifoTypes
    <2>2. /\ seq_num \in Nat /\ seq_num + Share <= INT_MAX
          /\ seq_num + Share + Share * Len(server_fifo) <= Share * m
          /\ seq_len[req] \in Nat /\ seq_len[req] <= Share /\ Share \in Nat
      BY <2>1, RoomForOne, ModestLengths, Shares
    <2>3. seq_num + seq_len[req] \in Fifo!numbers
      BY <2>2, NumberAssumption DEF Fifo!numbers
    <2>4. seq_num' = seq_num + seq_len[req]
      BY <2>1, <2>3, IntsWrap
    <2> DEFINE x == Share * Len(server_fifo)
               y == Share * m
    <2>5. x \in Nat /\ y \in Nat /\ seq_num + Share + x <= y
      <3>1. Len(server_fifo) \in Nat
        BY DEF FifoTypes
      <3> HIDE DEF m
      <3> QED BY <1>1, <2>2, <3>1, Shares
    <2>6. Share * j = x /\ Share * l = y
      <3>1. j = Len(server_fifo) /\ l = m
        BY <1>s, <2>1 DEF FifoTypes
      <3> QED BY <3>1
    <2>7. seq_num \in Nat /\ seq_len[req] \in Nat /\ seq_len[req] <= Share /\ Share \in Nat
      BY <2>2
    <2> HIDE DEF x, y, j, l
    <2>8. 0 <= seq_num' /\ seq_num' + x <= y
      BY <2>4, <2>5, <2>7
    <2> QED BY <2>6, <2>8 DEF j, l
  <1>7. ASSUME NEW c \in Client, Fifo!fifo_seqnum_client(c) \/ Fifo!Kill(c)
        PROVE  0 <= seq_num' /\ seq_num' + Share * j <= Share * l
    <2>0. /\ UNCHANGED <<seqnum, seq_num>>
          /\ seq_pc \in [Client -> {"mkfifo", "connect", "send", "open", "read", "exit",
                                    "failed", "killed"}]
      BY <1>7 DEF FifoTypes, Fifo!fifo_seqnum_client, Fifo!mkfifoClient, Fifo!connect,
         Fifo!send, Fifo!open, Fifo!readResponse, Fifo!Kill
    <2>1. CASE Fifo!send(c)
      <3>1. /\ server_fifo' = Append(server_fifo, c) /\ server_fifo \in Seq(Client)
            /\ seq_pc[c] = "send" /\ seq_pc' = [seq_pc EXCEPT ![c] = "open"]
        BY <2>1 DEF Fifo!send, FifoTypes
      <3>2. j = k + 1
        BY <1>1, <2>0, <3>1 DEF InHand
      <3>3. HasSent' = HasSent \cup {c} /\ c \notin HasSent
        BY <2>0, <3>1 DEF HasSent
      <3>4. l = m + 1
        BY <3>3, SentFinite
      <3> HIDE DEF j, k, l, m
      <3> QED BY <1>1, <1>3, <2>0, <3>2, <3>4
    <2>2. CASE ~Fifo!send(c)
      <3>1. UNCHANGED server_fifo
        BY <1>7, <2>2 DEF Fifo!fifo_seqnum_client, Fifo!mkfifoClient, Fifo!connect,
           Fifo!open, Fifo!readResponse, Fifo!Kill
      <3>2. PICK to :
              /\ seq_pc' = [seq_pc EXCEPT ![c] = to]
              /\ c \in HasSent => to \in {"open", "read", "exit", "killed"}
        BY <1>7, <2>2, <2>0 DEF Fifo!fifo_seqnum_client, Fifo!mkfifoClient, Fifo!connect,
           Fifo!open, Fifo!readResponse, Fifo!Kill, HasSent
      <3>3. HasSent \subseteq HasSent' /\ HasSent' \subseteq Client
        BY <2>0, <3>2 DEF HasSent
      <3>4. m <= l
        BY <3>3, ClientAssumption, FS_Subset
      <3>5. j = k
        BY <2>0, <3>1 DEF InHand
      <3> HIDE DEF j, k, l, m
      <3> QED BY <1>1, <1>3, <2>0, <3>4, <3>5
    <2> QED BY <2>1, <2>2
  <1> QED BY <1>4, <1>5, <1>6, <1>7 DEF Fifo!Next

LEMMA FifoServerStep ==
  ASSUME FifoInv, FifoTypes', Fifo!fifo_seqnum_server
  PROVE  FifoOpen' /\ Received' /\ Below' /\ Apart'
  <1> USE DEF FifoOpen, Received, Fifo!Server, Fifo!client_state
  <1>0. FifoTypes /\ FifoOpen /\ Received /\ NumbersTaken /\ Below /\ Apart
    BY DEF FifoInv
  <1>m. Fifo!Modest' <=> Fifo!Modest
    BY <1>0, FifoTypesStep DEF Fifo!Modest, Fifo!Next
  <1>l. Fifo!Modest => \A c \in Client : seq_len[c] \in Nat /\ seq_len[c] <= Share
    BY <1>0, ModestLengths
  <1>n. seq_num \in Int /\ \A c \in Client : \A n \in resp[c] : n \in Int
    BY <1>0, IntsWrap DEF FifoTypes
  <1>1. CASE ~(Fifo!writeResponse \/ Fifo!update)
    <2>1. UNCHANGED <<seq_num, seq_len, resp, got, seq_pc>>
          /\ \A c \in Client : Asked(c)' = 0 /\ Asked(c) = 0
      BY <1>1 DEF Fifo!fifo_seqnum_server, Fifo!mkfifoServer, Fifo!openRead, Fifo!openDummy,
         Fifo!readRequest, Fifo!openClient, Asked
    <2>2. FifoOpen'
      BY <1>0, <1>1 DEF Fifo!fifo_seqnum_server, Fifo!mkfifoServer, Fifo!openRead,
         Fifo!openDummy, Fifo!readRequest, Fifo!openClient
    <2> QED BY <1>0, <1>m, <2>1, <2>2 DEF Below, Apart
  <1>2. CASE Fifo!writeResponse
    <2>1. /\ seqnum = "write" /\ seqnum' = "update" /\ req \in Client
          /\ resp' = IF seq_pc[req] = "read" THEN [resp EXCEPT ![req] = {seq_num}] ELSE resp
          /\ UNCHANGED <<writers, req, seq_num, seq_len, got, seq_pc>>
      BY <1>0, <1>2 DEF Fifo!writeResponse, FifoTypes
    <2>2. /\ \A c \in Client : c # req => resp'[c] = resp[c]
          /\ resp'[req] = resp[req] \/ (resp'[req] = {seq_num} /\ seq_pc[req] = "read")
      BY <1>0, <2>1 DEF FifoTypes
    <2>3. FifoOpen' /\ Received'
      BY <1>0, <2>1, <2>2
    <2>4. ASSUME Fifo!Modest, NEW c \in Client, NEW n \in resp'[c]
          PROVE  /\ 0 <= n /\ n \in Int
                 /\ IF c = req THEN n + seq_len[c] <= seq_num + seq_len[c]
                               ELSE n \in resp[c] /\ n + seq_len[c] <= seq_num
      <3>1. 0 <= seq_num /\ seq_len[c] \in Nat
        BY <1>0, <1>l, <2>4 DEF NumbersTaken
      <3>2. CASE n \in resp[c]
        <4>1. 0 <= n /\ n + seq_len[c] <= seq_num + 0 /\ n \in Int
          BY <1>0, <1>n, <2>1, <2>4, <3>2 DEF Below, Asked
        <4> QED BY <1>n, <3>1, <3>2, <4>1
      <3>3. CASE n \notin resp[c]
        <4>1. c = req /\ n = seq_num
          BY <2>2, <2>4, <3>3
        <4> QED BY <1>n, <3>1, <4>1
      <3> QED BY <3>2, <3>3
    <2>5. Below'
      <3>1. \A c \in Client : Asked(c)' = IF c = req THEN seq_len[c] ELSE 0
        BY <2>1 DEF Asked
      <3>2. ASSUME Fifo!Modest, NEW c \in Client, NEW n \in resp'[c]
            PROVE  0 <= n /\ n + seq_len[c] <= seq_num + Asked(c)'
        <4>1. CASE c = req
          BY <2>4, <3>1, <3>2, <4>1
        <4>2. CASE c # req
          BY <1>n, <2>4, <3>1, <3>2, <4>2
        <4> QED BY <4>1, <4>2
      <3> QED BY <1>m, <2>1, <3>2 DEF Below
    <2>6. Apart'
      <3>1. ASSUME Fifo!Modest, NEW c \in Client, NEW d \in Client,
                   NEW n \in resp'[c], NEW m \in resp'[d], c # d
            PROVE  n + seq_len[c] <= m \/ m + seq_len[d] <= n
        <4>1. CASE n \in resp[c] /\ m \in resp[d]
          BY <1>0, <3>1, <4>1 DEF Apart
        <4>2. CASE n \notin resp[c]
          <5>1. c = req /\ n = seq_num /\ d # req
            BY <2>2, <3>1, <4>2
          <5> QED BY <2>4, <3>1, <5>1
        <4>3. CASE m \notin resp[d]
          <5>1. d = req /\ m = seq_num /\ c # req
            BY <2>2, <3>1, <4>3
          <5> QED BY <2>4, <3>1, <5>1
        <4> QED BY <4>1, <4>2, <4>3
      <3> QED BY <1>m, <2>1, <3>1 DEF Apart
    <2> QED BY <2>3, <2>5, <2>6
  <1>3. CASE Fifo!update
    <2>1. /\ seqnum = "update" /\ seqnum' = "read" /\ req \in Client
          /\ seq_num' = Fifo!wrap(seq_num + seq_len[req])
          /\ UNCHANGED <<writers, req, seq_len, resp, got, seq_pc>>
      BY <1>0, <1>3 DEF Fifo!update, FifoTypes
    <2>2. FifoOpen' /\ Received'
      BY <1>0, <2>1
    <2>3. ASSUME Fifo!Modest, NEW c \in Client, NEW n \in resp[c]
          PROVE  0 <= n /\ n + seq_len[c] <= seq_num'
      <3>1. seq_num \in Nat /\ seq_num + Share <= INT_MAX /\ Share \in Nat
        BY <1>0, <2>1, <2>3, RoomForOne, Shares DEF InHand
      <3>2. seq_num + seq_len[req] \in Fifo!numbers
        BY <1>l, <2>1, <2>3, <3>1, NumberAssumption DEF Fifo!numbers
      <3>3. seq_num' = seq_num + seq_len[req]
        BY <2>1, <3>2, IntsWrap
      <3>4. 0 <= n /\ n + seq_len[c] <= seq_num + IF c = req THEN seq_len[c] ELSE 0
        BY <1>0, <2>1, <2>3 DEF Below, Asked
      <3>5. CASE c = req
        BY <3>3, <3>4, <3>5
      <3>6. CASE c # req
        BY <1>l, <1>n, <2>1, <2>3, <3>1, <3>3, <3>4, <3>6
      <3> QED BY <3>5, <3>6
    <2>4. Below'
      <3>1. \A c \in Client : Asked(c)' = 0
        BY <2>1 DEF Asked
      <3>2. seq_num' \in Int
        BY IntsWrap DEF FifoTypes
      <3> QED BY <1>m, <2>1, <2>3, <3>1, <3>2 DEF Below
    <2> QED BY <1>0, <1>m, <2>1, <2>2, <2>4 DEF Apart
  <1> QED BY <1>1, <1>2, <1>3

LEMMA FifoClientStep ==
  ASSUME NEW c \in Client, FifoInv, FifoTypes', Fifo!fifo_seqnum_client(c) \/ Fifo!Kill(c)
  PROVE  FifoOpen' /\ Received' /\ Below' /\ Apart'
  <1>0. FifoTypes /\ FifoOpen /\ Received /\ Below /\ Apart
    BY DEF FifoInv
  <1> USE ClientAssumption DEF FifoTypes, FifoOpen, Received, Fifo!Goto, Fifo!server_state
  <1>1. /\ UNCHANGED <<seqnum, req, seq_num, seq_len, resp>>
        /\ "server" \in writers => "server" \in writers'
    BY DEF Fifo!fifo_seqnum_client, Fifo!mkfifoClient, Fifo!connect, Fifo!send, Fifo!open,
       Fifo!readResponse, Fifo!Kill
  <1>2. Below' /\ Apart'
    BY <1>0, <1>1 DEF Below, Apart, Asked, Fifo!Modest
  <1>3. Received'
    <2>1. CASE Fifo!readResponse(c)
      BY <1>0, <2>1 DEF Fifo!readResponse
    <2>2. CASE ~Fifo!readResponse(c)
      BY <1>0, <2>2 DEF Fifo!fifo_seqnum_client, Fifo!mkfifoClient, Fifo!connect, Fifo!send,
         Fifo!open, Fifo!Kill
    <2> QED BY <2>1, <2>2
  <1> QED BY <1>0, <1>1, <1>2, <1>3

LEMMA FifoStep == FifoInv /\ [Fifo!Next]_fifo_vars => FifoInv'
  <1> SUFFICES ASSUME FifoInv, [Fifo!Next]_fifo_vars PROVE FifoInv'
    OBVIOUS
  <1>1. FifoTypes' /\ NumbersTaken'
    BY FifoTypesStep, TakenStep DEF FifoInv
  <1>2. CASE UNCHANGED fifo_vars \/ UNCHANGED Fifo!vars
    BY <1>1, <1>2 DEF fifo_vars, Fifo!vars, FifoInv, FifoOpen, Received, Below, Apart, Asked,
       Fifo!Modest
  <1>3. CASE Fifo!fifo_seqnum_server
    BY <1>1, <1>3, FifoServerStep DEF FifoInv
  <1>4. ASSUME NEW c \in Client, Fifo!fifo_seqnum_client(c) \/ Fifo!Kill(c) PROVE FifoInv'
    BY <1>1, <1>4, FifoClientStep DEF FifoInv
  <1> QED BY <1>2, <1>3, <1>4 DEF Fifo!Next

LEMMA FifoTyped == FifoTypes => Fifo!TypeOK
  <1> SUFFICES ASSUME FifoTypes PROVE Fifo!TypeOK
    OBVIOUS
  <1>1. \A k \in DOMAIN server_fifo : server_fifo[k] \in Client
    BY DEF FifoTypes
  <1> QED BY <1>1 DEF FifoTypes, Fifo!TypeOK

\* Whatever the clients ask for: as long as no length is negative and all of
\* them together fit into an int, no number is given to two clients, whoever is
\* killed; and the server never sees an end of its own fifo.
THEOREM NumbersApart == Spec => []RangesDisjoint
  <1>1. [Next]_vars => [Fifo!Next]_fifo_vars
    BY DEF Next, Runs, vars
  <1>2. FifoInv => RangesDisjoint
    <2> SUFFICES ASSUME FifoInv PROVE Fifo!RangesDisjoint
      BY DEF RangesDisjoint
    <2> USE DEF FifoInv
    <2>1. ASSUME Fifo!Modest, NEW c \in Client, NEW d \in Client, c # d
          PROVE  Fifo!Range(c) \cap Fifo!Range(d) = {}
      <3>1. ASSUME NEW x \in Fifo!Range(c), x \in Fifo!Range(d) PROVE FALSE
        <4>1. PICK n \in got[c] : x \in n .. n + seq_len[c] - 1
          BY DEF Fifo!Range
        <4>2. PICK m \in got[d] : x \in m .. m + seq_len[d] - 1
          BY <3>1 DEF Fifo!Range
        <4>3. /\ n \in resp[c] /\ m \in resp[d]
              /\ seq_len[c] \in Nat /\ seq_len[d] \in Nat /\ n \in Int /\ m \in Int
          BY <2>1, ModestLengths, IntsWrap DEF Received, FifoTypes
        <4>4. n + seq_len[c] <= m \/ m + seq_len[d] <= n
          BY <2>1, <4>3 DEF Apart
        <4> QED BY <4>1, <4>2, <4>3, <4>4
      <3> QED BY <3>1
    <2>2. seqnum = "read" => writers # {}
      BY DEF FifoOpen
    <2> QED BY <2>1, <2>2 DEF Fifo!RangesDisjoint
  <1> QED BY <1>1, <1>2, FifoInit, FifoStep, PTL DEF Spec

---------------------------------------------------------------------------
(* Pipes *)

PipeTypes ==
  /\ pipe_version \in Pipe!Version
  /\ at \in [Pipe!Proc -> Nat \ {0}]
  /\ status \in [Pipe!Proc -> {"none", "running", "ended", "killed", "gone"}]
  /\ holds \in [Pipe!Proc -> SUBSET Pipe!End]
  /\ DOMAIN script = Pipe!Proc
  /\ pipe \in [{1, 2} -> Nat]

\* barrier_sync_with_pipes.c: the children are forked one after the other, each
\* with the write end, and once the parent has read the end of file nobody has
\* one any more, nor can get it.
BarrierKept ==
  pipe_version = "barrier" =>
    /\ script[0] = Pipe!barrier_main
    /\ \A c \in Pipe!Proc \ {0} :
         /\ script[c] = IF status[c] = "none" THEN <<>> ELSE Pipe!barrier_child
         /\ status[c] = "none" <=> at[0] <= c
    /\ 0 \in eof => at[0] > num_children + 2 /\ ~Pipe!Open(1, "write")

Syncs == {"sync", "sync2"}

\* sync_with_pipes.c and ipc/main.c: each holds both ends of both pipes, so no
\* read ends with an end of file, and what was written says how far the other is.
FileKept ==
  pipe_version \in Syncs =>
    /\ script[0] = Pipe!MainScript
    /\ script[1] = IF status[1] = "none" THEN <<>> ELSE Pipe!sync_child
    /\ status[1] = "none" <=> at[0] = 1
    /\ \A p \in Pipe!Proc \ {0, 1} : status[p] = "none"
    /\ \A p \in {0, 1} : status[p] = "running" => holds[p] = Pipe!End
    /\ at[0] <= 3 => file = "old"
    /\ at[0] <= 4 => pipe[1] = 0 /\ at[1] = 1
    /\ at[0] > 3 => file = IF at[1] <= 3 THEN "written" ELSE "seen"
    /\ pipe[2] > 0 => at[1] >= 5
    /\ at[0] >= 6 => at[1] >= 5

\* The other programs use no file.
NoFile(s) == \A k \in 1 .. Len(s) : s[k].op \notin {"fscanf", "report"}
OthersKept == pipe_version \notin Syncs => \A p \in Pipe!Proc : NoFile(script[p])

TurnInv == PipeTypes /\ BarrierKept /\ FileKept /\ OthersKept

---------------------------------------------------------------------------
Ops == {"fork", "close", "drain", "exit", "read", "write", "wait", "exec", "fopen", "fprintf",
        "fscanf", "report", "sleep"}
CallSet == [op : Ops, arg : Nat, side : {"none", "read", "write"}]

LEMMA CallsAre ==
  /\ \A k \in Nat, what \in Ops : Pipe!Call(what, k) \in CallSet
  /\ \A k \in Nat, side \in {"read", "write"} : Pipe!Close(k, side) \in CallSet
  BY DEF CallSet, Ops, Pipe!Call, Pipe!Close

\* Where the elements of two sequences are when one follows the other.
LEMMA Follows ==
  ASSUME NEW s \in Seq(CallSet), NEW t \in Seq(CallSet)
  PROVE  /\ s \o t \in Seq(CallSet) /\ Len(s \o t) = Len(s) + Len(t)
         /\ \A k \in 1 .. Len(s) : (s \o t)[k] = s[k]
         /\ \A k \in 1 .. Len(t) : (s \o t)[Len(s) + k] = t[k]
  <1>1. s \o t \in Seq(CallSet) /\ Len(s \o t) = Len(s) + Len(t)
    BY ConcatProperties
  <1>2. \A k \in 1 .. Len(s) + Len(t) :
          (s \o t)[k] = IF k <= Len(s) THEN s[k] ELSE t[k - Len(s)]
    BY ConcatProperties
  <1>3. Len(s) \in Nat /\ Len(t) \in Nat
    BY LenProperties
  <1> DEFINE c == s \o t
  <1>4. \A k \in 1 .. Len(s) + Len(t) : c[k] = IF k <= Len(s) THEN s[k] ELSE t[k - Len(s)]
    BY <1>2
  <1> HIDE DEF c
  <1>5. \A k \in 1 .. Len(s) : c[k] = s[k]
    BY <1>3, <1>4
  <1>6. \A k \in 1 .. Len(t) : c[Len(s) + k] = t[k]
    <2> TAKE k \in 1 .. Len(t)
    <2>1. Len(s) + k \in 1 .. Len(s) + Len(t) /\ ~(Len(s) + k <= Len(s))
          /\ (Len(s) + k) - Len(s) = k
      BY <1>3
    <2> QED BY <1>4, <2>1
  <1> QED BY <1>1, <1>5, <1>6 DEF c

\* The calls of the two programs whose positions matter.
LEMMA BarrierScripts ==
  /\ Pipe!barrier_main \in Seq(CallSet)
  /\ Len(Pipe!barrier_main) = num_children + 3
  /\ \A k \in 1 .. num_children : Pipe!barrier_main[k] = Pipe!Call("fork", k)
  /\ Pipe!barrier_main[num_children + 1] = Pipe!Close(1, "write")
  /\ Pipe!barrier_main[num_children + 2] = Pipe!Call("drain", 1)
  /\ Pipe!barrier_main[num_children + 3] = Pipe!Call("exit", 0)
  <1> DEFINE n == num_children
             a == [j \in 1 .. n |-> Pipe!Call("fork", j)]
             b == <<Pipe!Close(1, "write"), Pipe!Call("drain", 1), Pipe!Call("exit", 0)>>
  <1>1. n \in Nat
    BY PipesAssumption
  <1>2. a \in Seq(CallSet) /\ Len(a) = n /\ \A k \in 1 .. n : a[k] = Pipe!Call("fork", k)
    <2>1. a \in [1 .. n -> CallSet]
      BY <1>1, CallsAre DEF Ops
    <2> QED BY <1>1, <2>1, SeqDef, LenProperties, ElementOfSeq
  <1>3. b \in Seq(CallSet) /\ Len(b) = 3
    BY CallsAre DEF Ops
  <1>4. b[1] = Pipe!Close(1, "write") /\ b[2] = Pipe!Call("drain", 1)
        /\ b[3] = Pipe!Call("exit", 0)
    OBVIOUS
  <1>5. Pipe!barrier_main = a \o b
    BY DEF Pipe!barrier_main
  <1> HIDE DEF a, b
  <1>6. Pipe!barrier_main \in Seq(CallSet) /\ Len(Pipe!barrier_main) = Len(a) + Len(b)
        /\ (\A k \in 1 .. Len(a) : Pipe!barrier_main[k] = a[k])
        /\ (\A k \in 1 .. Len(b) : Pipe!barrier_main[Len(a) + k] = b[k])
    BY <1>2, <1>3, <1>5, Follows
  <1> QED BY <1>1, <1>2, <1>3, <1>4, <1>6

\* sync_with_pipes.c and main.c of ipc: the first six calls are the same.
LEMMA SyncScripts ==
  ASSUME pipe_version \in Syncs
  PROVE  LET m == Pipe!MainScript IN
         /\ m \in Seq(CallSet) /\ Len(m) \in {6, 7}
         /\ m[1] = Pipe!Call("fork", 1) /\ m[2] = Pipe!Call("fopen", 0)
         /\ m[3] = Pipe!Call("fprintf", 0) /\ m[4] = Pipe!Call("write", 1)
         /\ m[5] = Pipe!Call("read", 2) /\ m[6] = Pipe!Call("report", 0)
         /\ Len(m) = 7 => m[7] = Pipe!Call("wait", 0)
  <1> DEFINE a == <<Pipe!Call("fork", 1), Pipe!Call("fopen", 0), Pipe!Call("fprintf", 0)>>
             w == <<Pipe!Call("write", 1)>>
             r == <<Pipe!Call("read", 2)>>
             e == IF pipe_version = "sync"
                    THEN <<Pipe!Call("report", 0), Pipe!Call("wait", 0)>>
                    ELSE <<Pipe!Call("report", 0)>>
  <1>1. Pipe!MainScript = ((a \o w) \o r) \o e
    BY DEF Syncs, Pipe!MainScript, Pipe!sync_main, Pipe!sync_main_2, Pipe!tell_child,
       Pipe!wait_for_child
  <1>2. /\ a \in Seq(CallSet) /\ w \in Seq(CallSet) /\ r \in Seq(CallSet)
        /\ e \in Seq(CallSet) /\ Len(a) = 3 /\ Len(w) = 1 /\ Len(r) = 1 /\ Len(e) \in {1, 2}
    BY CallsAre DEF Ops
  <1>3. /\ a[1] = Pipe!Call("fork", 1) /\ a[2] = Pipe!Call("fopen", 0)
        /\ a[3] = Pipe!Call("fprintf", 0) /\ w[1] = Pipe!Call("write", 1)
        /\ r[1] = Pipe!Call("read", 2) /\ e[1] = Pipe!Call("report", 0)
        /\ Len(e) = 2 => e[2] = Pipe!Call("wait", 0)
    OBVIOUS
  <1> HIDE DEF a, w, r, e
  <1> DEFINE b == a \o w
             c == b \o r
             m == c \o e
  <1>4. b \in Seq(CallSet) /\ Len(b) = Len(a) + Len(w)
        /\ (\A k \in 1 .. Len(a) : b[k] = a[k]) /\ (\A k \in 1 .. Len(w) : b[Len(a) + k] = w[k])
    BY <1>2, Follows
  <1> HIDE DEF b
  <1>5. c \in Seq(CallSet) /\ Len(c) = Len(b) + Len(r)
        /\ (\A k \in 1 .. Len(b) : c[k] = b[k]) /\ (\A k \in 1 .. Len(r) : c[Len(b) + k] = r[k])
    BY <1>2, <1>4, Follows
  <1> HIDE DEF c
  <1>6. m \in Seq(CallSet) /\ Len(m) = Len(c) + Len(e)
        /\ (\A k \in 1 .. Len(c) : m[k] = c[k]) /\ (\A k \in 1 .. Len(e) : m[Len(c) + k] = e[k])
    BY <1>2, <1>5, Follows
  <1>7. Pipe!MainScript = m
    BY <1>1 DEF b, c
  <1> HIDE DEF m
  <1>8. b[1] = a[1] /\ b[2] = a[2] /\ b[3] = a[3] /\ b[4] = w[1] /\ Len(b) = 4
    BY <1>2, <1>4
  <1>9. c[1] = a[1] /\ c[2] = a[2] /\ c[3] = a[3] /\ c[4] = w[1] /\ c[5] = r[1] /\ Len(c) = 5
    BY <1>2, <1>5, <1>8
  <1>10. m[1] = a[1] /\ m[2] = a[2] /\ m[3] = a[3] /\ m[4] = w[1] /\ m[5] = r[1]
    BY <1>2, <1>6, <1>9
  <1>11. m[5 + 1] = e[1] /\ Len(m) = 5 + Len(e) /\ (Len(e) = 2 => m[5 + 2] = e[2])
    BY <1>2, <1>6, <1>9
  <1>12. 5 + 1 = 6 /\ 5 + 2 = 7
    OBVIOUS
  <1>13. m[6] = e[1] /\ (Len(e) = 2 => m[7] = e[2])
    BY <1>11, <1>12
  <1>14. Len(m) \in {6, 7} /\ (Len(m) = 7 => Len(e) = 2)
    <2>1. Len(m) = 5 + Len(e)
      BY <1>11
    <2>2. Len(e) = 1 \/ Len(e) = 2
      BY <1>2
    <2>3. CASE Len(e) = 1
      BY <2>1, <2>3
    <2>4. CASE Len(e) = 2
      BY <2>1, <2>4
    <2> QED BY <2>2, <2>3, <2>4
  <1> QED BY <1>3, <1>6, <1>7, <1>10, <1>13, <1>14

LEMMA SyncChild ==
  LET s == Pipe!sync_child IN
    /\ s \in Seq(CallSet) /\ Len(s) = 5
    /\ s[1] = Pipe!Call("read", 1) /\ s[2] = Pipe!Call("fopen", 0)
    /\ s[3] = Pipe!Call("fscanf", 0) /\ s[4] = Pipe!Call("write", 2)
    /\ s[5] = Pipe!Call("exit", 0)
  <1> DEFINE a == <<Pipe!Call("read", 1)>>
             f == <<Pipe!Call("fopen", 0), Pipe!Call("fscanf", 0)>>
             w == <<Pipe!Call("write", 2)>>
             e == <<Pipe!Call("exit", 0)>>
  <1>1. Pipe!sync_child = ((a \o f) \o w) \o e
    BY DEF Pipe!sync_child, Pipe!wait_for_parent, Pipe!tell_parent
  <1>2. /\ a \in Seq(CallSet) /\ f \in Seq(CallSet) /\ w \in Seq(CallSet)
        /\ e \in Seq(CallSet) /\ Len(a) = 1 /\ Len(f) = 2 /\ Len(w) = 1 /\ Len(e) = 1
    BY CallsAre DEF Ops
  <1>3. /\ a[1] = Pipe!Call("read", 1) /\ f[1] = Pipe!Call("fopen", 0)
        /\ f[2] = Pipe!Call("fscanf", 0)
        /\ w[1] = Pipe!Call("write", 2) /\ e[1] = Pipe!Call("exit", 0)
    OBVIOUS
  <1> HIDE DEF a, f, w, e
  <1> DEFINE b == a \o f
             c == b \o w
             m == c \o e
  <1>4. b \in Seq(CallSet) /\ Len(b) = Len(a) + Len(f)
        /\ (\A k \in 1 .. Len(a) : b[k] = a[k]) /\ (\A k \in 1 .. Len(f) : b[Len(a) + k] = f[k])
    BY <1>2, Follows
  <1> HIDE DEF b
  <1>5. c \in Seq(CallSet) /\ Len(c) = Len(b) + Len(w)
        /\ (\A k \in 1 .. Len(b) : c[k] = b[k]) /\ (\A k \in 1 .. Len(w) : c[Len(b) + k] = w[k])
    BY <1>2, <1>4, Follows
  <1> HIDE DEF c
  <1>6. m \in Seq(CallSet) /\ Len(m) = Len(c) + Len(e)
        /\ (\A k \in 1 .. Len(c) : m[k] = c[k]) /\ (\A k \in 1 .. Len(e) : m[Len(c) + k] = e[k])
    BY <1>2, <1>5, Follows
  <1>7. Pipe!sync_child = m
    BY <1>1 DEF b, c
  <1> HIDE DEF m
  <1>8. b[1] = a[1] /\ b[2] = f[1] /\ b[3] = f[2] /\ Len(b) = 3
    BY <1>2, <1>4
  <1>9. c[1] = a[1] /\ c[2] = f[1] /\ c[3] = f[2] /\ c[4] = w[1] /\ Len(c) = 4
    BY <1>2, <1>5, <1>8
  <1>10. m[1] = a[1] /\ m[2] = f[1] /\ m[3] = f[2] /\ m[4] = w[1] /\ m[5] = e[1]
         /\ Len(m) = 5
    BY <1>2, <1>6, <1>9
  <1> QED BY <1>3, <1>6, <1>7, <1>10

---------------------------------------------------------------------------
LEMMA NoFileJoined ==
  ASSUME NEW s \in Seq(CallSet), NEW t \in Seq(CallSet), NoFile(s), NoFile(t)
  PROVE  NoFile(s \o t)
  <1>1. Len(s) \in Nat /\ Len(t) \in Nat
    BY LenProperties
  <1>2. /\ Len(s \o t) = Len(s) + Len(t)
        /\ \A k \in 1 .. Len(s) + Len(t) :
             (s \o t)[k] = IF k <= Len(s) THEN s[k] ELSE t[k - Len(s)]
    BY ConcatProperties
  <1> DEFINE c == s \o t
  <1>3. /\ Len(c) = Len(s) + Len(t)
        /\ \A k \in 1 .. Len(s) + Len(t) : c[k] = IF k <= Len(s) THEN s[k] ELSE t[k - Len(s)]
    BY <1>2
  <1> HIDE DEF c
  <1>4. NoFile(c)
    <2> SUFFICES ASSUME NEW k \in 1 .. Len(c) PROVE c[k].op \notin {"fscanf", "report"}
      BY DEF NoFile
    <2>1. CASE k <= Len(s)
      <3>1. k \in 1 .. Len(s) /\ c[k] = s[k]
        BY <1>1, <1>3, <2>1
      <3> QED BY <3>1 DEF NoFile
    <2>2. CASE ~(k <= Len(s))
      <3>1. k - Len(s) \in 1 .. Len(t) /\ c[k] = t[k - Len(s)]
        BY <1>1, <1>3, <2>2
      <3> QED BY <3>1 DEF NoFile
    <2> QED BY <2>1, <2>2
  <1> QED BY <1>4 DEF c

LEMMA OtherScripts ==
  ASSUME pipe_version \in Pipe!Version \ Syncs
  PROVE  /\ NoFile(Pipe!MainScript) /\ \A c : NoFile(Pipe!ChildScript(c)) /\ NoFile(Pipe!Program(c))
         /\ NoFile(Pipe!falls_through) /\ NoFile(<<Pipe!Call("wait", 0), Pipe!Call("wait", 0)>>)
         /\ NoFile(<<>>)
  <1> USE DEF Pipe!Call, Pipe!Close
  <1>1. NoFile(Pipe!barrier_main)
    <2>1. \A k \in 1 .. num_children + 3 :
            \/ k \in 1 .. num_children \/ k = num_children + 1
            \/ k = num_children + 2 \/ k = num_children + 3
      BY PipesAssumption
    <2>2. \A k \in 1 .. num_children : Pipe!barrier_main[k].op = "fork"
      <3> TAKE k \in 1 .. num_children
      <3>1. Pipe!barrier_main[k] = Pipe!Call("fork", k)
        BY BarrierScripts
      <3> QED BY <3>1
    <2>3. /\ Pipe!barrier_main[num_children + 1].op = "close"
          /\ Pipe!barrier_main[num_children + 2].op = "drain"
          /\ Pipe!barrier_main[num_children + 3].op = "exit"
      BY BarrierScripts
    <2>4. Len(Pipe!barrier_main) = num_children + 3
      BY BarrierScripts
    <2> QED BY <2>1, <2>2, <2>3, <2>4 DEF NoFile
  <1>2. NoFile(Pipe!barrier_child) /\ NoFile(Pipe!simple_main) /\ NoFile(Pipe!simple_child)
    BY DEF NoFile, Pipe!barrier_child, Pipe!simple_main, Pipe!simple_child
  <1>3. NoFile(Pipe!pipes_main) /\ NoFile(Pipe!pipes_child) /\ NoFile(Pipe!co_process_main)
    BY DEF NoFile, Pipe!pipes_main, Pipe!pipes_child, Pipe!co_process_main
  <1>4. NoFile(Pipe!co_process_child) /\ NoFile(Pipe!add2) /\ NoFile(Pipe!ls_child)
    BY DEF NoFile, Pipe!co_process_child, Pipe!add2, Pipe!ls_child
  <1>5. NoFile(Pipe!wc_child) /\ NoFile(Pipe!wc) /\ NoFile(Pipe!falls_through)
    BY DEF NoFile, Pipe!wc_child, Pipe!wc, Pipe!falls_through
  <1>6. NoFile(<<Pipe!Call("wait", 0), Pipe!Call("wait", 0)>>) /\ NoFile(<<>>)
    BY DEF NoFile
  <1>7. NoFile(Pipe!ls_wc_main)
    <2> DEFINE a == <<Pipe!Call("fork", 1), Pipe!Call("fork", 2)>>
               b == Pipe!ls_wc_parent
    <2>1. a \in Seq(CallSet) /\ NoFile(a)
      BY DEF NoFile, CallSet, Ops
    <2>2. b \in Seq(CallSet) /\ NoFile(b)
      BY DEF NoFile, CallSet, Ops, Pipe!ls_wc_parent
    <2>3. Pipe!ls_wc_main = a \o b
      BY DEF Pipe!ls_wc_main
    <2> HIDE DEF a, b
    <2> QED BY <2>1, <2>2, <2>3, NoFileJoined
  <1>8. NoFile(Pipe!ls)
    <2> DEFINE a == [k \in 1 .. num_lines |-> Pipe!Call("write", 1)]
               b == <<Pipe!Call("exit", 0)>>
    <2>0. num_lines \in Nat
      BY PipesAssumption
    <2>1. a \in Seq(CallSet) /\ NoFile(a)
      <3>1. a \in [1 .. num_lines -> CallSet]
        BY DEF CallSet, Ops
      <3>2. a \in Seq(CallSet) /\ Len(a) = num_lines
        BY <2>0, <3>1, SeqDef, LenProperties, ElementOfSeq
      <3> QED BY <3>2 DEF NoFile
    <2>2. b \in Seq(CallSet) /\ NoFile(b)
      BY DEF NoFile, CallSet, Ops
    <2>3. Pipe!ls = a \o b
      BY DEF Pipe!ls
    <2> HIDE DEF a, b
    <2> QED BY <2>1, <2>2, <2>3, NoFileJoined
  <1>9. NoFile(Pipe!MainScript)
    BY <1>1, <1>2, <1>3, <1>7 DEF Pipe!MainScript, Pipe!Version, Syncs
  <1>10. ASSUME NEW c PROVE NoFile(Pipe!ChildScript(c)) /\ NoFile(Pipe!Program(c))
    BY <1>2, <1>3, <1>4, <1>5, <1>6, <1>8 DEF Pipe!ChildScript, Pipe!Program, Pipe!Version, Syncs
  <1> QED BY <1>5, <1>6, <1>9, <1>10

---------------------------------------------------------------------------
LEMMA PipeProc == 0 \in Pipe!Proc /\ 1 \in Pipe!Proc /\ 1 .. num_children = Pipe!Proc \ {0}
  BY PipesAssumption DEF Pipe!Proc

LEMMA TurnInit == Init => TurnInv
  <1> SUFFICES ASSUME Init PROVE TurnInv
    OBVIOUS
  <1> USE PipeProc DEF Init, Pipe!Init
  <1>1. PipeTypes
    BY DEF PipeTypes
  <1>2. BarrierKept
    BY DEF BarrierKept, Pipe!MainScript, Pipe!Proc
  <1>3. FileKept
    BY DEF FileKept, Syncs, Pipe!TwoPipes, Pipe!End
  <1>4. OthersKept
    <2>1. CASE pipe_version \notin Syncs
      <3>1. NoFile(Pipe!MainScript) /\ NoFile(<<>>)
        BY <2>1, OtherScripts
      <3> QED BY <3>1 DEF OthersKept
    <2> QED BY <2>1 DEF OthersKept
  <1> QED BY <1>1, <1>2, <1>3, <1>4 DEF TurnInv

LEMMA PipeTypesStep == PipeTypes /\ [Pipe!Next]_pipe_vars => PipeTypes'
  <1> SUFFICES ASSUME PipeTypes, [Pipe!Next]_pipe_vars PROVE PipeTypes'
    OBVIOUS
  <1> USE DEF PipeTypes, Pipe!Go
  <1>1. CASE UNCHANGED pipe_vars \/ UNCHANGED Pipe!vars
    BY <1>1 DEF pipe_vars, Pipe!vars
  <1>2. ASSUME NEW p \in Pipe!Proc, Pipe!process(p) PROVE PipeTypes'
    <2>1. CASE Pipe!close(p)
      BY <2>1 DEF Pipe!close
    <2>2. CASE Pipe!write(p)
      <3>1. PICK k : pipe' = [pipe EXCEPT ![k] = @ + 1]
        BY <2>2 DEF Pipe!write
      <3>2. \A j \in {1, 2} : pipe[j] + 1 \in Nat
        OBVIOUS
      <3>3. pipe' \in [{1, 2} -> Nat]
        BY <3>1, <3>2
      <3> QED BY <2>2, <3>3 DEF Pipe!write
    <2>3. CASE Pipe!writeNothing(p) \/ Pipe!writeBroken(p)
      BY <2>3 DEF Pipe!writeNothing, Pipe!writeBroken
    <2>4. CASE Pipe!read(p)
      <3>1. PICK k : pipe' = [pipe EXCEPT ![k] = @ - 1] /\ pipe[k] > 0
        BY <2>4 DEF Pipe!read
      <3>2. \A j \in {1, 2} : pipe[j] \in Nat /\ (pipe[j] > 0 => pipe[j] - 1 \in Nat)
        OBVIOUS
      <3>3. pipe' \in [{1, 2} -> Nat]
        BY <3>1, <3>2
      <3> QED BY <2>4, <3>3 DEF Pipe!read
    <2>5. CASE Pipe!readEOF(p)
      BY <2>5 DEF Pipe!readEOF
    <2>6. CASE Pipe!fork(p)
      <3>1. PICK k : /\ status' = [status EXCEPT ![k] = "running"]
                     /\ script' = [script EXCEPT ![k] = Pipe!ChildScript(k)]
                     /\ holds' = [holds EXCEPT ![k] = holds[p]]
        BY <2>6 DEF Pipe!fork
      <3>2. /\ status' \in [Pipe!Proc -> {"none", "running", "ended", "killed", "gone"}]
            /\ DOMAIN script' = Pipe!Proc
            /\ holds' \in [Pipe!Proc -> SUBSET Pipe!End]
        BY <3>1
      <3> QED BY <2>6, <3>2 DEF Pipe!fork
    <2>7. CASE Pipe!exec(p)
      BY <2>7 DEF Pipe!exec
    <2>8. CASE Pipe!wait(p)
      BY <2>8 DEF Pipe!wait
    <2>9. CASE Pipe!exit(p)
      BY <2>9 DEF Pipe!exit
    <2>10. CASE Pipe!fopen(p)
      BY <2>10 DEF Pipe!fopen
    <2>11. CASE Pipe!UseFile(p)
      BY <2>11 DEF Pipe!UseFile
    <2>12. CASE Pipe!Other(p)
      BY <2>12 DEF Pipe!Other
    <2> QED BY <1>2, <2>1, <2>2, <2>3, <2>4, <2>5, <2>6, <2>7, <2>8, <2>9, <2>10, <2>11, <2>12
            DEF Pipe!process
  <1> QED BY <1>1, <1>2 DEF Pipe!Next

LEMMA VersionStays ==
  ASSUME [Pipe!Next]_pipe_vars
  PROVE  pipe_version' = pipe_version
  BY DEF pipe_vars, Pipe!Next, Pipe!vars, Pipe!process, Pipe!close, Pipe!write,
     Pipe!writeNothing, Pipe!writeBroken, Pipe!read, Pipe!readEOF, Pipe!fork, Pipe!exec, Pipe!wait,
     Pipe!exit, Pipe!fopen, Pipe!UseFile, Pipe!Other

LEMMA OthersStep == TurnInv /\ [Pipe!Next]_pipe_vars => OthersKept'
  <1> SUFFICES ASSUME TurnInv, [Pipe!Next]_pipe_vars, pipe_version' \notin Syncs
               PROVE  \A q \in Pipe!Proc : NoFile(script'[q])
    BY DEF OthersKept, NoFile
  <1>v. pipe_version' = pipe_version
    BY VersionStays
  <1>0. pipe_version \in Pipe!Version \ Syncs /\ DOMAIN script = Pipe!Proc
        /\ \A q \in Pipe!Proc : NoFile(script[q])
    BY <1>v DEF TurnInv, PipeTypes, OthersKept
  <1>1. CASE UNCHANGED script
    BY <1>0, <1>1
  <1>2. ASSUME NEW p \in Pipe!Proc, Pipe!fork(p) PROVE \A q \in Pipe!Proc : NoFile(script'[q])
    <2>1. PICK c : script' = [script EXCEPT ![c] = Pipe!ChildScript(c)]
      BY <1>2 DEF Pipe!fork
    <2>2. NoFile(Pipe!ChildScript(c))
      BY <1>0, OtherScripts
    <2> QED BY <1>0, <2>1, <2>2
  <1>3. ASSUME NEW p \in Pipe!Proc, Pipe!exec(p) PROVE \A q \in Pipe!Proc : NoFile(script'[q])
    <2>1. PICK s : script' = [script EXCEPT ![p] = s] /\ NoFile(s)
      <3>1. /\ NoFile(Pipe!Program(p)) /\ NoFile(Pipe!falls_through) /\ NoFile(<<>>)
            /\ NoFile(<<Pipe!Call("wait", 0), Pipe!Call("wait", 0)>>)
        BY <1>0, OtherScripts
      <3> QED BY <1>3, <3>1 DEF Pipe!exec
    <2> QED BY <1>0, <2>1
  <1>4. UNCHANGED script \/ \E p \in Pipe!Proc : Pipe!fork(p) \/ Pipe!exec(p)
    BY DEF pipe_vars, Pipe!Next, Pipe!vars, Pipe!process, Pipe!close, Pipe!write,
       Pipe!writeNothing, Pipe!writeBroken, Pipe!read, Pipe!readEOF, Pipe!wait,
       Pipe!exit, Pipe!fopen, Pipe!UseFile, Pipe!Other
  <1> QED BY <1>1, <1>2, <1>3, <1>4

---------------------------------------------------------------------------
\* A step that forks nothing, opens nothing and leaves the parent where it is
\* or is taken after the last fork.
LEMMA BarrierFrame ==
  ASSUME TurnInv, PipeTypes', pipe_version = "barrier", script' = script, eof' = eof,
         \A q \in Pipe!Proc : holds'[q] \subseteq holds[q]
                              /\ (status'[q] = "none" <=> status[q] = "none"),
         at'[0] = at[0] \/ (at[0] > num_children /\ at'[0] = at[0] + 1)
  PROVE  BarrierKept'
  <1>1. BarrierKept /\ num_children \in Nat /\ 1 .. num_children = Pipe!Proc \ {0}
        /\ at[0] \in Nat
    BY PipeProc, PipesAssumption DEF TurnInv, PipeTypes
  <1>2. \A c \in Pipe!Proc \ {0} : at'[0] <= c <=> at[0] <= c
    BY <1>1
  <1>3. ~Pipe!Open(1, "write") => ~Pipe!Open(1, "write")'
    BY DEF Pipe!Open
  <1> QED BY <1>1, <1>2, <1>3 DEF BarrierKept

LEMMA BarrierStep == TurnInv /\ PipeTypes' /\ [Pipe!Next]_pipe_vars => BarrierKept'
  <1> SUFFICES ASSUME TurnInv, PipeTypes', [Pipe!Next]_pipe_vars, pipe_version' = "barrier"
               PROVE  BarrierKept'
    BY DEF BarrierKept
  <1> DEFINE n == num_children
  <1>v. pipe_version' = pipe_version
    BY VersionStays
  <1>0. /\ pipe_version = "barrier" /\ n \in Nat /\ 0 \in Pipe!Proc
        /\ 1 .. n = Pipe!Proc \ {0} /\ PipeTypes /\ at[0] \in Nat \ {0}
    BY <1>v, PipeProc, PipesAssumption DEF TurnInv, PipeTypes
  <1>k. /\ script[0] = Pipe!barrier_main
        /\ \A c \in Pipe!Proc \ {0} :
             /\ script[c] = IF status[c] = "none" THEN <<>> ELSE Pipe!barrier_child
             /\ status[c] = "none" <=> at[0] <= c
        /\ 0 \in eof => at[0] > n + 2 /\ ~Pipe!Open(1, "write")
    BY <1>0 DEF TurnInv, BarrierKept
  \* What the parent and the children call.
  <1>1. ASSUME NEW op, Pipe!NextCall(0, op)
        PROVE  /\ at[0] \in 1 .. n => op = "fork" /\ Pipe!Arg(0) = at[0]
               /\ at[0] \notin 1 .. n => op \in {"close", "drain", "exit"}
               /\ op = "drain" => at[0] = n + 2
    <2>1. at[0] \in 1 .. n + 3 /\ Pipe!barrier_main[at[0]].op = op
      BY <1>0, <1>1, <1>k, BarrierScripts DEF Pipe!NextCall, Pipe!Done
    <2>2. CASE at[0] \in 1 .. n
      <3>1. Pipe!barrier_main[at[0]] = Pipe!Call("fork", at[0])
        BY <2>2, BarrierScripts
      <3> QED BY <1>k, <2>1, <2>2, <3>1 DEF Pipe!Call, Pipe!Arg
    <2>3. CASE at[0] \notin 1 .. n
      <3>1. at[0] = n + 1 \/ at[0] = n + 2 \/ at[0] = n + 3
        BY <1>0, <2>1, <2>3
      <3>2. \/ at[0] = n + 1 /\ op = "close"
            \/ at[0] = n + 2 /\ op = "drain"
            \/ at[0] = n + 3 /\ op = "exit"
        BY <2>1, <3>1, BarrierScripts DEF Pipe!Call, Pipe!Close
      <3> QED BY <2>3, <3>2
    <2> QED BY <2>2, <2>3
  <1>2. ASSUME NEW c \in Pipe!Proc \ {0}, NEW op, Pipe!NextCall(c, op)
        PROVE  op \in {"close", "sleep", "exit"}
    <2>1. script[c] = Pipe!barrier_child /\ at[c] \in Nat \ {0}
          /\ ~(at[c] > Len(script[c])) /\ script[c][at[c]].op = op
      BY <1>0, <1>2, <1>k DEF Pipe!NextCall, Pipe!Done, Pipe!Running, PipeTypes
    <2>2. at[c] \in 1 .. 4
      BY <2>1 DEF Pipe!barrier_child
    <2> QED BY <2>1, <2>2 DEF Pipe!barrier_child, Pipe!Call, Pipe!Close
  <1>3. \A p \in Pipe!Proc : \A op : Pipe!NextCall(p, op) =>
                                     op \in {"fork", "close", "drain", "exit", "sleep"}
    BY <1>1, <1>2
  <1>4. CASE UNCHANGED pipe_vars \/ UNCHANGED Pipe!vars
    BY <1>0, <1>4, BarrierFrame DEF pipe_vars, Pipe!vars
  <1>5. ASSUME NEW p \in Pipe!Proc, Pipe!process(p) PROVE BarrierKept'
    <2>1. CASE Pipe!close(p)
      <3>1. \A q \in Pipe!Proc : holds'[q] \subseteq holds[q]
        BY <1>0, <2>1 DEF Pipe!close, PipeTypes
      <3>2. p = 0 => at[0] > n /\ at'[0] = at[0] + 1
        BY <1>0, <1>1, <2>1 DEF Pipe!close, Pipe!Go, PipeTypes
      <3>3. p # 0 => at'[0] = at[0]
        BY <1>0, <2>1 DEF Pipe!close, Pipe!Go, PipeTypes
      <3> QED BY <1>0, <2>1, <3>1, <3>2, <3>3, BarrierFrame DEF Pipe!close
    <2>2. CASE Pipe!read(p)
      <3>1. Pipe!NextCall(p, "drain") /\ ~Pipe!NextCall(p, "read")
        BY <1>3, <2>2 DEF Pipe!read
      <3> QED BY <1>0, <2>2, <3>1, BarrierFrame DEF Pipe!read
    <2>3. CASE Pipe!readEOF(p)
      <3>1. p = 0 /\ at[0] = n + 2
        BY <1>1, <1>2, <2>3 DEF Pipe!readEOF
      <3>2. Pipe!Arg(0) = 1
        BY <1>k, <3>1, BarrierScripts DEF Pipe!Arg, Pipe!Call
      <3>3. ~Pipe!Open(1, "write") /\ at'[0] = n + 3
            /\ UNCHANGED <<script, status, holds>>
        BY <1>0, <2>3, <3>1, <3>2 DEF Pipe!readEOF, Pipe!Go, PipeTypes
      <3>4. ~Pipe!Open(1, "write")'
        BY <3>3 DEF Pipe!Open
      <3>5. \A c \in Pipe!Proc \ {0} : at'[0] <= c <=> at[0] <= c
        BY <1>0, <3>1, <3>3
      <3> QED BY <1>0, <1>k, <3>3, <3>4, <3>5 DEF BarrierKept
    <2>4. CASE Pipe!fork(p)
      <3>1. p = 0 /\ at[0] \in 1 .. n /\ Pipe!Arg(0) = at[0]
        BY <1>0, <1>1, <1>2, <2>4 DEF Pipe!fork
      <3>2. at'[0] = at[0] + 1 /\ eof' = eof /\ 0 \notin eof
        BY <1>0, <1>k, <2>4, <3>1 DEF Pipe!fork, Pipe!Go, PipeTypes
      <3>3. PICK k \in 1 .. n : k = at[0]
        BY <3>1
      <3>4. /\ status' = [status EXCEPT ![k] = "running"]
            /\ script' = [script EXCEPT ![k] = Pipe!barrier_child]
        BY <1>0, <2>4, <3>1, <3>3 DEF Pipe!fork, Pipe!ChildScript
      <3>5. ASSUME NEW c \in Pipe!Proc \ {0}
            PROVE  /\ script'[c] = IF status'[c] = "none" THEN <<>> ELSE Pipe!barrier_child
                   /\ status'[c] = "none" <=> at'[0] <= c
        <4>1. CASE c = k
          BY <1>0, <3>2, <3>3, <3>4, <4>1 DEF PipeTypes
        <4>2. CASE c # k
          <5>1. script'[c] = script[c] /\ status'[c] = status[c]
            BY <1>0, <3>4, <4>2 DEF PipeTypes
          <5>2. at'[0] <= c <=> at[0] <= c
            BY <1>0, <3>2, <3>3, <4>2
          <5> QED BY <1>k, <5>1, <5>2
        <4> QED BY <4>1, <4>2
      <3>6. script'[0] = script[0]
        BY <1>0, <3>4 DEF PipeTypes
      <3> QED BY <1>k, <3>2, <3>5, <3>6 DEF BarrierKept
    <2>5. CASE Pipe!exit(p)
      <3>1. \A q \in Pipe!Proc : holds'[q] \subseteq holds[q]
                                 /\ (status'[q] = "none" <=> status[q] = "none")
        BY <1>0, <2>5 DEF Pipe!exit, Pipe!Running, PipeTypes
      <3> QED BY <1>0, <2>5, <3>1, BarrierFrame DEF Pipe!exit
    <2>6. CASE Pipe!Other(p)
      <3>1. p # 0
        BY <1>1, <2>6 DEF Pipe!Other
      <3>2. at'[0] = at[0]
        BY <1>0, <2>6, <3>1 DEF Pipe!Other, Pipe!Go, PipeTypes
      <3> QED BY <1>0, <2>6, <3>2, BarrierFrame DEF Pipe!Other
    <2>7. ~(Pipe!write(p) \/ Pipe!writeNothing(p) \/ Pipe!writeBroken(p) \/ Pipe!exec(p)
            \/ Pipe!wait(p) \/ Pipe!fopen(p) \/ Pipe!UseFile(p))
      BY <1>0, <1>3 DEF Pipe!write, Pipe!writeNothing, Pipe!writeBroken, Pipe!exec, Pipe!wait, Pipe!fopen, Pipe!UseFile
    <2> QED BY <1>5, <2>1, <2>2, <2>3, <2>4, <2>5, <2>6, <2>7 DEF Pipe!process
  <1> QED BY <1>4, <1>5 DEF Pipe!Next

---------------------------------------------------------------------------
LEMMA FileStep == TurnInv /\ PipeTypes' /\ [Pipe!Next]_pipe_vars => FileKept'
  <1> SUFFICES ASSUME TurnInv, PipeTypes', [Pipe!Next]_pipe_vars, pipe_version' \in Syncs
               PROVE  FileKept'
    BY DEF FileKept
  <1> DEFINE m == at[0]
             c == at[1]
  <1>v. pipe_version' = pipe_version
    BY VersionStays
  <1>0. /\ pipe_version \in Syncs /\ 0 \in Pipe!Proc /\ 1 \in Pipe!Proc
        /\ PipeTypes /\ m \in Nat \ {0} /\ c \in Nat \ {0}
    BY <1>v, PipeProc DEF TurnInv, PipeTypes
  <1>k. /\ script[0] = Pipe!MainScript
        /\ script[1] = IF status[1] = "none" THEN <<>> ELSE Pipe!sync_child
        /\ status[1] = "none" <=> m = 1
        /\ \A p \in Pipe!Proc \ {0, 1} : status[p] = "none"
        /\ \A p \in {0, 1} : status[p] = "running" => holds[p] = Pipe!End
        /\ m <= 3 => file = "old"
        /\ m <= 4 => pipe[1] = 0 /\ c = 1
        /\ m > 3 => file = IF c <= 3 THEN "written" ELSE "seen"
        /\ pipe[2] > 0 => c >= 5
        /\ m >= 6 => c >= 5
    BY <1>0 DEF TurnInv, FileKept
  <1>s. Pipe!MainScript' = Pipe!MainScript
    BY <1>v DEF Pipe!MainScript
  \* What the two call, and where.
  <1>1. ASSUME NEW op, Pipe!NextCall(0, op)
        PROVE  /\ status[0] = "running"
               /\ \/ m = 1 /\ op = "fork" /\ Pipe!Arg(0) = 1
                  \/ m = 2 /\ op = "fopen"
                  \/ m = 3 /\ op = "fprintf"
                  \/ m = 4 /\ op = "write" /\ Pipe!Arg(0) = 1
                  \/ m = 5 /\ op = "read" /\ Pipe!Arg(0) = 2
                  \/ m = 6 /\ op = "report"
                  \/ m = 7 /\ op = "wait"
    <2> DEFINE s == Pipe!MainScript
    <2>1. /\ status[0] = "running" /\ ~(m > Len(s)) /\ s[m].op = op /\ Pipe!Arg(0) = s[m].arg
      BY <1>1, <1>k DEF Pipe!NextCall, Pipe!Running, Pipe!Done, Pipe!Arg
    <2>2. /\ Len(s) \in {6, 7}
          /\ s[1] = Pipe!Call("fork", 1) /\ s[2] = Pipe!Call("fopen", 0)
          /\ s[3] = Pipe!Call("fprintf", 0) /\ s[4] = Pipe!Call("write", 1)
          /\ s[5] = Pipe!Call("read", 2) /\ s[6] = Pipe!Call("report", 0)
          /\ Len(s) = 7 => s[7] = Pipe!Call("wait", 0)
      BY <1>0, SyncScripts
    <2> HIDE DEF s
    <2>3. \/ m = 1 \/ m = 2 \/ m = 3 \/ m = 4 \/ m = 5 \/ m = 6 \/ (m = 7 /\ Len(s) = 7)
      BY <1>0, <2>1, <2>2
    <2> QED BY <2>1, <2>2, <2>3 DEF Pipe!Call
  <1>2. ASSUME NEW op, Pipe!NextCall(1, op)
        PROVE  /\ status[1] = "running"
               /\ \/ c = 1 /\ op = "read" /\ Pipe!Arg(1) = 1
                  \/ c = 2 /\ op = "fopen"
                  \/ c = 3 /\ op = "fscanf"
                  \/ c = 4 /\ op = "write" /\ Pipe!Arg(1) = 2
                  \/ c = 5 /\ op = "exit"
    <2> DEFINE s == Pipe!sync_child
    <2>1. /\ status[1] = "running" /\ ~(c > Len(s)) /\ s[c].op = op /\ Pipe!Arg(1) = s[c].arg
      BY <1>2, <1>k DEF Pipe!NextCall, Pipe!Running, Pipe!Done, Pipe!Arg
    <2>2. /\ Len(s) = 5
          /\ s[1] = Pipe!Call("read", 1) /\ s[2] = Pipe!Call("fopen", 0)
          /\ s[3] = Pipe!Call("fscanf", 0) /\ s[4] = Pipe!Call("write", 2)
          /\ s[5] = Pipe!Call("exit", 0)
      BY SyncChild
    <2> HIDE DEF s
    <2>3. c = 1 \/ c = 2 \/ c = 3 \/ c = 4 \/ c = 5
      BY <1>0, <2>1, <2>2
    <2> QED BY <2>1, <2>2, <2>3 DEF Pipe!Call
  <1>3. \A p \in Pipe!Proc : Pipe!Running(p) => p = 0 \/ p = 1
    BY <1>k DEF Pipe!Running
  <1>e. \A k \in {1, 2}, side \in {"read", "write"}, p \in Pipe!Proc :
          Pipe!Running(p) => Pipe!Open(k, side)
    <2> SUFFICES ASSUME NEW k \in {1, 2}, NEW side \in {"read", "write"}, NEW p \in Pipe!Proc,
                        Pipe!Running(p)
                 PROVE  <<k, side>> \in holds[p]
      BY DEF Pipe!Open
    <2>1. holds[p] = Pipe!End
      BY <1>3, <1>k DEF Pipe!Running
    <2> QED BY <2>1 DEF Pipe!End
  <1>4. CASE UNCHANGED pipe_vars \/ UNCHANGED Pipe!vars
    BY <1>0, <1>k, <1>s, <1>4 DEF pipe_vars, Pipe!vars, FileKept
  <1>5. ASSUME NEW p \in Pipe!Proc, Pipe!process(p) PROVE FileKept'
    <2>0. p = 0 \/ p = 1
      BY <1>3, <1>5 DEF Pipe!process, Pipe!close, Pipe!write, Pipe!writeNothing,
         Pipe!writeBroken, Pipe!read,
         Pipe!readEOF, Pipe!fork, Pipe!exec, Pipe!wait, Pipe!exit, Pipe!fopen,
         Pipe!UseFile, Pipe!Other, Pipe!NextCall
    <2> USE DEF Pipe!Go
    <2>1. CASE Pipe!write(p)
      <3>1. CASE p = 0
        <4>1. m = 4 /\ at'[0] = 5 /\ at'[1] = c /\ pipe'[1] = 1 /\ pipe'[2] = pipe[2]
              /\ UNCHANGED <<script, status, holds, file>>
          BY <1>0, <1>1, <1>k, <2>1, <3>1 DEF Pipe!write, PipeTypes
        <4> QED BY <1>0, <1>k, <1>s, <4>1 DEF FileKept
      <3>2. CASE p = 1
        <4>1. c = 4 /\ at'[1] = 5 /\ at'[0] = m /\ pipe'[1] = pipe[1]
              /\ UNCHANGED <<script, status, holds, file>>
          BY <1>0, <1>2, <1>k, <2>1, <3>2 DEF Pipe!write, PipeTypes
        <4> QED BY <1>0, <1>k, <1>s, <4>1 DEF FileKept
      <3> QED BY <2>0, <3>1, <3>2
    <2>2. CASE Pipe!read(p)
      <3>1. CASE p = 0
        <4>1. m = 5 /\ pipe[2] > 0 /\ at'[0] = 6 /\ at'[1] = c /\ pipe'[1] = pipe[1]
              /\ UNCHANGED <<script, status, holds, file>>
          BY <1>0, <1>1, <2>2, <3>1 DEF Pipe!read, PipeTypes
        <4> QED BY <1>0, <1>k, <1>s, <4>1 DEF FileKept
      <3>2. CASE p = 1
        <4>1. c = 1 /\ pipe[1] > 0 /\ at'[1] = 2 /\ at'[0] = m /\ pipe'[2] = pipe[2]
              /\ UNCHANGED <<script, status, holds, file>>
          BY <1>0, <1>2, <2>2, <3>2 DEF Pipe!read, PipeTypes
        <4> QED BY <1>0, <1>k, <1>s, <4>1 DEF FileKept
      <3> QED BY <2>0, <3>1, <3>2
    <2>3. CASE Pipe!readEOF(p)
      <3>1. Pipe!Running(p) /\ Pipe!Arg(p) \in {1, 2}
        BY <1>1, <1>2, <2>0, <2>3 DEF Pipe!readEOF, Pipe!NextCall
      <3> QED BY <1>e, <2>3, <3>1 DEF Pipe!readEOF
    <2>4. CASE Pipe!writeBroken(p)
      <3>1. Pipe!Running(p) /\ Pipe!Arg(p) \in {1, 2}
        BY <1>1, <1>2, <2>0, <2>4 DEF Pipe!writeBroken, Pipe!NextCall
      <3> QED BY <1>e, <2>4, <3>1 DEF Pipe!writeBroken
    <2>5. CASE Pipe!fork(p)
      <3>1. p = 0 /\ m = 1 /\ Pipe!Arg(0) = 1 /\ status[0] = "running"
        BY <1>1, <1>2, <2>0, <2>5 DEF Pipe!fork
      <3>2. /\ status' = [status EXCEPT ![1] = "running"]
            /\ script' = [script EXCEPT ![1] = Pipe!sync_child]
            /\ holds' = [holds EXCEPT ![1] = holds[0]]
            /\ at' = [at EXCEPT ![0] = 2]
            /\ UNCHANGED <<file, pipe>>
        <4>1. Pipe!ChildScript(1) = Pipe!sync_child
          BY <1>0 DEF Pipe!ChildScript, Syncs
        <4>2. at' = [at EXCEPT ![0] = at[0] + 1] /\ at[0] + 1 = 2
          BY <2>5, <3>1 DEF Pipe!fork
        <4>3. /\ status' = [status EXCEPT ![1] = "running"]
              /\ script' = [script EXCEPT ![1] = Pipe!ChildScript(1)]
              /\ holds' = [holds EXCEPT ![1] = holds[0]]
              /\ UNCHANGED <<file, pipe>>
          BY <2>5, <3>1 DEF Pipe!fork
        <4> QED BY <4>1, <4>2, <4>3
      <3>3. /\ status'[1] = "running" /\ \A q \in Pipe!Proc \ {1} : status'[q] = status[q]
            /\ script'[1] = Pipe!sync_child /\ script'[0] = script[0]
            /\ holds'[0] = Pipe!End /\ holds'[1] = Pipe!End
            /\ at'[0] = 2 /\ at'[1] = c
        BY <1>0, <1>k, <3>1, <3>2 DEF PipeTypes
      <3> QED BY <1>0, <1>k, <1>s, <3>1, <3>2, <3>3 DEF FileKept
    <2>6. CASE Pipe!wait(p)
      <3>1. p = 0 /\ m = 7
        BY <1>1, <1>2, <2>0, <2>6 DEF Pipe!wait
      <3>2. /\ at'[0] = 8 /\ at'[1] = c /\ UNCHANGED <<script, holds, pipe, file>>
        BY <1>0, <2>6, <3>1 DEF Pipe!wait, PipeTypes
      <3>3. \A q \in Pipe!Proc : /\ status'[q] = "none" <=> status[q] = "none"
                                 /\ status'[q] = "running" => status[q] = "running"
        BY <1>0, <2>6 DEF Pipe!wait, Pipe!Children, PipeTypes
      <3> QED BY <1>0, <1>k, <1>s, <3>1, <3>2, <3>3 DEF FileKept
    <2>7. CASE Pipe!exit(p)
      <3>1. UNCHANGED <<script, at, pipe, file>>
        BY <2>7 DEF Pipe!exit
      <3>2. \A q \in Pipe!Proc : /\ status'[q] = "none" <=> status[q] = "none"
                                 /\ status'[q] = "running" =>
                                      status[q] = "running" /\ holds'[q] = holds[q]
        BY <1>0, <2>7 DEF Pipe!exit, Pipe!Running, PipeTypes
      <3> QED BY <1>0, <1>k, <1>s, <3>1, <3>2 DEF FileKept
    <2>8. CASE Pipe!fopen(p)
      <3>1. \/ p = 0 /\ m = 2 /\ at'[0] \in {2, 3} /\ at'[1] = c
            \/ p = 1 /\ c = 2 /\ at'[1] \in {2, 3} /\ at'[0] = m
        BY <1>0, <1>1, <1>2, <2>0, <2>8 DEF Pipe!fopen, PipeTypes
      <3>2. UNCHANGED <<script, pipe, file>> /\ Pipe!Running(p)
        BY <2>8 DEF Pipe!fopen, Pipe!NextCall
      <3>3. \A q \in Pipe!Proc : /\ status'[q] = "none" <=> status[q] = "none"
                                 /\ status'[q] = "running" =>
                                      status[q] = "running" /\ holds'[q] = holds[q]
        BY <1>0, <2>8, <3>2 DEF Pipe!fopen, Pipe!Running, PipeTypes
      <3> QED BY <1>0, <1>k, <1>s, <3>1, <3>2, <3>3 DEF FileKept
    <2>9. CASE Pipe!UseFile(p)
      <3>1. CASE p = 0
        <4>1. m = 3 /\ at'[0] = 4 /\ at'[1] = c /\ file' = "written"
              /\ UNCHANGED <<script, status, holds, pipe>>
          BY <1>0, <1>1, <2>9, <3>1 DEF Pipe!UseFile, PipeTypes
        <4> QED BY <1>0, <1>k, <1>s, <4>1 DEF FileKept
      <3>2. CASE p = 1
        <4>1. c = 3 /\ at'[1] = 4 /\ at'[0] = m
              /\ file' = (IF file = "written" THEN "seen" ELSE file)
              /\ UNCHANGED <<script, status, holds, pipe>>
          BY <1>0, <1>2, <2>9, <3>2 DEF Pipe!UseFile, PipeTypes
        <4> QED BY <1>0, <1>k, <1>s, <4>1 DEF FileKept
      <3> QED BY <2>0, <3>1, <3>2
    <2>10. CASE Pipe!Other(p)
      <3>1. p = 0 /\ m = 6 /\ at'[0] = 7 /\ at'[1] = c
            /\ UNCHANGED <<script, status, holds, pipe, file>>
        BY <1>0, <1>1, <1>2, <2>0, <2>10 DEF Pipe!Other, PipeTypes
      <3> QED BY <1>0, <1>k, <1>s, <3>1 DEF FileKept
    <2>11. ~(Pipe!close(p) \/ Pipe!exec(p) \/ Pipe!writeNothing(p))
      BY <1>0, <1>1, <1>2, <2>0 DEF Pipe!close, Pipe!exec, Pipe!writeNothing, Syncs
    <2> QED BY <1>5, <2>1, <2>2, <2>3, <2>4, <2>5, <2>6, <2>7, <2>8, <2>9, <2>10, <2>11
            DEF Pipe!process
  <1> QED BY <1>4, <1>5 DEF Pipe!Next

---------------------------------------------------------------------------
LEMMA TurnInvImplies == TurnInv => TurnsKept
  <1> SUFFICES ASSUME TurnInv PROVE Pipe!TurnsKept
    BY DEF TurnsKept
  <1>0. PipeTypes /\ BarrierKept /\ FileKept /\ OthersKept /\ 0 \in Pipe!Proc
        /\ num_children \in Nat /\ 1 .. num_children = Pipe!Proc \ {0}
    BY PipeProc, PipesAssumption DEF TurnInv
  <1>1. ASSUME pipe_version = "barrier", 0 \in eof, NEW c \in Pipe!Proc \ {0}
        PROVE  <<1, "write">> \notin holds[c] /\ status[c] # "none"
    <2>1. at[0] > num_children + 2 /\ ~Pipe!Open(1, "write")
      BY <1>0, <1>1 DEF BarrierKept
    <2>2. c \in 1 .. num_children /\ at[0] \in Nat
      BY <1>0 DEF PipeTypes
    <2>3. ~(at[0] <= c)
      BY <1>0, <2>1, <2>2
    <2> QED BY <1>0, <1>1, <2>1, <2>3 DEF BarrierKept, Pipe!Open
  <1>2. ASSUME NEW p \in Pipe!Proc, NEW op \in {"fscanf", "report"}, Pipe!NextCall(p, op)
        PROVE  /\ op = "fscanf" => file = "written"
               /\ op = "report" => file = "seen"
    <2>1. at[p] \in Nat \ {0} /\ status[p] = "running" /\ ~(at[p] > Len(script[p]))
          /\ script[p][at[p]].op = op
      BY <1>0, <1>2 DEF Pipe!NextCall, Pipe!Running, Pipe!Done, PipeTypes
    <2>2. CASE pipe_version \notin Syncs
      <3>1. NoFile(script[p])
        BY <1>0, <2>2 DEF OthersKept
      <3>2. at[p] \notin 1 .. Len(script[p])
        BY <2>1, <3>1 DEF NoFile
      <3> QED BY <2>1, <3>2
    <2>3. CASE pipe_version \in Syncs
      <3>1. p = 0 \/ p = 1
        BY <1>0, <2>1, <2>3 DEF FileKept
      <3>2. CASE p = 0
        <4> DEFINE s == Pipe!MainScript
        <4>1. ~(at[0] > Len(s)) /\ s[at[0]].op = op /\ at[0] \in Nat \ {0}
          BY <1>0, <2>1, <2>3, <3>2 DEF FileKept
        <4>2. /\ Len(s) \in {6, 7}
              /\ s[1] = Pipe!Call("fork", 1) /\ s[2] = Pipe!Call("fopen", 0)
              /\ s[3] = Pipe!Call("fprintf", 0) /\ s[4] = Pipe!Call("write", 1)
              /\ s[5] = Pipe!Call("read", 2) /\ s[6] = Pipe!Call("report", 0)
              /\ Len(s) = 7 => s[7] = Pipe!Call("wait", 0)
          BY <2>3, SyncScripts
        <4> HIDE DEF s
        <4>3. \/ at[0] = 1 \/ at[0] = 2 \/ at[0] = 3 \/ at[0] = 4 \/ at[0] = 5 \/ at[0] = 6
              \/ (at[0] = 7 /\ Len(s) = 7)
          BY <4>1, <4>2
        <4>4. at[0] = 6 /\ op = "report"
          BY <4>1, <4>2, <4>3 DEF Pipe!Call
        <4>5. at[1] >= 5 /\ file = IF at[1] <= 3 THEN "written" ELSE "seen"
          BY <1>0, <2>3, <4>4 DEF FileKept
        <4>6. at[1] \in Nat
          BY <1>0, PipeProc DEF PipeTypes
        <4> QED BY <4>4, <4>5, <4>6
      <3>3. CASE p = 1
        <4> DEFINE s == Pipe!sync_child
        <4>1. ~(at[1] > Len(s)) /\ s[at[1]].op = op /\ at[1] \in Nat \ {0}
          BY <1>0, <2>1, <2>3, <3>3 DEF FileKept
        <4>2. /\ Len(s) = 5
              /\ s[1] = Pipe!Call("read", 1) /\ s[2] = Pipe!Call("fopen", 0)
              /\ s[3] = Pipe!Call("fscanf", 0) /\ s[4] = Pipe!Call("write", 2)
              /\ s[5] = Pipe!Call("exit", 0)
          BY SyncChild
        <4> HIDE DEF s
        <4>3. at[1] = 1 \/ at[1] = 2 \/ at[1] = 3 \/ at[1] = 4 \/ at[1] = 5
          BY <4>1, <4>2
        <4>4. at[1] = 3 /\ op = "fscanf"
          BY <4>1, <4>2, <4>3 DEF Pipe!Call
        <4>5. at[0] \in Nat /\ ~(at[0] <= 4)
          BY <1>0, <2>3, <4>4 DEF FileKept, PipeTypes
        <4>6. file = IF at[1] <= 3 THEN "written" ELSE "seen"
          BY <1>0, <2>3, <4>5 DEF FileKept
        <4> QED BY <4>4, <4>6
      <3> QED BY <3>1, <3>2, <3>3
    <2> QED BY <2>2, <2>3
  <1> QED BY <1>1, <1>2 DEF Pipe!TurnsKept

\* The parent passes the barrier when every child has been forked and has
\* closed its end, the child reads the file when it is written, and the parent
\* reports when it was read: for any number of children.
THEOREM TurnsTaken == Spec => []TurnsKept
  <1>1. TurnInv /\ [Pipe!Next]_pipe_vars => TurnInv'
    <2>1. TurnInv /\ [Pipe!Next]_pipe_vars => PipeTypes'
      BY PipeTypesStep DEF TurnInv
    <2> QED BY <2>1, BarrierStep, FileStep, OthersStep DEF TurnInv
  <1>2. [Next]_vars => [Pipe!Next]_pipe_vars
    BY DEF Next, Runs, vars
  <1> QED BY <1>1, <1>2, TurnInit, TurnInvImplies, PTL DEF Spec

---------------------------------------------------------------------------
(* Sockets *)

SocketTypes ==
  /\ socket \in {"stream", "datagram"}
  /\ server \in {"bind", "listen", "accept", "copy", "close", "recvfrom", "sendto", "failed"}
  /\ serving \in SUBSET Client /\ queue \in Seq(Client)
  /\ sent \in [Client -> 0 .. num_lines]
  /\ buffer \in [Client -> Seq(Nat)] /\ out \in Seq(Client \X Nat)
  /\ socket_pc \in [Client -> {"start", "send", "recvfrom", "exit", "failed", "killed"}]

\* A client waits in the queue once, and not while it is served.
Queued(c) == \E k \in DOMAIN queue : queue[k] = c
InLine ==
  /\ \A c, d \in serving : c = d
  /\ \A j, k \in DOMAIN queue : queue[j] = queue[k] => j = k
  /\ \A c \in serving : ~Queued(c)

\* What has come out of a client's is numbered.
OutOf(c) == Cardinality(Socket!Of(c))
Numbered ==
  \A c \in Client : \A k \in Socket!Of(c) :
    out[k] = <<c, Cardinality({j \in Socket!Of(c) : j <= k})>>

\* A stream: a client's blocks are out or in its buffer, a client that is not
\* waiting any more has none left, and the client served is the last whose
\* blocks came out.
StreamOf(c) ==
  /\ Len(buffer[c]) + OutOf(c) = sent[c]
  /\ \A k \in DOMAIN buffer[c] : buffer[c][k] = OutOf(c) + k
  /\ socket_pc[c] \in {"start", "failed"} => sent[c] = 0 /\ c \notin serving /\ ~Queued(c)
  /\ c \notin serving /\ ~Queued(c) =>
       \/ socket_pc[c] \in {"start", "failed"}
       \/ socket_pc[c] \in {"exit", "killed"} /\ buffer[c] = <<>>
  /\ Queued(c) => Socket!Of(c) = {}
  /\ c \in serving /\ Socket!Of(c) # {} => Len(out) \in Socket!Of(c)

StreamKept ==
  Socket!Stream =>
    /\ server \in {"bind", "listen", "accept"} => serving = {}
    /\ server = "close" =>
         \A c \in serving : buffer[c] = <<>> /\ socket_pc[c] \in {"exit", "killed"}
    /\ \A c \in Client : StreamOf(c)

InPieces ==
  Socket!Stream =>
    \A i, j, k \in DOMAIN out : i < j /\ j < k /\ out[i][1] = out[k][1] => out[j][1] = out[i][1]

\* Datagrams: a client has one message or answer on its way at most.
DatagramOf(c) ==
  /\ c \in serving \/ Queued(c) => socket_pc[c] \in {"recvfrom", "killed"} /\ buffer[c] = <<>>
  /\ socket_pc[c] \in {"start", "send", "exit", "failed"} =>
       buffer[c] = <<>> /\ sent[c] = OutOf(c)
  /\ socket_pc[c] = "recvfrom" => sent[c] = OutOf(c) + 1
  /\ buffer[c] # <<>> => buffer[c] = <<sent[c]>>

DatagramKept == Socket!Datagram => \A c \in Client : DatagramOf(c)

\* Nothing has more in it than there is room for.
Room == /\ Socket!Stream => Len(queue) <= BACKLOG
        /\ \A c \in Client : Len(buffer[c]) <= pipe_size

SocketInv ==
  SocketTypes /\ InLine /\ Numbered /\ StreamKept /\ InPieces /\ DatagramKept /\ Room

LEMMA OutFinite ==
  ASSUME SocketTypes, NEW c
  PROVE  /\ Socket!Of(c) \subseteq 1 .. Len(out) /\ IsFiniteSet(Socket!Of(c))
         /\ OutOf(c) \in Nat /\ (OutOf(c) = 0 <=> Socket!Of(c) = {})
  <1>1. Len(out) \in Nat /\ DOMAIN out = 1 .. Len(out)
    BY DEF SocketTypes
  <1>2. Socket!Of(c) \subseteq 1 .. Len(out) /\ IsFiniteSet(1 .. Len(out))
    BY <1>1, FS_Interval DEF Socket!Of
  <1>3. IsFiniteSet(Socket!Of(c))
    BY <1>2, FS_Subset
  <1> QED BY <1>2, <1>3, FS_CardinalityType, FS_EmptySet DEF OutOf

\* The first in line is served,
LEMMA HeadServed ==
  ASSUME SocketTypes, InLine, queue # <<>>, serving' = {Head(queue)}, queue' = Tail(queue)
  PROVE  /\ serving' \in SUBSET Client /\ queue' \in Seq(Client) /\ InLine'
         /\ Len(queue') <= Len(queue)
         /\ \A c : Queued(c) <=> c \in serving' \/ Queued(c)'
  <1>1. /\ queue \in Seq(Client) /\ Len(queue) \in Nat \ {0} /\ DOMAIN queue = 1 .. Len(queue)
        /\ Head(queue) = queue[1] /\ Head(queue) \in Client
    BY DEF SocketTypes
  <1>2. /\ queue' \in Seq(Client) /\ Len(queue') = Len(queue) - 1
        /\ DOMAIN queue' = 1 .. Len(queue) - 1
        /\ \A k \in DOMAIN queue' : queue'[k] = queue[k + 1]
    BY <1>1
  <1>3. \A j, k \in DOMAIN queue : queue[j] = queue[k] => j = k
    BY DEF InLine
  <1>4. \A j, k \in DOMAIN queue' : queue'[j] = queue'[k] => j = k
    <2> SUFFICES ASSUME NEW j \in DOMAIN queue', NEW k \in DOMAIN queue', queue'[j] = queue'[k]
                 PROVE  j = k
      OBVIOUS
    <2>1. j + 1 \in DOMAIN queue /\ k + 1 \in DOMAIN queue /\ queue[j + 1] = queue[k + 1]
      BY <1>1, <1>2
    <2>2. j + 1 = k + 1 /\ j \in Nat /\ k \in Nat
      BY <1>1, <1>2, <1>3, <2>1
    <2> QED BY <2>2
  <1>5. ASSUME NEW c PROVE Queued(c) <=> c \in serving' \/ Queued(c)'
    <2>1. ASSUME Queued(c) PROVE c \in serving' \/ Queued(c)'
      <3>1. PICK k \in DOMAIN queue : queue[k] = c
        BY <2>1 DEF Queued
      <3>2. CASE k = 1
        BY <1>1, <3>1, <3>2
      <3>3. CASE k # 1
        <4>1. k - 1 \in DOMAIN queue' /\ queue'[k - 1] = c
          BY <1>1, <1>2, <3>1, <3>3
        <4> QED BY <4>1 DEF Queued
      <3> QED BY <3>2, <3>3
    <2>2. ASSUME Queued(c)' PROVE Queued(c)
      <3>1. PICK k \in DOMAIN queue' : queue'[k] = c
        BY <2>2 DEF Queued
      <3>2. k + 1 \in DOMAIN queue /\ queue[k + 1] = c
        BY <1>1, <1>2, <3>1
      <3> QED BY <3>2 DEF Queued
    <2>3. ASSUME c \in serving' PROVE Queued(c)
      BY <1>1, <2>3 DEF Queued
    <2> QED BY <2>1, <2>2, <2>3
  <1>6. ASSUME NEW c \in serving', Queued(c)' PROVE FALSE
    <2>1. PICK k \in DOMAIN queue' : queue'[k] = queue[1]
      BY <1>1, <1>6 DEF Queued
    <2>2. k + 1 \in DOMAIN queue /\ queue[k + 1] = queue[1] /\ 1 \in DOMAIN queue /\ k + 1 # 1
      BY <1>1, <1>2, <2>1
    <2> QED BY <1>3, <2>2
  <1>7. InLine'
    BY <1>4, <1>6 DEF InLine
  <1> QED BY <1>1, <1>2, <1>5, <1>7

\* and a client joins the line at its end.
LEMMA JoinsLine ==
  ASSUME SocketTypes, InLine, NEW c \in Client, c \notin serving, ~Queued(c),
         serving' = serving, queue' = Append(queue, c)
  PROVE  /\ queue' \in Seq(Client) /\ InLine' /\ Len(queue') = Len(queue) + 1
         /\ \A d : Queued(d)' <=> Queued(d) \/ d = c
  <1>1. /\ queue \in Seq(Client) /\ Len(queue) \in Nat /\ DOMAIN queue = 1 .. Len(queue)
        /\ queue' \in Seq(Client) /\ Len(queue') = Len(queue) + 1
        /\ DOMAIN queue' = 1 .. Len(queue) + 1
        /\ \A k \in DOMAIN queue : queue'[k] = queue[k]
        /\ queue'[Len(queue) + 1] = c
    BY DEF SocketTypes
  <1>2. \A k \in DOMAIN queue' : k \in DOMAIN queue \/ k = Len(queue) + 1
    BY <1>1
  <1>3. ASSUME NEW d PROVE Queued(d)' <=> Queued(d) \/ d = c
    <2>1. ASSUME Queued(d)' PROVE Queued(d) \/ d = c
      BY <1>1, <1>2, <2>1 DEF Queued
    <2>2. ASSUME Queued(d) PROVE Queued(d)'
      BY <1>1, <2>2 DEF Queued
    <2>3. Len(queue) + 1 \in DOMAIN queue'
      BY <1>1
    <2>4. ASSUME d = c PROVE Queued(d)'
      BY <1>1, <2>3, <2>4 DEF Queued
    <2> QED BY <2>1, <2>2, <2>4
  <1>4. InLine'
    BY <1>1, <1>2, <1>3 DEF InLine, Queued
  <1> QED BY <1>1, <1>3, <1>4

\* The next of a client's comes out.
LEMMA NextOut ==
  ASSUME SocketTypes, Numbered, NEW c \in Client, out' = Append(out, <<c, OutOf(c) + 1>>)
  PROVE  /\ out' \in Seq(Client \X Nat) /\ Numbered'
         /\ Len(out') = Len(out) + 1 /\ \A k \in DOMAIN out : out'[k] = out[k]
         /\ Socket!Of(c)' = Socket!Of(c) \cup {Len(out) + 1} /\ OutOf(c)' = OutOf(c) + 1
         /\ \A d : d # c => Socket!Of(d)' = Socket!Of(d) /\ OutOf(d)' = OutOf(d)
  <1> DEFINE L == Len(out) + 1
             n == OutOf(c) + 1
  <1>1. /\ out \in Seq(Client \X Nat) /\ Len(out) \in Nat /\ DOMAIN out = 1 .. Len(out)
        /\ n \in Nat /\ <<c, n>> \in Client \X Nat
    BY OutFinite DEF SocketTypes
  <1> HIDE DEF n
  <1>2. /\ out' \in Seq(Client \X Nat) /\ Len(out') = L /\ DOMAIN out' = 1 .. L
        /\ \A k \in DOMAIN out : out'[k] = out[k]
        /\ out'[L] = <<c, n>>
    BY <1>1 DEF n
  <1>3. DOMAIN out' = DOMAIN out \cup {L} /\ L \notin DOMAIN out
    BY <1>1, <1>2
  <1>4. Socket!Of(c)' = Socket!Of(c) \cup {L} /\ L \notin Socket!Of(c)
    BY <1>2, <1>3 DEF Socket!Of
  <1>5. \A d : d # c => Socket!Of(d)' = Socket!Of(d)
    BY <1>2, <1>3 DEF Socket!Of
  <1>6. IsFiniteSet(Socket!Of(c)) /\ Socket!Of(c) \subseteq 1 .. Len(out)
    BY OutFinite
  <1>7. OutOf(c)' = n
    <2>1. Cardinality(Socket!Of(c) \cup {L}) = Cardinality(Socket!Of(c)) + 1
      BY <1>4, <1>6, FS_AddElement
    <2> QED BY <1>4, <2>1 DEF OutOf, n
  <1>8. ASSUME NEW d \in Client, NEW k \in Socket!Of(d)'
        PROVE  out'[k] = <<d, Cardinality({j \in Socket!Of(d) : j <= k}')>>
    <2>1. CASE k = L
      <3>1. d = c
        BY <1>2, <1>8, <2>1 DEF Socket!Of
      <3>2. {j \in Socket!Of(d) : j <= k}' = Socket!Of(c)'
        <4>1. \A j \in Socket!Of(c)' : j <= L
          BY <1>1, <1>4, <1>6
        <4> QED BY <2>1, <3>1, <4>1
      <3> QED BY <1>2, <1>7, <2>1, <3>1, <3>2 DEF OutOf
    <2>2. CASE k # L
      <3>1. k \in Socket!Of(d) /\ k \in DOMAIN out
        BY <1>2, <1>3, <1>8, <2>2 DEF Socket!Of
      <3>2. {j \in Socket!Of(d) : j <= k}' = {j \in Socket!Of(d) : j <= k}
        <4>1. ~(L <= k)
          BY <1>1, <3>1
        <4>2. Socket!Of(d)' \subseteq Socket!Of(d) \cup {L} /\ Socket!Of(d) \subseteq Socket!Of(d)'
          BY <1>4, <1>5
        <4> QED BY <4>1, <4>2
      <3> QED BY <1>2, <3>1, <3>2 DEF Numbered
    <2> QED BY <2>1, <2>2
  <1>9. Numbered'
    BY <1>8 DEF Numbered
  <1> QED BY <1>2, <1>4, <1>5, <1>7, <1>9 DEF n, OutOf

\* As long as nothing comes out, what has stays as it is;
LEMMA OutStays ==
  ASSUME out' = out, socket' = socket
  PROVE  /\ \A d : Socket!Of(d)' = Socket!Of(d) /\ OutOf(d)' = OutOf(d)
         /\ Numbered => Numbered'
         /\ InPieces => InPieces'
  <1>1. \A d : Socket!Of(d)' = Socket!Of(d)
    BY DEF Socket!Of
  <1>2. \A d : OutOf(d)' = OutOf(d)
    BY <1>1 DEF OutOf
  <1>3. ASSUME Numbered PROVE Numbered'
    BY <1>1, <1>3 DEF Numbered
  <1>4. ASSUME InPieces PROVE InPieces'
    BY <1>4 DEF InPieces, Socket!Stream
  <1> QED BY <1>1, <1>2, <1>3, <1>4

\* and so does the line as long as nobody enters or leaves it.
LEMMA LineStays ==
  ASSUME queue' = queue, serving' = serving
  PROVE  (\A d : Queued(d)' = Queued(d)) /\ InLine' = InLine
  BY DEF Queued, InLine

LEMMA SocketInit == Socket!Init => SocketInv
  <1> SUFFICES ASSUME Socket!Init PROVE SocketInv
    OBVIOUS
  <1> USE DEF Socket!Init
  <1>1. SocketTypes
    BY PipesAssumption DEF SocketTypes
  <1>2. \A d : Socket!Of(d) = {} /\ ~Queued(d)
    BY DEF Socket!Of, Queued
  <1>3. \A d : OutOf(d) = 0
    BY <1>2, FS_EmptySet DEF OutOf
  <1>4. InLine /\ Numbered /\ InPieces
    BY <1>2 DEF InLine, Numbered, InPieces
  <1>5. StreamKept /\ DatagramKept
    BY <1>2, <1>3 DEF StreamKept, StreamOf, DatagramKept, DatagramOf
  <1>6. Room
    BY PipesAssumption, ClientAssumption DEF Room
  <1> QED BY <1>1, <1>4, <1>5, <1>6 DEF SocketInv

\* The steps of the server of streams.
LEMMA StreamServerStep == SocketInv /\ Socket!us_xfr_server => SocketInv'
  <1> SUFFICES ASSUME SocketInv, Socket!us_xfr_server PROVE SocketInv'
    OBVIOUS
  <1> USE DEF Socket!Server
  <1>0. /\ SocketTypes /\ InLine /\ Numbered /\ StreamKept /\ InPieces /\ Room
        /\ socket = "stream" /\ UNCHANGED <<socket, sent, socket_pc>>
        /\ Socket!Stream' /\ ~Socket!Datagram' /\ Socket!Stream
    BY DEF SocketInv, Socket!us_xfr_server, Socket!Stream, Socket!Datagram, Socket!bind,
       Socket!listen, Socket!accept, Socket!Copy, Socket!CopyEOF, Socket!close
  <1>d. DatagramKept'
    BY <1>0 DEF DatagramKept
  <1>1. CASE Socket!bind \/ Socket!listen \/ Socket!CopyEOF
    <2>1. /\ UNCHANGED <<queue, buffer, out, serving>>
          /\ \/ server \in {"bind", "listen"} /\ server' \in {"listen", "accept"}
             \/ /\ server' = "close"
                /\ \E c \in serving : buffer[c] = <<>> /\ socket_pc[c] \in {"exit", "killed"}
      BY <1>0, <1>1 DEF Socket!bind, Socket!listen, Socket!CopyEOF
    <2>2. /\ \A d : Socket!Of(d)' = Socket!Of(d) /\ OutOf(d)' = OutOf(d)
          /\ \A d : Queued(d)' = Queued(d)
          /\ Numbered' /\ InPieces' /\ InLine'
      BY <1>0, <2>1, OutStays, LineStays
    <2>3. SocketTypes' /\ Room'
      BY <1>0, <2>1 DEF SocketTypes, Room
    <2>4. \A c \in Client : StreamOf(c)'
      BY <1>0, <2>1, <2>2 DEF StreamKept, StreamOf
    <2>5. StreamKept'
      BY <1>0, <2>1, <2>4 DEF StreamKept, InLine
    <2> QED BY <1>d, <2>2, <2>3, <2>5 DEF SocketInv
  <1>2. CASE Socket!accept
    <2>1. /\ queue # <<>> /\ server = "accept" /\ server' = "copy"
          /\ serving' = {Head(queue)} /\ queue' = Tail(queue) /\ UNCHANGED <<buffer, out>>
      BY <1>2 DEF Socket!accept
    <2>2. /\ \A d : Socket!Of(d)' = Socket!Of(d) /\ OutOf(d)' = OutOf(d)
          /\ Numbered' /\ InPieces'
      BY <1>0, <2>1, OutStays
    <2>3. /\ serving' \in SUBSET Client /\ queue' \in Seq(Client) /\ InLine'
          /\ Len(queue') <= Len(queue) /\ Len(queue') \in Nat /\ Len(queue) \in Nat
          /\ \A c : Queued(c) <=> c \in serving' \/ Queued(c)'
      <3>1. queue \in Seq(Client)
        BY <1>0 DEF SocketTypes
      <3> QED BY <1>0, <2>1, <3>1, HeadServed
    <2>4. serving = {}
      BY <1>0, <2>1 DEF StreamKept
    <2>5. SocketTypes' /\ Room'
      BY <1>0, <2>1, <2>3, ClientAssumption DEF SocketTypes, Room
    <2>6. \A c \in Client : StreamOf(c)'
      BY <1>0, <2>1, <2>2, <2>3, <2>4 DEF StreamKept, StreamOf
    <2>7. StreamKept'
      BY <1>0, <2>1, <2>6 DEF StreamKept
    <2> QED BY <1>d, <2>2, <2>3, <2>5, <2>7 DEF SocketInv
  <1>3. CASE Socket!Copy
    <2>1. PICK c \in serving : /\ buffer[c] # <<>>
                               /\ out' = Append(out, <<c, Head(buffer[c])>>)
                               /\ buffer' = [buffer EXCEPT ![c] = Tail(@)]
      BY <1>3 DEF Socket!Copy, Socket!Take
    <2>2. server' = "copy" /\ UNCHANGED <<serving, queue>> /\ c \in Client
      BY <1>0, <1>3 DEF Socket!Copy, SocketTypes
    <2>3. /\ buffer[c] \in Seq(Nat) /\ Len(buffer[c]) \in Nat \ {0}
          /\ DOMAIN buffer[c] = 1 .. Len(buffer[c])
          /\ Tail(buffer[c]) \in Seq(Nat) /\ Len(Tail(buffer[c])) = Len(buffer[c]) - 1
          /\ \A k \in 1 .. Len(buffer[c]) - 1 : Tail(buffer[c])[k] = buffer[c][k + 1]
          /\ DOMAIN Tail(buffer[c]) = 1 .. Len(buffer[c]) - 1
          /\ Head(buffer[c]) = buffer[c][1]
      BY <1>0, <2>1, <2>2 DEF SocketTypes
    <2>4. StreamOf(c) /\ \A d \in Client : StreamOf(d)
      BY <1>0, <2>2 DEF StreamKept
    <2>5. Head(buffer[c]) = OutOf(c) + 1
      BY <2>3, <2>4 DEF StreamOf
    <2>6. /\ out' \in Seq(Client \X Nat) /\ Numbered'
          /\ Len(out') = Len(out) + 1 /\ \A k \in DOMAIN out : out'[k] = out[k]
          /\ Socket!Of(c)' = Socket!Of(c) \cup {Len(out) + 1} /\ OutOf(c)' = OutOf(c) + 1
          /\ \A d : d # c => Socket!Of(d)' = Socket!Of(d) /\ OutOf(d)' = OutOf(d)
      BY <1>0, <2>1, <2>2, <2>5, NextOut
    <2>7. (\A d : Queued(d)' = Queued(d)) /\ InLine'
      BY <1>0, <2>2, LineStays
    <2>8. SocketTypes'
      BY <1>0, <2>1, <2>2, <2>3, <2>6 DEF SocketTypes
    <2>9. \A d \in Client : Len(buffer'[d]) \in Nat /\ Len(buffer'[d]) <= Len(buffer[d])
      BY <1>0, <2>1, <2>2, <2>3 DEF SocketTypes
    <2>10. Room'
      BY <1>0, <2>2, <2>9, PipesAssumption DEF Room, SocketTypes
    <2>11. \A d \in serving : d = c
      BY <1>0 DEF InLine
    <2>12. ASSUME NEW d \in Client, d # c PROVE StreamOf(d)'
      BY <1>0, <2>1, <2>2, <2>4, <2>6, <2>7, <2>11, <2>12 DEF StreamOf, SocketTypes
    <2>13. StreamOf(c)'
      <3>1. OutOf(c) \in Nat /\ sent[c] \in Nat /\ buffer'[c] = Tail(buffer[c])
        BY <1>0, <2>1, <2>2, OutFinite DEF SocketTypes
      <3>2. Len(buffer'[c]) + OutOf(c)' = sent'[c]
        BY <1>0, <2>3, <2>4, <2>6, <3>1 DEF StreamOf
      <3>3. \A k \in DOMAIN buffer'[c] : buffer'[c][k] = OutOf(c)' + k
        <4> SUFFICES ASSUME NEW k \in 1 .. Len(buffer[c]) - 1
                     PROVE  buffer'[c][k] = OutOf(c)' + k
          BY <2>3, <3>1
        <4>1. k \in Nat /\ k + 1 \in DOMAIN buffer[c] /\ buffer'[c][k] = buffer[c][k + 1]
          BY <2>3, <3>1
        <4>2. buffer[c][k + 1] = OutOf(c) + (k + 1)
          BY <2>4, <4>1 DEF StreamOf
        <4> QED BY <2>6, <3>1, <4>1, <4>2
      <3>4. ~Queued(c) /\ ~Queued(c)' /\ socket_pc[c] \notin {"start", "failed"}
        BY <1>0, <2>4, <2>7 DEF StreamOf, InLine
      <3>5. Len(out') \in Socket!Of(c)'
        BY <2>6
      <3> QED BY <1>0, <2>2, <3>2, <3>3, <3>4, <3>5 DEF StreamOf
    <2>14. StreamKept'
      BY <2>2, <2>12, <2>13 DEF StreamKept
    <2>15. InPieces'
      <3>1. Len(out) \in Nat /\ DOMAIN out = 1 .. Len(out) /\ DOMAIN out' = 1 .. Len(out) + 1
        BY <1>0, <2>6 DEF SocketTypes
      <3>2. \A i \in DOMAIN out : out[i][1] = c => out[Len(out)][1] = c
        BY <2>4, <3>1 DEF StreamOf, Socket!Of
      <3>3. out'[Len(out) + 1][1] = c
        BY <1>0, <2>1, <2>2, <2>5, OutFinite DEF SocketTypes
      <3> SUFFICES ASSUME NEW i \in DOMAIN out', NEW j \in DOMAIN out', NEW k \in DOMAIN out',
                          i < j, j < k, out'[i][1] = out'[k][1]
                   PROVE  out'[j][1] = out'[i][1]
        BY DEF InPieces
      <3>4. i \in DOMAIN out /\ j \in DOMAIN out /\ out'[i] = out[i] /\ out'[j] = out[j]
        BY <2>6, <3>1
      <3>5. \A x, y, z \in DOMAIN out : x < y /\ y < z /\ out[x][1] = out[z][1]
              => out[y][1] = out[x][1]
        BY <1>0 DEF InPieces
      <3>6. CASE k \in DOMAIN out
        BY <2>6, <3>4, <3>5, <3>6
      <3>7. CASE k = Len(out) + 1
        <4>1. out[i][1] = c /\ out[Len(out)][1] = c
          BY <3>2, <3>3, <3>4, <3>7
        <4>2. CASE j = Len(out)
          BY <3>4, <4>1, <4>2
        <4>3. CASE j < Len(out)
          BY <3>1, <3>4, <3>5, <4>1, <4>3
        <4> QED BY <3>1, <3>4, <4>2, <4>3
      <3> QED BY <3>1, <3>6, <3>7
    <2> QED BY <1>d, <2>6, <2>7, <2>8, <2>10, <2>14, <2>15 DEF SocketInv
  <1>4. CASE Socket!close
    <2>1. /\ server = "close" /\ server' = "accept" /\ serving' = {}
          /\ UNCHANGED <<queue, buffer, out>>
      BY <1>4 DEF Socket!close
    <2>2. /\ \A d : Socket!Of(d)' = Socket!Of(d) /\ OutOf(d)' = OutOf(d)
          /\ Numbered' /\ InPieces'
      BY <1>0, <2>1, OutStays
    <2>3. (\A d : Queued(d)' = Queued(d)) /\ InLine'
      BY <1>0, <2>1 DEF Queued, InLine
    <2>4. SocketTypes' /\ Room'
      BY <1>0, <2>1 DEF SocketTypes, Room
    <2>5. \A c \in Client : StreamOf(c)'
      BY <1>0, <2>1, <2>2, <2>3 DEF StreamKept, StreamOf
    <2>6. StreamKept'
      BY <1>0, <2>1, <2>5 DEF StreamKept
    <2> QED BY <1>d, <2>2, <2>3, <2>4, <2>6 DEF SocketInv
  <1> QED BY <1>1, <1>2, <1>3, <1>4 DEF Socket!us_xfr_server

\* The steps of a client of it.
LEMMA StreamClientStep == \A c \in Client : SocketInv /\ Socket!us_xfr_client(c) => SocketInv'
  <1> SUFFICES ASSUME SocketInv, NEW c \in Client, Socket!us_xfr_client(c) PROVE SocketInv'
    OBVIOUS
  <1> USE DEF Socket!Goto
  <1>0. /\ SocketTypes /\ InLine /\ Numbered /\ StreamKept /\ InPieces /\ Room
        /\ socket = "stream" /\ UNCHANGED <<socket, server, serving, out>>
        /\ Socket!Stream' /\ ~Socket!Datagram' /\ Socket!Stream
    BY DEF SocketInv, Socket!us_xfr_client, Socket!Stream, Socket!Datagram, Socket!connect,
       Socket!SendBlock, Socket!Eof
  <1>1. /\ \A d : Socket!Of(d)' = Socket!Of(d) /\ OutOf(d)' = OutOf(d)
        /\ Numbered' /\ InPieces' /\ DatagramKept'
    BY <1>0, OutStays DEF DatagramKept
  <1>2. \A d \in Client : StreamOf(d) /\ OutOf(d) \in Nat /\ (OutOf(d) = 0 <=> Socket!Of(d) = {})
    BY <1>0, OutFinite DEF StreamKept
  <1>3. CASE Socket!connect(c)
    <2>1. /\ socket_pc[c] = "start" /\ UNCHANGED <<sent, buffer>>
          /\ \/ /\ queue' = Append(queue, c) /\ Len(queue) < BACKLOG
                /\ socket_pc' = [socket_pc EXCEPT ![c] = "send"]
             \/ queue' = queue /\ socket_pc' = [socket_pc EXCEPT ![c] = "failed"]
      BY <1>3 DEF Socket!connect
    <2>2. c \notin serving /\ ~Queued(c) /\ sent[c] = 0
      BY <1>2, <2>1 DEF StreamOf
    <2>3. Socket!Of(c) = {}
      <3>1. Len(buffer[c]) \in Nat /\ Len(buffer[c]) + OutOf(c) = 0
        BY <1>0, <1>2, <2>2 DEF StreamOf, SocketTypes
      <3> QED BY <1>2, <3>1
    <2>4. /\ queue' \in Seq(Client) /\ InLine'
          /\ \A d : d # c => (Queued(d)' <=> Queued(d))
          /\ Len(queue') <= BACKLOG
          /\ socket_pc'[c] = "failed" => ~Queued(c)'
          /\ socket_pc'[c] = "send" => Queued(c)'
          /\ socket_pc'[c] \in {"send", "failed"}
      <3>0. Len(queue) \in Nat /\ BACKLOG \in Nat /\ Len(queue) <= BACKLOG /\ queue \in Seq(Client)
        BY <1>0, ClientAssumption DEF SocketTypes, Room
      <3>1. CASE queue' = queue /\ socket_pc' = [socket_pc EXCEPT ![c] = "failed"]
        <4>1. (\A d : Queued(d)' = Queued(d)) /\ InLine'
          BY <1>0, <3>1, LineStays
        <4> QED BY <1>0, <2>2, <3>0, <3>1, <4>1 DEF SocketTypes
      <3>2. CASE /\ queue' = Append(queue, c) /\ Len(queue) < BACKLOG
                 /\ socket_pc' = [socket_pc EXCEPT ![c] = "send"]
        <4>1. /\ queue' \in Seq(Client) /\ InLine' /\ Len(queue') = Len(queue) + 1
              /\ \A d : Queued(d)' <=> Queued(d) \/ d = c
          BY <1>0, <2>2, <3>2, JoinsLine
        <4>2. Len(queue') <= BACKLOG /\ Queued(c)'
          BY <3>0, <3>2, <4>1
        <4>3. socket_pc'[c] = "send"
          BY <1>0, <3>2 DEF SocketTypes
        <4> QED BY <4>1, <4>2, <4>3
      <3> QED BY <2>1, <3>1, <3>2
    <2>5. SocketTypes' /\ Room'
      BY <1>0, <2>1, <2>4 DEF SocketTypes, Room
    <2>6. ASSUME NEW d \in Client, d # c PROVE StreamOf(d)'
      BY <1>0, <1>1, <1>2, <2>1, <2>4, <2>6 DEF StreamOf, SocketTypes
    <2>7. StreamOf(c)'
      BY <1>0, <1>1, <1>2, <2>1, <2>2, <2>3, <2>4 DEF StreamOf, SocketTypes
    <2>8. StreamKept'
      BY <1>0, <2>1, <2>2, <2>6, <2>7 DEF StreamKept, SocketTypes
    <2> QED BY <1>1, <2>4, <2>5, <2>8 DEF SocketInv
  <1>4. CASE Socket!SendBlock(c)
    <2>1. /\ socket_pc[c] = "send" /\ sent[c] < num_lines /\ Len(buffer[c]) < pipe_size
          /\ sent' = [sent EXCEPT ![c] = @ + 1]
          /\ buffer' = [buffer EXCEPT ![c] = Append(@, sent[c] + 1)]
          /\ UNCHANGED <<queue, socket_pc>>
      BY <1>4 DEF Socket!SendBlock, Socket!Put
    <2>2. (\A d : Queued(d)' = Queued(d)) /\ InLine'
      BY <1>0, <2>1, LineStays
    <2>3. /\ buffer[c] \in Seq(Nat) /\ Len(buffer[c]) \in Nat /\ sent[c] \in Nat
          /\ DOMAIN buffer[c] = 1 .. Len(buffer[c])
          /\ Append(buffer[c], sent[c] + 1) \in Seq(Nat)
          /\ Len(Append(buffer[c], sent[c] + 1)) = Len(buffer[c]) + 1
          /\ DOMAIN Append(buffer[c], sent[c] + 1) = 1 .. Len(buffer[c]) + 1
          /\ \A k \in 1 .. Len(buffer[c]) : Append(buffer[c], sent[c] + 1)[k] = buffer[c][k]
          /\ Append(buffer[c], sent[c] + 1)[Len(buffer[c]) + 1] = sent[c] + 1
      BY <1>0 DEF SocketTypes
    <2>4. buffer'[c] = Append(buffer[c], sent[c] + 1) /\ sent'[c] = sent[c] + 1
      BY <1>0, <2>1 DEF SocketTypes
    <2>5. num_lines \in Nat /\ pipe_size \in Nat
      BY PipesAssumption
    <2>6. SocketTypes'
      <3>1. sent' \in [Client -> 0 .. num_lines]
        BY <1>0, <2>1, <2>3, <2>5 DEF SocketTypes
      <3>2. buffer' \in [Client -> Seq(Nat)]
        BY <1>0, <2>1, <2>3 DEF SocketTypes
      <3> QED BY <1>0, <2>1, <3>1, <3>2 DEF SocketTypes
    <2>7. Room'
      <3>1. ASSUME NEW d \in Client PROVE Len(buffer'[d]) <= pipe_size
        <4>1. CASE d = c
          BY <2>1, <2>3, <2>4, <2>5, <4>1
        <4>2. CASE d # c
          BY <1>0, <2>1, <4>2 DEF Room, SocketTypes
        <4> QED BY <4>1, <4>2
      <3> QED BY <1>0, <2>1, <3>1 DEF Room
    <2>8. ASSUME NEW d \in Client, d # c PROVE StreamOf(d)'
      BY <1>0, <1>1, <1>2, <2>1, <2>2, <2>8 DEF StreamOf, SocketTypes
    <2>9. StreamOf(c)'
      <3>1. Len(buffer'[c]) + OutOf(c)' = sent'[c]
        BY <1>1, <1>2, <2>3, <2>4 DEF StreamOf
      <3>2. \A k \in DOMAIN buffer'[c] : buffer'[c][k] = OutOf(c)' + k
        <4>1. sent[c] + 1 = OutOf(c) + (Len(buffer[c]) + 1)
          BY <1>2, <2>3 DEF StreamOf
        <4>2. \A k \in 1 .. Len(buffer[c]) : buffer[c][k] = OutOf(c) + k
          BY <1>2, <2>3 DEF StreamOf
        <4>3. \A k \in DOMAIN buffer'[c] : k \in 1 .. Len(buffer[c]) \/ k = Len(buffer[c]) + 1
          BY <2>3, <2>4
        <4> QED BY <1>1, <2>3, <2>4, <4>1, <4>2, <4>3
      <3>3. c \in serving \/ Queued(c)
        BY <1>2, <2>1 DEF StreamOf
      <3> QED BY <1>0, <1>1, <1>2, <2>1, <2>2, <3>1, <3>2, <3>3 DEF StreamOf
    <2>10. StreamKept'
      <3>1. server = "close" => c \notin serving
        BY <1>0, <2>1 DEF StreamKept
      <3> QED BY <1>0, <2>1, <2>8, <2>9, <3>1 DEF StreamKept, SocketTypes
    <2> QED BY <1>1, <2>2, <2>6, <2>7, <2>10 DEF SocketInv
  <1>5. CASE Socket!Eof(c)
    <2>1. /\ socket_pc[c] = "send" /\ socket_pc' = [socket_pc EXCEPT ![c] = "exit"]
          /\ UNCHANGED <<queue, buffer, sent>>
      BY <1>5 DEF Socket!Eof
    <2>2. (\A d : Queued(d)' = Queued(d)) /\ InLine'
      BY <1>0, <2>1, LineStays
    <2>3. SocketTypes' /\ Room'
      BY <1>0, <2>1 DEF SocketTypes, Room
    <2>4. c \in serving \/ Queued(c)
      BY <1>2, <2>1 DEF StreamOf
    <2>5. \A d \in Client : StreamOf(d)'
      BY <1>0, <1>1, <1>2, <2>1, <2>2, <2>4 DEF StreamOf, SocketTypes
    <2>6. StreamKept'
      BY <1>0, <2>1, <2>5 DEF StreamKept, SocketTypes
    <2> QED BY <1>1, <2>2, <2>3, <2>6 DEF SocketInv
  <1> QED BY <1>3, <1>4, <1>5 DEF Socket!us_xfr_client

\* The steps of the server of datagrams,
LEMMA DatagramServerStep == SocketInv /\ Socket!ud_ucase_server => SocketInv'
  <1> SUFFICES ASSUME SocketInv, Socket!ud_ucase_server PROVE SocketInv'
    OBVIOUS
  <1> USE DEF Socket!Server
  <1>0. /\ SocketTypes /\ InLine /\ Numbered /\ DatagramKept /\ InPieces /\ Room
        /\ socket = "datagram" /\ UNCHANGED <<socket, sent, socket_pc, out>>
        /\ ~Socket!Stream' /\ Socket!Datagram' /\ Socket!Datagram
    BY DEF SocketInv, Socket!ud_ucase_server, Socket!Stream, Socket!Datagram, Socket!bind,
       Socket!RecvRequest, Socket!SendReply
  <1>1. /\ \A d : Socket!Of(d)' = Socket!Of(d) /\ OutOf(d)' = OutOf(d)
        /\ Numbered' /\ InPieces' /\ StreamKept'
    BY <1>0, OutStays DEF StreamKept
  <1>2. \A d \in Client : DatagramOf(d)
    BY <1>0 DEF DatagramKept
  <1>3. CASE Socket!bind
    <2>1. UNCHANGED <<queue, buffer, serving>> /\ server' \in {"listen", "recvfrom"}
      BY <1>3 DEF Socket!bind
    <2>2. (\A d : Queued(d)' = Queued(d)) /\ InLine'
      BY <1>0, <2>1, LineStays
    <2>3. SocketTypes' /\ Room'
      BY <1>0, <2>1 DEF SocketTypes, Room
    <2>4. \A d \in Client : DatagramOf(d)'
      BY <1>0, <1>1, <1>2, <2>1, <2>2 DEF DatagramOf
    <2> QED BY <1>1, <2>2, <2>3, <2>4 DEF SocketInv, DatagramKept
  <1>4. CASE Socket!RecvRequest
    <2>1. /\ queue # <<>> /\ server' = "sendto" /\ UNCHANGED buffer
          /\ serving' = {Head(queue)} /\ queue' = Tail(queue)
      BY <1>4 DEF Socket!RecvRequest
    <2>2. /\ serving' \in SUBSET Client /\ queue' \in Seq(Client) /\ InLine'
          /\ \A c : Queued(c) <=> c \in serving' \/ Queued(c)'
      BY <1>0, <2>1, HeadServed
    <2>3. SocketTypes' /\ Room'
      BY <1>0, <2>1, <2>2 DEF SocketTypes, Room
    <2>4. \A d \in Client : DatagramOf(d)'
      BY <1>0, <1>1, <1>2, <2>1, <2>2 DEF DatagramOf
    <2> QED BY <1>1, <2>2, <2>3, <2>4 DEF SocketInv, DatagramKept
  <1>5. CASE Socket!SendReply
    <2>1. PICK c \in serving :
            /\ \/ /\ socket_pc[c] = "recvfrom" /\ server' = "recvfrom"
                  /\ buffer' = [buffer EXCEPT ![c] = Append(@, sent[c])]
               \/ server' = "failed" /\ UNCHANGED buffer
            /\ serving' = {} /\ UNCHANGED queue
      BY <1>5 DEF Socket!SendReply, Socket!Put
    <2>2. c \in Client /\ sent[c] \in Nat /\ buffer[c] = <<>> /\ ~Queued(c)
      BY <1>0, <1>2, PipesAssumption DEF SocketTypes, DatagramOf, InLine
    <2>3. (\A d : Queued(d)' = Queued(d)) /\ InLine'
      BY <1>0, <2>1 DEF Queued, InLine
    <2>4. Append(<<>>, sent[c]) = <<sent[c]>> /\ <<sent[c]>> \in Seq(Nat) /\ Len(<<sent[c]>>) = 1
      BY <2>2
    <2>5. /\ buffer' \in [Client -> Seq(Nat)]
          /\ \A d \in Client : d # c => buffer'[d] = buffer[d]
          /\ \/ buffer'[c] = <<>>
             \/ buffer'[c] = <<sent[c]>> /\ socket_pc[c] = "recvfrom"
      BY <1>0, <2>1, <2>2, <2>4 DEF SocketTypes
    <2>6. SocketTypes'
      BY <1>0, <2>1, <2>5 DEF SocketTypes
    <2>7. Room'
      <3>1. ASSUME NEW d \in Client PROVE Len(buffer'[d]) <= pipe_size
        <4>1. buffer'[d] = buffer[d] \/ Len(buffer'[d]) = 1
          BY <2>2, <2>4, <2>5
        <4>2. pipe_size >= 1
          BY PipesAssumption
        <4>3. Len(buffer[d]) <= pipe_size
          BY <1>0 DEF Room
        <4> QED BY <4>1, <4>2, <4>3
      <3> QED BY <1>0, <3>1 DEF Room
    <2>8. ASSUME NEW d \in Client, d # c PROVE DatagramOf(d)'
      BY <1>0, <1>1, <1>2, <2>1, <2>3, <2>5, <2>8 DEF DatagramOf
    <2>9. DatagramOf(c)'
      BY <1>0, <1>1, <1>2, <2>1, <2>2, <2>3, <2>5 DEF DatagramOf
    <2> QED BY <1>1, <2>3, <2>6, <2>7, <2>8, <2>9 DEF SocketInv, DatagramKept
  <1> QED BY <1>3, <1>4, <1>5 DEF Socket!ud_ucase_server

\* and those of a client of it.
LEMMA DatagramClientStep ==
  \A c \in Client : SocketInv /\ Socket!ud_ucase_client(c) => SocketInv'
  <1> SUFFICES ASSUME SocketInv, NEW c \in Client, Socket!ud_ucase_client(c) PROVE SocketInv'
    OBVIOUS
  <1> USE DEF Socket!Goto
  <1>0. /\ SocketTypes /\ InLine /\ Numbered /\ DatagramKept /\ InPieces /\ Room
        /\ socket = "datagram" /\ UNCHANGED <<socket, server, serving>>
        /\ ~Socket!Stream' /\ Socket!Datagram' /\ Socket!Datagram
        /\ StreamKept' /\ InPieces'
    BY DEF SocketInv, Socket!ud_ucase_client, Socket!Stream, Socket!Datagram, Socket!bindClient,
       Socket!SendRequest, Socket!RecvReply, Socket!Eof, StreamKept, InPieces
  <1>2. \A d \in Client : DatagramOf(d) /\ OutOf(d) \in Nat
    BY <1>0, OutFinite DEF DatagramKept
  <1>3. CASE Socket!bindClient(c) \/ Socket!Eof(c)
    <2>1. /\ socket_pc[c] \in {"start", "send"}
          /\ \E to \in {"send", "exit"} : socket_pc' = [socket_pc EXCEPT ![c] = to]
          /\ UNCHANGED <<queue, buffer, sent, out>>
      BY <1>3 DEF Socket!bindClient, Socket!Eof
    <2>2. (\A d : Queued(d)' = Queued(d)) /\ InLine'
      BY <1>0, <2>1, LineStays
    <2>3. (\A d : Socket!Of(d)' = Socket!Of(d) /\ OutOf(d)' = OutOf(d)) /\ Numbered'
      BY <1>0, <2>1, OutStays
    <2>4. SocketTypes' /\ Room'
      BY <1>0, <2>1 DEF SocketTypes, Room
    <2>5. \A d \in Client : DatagramOf(d)'
      BY <1>0, <1>2, <2>1, <2>2, <2>3 DEF DatagramOf, SocketTypes
    <2> QED BY <1>0, <2>2, <2>3, <2>4, <2>5 DEF SocketInv, DatagramKept
  <1>4. CASE Socket!SendRequest(c)
    <2>1. /\ socket_pc[c] = "send" /\ sent[c] < num_lines /\ UNCHANGED <<buffer, out>>
          /\ \/ /\ socket_pc' = [socket_pc EXCEPT ![c] = "recvfrom"]
                /\ queue' = Append(queue, c) /\ sent' = [sent EXCEPT ![c] = @ + 1]
             \/ /\ socket_pc' = [socket_pc EXCEPT ![c] = "failed"]
                /\ UNCHANGED <<queue, sent>>
      BY <1>4 DEF Socket!SendRequest
    <2>2. (\A d : Socket!Of(d)' = Socket!Of(d) /\ OutOf(d)' = OutOf(d)) /\ Numbered'
      BY <1>0, <2>1, OutStays
    <2>3. c \notin serving /\ ~Queued(c) /\ buffer[c] = <<>> /\ sent[c] = OutOf(c)
      BY <1>2, <2>1 DEF DatagramOf
    <2>4. CASE /\ socket_pc' = [socket_pc EXCEPT ![c] = "failed"]
               /\ UNCHANGED <<queue, sent>>
      <3>1. (\A d : Queued(d)' = Queued(d)) /\ InLine'
        BY <1>0, <2>4, LineStays
      <3>2. SocketTypes' /\ Room'
        BY <1>0, <2>1, <2>4 DEF SocketTypes, Room
      <3>3. \A d \in Client : DatagramOf(d)'
        BY <1>0, <1>2, <2>1, <2>2, <2>3, <2>4, <3>1 DEF DatagramOf, SocketTypes
      <3> QED BY <1>0, <2>2, <3>1, <3>2, <3>3 DEF SocketInv, DatagramKept
    <2>5. CASE /\ socket_pc' = [socket_pc EXCEPT ![c] = "recvfrom"]
               /\ queue' = Append(queue, c) /\ sent' = [sent EXCEPT ![c] = @ + 1]
      <3>1. /\ queue' \in Seq(Client) /\ InLine'
            /\ \A d : Queued(d)' <=> Queued(d) \/ d = c
        BY <1>0, <2>3, <2>5, JoinsLine
      <3>2. sent' \in [Client -> 0 .. num_lines] /\ sent'[c] = sent[c] + 1
        BY <1>0, <2>1, <2>5, PipesAssumption DEF SocketTypes
      <3>3. SocketTypes' /\ Room'
        BY <1>0, <2>1, <2>5, <3>1, <3>2 DEF SocketTypes, Room
      <3>4. ASSUME NEW d \in Client, d # c PROVE DatagramOf(d)'
        BY <1>0, <1>2, <2>1, <2>2, <2>5, <3>1, <3>4 DEF DatagramOf, SocketTypes
      <3>5. DatagramOf(c)'
        BY <1>0, <1>2, <2>1, <2>2, <2>3, <2>5, <3>1, <3>2 DEF DatagramOf, SocketTypes
      <3> QED BY <1>0, <2>2, <3>1, <3>3, <3>4, <3>5 DEF SocketInv, DatagramKept
    <2> QED BY <2>1, <2>4, <2>5
  <1>5. CASE Socket!RecvReply(c)
    <2>1. /\ buffer[c] # <<>> /\ socket_pc[c] = "recvfrom"
          /\ socket_pc' = [socket_pc EXCEPT ![c] = "send"]
          /\ out' = Append(out, <<c, Head(buffer[c])>>)
          /\ buffer' = [buffer EXCEPT ![c] = Tail(@)] /\ UNCHANGED <<queue, sent>>
      BY <1>5 DEF Socket!RecvReply, Socket!Take
    <2>2. /\ buffer[c] = <<sent[c]>> /\ sent[c] = OutOf(c) + 1 /\ sent[c] \in Nat
          /\ c \notin serving /\ ~Queued(c)
      BY <1>0, <1>2, <2>1 DEF DatagramOf, SocketTypes
    <2>3. Head(buffer[c]) = OutOf(c) + 1 /\ Tail(buffer[c]) = <<>> /\ <<>> \in Seq(Nat)
          /\ Len(<<>>) = 0
      BY <2>2
    <2>4. /\ out' \in Seq(Client \X Nat) /\ Numbered' /\ OutOf(c)' = OutOf(c) + 1
          /\ \A d : d # c => Socket!Of(d)' = Socket!Of(d) /\ OutOf(d)' = OutOf(d)
      BY <1>0, <2>1, <2>3, NextOut
    <2>5. (\A d : Queued(d)' = Queued(d)) /\ InLine'
      BY <1>0, <2>1, LineStays
    <2>6. /\ buffer' \in [Client -> Seq(Nat)] /\ buffer'[c] = <<>>
          /\ \A d \in Client : d # c => buffer'[d] = buffer[d]
      BY <1>0, <2>1, <2>3 DEF SocketTypes
    <2>7. SocketTypes'
      BY <1>0, <2>1, <2>4, <2>6 DEF SocketTypes
    <2>8. Room'
      <3>1. ASSUME NEW d \in Client PROVE Len(buffer'[d]) <= pipe_size
        BY <1>0, <2>3, <2>6, PipesAssumption DEF Room
      <3> QED BY <1>0, <3>1 DEF Room
    <2>9. ASSUME NEW d \in Client, d # c PROVE DatagramOf(d)'
      BY <1>0, <1>2, <2>1, <2>4, <2>5, <2>6, <2>9 DEF DatagramOf, SocketTypes
    <2>10. DatagramOf(c)'
      BY <1>0, <1>2, <2>1, <2>2, <2>4, <2>5, <2>6 DEF DatagramOf, SocketTypes
    <2> QED BY <1>0, <2>4, <2>5, <2>7, <2>8, <2>9, <2>10 DEF SocketInv, DatagramKept
  <1> QED BY <1>3, <1>4, <1>5 DEF Socket!ud_ucase_client

\* A signal ends a client.
LEMMA KillStep == \A c \in Client : SocketInv /\ Socket!Kill(c) => SocketInv'
  <1> SUFFICES ASSUME SocketInv, NEW c \in Client, Socket!Kill(c) PROVE SocketInv'
    OBVIOUS
  <1>0. /\ SocketTypes /\ InLine /\ Numbered /\ StreamKept /\ DatagramKept /\ InPieces /\ Room
        /\ socket_pc[c] \in {"send", "recvfrom"}
        /\ socket_pc' = [socket_pc EXCEPT ![c] = "killed"]
        /\ UNCHANGED <<socket, server, serving, queue, sent, buffer, out>>
    BY DEF SocketInv, Socket!Kill
  <1>1. /\ \A d : Socket!Of(d)' = Socket!Of(d) /\ OutOf(d)' = OutOf(d)
        /\ Numbered' /\ InPieces' /\ InLine'
        /\ \A d : Queued(d)' = Queued(d)
    BY <1>0, OutStays, LineStays
  <1>2. SocketTypes' /\ Room'
    BY <1>0 DEF SocketTypes, Room, Socket!Stream
  <1>3. StreamKept'
    <2> SUFFICES ASSUME Socket!Stream PROVE StreamKept'
      BY <1>0 DEF StreamKept, Socket!Stream
    <2>1. \A d \in Client : StreamOf(d)
      BY <1>0 DEF StreamKept
    <2>2. c \in serving \/ Queued(c)
      BY <1>0, <2>1 DEF StreamOf
    <2>3. \A d \in Client : StreamOf(d)'
      BY <1>0, <1>1, <2>1, <2>2 DEF StreamOf, SocketTypes
    <2> QED BY <1>0, <2>3 DEF StreamKept, SocketTypes
  <1>4. DatagramKept'
    <2> SUFFICES ASSUME Socket!Datagram PROVE DatagramKept'
      BY <1>0 DEF DatagramKept, Socket!Datagram
    <2>1. \A d \in Client : DatagramOf(d)
      BY <1>0 DEF DatagramKept
    <2>2. \A d \in Client : DatagramOf(d)'
      BY <1>0, <1>1, <2>1 DEF DatagramOf, SocketTypes
    <2> QED BY <2>2 DEF DatagramKept
  <1> QED BY <1>1, <1>2, <1>3, <1>4 DEF SocketInv

LEMMA SocketStep == SocketInv /\ [Socket!Next]_socket_vars => SocketInv'
  <1> SUFFICES ASSUME SocketInv, [Socket!Next]_socket_vars PROVE SocketInv'
    OBVIOUS
  <1>1. CASE UNCHANGED socket_vars
    <2>1. /\ UNCHANGED <<socket, server, serving, queue, sent, buffer, out, socket_pc>>
          /\ SocketTypes /\ InLine /\ Numbered /\ StreamKept /\ DatagramKept /\ InPieces /\ Room
      BY <1>1 DEF socket_vars, SocketInv
    <2>2. /\ \A d : Socket!Of(d)' = Socket!Of(d) /\ OutOf(d)' = OutOf(d)
          /\ Numbered' /\ InPieces' /\ InLine'
          /\ \A d : Queued(d)' = Queued(d)
      BY <2>1, OutStays, LineStays
    <2>3. SocketTypes' /\ Room'
      BY <2>1 DEF SocketTypes, Room, Socket!Stream
    <2>4. StreamKept' /\ DatagramKept'
      BY <2>1, <2>2 DEF StreamKept, StreamOf, DatagramKept, DatagramOf, Socket!Stream,
         Socket!Datagram
    <2> QED BY <2>2, <2>3, <2>4 DEF SocketInv
  <1>2. CASE Socket!Next
    <2>1. CASE Socket!Idle /\ UNCHANGED Socket!vars
      BY <1>1, <2>1 DEF Socket!vars, socket_vars
    <2>2. ASSUME NEW c \in Client, Socket!client(c) \/ Socket!Kill(c) PROVE SocketInv'
      BY <2>2, StreamClientStep, DatagramClientStep, KillStep DEF Socket!client
    <2> QED BY <1>2, <2>1, <2>2, StreamServerStep, DatagramServerStep DEF Socket!Next
  <1> QED BY <1>1, <1>2

LEMMA SocketInvImplies == SocketInv => StreamWhole
  <1> SUFFICES ASSUME SocketInv PROVE StreamWhole
    OBVIOUS
  <1>1. SocketTypes /\ Numbered /\ StreamKept /\ InPieces /\ DatagramKept
    BY DEF SocketInv
  <1>2. \A c \in Client : \A k \in Socket!Of(c) :
          out[k] = <<c, Cardinality({j \in Socket!Of(c) : j <= k})>>
    BY <1>1 DEF Numbered
  <1>3. ASSUME Socket!Stream, NEW c \in Client, sent[c] > 0,
               c \notin serving \cup Socket!ToSet(queue)
        PROVE  Cardinality(Socket!Of(c)) = sent[c]
    <2>1. c \notin serving /\ ~Queued(c)
      BY <1>3 DEF Socket!ToSet, Queued
    <2>2. StreamOf(c) /\ sent[c] \in Nat /\ OutOf(c) \in Nat
      BY <1>1, <1>3, OutFinite DEF StreamKept, SocketTypes
    <2>3. buffer[c] = <<>>
      BY <1>3, <2>1, <2>2 DEF StreamOf
    <2> QED BY <2>2, <2>3 DEF StreamOf, OutOf
  <1>4. Socket!Datagram => \A c \in Client : buffer[c] # <<>> => buffer[c] = <<sent[c]>>
    BY <1>1 DEF DatagramKept, DatagramOf
  <1>5. Socket!Stream =>
          \A c \in Client :
            sent[c] > 0 /\ c \notin serving \cup Socket!ToSet(queue) =>
              Cardinality(Socket!Of(c)) = sent[c]
    BY <1>3
  <1>6. Socket!Stream =>
          \A i, j, k \in DOMAIN out : i < j /\ j < k /\ out[i][1] = out[k][1] =>
            out[j][1] = out[i][1]
    BY <1>1 DEF InPieces
  <1>7. \A S : Socket!Cardinality(S) = Cardinality(S)
    BY DEF Socket!Cardinality, Cardinality, Socket!IsFiniteSet, IsFiniteSet
  <1>8. \A c \in Client : \A k \in Socket!Of(c) :
          out[k] = <<c, Socket!Cardinality({j \in Socket!Of(c) : j <= k})>>
    BY <1>2, <1>7
  <1>9. Socket!StreamWhole
    BY <1>4, <1>5, <1>6, <1>7, <1>8, Zenon DEF Socket!StreamWhole
  <1> QED BY <1>9 DEF StreamWhole

(***************************************************************************)
(* What comes out of a client's blocks or answers is in order and without  *)
(* a gap, a stream in one piece and, when its connection is closed, whole; *)
(* an answer that waits belongs to the last message.  For any number of    *)
(* clients and blocks, any of them killed at any point.                    *)
(***************************************************************************)
THEOREM StreamsWhole == Spec => []StreamWhole
  <1>1. Init => SocketInv
    BY SocketInit DEF Init
  <1>2. SocketInv /\ [Next]_vars => SocketInv'
    <2>1. [Next]_vars => [Socket!Next]_socket_vars
      BY DEF Next, Runs, vars
    <2> QED BY <2>1, SocketStep
  <1> QED BY <1>1, <1>2, SocketInvImplies, PTL DEF Spec

---------------------------------------------------------------------------
(* The types of the variables *)

\* No script has more calls.
MaxCalls == num_children + num_lines + 7
Short(s) == Len(s) \in 0 .. MaxCalls

PipeRest ==
  /\ at \in [Pipe!Proc -> 1 .. MaxCalls + 1]
  /\ \A p \in Pipe!Proc : Short(script[p])
  /\ parent \in [Pipe!Proc -> Pipe!Proc]
  /\ pipe \in [{1, 2} -> 0 .. pipe_size]
  /\ file \in {"old", "written", "seen"} /\ eof \subseteq Pipe!Proc

LEMMA MaxCallsNat == MaxCalls \in Nat /\ MaxCalls >= 10 /\ num_lines \in Nat /\ num_children \in Nat
                     /\ MaxCalls >= num_children + 7 /\ MaxCalls >= num_lines + 7
  BY PipesAssumption DEF MaxCalls

LEMMA ShortScripts ==
  ASSUME pipe_version \in Pipe!Version
  PROVE  /\ Short(Pipe!MainScript) /\ \A c : Short(Pipe!ChildScript(c)) /\ Short(Pipe!Program(c))
         /\ Short(Pipe!falls_through) /\ Short(<<Pipe!Call("wait", 0), Pipe!Call("wait", 0)>>)
         /\ Short(<<>>)
  <1> USE MaxCallsNat
  <1>1. Short(Pipe!barrier_main)
    BY BarrierScripts DEF Short
  <1>2. Short(Pipe!barrier_child) /\ Short(Pipe!simple_main) /\ Short(Pipe!simple_child)
    BY DEF Short, Pipe!barrier_child, Pipe!simple_main, Pipe!simple_child
  <1>3. Short(Pipe!pipes_main) /\ Short(Pipe!pipes_child) /\ Short(Pipe!co_process_main)
    BY DEF Short, Pipe!pipes_main, Pipe!pipes_child, Pipe!co_process_main
  <1>4. Short(Pipe!co_process_child) /\ Short(Pipe!add2) /\ Short(Pipe!ls_child)
    BY DEF Short, Pipe!co_process_child, Pipe!add2, Pipe!ls_child
  <1>5. Short(Pipe!wc_child) /\ Short(Pipe!wc) /\ Short(Pipe!falls_through)
    BY DEF Short, Pipe!wc_child, Pipe!wc, Pipe!falls_through
  <1>6. Short(<<Pipe!Call("wait", 0), Pipe!Call("wait", 0)>>) /\ Short(<<>>)
    BY DEF Short
  <1>7. Short(Pipe!ls_wc_main)
    <2> DEFINE a == <<Pipe!Call("fork", 1), Pipe!Call("fork", 2)>>
               b == Pipe!ls_wc_parent
    <2>1. a \in Seq(CallSet) /\ Len(a) = 2
      BY CallsAre DEF Ops
    <2>2. b \in Seq(CallSet) /\ Len(b) = 4
      BY CallsAre DEF Ops, Pipe!ls_wc_parent
    <2>3. Pipe!ls_wc_main = a \o b
      BY DEF Pipe!ls_wc_main
    <2> HIDE DEF a, b
    <2>4. Len(a \o b) = Len(a) + Len(b)
      BY <2>1, <2>2, Follows
    <2>5. Len(Pipe!ls_wc_main) = 6
      BY <2>1, <2>2, <2>3, <2>4
    <2> QED BY <2>5 DEF Short
  <1>8. Short(Pipe!ls)
    <2> DEFINE a == [k \in 1 .. num_lines |-> Pipe!Call("write", 1)]
               b == <<Pipe!Call("exit", 0)>>
    <2>1. a \in Seq(CallSet) /\ Len(a) = num_lines
      <3>1. a \in [1 .. num_lines -> CallSet]
        BY CallsAre DEF Ops
      <3> QED BY <3>1, SeqDef, LenProperties, ElementOfSeq
    <2>2. b \in Seq(CallSet) /\ Len(b) = 1
      BY CallsAre DEF Ops
    <2>3. Pipe!ls = a \o b
      BY DEF Pipe!ls
    <2> HIDE DEF a, b
    <2>4. Len(a \o b) = Len(a) + Len(b)
      BY <2>1, <2>2, Follows
    <2>5. Len(Pipe!ls) = num_lines + 1
      BY <2>1, <2>2, <2>3, <2>4
    <2> QED BY <2>5 DEF Short
  <1>9. pipe_version \in Syncs => Short(Pipe!MainScript)
    <2> SUFFICES ASSUME pipe_version \in Syncs PROVE Short(Pipe!MainScript)
      OBVIOUS
    <2> DEFINE n == Len(Pipe!MainScript)
    <2>1. n \in {6, 7}
      BY SyncScripts, Zenon
    <2> HIDE DEF n
    <2>2. n \in 0 .. MaxCalls
      BY <2>1
    <2> QED BY <2>2 DEF Short, n
  <1>10. Short(Pipe!sync_child)
    BY SyncChild DEF Short
  <1>11. Short(Pipe!MainScript)
    BY <1>1, <1>2, <1>3, <1>7, <1>9 DEF Pipe!MainScript, Pipe!Version, Syncs
  <1>12. ASSUME NEW c PROVE Short(Pipe!ChildScript(c)) /\ Short(Pipe!Program(c))
    <2>1. Short(Pipe!ChildScript(c))
      BY <1>2, <1>3, <1>4, <1>5, <1>6, <1>10 DEF Pipe!ChildScript, Pipe!Version
    <2>2. Short(Pipe!Program(c))
      BY <1>4, <1>5, <1>8 DEF Pipe!Program
    <2> QED BY <2>1, <2>2
  <1> QED BY <1>5, <1>6, <1>11, <1>12

LEMMA PipeRestInit == Init => PipeRest
  <1> SUFFICES ASSUME Init PROVE PipeRest
    OBVIOUS
  <1> USE MaxCallsNat, PipeProc DEF Init, Pipe!Init
  <1>1. Short(Pipe!MainScript) /\ Short(<<>>)
    BY ShortScripts
  <1>2. \A p \in Pipe!Proc : Short(script[p])
    BY <1>1
  <1>3. /\ at \in [Pipe!Proc -> 1 .. MaxCalls + 1]
        /\ parent \in [Pipe!Proc -> Pipe!Proc]
        /\ file \in {"old", "written", "seen"} /\ eof \subseteq Pipe!Proc
    OBVIOUS
  <1>4. pipe \in [{1, 2} -> 0 .. pipe_size]
    BY PipesAssumption
  <1> QED BY <1>2, <1>3, <1>4 DEF PipeRest

LEMMA PipeRestStep == PipeTypes /\ PipeRest /\ [Pipe!Next]_pipe_vars => PipeRest'
  <1> SUFFICES ASSUME PipeTypes, PipeRest, [Pipe!Next]_pipe_vars PROVE PipeRest'
    OBVIOUS
  <1>0. pipe_version \in Pipe!Version /\ DOMAIN script = Pipe!Proc
    BY DEF PipeTypes
  <1>1. CASE UNCHANGED pipe_vars \/ UNCHANGED Pipe!vars
    BY <1>1 DEF pipe_vars, Pipe!vars, PipeRest, Short, MaxCalls
  <1>2. ASSUME NEW p \in Pipe!Proc, Pipe!process(p) PROVE PipeRest'
    <2>g. ASSUME Pipe!Go(p), ~Pipe!Done(p)
          PROVE  at' \in [Pipe!Proc -> 1 .. MaxCalls + 1]
      <3>1. at[p] \in 1 .. MaxCalls + 1 /\ at[p] <= MaxCalls
        <4>1. at[p] \in 1 .. MaxCalls + 1 /\ Len(script[p]) \in 0 .. MaxCalls
              /\ ~(at[p] > Len(script[p]))
          BY <2>g DEF PipeRest, Short, Pipe!Done
        <4> QED BY <4>1, MaxCallsNat
      <3>2. at[p] + 1 \in 1 .. MaxCalls + 1
        BY <3>1, MaxCallsNat
      <3> QED BY <2>g, <3>2 DEF PipeRest, Pipe!Go
    <2>r. UNCHANGED <<script, parent, pipe, file>> /\ eof' \subseteq Pipe!Proc
          /\ at' \in [Pipe!Proc -> 1 .. MaxCalls + 1] => PipeRest'
      BY DEF PipeRest, Short, MaxCalls
    <2>e. UNCHANGED eof => eof' \subseteq Pipe!Proc
      BY DEF PipeRest
    <2>a. UNCHANGED at => at' \in [Pipe!Proc -> 1 .. MaxCalls + 1]
      BY DEF PipeRest
    <2>1. CASE Pipe!close(p) \/ Pipe!writeNothing(p) \/ Pipe!wait(p) \/ Pipe!Other(p)
      BY <2>1, <2>g, <2>r, <2>e DEF Pipe!close, Pipe!writeNothing, Pipe!wait, Pipe!Other, Pipe!NextCall
    <2>2. CASE Pipe!write(p)
      <3>1. PICK k : pipe' = [pipe EXCEPT ![k] = @ + 1] /\ pipe[k] < pipe_size
        BY <2>2 DEF Pipe!write
      <3>2. \A j \in {1, 2} : pipe[j] \in 0 .. pipe_size
                              /\ (pipe[j] < pipe_size => pipe[j] + 1 \in 0 .. pipe_size)
        BY PipesAssumption DEF PipeRest
      <3>3. pipe' \in [{1, 2} -> 0 .. pipe_size]
        BY <3>1, <3>2 DEF PipeRest
      <3>4. at' \in [Pipe!Proc -> 1 .. MaxCalls + 1]
        BY <2>2, <2>g DEF Pipe!write, Pipe!NextCall
      <3> QED BY <2>2, <3>3, <3>4 DEF Pipe!write, PipeRest, Short, MaxCalls
    <2>3. CASE Pipe!writeBroken(p) \/ Pipe!exit(p)
      BY <2>3, <2>r, <2>e, <2>a DEF Pipe!writeBroken, Pipe!exit
    <2>4. CASE Pipe!read(p)
      <3>1. PICK k : pipe' = [pipe EXCEPT ![k] = @ - 1] /\ pipe[k] > 0
        BY <2>4 DEF Pipe!read
      <3>2. \A j \in {1, 2} : pipe[j] \in 0 .. pipe_size
                              /\ (pipe[j] > 0 => pipe[j] - 1 \in 0 .. pipe_size)
        BY PipesAssumption DEF PipeRest
      <3>3. pipe' \in [{1, 2} -> 0 .. pipe_size]
        BY <3>1, <3>2 DEF PipeRest
      <3>4. at' \in [Pipe!Proc -> 1 .. MaxCalls + 1]
        BY <2>4, <2>g, <2>a DEF Pipe!read, Pipe!NextCall
      <3> QED BY <2>4, <3>3, <3>4 DEF Pipe!read, PipeRest, Short, MaxCalls
    <2>5. CASE Pipe!readEOF(p)
      <3>1. eof' \subseteq Pipe!Proc
        BY <2>5 DEF Pipe!readEOF, PipeRest
      <3> QED BY <2>5, <3>1, <2>g, <2>r DEF Pipe!readEOF, Pipe!NextCall
    <2>6. CASE Pipe!fork(p)
      <3>1. PICK k : /\ parent' = [parent EXCEPT ![k] = p]
                     /\ script' = [script EXCEPT ![k] = Pipe!ChildScript(k)]
        BY <2>6 DEF Pipe!fork
      <3>2. Short(Pipe!ChildScript(k))
        BY <1>0, ShortScripts
      <3>3. \A q \in Pipe!Proc : Short(script'[q])
        BY <1>0, <3>1, <3>2 DEF PipeRest
      <3>4. parent' \in [Pipe!Proc -> Pipe!Proc]
        BY <3>1 DEF PipeRest
      <3>5. at' \in [Pipe!Proc -> 1 .. MaxCalls + 1]
        BY <2>6, <2>g DEF Pipe!fork, Pipe!NextCall
      <3>6. UNCHANGED <<pipe, file, eof>>
        BY <2>6 DEF Pipe!fork
      <3> QED BY <3>3, <3>4, <3>5, <3>6 DEF PipeRest, Short, MaxCalls
    <2>7. CASE Pipe!exec(p)
      <3>1. PICK s : script' = [script EXCEPT ![p] = s] /\ Short(s)
        <4>1. /\ Short(Pipe!Program(p)) /\ Short(Pipe!falls_through) /\ Short(<<>>)
              /\ Short(<<Pipe!Call("wait", 0), Pipe!Call("wait", 0)>>)
          BY <1>0, ShortScripts
        <4> QED BY <2>7, <4>1 DEF Pipe!exec
      <3>2. \A q \in Pipe!Proc : Short(script'[q])
        BY <1>0, <3>1 DEF PipeRest
      <3>3. at' \in [Pipe!Proc -> 1 .. MaxCalls + 1]
        BY <2>7, MaxCallsNat DEF Pipe!exec, PipeRest
      <3>4. UNCHANGED <<parent, pipe, file, eof>>
        BY <2>7 DEF Pipe!exec
      <3> QED BY <3>2, <3>3, <3>4 DEF PipeRest, Short, MaxCalls
    <2>8. CASE Pipe!fopen(p)
      BY <2>8, <2>g, <2>r, <2>e, <2>a DEF Pipe!fopen, Pipe!NextCall
    <2>9. CASE Pipe!UseFile(p)
      <3>1. at' \in [Pipe!Proc -> 1 .. MaxCalls + 1]
        BY <2>9, <2>g DEF Pipe!UseFile, Pipe!NextCall
      <3>2. file' \in {"old", "written", "seen"}
        BY <2>9 DEF Pipe!UseFile, PipeRest
      <3>3. UNCHANGED <<script, parent, pipe, eof>>
        BY <2>9 DEF Pipe!UseFile
      <3> QED BY <3>1, <3>2, <3>3 DEF PipeRest, Short, MaxCalls
    <2> QED BY <1>2, <2>1, <2>2, <2>3, <2>4, <2>5, <2>6, <2>7, <2>8, <2>9 DEF Pipe!process
  <1> QED BY <1>1, <1>2 DEF Pipe!Next

LEMMA PipeTyped == PipeTypes /\ PipeRest => Pipe!TypeOK
  <1> SUFFICES ASSUME PipeTypes, PipeRest PROVE Pipe!TypeOK
    OBVIOUS
  <1>1. MaxCalls + 1 = num_children + num_lines + 8
    BY PipesAssumption DEF MaxCalls
  <1> QED BY <1>1 DEF PipeTypes, PipeRest, Pipe!TypeOK

---------------------------------------------------------------------------
\* Who has the segment attached, which is removed when nobody has.
SegmentRest ==
  /\ shmid \in {"none", "made", "removed"} /\ attached \subseteq {"writer", "reader"}
  /\ "writer" \in attached <=> writer \in {"reserve", "read", "release", "eof", "last", "remove"}
  /\ "reader" \in attached <=> reader \in {"reserve", "test", "write", "release", "detach"}
  /\ shmid = "removed" <=> writer = "end"

LEMMA SegmentRestStep == SegmentInv /\ SegmentRest /\ [Shm!Next]_shm_vars => SegmentRest'
  <1> SUFFICES ASSUME SegmentInv, SegmentRest, [Shm!Next]_shm_vars PROVE SegmentRest'
    OBVIOUS
  <1> USE DEF SegmentRest, Shm!Writer, Shm!Reader, Shm!segment
  <1>1. CASE UNCHANGED shm_vars \/ UNCHANGED Shm!vars
    BY <1>1 DEF shm_vars, Shm!vars
  <1>2. CASE Shm!svshm_xfr_writer
    BY <1>2 DEF Shm!svshm_xfr_writer, Shm!semget, Shm!InitWriteSem, Shm!InitReadSem,
       Shm!shmget, Shm!ReserveWrite, Shm!ReadBlock, Shm!ReleaseRead, Shm!TestCount,
       Shm!ReserveLast, Shm!Remove
  <1>3. CASE Shm!svshm_xfr_reader
    BY <1>3 DEF Shm!svshm_xfr_reader, Shm!Attach, Shm!ReserveRead, Shm!TestEOF,
       Shm!WriteBlock, Shm!ReleaseWrite, Shm!Detach, Shm!ReleaseLast
  <1> QED BY <1>1, <1>2, <1>3 DEF Shm!Next

LEMMA SegmentTyped == SegmentInv /\ SegmentRest => Shm!TypeOK
  <1> SUFFICES ASSUME SegmentInv, SegmentRest PROVE Shm!TypeOK
    OBVIOUS
  <1>1. semid \in [{"write", "read"} -> {0, 1}] \cup {<<>>}
    <2>1. CASE ~Begun
      BY <2>1 DEF SegmentInv, BeforeSegment
    <2>2. CASE Begun
      BY <2>2 DEF SegmentInv, OneTurn
    <2> QED BY <2>1, <2>2
  <1>2. written \in 0 .. num_lines
    BY DEF SegmentInv
  <1> QED BY <1>1, <1>2 DEF SegmentInv, SegmentRest, Shm!TypeOK, Shm!WRITE_SEM, Shm!READ_SEM

LEMMA SocketTyped == SocketInv => Socket!TypeOK
  <1> SUFFICES ASSUME SocketInv PROVE Socket!TypeOK
    OBVIOUS
  <1>1. SocketTypes /\ Room /\ \A c, d \in serving : c = d
    BY DEF SocketInv, InLine
  <1>2. Socket!Cardinality(serving) <= 1
    <2>1. Socket!Cardinality(serving) = Cardinality(serving)
      BY DEF Socket!Cardinality, Cardinality, Socket!IsFiniteSet, IsFiniteSet
    <2>2. CASE serving = {}
      BY <2>1, <2>2, FS_EmptySet
    <2>3. CASE serving # {}
      <3>1. PICK c \in serving : serving = {c}
        BY <1>1, <2>3
      <3> QED BY <2>1, <3>1, FS_Singleton
    <2> QED BY <2>2, <2>3
  <1>3. \A k \in DOMAIN queue : queue[k] \in Client
    BY <1>1 DEF SocketTypes
  <1> QED BY <1>1, <1>2, <1>3 DEF SocketTypes, Room, Socket!TypeOK

---------------------------------------------------------------------------
ForegroundRest ==
  /\ fg_version \in {"foreground", "sigttou", "pause"} /\ tostop \in BOOLEAN
  /\ main \in {"fork", "created", "hi", "stopped", "ttou_test", "ttou_call", "ttou_pause",
               "test", "call", "pause", "take", "end"}
  /\ handler \in {"none", "wait", "save", "own", "print", "restore", "dead"}
  /\ child \in {"none", "running", "stopped", "dead", "reaped"}
  /\ report \in {"none", "stopped", "continued", "dead"}
  /\ fg_sigchld \in BOOLEAN /\ child_dead \in BOOLEAN

LEMMA ForegroundTyped == ForegroundInv /\ ForegroundRest => Fg!TypeOK
  BY DEF ForegroundInv, ForegroundRest, Fg!TypeOK

LEMMA ForegroundRestStep == ForegroundRest /\ [Fg!Next]_fg_vars => ForegroundRest'
  <1> SUFFICES ASSUME ForegroundRest, [Fg!Next]_fg_vars PROVE ForegroundRest'
    OBVIOUS
  <1> USE DEF ForegroundRest, Fg!Main, Fg!Handler, Fg!kernel
  <1>1. CASE UNCHANGED fg_vars \/ UNCHANGED Fg!vars
    BY <1>1 DEF fg_vars, Fg!vars
  <1>2. CASE Fg!main_step \/ Fg!Resume
    BY <1>2 DEF Fg!main_step, Fg!Fork, Fg!GiveTerminal, Fg!HiMom, Fg!Resume,
       Fg!TtouTest, Fg!TtouPause, Fg!TestDead, Fg!Pause, Fg!TakeTerminal
  <1>3. CASE Fg!EnterHandler \/ Fg!WaitPid \/ Fg!SaveFg \/ Fg!OwnFg
    BY <1>3 DEF Fg!EnterHandler, Fg!WaitPid, Fg!SaveFg, Fg!OwnFg
  <1>4. CASE Fg!RestoreFg \/ Fg!ChildDead \/ Fg!LeaveHandler
    BY <1>4 DEF Fg!RestoreFg, Fg!ChildDead, Fg!LeaveHandler
  <1>5. CASE Fg!Stop \/ Fg!Continue \/ Fg!Die
    BY <1>5 DEF Fg!Stop, Fg!Continue, Fg!Die, Fg!Change
  <1> QED
    BY <1>1, <1>2, <1>3, <1>4, <1>5 DEF Fg!Next, Fg!handler_step

---------------------------------------------------------------------------
ReaperCounts == forked \in 0 .. num_children /\ counted \in 0 .. Reap!Count
ReaperSets ==
  running \subseteq Reap!Child /\ zombies \subseteq Reap!Child /\ reaped \subseteq Reap!Child

LEMMA ReaperRestStep ==
  ReaperCounts /\ ReaperSets /\ [Reap!Next]_reap_vars => ReaperCounts' /\ ReaperSets'
  <1> SUFFICES ASSUME ReaperCounts, ReaperSets, [Reap!Next]_reap_vars
               PROVE  ReaperCounts' /\ ReaperSets'
    OBVIOUS
  <1>0. num_children \in Nat
    BY PipesAssumption
  <1>1. CASE Reap!Fork
    <2>1. forked < num_children /\ forked' = forked + 1 /\ UNCHANGED counted
          /\ running' = running \cup {forked + 1} /\ UNCHANGED <<zombies, reaped>>
      BY <1>1 DEF Reap!Fork
    <2>2. forked + 1 \in Reap!Child /\ ReaperCounts'
      BY <1>0, <2>1 DEF ReaperCounts, Reap!Child, Reap!Count
    <2> QED BY <2>1, <2>2 DEF ReaperSets, Reap!Child
  <1>2. CASE Reap!CountUp
    <2>1. counted < Reap!Count /\ counted' = counted + 1
          /\ UNCHANGED <<forked, running, zombies, reaped>>
      BY <1>2 DEF Reap!CountUp
    <2>2. ReaperCounts'
      BY <1>0, <2>1 DEF ReaperCounts, Reap!Count
    <2> QED BY <2>1, <2>2 DEF ReaperSets, Reap!Child
  <1>3. ASSUME NEW c \in Reap!Child, Reap!Exit(c) PROVE ReaperCounts' /\ ReaperSets'
    <2>1. running' = running \ {c} /\ zombies' = zombies \cup {c}
          /\ UNCHANGED <<forked, reaped, counted>>
      BY <1>3 DEF Reap!Exit
    <2> QED BY <2>1 DEF ReaperSets, ReaperCounts, Reap!Child, Reap!Count
  <1>4. CASE Reap!WaitPid
    <2>1. PICK c \in zombies : zombies' = zombies \ {c} /\ reaped' = reaped \cup {c}
      BY <1>4, Zenon DEF Reap!WaitPid
    <2>2. UNCHANGED <<forked, running, counted>>
      BY <1>4, Zenon DEF Reap!WaitPid
    <2> QED BY <2>1, <2>2 DEF ReaperSets, ReaperCounts, Reap!Child, Reap!Count
  <1>5. UNCHANGED <<forked, running, zombies, reaped, counted>> => ReaperCounts' /\ ReaperSets'
    BY DEF ReaperSets, ReaperCounts, Reap!Child, Reap!Count
  <1>6. CASE Reap!EnterHandler \/ Reap!LeaveHandler \/ UNCHANGED reap_vars \/ UNCHANGED Reap!vars
    <2>1. UNCHANGED <<forked, running, zombies, reaped, counted>>
      BY <1>6, Zenon DEF Reap!EnterHandler, Reap!LeaveHandler, reap_vars, Reap!vars
    <2> QED BY <1>5, <2>1
  <1> QED
    BY <1>1, <1>2, <1>3, <1>4, <1>6, Zenon DEF Reap!Next, Reap!parent

LEMMA ReaperTyped == ReaperInv /\ ReaperCounts /\ ReaperSets => Reap!TypeOK
  BY Zenon DEF ReaperInv, ReaperCounts, ReaperSets, Reap!TypeOK

---------------------------------------------------------------------------
LEMMA Alone ==
  [Next]_vars =>
    /\ [Pipe!Next]_pipe_vars /\ [Fifo!Next]_fifo_vars /\ [Shm!Next]_shm_vars
    /\ [Socket!Next]_socket_vars /\ [Fg!Next]_fg_vars /\ [Reap!Next]_reap_vars
  BY DEF Next, Runs, vars

\* What the types of all programs follow from.
TypesInv ==
  /\ PipeTypes /\ PipeRest /\ FifoInv /\ SegmentInv /\ SegmentRest /\ SocketInv
  /\ ForegroundInv /\ ForegroundRest /\ ReaperInv /\ ReaperCounts /\ ReaperSets

LEMMA TypesInit == Init => TypesInv
  <1> SUFFICES ASSUME Init PROVE TypesInv
    OBVIOUS
  <1>1. PipeTypes /\ PipeRest
    BY TurnInit, PipeRestInit DEF TurnInv
  <1>2. FifoInv
    BY FifoInit
  <1>3. SegmentInv /\ SegmentRest
    <2>1. SegmentRest
      BY DEF Init, Shm!Init, SegmentRest
    <2> QED BY <2>1, SegmentInit
  <1>4. SocketInv
    BY SocketInit DEF Init
  <1>5. ForegroundInv /\ ForegroundRest
    BY DEF Init, Fg!Init, ForegroundInv, ForegroundRest
  <1>6. ReaperInv
    BY DEF Init, Reap!Init, ReaperInv, Reap!NoZombie
  <1>7. ReaperCounts /\ ReaperSets
    BY PipesAssumption DEF Init, Reap!Init, ReaperCounts, ReaperSets, Reap!Count
  <1> QED BY <1>1, <1>2, <1>3, <1>4, <1>5, <1>6, <1>7 DEF TypesInv

LEMMA TypesStep == TypesInv /\ [Next]_vars => TypesInv'
  <1> SUFFICES ASSUME TypesInv, [Next]_vars PROVE TypesInv'
    OBVIOUS
  <1>1. PipeTypes' /\ PipeRest'
    BY Alone, PipeTypesStep, PipeRestStep DEF TypesInv
  <1>2. FifoInv'
    BY Alone, FifoStep DEF TypesInv
  <1>3. SegmentInv' /\ SegmentRest'
    BY Alone, SegmentStep, SegmentRestStep DEF TypesInv
  <1>4. SocketInv'
    BY Alone, SocketStep DEF TypesInv
  <1>5. ForegroundInv' /\ ForegroundRest'
    BY Alone, ForegroundStep, ForegroundRestStep DEF TypesInv
  <1>6. ReaperInv' /\ ReaperCounts' /\ ReaperSets'
    BY Alone, ReaperStep, ReaperRestStep DEF TypesInv
  <1> QED BY <1>1, <1>2, <1>3, <1>4, <1>5, <1>6 DEF TypesInv

(***************************************************************************)
(* The variables of the programs over pipes, fifos, the segment, sockets   *)
(* and signals keep their types: no script runs over, a pipe holds what it *)
(* has room for, the numbers handed out are ints, and a server works on    *)
(* one connection or message at a time.                                    *)
(***************************************************************************)
THEOREM IpcTypesKept == Spec => []IpcTypes
  <1>1. TypesInv => IpcTypes
    BY PipeTyped, FifoTyped, SegmentTyped, SocketTyped, ForegroundTyped, ReaperTyped
    DEF TypesInv, IpcTypes, FifoInv
  <1> QED BY <1>1, TypesInit, TypesStep, PTL DEF Spec

\* svshm_xfr_writer.c removes the segment when neither process has it attached
\* any more, as the last clause of SegmentCleared says.
THEOREM SegmentLetGo == Spec => [](shmid = "removed" => attached = {})
  <1>1. TypesInv => (shmid = "removed" => attached = {})
    BY DEF TypesInv, SegmentInv, SegmentRest
  <1> QED BY <1>1, TypesInit, TypesStep, PTL DEF Spec

---------------------------------------------------------------------------
(* Nobody waits for nobody: the shared segment *)

\* A process that waits for its turn waits on a semaphore that is free, and a
\* reader that starts finds the semaphores and the segment.
SegmentGoesOn ==
  \/ writer \notin {"reserve", "last", "end"}
  \/ writer \in {"reserve", "last"} /\ Written > 0
  \/ reader \notin {"start", "reserve", "end"}
  \/ reader = "start" /\ semid # <<>> /\ shmid = "made"
  \/ reader = "reserve" /\ Read > 0

\* The reader leaves the last turn to the writer.
LastTurn == reader = "end" /\ writer \in {"eof", "last"} => Written = 1

LEMMA LastTurnStep == SegmentInv /\ LastTurn /\ [Shm!Next]_shm_vars => LastTurn'
  <1> SUFFICES ASSUME SegmentInv, LastTurn, [Shm!Next]_shm_vars PROVE LastTurn'
    OBVIOUS
  <1> USE DEF LastTurn, Written, Shm!Writer, Shm!Reader, Shm!segment
  <1>1. CASE UNCHANGED shm_vars \/ UNCHANGED Shm!vars
    BY <1>1 DEF shm_vars, Shm!vars
  <1>2. CASE Shm!ReleaseLast
    <2>1. writer \in {"eof", "last", "remove"} /\ semid \in [{"write", "read"} -> {0, 1}]
          /\ semid["write"] = 0
      BY <1>2 DEF Shm!ReleaseLast, SegmentInv, Begun, BeforeSegment, OneTurn, WriterHas,
         ReaderHas, EndOfFile, Read
    <2> QED BY <1>2, <2>1 DEF Shm!ReleaseLast, Shm!releaseSem, Shm!WRITE_SEM
  <1>3. CASE Shm!ReleaseRead
    <2>1. reader # "end"
      BY <1>3 DEF Shm!ReleaseRead, SegmentInv, Begun, EndOfFile
    <2> QED BY <1>3, <2>1 DEF Shm!ReleaseRead
  <1>4. CASE Shm!TestCount \/ Shm!ReserveLast \/ Shm!Remove
    BY <1>4 DEF Shm!TestCount, Shm!ReserveLast, Shm!Remove
  <1>5. CASE Shm!semget \/ Shm!InitWriteSem \/ Shm!InitReadSem \/ Shm!shmget
               \/ Shm!ReserveWrite \/ Shm!ReadBlock
    BY <1>5 DEF Shm!semget, Shm!InitWriteSem, Shm!InitReadSem, Shm!shmget,
       Shm!ReserveWrite, Shm!ReadBlock
  <1>6. CASE Shm!Attach \/ Shm!ReserveRead \/ Shm!TestEOF \/ Shm!WriteBlock
               \/ Shm!ReleaseWrite \/ Shm!Detach
    BY <1>6 DEF Shm!Attach, Shm!ReserveRead, Shm!TestEOF, Shm!WriteBlock,
       Shm!ReleaseWrite, Shm!Detach
  <1> QED
    BY <1>1, <1>2, <1>3, <1>4, <1>5, <1>6
    DEF Shm!Next, Shm!svshm_xfr_writer, Shm!svshm_xfr_reader

\* Until both processes have ended, one of them has a step: the turn is always
\* somewhere, and who has it or can take it is not the other one.
THEOREM SegmentNeverStuck == Spec => [](Shm!Ended \/ SegmentGoesOn)
  <1>1. Init => LastTurn
    BY DEF Init, Shm!Init, LastTurn
  <1>2. SegmentInv /\ LastTurn => Shm!Ended \/ SegmentGoesOn
    <2> SUFFICES ASSUME SegmentInv, LastTurn, ~SegmentGoesOn PROVE Shm!Ended
      OBVIOUS
    <2>1. CASE writer = "end"
      BY <2>1 DEF SegmentInv, Shm!Ended
    <2>2. CASE writer # "end"
      <3>1. writer \in {"reserve", "last"} /\ ~(Written > 0)
        BY <2>2 DEF SegmentGoesOn
      <3>2. OneTurn /\ EndOfFile
        BY <3>1 DEF SegmentInv, Begun
      <3>3. Written = 0 /\ (Read = 1 \/ ReaderHas)
        BY <3>1, <3>2 DEF OneTurn, WriterHas
      <3>4. reader \in {"start", "reserve", "end"}
        BY DEF SegmentGoesOn
      <3>5. Read = 1 /\ shmid = "made" /\ semid # <<>>
        <4>1. semid # <<>>
          BY <3>2 DEF OneTurn
        <4> QED BY <3>2, <3>3, <3>4, <4>1 DEF ReaderHas, OneTurn
      <3>6. reader = "end"
        BY <3>4, <3>5 DEF SegmentGoesOn
      <3>7. writer = "last"
        BY <3>1, <3>2, <3>6 DEF EndOfFile
      <3> QED BY <3>3, <3>6, <3>7 DEF LastTurn
    <2> QED BY <2>1, <2>2
  <1> QED BY <1>1, <1>2, LastTurnStep, SegmentInvariance, ShmAlone, PTL DEF Spec
=============================================================================
