---------------------------- MODULE SeqnumServer ----------------------------
(***************************************************************************)
(* fifo_seqnum_server.c hands out ranges of numbers.  A client makes a     *)
(* fifo of its own, writes a request into the server's fifo, opens its own *)
(* for reading and waits for the answer.  A client may be killed.          *)
(***************************************************************************)
EXTENDS IpcParameters, Sequences

VARIABLES
  server,        \* where the server is
  server_fifo,   \* the requests in it; each is written and read as a whole
  made,          \* fifos that exist: "server", and those of clients
  writers,       \* who has the server's fifo open for writing
  req, seq_num,  \* the server's
  seq_len,       \* what each client asks for
  resp,          \* the answer in each client's fifo, if any: a set of one number
  got,           \* the number each client received, if any
  pc

vars == <<server, server_fifo, made, writers, req, seq_num, seq_len, resp, got, pc>>

numbers == -INT_MAX - 1 .. INT_MAX
None    == -1          \* no request

\* An int wraps around.
wrap(n) == IF n > INT_MAX THEN n - 2 * (INT_MAX + 1)
           ELSE IF n < -INT_MAX - 1 THEN n + 2 * (INT_MAX + 1) ELSE n

TypeOK ==
  /\ server \in {"mkfifo", "open", "dummy", "read", "open_client", "write",
                 "update"}
  /\ \A k \in DOMAIN server_fifo : server_fifo[k] \in Client
  /\ made \subseteq Client \cup {"server"} /\ writers \subseteq Client \cup {"server"}
  /\ req \in Client \cup {None}
  /\ seq_num \in numbers
  /\ seq_len \in [Client -> Lengths]
  /\ resp \in [Client -> SUBSET numbers] /\ got \in [Client -> SUBSET numbers]
  /\ pc \in [Client -> {"mkfifo", "connect", "send", "open", "read", "exit", "failed",
                        "killed"}]

Init ==
  /\ server = "mkfifo" /\ server_fifo = <<>> /\ made = {} /\ writers = {}
  /\ req = None /\ seq_num = 0
  /\ seq_len \in [Client -> Lengths]
  /\ resp = [c \in Client |-> {}] /\ got = [c \in Client |-> {}]
  /\ pc = [c \in Client |-> "mkfifo"]
---------------------------------------------------------------------------
Server(from, to) == server = from /\ server' = to
client_state == <<seq_len, got, pc>>

mkfifoServer ==
  /\ Server("mkfifo", "open")
  /\ made' = made \cup {"server"}
  /\ UNCHANGED <<server_fifo, writers, req, seq_num, resp, client_state>>

\* open(O_RDONLY) blocks until a client has opened the fifo for writing, and
\* the open() of a client until this one.
openRead ==
  /\ Server("open", "dummy")
  /\ \E c \in Client : pc[c] = "connect"
  /\ UNCHANGED <<server_fifo, made, writers, req, seq_num, resp, client_state>>

\* The second descriptor, so that read() never sees the end of the file.
openDummy ==
  /\ Server("dummy", "read")
  /\ writers' = writers \cup {"server"}
  /\ UNCHANGED <<server_fifo, made, req, seq_num, resp, client_state>>

\* Requests are written as a whole, so that read() returns less than one only at
\* the end of the file: the server says so and tries again.
readRequest ==
  /\ \/ /\ server_fifo # <<>> /\ Server("read", "open_client")
        /\ req' = Head(server_fifo) /\ server_fifo' = Tail(server_fifo)
     \/ /\ server_fifo = <<>> /\ writers = {} /\ Server("read", "read")
        /\ UNCHANGED <<req, server_fifo>>
  /\ UNCHANGED <<made, writers, seq_num, resp, client_state>>

\* open(O_WRONLY) blocks until the client opens its fifo; it fails, and the
\* request is given up, if the fifo is gone.
openClient ==
  /\ \/ Server("open_client", "write") /\ req \in made /\ pc[req] = "read"
     \/ Server("open_client", "read") /\ req \notin made
  /\ UNCHANGED <<server_fifo, made, writers, req, seq_num, resp, client_state>>

\* A client that was killed meanwhile costs a message only: SIGPIPE is ignored.
writeResponse ==
  /\ Server("write", "update")
  /\ resp' = IF pc[req] = "read" THEN [resp EXCEPT ![req] = {seq_num}] ELSE resp
  /\ UNCHANGED <<server_fifo, made, writers, req, seq_num, client_state>>

update_one ==                \* mutant: every answer takes one number
  /\ Server("update", "read") /\ seq_num' = wrap(seq_num + 1)
  /\ UNCHANGED <<server_fifo, made, writers, req, resp, client_state>>

update ==
  /\ Server("update", "read")
  /\ seq_num' = wrap(seq_num + seq_len[req])
  /\ UNCHANGED <<server_fifo, made, writers, req, resp, client_state>>

fifo_seqnum_server ==
  mkfifoServer \/ openRead \/ openDummy \/ readRequest \/ openClient \/ writeResponse
  \/ update
---------------------------------------------------------------------------
Goto(c, from, to) == pc[c] = from /\ pc' = [pc EXCEPT ![c] = to]
server_state == <<server, req, seq_num, seq_len>>

mkfifoClient(c) ==
  /\ Goto(c, "mkfifo", "connect")
  /\ made' = made \cup {c}
  /\ UNCHANGED <<server_fifo, writers, resp, got, server_state>>

\* Without a server fifo the client ends, and removes its own.
connect(c) ==
  /\ \/ /\ "server" \in made /\ server \notin {"mkfifo", "open"}
        /\ Goto(c, "connect", "send") /\ writers' = writers \cup {c} /\ UNCHANGED made
     \/ /\ "server" \notin made
        /\ Goto(c, "connect", "failed") /\ made' = made \ {c} /\ UNCHANGED writers
  /\ UNCHANGED <<server_fifo, resp, got, server_state>>

send(c) ==
  /\ Goto(c, "send", "open")
  /\ server_fifo' = Append(server_fifo, c)
  /\ UNCHANGED <<made, writers, resp, got, server_state>>

open(c) ==
  /\ Goto(c, "open", "read")
  /\ UNCHANGED <<server_fifo, made, writers, resp, got, server_state>>

\* exit runs remove_fifo and closes everything.
readResponse(c) ==
  /\ resp[c] # {} /\ Goto(c, "read", "exit")
  /\ got' = [got EXCEPT ![c] = resp[c]]
  /\ made' = made \ {c} /\ writers' = writers \ {c}
  /\ UNCHANGED <<server_fifo, resp, server_state>>

fifo_seqnum_client(c) ==
  mkfifoClient(c) \/ connect(c) \/ send(c) \/ open(c) \/ readResponse(c)

\* A signal ends the client without its exit handler: the fifo stays.
Kill(c) ==
  /\ pc[c] \in {"send", "open", "read"}
  /\ pc' = [pc EXCEPT ![c] = "killed"]
  /\ writers' = writers \ {c}
  /\ UNCHANGED <<server_fifo, made, resp, got, server_state>>

\* Nothing is left to do, or the server waits for a dead client to open its fifo.
Stuck == server = "open_client" /\ req \in made /\ pc[req] = "killed"
Idle  == \A c \in Client : pc[c] \in {"exit", "failed", "killed"}

Next ==
  \/ fifo_seqnum_server
  \/ \E c \in Client : fifo_seqnum_client(c) \/ Kill(c)
  \/ (Idle \/ Stuck) /\ UNCHANGED vars

Spec == Init /\ [][Next]_vars
---------------------------------------------------------------------------
\* When no client asks for a negative number of numbers, nor for more than its
\* share of the positive ints, no number is handed out twice, whoever dies.  The
\* programs do not check what they are asked for (fifo_seqnum_client.c:65,
\* fifo_seqnum_server.c:93): a negative length, or too large ones, give the same
\* number to two clients.  And the server's read() does not see an end of file
\* once it has opened its second descriptor.
Modest   == \A c \in Client : seq_len[c] \in 0 .. INT_MAX \div Cardinality(Client)
Range(c) == UNION {n .. n + seq_len[c] - 1 : n \in got[c]}

RangesDisjoint ==
  /\ Modest => \A c, d \in Client : c # d => Range(c) \cap Range(d) = {}
  /\ server = "read" => writers # {}

\* Every client gets its answer, unless one is killed on the way.
Answered == <>(Idle \/ \E c \in Client : pc[c] = "killed")
=============================================================================
