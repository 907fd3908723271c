------------------------------- MODULE Sockets -------------------------------
(***************************************************************************)
(* The programs of sockets/.  "stream": us_xfr_server.c copies what its    *)
(* clients send to its standard output, one connection after the other.    *)
(* "datagram": ud_ucase_server.c answers each message with its upper case, *)
(* and ud_ucase_client.c waits for the answer to one message before it     *)
(* sends the next.  A block or message is known by its client and number.  *)
(***************************************************************************)
EXTENDS IpcParameters, SequencesExt

VARIABLES
  version,   \* "stream" or "datagram"
  server,    \* where the server is
  serving,   \* {}, or the one client whose connection or message it works on
  queue,     \* connections not accepted yet, or messages not received yet
  sent,      \* blocks or messages each client has sent
  buffer,    \* stream: sent and not copied yet; datagram: answers not received
  out,       \* what the server copied, or the clients printed
  pc

vars == <<version, server, serving, queue, sent, buffer, out, pc>>

Stream   == version = "stream"
Datagram == version = "datagram"

TypeOK ==
  /\ version \in {"stream", "datagram"}
  /\ server \in {"bind", "listen", "accept", "copy", "close", "recvfrom", "sendto", "failed"}
  /\ serving \in SUBSET Client /\ Cardinality(serving) <= 1
  /\ \A k \in DOMAIN queue : queue[k] \in Client
  /\ Stream => Len(queue) <= BACKLOG
  /\ sent \in [Client -> 0 .. num_lines]
  /\ \A c \in Client : Len(buffer[c]) <= pipe_size
  /\ pc \in [Client -> {"start", "send", "recvfrom", "exit", "failed", "killed"}]

Init ==
  /\ version \in {"stream", "datagram"}
  /\ server = "bind" /\ serving = {} /\ queue = <<>>
  /\ sent = [c \in Client |-> 0] /\ buffer = [c \in Client |-> <<>>]
  /\ out = <<>> /\ pc = [c \in Client |-> "start"]

Put(c, b) == buffer' = [buffer EXCEPT ![c] = Append(@, b)]
Take(c)   == buffer' = [buffer EXCEPT ![c] = Tail(@)]
---------------------------------------------------------------------------
Server(from, to) == server = from /\ server' = to /\ UNCHANGED <<version, sent, pc>>

bind ==
  /\ Server("bind", IF Stream THEN "listen" ELSE "recvfrom")
  /\ UNCHANGED <<serving, queue, buffer, out>>

listen == Server("listen", "accept") /\ UNCHANGED <<serving, queue, buffer, out>>

accept ==
  /\ queue # <<>> /\ Server("accept", "copy")
  /\ serving' = {Head(queue)} /\ queue' = Tail(queue)
  /\ UNCHANGED <<buffer, out>>

Copy ==
  /\ Server("copy", "copy")
  /\ \E c \in serving :
       buffer[c] # <<>> /\ out' = Append(out, <<c, Head(buffer[c])>>) /\ Take(c)
  /\ UNCHANGED <<serving, queue>>

CopyEOF_empty ==             \* mutant: an empty buffer is taken for the end
  /\ Server("copy", "close")
  /\ \E c \in serving : buffer[c] = <<>>
  /\ UNCHANGED <<serving, queue, buffer, out>>

\* read() returns 0 when all has been read and the client's end is closed.
CopyEOF ==
  /\ Server("copy", "close")
  /\ \E c \in serving : buffer[c] = <<>> /\ pc[c] \in {"exit", "killed"}
  /\ UNCHANGED <<serving, queue, buffer, out>>

close == Server("close", "accept") /\ serving' = {} /\ UNCHANGED <<queue, buffer, out>>

us_xfr_server == Stream /\ (bind \/ listen \/ accept \/ Copy \/ CopyEOF \/ close)

RecvRequest ==
  /\ queue # <<>> /\ Server("recvfrom", "sendto")
  /\ serving' = {Head(queue)} /\ queue' = Tail(queue)
  /\ UNCHANGED <<buffer, out>>

\* The answer carries the number of the client's message.  The address of a
\* client that is gone cannot be sent to: the server exits.
SendReply ==
  \E c \in serving :
    /\ \/ pc[c] = "recvfrom" /\ Server("sendto", "recvfrom") /\ Put(c, sent[c])
       \/ pc[c] = "killed" /\ Server("sendto", "failed") /\ UNCHANGED buffer
    /\ serving' = {} /\ UNCHANGED <<queue, out>>

ud_ucase_server == Datagram /\ (bind \/ RecvRequest \/ SendReply)
---------------------------------------------------------------------------
Goto(c, from, to) == pc[c] = from /\ pc' = [pc EXCEPT ![c] = to]
Listening == server \notin {"bind", "listen", "failed"}

\* connect() waits for room in the backlog; without a server it fails.
connect(c) ==
  /\ \/ Listening /\ Len(queue) < BACKLOG /\ Goto(c, "start", "send") /\ queue' = Append(queue, c)
     \/ ~Listening /\ Goto(c, "start", "failed") /\ UNCHANGED queue
  /\ UNCHANGED <<version, server, serving, sent, buffer, out>>

SendBlock(c) ==
  /\ pc[c] = "send" /\ sent[c] < num_lines /\ Len(buffer[c]) < pipe_size
  /\ sent' = [sent EXCEPT ![c] = @ + 1] /\ Put(c, sent[c] + 1)
  /\ UNCHANGED <<version, server, serving, queue, out, pc>>

\* The end of the input.
Eof(c) ==
  /\ sent[c] = num_lines /\ Goto(c, "send", "exit")
  /\ UNCHANGED <<version, server, serving, queue, sent, buffer, out>>

us_xfr_client(c) == Stream /\ (connect(c) \/ SendBlock(c) \/ Eof(c))

bindClient(c) ==
  /\ Goto(c, "start", "send")
  /\ UNCHANGED <<version, server, serving, queue, sent, buffer, out>>

SendRequest(c) ==
  /\ sent[c] < num_lines
  /\ \/ /\ Listening /\ Goto(c, "send", "recvfrom")
        /\ queue' = Append(queue, c) /\ sent' = [sent EXCEPT ![c] = @ + 1]
     \/ ~Listening /\ Goto(c, "send", "failed") /\ UNCHANGED <<queue, sent>>
  /\ UNCHANGED <<version, server, serving, buffer, out>>

RecvReply(c) ==
  /\ buffer[c] # <<>> /\ Goto(c, "recvfrom", "send")
  /\ out' = Append(out, <<c, Head(buffer[c])>>) /\ Take(c)
  /\ UNCHANGED <<version, server, serving, queue, sent>>

ud_ucase_client(c) ==
  Datagram /\ (bindClient(c) \/ SendRequest(c) \/ RecvReply(c) \/ Eof(c))

\* A signal may end a client that talks to the server.
Kill(c) ==
  /\ pc[c] \in {"send", "recvfrom"} /\ pc' = [pc EXCEPT ![c] = "killed"]
  /\ UNCHANGED <<version, server, serving, queue, sent, buffer, out>>

client(c) == us_xfr_client(c) \/ ud_ucase_client(c)
Ended(c)  == pc[c] \in {"exit", "failed", "killed"}

\* The server waits, or the answer to a client died with the server.
Idle ==
  \/ /\ \A c \in Client : Ended(c)
     /\ server \in {"accept", "recvfrom", "failed"} /\ (queue = <<>> \/ server = "failed")
  \/ server = "failed" /\ \A c \in Client : Ended(c) \/ (pc[c] = "recvfrom" /\ buffer[c] = <<>>)

Next ==
  \/ us_xfr_server \/ ud_ucase_server
  \/ \E c \in Client : client(c) \/ Kill(c)
  \/ Idle /\ UNCHANGED vars

Spec == Init /\ [][Next]_vars
---------------------------------------------------------------------------
\* What comes out of a client's blocks or answers is in order and without a gap;
\* the server's output holds a stream in one piece and, once the connection is
\* closed, all of it; and an answer that waits belongs to the last message.
Of(c) == {k \in DOMAIN out : out[k][1] = c}

StreamWhole ==
  /\ \A c \in Client : \A k \in Of(c) : out[k] = <<c, Cardinality({j \in Of(c) : j <= k})>>
  /\ Stream =>
       /\ \A i, j, k \in DOMAIN out : i < j /\ j < k /\ out[i][1] = out[k][1] =>
            out[j][1] = out[i][1]
       /\ \A c \in Client :
            sent[c] > 0 /\ c \notin serving \cup ToSet(queue) => Cardinality(Of(c)) = sent[c]
  /\ Datagram => \A c \in Client : buffer[c] # <<>> => buffer[c] = <<sent[c]>>

\* Every client ends and the server waits for the next one; with datagrams,
\* unless the server was killed by a client's end.
Served == <>Idle
=============================================================================
