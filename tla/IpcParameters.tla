---------------------------- MODULE IpcParameters ----------------------------
(***************************************************************************)
(* The sizes of the programs that talk to each other over pipes, fifos,    *)
(* sockets and shared memory, and the bounds of their models.              *)
(***************************************************************************)
EXTENDS Integers, FiniteSets

CONSTANTS
  num_children,   \* barrier_sync_with_pipes.c: sleep times on the command line
  pipe_size,      \* writes a pipe or a socket's buffer has room for
  num_lines,      \* lines ls prints, blocks a file is copied in
  Client,         \* clients of the servers
  Lengths,        \* the sequence lengths clients ask for: any atoi() may return
  INT_MAX,        \* the largest int
  BACKLOG,        \* connections that may wait for accept()
  max_gap         \* blanks the user types between two words

ASSUME PipesAssumption ==
  num_children \in Nat \ {0, 1, 2} /\ pipe_size \in Nat \ {0} /\ num_lines \in Nat

ASSUME ClientAssumption ==
  /\ IsFiniteSet(Client) /\ Client # {} /\ "server" \notin Client
  /\ BACKLOG \in Nat \ {0}

ASSUME NumberAssumption ==
  INT_MAX \in Nat \ {0} /\ Lengths \subseteq -INT_MAX - 1 .. INT_MAX

ASSUME LineAssumption == max_gap \in Nat \ {0}
=============================================================================
