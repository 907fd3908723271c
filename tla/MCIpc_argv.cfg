CONSTANTS
  Programs = {"parse"}
  num_children = 3
  pipe_size = 2
  num_lines = 3
  c1 = c1
  c2 = c2
  Client = {c1, c2}
  BACKLOG = 1
  Lengths <- AskedFor
  INT_MAX = 5
  max_gap = 2
SPECIFICATION Spec
INVARIANT ArgvTerminated
