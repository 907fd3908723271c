------------------------------- MODULE MCPssh -------------------------------
(* Model values, symmetry and the sets of raced windows for the runs of    *)
(* Pssh.                                                                   *)
EXTENDS Pssh, TLC
CONSTANTS p1, p2, p3
TwoPids      == {p1, p2}
ThreePids    == {p1, p2, p3}
Calm         == {}
Every        == Windows
OnlyRegister == {"register"}
OnlyChildFg  == {"childfg"}
OnlyFg       == {"fg"}
OnlyPause    == {"pause"}
Symmetry     == Permutations(Pid)
=============================================================================
