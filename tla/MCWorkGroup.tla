----------------------------- MODULE MCWorkGroup -----------------------------
(* Launches small enough to enumerate, large enough for every relation      *)
(* between local size, chunk, ULT count and vector length.                  *)
EXTENDS WorkGroup

OneDim == {[dim |-> 1, offs |-> <<o>>, gsz |-> <<2 * l>>, lsz |-> <<l>>] :
             o \in {0, 3}, l \in 1..9}

TwoDim == {[dim |-> 2, offs |-> <<1, 2>>, gsz |-> <<2 * k, l>>, lsz |-> <<k, l>>] :
             k \in {1, 3, 4}, l \in 1..5}

ThreeDim == {[dim |-> 3, offs |-> <<0, 1, 0>>, gsz |-> <<k, 2, 2 * l>>, lsz |-> <<k, 2, l>>] :
             k \in {2, 3}, l \in 1..3}

MCLaunches == OneDim \cup TwoDim \cup ThreeDim
=============================================================================
