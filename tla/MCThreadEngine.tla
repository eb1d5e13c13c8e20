--------------------------- MODULE MCThreadEngine ---------------------------
(* Launches for the ThreadEngine runs.                                      *)
EXTENDS ThreadEngine

Req(o, g, l) == [null |-> "none", dim |-> Len(g), offs |-> o, gsz |-> g, lsz |-> l]

(* Calls that are refused, one per error, and a size that two errors fit.   *)
BadRequests ==
  {[null |-> n, dim |-> 1, offs |-> <<0>>, gsz |-> <<2>>, lsz |-> <<2>>] : n \in NullArgs \ {"none"}}
    \cup {Req(<<0>>, <<3>>, <<2>>), Req(<<>>, <<>>, <<>>),
          Req(<<0, 0, 0, 0>>, <<2, 1, 1, 1>>, <<2, 1, 1, 1>>),
          Req(<<0, 0, 0, 0>>, <<2, 1, 1, 3>>, <<2, 1, 1, 2>>)}

(* Sizes at which vector steps spill into the next chunk (local size 5, two *)
(* ULTs, two lanes), and an empty range.                                    *)
MixedRequests == BadRequests \cup
  {Req(<<0>>, <<5>>, <<5>>), Req(<<1>>, <<4>>, <<2>>), Req(<<0>>, <<0>>, <<1>>)}

(* Sizes at which chunks and vectors fit, in each dimension.                *)
AlignedRequests == BadRequests \cup
  {Req(<<1>>, <<6>>, <<3>>), Req(<<0, 1>>, <<1, 6>>, <<1, 3>>),
   Req(<<0, 0, 0>>, <<1, 2, 4>>, <<1, 1, 2>>)}

(* The same and a range in three dimensions over several work groups.       *)
ThreeMixed == MixedRequests \cup
  {Req(<<0>>, <<3>>, <<2>>), Req(<<0, 0, 0>>, <<1, 2, 4>>, <<1, 1, 2>>)}

(* Two rows in two work groups, two ULTs per work group: the second ULT of  *)
(* a work group has no row left.                                            *)
RowRequests == {Req(<<0>>, <<3>>, <<2>>), Req(<<0, 0>>, <<2, 2>>, <<2, 1>>)}

(* The buffers: every element the launches above cover, and the ones past   *)
(* and between them that a wrong index would reach.                         *)
LineCells  == (0..7) \X {0} \X {0}
CrossCells == ((0..8) \X {0} \X {0}) \cup ({0} \X (0..8) \X {0})
                \cup ((0..1) \X (0..2) \X (0..4))
PlaneCells == (0..2) \X (0..3) \X {0}
CubeCells  == LineCells \cup ((0..1) \X (0..2) \X (0..4))
=============================================================================
