------------------------------ MODULE MCPrograms ------------------------------
(* Programs for the Programs run: two kernels  and a function of the        *)
(* prelude, kernels that can all be vectorized, and text that is no C.      *)
EXTENDS Programs

MCSources == {<<[name |-> "get_global_id", kind |-> "function"],
                [name |-> "copy", kind |-> "vectorizable"],
                [name |-> "histogram", kind |-> "scalar"]>>,
              <<[name |-> "add", kind |-> "vectorizable"],
                [name |-> "copy", kind |-> "vectorizable"]>>,
              <<[name |-> "copy", kind |-> "broken"]>>}

MCNames == {"copy", "histogram", "get_global_id", "null"}

MCDevices == {Null, <<Cpu>>, <<Other>>, <<Cpu, Null>>, <<Other, Cpu>>}
=============================================================================
