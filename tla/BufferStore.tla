----------------------------- MODULE BufferStore -----------------------------
(***************************************************************************)
(* What the buffer calls promise: every buffer is an array of bytes of its  *)
(* own; a write changes the bytes it names, and no others of this or of     *)
(* another buffer; a read returns the bytes it names.  There are no         *)
(* addresses here.  A byte is a pair: the write it comes from and the       *)
(* offset that write meant it for.                                          *)
(***************************************************************************)
EXTENDS Integers

CONSTANTS Mems,  \* buffer handles
          Sizes, \* sizes of buffers
          Bytes  \* pairs of a write and an offset

VARIABLES contents, \* the buffers that exist, each from 0..(size - 1) to Bytes
          got       \* the bytes the last call returned, by their offsets

vars == <<contents, got>>

Nothing == [i \in {} |-> {}]

Init == contents = [m \in {} |-> {}] /\ got = Nothing

(* A new buffer holds arbitrary bytes.                                      *)
Create(m) ==
  /\ m \notin DOMAIN contents
  /\ DOMAIN contents' = DOMAIN contents \cup {m}
  /\ \E n \in Sizes : contents'[m] \in [0..(n - 1) -> Bytes]
  /\ \A q \in DOMAIN contents : contents'[q] = contents[q]
  /\ got' = Nothing

Destroy(m) ==
  /\ m \in DOMAIN contents
  /\ contents' = [q \in DOMAIN contents \ {m} |-> contents[q]]
  /\ got' = Nothing

Write(m) ==
  /\ m \in DOMAIN contents
  /\ \E w \in {b[1] : b \in Bytes}, lo, hi \in DOMAIN contents[m] :
       contents' = [contents EXCEPT ![m] =
                      [i \in DOMAIN @ |-> IF i \in lo..hi THEN <<w, i>> ELSE @[i]]]
  /\ got' = Nothing

Read(m) ==
  /\ m \in DOMAIN contents
  /\ \E lo, hi \in DOMAIN contents[m] : got' = [i \in lo..hi |-> contents[m][i]]
  /\ UNCHANGED contents

(* Any other call, and a refused one, returns no bytes.                     *)
Other == got' = Nothing /\ UNCHANGED contents

Next == Other \/ \E m \in Mems : Create(m) \/ Destroy(m) \/ Write(m) \/ Read(m)

Spec == Init /\ [][Next]_vars
=============================================================================
