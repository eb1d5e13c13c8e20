------------------------------- MODULE RefMap -------------------------------
(***************************************************************************)
(* The reference-count maps of the API objects (MemObjMap, KernelMap, ...): *)
(* std::map<T *, unsigned int>, a function from the handles of the objects  *)
(* that exist to their counts, with retain() and release().                 *)
(***************************************************************************)
EXTENDS Naturals

EmptyMap == [p \in {} |-> 0]

Added(Map, p) == [q \in DOMAIN Map \cup {p} |-> IF q = p THEN 1 ELSE Map[q]]

Retained(Map, p) == [Map EXCEPT ![p] = @ + 1]

(* release() deletes the object with its last reference.                    *)
IsLast(Map, p) == Map[p] = 1

\* Mutant: the object is deleted although one more reference is held.
ReleasedEarly(Map, p) ==
  IF Map[p] <= 2 THEN [q \in DOMAIN Map \ {p} |-> Map[q]]
                 ELSE [Map EXCEPT ![p] = @ - 1]

Released(Map, p) ==
  IF IsLast(Map, p) THEN [q \in DOMAIN Map \ {p} |-> Map[q]]
                    ELSE [Map EXCEPT ![p] = @ - 1]
=============================================================================
