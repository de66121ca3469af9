----------------------------- MODULE MCBranches -----------------------------
(***************************************************************************)
(* Instance of GalhoBranches for TLC: a resource in every shape, and one   *)
(* it may depend on, that is there or not.                                 *)
(***************************************************************************)
EXTENDS GalhoBranches

CONSTANTS full, other,          \* resource ids
          p, q,                 \* attribute paths
          v1, v2, v3,           \* attribute values
          k1, k2,               \* kinds
          r1, r2                \* roots

FullShapes ==
  [kind : {k1, k2}, attrs : { a \in [{p, q} -> {v1, v2, v3, None}] : a[q] \in {v1, None} },
   deps : SUBSET {other}]

OtherShapes == [kind : {k1, k2}, attrs : { [x \in {p, q} |-> None] }, deps : { {} }]

\* The graphs of root r1 whose edges have both their ends.
Graphs ==
  { g \in [root : {r1},
           resources : { [i \in {full, other} |-> IF i = full THEN x ELSE y] :
                           x \in FullShapes \cup {None}, y \in OtherShapes \cup {None} },
           edges : SUBSET {<<full, other>>}] :
      g.edges \subseteq Live(g.resources) \X Live(g.resources) }

\* Values and kinds are interchangeable: a base needs one of each only.  Its edges and
\* dependencies are there or not, for the sides to add or to remove.
StartGraphs ==
  { g \in Graphs :
      \A i \in {full, other} :
        LET r == g.resources[i]
        IN  r # None => r.kind = k1 /\ r.attrs[p] \in {v1, None} }
=============================================================================
