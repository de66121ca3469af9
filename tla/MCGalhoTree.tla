----------------------------- MODULE MCGalhoTree -----------------------------
(***************************************************************************)
(* Instances of GalhoTree for TLC.                                         *)
(***************************************************************************)
EXTENDS GalhoTree, TLC

CONSTANTS root, child, join

\* A root, a child of it, and a merge of the two: join is two moves from root, or one.
Triangle == (root :> {}) @@ (child :> {root}) @@ (join :> {root, child})

\* The two galhos can be told apart by nothing.
Symmetry == Permutations(Galhos)
=============================================================================
