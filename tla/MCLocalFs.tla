------------------------------ MODULE MCLocalFs ------------------------------
(***************************************************************************)
(* Instances of LocalFsBackend for TLC.                                    *)
(***************************************************************************)
EXTENDS LocalFsBackend, TLC

CONSTANTS n1, n2, web

\* Two refs that differ in their extension only.
SharedStem == (n1 :> web) @@ (n2 :> web)
=============================================================================
