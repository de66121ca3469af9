--------------------------- MODULE MCOutcomeChain ---------------------------
(***************************************************************************)
(* Instances of OutcomeChain for TLC.                                      *)
(***************************************************************************)
EXTENDS OutcomeChain, TLC

CONSTANTS t1, t2, t3, p1, p2

\* Two callers of one process next to a process of a single caller.
TwoProcesses == (t1 :> p1) @@ (t2 :> p1) @@ (t3 :> p2)
OneCaller    == t1 :> p1
=============================================================================
