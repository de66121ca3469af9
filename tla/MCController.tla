---------------------------- MODULE MCController ----------------------------
(***************************************************************************)
(* Instances of GalhoController for TLC.                                   *)
(***************************************************************************)
EXTENDS GalhoController

\* What one operator does to a galho: review it, roll it back, promote it, and fire the
\* very morphisms the controller is about to fire.
OperatorCalls ==
  {"Plan", "ApplyToPreview", "RecordApproval", "Promote", "Verify", "RevertApply"}
=============================================================================
