------------------------------ MODULE MCAudit ------------------------------
(***************************************************************************)
(* Instances of GalhoAudit for TLC.                                        *)
(***************************************************************************)
EXTENDS GalhoAudit, TLC

AuditSymmetry == Permutations(Tasks)
=============================================================================
