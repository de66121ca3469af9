---------------------------- MODULE GalhoPhases ----------------------------
(***************************************************************************)
(* The static knowledge a galho runtime consults: the lifecycle phases and *)
(* their classes, the transition table, the preconditions of every         *)
(* morphism, the flags a morphism grants and clears, and the sync that     *)
(* gates each phase.  Pure definitions: no state lives here.               *)
(*                                                                         *)
(* Sources: galho-types/src/{phase,morphism,knowledge,sync}.rs and the     *)
(* flag bookkeeping of galho-cli/src/lib.rs.                               *)
(***************************************************************************)
EXTENDS Naturals

ForwardPhases  == {"Declared", "Planned", "AppliedPendingReview",
                   "ApprovedAwaitingMerge", "Merged", "Verified"}
BackwardPhases == {"RollingBack", "RolledBack", "Drifted"}
TerminalPhases == {"Done", "Destroyed"}
Phases         == ForwardPhases \cup BackwardPhases \cup TerminalPhases \cup {"Failed"}

Morphisms == {"Plan", "ApplyToPreview", "RecordApproval", "Promote", "Verify",
              "SealDone", "RevertApply", "DriftReconcile", "Abandon", "Escalate",
              "Recover", "Resume"}

(***************************************************************************)
(* The rows <<from, morphism, to>> of the transition table.                *)
(***************************************************************************)
TransitionTable ==
  { <<"Declared",              "Plan",           "Planned">>,
    <<"Planned",               "ApplyToPreview", "AppliedPendingReview">>,
    <<"AppliedPendingReview",  "RecordApproval", "ApprovedAwaitingMerge">>,
    <<"ApprovedAwaitingMerge", "Promote",        "Merged">>,
    <<"Merged",                "Verify",         "Verified">>,
    <<"Verified",              "SealDone",       "Done">>,
    <<"AppliedPendingReview",  "RevertApply",    "RollingBack">>,
    <<"ApprovedAwaitingMerge", "RevertApply",    "RollingBack">>,
    <<"RollingBack",           "RevertApply",    "RolledBack">>,
    <<"Verified",              "DriftReconcile", "Drifted">>,
    <<"Drifted",               "DriftReconcile", "Verified">>,
    <<"Drifted",               "Escalate",       "Failed">>,
    <<"Declared",              "Abandon",        "Destroyed">>,
    <<"Planned",               "Abandon",        "Destroyed">>,
    <<"AppliedPendingReview",  "Abandon",        "Destroyed">>,
    <<"ApprovedAwaitingMerge", "Abandon",        "Destroyed">>,
    <<"RolledBack",            "Abandon",        "Destroyed">>,
    <<"Failed",                "Abandon",        "Destroyed">>,
    <<"AppliedPendingReview",  "Escalate",       "Failed">>,
    <<"Merged",                "Escalate",       "Failed">>,
    <<"RollingBack",           "Escalate",       "Failed">>,
    <<"Failed",                "Recover",        "Declared">>,
    <<"RolledBack",            "Resume",         "Planned">> }

Row(p, m, q)  == <<p, m, q>> \in TransitionTable
Offers(p, m)  == \E q \in Phases : Row(p, m, q)

\* The morphisms whose target advances the arc; at most one leaves each phase.
ForwardMorphisms(p) ==
  { m \in Morphisms : \E q \in ForwardPhases \cup {"Done"} : Row(p, m, q) }

-----------------------------------------------------------------------------
(***************************************************************************)
(* Evidence flags of a MorphismContext.  conflict_open and drift_detected  *)
(* are left out: no code of the repository ever sets them.                 *)
(***************************************************************************)
Flags == {"has_plan", "has_apply_receipt", "has_approval_quorum", "has_merge_event",
          "has_verify_receipt", "jira_ticket_resolvable", "stack_lock_held"}

\* The phases in which check_preconditions raises no WrongPhase.
PhasesFor(m) ==
  CASE m = "Plan"           -> {"Declared"}
    [] m = "ApplyToPreview" -> {"Planned"}
    [] m = "RecordApproval" -> {"AppliedPendingReview"}
    [] m = "Promote"        -> {"ApprovedAwaitingMerge"}
    [] m = "Verify"         -> {"Merged"}
    [] m = "SealDone"       -> {"Verified"}
    [] m = "RevertApply"    -> {"AppliedPendingReview", "ApprovedAwaitingMerge",
                                "RollingBack"}
    [] m = "DriftReconcile" -> {"Verified", "Drifted"}
    [] m = "Abandon"        -> Phases \ TerminalPhases
    [] m = "Escalate"       -> Phases
    [] m = "Recover"        -> {"Failed"}
    [] m = "Resume"         -> {"RolledBack"}

\* The flags check_preconditions demands.
Required(m) ==
  CASE m = "ApplyToPreview" -> {"has_plan", "stack_lock_held"}
    [] m = "RecordApproval" -> {"has_apply_receipt", "has_approval_quorum"}
    [] m = "Promote"        -> {"has_approval_quorum", "has_merge_event"}
    [] m = "Verify"         -> {"has_verify_receipt"}
    [] m = "SealDone"       -> {"jira_ticket_resolvable"}
    [] m = "RevertApply"    -> {"has_apply_receipt"}
    [] m = "Resume"         -> {"has_plan"}
    [] OTHER                -> {}

\* Faulty variant: a promotion does not look at the dependencies.
PermitsIgnoringDeps(m, p, F, D, S) == p \in PhasesFor(m) /\ Required(m) \subseteq F

\* Faulty variant: no approval quorum is asked for.
PermitsUnreviewed(m, p, F, D, S) ==
  /\ p \in PhasesFor(m)
  /\ Required(m) \ {"has_approval_quorum"} \subseteq F
  /\ m = "Promote" => D \subseteq S

\* check_preconditions: no requirement of m is unmet by a context in phase p with
\* flags F whose dependencies D have been observed satisfied as S.
Permits(m, p, F, D, S) ==
  /\ p \in PhasesFor(m)
  /\ Required(m) \subseteq F
  /\ m = "Promote" => D \subseteq S

\* The flags fire_morphism sets before it checks the preconditions.
PreGranted(m) ==
  CASE m = "ApplyToPreview" -> {"stack_lock_held"}
    [] m = "Promote"        -> {"has_merge_event"}
    [] m = "Verify"         -> {"has_verify_receipt"}
    [] m = "SealDone"       -> {"jira_ticket_resolvable"}
    [] OTHER                -> {}

\* The flags a fired morphism sets.
Granted(m) ==
  CASE m = "Plan"           -> {"has_plan"}
    [] m = "ApplyToPreview" -> {"has_apply_receipt", "stack_lock_held"}
    [] m = "RecordApproval" -> {"has_approval_quorum"}
    [] OTHER                -> PreGranted(m)

\* The flags a fired morphism clears when it lands in q.
Cleared(m, q) ==
  CASE m \in {"Abandon", "Recover"} -> Flags
    [] m = "RevertApply" /\ q = "RolledBack" ->
         {"has_apply_receipt", "has_approval_quorum", "stack_lock_held"}
    [] OTHER -> {}

\* Faulty variant: the approval outlives the rollback.
FlagsAfterKeepingApproval(m, q, F) ==
  (F \ (Cleared(m, q) \ {"has_approval_quorum"})) \cup Granted(m)

\* Faulty variant: a rollback drops the evidence when it starts, not when it lands.
FlagsAfterEagerRevert(m, q, F) ==
  (F \ Cleared(m, IF m = "RevertApply" THEN "RolledBack" ELSE q)) \cup Granted(m)

\* update_flags_post_morphism.
FlagsAfter(m, q, F) == (F \ Cleared(m, q)) \cup Granted(m)

-----------------------------------------------------------------------------
(***************************************************************************)
(* Syncs.  The runtime's knowledge base is private and always the default, *)
(* so the fleet defaults are what every phase is gated by.                 *)
(***************************************************************************)
SyncKind(p) ==
  CASE p \in {"AppliedPendingReview", "Failed"} -> "OperatorApproval"
    [] p = "ApprovedAwaitingMerge"              -> "ExternalSignal"
    [] p = "Verified"                           -> "AttestationGated"
    [] p = "Drifted"                            -> "TimeBased"
    [] OTHER                                    -> "Automatic"

ApprovalRoles(p) ==
  CASE p = "AppliedPendingReview" -> {"reviewer", "security-officer"}
    [] p = "Failed"               -> {"galho-admin"}
    [] OTHER                      -> {}

ApprovalQuorum == 1

\* A dependency in one of these phases no longer gates its dependents.
DoneEnough == {"Verified", "Done"}

\* The phases between a fired apply and the end of its rollback or of its galho.
AppliedPhases   == {"AppliedPendingReview", "ApprovedAwaitingMerge", "Merged", "Verified",
                    "Done", "Drifted", "RollingBack", "Failed"}
ReviewedPhases  == {"ApprovedAwaitingMerge", "Merged", "Verified", "Done", "Drifted"}
\* The phases whose galho has a plan to apply.
PlannedPhases   == AppliedPhases \cup {"Planned", "RolledBack"}

\* The flags F are those of a galho in phase p: all the evidence p stands for, and none
\* that would outlive its cycle.
EvidenceMatches(p, F) ==
  /\ p \in PlannedPhases  => "has_plan" \in F
  /\ p \in AppliedPhases  => {"has_apply_receipt", "stack_lock_held"} \subseteq F
  /\ p \in ReviewedPhases => "has_approval_quorum" \in F
  /\ p \notin PlannedPhases => "has_plan" \notin F
  /\ p \notin AppliedPhases => {"has_apply_receipt", "has_approval_quorum"} \cap F = {}
=============================================================================
