----------------------------- MODULE MCSessions -----------------------------
(***************************************************************************)
(* Instances of GalhoSessions for TLC.                                     *)
(***************************************************************************)
EXTENDS GalhoSessions, TLC

CONSTANTS a, b, r

InOrder == <<a, b, r>>

\* What sessions one after the other leave behind when they take a to Verified and b, which
\* depends on a, to the brink of its merge, both under one stack lock.
Plan     == {"has_plan", "stack_lock_held", "has_apply_receipt", "has_approval_quorum"}
Midway ==
  [x \in {a, b, r} |->
     CASE x = a -> [phase |-> "Verified",
                    flags |-> Plan \cup {"has_merge_event", "has_verify_receipt"},
                    depends_on |-> {}, deps_satisfied |-> {}]
       [] x = b -> [phase |-> "ApprovedAwaitingMerge", flags |-> Plan,
                    depends_on |-> {a}, deps_satisfied |-> {a}]
       [] x = r -> {a, b}]

UnderReview == [Midway EXCEPT ![b].phase = "AppliedPendingReview",
                              ![b].flags = Plan \ {"has_approval_quorum"}]

EmptyOrMidway == {Nothing, UnderReview, Midway}

\* Onwards, and back again from both ends.
SessionCommands == {"Plan", "ApplyToPreview", "RecordApproval", "Promote", "DriftReconcile",
                    "RevertApply"}

\* The slots of sessions differ in nothing.
SlotSymmetry == Permutations(Sessions)
=============================================================================
