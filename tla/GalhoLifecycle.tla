--------------------------- MODULE GalhoLifecycle ---------------------------
(***************************************************************************)
(* What a Runtime promises of its galhos, as one atomic step per operation *)
(* and with no trace of flags, calls or critical sections: phases move     *)
(* along the transition table; nothing is applied without a stack lock nor *)
(* with the approval of an earlier apply; nothing is merged unapproved or  *)
(* ahead of a dependency.                                                  *)
(***************************************************************************)
EXTENDS GalhoPhases

CONSTANT Galhos

VARIABLES
  phase,      \* per name: its phase, "Absent" before creation
  dependsOn,  \* per name: its dependencies
  approved,   \* the galhos whose current apply has been approved
  holders     \* the galhos that have joined a stack lock

lifecycleVars == <<phase, dependsOn, approved, holders>>

DependenciesDone(g) == \A d \in dependsOn[g] : phase[d] \in DoneEnough

NoCycle(deps) == \A S \in (SUBSET Galhos) \ {{}} : \E g \in S : deps[g] \cap S = {}

Create(g) ==
  /\ phase[g] = "Absent"
  /\ phase' = [phase EXCEPT ![g] = "Declared"]
  /\ \E D \in SUBSET Galhos : dependsOn' = [dependsOn EXCEPT ![g] = D]
  /\ NoCycle(dependsOn')
  /\ UNCHANGED <<approved, holders>>

\* Anyone may queue on a stack lock, in any phase.
JoinLock(g) ==
  /\ holders' = holders \cup {g}
  /\ UNCHANGED <<phase, dependsOn, approved>>

Approve(g) ==
  /\ phase[g] \in {"AppliedPendingReview", "Failed"}
  /\ approved' = approved \cup {g}
  /\ UNCHANGED <<phase, dependsOn, holders>>

Move(g, q) ==
  /\ \E m \in Morphisms : Row(phase[g], m, q)
  /\ q = "AppliedPendingReview"               => g \in holders /\ g \notin approved
  /\ q \in {"ApprovedAwaitingMerge", "Merged"} => g \in approved
  /\ q = "Merged"                             => DependenciesDone(g)
  /\ phase' = [phase EXCEPT ![g] = q]
  /\ approved' = IF q \in {"RolledBack", "Declared", "Destroyed"}
                 THEN approved \ {g} ELSE approved
  /\ UNCHANGED <<dependsOn, holders>>

Init ==
  /\ phase     = [g \in Galhos |-> "Absent"]
  /\ dependsOn = [g \in Galhos |-> {}]
  /\ approved  = {}
  /\ holders   = {}

Next ==
  \E g \in Galhos :
    \/ Create(g) \/ JoinLock(g) \/ Approve(g)
    \/ \E q \in Phases : Move(g, q)

Spec == Init /\ [][Next]_lifecycleVars
=============================================================================
