---------------------------- MODULE GalhoPolicies ----------------------------
(***************************************************************************)
(* The tables and pure functions that judge and steer the lifecycle: which *)
(* edges touch a cloud, the credential each edge takes, how comfortable    *)
(* each phase is to rest in, and the move the golden attractor recommends. *)
(* They never see a flag or a lock; the properties put them next to the    *)
(* contexts of the runtime.                                                *)
(*                                                                         *)
(* Sources: galho-types/src/{flow_tier,cred,comfort,attractor,knowledge}.rs *)
(***************************************************************************)
EXTENDS GalhoRuntime, FiniteSetsExt

-----------------------------------------------------------------------------
(***************************************************************************)
(* Edge tiers.                                                             *)
(***************************************************************************)
GoldenPreserving ==
  { <<"Declared", "Plan">>, <<"AppliedPendingReview", "RecordApproval">>,
    <<"ApprovedAwaitingMerge", "Promote">>, <<"Merged", "Verify">>, <<"Verified", "SealDone">>,
    <<"Declared", "Abandon">>, <<"Planned", "Abandon">>,
    <<"Failed", "Recover">>, <<"RolledBack", "Resume">> }

NonTransactionalIo ==
  { <<"Planned", "ApplyToPreview">>, <<"Drifted", "DriftReconcile">> }
    \cup ({"AppliedPendingReview", "ApprovedAwaitingMerge", "RollingBack"} \X {"RevertApply"})
    \cup ({"AppliedPendingReview", "ApprovedAwaitingMerge", "RolledBack", "Failed"}
            \X {"Abandon"})
    \cup ({"AppliedPendingReview", "Merged", "RollingBack"} \X {"Escalate"})

ExternalObservation == { <<"Verified", "DriftReconcile">>, <<"Drifted", "Escalate">> }

EdgeTier(p, m) ==
  CASE <<p, m>> \in GoldenPreserving    -> "GoldenPreserving"
    [] <<p, m>> \in NonTransactionalIo  -> "NonTransactionalIo"
    [] <<p, m>> \in ExternalObservation -> "ExternalObservation"
    [] OTHER                            -> None

IsGolden(p, m) == EdgeTier(p, m) = "GoldenPreserving"

-----------------------------------------------------------------------------
(***************************************************************************)
(* Credentials.                                                            *)
(***************************************************************************)
Scopes == {"ReadOnly", "Write"}

\* Faulty variant: only an apply needs to write.
RequiredScopeOfApply(p, m) ==
  CASE EdgeTier(p, m) = None -> None
    [] m = "ApplyToPreview"  -> "Write"
    [] OTHER                 -> "ReadOnly"

RequiredScope(p, m) ==
  CASE EdgeTier(p, m) = None                 -> None
    [] EdgeTier(p, m) = "NonTransactionalIo" -> "Write"
    [] OTHER                                 -> "ReadOnly"

SatisfiedBy(required, provided) == required = "ReadOnly" \/ provided = "Write"

\* CeilingCrossing::authorize: a witness is given for an edge that crosses a ceiling.
Authorizes(p, m, provided) ==
  /\ EdgeTier(p, m) \notin {None, "GoldenPreserving"}
  /\ SatisfiedBy(RequiredScope(p, m), provided)

-----------------------------------------------------------------------------
(***************************************************************************)
(* Distances.                                                              *)
(***************************************************************************)
\* More edges than any shortest path has: no path.
Far == Cardinality(Phases)

\* The phases from which an edge leads to a phase of nearer, and these themselves.
Widened(edges, nearer) == nearer \cup { e[1] : e \in { f \in edges : f[3] \in nearer } }

\* The phases of the breadth-first search, level by level.
Within(edges, goals) ==
  LET within[k \in 0..Far] == IF k = 0 THEN goals ELSE Widened(edges, within[k - 1])
  IN  within

\* Per phase, the least number of edges to a phase of goals.
Distances(edges, goals) ==
  [p \in Phases |-> Min({ k \in 0..Far : k = Far \/ p \in Within(edges, goals)[k] })]

GoldenEdges == { e \in TransitionTable : IsGolden(e[1], e[2]) }

\* The phases to which golden edges lead from Declared.
GoldenSubgraph ==
  { p \in Phases : Distances(GoldenEdges, {p})["Declared"] < Far }

DistanceViaGolden == Distances(GoldenEdges, GoldenSubgraph)
DistanceAnyEdge   == Distances(TransitionTable, GoldenSubgraph)

Goals == TerminalPhases

DistanceTo == [goal \in Goals |-> Distances(TransitionTable, {goal})]

IsReachable(p, q) == Distances(TransitionTable, {q})[p] < Far

-----------------------------------------------------------------------------
(***************************************************************************)
(* The comfort matrix: per phase, how severe its worst is of being held    *)
(* hostage, of code flow, of environment flow and of its exit; and what it *)
(* costs to park there.                                                    *)
(***************************************************************************)
Guaranteed      == 0
MitigatedTtl    == 1
MitigatedConfig == 2
Fails           == 3

Comfort ==
  [p \in Phases |->
     CASE p = "Planned"               -> <<MitigatedConfig, Guaranteed, Guaranteed, Guaranteed>>
       [] p = "AppliedPendingReview"  -> <<MitigatedTtl, Guaranteed, MitigatedConfig, Guaranteed>>
       [] p = "ApprovedAwaitingMerge" -> <<MitigatedTtl, Guaranteed, Guaranteed, Guaranteed>>
       [] p = "Merged"                -> <<Guaranteed, Guaranteed, Fails, Guaranteed>>
       [] p = "Verified"              -> <<Guaranteed, Guaranteed, MitigatedTtl, Guaranteed>>
       [] p = "RollingBack" ->
            <<MitigatedConfig, Guaranteed, MitigatedConfig, MitigatedConfig>>
       [] p = "RolledBack"            -> <<Fails, Guaranteed, Guaranteed, Guaranteed>>
       [] p = "Drifted"               -> <<Guaranteed, Guaranteed, MitigatedConfig, Guaranteed>>
       [] p = "Failed"                -> <<MitigatedConfig, Guaranteed, Guaranteed, Guaranteed>>
       [] OTHER                       -> <<Guaranteed, Guaranteed, Guaranteed, Guaranteed>>]

WorstTier(p) == Max({ Comfort[p][i] : i \in 1..4 })

ParkCost(p) ==
  CASE p = "Merged" -> "Transient"
    [] p \in {"AppliedPendingReview", "ApprovedAwaitingMerge", "RollingBack", "RolledBack",
              "Failed"} -> "TtlBounded"
    [] OTHER -> "None"

-----------------------------------------------------------------------------
(***************************************************************************)
(* The golden attractor.                                                   *)
(***************************************************************************)
\* The edges from p that lie on a shortest path to the goal.
OnShortestPath(p, goal) ==
  { e \in TransitionTable :
      e[1] = p /\ DistanceTo[goal][p] < Far
               /\ DistanceTo[goal][e[3]] + 1 = DistanceTo[goal][p] }

\* Golden before crossing, then the most comfortable; smaller is better.
Key(e) == (IF IsGolden(e[1], e[2]) THEN 0 ELSE 4) + WorstTier(e[3])

\* recommend: one edge at most, since no two best edges have the same key.
Recommended(p, goal) ==
  { e \in OnShortestPath(p, goal) : \A f \in OnShortestPath(p, goal) : Key(e) <= Key(f) }

-----------------------------------------------------------------------------
(***************************************************************************)
(* KnowledgeBase::validate.                                                *)
(***************************************************************************)
BackwardMorphisms(p) ==
  { m \in Morphisms :
      \E q \in BackwardPhases \cup {"Failed", "Destroyed"} : Row(p, m, q) }

Validates ==
  /\ \A p \in Phases \ TerminalPhases : \E m \in Morphisms : Offers(p, m)
  /\ \A e \in TransitionTable : e[2] \in Morphisms
  /\ \A e, f \in TransitionTable : e[1] = f[1] /\ e[3] = f[3] => e = f
  /\ \A p \in Phases : SyncKind(p) # None

-----------------------------------------------------------------------------
(***************************************************************************)
(* Properties.                                                             *)
(***************************************************************************)
\* check_preconditions lets e pass for g, with what fire_morphism itself raises, once g has
\* the evidence F and its dependencies in S are satisfied as well.
Passes(g, e, F, S) ==
  Permits(e[2], phase[g], flags[g] \cup PreGranted(e[2]) \cup F,
          dependsOn[g], depsSatisfied[g] \cup S)

Unapproved(g) == SyncKind(phase[g]) = "OperatorApproval" /\ "has_approval_quorum" \notin flags[g]

Unready(g) == { d \in dependsOn[g] : phase[d] \notin DoneEnough }

\* Steering never runs into a wall: in whatever phase, with whatever evidence and among
\* whatever dependencies concurrent calls have left a galho, the attractor, which knows the
\* table only, has a move for either goal, and the preconditions let it pass.  There are two
\* exceptions, and nothing else is then missing: the approval that the sync of the phase
\* asks for is not there yet; or the move is a promotion, and a dependency is, at that
\* moment, really neither verified nor done.
AttractorUnrefused ==
  \A g \in { x \in Known : phase[x] \notin TerminalPhases }, goal \in Goals :
    /\ Recommended(phase[g], goal) # {}
    /\ \A e \in Recommended(phase[g], goal) :
         \/ Passes(g, e, {}, {})
         \/ Unapproved(g) /\ Passes(g, e, {"has_approval_quorum"}, {})
         \/ e[2] = "Promote" /\ Unready(g) # {} /\ Passes(g, e, {}, Unready(g))

\* What has been applied changes only along edges that take a write credential: no step of
\* the runtime makes or drops an apply receipt on an edge for which a read credential, or
\* none, is enough.  Recover is the exception: it forgets the receipt of a failed galho on
\* an edge that counts as golden.
ReceiptsByCloud ==
  [][ \A g \in Known :
        ("has_apply_receipt" \in flags[g]) # ("has_apply_receipt" \in flags'[g]) =>
          \E m \in Morphisms :
            /\ Row(phase[g], m, phase'[g])
            /\ \/ Authorizes(phase[g], m, "Write") /\ ~ Authorizes(phase[g], m, "ReadOnly")
               \/ m = "Recover" ]_contextVars
=============================================================================
