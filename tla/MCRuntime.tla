----------------------------- MODULE MCRuntime -----------------------------
(***************************************************************************)
(* Instances of GalhoRuntime for TLC.                                      *)
(***************************************************************************)
EXTENDS GalhoDependencySearch, GalhoPolicies, TLC

\* The morphisms that satisfy a dependency, withdraw it again, rule it out or consult it, and
\* those that lead up to and back from them.
DependencyCalls ==
  {"Plan", "ApplyToPreview", "RecordApproval", "Promote", "Verify", "DriftReconcile",
   "SealDone", "Abandon", "RevertApply"}

NameSymmetry  == Permutations(Tasks) \cup Permutations(Galhos)
StackSymmetry  == Permutations(Tasks) \cup Permutations(Roots)

-----------------------------------------------------------------------------
(***************************************************************************)
(* What the sources say of the tables, evaluated before every run.         *)
(***************************************************************************)
\* "GoldenPreserving = 9, CeilingCrossing = 14 (NonTransactionalIo = 12,
\* ExternalObservation = 2)", one tier per edge and none for anything else.
ASSUME TierTally ==
  /\ Cardinality(GoldenPreserving) = 9
  /\ Cardinality(NonTransactionalIo) = 12 /\ Cardinality(ExternalObservation) = 2
  /\ \A p \in Phases, m \in Morphisms : EdgeTier(p, m) # None <=> Offers(p, m)

\* Every phase but Done can re-enter the golden subgraph within 7 edges, crossings allowed;
\* on golden rails alone only a failed and a rolled back galho, which are one edge away.
ASSUME GoldenReturn ==
  /\ GoldenSubgraph = {"Declared", "Planned", "Destroyed"}
  /\ \A p \in Phases : DistanceAnyEdge[p] <= 7 <=> p # "Done"
  /\ { p \in Phases : DistanceViaGolden[p] \in 1..(Far - 1) } = {"Failed", "RolledBack"}
  /\ DistanceViaGolden["Failed"] = 1 /\ DistanceViaGolden["RolledBack"] = 1

\* "Every returned move strictly decreases" the distance, and there is one unless the goal
\* is reached or out of reach.
ASSUME AttractorTerminates ==
  \A p \in Phases, goal \in Goals :
    /\ Cardinality(Recommended(p, goal)) = IF DistanceTo[goal][p] \in {0, Far} THEN 0 ELSE 1
    /\ \A e \in Recommended(p, goal) : DistanceTo[goal][e[3]] = DistanceTo[goal][p] - 1

\* The prescribed knowledge base validates; each morphism of a phase leads forward or
\* backward; a phase that can be parked in for free cannot be held hostage by a lock's TTL,
\* and one that holds a lock is not guaranteed free.
ASSUME KnowledgeHolds ==
  /\ Validates
  /\ \A p \in Phases :
       /\ { m \in Morphisms : Offers(p, m) } = ForwardMorphisms(p) \cup BackwardMorphisms(p)
       /\ ForwardMorphisms(p) \cap BackwardMorphisms(p) = {}
       /\ ParkCost(p) = "None" => Comfort[p][1] # MitigatedTtl
       /\ ParkCost(p) = "TtlBounded" => Comfort[p][1] # Guaranteed
       /\ p \notin TerminalPhases => IsReachable(p, "Destroyed") /\ IsReachable(p, "Done")
=============================================================================
