------------------------- MODULE GalhoRuntimeProofs -------------------------
(***************************************************************************)
(* Proofs about GalhoRuntime, the search of GalhoDependencySearch and the  *)
(* policies of GalhoPolicies, for any number of names, stack roots and     *)
(* callers.                                                                *)
(***************************************************************************)
EXTENDS GalhoDependencySearch, GalhoPolicies, FiniteSetTheorems, WellFoundedInduction, TLAPS

-----------------------------------------------------------------------------
(***************************************************************************)
(* The static knowledge.                                                   *)
(***************************************************************************)

\* The flags a call raises by itself are the ones no review or apply stands for.
LEMMA PreGrantedFlags ==
  ASSUME NEW m \in Morphisms
  PROVE  /\ PreGranted(m) \subseteq Flags
         /\ PreGranted(m) \cap {"has_plan", "has_apply_receipt", "has_approval_quorum"} = {}
         /\ "stack_lock_held" \in PreGranted(m) => m = "ApplyToPreview"
  BY DEF PreGranted, Morphisms, Flags

LEMMA FlagsAfterType ==
  ASSUME NEW m \in Morphisms, NEW q, NEW F \in SUBSET Flags
  PROVE  FlagsAfter(m, q, F) \in SUBSET Flags
  BY DEF FlagsAfter, Granted, PreGranted, Cleared, Morphisms, Flags

\* A signal is only ever delivered to a galho that awaits its merge.
LEMMA SignalPromotes ==
  ASSUME NEW p, SyncKind(p) = "ExternalSignal", NEW m \in ForwardMorphisms(p)
  PROVE  p = "ApprovedAwaitingMerge" /\ m = "Promote"
<1>1. p = "ApprovedAwaitingMerge"
  BY DEF SyncKind
<1>2. PICK q \in ForwardPhases \cup {"Done"} : Row(p, m, q)
  BY DEF ForwardMorphisms
<1> QED BY <1>1, <1>2 DEF Row, TransitionTable, ForwardPhases

-----------------------------------------------------------------------------
(***************************************************************************)
(* Type correctness.                                                       *)
(***************************************************************************)

LEMMA PropagatedType ==
  ASSUME NEW ph, NEW deps \in [Galhos -> SUBSET Galhos]
  PROVE  /\ Propagated(ph, deps) \in [Galhos -> SUBSET Galhos]
         /\ \A g \in Galhos : Propagated(ph, deps)[g] \subseteq deps[g]
  BY DEF Propagated

LEMMA TypeInit == Init => TypeOK
  BY DEF Init, TypeOK, Pending, NoCall

LEMMA EventTypes ==
  ASSUME NEW g \in Galhos
  PROVE  /\ \A k \in EventKinds : Event(k, g) \in OutcomeEvent
         /\ \A m \in Morphisms, q \in Phases : FiredEvent(g, m, q) \in OutcomeEvent
  BY DEF Event, FiredEvent, OutcomeEvent, EventKinds, None

\* The critical sections that both a fresh call and a continued one may run.
LEMMA TypePrepareStep ==
  ASSUME TypeOK, NEW t \in Tasks, NEW g \in Galhos, NEW m \in Morphisms,
         PrepareStep(t, g, m)
  PROVE  TypeOK'
  BY PreGrantedFlags DEF TypeOK, PrepareStep, Pending

LEMMA TypeAdvanceStep ==
  ASSUME TypeOK, NEW t \in Tasks, NEW g \in Galhos, NEW m \in Morphisms,
         AdvanceStep(t, g, m)
  PROVE  TypeOK'
<1>1. ASSUME NEW q \in Phases, Fired(t, g, m, q)
      PROVE  TypeOK'
  <2>1. phase' \in [Galhos -> Phases \cup {"Absent"}]
    BY <1>1 DEF Fired, TypeOK
  <2>2. flags' \in [Galhos -> SUBSET Flags]
    BY <1>1, FlagsAfterType DEF Fired, TypeOK
  <2>3. /\ depsSatisfied' \in [Galhos -> SUBSET Galhos]
        /\ \A h \in Galhos : depsSatisfied'[h] \subseteq dependsOn[h]
    BY <1>1, PropagatedType DEF Fired, TypeOK
  <2>4. outbox' \in [Tasks -> Seq(OutcomeEvent)]
    <3>1. FiredEvent(g, m, q) \in OutcomeEvent /\ Event("GalhoDestroyed", g) \in OutcomeEvent
      BY EventTypes DEF EventKinds
    <3> QED BY <1>1, <3>1 DEF Fired, TypeOK
  <2> QED BY <1>1, <2>1, <2>2, <2>3, <2>4 DEF Fired, TypeOK
<1>2. ASSUME Blocked(t, g, m)
      PROVE  TypeOK'
  <2>1. Event("MorphismBlocked", g) \in OutcomeEvent
    BY EventTypes DEF EventKinds
  <2> QED BY <1>2, <2>1 DEF Blocked, TypeOK, contextVars
<1>3. ASSUME NotFound(t, g)
      PROVE  TypeOK'
  BY <1>3 DEF NotFound, TypeOK, contextVars
<1> QED BY <1>1, <1>2, <1>3 DEF AdvanceStep

LEMMA TypeBegin ==
  ASSUME TypeOK, NEW t \in Tasks, Begin(t)
  PROVE  TypeOK'
<1>1. ASSUME NEW g \in Galhos, NEW D \in SUBSET Galhos, Create(t, g, D)
      PROVE  TypeOK'
  <2>1. /\ phase' \in [Galhos -> Phases \cup {"Absent"}]
        /\ dependsOn' \in [Galhos -> SUBSET Galhos]
    BY <1>1 DEF Create, TypeOK, Phases, ForwardPhases
  <2>2. /\ depsSatisfied' \in [Galhos -> SUBSET Galhos]
        /\ \A h \in Galhos : depsSatisfied'[h] \subseteq dependsOn'[h]
    BY <1>1, <2>1, PropagatedType DEF Create
  <2>3. outbox' \in [Tasks -> Seq(OutcomeEvent)]
    <3>1. Event("GalhoCreated", g) \in OutcomeEvent
      BY EventTypes DEF EventKinds
    <3> QED BY <1>1, <3>1 DEF Create, TypeOK
  <2>4. UNCHANGED <<flags, confirmations, locks, call>>
    BY <1>1 DEF Create
  <2> QED BY <2>1, <2>2, <2>3, <2>4 DEF TypeOK
<1>2. ASSUME NEW g \in Galhos, NEW role \in ApprovalRoles(phase[g]), ConfirmApproval(t, g, role)
      PROVE  TypeOK'
  <2>1. phase[g] \in Phases /\ role \in Roles
    BY <1>2, ZenonT(60) DEF Roles, ApprovalRoles, Phases, ForwardPhases, TypeOK
  <2>2. confirmations' \in [Galhos -> SUBSET (Phases \X Roles)]
    BY <1>2, <2>1 DEF ConfirmApproval, TypeOK
  <2>3. flags' \in [Galhos -> SUBSET Flags]
    BY <1>2 DEF ConfirmApproval, TypeOK, Flags
  <2>4. Event("SyncConfirmed", g) \in OutcomeEvent
    BY EventTypes DEF EventKinds
  <2> QED BY <1>2, <2>2, <2>3, <2>4 DEF ConfirmApproval, TypeOK
<1>3. ASSUME NEW g \in Galhos, NEW r \in Roots, JoinOrAcquireLock(t, g, r)
      PROVE  TypeOK'
  <2>1. /\ Event("StackLockAcquired", g) \in OutcomeEvent
        /\ Event("StackLockJoined", g) \in OutcomeEvent
    BY EventTypes DEF EventKinds
  <2>2. locks' \in [Roots -> SUBSET Galhos]
    BY <1>3 DEF JoinOrAcquireLock, TypeOK, Joined
  <2>3. call' \in [Tasks -> Pending \cup {NoCall}]
    BY <1>3 DEF JoinOrAcquireLock, TypeOK, Pending, Morphisms
  <2> QED BY <1>3, <2>1, <2>2, <2>3 DEF JoinOrAcquireLock, TypeOK, contextVars
<1>4. ASSUME NEW g \in Galhos, NEW m \in Morphisms, FirePrepared(t, g, m) \/ FireDirect(t, g, m)
      PROVE  TypeOK'
  BY <1>4, TypePrepareStep, TypeAdvanceStep DEF FirePrepared, FireDirect
<1>5. ASSUME NEW g \in Galhos, DeliverSignal(t, g)
      PROVE  TypeOK'
  <2>1. Event("SyncConfirmed", g) \in OutcomeEvent
    BY EventTypes DEF EventKinds
  <2>2. call' \in [Tasks -> Pending \cup {NoCall}]
    BY <1>5 DEF DeliverSignal, TypeOK, Pending, ForwardMorphisms, FirstStage
  <2> QED BY <1>5, <2>1, <2>2 DEF DeliverSignal, TypeOK, contextVars
<1> QED BY <1>1, <1>2, <1>3, <1>4, <1>5 DEF Begin

LEMMA TypeQuiet ==
  ASSUME TypeOK, NEW t \in Tasks, Quiet(t)
  PROVE  TypeOK'
<1>1. call[t].stage # "idle" => call[t].galho \in Galhos /\ call[t].morphism \in Morphisms
  BY DEF TypeOK, Pending, NoCall
<1> QED BY <1>1, TypePrepareStep, TypeAdvanceStep DEF Quiet, Prepare, Advance

LEMMA TypeEmit ==
  ASSUME TypeOK, NEW t \in Tasks, Emit(t)
  PROVE  TypeOK'
<1>1. Tail(outbox[t]) \in Seq(OutcomeEvent)
  BY DEF TypeOK, Emit
<1> QED BY <1>1 DEF TypeOK, Emit, contextVars

LEMMA TypeNext == TypeOK /\ [Next]_vars => TypeOK'
<1> SUFFICES ASSUME TypeOK, [Next]_vars PROVE TypeOK'
  OBVIOUS
<1>1. CASE Next
  BY <1>1, TypeBegin, TypeQuiet, TypeEmit DEF Next
<1>2. CASE UNCHANGED vars
  BY <1>2 DEF vars, contextVars, TypeOK
<1> QED BY <1>1, <1>2

\* Every reachable state of the runtime is well typed, and every satisfied dependency
\* of a galho is a declared one.
THEOREM TypeCorrect == Spec => []TypeOK
  BY TypeInit, TypeNext, PTL DEF Spec

-----------------------------------------------------------------------------
(***************************************************************************)
(* Dependencies: no cycle is ever declared, and none is acted on stale.    *)
(***************************************************************************)

\* Only a creation touches the declared dependencies, and it closes no cycle: of a set
\* whose members would all depend on one another after it, the part that the new name
\* reaches (or all of it, when the new name is not in it) was one before.
LEMMA AcyclicCreate ==
  ASSUME TypeOK, Acyclic, NEW t \in Tasks, NEW g \in Galhos, NEW D \in SUBSET Galhos,
         Create(t, g, D)
  PROVE  Acyclic'
<1>1. PICK R \in SUBSET Galhos :
        /\ D \subseteq R
        /\ \A h \in R : dependsOn[h] \subseteq R
        /\ g \notin R
  BY DEF Create, WouldCycle
<1>2. /\ dependsOn'[g] = D
      /\ \A h \in Galhos \ {g} : dependsOn'[h] = dependsOn[h]
  BY DEF Create, TypeOK
<1>3. SUFFICES ASSUME NEW S \in SUBSET Galhos, S # {},
                      \A h \in S : dependsOn'[h] \cap S # {}
               PROVE  FALSE
  BY DEF Acyclic
<1>4. CASE S \cap R # {}
  <2>1. \A h \in S \cap R : dependsOn[h] \cap (S \cap R) # {}
    BY <1>1, <1>2, <1>3
  <2> QED BY <1>4, <2>1 DEF Acyclic
<1>5. CASE S \cap R = {}
  <2>1. g \notin S
    BY <1>1, <1>2, <1>3, <1>5
  <2>2. \A h \in S : dependsOn[h] \cap S # {}
    BY <1>2, <1>3, <2>1
  <2> QED BY <1>3, <2>2 DEF Acyclic
<1> QED BY <1>4, <1>5

\* Apart from a creation, no step of a caller touches what the galhos depend on.
LEMMA DependenciesFixed ==
  ASSUME NEW t \in Tasks, Begin(t) \/ Quiet(t) \/ Emit(t),
         \A g \in Galhos : \A D \in SUBSET Galhos : ~ Create(t, g, D)
  PROVE  UNCHANGED dependsOn
<1>1. ASSUME NEW g, NEW m, AdvanceStep(t, g, m)
      PROVE  UNCHANGED dependsOn
  BY <1>1 DEF AdvanceStep, Fired, Blocked, NotFound, contextVars
<1>2. ASSUME NEW g, NEW m, PrepareStep(t, g, m)
      PROVE  UNCHANGED dependsOn
  BY <1>2 DEF PrepareStep
<1>3. ASSUME Begin(t)
      PROVE  UNCHANGED dependsOn
  BY <1>1, <1>2, <1>3
     DEF Begin, ConfirmApproval, JoinOrAcquireLock, FirePrepared, FireDirect,
         DeliverSignal, contextVars
<1> QED BY <1>1, <1>2, <1>3 DEF Quiet, Prepare, Advance, Emit, contextVars

LEMMA AcyclicNext == TypeOK /\ Acyclic /\ [Next]_vars => Acyclic'
<1> SUFFICES ASSUME TypeOK, Acyclic, [Next]_vars PROVE Acyclic'
  OBVIOUS
<1>1. ASSUME UNCHANGED dependsOn
      PROVE  Acyclic'
  BY <1>1 DEF Acyclic
<1>2. ASSUME NEW t \in Tasks, Begin(t) \/ Quiet(t) \/ Emit(t)
      PROVE  Acyclic'
  BY <1>1, <1>2, AcyclicCreate, DependenciesFixed
<1> QED BY <1>1, <1>2 DEF Next, vars, contextVars

LEMMA AcyclicInit == Init => Acyclic
  BY DEF Init, Acyclic

\* The dependencies the callers declare never form a cycle, in any order of creation
\* and of any length.
THEOREM DependenciesAcyclic == Spec => []Acyclic
  BY AcyclicInit, AcyclicNext, TypeInit, TypeNext, PTL DEF Spec

\* A step either recomputes every satisfied set from the phases it leaves, or changes
\* neither a phase nor a dependency.
LEMMA Recomputed ==
  ASSUME NEW t \in Tasks, Begin(t) \/ Quiet(t) \/ Emit(t)
  PROVE  \/ depsSatisfied' = Propagated(phase', dependsOn')
         \/ UNCHANGED <<phase, dependsOn, depsSatisfied>>
<1>1. ASSUME NEW g, NEW m, AdvanceStep(t, g, m)
      PROVE  \/ depsSatisfied' = Propagated(phase', dependsOn')
             \/ UNCHANGED <<phase, dependsOn, depsSatisfied>>
  <2>1. ASSUME NEW q \in Phases, Fired(t, g, m, q)
        PROVE  depsSatisfied' = Propagated(phase', dependsOn')
    BY <2>1 DEF Fired, Propagated
  <2> QED BY <1>1, <2>1 DEF AdvanceStep, Blocked, NotFound, contextVars
<1>2. ASSUME NEW g, NEW m, PrepareStep(t, g, m)
      PROVE  UNCHANGED <<phase, dependsOn, depsSatisfied>>
  BY <1>2 DEF PrepareStep
<1>3. ASSUME Begin(t)
      PROVE  \/ depsSatisfied' = Propagated(phase', dependsOn')
             \/ UNCHANGED <<phase, dependsOn, depsSatisfied>>
  BY <1>1, <1>2, <1>3
     DEF Begin, Create, ConfirmApproval, JoinOrAcquireLock, FirePrepared, FireDirect,
         DeliverSignal, contextVars
<1> QED BY <1>1, <1>2, <1>3 DEF Quiet, Prepare, Advance, Emit, contextVars

LEMMA DepsExactNext == TypeOK /\ DepsExact /\ [Next]_vars => DepsExact'
<1> SUFFICES ASSUME TypeOK, DepsExact, [Next]_vars PROVE DepsExact'
  OBVIOUS
<1>1. CASE UNCHANGED <<phase, dependsOn, depsSatisfied>>
  BY <1>1 DEF DepsExact
<1>2. CASE depsSatisfied' = Propagated(phase', dependsOn')
  BY <1>2 DEF DepsExact, Propagated, DoneEnough
<1> QED BY <1>1, <1>2, Recomputed DEF Next, vars, contextVars

LEMMA DepsExactInit == Init => DepsExact
  BY DEF Init, DepsExact

\* deps_satisfied is never stale.
THEOREM DependenciesExact == Spec => []DepsExact
  BY DepsExactInit, DepsExactNext, TypeInit, TypeNext, PTL DEF Spec

-----------------------------------------------------------------------------
(***************************************************************************)
(* The steps of a caller, by what they do to the phases and the flags.     *)
(***************************************************************************)

\* A phase moves when a galho is created or when one of its morphisms fires.
LEMMA PhaseMoves ==
  ASSUME TypeOK, NEW t \in Tasks, Begin(t) \/ Quiet(t) \/ Emit(t)
  PROVE  \/ \E g \in Galhos, D \in SUBSET Galhos : Create(t, g, D)
         \/ \E g \in Galhos, m \in Morphisms, q \in Phases : Fired(t, g, m, q)
         \/ UNCHANGED <<phase, dependsOn>>
<1> DEFINE Moves == \/ \E g \in Galhos, m \in Morphisms, q \in Phases : Fired(t, g, m, q)
                    \/ UNCHANGED <<phase, dependsOn>>
<1>1. ASSUME NEW g \in Galhos, NEW m \in Morphisms, AdvanceStep(t, g, m)
      PROVE  Moves
  BY <1>1 DEF AdvanceStep, Blocked, NotFound, contextVars
<1>2. ASSUME NEW g, NEW m, PrepareStep(t, g, m)
      PROVE  Moves
  BY <1>2 DEF PrepareStep
<1>3. CASE Begin(t)
  <2>1. ASSUME NEW g \in Galhos, NEW m \in Morphisms,
               FirePrepared(t, g, m) \/ FireDirect(t, g, m)
        PROVE  Moves
    BY <2>1, <1>1, <1>2 DEF FirePrepared, FireDirect
  <2> QED BY <1>3, <2>1
          DEF Begin, ConfirmApproval, JoinOrAcquireLock, DeliverSignal, contextVars
<1>4. CASE Quiet(t)
  <2>1. call[t].stage # "idle" => call[t].galho \in Galhos /\ call[t].morphism \in Morphisms
    BY DEF TypeOK, Pending, NoCall
  <2> QED BY <1>4, <2>1, <1>1, <1>2 DEF Quiet, Prepare, Advance
<1>5. CASE Emit(t)
  BY <1>5 DEF Emit, contextVars
<1> QED BY <1>3, <1>4, <1>5

\* A task that takes a step has nothing to emit, and the others are not disturbed.
LEMMA OthersKept ==
  ASSUME TypeOK, NEW t \in Tasks, Begin(t) \/ Quiet(t)
  PROVE  /\ outbox[t] = <<>>
         /\ \A u \in Tasks \ {t} : outbox'[u] = outbox[u] /\ call'[u] = call[u]
<1>1. ASSUME NEW g, NEW m, AdvanceStep(t, g, m) \/ PrepareStep(t, g, m)
      PROVE  \A u \in Tasks \ {t} : outbox'[u] = outbox[u] /\ call'[u] = call[u]
  BY <1>1 DEF AdvanceStep, Fired, Blocked, NotFound, PrepareStep, TypeOK
<1>2. CASE Begin(t)
  <2>1. PICK g \in Galhos :
          \/ \E D \in SUBSET Galhos : Create(t, g, D)
          \/ \E role \in ApprovalRoles(phase[g]) : ConfirmApproval(t, g, role)
          \/ \E r \in Roots : JoinOrAcquireLock(t, g, r)
          \/ \E m \in Morphisms : FirePrepared(t, g, m) \/ FireDirect(t, g, m)
          \/ DeliverSignal(t, g)
    BY <1>2 DEF Begin
  <2>2. Idle(t)
    BY <2>1 DEF Create, ConfirmApproval, JoinOrAcquireLock, FirePrepared, FireDirect,
               DeliverSignal
  <2>3. ASSUME NEW m \in Morphisms, FirePrepared(t, g, m) \/ FireDirect(t, g, m)
        PROVE  \A u \in Tasks \ {t} : outbox'[u] = outbox[u] /\ call'[u] = call[u]
    BY <2>3, <1>1 DEF FirePrepared, FireDirect
  <2>4. \A u \in Tasks \ {t} : outbox'[u] = outbox[u] /\ call'[u] = call[u]
    BY <2>1, <2>3 DEF Create, ConfirmApproval, JoinOrAcquireLock, DeliverSignal, TypeOK
  <2> QED BY <2>2, <2>4 DEF Idle
<1>3. CASE Quiet(t)
  BY <1>1, <1>3 DEF Quiet, Prepare, Advance
<1> QED BY <1>2, <1>3

\* A promotion is checked and done in one critical section, against satisfied sets that
\* are exact: that is all PromoteRespectsDeps rests on.
LEMMA PromoteStep ==
  ASSUME TypeOK, DepsExact, [Next]_vars, NEW g \in Galhos,
         phase[g] # "Merged", phase'[g] = "Merged"
  PROVE  \A d \in dependsOn[g] : phase[d] \in {"Verified", "Done"}
<1>1. ~ UNCHANGED phase
  OBVIOUS
<1>2. PICK t \in Tasks : Begin(t) \/ Quiet(t) \/ Emit(t)
  BY <1>1 DEF Next, vars, contextVars
<1>3. ASSUME NEW h \in Galhos, NEW D \in SUBSET Galhos, Create(t, h, D)
      PROVE  FALSE
  BY <1>3 DEF Create, TypeOK
<1>4. PICK h \in Galhos, m \in Morphisms, q \in Phases : Fired(t, h, m, q)
  BY <1>1, <1>2, <1>3, PhaseMoves
<1>5. h = g /\ q = "Merged"
  BY <1>4 DEF Fired, TypeOK
<1>6. m = "Promote"
  BY <1>4, <1>5 DEF Fired, Row, TransitionTable
<1>7. dependsOn[g] \subseteq depsSatisfied[g]
  BY <1>4, <1>5, <1>6 DEF Fired, Permits
<1> QED BY <1>7 DEF DepsExact

\* No galho is merged ahead of one of its dependencies.
THEOREM PromotionOrdered == Spec => PromoteRespectsDeps
<1>1. TypeOK /\ DepsExact /\ [Next]_vars =>
        [\A g \in Galhos : phase[g] # "Merged" /\ phase'[g] = "Merged" =>
           \A d \in dependsOn[g] : phase[d] \in {"Verified", "Done"}]_vars
  BY PromoteStep
<1> QED BY <1>1, TypeCorrect, DependenciesExact, PTL DEF Spec, PromoteRespectsDeps

-----------------------------------------------------------------------------
(***************************************************************************)
(* Evidence.  Galho by galho, EvidenceHeld and EvidenceFresh relate one    *)
(* phase p to one set of flags F.                                          *)
(***************************************************************************)
Evidence(p, F) ==
  /\ p \in PlannedPhases  <=> "has_plan" \in F
  /\ p \in AppliedPhases  <=> "has_apply_receipt" \in F
  /\ p \in AppliedPhases  => "stack_lock_held" \in F
  /\ p \in ReviewedPhases => "has_approval_quorum" \in F
  /\ p \notin AppliedPhases => "has_approval_quorum" \notin F

LEMMA EvidenceByGalho ==
  EvidenceHeld /\ EvidenceFresh <=> \A g \in Galhos : Evidence(phase[g], flags[g])
  BY DEF EvidenceHeld, EvidenceFresh, Evidence, PlannedPhases

\* Every row of the table, under the flags it requires, leads from evidence to evidence.
LEMMA EvidenceFired ==
  ASSUME NEW p, NEW m \in Morphisms, NEW q, NEW F \in SUBSET Flags,
         Row(p, m, q), Required(m) \subseteq F, Evidence(p, F)
  PROVE  Evidence(q, FlagsAfter(m, q, F))
<1> USE DEF Evidence, PlannedPhases, AppliedPhases, ReviewedPhases, Row, TransitionTable,
            FlagsAfter, Granted, PreGranted, Cleared, Flags
<1>1. CASE m = "Plan"
  BY <1>1
<1>2. CASE m = "ApplyToPreview"
  BY <1>2
<1>3. CASE m = "RecordApproval"
  BY <1>3 DEF Required
<1>4. CASE m \in {"Promote", "Verify", "SealDone"}
  BY <1>4
<1>5. CASE m = "RevertApply"
  BY <1>5
<1>6. CASE m \in {"Abandon", "Recover"}
  BY <1>6
<1>7. CASE m \in {"DriftReconcile", "Escalate", "Resume"}
  BY <1>7
<1> QED BY <1>1, <1>2, <1>3, <1>4, <1>5, <1>6, <1>7 DEF Morphisms

EvidenceInv == EvidenceHeld /\ EvidenceFresh

LEMMA EvidencePrepareStep ==
  ASSUME TypeOK, EvidenceInv, NEW t \in Tasks, NEW g \in Galhos, NEW m \in Morphisms,
         PrepareStep(t, g, m)
  PROVE  EvidenceInv'
<1>1. \A h \in Galhos : Evidence(phase[h], flags[h])
  BY EvidenceByGalho DEF EvidenceInv
<1>2. \A h \in Galhos : flags[h] \subseteq flags'[h] /\ flags'[h] \subseteq flags[h] \cup PreGranted(m)
  BY DEF PrepareStep, TypeOK
<1>3. \A h \in Galhos : Evidence(phase'[h], flags'[h])
  BY <1>1, <1>2, PreGrantedFlags DEF Evidence, PrepareStep
<1> QED BY <1>3 DEF EvidenceInv, EvidenceHeld, EvidenceFresh, Evidence, PlannedPhases

LEMMA EvidenceAdvanceStep ==
  ASSUME TypeOK, EvidenceInv, NEW t \in Tasks, NEW g \in Galhos, NEW m \in Morphisms,
         AdvanceStep(t, g, m)
  PROVE  EvidenceInv'
<1>1. \A h \in Galhos : Evidence(phase[h], flags[h])
  BY EvidenceByGalho DEF EvidenceInv
<1>2. ASSUME NEW q \in Phases, Fired(t, g, m, q)
      PROVE  EvidenceInv'
  <2>1. Evidence(q, FlagsAfter(m, q, flags[g]))
    BY <1>1, <1>2, EvidenceFired DEF Fired, Permits, TypeOK
  <2>2. \A h \in Galhos : Evidence(phase'[h], flags'[h])
    BY <1>1, <1>2, <2>1 DEF Fired, TypeOK
  <2> QED BY <2>2 DEF EvidenceInv, EvidenceHeld, EvidenceFresh, Evidence, PlannedPhases
<1>3. ASSUME Blocked(t, g, m) \/ NotFound(t, g)
      PROVE  EvidenceInv'
  BY <1>3 DEF Blocked, NotFound, contextVars, EvidenceInv, EvidenceHeld, EvidenceFresh
<1> QED BY <1>2, <1>3 DEF AdvanceStep

LEMMA EvidenceNext == TypeOK /\ EvidenceInv /\ [Next]_vars => EvidenceInv'
<1> SUFFICES ASSUME TypeOK, EvidenceInv, [Next]_vars PROVE EvidenceInv'
  OBVIOUS
<1>1. \A h \in Galhos : Evidence(phase[h], flags[h])
  BY EvidenceByGalho DEF EvidenceInv
<1>2. ASSUME UNCHANGED <<phase, flags>>
      PROVE  EvidenceInv'
  BY <1>2 DEF EvidenceInv, EvidenceHeld, EvidenceFresh
<1>3. ASSUME NEW t \in Tasks, Begin(t)
      PROVE  EvidenceInv'
  <2>1. ASSUME NEW g \in Galhos, NEW D \in SUBSET Galhos, Create(t, g, D)
        PROVE  EvidenceInv'
    <3>1. \A h \in Galhos : Evidence(phase'[h], flags'[h])
      BY <1>1, <2>1 DEF Create, TypeOK, Evidence, PlannedPhases, AppliedPhases, ReviewedPhases
    <3> QED BY <3>1 DEF EvidenceInv, EvidenceHeld, EvidenceFresh, Evidence, PlannedPhases
  <2>2. ASSUME NEW g \in Galhos, NEW role, ConfirmApproval(t, g, role)
        PROVE  EvidenceInv'
    <3>1. phase[g] \in AppliedPhases
      BY <2>2 DEF ConfirmApproval, SyncKind, AppliedPhases
    <3>2. /\ phase' = phase
          /\ \A h \in Galhos : flags'[h] = flags[h] \/
                 (h = g /\ flags'[h] = flags[h] \cup {"has_approval_quorum"})
      BY <2>2 DEF ConfirmApproval, TypeOK
    <3>3. \A h \in Galhos : Evidence(phase'[h], flags'[h])
      BY <1>1, <3>1, <3>2 DEF Evidence
    <3> QED BY <3>3 DEF EvidenceInv, EvidenceHeld, EvidenceFresh, Evidence, PlannedPhases
  <2>3. ASSUME NEW g \in Galhos, NEW m \in Morphisms, FirePrepared(t, g, m) \/ FireDirect(t, g, m)
        PROVE  EvidenceInv'
    BY <2>3, EvidencePrepareStep, EvidenceAdvanceStep DEF FirePrepared, FireDirect
  <2> QED BY <1>2, <1>3, <2>1, <2>2, <2>3
          DEF Begin, JoinOrAcquireLock, DeliverSignal, contextVars
<1>4. ASSUME NEW t \in Tasks, Quiet(t)
      PROVE  EvidenceInv'
  <2>1. call[t].stage # "idle" => call[t].galho \in Galhos /\ call[t].morphism \in Morphisms
    BY DEF TypeOK, Pending, NoCall
  <2> QED BY <1>4, <2>1, EvidencePrepareStep, EvidenceAdvanceStep DEF Quiet, Prepare, Advance
<1>5. ASSUME NEW t \in Tasks, Emit(t)
      PROVE  EvidenceInv'
  BY <1>2, <1>5 DEF Emit, contextVars
<1> QED BY <1>2, <1>3, <1>4, <1>5 DEF Next, vars, contextVars

LEMMA EvidenceInit == Init => EvidenceInv
  BY DEF Init, EvidenceInv, EvidenceHeld, EvidenceFresh, PlannedPhases, AppliedPhases,
         ReviewedPhases

\* No interleaving of calls takes from a galho the evidence its phase stands for.
THEOREM EvidenceKept == Spec => []EvidenceHeld
  BY EvidenceInit, EvidenceNext, TypeInit, TypeNext, PTL DEF Spec, EvidenceInv

\* Nor does any evidence survive the rollback or recovery that ends its cycle.
THEOREM EvidenceRenewed == Spec => []EvidenceFresh
  BY EvidenceInit, EvidenceNext, TypeInit, TypeNext, PTL DEF Spec, EvidenceInv

\* What the evidence is for: whatever the calls did, the way on is not barred.
LEMMA WayOut == TypeOK /\ EvidenceInv => NoDeadEnd
<1> SUFFICES ASSUME TypeOK, EvidenceInv, NEW g \in Known, phase[g] \notin TerminalPhases
             PROVE  \E m \in Morphisms \ {"Abandon", "Escalate", "Promote"} :
                      /\ Offers(phase[g], m)
                      /\ Permits(m, phase[g], flags[g] \cup PreGranted(m),
                                 dependsOn[g], depsSatisfied[g])
  BY DEF NoDeadEnd
<1> DEFINE Out(m) == /\ Offers(phase[g], m)
                     /\ Permits(m, phase[g], flags[g] \cup PreGranted(m),
                                dependsOn[g], depsSatisfied[g])
<1>1. Evidence(phase[g], flags[g])
  BY EvidenceByGalho DEF EvidenceInv, Known
<1> USE DEF Offers, Row, TransitionTable, Phases, ForwardPhases, BackwardPhases, TerminalPhases
<1>2. CASE phase[g] = "Declared"
  <2>1. Out("Plan")
    BY <1>2 DEF Permits, PhasesFor, Required
  <2> QED BY <2>1 DEF Morphisms
<1>3. CASE phase[g] = "Planned"
  <2>1. Out("ApplyToPreview")
    BY <1>1, <1>3 DEF Permits, PhasesFor, Required, PreGranted, Evidence, PlannedPhases
  <2> QED BY <2>1 DEF Morphisms
<1>4. CASE phase[g] \in {"AppliedPendingReview", "ApprovedAwaitingMerge", "RollingBack"}
  <2>1. Out("RevertApply")
    BY <1>1, <1>4 DEF Permits, PhasesFor, Required, Evidence, AppliedPhases
  <2> QED BY <2>1 DEF Morphisms
<1>5. CASE phase[g] = "Merged"
  <2>1. Out("Verify")
    BY <1>5 DEF Permits, PhasesFor, Required, PreGranted
  <2> QED BY <2>1 DEF Morphisms
<1>6. CASE phase[g] \in {"Verified", "Drifted"}
  <2>1. Out("DriftReconcile")
    BY <1>6 DEF Permits, PhasesFor, Required
  <2> QED BY <2>1 DEF Morphisms
<1>7. CASE phase[g] = "RolledBack"
  <2>1. Out("Resume")
    BY <1>1, <1>7 DEF Permits, PhasesFor, Required, Evidence, PlannedPhases
  <2> QED BY <2>1 DEF Morphisms
<1>8. CASE phase[g] = "Failed"
  <2>1. Out("Recover")
    BY <1>8 DEF Permits, PhasesFor, Required
  <2> QED BY <2>1 DEF Morphisms
<1>9. phase[g] \in Phases
  BY DEF Known, TypeOK
<1> QED BY <1>2, <1>3, <1>4, <1>5, <1>6, <1>7, <1>8, <1>9

\* Out of every phase that is not terminal a morphism other than giving up is permitted.
THEOREM AlwaysAWayOut == Spec => []NoDeadEnd
  BY WayOut, EvidenceInit, EvidenceNext, TypeInit, TypeNext, PTL DEF Spec

-----------------------------------------------------------------------------
(***************************************************************************)
(* The stack lock.  The flag of a context is raised in a critical section  *)
(* of its own, after the lock was joined: in between, the claim of the     *)
(* call in progress has to be remembered.                                  *)
(***************************************************************************)
Holds(g) == \E r \in Roots : g \in locks[r]

PreparedLockHeld ==
  \A t \in Tasks :
    call[t].stage = "prepare" /\ call[t].morphism = "ApplyToPreview" => Holds(call[t].galho)

LockInv == LockFlagBacked /\ PreparedLockHeld

LEMMA LockPrepareStep ==
  ASSUME TypeOK, LockInv, NEW t \in Tasks, NEW g \in Galhos, NEW m \in Morphisms,
         m = "ApplyToPreview" => Holds(g), PrepareStep(t, g, m)
  PROVE  LockInv'
<1>1. LockFlagBacked'
  <2> SUFFICES ASSUME NEW h \in Galhos, "stack_lock_held" \in flags'[h]
               PROVE  Holds(h)
    BY DEF LockFlagBacked, PrepareStep, Holds
  <2>1. CASE "stack_lock_held" \in flags[h]
    BY <2>1 DEF LockInv, LockFlagBacked, Holds
  <2>2. CASE "stack_lock_held" \notin flags[h]
    <3>1. h = g /\ "stack_lock_held" \in PreGranted(m)
      BY <2>2 DEF PrepareStep, TypeOK
    <3> QED BY <3>1, PreGrantedFlags
  <2> QED BY <2>1, <2>2
<1>2. PreparedLockHeld'
  BY DEF LockInv, PreparedLockHeld, PrepareStep, TypeOK, Holds
<1> QED BY <1>1, <1>2 DEF LockInv

\* Firing raises no lock flag that its preconditions did not find raised.
LEMMA LockFlagFired ==
  ASSUME NEW m \in Morphisms, NEW q, NEW F \in SUBSET Flags, Required(m) \subseteq F,
         "stack_lock_held" \in FlagsAfter(m, q, F)
  PROVE  "stack_lock_held" \in F
  BY DEF FlagsAfter, Granted, PreGranted, Required, Morphisms

LEMMA LockAdvanceStep ==
  ASSUME TypeOK, LockInv, NEW t \in Tasks, NEW g \in Galhos, NEW m \in Morphisms,
         AdvanceStep(t, g, m)
  PROVE  LockInv'
<1>1. /\ locks' = locks
      /\ call' = [call EXCEPT ![t] = NoCall]
  BY DEF AdvanceStep, Fired, Blocked, NotFound
<1>2. LockFlagBacked'
  <2>1. ASSUME NEW q \in Phases, Fired(t, g, m, q)
        PROVE  \A h \in Galhos : "stack_lock_held" \in flags'[h] => "stack_lock_held" \in flags[h]
    BY <2>1, LockFlagFired DEF Fired, Permits, TypeOK
  <2>2. \A h \in Galhos : "stack_lock_held" \in flags'[h] => "stack_lock_held" \in flags[h]
    BY <2>1 DEF AdvanceStep, Blocked, NotFound, contextVars
  <2> QED BY <1>1, <2>2 DEF LockInv, LockFlagBacked
<1>3. PreparedLockHeld'
  BY <1>1 DEF LockInv, PreparedLockHeld, TypeOK, NoCall, Holds
<1> QED BY <1>2, <1>3 DEF LockInv

LEMMA LockBegin ==
  ASSUME TypeOK, LockInv, NEW t \in Tasks, Begin(t)
  PROVE  LockInv'
<1>1. ASSUME NEW g \in Galhos, NEW D \in SUBSET Galhos, Create(t, g, D)
      PROVE  LockInv'
  BY <1>1 DEF Create, LockInv, LockFlagBacked, PreparedLockHeld, Holds
<1>2. ASSUME NEW g \in Galhos, NEW role, ConfirmApproval(t, g, role)
      PROVE  LockInv'
  <2>1. \A h \in Galhos : "stack_lock_held" \in flags'[h] => "stack_lock_held" \in flags[h]
    BY <1>2 DEF ConfirmApproval, TypeOK
  <2> QED BY <1>2, <2>1 DEF ConfirmApproval, LockInv, LockFlagBacked, PreparedLockHeld, Holds
<1>3. ASSUME NEW g \in Galhos, NEW r \in Roots, JoinOrAcquireLock(t, g, r)
      PROVE  LockInv'
  <2>1. \A h \in Galhos : Holds(h) => Holds(h)'
    BY <1>3 DEF JoinOrAcquireLock, Joined, Holds, TypeOK
  <2>2. Holds(g)'
    BY <1>3 DEF JoinOrAcquireLock, Joined, Holds, TypeOK
  <2>3. \A u \in Tasks : call'[u] = call[u] \/ (u = t /\ call'[u].galho = g)
    BY <1>3 DEF JoinOrAcquireLock, TypeOK
  <2>4. flags' = flags
    BY <1>3 DEF JoinOrAcquireLock, contextVars
  <2>5. LockFlagBacked'
    BY <2>1, <2>4 DEF LockInv, LockFlagBacked, Holds
  <2>6. PreparedLockHeld'
    <3> SUFFICES ASSUME NEW u \in Tasks, call'[u].stage = "prepare",
                        call'[u].morphism = "ApplyToPreview"
                 PROVE  Holds(call[u].galho)'
      BY DEF PreparedLockHeld
    <3>1. CASE call'[u] = call[u]
      <4>1. call[u].galho \in Galhos /\ Holds(call[u].galho)
        BY <3>1 DEF TypeOK, Pending, NoCall, LockInv, PreparedLockHeld
      <4> QED BY <2>1, <3>1, <4>1 DEF Holds
    <3>2. CASE call'[u].galho = g
      BY <2>2, <3>2 DEF Holds
    <3> QED BY <2>3, <3>1, <3>2
  <2> QED BY <2>5, <2>6 DEF LockInv
<1>4. ASSUME NEW g \in Galhos, NEW m \in Morphisms, FirePrepared(t, g, m) \/ FireDirect(t, g, m)
      PROVE  LockInv'
  BY <1>4, LockPrepareStep, LockAdvanceStep DEF FirePrepared, FireDirect
<1>5. ASSUME NEW g \in Galhos, DeliverSignal(t, g)
      PROVE  LockInv'
  <2>1. call'[t].morphism = "Promote"
    BY <1>5, SignalPromotes DEF DeliverSignal, TypeOK
  <2>2. \A u \in Tasks \ {t} : call'[u] = call[u]
    BY <1>5 DEF DeliverSignal, TypeOK
  <2> QED BY <1>5, <2>1, <2>2
          DEF DeliverSignal, LockInv, LockFlagBacked, PreparedLockHeld, Holds, contextVars
<1> QED BY <1>1, <1>2, <1>3, <1>4, <1>5 DEF Begin

LEMMA LockNext == TypeOK /\ LockInv /\ [Next]_vars => LockInv'
<1> SUFFICES ASSUME TypeOK, LockInv, [Next]_vars PROVE LockInv'
  OBVIOUS
<1>1. ASSUME UNCHANGED <<flags, locks, call>>
      PROVE  LockInv'
  BY <1>1 DEF LockInv, LockFlagBacked, PreparedLockHeld, Holds
<1>2. ASSUME NEW t \in Tasks, Quiet(t)
      PROVE  LockInv'
  <2>1. call[t].stage # "idle" => call[t].galho \in Galhos /\ call[t].morphism \in Morphisms
    BY DEF TypeOK, Pending, NoCall
  <2>2. CASE Prepare(t)
    BY <2>1, <2>2, LockPrepareStep DEF Prepare, LockInv, PreparedLockHeld
  <2>3. CASE Advance(t)
    BY <2>1, <2>3, LockAdvanceStep DEF Advance
  <2> QED BY <1>2, <2>2, <2>3 DEF Quiet
<1>3. ASSUME NEW t \in Tasks, Emit(t)
      PROVE  LockInv'
  BY <1>1, <1>3 DEF Emit, contextVars
<1> QED BY <1>1, <1>2, <1>3, LockBegin DEF Next, vars, contextVars

LEMMA LockInit == Init => LockInv
  BY DEF Init, LockInv, LockFlagBacked, PreparedLockHeld, NoCall

\* A context that claims the stack lock is among the holders of a stack root.
THEOREM LockFlagTrue == Spec => []LockFlagBacked
  BY LockInit, LockNext, TypeInit, TypeNext, PTL DEF Spec, LockInv

-----------------------------------------------------------------------------
(***************************************************************************)
(* The runtime implements GalhoLifecycle: a critical section is a step of  *)
(* the lifecycle or, seen through the mapping, no step at all.             *)
(***************************************************************************)
Approved == { g \in Galhos : "has_approval_quorum" \in flags[g] }
Holders  == { g \in Galhos : \E r \in Roots : g \in locks[r] }

\* What the runtime promises its callers, all of it proved above.
RuntimeInv == TypeOK /\ Acyclic /\ DepsExact /\ EvidenceInv /\ LockInv

LEMMA RuntimeInvInductive == RuntimeInv /\ [Next]_vars => RuntimeInv'
  BY TypeNext, AcyclicNext, DepsExactNext, EvidenceNext, LockNext DEF RuntimeInv

LEMMA RuntimeInvInit == Init => RuntimeInv
  BY TypeInit, AcyclicInit, DepsExactInit, EvidenceInit, LockInit DEF RuntimeInv

\* A step that leaves phases, dependencies, approvals and holders alone.
Stutter == /\ UNCHANGED <<phase, dependsOn>>
           /\ Approved' = Approved
           /\ Holders' = Holders

LEMMA StutterMaps ==
  ASSUME Stutter
  PROVE  UNCHANGED Lifecycle!lifecycleVars
  BY DEF Stutter, Lifecycle!lifecycleVars, Approved, Holders

LEMMA PrepareStutters ==
  ASSUME TypeOK, NEW t \in Tasks, NEW g \in Galhos, NEW m \in Morphisms, PrepareStep(t, g, m)
  PROVE  Stutter
<1>1. \A h \in Galhos : "has_approval_quorum" \in flags'[h] <=> "has_approval_quorum" \in flags[h]
  BY PreGrantedFlags DEF PrepareStep, TypeOK
<1> QED BY <1>1 DEF Stutter, Approved, Holders, PrepareStep

\* Firing drops the approval exactly where the lifecycle does, and never grants it.
LEMMA ApprovalFired ==
  ASSUME NEW p, NEW m \in Morphisms, NEW q, NEW F \in SUBSET Flags,
         Row(p, m, q), Required(m) \subseteq F
  PROVE  "has_approval_quorum" \in FlagsAfter(m, q, F) <=>
           /\ "has_approval_quorum" \in F
           /\ q \notin {"RolledBack", "Declared", "Destroyed"}
<1> USE DEF Row, TransitionTable, FlagsAfter, Granted, PreGranted, Cleared, Flags
<1>1. CASE m = "RecordApproval"
  BY <1>1 DEF Required
<1>2. CASE m \in {"Abandon", "Recover"}
  BY <1>2
<1>3. CASE m = "RevertApply"
  BY <1>3
<1>4. CASE m \notin {"RecordApproval", "Abandon", "Recover", "RevertApply"}
  BY <1>4
<1> QED BY <1>1, <1>2, <1>3, <1>4

LEMMA FiredMaps ==
  ASSUME RuntimeInv, NEW t \in Tasks, NEW g \in Galhos, NEW m \in Morphisms, NEW q \in Phases,
         Fired(t, g, m, q)
  PROVE  Lifecycle!Move(g, q)
<1> USE DEF RuntimeInv
<1>1. /\ Row(phase[g], m, q)
      /\ Required(m) \subseteq flags[g]
      /\ m = "Promote" => dependsOn[g] \subseteq depsSatisfied[g]
  BY DEF Fired, Permits
<1>2. \E n \in Lifecycle!Morphisms : Lifecycle!Row(phase[g], n, q)
  <2>1. Lifecycle!Row(phase[g], m, q)
    BY <1>1 DEF Lifecycle!Row, Lifecycle!TransitionTable, Row, TransitionTable
  <2>2. m \in Lifecycle!Morphisms
    BY DEF Lifecycle!Morphisms, Morphisms
  <2> QED BY <2>1, <2>2
<1>3. q = "AppliedPendingReview" => g \in Holders /\ g \notin Approved
  <2> SUFFICES ASSUME q = "AppliedPendingReview" PROVE g \in Holders /\ g \notin Approved
    OBVIOUS
  <2>1. m = "ApplyToPreview" /\ phase[g] = "Planned"
    BY <1>1 DEF Row, TransitionTable
  <2>2. "stack_lock_held" \in flags[g]
    BY <1>1, <2>1 DEF Required
  <2>3. g \in Holders
    BY <2>2 DEF LockInv, LockFlagBacked, Holders
  <2>4. "has_approval_quorum" \notin flags[g]
    BY <2>1, EvidenceByGalho DEF EvidenceInv, Evidence, AppliedPhases
  <2> QED BY <2>3, <2>4 DEF Approved
<1>4. q \in {"ApprovedAwaitingMerge", "Merged"} => g \in Approved
  <2> SUFFICES ASSUME q \in {"ApprovedAwaitingMerge", "Merged"} PROVE g \in Approved
    OBVIOUS
  <2>1. m \in {"RecordApproval", "Promote"}
    BY <1>1 DEF Row, TransitionTable
  <2> QED BY <1>1, <2>1 DEF Required, Approved
<1>5. q = "Merged" => Lifecycle!DependenciesDone(g)
  <2> SUFFICES ASSUME q = "Merged" PROVE Lifecycle!DependenciesDone(g)
    OBVIOUS
  <2>1. m = "Promote"
    BY <1>1 DEF Row, TransitionTable
  <2> QED BY <1>1, <2>1 DEF Lifecycle!DependenciesDone, Lifecycle!DoneEnough, DepsExact
<1>6. Approved' = IF q \in {"RolledBack", "Declared", "Destroyed"}
                  THEN Approved \ {g} ELSE Approved
  <2>1. \A h \in Galhos \ {g} : flags'[h] = flags[h]
    BY DEF Fired, TypeOK
  <2>2. flags'[g] = FlagsAfter(m, q, flags[g])
    BY DEF Fired, TypeOK
  <2>3. "has_approval_quorum" \in flags'[g] <=>
          "has_approval_quorum" \in flags[g] /\ q \notin {"RolledBack", "Declared", "Destroyed"}
    <3>1. flags[g] \in SUBSET Flags
      BY DEF TypeOK
    <3> HIDE DEF RuntimeInv
    <3>2. "has_approval_quorum" \in FlagsAfter(m, q, flags[g]) <=>
            "has_approval_quorum" \in flags[g] /\ q \notin {"RolledBack", "Declared", "Destroyed"}
      BY <1>1, <3>1, ApprovalFired
    <3> QED BY <2>2, <3>2
  <2> QED BY <2>1, <2>3 DEF Approved
<1>7. phase' = [phase EXCEPT ![g] = q] /\ UNCHANGED <<dependsOn, locks>>
  BY DEF Fired
<1>8. Holders' = Holders
  BY <1>7 DEF Holders
<1> QED BY <1>2, <1>3, <1>4, <1>5, <1>6, <1>7, <1>8
        DEF Lifecycle!Move, Approved, Holders

LEMMA AdvanceMaps ==
  ASSUME RuntimeInv, NEW t \in Tasks, NEW g \in Galhos, NEW m \in Morphisms,
         AdvanceStep(t, g, m)
  PROVE  [Lifecycle!Next]_Lifecycle!lifecycleVars
<1>1. ASSUME NEW q \in Phases, Fired(t, g, m, q)
      PROVE  Lifecycle!Next
  <2>1. q \in Lifecycle!Phases
    BY DEF Phases, Lifecycle!Phases, ForwardPhases, Lifecycle!ForwardPhases, BackwardPhases,
           Lifecycle!BackwardPhases, TerminalPhases, Lifecycle!TerminalPhases
  <2> QED BY <1>1, <2>1, FiredMaps DEF Lifecycle!Next
<1>2. ASSUME Blocked(t, g, m) \/ NotFound(t, g)
      PROVE  Stutter
  BY <1>2 DEF Blocked, NotFound, contextVars, Stutter, Approved, Holders
<1> QED BY <1>1, <1>2, StutterMaps DEF AdvanceStep

LEMMA BeginMaps ==
  ASSUME RuntimeInv, Acyclic', NEW t \in Tasks, Begin(t)
  PROVE  [Lifecycle!Next]_Lifecycle!lifecycleVars
<1> USE DEF RuntimeInv
<1>1. ASSUME NEW g \in Galhos, NEW D \in SUBSET Galhos, Create(t, g, D)
      PROVE  Lifecycle!Next
  <2>1. Lifecycle!NoCycle(dependsOn')
    BY DEF Lifecycle!NoCycle, Acyclic
  <2>2. Lifecycle!Create(g)
    BY <1>1, <2>1 DEF Create, Lifecycle!Create
  <2> QED BY <2>2 DEF Lifecycle!Next
<1>2. ASSUME NEW g \in Galhos, NEW role, ConfirmApproval(t, g, role)
      PROVE  [Lifecycle!Next]_Lifecycle!lifecycleVars
  <2>1. phase[g] \in {"AppliedPendingReview", "Failed"}
    BY <1>2 DEF ConfirmApproval, SyncKind
  <2>2. UNCHANGED <<phase, dependsOn, locks>>
    BY <1>2 DEF ConfirmApproval
  <2>3. \A h \in Galhos : \/ flags'[h] = flags[h]
                          \/ h = g /\ flags'[h] = flags[h] \cup {"has_approval_quorum"}
    BY <1>2 DEF ConfirmApproval, TypeOK
  <2>4. CASE flags'[g] = flags[g]
    BY <2>2, <2>3, <2>4, StutterMaps DEF Stutter, Approved, Holders
  <2>5. CASE flags'[g] = flags[g] \cup {"has_approval_quorum"}
    <3>1. Approved' = Approved \cup {g}
      BY <2>3, <2>5 DEF Approved
    <3>2. Lifecycle!Approve(g)
      BY <2>1, <2>2, <3>1 DEF Lifecycle!Approve, Approved, Holders
    <3> QED BY <3>2 DEF Lifecycle!Next
  <2> QED BY <2>3, <2>4, <2>5
<1>3. ASSUME NEW g \in Galhos, NEW r \in Roots, JoinOrAcquireLock(t, g, r)
      PROVE  Lifecycle!Next
  <2>1. Holders' = Holders \cup {g}
    BY <1>3 DEF JoinOrAcquireLock, Joined, Holders, TypeOK
  <2>2. Lifecycle!JoinLock(g)
    BY <1>3, <2>1 DEF JoinOrAcquireLock, contextVars, Lifecycle!JoinLock, Approved, Holders
  <2> QED BY <2>2 DEF Lifecycle!Next
<1>4. ASSUME NEW g \in Galhos, NEW m \in Morphisms, FirePrepared(t, g, m) \/ FireDirect(t, g, m)
      PROVE  [Lifecycle!Next]_Lifecycle!lifecycleVars
  BY <1>4, PrepareStutters, StutterMaps, AdvanceMaps DEF FirePrepared, FireDirect
<1>5. ASSUME NEW g \in Galhos, DeliverSignal(t, g)
      PROVE  Stutter
  BY <1>5 DEF DeliverSignal, contextVars, Stutter, Approved, Holders
<1> QED BY <1>1, <1>2, <1>3, <1>4, <1>5, StutterMaps DEF Begin

LEMMA StepMaps ==
  RuntimeInv /\ Acyclic' /\ [Next]_vars => [Lifecycle!Next]_Lifecycle!lifecycleVars
<1> SUFFICES ASSUME RuntimeInv, Acyclic', [Next]_vars
             PROVE  [Lifecycle!Next]_Lifecycle!lifecycleVars
  OBVIOUS
<1>1. ASSUME NEW t \in Tasks, Quiet(t)
      PROVE  [Lifecycle!Next]_Lifecycle!lifecycleVars
  <2>1. call[t].stage # "idle" => call[t].galho \in Galhos /\ call[t].morphism \in Morphisms
    BY DEF RuntimeInv, TypeOK, Pending, NoCall
  <2> QED BY <1>1, <2>1, PrepareStutters, StutterMaps, AdvanceMaps
          DEF Quiet, Prepare, Advance, RuntimeInv
<1>2. ASSUME NEW t \in Tasks, Emit(t)
      PROVE  Stutter
  BY <1>2 DEF Emit, contextVars, Stutter, Approved, Holders
<1>3. ASSUME UNCHANGED vars
      PROVE  Stutter
  BY <1>3 DEF vars, contextVars, Stutter, Approved, Holders
<1> QED BY <1>1, <1>2, <1>3, BeginMaps, StutterMaps DEF Next

LEMMA InitMaps == Init => Lifecycle!Init
  BY DEF Init, Lifecycle!Init

\* Every behaviour of the runtime, its critical sections interleaved in any way, is a
\* behaviour of the atomic lifecycle.
THEOREM RuntimeImplementsLifecycle == Spec => ImplementsLifecycle
<1>1. Spec => []RuntimeInv
  BY RuntimeInvInit, RuntimeInvInductive, PTL DEF Spec
<1>2. RuntimeInv => Acyclic
  BY DEF RuntimeInv
<1> QED BY <1>1, <1>2, InitMaps, StepMaps, PTL DEF Spec, ImplementsLifecycle, Lifecycle!Spec

-----------------------------------------------------------------------------
(***************************************************************************)
(* The credentials of GalhoPolicies, next to the receipts of the runtime.  *)
(***************************************************************************)
\* The edges that lead into the applied phases or out of them.
LEMMA AppliedEdges ==
  ASSUME NEW p, NEW m, NEW q, Row(p, m, q), (p \in AppliedPhases) # (q \in AppliedPhases)
  PROVE  m = "Recover" \/ <<p, m>> \in NonTransactionalIo
<1>1. CASE q \in AppliedPhases
  <2>1. p = "Planned" /\ m = "ApplyToPreview"
    BY <1>1 DEF Row, TransitionTable, AppliedPhases
  <2> QED BY <2>1 DEF NonTransactionalIo
<1>2. CASE q \notin AppliedPhases
  <2>1. \/ m = "Recover"
        \/ p = "RollingBack" /\ m = "RevertApply"
        \/ p \in {"AppliedPendingReview", "ApprovedAwaitingMerge", "Failed"} /\ m = "Abandon"
    BY <1>2 DEF Row, TransitionTable, AppliedPhases
  <2> QED BY <2>1 DEF NonTransactionalIo
<1> QED BY <1>1, <1>2

\* Such an edge asks for a write credential.
LEMMA CloudEdgesWrite ==
  ASSUME NEW p, NEW m, <<p, m>> \in NonTransactionalIo
  PROVE  Authorizes(p, m, "Write") /\ ~ Authorizes(p, m, "ReadOnly")
<1>1. <<p, m>> \notin GoldenPreserving /\ <<p, m>> \notin ExternalObservation
  BY DEF NonTransactionalIo, GoldenPreserving, ExternalObservation
<1>2. EdgeTier(p, m) = "NonTransactionalIo"
  BY <1>1 DEF EdgeTier
<1>3. RequiredScope(p, m) = "Write"
  BY <1>2 DEF RequiredScope, None
<1> QED BY <1>2, <1>3 DEF Authorizes, SatisfiedBy, None

LEMMA ReceiptStep ==
  ASSUME TypeOK, EvidenceInv, EvidenceInv', [Next]_vars, NEW g \in Known,
         ("has_apply_receipt" \in flags[g]) # ("has_apply_receipt" \in flags'[g])
  PROVE  \E m \in Morphisms :
           /\ Row(phase[g], m, phase'[g])
           /\ \/ Authorizes(phase[g], m, "Write") /\ ~ Authorizes(phase[g], m, "ReadOnly")
              \/ m = "Recover"
<1>1. g \in Galhos
  BY DEF Known
<1>2. (phase[g] \in AppliedPhases) # (phase'[g] \in AppliedPhases)
  <2>1. Evidence(phase[g], flags[g]) /\ Evidence(phase'[g], flags'[g])
    BY <1>1 DEF EvidenceInv, EvidenceHeld, EvidenceFresh, Evidence, PlannedPhases
  <2> QED BY <2>1 DEF Evidence
<1>3. PICK t \in Tasks : Begin(t) \/ Quiet(t) \/ Emit(t)
  BY <1>2 DEF Next, vars, contextVars
<1>4. ASSUME NEW h \in Galhos, NEW D \in SUBSET Galhos, Create(t, h, D)
      PROVE  FALSE
  BY <1>1, <1>2, <1>4 DEF Create, Known, TypeOK
<1>5. PICK h \in Galhos, m \in Morphisms, q \in Phases : Fired(t, h, m, q)
  BY <1>2, <1>3, <1>4, PhaseMoves
<1>6. h = g /\ q = phase'[g]
  BY <1>1, <1>2, <1>5 DEF Fired, TypeOK
<1>7. Row(phase[g], m, phase'[g])
  BY <1>5, <1>6 DEF Fired
<1> QED BY <1>2, <1>7, AppliedEdges, CloudEdgesWrite

\* What has been applied changes only on edges that ask for a write credential, or on
\* Recover, which forgets the receipt of a failed galho.
THEOREM ReceiptsFollowCredentials == Spec => ReceiptsByCloud
<1>1. TypeOK /\ EvidenceInv /\ EvidenceInv' /\ [Next]_vars =>
        [\A g \in Known :
           ("has_apply_receipt" \in flags[g]) # ("has_apply_receipt" \in flags'[g]) =>
             \E m \in Morphisms :
               /\ Row(phase[g], m, phase'[g])
               /\ \/ Authorizes(phase[g], m, "Write") /\ ~ Authorizes(phase[g], m, "ReadOnly")
                  \/ m = "Recover"]_contextVars
  BY ReceiptStep
<1>2. Spec => []EvidenceInv
  BY EvidenceInit, EvidenceNext, TypeInit, TypeNext, PTL DEF Spec
<1> QED BY <1>1, <1>2, TypeCorrect, PTL DEF Spec, ReceiptsByCloud

-----------------------------------------------------------------------------
(***************************************************************************)
(* Induction.  Finite sets have no infinite descent; so a set of numbers   *)
(* has a least one, for the intervals below its members do.                *)
(***************************************************************************)
LEMMA LeastNumber ==
  ASSUME NEW S \in SUBSET Nat, S # {}
  PROVE  \E x \in S : \A y \in S : x <= y
<1> DEFINE Intervals == { 0 .. n : n \in S }
<1>1. Intervals \subseteq FiniteSubsetsOf(Nat) /\ Intervals # {}
  <2>1. \A n \in S : IsFiniteSet(0 .. n) /\ 0 .. n \subseteq Nat
    BY FS_Interval
  <2> QED BY <2>1 DEF FiniteSubsetsOf
<1>2. PICK T \in Intervals : \A U \in Intervals : <<U, T>> \notin StrictSubsetOrdering(Nat)
  <2> HIDE DEF Intervals
  <2> QED BY <1>1, FS_StrictSubsetOrderingWellFounded, WFMin
<1>3. PICK x \in S : T = 0 .. x
  OBVIOUS
<1>4. ASSUME NEW y \in S, ~ (x <= y)
      PROVE  FALSE
  <2>1. 0 .. y \in Intervals /\ 0 .. y \subseteq 0 .. x /\ x \in 0 .. x /\ x \notin 0 .. y
    BY <1>4
  <2>2. <<0 .. y, T>> \in StrictSubsetOrdering(Nat)
    BY <2>1, <1>3 DEF StrictSubsetOrdering
  <2> QED BY <2>1, <2>2, <1>2
<1> QED BY <1>4

LEMMA NumbersByInduction ==
  ASSUME NEW S \in SUBSET Nat, 0 \in S, \A n \in S : n + 1 \in S
  PROVE  S = Nat
<1> SUFFICES ASSUME Nat \ S # {}
             PROVE  FALSE
  OBVIOUS
<1>1. PICK x \in Nat \ S : \A y \in Nat \ S : x <= y
  BY LeastNumber
<1>2. x # 0 /\ x - 1 \in Nat /\ x - 1 \in S
  BY <1>1
<1> QED BY <1>1, <1>2

-----------------------------------------------------------------------------
(***************************************************************************)
(* Distances.  The search of GalhoPolicies is a recursive function; that   *)
(* there is one, level by level, is what makes its equation usable.        *)
(***************************************************************************)
\* There are twelve phases.
LEMMA ThreeMore ==
  ASSUME NEW S, NEW n \in Nat, IsFiniteSet(S) /\ Cardinality(S) = n, NEW x, NEW y, NEW z,
         x \notin S, y \notin S, z \notin S, x # y, y # z, x # z
  PROVE  IsFiniteSet(S \cup {x, y, z}) /\ Cardinality(S \cup {x, y, z}) = n + 3
<1>1. IsFiniteSet(S \cup {x}) /\ Cardinality(S \cup {x}) = n + 1
  BY FS_AddElement
<1>2. y \notin S \cup {x} /\ z \notin S \cup {x} \cup {y}
  OBVIOUS
<1>3. IsFiniteSet(S \cup {x} \cup {y}) /\ Cardinality(S \cup {x} \cup {y}) = n + 1 + 1
  <2> DEFINE T == S \cup {x}
  <2> HIDE DEF T
  <2>1. T = S \cup {x}
    BY DEF T
  <2>2. IsFiniteSet(T \cup {y}) /\ Cardinality(T \cup {y}) = Cardinality(T) + 1
    BY <1>1, <1>2, <2>1, FS_AddElement
  <2> QED BY <1>1, <2>1, <2>2
<1>4. /\ IsFiniteSet(S \cup {x} \cup {y} \cup {z})
      /\ Cardinality(S \cup {x} \cup {y} \cup {z}) = n + 3
  <2> DEFINE T == S \cup {x} \cup {y}
  <2> HIDE DEF T
  <2>1. T = S \cup {x} \cup {y}
    BY DEF T
  <2>2. IsFiniteSet(T \cup {z}) /\ Cardinality(T \cup {z}) = Cardinality(T) + 1
    BY <1>2, <1>3, <2>1, FS_AddElement
  <2> QED BY <1>3, <2>1, <2>2
<1>5. S \cup {x} \cup {y} \cup {z} = S \cup {x, y, z}
  OBVIOUS
<1> QED BY <1>4, <1>5

LEMMA ManyPhases == Far = 12
<1> DEFINE P3  == {} \cup {"Declared", "Planned", "AppliedPendingReview"}
           P6  == P3 \cup {"ApprovedAwaitingMerge", "Merged", "Verified"}
           P9  == P6 \cup {"RollingBack", "RolledBack", "Drifted"}
           P12 == P9 \cup {"Done", "Destroyed", "Failed"}
<1>1. Phases = P12
  BY DEF Phases, ForwardPhases, BackwardPhases, TerminalPhases
<1>2. "ApprovedAwaitingMerge" \notin P3 /\ "Merged" \notin P3 /\ "Verified" \notin P3
  OBVIOUS
<1>3. "RollingBack" \notin P6 /\ "RolledBack" \notin P6 /\ "Drifted" \notin P6
  OBVIOUS
<1>4. "Done" \notin P9 /\ "Destroyed" \notin P9 /\ "Failed" \notin P9
  OBVIOUS
<1>5. IsFiniteSet(P3) /\ Cardinality(P3) = 3
  <2> DEFINE T == {}
  <2>1. IsFiniteSet(T) /\ Cardinality(T) = 0
    BY FS_EmptySet
  <2>2. /\ P3 = T \cup {"Declared", "Planned", "AppliedPendingReview"}
        /\ "Declared" \notin T /\ "Planned" \notin T /\ "AppliedPendingReview" \notin T
    OBVIOUS
  <2> HIDE DEF T, P3
  <2>3. /\ IsFiniteSet(T \cup {"Declared", "Planned", "AppliedPendingReview"})
        /\ Cardinality(T \cup {"Declared", "Planned", "AppliedPendingReview"}) = 0 + 3
    BY <2>1, <2>2, ThreeMore
  <2> QED BY <2>2, <2>3
<1> HIDE DEF P3
<1>6. IsFiniteSet(P6) /\ Cardinality(P6) = 6
  BY <1>2, <1>5, ThreeMore
<1> HIDE DEF P6
<1>7. IsFiniteSet(P9) /\ Cardinality(P9) = 9
  BY <1>3, <1>6, ThreeMore
<1> HIDE DEF P9
<1>8. IsFiniteSet(P12) /\ Cardinality(P12) = 12
  BY <1>4, <1>7, ThreeMore
<1> HIDE DEF P12
<1> QED BY <1>1, <1>8 DEF Far

\* The levels of the search are what its recursion says.
Leveled(edges, goals, w) ==
  w = [k \in 0..Far |-> IF k = 0 THEN goals ELSE Widened(edges, w[k - 1])]

LEMMA LevelsExist ==
  ASSUME NEW edges, NEW goals
  PROVE  \E w : Leveled(edges, goals, w)
<1> DEFINE Up(h) == [k \in 0..Far |-> IF k = 0 THEN goals ELSE Widened(edges, h[k - 1])]
           Reached == { n \in Nat : \E h : \A k \in 0..Far : k < n => h[k] = Up(h)[k] }
<1>1. 0 \in Reached
  OBVIOUS
<1>2. ASSUME NEW n \in Reached
      PROVE  n + 1 \in Reached
  <2>1. PICK h : \A k \in 0..Far : k < n => h[k] = Up(h)[k]
    OBVIOUS
  <2>2. ASSUME NEW k \in 0..Far, k < n + 1
        PROVE  Up(h)[k] = Up(Up(h))[k]
    <3>1. CASE k = 0
      BY <3>1
    <3>2. CASE k # 0
      <4>1. k - 1 \in 0..Far /\ k - 1 < n
        BY <2>2, <3>2, ManyPhases
      <4>2. h[k - 1] = Up(h)[k - 1]
        BY <2>1, <4>1
      <4> HIDE DEF Up
      <4>3. Up(h)[k] = Widened(edges, h[k - 1])
        BY <3>2 DEF Up
      <4>4. Up(Up(h))[k] = Widened(edges, Up(h)[k - 1])
        BY <3>2 DEF Up
      <4> QED BY <4>2, <4>3, <4>4
    <3> QED BY <3>1, <3>2
  <2> HIDE DEF Up
  <2> QED BY <2>2
<1>3. Reached = Nat
  <2> HIDE DEF Reached
  <2>1. Reached \subseteq Nat
    BY DEF Reached
  <2> QED BY <1>1, <1>2, <2>1, NumbersByInduction
<1>4. Far + 1 \in Reached
  <2> HIDE DEF Reached
  <2> QED BY <1>3, ManyPhases
<1>5. PICK h : \A k \in 0..Far : h[k] = Up(h)[k]
  BY <1>4, ManyPhases
<1>6. \A k \in 0..Far : Up(h)[k] = Up(Up(h))[k]
  <2>1. \A k \in 0..Far : k # 0 => k - 1 \in 0..Far
    BY ManyPhases
  <2> QED BY <1>5, <2>1
<1>7. Up(h) = Up(Up(h))
  BY <1>6
<1> QED BY <1>7 DEF Leveled

LEMMA Levels ==
  ASSUME NEW edges, NEW goals
  PROVE  /\ Within(edges, goals)[0] = goals
         /\ \A k \in 1..Far :
              Within(edges, goals)[k] = Widened(edges, Within(edges, goals)[k - 1])
<1>1. Within(edges, goals) = CHOOSE w : Leveled(edges, goals, w)
  BY DEF Within, Leveled
<1>2. Leveled(edges, goals, Within(edges, goals))
  BY <1>1, LevelsExist
<1> HIDE DEF Within
<1> QED BY <1>2, ManyPhases DEF Leveled

\* A distance is the first level a phase is on, or Far.
LEMMA DistanceIsLeast ==
  ASSUME NEW edges, NEW goals, NEW p \in Phases
  PROVE  LET d == Distances(edges, goals)[p]
         IN  /\ d \in 0..Far
             /\ d < Far => p \in Within(edges, goals)[d]
             /\ \A k \in 0..Far : p \in Within(edges, goals)[k] => d <= k
<1> DEFINE S == { k \in 0..Far : k = Far \/ p \in Within(edges, goals)[k] }
<1>1. S \subseteq Nat /\ Far \in S
  BY ManyPhases
<1>2. \E x \in S : \A y \in S : x <= y
  <2> HIDE DEF S
  <2> QED BY <1>1, LeastNumber
<1>3. Min(S) \in S /\ \A y \in S : Min(S) <= y
  BY <1>2 DEF Min
<1>4. Distances(edges, goals)[p] = Min(S)
  BY DEF Distances
<1> HIDE DEF Distances
<1> QED BY <1>3, <1>4, ManyPhases

-----------------------------------------------------------------------------
(***************************************************************************)
(* The attractor.  Its moves are found from the distances, and from every  *)
(* phase some chain of rows leads to either goal.                          *)
(***************************************************************************)
\* A phase off the goal that is on some level has an edge one level down.
LEMMA ShorterByOne ==
  ASSUME NEW goal \in Goals, NEW p \in Phases \ {goal}, NEW k \in 0..(Far - 1),
         p \in Within(TransitionTable, {goal})[k]
  PROVE  OnShortestPath(p, goal) # {}
<1> DEFINE w == Within(TransitionTable, {goal})
           dist == Distances(TransitionTable, {goal})
<1>1. \A q \in Phases : /\ dist[q] \in 0..Far
                        /\ dist[q] < Far => q \in w[dist[q]]
                        /\ \A i \in 0..Far : q \in w[i] => dist[q] <= i
  BY DistanceIsLeast
<1>2. w[0] = {goal} /\ \A i \in 1..Far : w[i] = Widened(TransitionTable, w[i - 1])
  BY Levels
<1>3. DistanceTo[goal] = dist
  BY DEF DistanceTo
<1> HIDE DEF w, dist
<1>4. dist[p] < Far /\ p \in w[dist[p]]
  <2>1. dist[p] <= k
    BY <1>1, ManyPhases DEF w
  <2> QED BY <1>1, <2>1, ManyPhases
<1>5. dist[p] \in 1..Far
  BY <1>1, <1>2, <1>4, ManyPhases
<1>6. p \in Widened(TransitionTable, w[dist[p] - 1]) /\ p \notin w[dist[p] - 1]
  <2>1. dist[p] - 1 \in 0..Far
    BY <1>5, ManyPhases
  <2>2. w[dist[p]] = Widened(TransitionTable, w[dist[p] - 1])
    BY <1>2, <1>5
  <2>3. p \notin w[dist[p] - 1]
    BY <1>1, <1>5, <2>1, ManyPhases
  <2> QED BY <1>4, <2>2, <2>3
<1>7. PICK e \in TransitionTable : e[1] = p /\ e[3] \in w[dist[p] - 1]
  BY <1>6 DEF Widened
<1>8. e[3] \in Phases
  BY DEF TransitionTable, Phases, ForwardPhases, BackwardPhases, TerminalPhases
<1>9. dist[e[3]] <= dist[p] - 1
  BY <1>1, <1>5, <1>7, <1>8, ManyPhases
<1>10. dist[e[3]] + 1 \in 1..Far /\ e[3] \in w[dist[e[3]]]
  BY <1>1, <1>5, <1>8, <1>9, ManyPhases
<1>11. p \in w[dist[e[3]] + 1]
  <2>1. w[dist[e[3]] + 1] = Widened(TransitionTable, w[dist[e[3]]])
    BY <1>2, <1>10, <1>1, <1>8, ManyPhases
  <2> QED BY <1>7, <1>10, <2>1 DEF Widened
<1>12. dist[p] <= dist[e[3]] + 1
  BY <1>1, <1>10, <1>11, ManyPhases
<1>13. dist[e[3]] + 1 = dist[p]
  BY <1>1, <1>5, <1>8, <1>9, <1>12, ManyPhases
<1>14. e \in OnShortestPath(p, goal)
  BY <1>3, <1>4, <1>7, <1>13 DEF OnShortestPath
<1> QED BY <1>14

\* Of some edges one has the best key.
LEMMA WorstIsTier ==
  ASSUME NEW q \in Phases
  PROVE  WorstTier(q) \in 0..3
<1> DEFINE T == { Comfort[q][i] : i \in 1..4 }
<1>1. Comfort[q][1] \in 0..3 /\ Comfort[q][2] \in 0..3 /\ Comfort[q][3] \in 0..3
      /\ Comfort[q][4] \in 0..3
  BY DEF Comfort, Guaranteed, MitigatedTtl, MitigatedConfig, Fails
<1>2. T \subseteq 0..3 /\ T # {}
  BY <1>1
<1> HIDE DEF T
<1>3. \E x \in T : \A y \in T : x >= y
  <2>1. CASE 3 \in T
    BY <1>2, <2>1
  <2>2. CASE 3 \notin T /\ 2 \in T
    BY <1>2, <2>2
  <2>3. CASE 3 \notin T /\ 2 \notin T /\ 1 \in T
    BY <1>2, <2>3
  <2>4. CASE 3 \notin T /\ 2 \notin T /\ 1 \notin T
    <3>1. \A y \in T : y = 0
      BY <1>2, <2>4
    <3>2. PICK x \in T : x = 0
      BY <1>2, <3>1
    <3>3. \A y \in T : x >= y
      BY <3>1, <3>2
    <3> QED BY <3>3
  <2> QED BY <2>1, <2>2, <2>3, <2>4
<1>4. Max(T) \in T
  BY <1>3 DEF Max
<1> QED BY <1>2, <1>4 DEF WorstTier, T

LEMMA BestHasKey ==
  ASSUME NEW goal \in Goals, NEW p, OnShortestPath(p, goal) # {}
  PROVE  Recommended(p, goal) # {}
<1> DEFINE K == { Key(e) : e \in OnShortestPath(p, goal) }
<1>1. \A e \in OnShortestPath(p, goal) : Key(e) \in Nat
  <2>1. \A e \in TransitionTable : e[3] \in Phases
    BY DEF TransitionTable, Phases, ForwardPhases, BackwardPhases, TerminalPhases
  <2>2. \A e \in OnShortestPath(p, goal) : WorstTier(e[3]) \in 0..3
    BY <2>1, WorstIsTier DEF OnShortestPath
  <2> QED BY <2>2 DEF Key
<1>2. PICK k \in K : \A l \in K : k <= l
  <2>1. K \subseteq Nat /\ K # {}
    BY <1>1
  <2> HIDE DEF K
  <2> QED BY <2>1, LeastNumber
<1>3. PICK e \in OnShortestPath(p, goal) : Key(e) = k
  OBVIOUS
<1>4. \A f \in OnShortestPath(p, goal) : Key(e) <= Key(f)
  BY <1>2, <1>3
<1> QED BY <1>4 DEF Recommended

\* Done and Destroyed can be reached from every phase that is not terminal, in seven moves.
LEMMA OneLevelUp ==
  ASSUME NEW goal, NEW k \in 0..(Far - 1), NEW p, NEW m, NEW q,
         Row(p, m, q), q \in Within(TransitionTable, {goal})[k]
  PROVE  p \in Within(TransitionTable, {goal})[k + 1]
<1>1. k + 1 \in 1..Far /\ (k + 1) - 1 = k
  BY ManyPhases
<1>2. Within(TransitionTable, {goal})[k + 1] =
        Widened(TransitionTable, Within(TransitionTable, {goal})[k])
  BY <1>1, Levels
<1>3. <<p, m, q>> \in TransitionTable
  BY DEF Row
<1> HIDE DEF TransitionTable
<1> QED BY <1>2, <1>3, SMTT(30) DEF Widened

LEMMA GoalsInReach ==
  ASSUME NEW goal \in Goals, NEW p \in Phases \ TerminalPhases
  PROVE  \E k \in 0..(Far - 1) : p \in Within(TransitionTable, {goal})[k]
<1> DEFINE Level(k) == Within(TransitionTable, {goal})[k]
<1>1. goal \in Level(0)
  BY Levels
<1>2. ASSUME NEW k \in 0..10, NEW x, NEW m, NEW y, Row(x, m, y), y \in Level(k)
      PROVE  x \in Level(k + 1)
  <2>1. k \in 0..(Far - 1)
    BY ManyPhases
  <2> QED BY <1>2, <2>1, OneLevelUp
<1> HIDE DEF Level
<1>3. CASE goal = "Done"
  <2>1. "Verified" \in Level(1)
    <3>1. /\ Row("Verified", "SealDone", "Done")
      BY DEF Row, TransitionTable
    <3> QED BY <1>2, <3>1, <1>1, <1>3
  <2>2. /\ "Merged" \in Level(2)
        /\ "Drifted" \in Level(2)
    <3>1. /\ Row("Merged", "Verify", "Verified")
          /\ Row("Drifted", "DriftReconcile", "Verified")
      BY DEF Row, TransitionTable
    <3> QED BY <1>2, <3>1, <2>1
  <2>3. "ApprovedAwaitingMerge" \in Level(3)
    <3>1. /\ Row("ApprovedAwaitingMerge", "Promote", "Merged")
      BY DEF Row, TransitionTable
    <3> QED BY <1>2, <3>1, <2>2
  <2>4. "AppliedPendingReview" \in Level(4)
    <3>1. /\ Row("AppliedPendingReview", "RecordApproval", "ApprovedAwaitingMerge")
      BY DEF Row, TransitionTable
    <3> QED BY <1>2, <3>1, <2>3
  <2>5. "Planned" \in Level(5)
    <3>1. /\ Row("Planned", "ApplyToPreview", "AppliedPendingReview")
      BY DEF Row, TransitionTable
    <3> QED BY <1>2, <3>1, <2>4
  <2>6. /\ "Declared" \in Level(6)
        /\ "RolledBack" \in Level(6)
    <3>1. /\ Row("Declared", "Plan", "Planned")
          /\ Row("RolledBack", "Resume", "Planned")
      BY DEF Row, TransitionTable
    <3> QED BY <1>2, <3>1, <2>5
  <2>7. /\ "Failed" \in Level(7)
        /\ "RollingBack" \in Level(7)
    <3>1. /\ Row("Failed", "Recover", "Declared")
          /\ Row("RollingBack", "RevertApply", "RolledBack")
      BY DEF Row, TransitionTable
    <3> QED BY <1>2, <3>1, <2>6
  <2> QED BY <2>1, <2>2, <2>3, <2>4, <2>5, <2>6, <2>7, ManyPhases
         DEF Phases, ForwardPhases, BackwardPhases, TerminalPhases, Level
<1>4. CASE goal = "Destroyed"
  <2>1. /\ "Declared" \in Level(1)
        /\ "Planned" \in Level(1)
        /\ "AppliedPendingReview" \in Level(1)
        /\ "ApprovedAwaitingMerge" \in Level(1)
        /\ "RolledBack" \in Level(1)
        /\ "Failed" \in Level(1)
    <3>1. /\ Row("Declared", "Abandon", "Destroyed")
          /\ Row("Planned", "Abandon", "Destroyed")
          /\ Row("AppliedPendingReview", "Abandon", "Destroyed")
          /\ Row("ApprovedAwaitingMerge", "Abandon", "Destroyed")
          /\ Row("RolledBack", "Abandon", "Destroyed")
          /\ Row("Failed", "Abandon", "Destroyed")
      BY DEF Row, TransitionTable
    <3> QED BY <1>2, <3>1, <1>1, <1>4
  <2>2. /\ "Drifted" \in Level(2)
        /\ "Merged" \in Level(2)
        /\ "RollingBack" \in Level(2)
    <3>1. /\ Row("Drifted", "Escalate", "Failed")
          /\ Row("Merged", "Escalate", "Failed")
          /\ Row("RollingBack", "Escalate", "Failed")
      BY DEF Row, TransitionTable
    <3> QED BY <1>2, <3>1, <2>1
  <2>3. "Verified" \in Level(3)
    <3>1. /\ Row("Verified", "DriftReconcile", "Drifted")
      BY DEF Row, TransitionTable
    <3> QED BY <1>2, <3>1, <2>2
  <2> QED BY <2>1, <2>2, <2>3, ManyPhases
         DEF Phases, ForwardPhases, BackwardPhases, TerminalPhases, Level
<1> QED BY <1>3, <1>4 DEF Goals, TerminalPhases

\* "Iterating recommend reaches the goal in exactly distance_to(from, goal) steps" (recommend):
\* whatever moves are taken when several have the best key, as many steps as the distance of
\* the first phase end at the goal, and none before.
THEOREM AttractorArrives ==
  ASSUME NEW goal \in Goals, NEW from \in Phases, NEW path,
         DistanceTo[goal][from] < Far, path[0] = from,
         \A i \in Nat : i < DistanceTo[goal][from] =>
           \E e \in Recommended(path[i], goal) : path[i + 1] = e[3]
  PROVE  /\ path[DistanceTo[goal][from]] = goal
         /\ \A i \in Nat : i < DistanceTo[goal][from] => path[i] # goal
<1> DEFINE dist == Distances(TransitionTable, {goal})
           d    == DistanceTo[goal][from]
           S    == { i \in Nat : i <= d => path[i] \in Phases /\ dist[path[i]] + i = d }
<1>1. DistanceTo[goal] = dist
  BY DEF DistanceTo
<1>2. \A q \in Phases : /\ dist[q] \in 0..Far
                        /\ dist[q] < Far => q \in Within(TransitionTable, {goal})[dist[q]]
                        /\ \A k \in 0..Far :
                             q \in Within(TransitionTable, {goal})[k] => dist[q] <= k
  BY DistanceIsLeast
<1> HIDE DEF dist
<1>3. d = dist[from] /\ d \in Nat /\ d < Far
  BY <1>1, <1>2, ManyPhases
<1> HIDE DEF d
<1>4. 0 \in S
  BY <1>3
<1>5. ASSUME NEW i \in S
      PROVE  i + 1 \in S
  <2> SUFFICES ASSUME i + 1 <= d
               PROVE  path[i + 1] \in Phases /\ dist[path[i + 1]] + (i + 1) = d
    OBVIOUS
  <2>1. i < d /\ path[i] \in Phases /\ dist[path[i]] + i = d
    BY <1>3
  <2>2. PICK e \in Recommended(path[i], goal) : path[i + 1] = e[3]
    BY <2>1 DEF d
  <2>3. e \in TransitionTable /\ dist[e[3]] + 1 = dist[path[i]]
    BY <1>1, <2>2 DEF Recommended, OnShortestPath
  <2>4. e[3] \in Phases
    BY <2>3 DEF TransitionTable, Phases, ForwardPhases, BackwardPhases, TerminalPhases
  <2>5. dist[e[3]] \in Nat /\ dist[path[i]] \in Nat
    BY <1>2, <2>1, <2>4, ManyPhases
  <2> QED BY <1>3, <2>1, <2>2, <2>3, <2>4, <2>5
<1>6. S = Nat
  <2>1. S \subseteq Nat
    OBVIOUS
  <2> HIDE DEF S
  <2> QED BY <1>4, <1>5, <2>1, NumbersByInduction
<1>7. \A i \in Nat : i <= d => path[i] \in Phases /\ dist[path[i]] + i = d
  BY <1>6
<1> HIDE DEF S
<1>8. path[d] = goal
  <2>1. path[d] \in Phases /\ dist[path[d]] = 0
    <3>1. path[d] \in Phases /\ dist[path[d]] + d = d
      BY <1>3, <1>7
    <3> QED BY <1>2, <1>3, <3>1, ManyPhases
  <2>2. path[d] \in Within(TransitionTable, {goal})[0]
    BY <1>2, <2>1, ManyPhases
  <2> QED BY <2>2, Levels
<1>9. ASSUME NEW i \in Nat, i < d
      PROVE  path[i] # goal
  <2>1. path[i] \in Phases /\ dist[path[i]] + i = d
    BY <1>3, <1>7, <1>9
  <2>2. dist[path[i]] # 0
    BY <1>3, <1>9, <2>1
  <2>3. dist[goal] = 0 /\ goal \in Phases
    <3>1. goal \in Phases /\ goal \in Within(TransitionTable, {goal})[0]
      BY Levels DEF Goals, Phases
    <3> QED BY <1>2, <3>1, ManyPhases
  <2> QED BY <2>2, <2>3
<1> QED BY <1>8, <1>9 DEF d

\* A move of the table asks for nothing that the evidence of its phase, or the call itself,
\* does not bring, except for an approval and, if it is a promotion, for the dependencies.
LEMMA OnlyApprovalLacks ==
  ASSUME NEW p \in Phases \ TerminalPhases, NEW F \in SUBSET Flags, Evidence(p, F),
         NEW e \in TransitionTable, e[1] = p
  PROVE  /\ p \in PhasesFor(e[2])
         /\ \/ Required(e[2]) \subseteq F \cup PreGranted(e[2])
            \/ /\ Required(e[2]) \subseteq F \cup PreGranted(e[2]) \cup {"has_approval_quorum"}
               /\ SyncKind(p) = "OperatorApproval" /\ e[2] = "RecordApproval"
<1>1. p \in PhasesFor(e[2])
  BY DEF TransitionTable, PhasesFor, Phases, ForwardPhases, BackwardPhases, TerminalPhases
<1>2. CASE e[2] = "RecordApproval"
  <2>1. p = "AppliedPendingReview"
    BY <1>2 DEF TransitionTable
  <2>2. Required(e[2]) = {"has_apply_receipt", "has_approval_quorum"}
    BY <1>2 DEF Required
  <2>3. "has_apply_receipt" \in F
    BY <2>1 DEF Evidence, AppliedPhases
  <2>4. SyncKind(p) = "OperatorApproval"
    BY <2>1 DEF SyncKind
  <2> QED BY <1>1, <1>2, <2>2, <2>3, <2>4
<1>3. CASE e[2] # "RecordApproval"
  <2>1. Required(e[2]) \subseteq F \cup PreGranted(e[2])
    BY <1>3 DEF TransitionTable, Required, PreGranted, Evidence, PlannedPhases, AppliedPhases,
                ReviewedPhases
  <2> QED BY <1>1, <2>1
<1> QED BY <1>2, <1>3

\* The attractor always has a move, and check_preconditions lets it pass, unless it waits for
\* an approval or promotes ahead of a dependency that is neither verified nor done.
THEOREM RecommendationsAccepted == Spec => []AttractorUnrefused
<1>1. RuntimeInv => AttractorUnrefused
  <2> SUFFICES ASSUME RuntimeInv,
                      NEW g \in { x \in Known : phase[x] \notin TerminalPhases },
                      NEW goal \in Goals
               PROVE  /\ Recommended(phase[g], goal) # {}
                      /\ \A e \in Recommended(phase[g], goal) :
                           \/ Passes(g, e, {}, {})
                           \/ Unapproved(g) /\ Passes(g, e, {"has_approval_quorum"}, {})
                           \/ e[2] = "Promote" /\ Unready(g) # {} /\ Passes(g, e, {}, Unready(g))
    BY DEF AttractorUnrefused
  <2>1. g \in Galhos /\ phase[g] \in Phases \ TerminalPhases /\ flags[g] \in SUBSET Flags
    BY DEF Known, RuntimeInv, TypeOK
  <2>2. Evidence(phase[g], flags[g])
    BY <2>1, EvidenceByGalho DEF RuntimeInv, EvidenceInv
  <2>3. phase[g] \in Phases \ {goal}
    BY <2>1 DEF Goals
  <2>4. OnShortestPath(phase[g], goal) # {}
    BY <2>1, <2>3, GoalsInReach, ShorterByOne
  <2>5. \A e \in Recommended(phase[g], goal) : e \in TransitionTable /\ e[1] = phase[g]
    BY DEF Recommended, OnShortestPath
  <2>6. dependsOn[g] \subseteq depsSatisfied[g] \cup Unready(g)
    BY <2>1 DEF RuntimeInv, DepsExact, Unready, DoneEnough
  <2>7. ASSUME NEW e \in Recommended(phase[g], goal)
        PROVE  \/ Passes(g, e, {}, {})
               \/ Unapproved(g) /\ Passes(g, e, {"has_approval_quorum"}, {})
               \/ e[2] = "Promote" /\ Unready(g) # {} /\ Passes(g, e, {}, Unready(g))
    <3> DEFINE F == flags[g] \cup PreGranted(e[2])
    <3>1. /\ phase[g] \in PhasesFor(e[2])
          /\ \/ Required(e[2]) \subseteq F
             \/ /\ Required(e[2]) \subseteq F \cup {"has_approval_quorum"}
                /\ SyncKind(phase[g]) = "OperatorApproval" /\ e[2] = "RecordApproval"
      BY <2>1, <2>2, <2>5, OnlyApprovalLacks
    <3>2. CASE Required(e[2]) \subseteq F
      <4>1. CASE e[2] = "Promote" /\ ~ (dependsOn[g] \subseteq depsSatisfied[g])
        <5>1. Unready(g) # {}
          BY <2>6, <4>1
        <5> QED BY <2>6, <3>1, <3>2, <4>1, <5>1 DEF Passes, Permits
      <4>2. CASE e[2] = "Promote" => dependsOn[g] \subseteq depsSatisfied[g]
        BY <3>1, <3>2, <4>2 DEF Passes, Permits
      <4> QED BY <4>1, <4>2
    <3>3. CASE ~ (Required(e[2]) \subseteq F)
      <4>1. /\ Required(e[2]) \subseteq F \cup {"has_approval_quorum"}
            /\ SyncKind(phase[g]) = "OperatorApproval" /\ e[2] # "Promote"
        BY <3>1, <3>3
      <4>2. "has_approval_quorum" \notin flags[g]
        BY <3>3, <4>1
      <4> QED BY <3>1, <4>1, <4>2 DEF Passes, Permits, Unapproved
    <3> QED BY <3>2, <3>3
  <2> QED BY <2>1, <2>4, <2>7, BestHasKey
<1>2. Spec => []RuntimeInv
  BY RuntimeInvInit, RuntimeInvInductive, PTL DEF Spec
<1> QED BY <1>1, <1>2, PTL

-----------------------------------------------------------------------------
(***************************************************************************)
(* The search of detect_dep_cycle.  A job is followed by one with more     *)
(* visited names, or with as many and fewer dependencies; the rank counts  *)
(* both, so that what holds of the jobs of a lower rank can be used for    *)
(* the next.                                                               *)
(***************************************************************************)
Answers == [found : BOOLEAN, visited : SUBSET Galhos]

Unvisited(job) == Cardinality(Galhos \ job[2])

Rank(job) == Unvisited(job) * (Cardinality(Galhos) + 1) + Cardinality(job[1])

LEMMA RankType ==
  ASSUME NEW job \in Jobs
  PROVE  /\ Cardinality(Galhos) \in Nat
         /\ Unvisited(job) \in Nat
         /\ Cardinality(job[1]) \in 0 .. Cardinality(Galhos)
         /\ Rank(job) \in Nat
<1>1. IsFiniteSet(Galhos) /\ Cardinality(Galhos) \in Nat
  BY NamesAssumption, FS_CardinalityType
<1>2. job[1] \subseteq Galhos /\ Galhos \ job[2] \subseteq Galhos
  BY DEF Jobs
<1>3. IsFiniteSet(job[1]) /\ Cardinality(job[1]) <= Cardinality(Galhos)
  BY <1>1, <1>2, FS_Subset
<1>4. IsFiniteSet(Galhos \ job[2])
  BY <1>1, <1>2, FS_Subset
<1>5. Cardinality(job[1]) \in Nat /\ Unvisited(job) \in Nat
  BY <1>3, <1>4, FS_CardinalityType DEF Unvisited
<1>6. \A a, b, c \in Nat : a * (b + 1) + c \in Nat
  OBVIOUS
<1> QED BY <1>1, <1>3, <1>5, <1>6 DEF Rank

LEMMA LexicographicRank ==
  ASSUME NEW N \in Nat, NEW a \in Nat, NEW b \in Nat, NEW c \in 0..N, NEW d \in 0..N,
         b < a \/ (b <= a /\ c < d)
  PROVE  b * (N + 1) + c < a * (N + 1) + d
<1>1. \A x, y \in Nat : x <= y => x * (N + 1) <= y * (N + 1)
  <2> SUFFICES ASSUME NEW x \in Nat, NEW y \in Nat, x <= y
               PROVE  x * (N + 1) <= y * (N + 1)
    OBVIOUS
  <2>1. PICK k \in Nat : y = x + k
    <3>1. y - x \in Nat /\ y = x + (y - x)
      OBVIOUS
    <3> QED BY <3>1
  <2>2. y * (N + 1) = x * (N + 1) + k * (N + 1)
    BY <2>1
  <2>3. k * (N + 1) \in Nat /\ x * (N + 1) \in Nat
    OBVIOUS
  <2> QED BY <2>2, <2>3
<1>2. a * (N + 1) \in Nat /\ b * (N + 1) \in Nat
  OBVIOUS
<1>3. CASE b < a
  <2>1. (b + 1) * (N + 1) = b * (N + 1) + N + 1
    OBVIOUS
  <2>2. (b + 1) * (N + 1) <= a * (N + 1)
    BY <1>1, <1>3
  <2> QED BY <1>2, <2>1, <2>2
<1>4. CASE b <= a /\ c < d
  <2>1. b * (N + 1) <= a * (N + 1)
    BY <1>1, <1>4
  <2> QED BY <1>2, <1>4, <2>1
<1> QED BY <1>3, <1>4

\* The two jobs a turn hands over to.
LEMMA LowerRank ==
  ASSUME NEW D \in SUBSET Galhos, NEW V \in SUBSET Galhos, NEW d \in D
  PROVE  /\ \A E \in SUBSET Galhos :
              d \notin V => Rank(<<E, V \cup {d}>>) < Rank(<<D, V>>)
         /\ \A W \in SUBSET Galhos :
              V \subseteq W => Rank(<<D \ {d}, W>>) < Rank(<<D, V>>)
<1>1. IsFiniteSet(Galhos) /\ IsFiniteSet(Galhos \ V) /\ IsFiniteSet(D)
  BY NamesAssumption, FS_Subset
<1>2. ASSUME NEW E \in SUBSET Galhos, d \notin V
      PROVE  Rank(<<E, V \cup {d}>>) < Rank(<<D, V>>)
  <2>1. Galhos \ (V \cup {d}) = (Galhos \ V) \ {d}
    OBVIOUS
  <2>2. Unvisited(<<E, V \cup {d}>>) = Unvisited(<<D, V>>) - 1
    <3>1. Cardinality((Galhos \ V) \ {d}) = Cardinality(Galhos \ V) - 1
      BY <1>1, <1>2, FS_RemoveElement
    <3> QED BY <2>1, <3>1 DEF Unvisited
  <2>3. <<E, V \cup {d}>> \in Jobs /\ <<D, V>> \in Jobs
    BY DEF Jobs
  <2> QED BY <2>2, <2>3, RankType, LexicographicRank DEF Rank
<1>3. ASSUME NEW W \in SUBSET Galhos, V \subseteq W
      PROVE  Rank(<<D \ {d}, W>>) < Rank(<<D, V>>)
  <2>1. Galhos \ W \subseteq Galhos \ V
    BY <1>3
  <2>2. Unvisited(<<D \ {d}, W>>) <= Unvisited(<<D, V>>)
    BY <1>1, <2>1, FS_Subset DEF Unvisited
  <2>3. Cardinality(D \ {d}) = Cardinality(D) - 1
    BY <1>1, FS_RemoveElement
  <2>4. <<D \ {d}, W>> \in Jobs /\ <<D, V>> \in Jobs
    BY DEF Jobs
  <2> QED BY <2>2, <2>3, <2>4, RankType, LexicographicRank DEF Rank
<1> QED BY <1>2, <1>3

\* The turns taken with the search h.
Turns(target, h) == [job \in Jobs |-> Turn(target, h, job[1], job[2])]

\* A search forgets no name it has visited.
Remembers(h) == h \in [Jobs -> Answers] /\ \A job \in Jobs : job[2] \subseteq h[job].visited

LEMMA EnteredType ==
  ASSUME TypeOK, NEW h, Remembers(h), NEW d \in Galhos, NEW V \in SUBSET Galhos
  PROVE  Entered(h, d, V) \in Answers /\ V \cup {d} \subseteq Entered(h, d, V).visited
<1>1. CASE d \in V \/ phase[d] = "Absent"
  BY <1>1 DEF Entered, Answers
<1>2. CASE ~ (d \in V \/ phase[d] = "Absent")
  <2>1. Entered(h, d, V) = h[<<dependsOn[d], V \cup {d}>>]
    BY <1>2 DEF Entered
  <2>2. <<dependsOn[d], V \cup {d}>> \in Jobs
    BY DEF Jobs, TypeOK
  <2> QED BY <2>1, <2>2 DEF Remembers
<1> QED BY <1>1, <1>2

LEMMA TurnsRemember ==
  ASSUME TypeOK, NEW target, NEW h, Remembers(h)
  PROVE  Remembers(Turns(target, h))
<1> SUFFICES ASSUME NEW D \in SUBSET Galhos, NEW V \in SUBSET Galhos
             PROVE  /\ Turn(target, h, D, V) \in Answers
                    /\ V \subseteq Turn(target, h, D, V).visited
  BY DEF Remembers, Turns, Jobs
<1>1. CASE D = {}
  BY <1>1 DEF Turn, Answers
<1>2. CASE D # {}
  <2> DEFINE next == CHOOSE d \in D : TRUE
             sub  == Entered(h, next, V)
  <2>1. next \in D /\ next \in Galhos
    BY <1>2
  <2>2. Turn(target, h, D, V) = IF next = target \/ sub.found
                                THEN [found |-> TRUE, visited |-> sub.visited]
                                ELSE h[<<D \ {next}, sub.visited>>]
    BY <1>2 DEF Turn
  <2> HIDE DEF next
  <2>3. sub \in Answers /\ V \subseteq sub.visited
    BY <2>1, EnteredType
  <2> HIDE DEF sub
  <2>4. <<D \ {next}, sub.visited>> \in Jobs
    BY <2>3 DEF Jobs, Answers
  <2>5. /\ h[<<D \ {next}, sub.visited>>] \in Answers
        /\ sub.visited \subseteq h[<<D \ {next}, sub.visited>>].visited
    BY <2>4 DEF Remembers
  <2>6. /\ [found |-> TRUE, visited |-> sub.visited] \in Answers
        /\ [found |-> TRUE, visited |-> sub.visited].visited = sub.visited
    BY <2>3 DEF Answers
  <2>7. CASE next = target \/ sub.found
    BY <2>2, <2>3, <2>6, <2>7
  <2>8. CASE ~ (next = target \/ sub.found)
    BY <2>2, <2>3, <2>5, <2>8
  <2> QED BY <2>7, <2>8
<1> QED BY <1>1, <1>2

\* A turn depends on h only at jobs of a lower rank.
LEMMA TurnLocal ==
  ASSUME TypeOK, NEW target, NEW h, NEW k, Remembers(h),
         NEW D \in SUBSET Galhos, NEW V \in SUBSET Galhos,
         \A job \in Jobs : Rank(job) < Rank(<<D, V>>) => k[job] = h[job]
  PROVE  Turn(target, k, D, V) = Turn(target, h, D, V)
<1>1. CASE D = {}
  BY <1>1 DEF Turn
<1>2. CASE D # {}
  <2> DEFINE next == CHOOSE d \in D : TRUE
  <2>1. next \in D /\ next \in Galhos
    BY <1>2
  <2>2. /\ Turn(target, h, D, V) = LET sub == Entered(h, next, V)
                                   IN  IF next = target \/ sub.found
                                       THEN [found |-> TRUE, visited |-> sub.visited]
                                       ELSE h[<<D \ {next}, sub.visited>>]
        /\ Turn(target, k, D, V) = LET sub == Entered(k, next, V)
                                   IN  IF next = target \/ sub.found
                                       THEN [found |-> TRUE, visited |-> sub.visited]
                                       ELSE k[<<D \ {next}, sub.visited>>]
    BY <1>2 DEF Turn
  <2> HIDE DEF next
  <2>3. Entered(k, next, V) = Entered(h, next, V)
    <3>1. CASE next \in V \/ phase[next] = "Absent"
      BY <3>1 DEF Entered
    <3>2. CASE ~ (next \in V \/ phase[next] = "Absent")
      <4>1. dependsOn[next] \in SUBSET Galhos
        BY <2>1 DEF TypeOK
      <4>2. Rank(<<dependsOn[next], V \cup {next}>>) < Rank(<<D, V>>)
        BY <2>1, <3>2, <4>1, LowerRank
      <4>3. <<dependsOn[next], V \cup {next}>> \in Jobs
        BY <2>1, <4>1 DEF Jobs
      <4> QED BY <3>2, <4>2, <4>3 DEF Entered
    <3> QED BY <3>1, <3>2
  <2> DEFINE sub == Entered(h, next, V)
  <2>4. sub \in Answers /\ V \subseteq sub.visited
    BY <2>1, EnteredType
  <2>5. /\ Turn(target, h, D, V) = IF next = target \/ sub.found
                                   THEN [found |-> TRUE, visited |-> sub.visited]
                                   ELSE h[<<D \ {next}, sub.visited>>]
        /\ Turn(target, k, D, V) = IF next = target \/ sub.found
                                   THEN [found |-> TRUE, visited |-> sub.visited]
                                   ELSE k[<<D \ {next}, sub.visited>>]
    BY <2>2, <2>3
  <2> HIDE DEF sub
  <2>6. sub.visited \in SUBSET Galhos
    BY <2>4 DEF Answers
  <2>7. Rank(<<D \ {next}, sub.visited>>) < Rank(<<D, V>>)
    BY <2>1, <2>4, <2>6, LowerRank
  <2>8. <<D \ {next}, sub.visited>> \in Jobs
    BY <2>6 DEF Jobs
  <2> QED BY <2>5, <2>7, <2>8
<1> QED BY <1>1, <1>2

\* No rank is above that of the job with everything left to do.
LEMMA RanksBounded ==
  \E n \in Nat : \A job \in Jobs : Rank(job) < n
<1> DEFINE N == Cardinality(Galhos)
<1>1. N \in Nat /\ IsFiniteSet(Galhos)
  BY NamesAssumption, FS_CardinalityType
<1>2. ASSUME NEW job \in Jobs
      PROVE  Rank(job) < (N + 1) * (N + 1) + N
  <2>1. Galhos \ job[2] \subseteq Galhos
    OBVIOUS
  <2>2. Unvisited(job) <= N
    BY <1>1, <2>1, FS_Subset DEF Unvisited
  <2>3. Unvisited(job) < N + 1 /\ N \in 0..N /\ N + 1 \in Nat
    BY <1>1, <2>2, RankType
  <2> HIDE DEF N
  <2>4. Unvisited(job) * (N + 1) + Cardinality(job[1]) < (N + 1) * (N + 1) + N
    BY <1>1, <2>3, RankType, LexicographicRank DEF N
  <2> QED BY <2>4 DEF Rank, N
<1>3. (N + 1) * (N + 1) + N \in Nat
  BY <1>1
<1> HIDE DEF N
<1> QED BY <1>2, <1>3

LEMMA SearchExists ==
  ASSUME TypeOK, NEW target
  PROVE  \E w : w = Turns(target, w)
<1> DEFINE Reached == { n \in Nat : \E h : /\ Remembers(h)
                                          /\ \A job \in Jobs : Rank(job) < n =>
                                               h[job] = Turns(target, h)[job] }
<1>1. 0 \in Reached
  <2> DEFINE h == [job \in Jobs |-> [found |-> FALSE, visited |-> job[2]]]
  <2>1. Remembers(h)
    BY DEF Remembers, Jobs, Answers
  <2>2. \A job \in Jobs : ~ (Rank(job) < 0)
    BY RankType
  <2> HIDE DEF h
  <2> QED BY <2>1, <2>2
<1>2. ASSUME NEW n \in Reached
      PROVE  n + 1 \in Reached
  <2>1. n \in Nat
    OBVIOUS
  <2>2. PICK h : /\ Remembers(h)
                 /\ \A job \in Jobs : Rank(job) < n => h[job] = Turns(target, h)[job]
    OBVIOUS
  <2> DEFINE k == Turns(target, h)
  <2>3. Remembers(k)
    BY <2>2, TurnsRemember
  <2>4. ASSUME NEW job \in Jobs, Rank(job) < n + 1
        PROVE  k[job] = Turns(target, k)[job]
    <3>1. PICK D \in SUBSET Galhos, V \in SUBSET Galhos : job = <<D, V>>
      BY DEF Jobs
    <3>2. \A low \in Jobs : Rank(low) < Rank(<<D, V>>) => k[low] = h[low]
      <4>1. \A low \in Jobs : Rank(low) < Rank(job) => Rank(low) < n
        BY <2>1, <2>4, RankType
      <4> QED BY <2>2, <3>1, <4>1
    <3>3. Turn(target, k, D, V) = Turn(target, h, D, V)
      <4> HIDE DEF k
      <4> QED BY <2>2, <3>2, TurnLocal
    <3>4. Turns(target, k)[job] = Turn(target, k, D, V) /\ k[job] = Turn(target, h, D, V)
      BY <3>1 DEF Turns
    <3> QED BY <3>3, <3>4
  <2> HIDE DEF k
  <2> QED BY <2>1, <2>3, <2>4
<1>3. Reached = Nat
  <2>1. Reached \subseteq Nat
    OBVIOUS
  <2> HIDE DEF Reached
  <2> QED BY <1>1, <1>2, <2>1, NumbersByInduction
<1>4. PICK n \in Nat : \A job \in Jobs : Rank(job) < n
  BY RanksBounded
<1>5. PICK h : Remembers(h) /\ \A job \in Jobs : h[job] = Turns(target, h)[job]
  BY <1>3, <1>4
<1>6. h = Turns(target, h)
  BY <1>5 DEF Remembers, Turns
<1> QED BY <1>6

\* The search is the function its recursion describes.
LEMMA SearchEquation ==
  ASSUME TypeOK, NEW target
  PROVE  FindsAmong(target) = Turns(target, FindsAmong(target))
<1>1. FindsAmong(target) = CHOOSE w : w = Turns(target, w)
  BY DEF FindsAmong, Turns
<1> HIDE DEF FindsAmong
<1> QED BY <1>1, SearchExists

\* A name with no context has declared no dependencies.
AbsentFree == \A g \in Galhos : phase[g] = "Absent" => dependsOn[g] = {}

LEMMA AbsentFreeInit == Init => AbsentFree
  BY DEF Init, AbsentFree

LEMMA AbsentFreeNext == TypeOK /\ AbsentFree /\ [Next]_vars => AbsentFree'
<1> SUFFICES ASSUME TypeOK, AbsentFree, [Next]_vars PROVE AbsentFree'
  OBVIOUS
<1>1. CASE UNCHANGED <<phase, dependsOn>>
  BY <1>1 DEF AbsentFree
<1>2. ASSUME NEW t \in Tasks, NEW g \in Galhos, NEW D \in SUBSET Galhos, Create(t, g, D)
      PROVE  AbsentFree'
  BY <1>2 DEF Create, AbsentFree, TypeOK
<1>3. ASSUME NEW t \in Tasks, NEW g \in Galhos, NEW m \in Morphisms, NEW q \in Phases,
             Fired(t, g, m, q)
      PROVE  AbsentFree'
  <2>1. q # "Absent"
    BY DEF Phases, ForwardPhases, BackwardPhases, TerminalPhases
  <2> QED BY <1>3, <2>1 DEF Fired, AbsentFree, TypeOK
<1> QED BY <1>1, <1>2, <1>3, PhaseMoves DEF Next, vars, contextVars

\* The names of R lead to no other name.
Closed(R) == \A x \in R : dependsOn[x] \subseteq R

\* What the answer to a job says: a target that is found is reached from the dependencies of
\* the job; if it is not, neither is it one of them nor a dependency of a name visited for
\* the job, and all these have been visited.
Answered(target, job, answer) ==
  /\ answer \in Answers
  /\ job[2] \subseteq answer.visited
  /\ answer.found =>
       \A R \in SUBSET Galhos : job[1] \subseteq R /\ Closed(R) => target \in R
  /\ ~ answer.found =>
       /\ job[1] \subseteq answer.visited /\ target \notin job[1]
       /\ \A x \in answer.visited \ job[2] :
            x # target /\ target \notin dependsOn[x] /\ dependsOn[x] \subseteq answer.visited

\* One visit, from an answered loop.
LEMMA EnteredAnswered ==
  ASSUME TypeOK, AbsentFree, NEW target, NEW w, NEW d \in Galhos, NEW V \in SUBSET Galhos,
         d \in V \/ phase[d] = "Absent"
           \/ Answered(target, <<dependsOn[d], V \cup {d}>>, w[<<dependsOn[d], V \cup {d}>>])
  PROVE  LET sub == Entered(w, d, V)
         IN  /\ sub \in Answers
             /\ V \cup {d} \subseteq sub.visited
             /\ sub.found => \A R \in SUBSET Galhos : d \in R /\ Closed(R) => target \in R
             /\ ~ sub.found /\ d # target =>
                  \A x \in sub.visited \ V :
                    x # target /\ target \notin dependsOn[x] /\ dependsOn[x] \subseteq sub.visited
<1> DEFINE sub == Entered(w, d, V)
<1>1. CASE d \in V
  <2>1. sub = [found |-> FALSE, visited |-> V \cup {d}]
    BY <1>1 DEF Entered
  <2>2. sub \in Answers /\ sub.visited = V /\ ~ sub.found
    BY <1>1, <2>1 DEF Answers
  <2> QED BY <1>1, <2>2
<1>2. CASE d \notin V /\ phase[d] = "Absent"
  <2>1. sub = [found |-> FALSE, visited |-> V \cup {d}]
    BY <1>2 DEF Entered
  <2>2. sub \in Answers /\ sub.visited = V \cup {d} /\ ~ sub.found
    BY <2>1 DEF Answers
  <2>3. dependsOn[d] = {}
    BY <1>2 DEF AbsentFree
  <2> QED BY <2>2, <2>3
<1>3. CASE d \notin V /\ phase[d] # "Absent"
  <2>1. sub = w[<<dependsOn[d], V \cup {d}>>]
    BY <1>3 DEF Entered
  <2> HIDE DEF sub
  <2>2. Answered(target, <<dependsOn[d], V \cup {d}>>, sub)
    BY <1>3, <2>1
  <2>3. /\ sub \in Answers
        /\ V \cup {d} \subseteq sub.visited
        /\ sub.found => \A R \in SUBSET Galhos : dependsOn[d] \subseteq R /\ Closed(R) => target \in R
        /\ ~ sub.found =>
             /\ dependsOn[d] \subseteq sub.visited /\ target \notin dependsOn[d]
             /\ \A x \in sub.visited \ (V \cup {d}) :
                  x # target /\ target \notin dependsOn[x] /\ dependsOn[x] \subseteq sub.visited
    BY <2>2 DEF Answered
  <2>4. \A R : d \in R /\ Closed(R) => dependsOn[d] \subseteq R
    BY DEF Closed
  <2> QED BY <2>3, <2>4 DEF sub
<1> QED BY <1>1, <1>2, <1>3

LEMMA TurnAnswered ==
  ASSUME TypeOK, AbsentFree, NEW target, NEW w,
         NEW D \in SUBSET Galhos, NEW V \in SUBSET Galhos,
         \A job \in Jobs : Rank(job) < Rank(<<D, V>>) => Answered(target, job, w[job])
  PROVE  Answered(target, <<D, V>>, Turn(target, w, D, V))
<1>1. CASE D = {}
  BY <1>1 DEF Turn, Answered, Answers
<1>2. CASE D # {}
  <2> DEFINE next == CHOOSE d \in D : TRUE
             sub  == Entered(w, next, V)
             rest == w[<<D \ {next}, sub.visited>>]
  <2>1. next \in D /\ next \in Galhos
    BY <1>2
  <2>2. Turn(target, w, D, V) = IF next = target \/ sub.found
                                THEN [found |-> TRUE, visited |-> sub.visited]
                                ELSE rest
    BY <1>2 DEF Turn
  <2> HIDE DEF next
  <2>3. /\ sub \in Answers
        /\ V \cup {next} \subseteq sub.visited
        /\ sub.found => \A R \in SUBSET Galhos : next \in R /\ Closed(R) => target \in R
        /\ ~ sub.found /\ next # target =>
             \A x \in sub.visited \ V :
               x # target /\ target \notin dependsOn[x] /\ dependsOn[x] \subseteq sub.visited
    <3>1. CASE next \in V \/ phase[next] = "Absent"
      BY <2>1, <3>1, EnteredAnswered, ZenonT(60)
    <3>2. CASE next \notin V
      <4>1. dependsOn[next] \in SUBSET Galhos
        BY <2>1 DEF TypeOK
      <4>2. Rank(<<dependsOn[next], V \cup {next}>>) < Rank(<<D, V>>)
        BY <2>1, <3>2, <4>1, LowerRank
      <4>3. <<dependsOn[next], V \cup {next}>> \in Jobs
        BY <2>1, <4>1 DEF Jobs
      <4>4. Answered(target, <<dependsOn[next], V \cup {next}>>,
                     w[<<dependsOn[next], V \cup {next}>>])
        BY <4>2, <4>3
      <4> QED BY <2>1, <4>4, EnteredAnswered
    <3> QED BY <3>1, <3>2
  <2> HIDE DEF sub
  <2>4. sub.visited \in SUBSET Galhos
    BY <2>3 DEF Answers
  <2>5. Answered(target, <<D \ {next}, sub.visited>>, rest)
    <3>1. Rank(<<D \ {next}, sub.visited>>) < Rank(<<D, V>>)
      BY <2>1, <2>3, <2>4, LowerRank
    <3>2. <<D \ {next}, sub.visited>> \in Jobs
      BY <2>4 DEF Jobs
    <3> QED BY <3>1, <3>2
  <2> HIDE DEF rest
  <2>6. /\ rest \in Answers
        /\ sub.visited \subseteq rest.visited
        /\ rest.found =>
             \A R \in SUBSET Galhos : D \ {next} \subseteq R /\ Closed(R) => target \in R
        /\ ~ rest.found =>
             /\ D \ {next} \subseteq rest.visited /\ target \notin D \ {next}
             /\ \A x \in rest.visited \ sub.visited :
                  x # target /\ target \notin dependsOn[x] /\ dependsOn[x] \subseteq rest.visited
    BY <2>5 DEF Answered
  <2>7. CASE next = target \/ sub.found
    <3> DEFINE answer == [found |-> TRUE, visited |-> sub.visited]
    <3>1. answer \in Answers /\ answer.visited = sub.visited /\ answer.found
      BY <2>4 DEF Answers
    <3>2. \A R \in SUBSET Galhos : D \subseteq R /\ Closed(R) => target \in R
      BY <2>1, <2>3, <2>7
    <3>3. Turn(target, w, D, V) = answer
      BY <2>2, <2>7
    <3> HIDE DEF answer
    <3> QED BY <2>3, <3>1, <3>2, <3>3 DEF Answered
  <2>8. CASE next # target /\ ~ sub.found /\ rest.found
    <3>1. \A R \in SUBSET Galhos : D \subseteq R /\ Closed(R) => target \in R
      BY <2>6, <2>8
    <3>2. Turn(target, w, D, V) = rest
      BY <2>2, <2>8
    <3> QED BY <2>3, <2>6, <2>8, <3>1, <3>2 DEF Answered
  <2>9. CASE next # target /\ ~ sub.found /\ ~ rest.found
    <3>1. D \subseteq rest.visited /\ target \notin D
      BY <2>3, <2>6, <2>9
    <3>2. ASSUME NEW x \in rest.visited \ V
          PROVE  x # target /\ target \notin dependsOn[x] /\ dependsOn[x] \subseteq rest.visited
      BY <2>3, <2>6, <2>9
    <3>3. Turn(target, w, D, V) = rest
      BY <2>2, <2>9
    <3> QED BY <2>3, <2>6, <2>9, <3>1, <3>2, <3>3 DEF Answered
  <2> QED BY <2>7, <2>8, <2>9
<1> QED BY <1>1, <1>2

LEMMA SearchAnswered ==
  ASSUME TypeOK, AbsentFree, NEW target, NEW job \in Jobs
  PROVE  Answered(target, job, FindsAmong(target)[job])
<1> DEFINE w == FindsAmong(target)
           S == { n \in Nat : \A low \in Jobs : Rank(low) < n => Answered(target, low, w[low]) }
<1>1. w = Turns(target, w)
  BY SearchEquation
<1> HIDE DEF w
<1>2. 0 \in S
  BY RankType
<1>3. ASSUME NEW n \in S
      PROVE  n + 1 \in S
  <2> SUFFICES ASSUME NEW j \in Jobs, Rank(j) < n + 1
               PROVE  Answered(target, j, w[j])
    OBVIOUS
  <2>1. PICK D \in SUBSET Galhos, V \in SUBSET Galhos : j = <<D, V>>
    BY DEF Jobs
  <2>2. \A low \in Jobs : Rank(low) < Rank(j) => Rank(low) < n
    BY RankType
  <2>3. Answered(target, <<D, V>>, Turn(target, w, D, V))
    BY <2>1, <2>2, TurnAnswered
  <2>4. w[j] = Turn(target, w, D, V)
    BY <1>1, <2>1 DEF Turns
  <2> QED BY <2>1, <2>3, <2>4
<1>4. S = Nat
  <2>1. S \subseteq Nat
    OBVIOUS
  <2> HIDE DEF S
  <2> QED BY <1>2, <1>3, <2>1, NumbersByInduction
<1>5. Rank(job) + 1 \in S /\ Rank(job) < Rank(job) + 1
  <2>1. Rank(job) \in Nat
    BY RankType
  <2> HIDE DEF S
  <2> QED BY <1>4, <2>1
<1> QED BY <1>5 DEF w

\* The search of one dependency.
LEMMA SearchFromOne ==
  ASSUME TypeOK, AbsentFree, NEW n, NEW d \in Galhos
  PROVE  /\ FindsCycle(n, d) =>
              \A R \in SUBSET Galhos : d \in R /\ Closed(R) => n \in R
         /\ ~ FindsCycle(n, d) /\ d # n =>
              \E R \in SUBSET Galhos : d \in R /\ Closed(R) /\ n \notin R
<1> DEFINE w   == FindsAmong(n)
           sub == Entered(w, d, {})
<1>1. <<dependsOn[d], {} \cup {d}>> \in Jobs
  BY DEF Jobs, TypeOK
<1>2. Answered(n, <<dependsOn[d], {} \cup {d}>>, w[<<dependsOn[d], {} \cup {d}>>])
  BY <1>1, SearchAnswered
<1> HIDE DEF w
<1>3. /\ sub \in Answers
      /\ {} \cup {d} \subseteq sub.visited
      /\ sub.found => \A R \in SUBSET Galhos : d \in R /\ Closed(R) => n \in R
      /\ ~ sub.found /\ d # n =>
           \A x \in sub.visited \ {} :
             x # n /\ n \notin dependsOn[x] /\ dependsOn[x] \subseteq sub.visited
  BY <1>2, EnteredAnswered
<1> HIDE DEF sub
<1>4. FindsCycle(n, d) = sub.found
  BY DEF FindsCycle, sub, w
<1>5. ASSUME ~ sub.found, d # n
      PROVE  sub.visited \in SUBSET Galhos /\ d \in sub.visited /\ Closed(sub.visited)
             /\ n \notin sub.visited
  BY <1>3, <1>5 DEF Closed, Answers
<1> QED BY <1>3, <1>4, <1>5

\* The search finds a cycle exactly if reachability has one.
THEOREM SearchFindsCycles == Spec => []SearchAgrees
<1>1. TypeOK /\ AbsentFree => SearchAgrees
  <2> SUFFICES ASSUME TypeOK, AbsentFree, NEW n \in Galhos, NEW D \in SUBSET Galhos
               PROVE  CycleDetected(n, D) <=> WouldCycle(n, D)
    BY DEF SearchAgrees
  <2>1. ASSUME CycleDetected(n, D)
        PROVE  WouldCycle(n, D)
    <3> SUFFICES ASSUME NEW R \in SUBSET Galhos, D \subseteq R, Closed(R)
                 PROVE  n \in R
      BY DEF WouldCycle, Closed
    <3> QED BY <2>1, SearchFromOne DEF CycleDetected
  <2>2. ASSUME WouldCycle(n, D), ~ CycleDetected(n, D)
        PROVE  FALSE
    <3>1. n \notin D /\ \A d \in D : ~ FindsCycle(n, d) /\ d # n
      BY <2>2 DEF CycleDetected
    <3> DEFINE Apart(R) == R \in SUBSET Galhos /\ Closed(R) /\ n \notin R
               U == UNION { R \in SUBSET Galhos : Apart(R) }
    <3>2. D \subseteq U
      BY <3>1, SearchFromOne
    <3>3. U \in SUBSET Galhos /\ n \notin U
      OBVIOUS
    <3>4. \A x \in U : dependsOn[x] \subseteq U
      BY DEF Closed
    <3> QED BY <2>2, <3>2, <3>3, <3>4 DEF WouldCycle
  <2> QED BY <2>1, <2>2
<1>2. Spec => [](TypeOK /\ AbsentFree)
  BY TypeInit, TypeNext, AbsentFreeInit, AbsentFreeNext, PTL DEF Spec
<1> QED BY <1>1, <1>2, PTL
=============================================================================
