-------------------------- MODULE GalhoAuditProofs --------------------------
(***************************************************************************)
(* Proofs about GalhoAudit: what the log may lack and break, for any       *)
(* number of names, stack roots and callers, overlapping or not.           *)
(***************************************************************************)
EXTENDS GalhoAudit, GalhoRuntimeProofs

Fires(e)   == e.kind = "MorphismFired"
Applies(e) == Fires(e) /\ e.morphism = "ApplyToPreview"

Queued(t, g, mark) ==
  \E i \in 1 .. Len(outbox[t]) : outbox[t][i].galho = g /\ mark \in MarksOf(outbox[t][i])

\* The mark is in the log, or on its way there.
OnRecord(g, mark) == mark \in seen[g] \/ \E t \in Tasks : Queued(t, g, mark)

Applying(t, g) ==
  call[t] # NoCall /\ call[t].morphism = "ApplyToPreview" /\ call[t].galho = g

-----------------------------------------------------------------------------
(***************************************************************************)
(* The inductive invariant.                                                *)
(***************************************************************************)
AuditTypes ==
  /\ seen \in [Galhos -> SUBSET Marks]
  /\ last \in [Galhos -> Phases \cup {None}]

\* The lock event is logged before the apply it permits fires.
LockedInv ==
  /\ LocksAudited
  /\ \A t \in Tasks, g \in Galhos :
       Applying(t, g) => "locked" \in seen[g] \/ Queued(t, g, "locked")
  /\ \A t \in Tasks : \A i \in 1 .. Len(outbox[t]) :
       Applies(outbox[t][i]) => "locked" \in seen[outbox[t][i].galho]
  /\ \A g \in Galhos : phase[g] \in AppliedPhases => "locked" \in seen[g]

\* What a phase or the approval flag stands for is in the log or in an outbox.
RecordInv ==
  \A g \in Galhos :
    /\ phase[g] \in AppliedPhases => OnRecord(g, "applied")
    /\ phase[g] \in {"Verified", "Done", "Drifted"} => OnRecord(g, "verified")
    /\ "has_approval_quorum" \in flags[g] => OnRecord(g, "approved")

Reported(g) == IF last[g] = None THEN "Declared" ELSE last[g]

\* One call at a time: the event it has yet to log is the last thing that happened.
CalmInv ==
  /\ \A t, u \in Tasks : t # u => Idle(t) \/ Idle(u)
  /\ breaches = {}
  /\ \A t \in Tasks : \A i \in 1 .. Len(outbox[t]) : Fires(outbox[t][i]) =>
       /\ i = 1
       /\ BrokenBy(outbox[t][i]) = {}
       /\ phase[outbox[t][i].galho] = outbox[t][i].to
  /\ \A g \in Known :
       \/ phase[g] = Reported(g)
       \/ \E t \in Tasks : \E i \in 1 .. Len(outbox[t]) :
            Fires(outbox[t][i]) /\ outbox[t][i].galho = g
  /\ \A g \in Galhos \ Known : last[g] = None

AuditInv ==
  /\ TypeOK /\ EvidenceInv
  /\ AuditTypes /\ LockedInv /\ RecordInv
  /\ ~ overlapped => CalmInv

-----------------------------------------------------------------------------
(***************************************************************************)
(* The rules.                                                              *)
(***************************************************************************)
LEMMA RulesBroken ==
  ASSUME NEW e, NEW r \in BrokenBy(e)
  PROVE  \/ r = "PromoteRequiresPriorApproval" /\ e.morphism = "Promote" /\ "approved" \notin seen[e.galho]
         \/ r = "VerifyRequiresPriorApply" /\ e.morphism = "Verify" /\ "applied" \notin seen[e.galho]
         \/ r = "DoneRequiresVerified" /\ e.morphism = "SealDone" /\ "verified" \notin seen[e.galho]
         \/ r = "RevertRequiresPriorApply" /\ e.morphism = "RevertApply" /\ "applied" \notin seen[e.galho]
         \/ r = "ApplyRequiresStackLock" /\ e.morphism = "ApplyToPreview" /\ "locked" \notin seen[e.galho]
         \/ r = "NoPhaseStutter" /\ last[e.galho] = e.to
  BY DEF BrokenBy, Ordering

LEMMA NoRuleBroken ==
  ASSUME NEW e,
         e.morphism = "Promote" => "approved" \in seen[e.galho],
         e.morphism = "Verify" => "applied" \in seen[e.galho],
         e.morphism = "SealDone" => "verified" \in seen[e.galho],
         e.morphism = "RevertApply" => "applied" \in seen[e.galho],
         e.morphism = "ApplyToPreview" => "locked" \in seen[e.galho],
         last[e.galho] # e.to
  PROVE  BrokenBy(e) = {}
  BY RulesBroken

\* What the emission of an event does to the log.
LEMMA LogGrows ==
  ASSUME AuditTypes, NEW e \in OutcomeEvent, Observe(e)
  PROVE  /\ AuditTypes'
         /\ \A g \in Galhos : seen[g] \subseteq seen'[g]
         /\ MarksOf(e) \subseteq seen'[e.galho]
         /\ ~ Fires(e) => UNCHANGED <<last, breaches>>
         /\ Fires(e) => /\ last'[e.galho] = e.to
                        /\ \A g \in Galhos \ {e.galho} : last'[g] = last[g]
                        /\ breaches' = breaches \cup BrokenBy(e)
<1>1. e.galho \in Galhos /\ e.to \in Phases \cup {None}
  BY DEF OutcomeEvent
<1>2. MarksOf(e) \subseteq Marks
  BY DEF MarksOf, Marks
<1> QED BY <1>1, <1>2 DEF AuditTypes, Observe, Fires

-----------------------------------------------------------------------------
(***************************************************************************)
(* The steps of a task, by what the log is about.                          *)
(***************************************************************************)
\* The critical sections that fire nothing, approve nothing and start no apply.
Minor(t) ==
  /\ UNCHANGED <<phase, locks>>
  /\ \A g \in Galhos : "has_approval_quorum" \in flags'[g] => "has_approval_quorum" \in flags[g]
  /\ \A i \in 1 .. Len(outbox'[t]) : ~ Fires(outbox'[t][i])
  /\ \A g \in Galhos : Applying(t, g)' => Applying(t, g)

\* The section that fires m at g, of the call in progress if it is an apply.
FiredFor(t, g, m, q) ==
  /\ Fired(t, g, m, q)
  /\ m = "ApplyToPreview" => Applying(t, g)

LEMMA MinorPrepare ==
  ASSUME TypeOK, NEW t \in Tasks, NEW g \in Galhos, NEW m \in Morphisms, outbox[t] = <<>>,
         m = "ApplyToPreview" => Applying(t, g), PrepareStep(t, g, m)
  PROVE  Minor(t)
<1>1. outbox'[t] = <<>>
  BY DEF PrepareStep
<1>2. \A h \in Galhos : flags'[h] \subseteq flags[h] \cup PreGranted(m)
  BY DEF PrepareStep, TypeOK
<1>3. \A h \in Galhos : "has_approval_quorum" \in flags'[h] => "has_approval_quorum" \in flags[h]
  BY <1>2, PreGrantedFlags
<1>4. call'[t] = [stage |-> "advance", galho |-> g, morphism |-> m]
  BY DEF PrepareStep, TypeOK
<1> QED BY <1>1, <1>3, <1>4 DEF PrepareStep, Minor, Applying

LEMMA MinorAdvance ==
  ASSUME TypeOK, NEW t \in Tasks, NEW g \in Galhos, NEW m \in Morphisms, outbox[t] = <<>>,
         m = "ApplyToPreview" => Applying(t, g), AdvanceStep(t, g, m)
  PROVE  Minor(t) \/ \E q \in Phases : FiredFor(t, g, m, q)
<1>1. CASE Blocked(t, g, m)
  <2>1. outbox'[t] = <<Event("MorphismBlocked", g)>>
    BY <1>1 DEF Blocked, TypeOK
  <2>2. \A i \in 1 .. Len(outbox'[t]) : ~ Fires(outbox'[t][i])
    BY <2>1 DEF Fires, Event
  <2> QED BY <1>1, <2>2 DEF Blocked, contextVars, Minor, Applying, TypeOK
<1>2. CASE NotFound(t, g)
  BY <1>2 DEF NotFound, contextVars, Minor, Applying, TypeOK
<1> QED BY <1>1, <1>2 DEF AdvanceStep, FiredFor

LEMMA TaskSteps ==
  ASSUME TypeOK, NEW t \in Tasks, Begin(t) \/ Quiet(t)
  PROVE  \/ \E g \in Galhos, m \in Morphisms, q \in Phases : FiredFor(t, g, m, q)
         \/ \E g \in Galhos, D \in SUBSET Galhos : Create(t, g, D)
         \/ \E g \in Galhos : \E role \in ApprovalRoles(phase[g]) : ConfirmApproval(t, g, role)
         \/ \E g \in Galhos, r \in Roots : JoinOrAcquireLock(t, g, r)
         \/ Minor(t)
<1>1. CASE Begin(t)
  <2>1. ASSUME NEW g \in Galhos, NEW m \in Morphisms, FirePrepared(t, g, m)
        PROVE  Minor(t)
    BY <2>1, MinorPrepare DEF FirePrepared, Idle
  <2>2. ASSUME NEW g \in Galhos, NEW m \in Morphisms, FireDirect(t, g, m)
        PROVE  Minor(t) \/ \E q \in Phases : FiredFor(t, g, m, q)
    <3>1. m # "ApplyToPreview"
      BY <2>2 DEF FireDirect, FirstStage, PreGranted
    <3> QED BY <2>2, <3>1, MinorAdvance DEF FireDirect, Idle
  <2>3. ASSUME NEW g \in Galhos, DeliverSignal(t, g)
        PROVE  Minor(t)
    <3>1. PICK m \in ForwardMorphisms(phase[g]) :
            call' = [call EXCEPT ![t] = [stage |-> FirstStage(m), galho |-> g, morphism |-> m]]
      BY <2>3 DEF DeliverSignal
    <3>2. m = "Promote"
      BY <2>3, SignalPromotes DEF DeliverSignal
    <3>3. call'[t].morphism = "Promote"
      BY <3>1, <3>2 DEF TypeOK
    <3>4. outbox'[t] = <<Event("SyncConfirmed", g)>>
      BY <2>3 DEF DeliverSignal, TypeOK
    <3>5. \A i \in 1 .. Len(outbox'[t]) : ~ Fires(outbox'[t][i])
      BY <3>4 DEF Fires, Event
    <3> QED BY <2>3, <3>3, <3>5 DEF DeliverSignal, contextVars, Minor, Applying
  <2> QED BY <1>1, <2>1, <2>2, <2>3 DEF Begin
<1>2. CASE Quiet(t)
  <2>1. call[t] # NoCall /\ call[t].galho \in Galhos /\ call[t].morphism \in Morphisms
    BY <1>2 DEF Quiet, Prepare, Advance, TypeOK, Pending, NoCall
  <2>2. call[t].morphism = "ApplyToPreview" => Applying(t, call[t].galho)
    BY <2>1 DEF Applying
  <2> QED BY <1>2, <2>1, <2>2, MinorPrepare, MinorAdvance DEF Quiet, Prepare, Advance
<1> QED BY <1>1, <1>2

\* What the rows of the table say of the record.
LEMMA RowsOnRecord ==
  ASSUME NEW p, NEW m, NEW q, Row(p, m, q)
  PROVE  /\ p # q /\ q \in Phases
         /\ q \in AppliedPhases => p \in AppliedPhases \/ m = "ApplyToPreview"
         /\ q \in {"Verified", "Done", "Drifted"} =>
              p \in {"Verified", "Done", "Drifted"} \/ m = "Verify"
         /\ m \in {"Verify", "RevertApply"} => p \in AppliedPhases
         /\ m = "SealDone" => p = "Verified"
  BY DEF Row, TransitionTable, AppliedPhases, Phases, ForwardPhases, BackwardPhases,
         TerminalPhases

LEMMA ApprovalNotGranted ==
  ASSUME NEW m \in Morphisms, NEW q, NEW F, Required(m) \subseteq F,
         "has_approval_quorum" \in FlagsAfter(m, q, F)
  PROVE  "has_approval_quorum" \in F
  BY DEF FlagsAfter, Granted, PreGranted, Required, Morphisms

LEMMA FiredOutbox ==
  ASSUME TypeOK, NEW t \in Tasks, NEW g \in Galhos, NEW m \in Morphisms, NEW q \in Phases,
         Fired(t, g, m, q)
  PROVE  /\ 1 \in 1 .. Len(outbox'[t])
         /\ outbox'[t][1] = FiredEvent(g, m, q)
         /\ \A i \in 1 .. Len(outbox'[t]) : i # 1 => ~ Fires(outbox'[t][i])
<1>1. CASE q = "Destroyed"
  <2>1. outbox'[t] = <<FiredEvent(g, m, q), Event("GalhoDestroyed", g)>>
    BY <1>1 DEF Fired, TypeOK
  <2> QED BY <2>1 DEF Fires, Event
<1>2. CASE q # "Destroyed"
  <2>1. outbox'[t] = <<FiredEvent(g, m, q)>>
    BY <1>2 DEF Fired, TypeOK
  <2> QED BY <2>1
<1> QED BY <1>1, <1>2

LEMMA FiredMarks ==
  ASSUME NEW g, NEW m, NEW q
  PROVE  /\ Fires(FiredEvent(g, m, q))
         /\ m = "ApplyToPreview" => "applied" \in MarksOf(FiredEvent(g, m, q))
         /\ m = "Verify" => "verified" \in MarksOf(FiredEvent(g, m, q))
         /\ FiredEvent(g, m, q).galho = g /\ FiredEvent(g, m, q).morphism = m
         /\ FiredEvent(g, m, q).to = q
  BY DEF FiredEvent, MarksOf, Fires

\* A step that emits nothing loses nothing that is queued.
LEMMA QueueKept ==
  ASSUME TypeOK, NEW t \in Tasks, Begin(t) \/ Quiet(t),
         NEW u \in Tasks, NEW g \in Galhos, NEW mark
  PROVE  /\ Queued(u, g, mark) => u # t
         /\ Queued(u, g, mark) => Queued(u, g, mark)'
<1>1. outbox[t] = <<>> /\ \A v \in Tasks \ {t} : outbox'[v] = outbox[v]
  BY OthersKept
<1> QED BY <1>1 DEF Queued

LEMMA RecordKept ==
  ASSUME TypeOK, NEW t \in Tasks, Begin(t) \/ Quiet(t), UNCHANGED seen,
         NEW g \in Galhos, NEW mark, OnRecord(g, mark)
  PROVE  OnRecord(g, mark)'
  BY QueueKept DEF OnRecord

\* Nor does an emission: what is no longer queued is in the log.
LEMMA Emitted ==
  ASSUME TypeOK, NEW t \in Tasks, Emit(t)
  PROVE  /\ 1 \in 1 .. Len(outbox[t]) /\ Head(outbox[t]) = outbox[t][1]
         /\ Head(outbox[t]) \in OutcomeEvent
         /\ \A i \in 1 .. Len(outbox'[t]) :
              i + 1 \in 1 .. Len(outbox[t]) /\ outbox'[t][i] = outbox[t][i + 1]
         /\ \A j \in 1 .. Len(outbox[t]) : j # 1 =>
              j - 1 \in 1 .. Len(outbox'[t]) /\ outbox'[t][j - 1] = outbox[t][j]
         /\ \A u \in Tasks \ {t} : outbox'[u] = outbox[u]
         /\ UNCHANGED <<phase, flags, call>>
<1>1. outbox[t] \in Seq(OutcomeEvent) /\ outbox[t] # <<>> /\ outbox'[t] = Tail(outbox[t])
  BY DEF Emit, TypeOK
<1>2. \A u \in Tasks \ {t} : outbox'[u] = outbox[u]
  BY DEF Emit, TypeOK
<1>3. UNCHANGED <<phase, flags, call>>
  BY DEF Emit, contextVars
<1> QED BY <1>1, <1>2, <1>3

LEMMA EmittedFrom ==
  ASSUME TypeOK, NEW t \in Tasks, Emit(t), NEW u \in Tasks, NEW i \in 1 .. Len(outbox'[u])
  PROVE  \E j \in 1 .. Len(outbox[u]) :
           outbox'[u][i] = outbox[u][j] /\ outbox[u][j] \in OutcomeEvent /\ (u = t => j # 1)
<1>1. outbox[u] \in Seq(OutcomeEvent)
  BY DEF TypeOK
<1>2. CASE u = t
  <2>1. i + 1 \in 1 .. Len(outbox[u]) /\ outbox'[u][i] = outbox[u][i + 1] /\ i + 1 # 1
    BY <1>2, Emitted
  <2> QED BY <1>1, <2>1
<1>3. CASE u # t
  BY <1>1, <1>3, Emitted
<1> QED BY <1>2, <1>3

LEMMA EmittedQueue ==
  ASSUME TypeOK, AuditTypes, NEW t \in Tasks, Emit(t), Observe(Head(outbox[t])),
         NEW u \in Tasks, NEW g \in Galhos, NEW mark, Queued(u, g, mark)
  PROVE  mark \in seen'[g] \/ Queued(u, g, mark)'
<1>1. PICK j \in 1 .. Len(outbox[u]) : outbox[u][j].galho = g /\ mark \in MarksOf(outbox[u][j])
  BY DEF Queued
<1>2. CASE u # t
  BY <1>1, <1>2, Emitted DEF Queued
<1>3. CASE u = t /\ j = 1
  <2>1. MarksOf(Head(outbox[t])) \subseteq seen'[Head(outbox[t]).galho]
    BY Emitted, LogGrows
  <2> QED BY <1>1, <1>3, <2>1, Emitted
<1>4. CASE u = t /\ j # 1
  <2>1. j - 1 \in 1 .. Len(outbox'[t]) /\ outbox'[t][j - 1] = outbox[t][j]
    BY <1>4, Emitted
  <2> QED BY <1>1, <1>4, <2>1 DEF Queued
<1> QED BY <1>2, <1>3, <1>4

LEMMA EmittedRecord ==
  ASSUME TypeOK, AuditTypes, NEW t \in Tasks, Emit(t), Observe(Head(outbox[t])),
         NEW g \in Galhos, NEW mark, OnRecord(g, mark)
  PROVE  OnRecord(g, mark)'
<1>1. seen[g] \subseteq seen'[g]
  BY Emitted, LogGrows
<1> QED BY <1>1, EmittedQueue DEF OnRecord

-----------------------------------------------------------------------------
(***************************************************************************)
(* The lock is on record before the apply.                                 *)
(***************************************************************************)
LEMMA LockedEmit ==
  ASSUME TypeOK, AuditTypes, LockedInv, NEW t \in Tasks, Emit(t), Observe(Head(outbox[t]))
  PROVE  LockedInv'
<1> DEFINE e == Head(outbox[t])
<1>1. e \in OutcomeEvent /\ e = outbox[t][1] /\ 1 \in 1 .. Len(outbox[t])
  BY Emitted
<1>2. \A g \in Galhos : seen[g] \subseteq seen'[g]
  BY <1>1, LogGrows
<1>3. LocksAudited'
  <2>1. "ApplyRequiresStackLock" \notin breaches
    BY DEF LockedInv, LocksAudited
  <2>2. Applies(e) => "locked" \in seen[e.galho]
    BY <1>1 DEF LockedInv
  <2>3. "ApplyRequiresStackLock" \in BrokenBy(e) =>
          e.morphism = "ApplyToPreview" /\ "locked" \notin seen[e.galho]
    BY RulesBroken
  <2>4. \/ UNCHANGED breaches
        \/ Fires(e) /\ breaches' = breaches \cup BrokenBy(e)
    BY <1>1, LogGrows
  <2> HIDE DEF e
  <2> QED BY <2>1, <2>2, <2>3, <2>4 DEF LocksAudited, Applies
<1> HIDE DEF e
<1>4. ASSUME NEW u \in Tasks, NEW g \in Galhos, Applying(u, g)'
      PROVE  "locked" \in seen'[g] \/ Queued(u, g, "locked")'
  <2>1. Applying(u, g)
    BY <1>4, Emitted DEF Applying
  <2>2. "locked" \in seen[g] \/ Queued(u, g, "locked")
    BY <2>1 DEF LockedInv
  <2> QED BY <1>2, <2>2, EmittedQueue
<1>5. ASSUME NEW u \in Tasks, NEW i \in 1 .. Len(outbox'[u]), Applies(outbox'[u][i])
      PROVE  "locked" \in seen'[outbox'[u][i].galho]
  <2>1. PICK j \in 1 .. Len(outbox[u]) :
          outbox'[u][i] = outbox[u][j] /\ outbox[u][j] \in OutcomeEvent
    BY EmittedFrom
  <2>2. outbox[u][j].galho \in Galhos /\ "locked" \in seen[outbox[u][j].galho]
    BY <1>5, <2>1 DEF LockedInv, OutcomeEvent
  <2> QED BY <1>2, <2>1, <2>2
<1>6. \A g \in Galhos : phase'[g] \in AppliedPhases => "locked" \in seen'[g]
  BY <1>2, Emitted DEF LockedInv
<1> QED BY <1>3, <1>4, <1>5, <1>6 DEF LockedInv

\* It is enough to look at the task that takes the step.
LEMMA LockedByTask ==
  ASSUME TypeOK, LockedInv, NEW t \in Tasks, Begin(t) \/ Quiet(t), UNCHANGED <<seen, breaches>>,
         \A g \in Galhos : Applying(t, g)' => "locked" \in seen[g] \/ Queued(t, g, "locked")',
         \A i \in 1 .. Len(outbox'[t]) :
           Applies(outbox'[t][i]) => "locked" \in seen[outbox'[t][i].galho],
         \A g \in Galhos : phase'[g] \in AppliedPhases => "locked" \in seen[g]
  PROVE  LockedInv'
<1>1. \A u \in Tasks \ {t} : outbox'[u] = outbox[u] /\ call'[u] = call[u]
  BY OthersKept
<1>2. ASSUME NEW u \in Tasks, NEW g \in Galhos, Applying(u, g)'
      PROVE  "locked" \in seen'[g] \/ Queued(u, g, "locked")'
  BY <1>1, <1>2 DEF LockedInv, Applying, Queued
<1>3. ASSUME NEW u \in Tasks, NEW i \in 1 .. Len(outbox'[u]), Applies(outbox'[u][i])
      PROVE  "locked" \in seen'[outbox'[u][i].galho]
  BY <1>1, <1>3 DEF LockedInv
<1> QED BY <1>2, <1>3 DEF LockedInv, LocksAudited

LEMMA LockedTask ==
  ASSUME TypeOK, LockedInv, NEW t \in Tasks, Begin(t) \/ Quiet(t), UNCHANGED <<seen, breaches>>
  PROVE  LockedInv'
<1>1. outbox[t] = <<>>
  BY OthersKept
<1>2. \A g \in Galhos : Applying(t, g) => "locked" \in seen[g]
  BY <1>1 DEF LockedInv, Queued
<1>3. \A g \in Galhos : phase[g] \in AppliedPhases => "locked" \in seen[g]
  BY DEF LockedInv
<1>4. ASSUME NEW g \in Galhos, NEW m \in Morphisms, NEW q \in Phases, FiredFor(t, g, m, q)
      PROVE  LockedInv'
  <2>1. \A h \in Galhos : ~ Applying(t, h)'
    BY <1>4 DEF FiredFor, Fired, TypeOK, Applying
  <2>2. m = "ApplyToPreview" => "locked" \in seen[g]
    BY <1>2, <1>4 DEF FiredFor
  <2>3. \A i \in 1 .. Len(outbox'[t]) :
          Applies(outbox'[t][i]) => "locked" \in seen[outbox'[t][i].galho]
    BY <1>4, <2>2, FiredOutbox, FiredMarks DEF FiredFor, Applies
  <2>4. Row(phase[g], m, q)
    BY <1>4 DEF FiredFor, Fired
  <2>5. \A h \in Galhos : phase'[h] \in AppliedPhases => "locked" \in seen[h]
    <3>1. q \in AppliedPhases => "locked" \in seen[g]
      BY <1>3, <2>2, <2>4, RowsOnRecord
    <3> QED BY <1>3, <1>4, <3>1 DEF FiredFor, Fired, TypeOK
  <2> QED BY <2>1, <2>3, <2>5, LockedByTask
<1>5. ASSUME NEW g \in Galhos, NEW D \in SUBSET Galhos, Create(t, g, D)
      PROVE  LockedInv'
  <2>1. outbox'[t] = <<Event("GalhoCreated", g)>>
    BY <1>5 DEF Create, TypeOK
  <2>2. \A i \in 1 .. Len(outbox'[t]) : ~ Applies(outbox'[t][i])
    BY <2>1 DEF Applies, Fires, Event
  <2>3. \A h \in Galhos : ~ Applying(t, h)'
    BY <1>5 DEF Create, Idle, Applying
  <2>4. \A h \in Galhos : phase'[h] \in AppliedPhases => "locked" \in seen[h]
    BY <1>3, <1>5 DEF Create, TypeOK, AppliedPhases
  <2> QED BY <2>2, <2>3, <2>4, LockedByTask
<1>6. ASSUME NEW g \in Galhos, NEW role, ConfirmApproval(t, g, role)
      PROVE  LockedInv'
  <2>1. outbox'[t] = <<Event("SyncConfirmed", g)>>
    BY <1>6 DEF ConfirmApproval, TypeOK
  <2>2. \A i \in 1 .. Len(outbox'[t]) : ~ Applies(outbox'[t][i])
    BY <2>1 DEF Applies, Fires, Event
  <2>3. \A h \in Galhos : ~ Applying(t, h)'
    BY <1>6 DEF ConfirmApproval, Idle, Applying
  <2> QED BY <1>3, <1>6, <2>2, <2>3, LockedByTask DEF ConfirmApproval
<1>7. ASSUME NEW g \in Galhos, NEW r \in Roots, JoinOrAcquireLock(t, g, r)
      PROVE  LockedInv'
  <2>1. PICK k \in {"StackLockAcquired", "StackLockJoined"} : outbox'[t] = <<Event(k, g)>>
    BY <1>7 DEF JoinOrAcquireLock, TypeOK
  <2>2. \A i \in 1 .. Len(outbox'[t]) : ~ Applies(outbox'[t][i])
    BY <2>1 DEF Applies, Fires, Event
  <2>3. Queued(t, g, "locked")'
    <3>1. 1 \in 1 .. Len(outbox'[t]) /\ outbox'[t][1] = Event(k, g)
      BY <2>1
    <3>2. Event(k, g).galho = g /\ "locked" \in MarksOf(Event(k, g))
      BY DEF Event, MarksOf
    <3> QED BY <3>1, <3>2 DEF Queued
  <2>4. \A h \in Galhos : Applying(t, h)' => h = g
    BY <1>7 DEF JoinOrAcquireLock, TypeOK, Applying
  <2> QED BY <1>3, <1>7, <2>2, <2>3, <2>4, LockedByTask DEF JoinOrAcquireLock, contextVars
<1>8. CASE Minor(t)
  BY <1>2, <1>3, <1>8, LockedByTask DEF Minor, Applies
<1> QED BY <1>4, <1>5, <1>6, <1>7, <1>8, TaskSteps

-----------------------------------------------------------------------------
(***************************************************************************)
(* What a phase stands for is on record.                                   *)
(***************************************************************************)
LEMMA RecordEmit ==
  ASSUME TypeOK, AuditTypes, RecordInv, NEW t \in Tasks, Emit(t), Observe(Head(outbox[t]))
  PROVE  RecordInv'
<1>1. UNCHANGED <<phase, flags>>
  BY Emitted
<1> SUFFICES ASSUME NEW g \in Galhos
             PROVE  /\ phase[g] \in AppliedPhases => OnRecord(g, "applied")'
                    /\ phase[g] \in {"Verified", "Done", "Drifted"} => OnRecord(g, "verified")'
                    /\ "has_approval_quorum" \in flags[g] => OnRecord(g, "approved")'
  BY <1>1 DEF RecordInv
<1> QED BY EmittedRecord DEF RecordInv

LEMMA RecordByGalho ==
  ASSUME TypeOK, RecordInv, NEW t \in Tasks, Begin(t) \/ Quiet(t), UNCHANGED seen,
         NEW g \in Galhos,
         phase'[g] \in AppliedPhases => phase[g] \in AppliedPhases \/ OnRecord(g, "applied")',
         phase'[g] \in {"Verified", "Done", "Drifted"} =>
           phase[g] \in {"Verified", "Done", "Drifted"} \/ OnRecord(g, "verified")',
         "has_approval_quorum" \in flags'[g] =>
           "has_approval_quorum" \in flags[g] \/ OnRecord(g, "approved")'
  PROVE  /\ phase'[g] \in AppliedPhases => OnRecord(g, "applied")'
         /\ phase'[g] \in {"Verified", "Done", "Drifted"} => OnRecord(g, "verified")'
         /\ "has_approval_quorum" \in flags'[g] => OnRecord(g, "approved")'
  BY RecordKept DEF RecordInv

LEMMA RecordTask ==
  ASSUME TypeOK, RecordInv, NEW t \in Tasks, Begin(t) \/ Quiet(t), UNCHANGED seen
  PROVE  RecordInv'
<1> SUFFICES ASSUME NEW h \in Galhos
             PROVE  /\ phase'[h] \in AppliedPhases =>
                         phase[h] \in AppliedPhases \/ OnRecord(h, "applied")'
                    /\ phase'[h] \in {"Verified", "Done", "Drifted"} =>
                         phase[h] \in {"Verified", "Done", "Drifted"} \/ OnRecord(h, "verified")'
                    /\ "has_approval_quorum" \in flags'[h] =>
                         "has_approval_quorum" \in flags[h] \/ OnRecord(h, "approved")'
  BY RecordByGalho DEF RecordInv
<1>1. ASSUME NEW g \in Galhos, NEW m \in Morphisms, NEW q \in Phases, Fired(t, g, m, q), h = g
      PROVE  /\ q \in AppliedPhases => phase[h] \in AppliedPhases \/ OnRecord(h, "applied")'
             /\ q \in {"Verified", "Done", "Drifted"} =>
                  phase[h] \in {"Verified", "Done", "Drifted"} \/ OnRecord(h, "verified")'
             /\ "has_approval_quorum" \in flags'[h] => "has_approval_quorum" \in flags[h]
  <2>1. Row(phase[g], m, q) /\ Required(m) \subseteq flags[g]
    BY <1>1 DEF Fired, Permits
  <2>2. \A mark : mark \in MarksOf(FiredEvent(g, m, q)) => OnRecord(g, mark)'
    <3>1. 1 \in 1 .. Len(outbox'[t]) /\ outbox'[t][1] = FiredEvent(g, m, q)
      BY <1>1, FiredOutbox
    <3> QED BY <3>1, FiredMarks DEF OnRecord, Queued
  <2>3. flags'[g] = FlagsAfter(m, q, flags[g])
    BY <1>1 DEF Fired, TypeOK
  <2>4. "has_approval_quorum" \in flags'[g] => "has_approval_quorum" \in flags[g]
    BY <2>1, <2>3, ApprovalNotGranted
  <2>5. m = "ApplyToPreview" => OnRecord(g, "applied")'
    BY <2>2, FiredMarks
  <2>6. m = "Verify" => OnRecord(g, "verified")'
    BY <2>2, FiredMarks
  <2> QED BY <1>1, <2>1, <2>4, <2>5, <2>6, RowsOnRecord
<1>2. ASSUME NEW g \in Galhos, NEW m \in Morphisms, NEW q \in Phases, FiredFor(t, g, m, q)
      PROVE  /\ h = g => phase'[h] = q
             /\ h # g => phase'[h] = phase[h] /\ flags'[h] = flags[h]
  BY <1>2 DEF FiredFor, Fired, TypeOK
<1>3. CASE \E g \in Galhos, m \in Morphisms, q \in Phases : FiredFor(t, g, m, q)
  <2>1. PICK g \in Galhos, m \in Morphisms, q \in Phases : FiredFor(t, g, m, q)
    BY <1>3
  <2>2. Fired(t, g, m, q)
    BY <2>1 DEF FiredFor
  <2>3. CASE h = g
    BY <1>1, <1>2, <2>1, <2>2, <2>3
  <2>4. CASE h # g
    BY <1>2, <2>1, <2>4
  <2> QED BY <2>3, <2>4
<1>4. ASSUME NEW g \in Galhos, NEW D \in SUBSET Galhos, Create(t, g, D)
      PROVE  (phase'[h] = "Declared" \/ phase'[h] = phase[h]) /\ flags'[h] = flags[h]
  BY <1>4 DEF Create, TypeOK
<1>5. ASSUME NEW g \in Galhos, NEW role, ConfirmApproval(t, g, role)
      PROVE  /\ phase'[h] = phase[h]
             /\ flags'[h] = flags[h] \/ OnRecord(h, "approved")'
  <2>1. phase' = phase /\ (h # g => flags'[h] = flags[h])
    BY <1>5 DEF ConfirmApproval, TypeOK
  <2>2. outbox'[t] = <<Event("SyncConfirmed", g)>>
    BY <1>5 DEF ConfirmApproval, TypeOK
  <2>3. 1 \in 1 .. Len(outbox'[t]) /\ outbox'[t][1] = Event("SyncConfirmed", g)
    BY <2>2
  <2>4. Event("SyncConfirmed", g).galho = g /\ "approved" \in MarksOf(Event("SyncConfirmed", g))
    BY DEF Event, MarksOf
  <2>5. OnRecord(g, "approved")'
    BY <2>3, <2>4 DEF OnRecord, Queued
  <2> QED BY <2>1, <2>5
<1>6. ASSUME NEW g \in Galhos, NEW r \in Roots, JoinOrAcquireLock(t, g, r)
      PROVE  UNCHANGED <<phase, flags>>
  BY <1>6 DEF JoinOrAcquireLock, contextVars
<1>7. CASE Minor(t)
  BY <1>7 DEF Minor
<1>8. "Declared" \notin AppliedPhases
  BY DEF AppliedPhases
<1> QED BY <1>3, <1>4, <1>5, <1>6, <1>7, <1>8, TaskSteps

-----------------------------------------------------------------------------
(***************************************************************************)
(* One call at a time: the log is clean and up to date.                    *)
(***************************************************************************)
LEMMA CalmTask ==
  ASSUME TypeOK, AuditTypes, EvidenceInv, LockedInv, RecordInv, CalmInv,
         NEW t \in Tasks, Begin(t) \/ Quiet(t), UNCHANGED <<seen, last, breaches>>,
         \A u \in Tasks \ {t} : Idle(u)
  PROVE  CalmInv'
<1>1. /\ \A u \in Tasks : outbox[u] = <<>>
      /\ \A u \in Tasks \ {t} : outbox'[u] = <<>> /\ Idle(u)'
  BY OthersKept DEF Idle
<1>2. \A g \in Galhos : \A mark : OnRecord(g, mark) => mark \in seen[g]
  BY <1>1 DEF OnRecord, Queued
<1>3. \A g \in Known : phase[g] = Reported(g)
  BY <1>1 DEF CalmInv
<1>4. \A g \in Galhos : Reported(g)' = Reported(g)
  BY DEF Reported
<1>5. ASSUME \A i \in 1 .. Len(outbox'[t]) : ~ Fires(outbox'[t][i]),
             \A g \in Known' : phase'[g] = Reported(g), Known \subseteq Known'
      PROVE  CalmInv'
  <2>1. \A u \in Tasks : \A i \in 1 .. Len(outbox'[u]) : ~ Fires(outbox'[u][i])
    BY <1>1, <1>5
  <2>2. \A g \in Galhos \ Known' : last'[g] = None
    BY <1>5 DEF CalmInv
  <2>3. \A u, v \in Tasks : u # v => Idle(u)' \/ Idle(v)'
    BY <1>1
  <2>4. \A g \in Known' : phase'[g] = Reported(g)'
    BY <1>4, <1>5 DEF Known
  <2>5. breaches' = {}
    BY DEF CalmInv
  <2> QED BY <2>1, <2>2, <2>3, <2>4, <2>5 DEF CalmInv
<1>6. ASSUME NEW g \in Galhos, NEW m \in Morphisms, NEW q \in Phases, FiredFor(t, g, m, q)
      PROVE  CalmInv'
  <2> DEFINE e == FiredEvent(g, m, q)
  <2>1. /\ Row(phase[g], m, q) /\ Required(m) \subseteq flags[g]
        /\ phase'[g] = q /\ \A h \in Galhos \ {g} : phase'[h] = phase[h]
    BY <1>6 DEF FiredFor, Fired, Permits, TypeOK
  <2>2. g \in Known /\ Known' = Known
    <3>1. phase[g] # "Absent"
      BY <2>1 DEF Row, TransitionTable
    <3>2. q # "Absent"
      BY DEF Phases, ForwardPhases, BackwardPhases, TerminalPhases
    <3> QED BY <2>1, <3>1, <3>2 DEF Known
  <2>3. e.galho = g /\ e.morphism = m /\ e.to = q /\ Fires(e)
    BY FiredMarks
  <2>4. BrokenBy(e) = {}
    <3>1. m = "Promote" => "approved" \in seen[g]
      BY <1>2, <2>1 DEF RecordInv, Required
    <3>2. m \in {"Verify", "RevertApply"} => "applied" \in seen[g]
      BY <1>2, <2>1, RowsOnRecord DEF RecordInv
    <3>3. m = "SealDone" => "verified" \in seen[g]
      BY <1>2, <2>1, RowsOnRecord DEF RecordInv
    <3>4. m = "ApplyToPreview" => "locked" \in seen[g]
      BY <1>1, <1>6 DEF FiredFor, LockedInv, Queued
    <3>5. last[g] # q
      <4>1. phase[g] # q /\ q # None
        BY <2>1, RowsOnRecord DEF None, Phases, ForwardPhases, BackwardPhases, TerminalPhases
      <4> QED BY <1>3, <2>2, <4>1 DEF Reported
    <3> HIDE DEF e
    <3> QED BY <2>3, <3>1, <3>2, <3>3, <3>4, <3>5, NoRuleBroken
  <2>5. /\ 1 \in 1 .. Len(outbox'[t]) /\ outbox'[t][1] = e
        /\ \A i \in 1 .. Len(outbox'[t]) : i # 1 => ~ Fires(outbox'[t][i])
    BY <1>6, FiredOutbox DEF FiredFor
  <2> HIDE DEF e
  <2>6. BrokenBy(e)' = {}
    <3>1. BrokenBy(e)' = BrokenBy(e)
      BY DEF BrokenBy, e, FiredEvent
    <3> QED BY <2>4, <3>1
  <2>7. ASSUME NEW u \in Tasks, NEW i \in 1 .. Len(outbox'[u]), Fires(outbox'[u][i])
        PROVE  /\ i = 1
               /\ BrokenBy(outbox[u][i])' = {}
               /\ phase'[outbox'[u][i].galho] = outbox'[u][i].to
    <3>1. u = t
      BY <1>1, <2>7
    <3>2. i = 1 /\ outbox'[u][i] = e
      BY <2>5, <2>7, <3>1
    <3>3. BrokenBy(outbox[u][i])' = BrokenBy(e)'
      BY <3>2 DEF BrokenBy, e, FiredEvent
    <3> QED BY <2>1, <2>3, <2>6, <3>2, <3>3
  <2>8. \A h \in Known' : phase'[h] = Reported(h)' \/
          \E u \in Tasks : \E i \in 1 .. Len(outbox'[u]) :
            Fires(outbox'[u][i]) /\ outbox'[u][i].galho = h
    <3> SUFFICES ASSUME NEW h \in Known', phase'[h] # Reported(h)'
                 PROVE  \E u \in Tasks : \E i \in 1 .. Len(outbox'[u]) :
                          Fires(outbox'[u][i]) /\ outbox'[u][i].galho = h
      OBVIOUS
    <3>1. h = g
      BY <1>3, <1>4, <2>1, <2>2 DEF Known
    <3> QED BY <2>3, <2>5, <3>1
  <2>9. \A u, v \in Tasks : u # v => Idle(u)' \/ Idle(v)'
    BY <1>1
  <2> QED BY <2>2, <2>7, <2>8, <2>9 DEF CalmInv
<1>7. ASSUME NEW g \in Galhos, NEW D \in SUBSET Galhos, Create(t, g, D)
      PROVE  CalmInv'
  <2>1. outbox'[t] = <<Event("GalhoCreated", g)>>
    BY <1>7 DEF Create, TypeOK
  <2>2. \A i \in 1 .. Len(outbox'[t]) : ~ Fires(outbox'[t][i])
    BY <2>1 DEF Fires, Event
  <2>3. /\ phase[g] = "Absent" /\ phase'[g] = "Declared"
        /\ \A h \in Galhos \ {g} : phase'[h] = phase[h]
    BY <1>7 DEF Create, TypeOK
  <2>4. Reported(g) = "Declared"
    BY <2>3 DEF CalmInv, Known, Reported
  <2>5. Known' = Known \cup {g}
    BY <2>3 DEF Known
  <2>6. \A h \in Known' : phase'[h] = Reported(h)
    BY <1>3, <2>3, <2>4, <2>5 DEF Known
  <2> QED BY <1>5, <2>2, <2>5, <2>6
<1>8. ASSUME UNCHANGED phase, \A i \in 1 .. Len(outbox'[t]) : ~ Fires(outbox'[t][i])
      PROVE  CalmInv'
  BY <1>3, <1>5, <1>8 DEF Known
<1>9. ASSUME NEW g \in Galhos, NEW role, ConfirmApproval(t, g, role)
      PROVE  CalmInv'
  <2>1. outbox'[t] = <<Event("SyncConfirmed", g)>>
    BY <1>9 DEF ConfirmApproval, TypeOK
  <2> QED BY <1>8, <1>9, <2>1 DEF ConfirmApproval, Fires, Event
<1>10. ASSUME NEW g \in Galhos, NEW r \in Roots, JoinOrAcquireLock(t, g, r)
       PROVE  CalmInv'
  <2>1. PICK k \in {"StackLockAcquired", "StackLockJoined"} : outbox'[t] = <<Event(k, g)>>
    BY <1>10 DEF JoinOrAcquireLock, TypeOK
  <2> QED BY <1>8, <1>10, <2>1 DEF JoinOrAcquireLock, contextVars, Fires, Event
<1>11. CASE Minor(t)
  BY <1>8, <1>11 DEF Minor
<1> QED BY <1>6, <1>7, <1>9, <1>10, <1>11, TaskSteps

LEMMA CalmEmit ==
  ASSUME TypeOK, AuditTypes, CalmInv, NEW t \in Tasks, Emit(t), Observe(Head(outbox[t]))
  PROVE  CalmInv'
<1> DEFINE e == Head(outbox[t])
<1>1. /\ e \in OutcomeEvent /\ e = outbox[t][1] /\ 1 \in 1 .. Len(outbox[t])
      /\ UNCHANGED <<phase, call>>
      /\ \A u \in Tasks \ {t} : outbox'[u] = outbox[u]
  BY Emitted
<1>2. \A u \in Tasks \ {t} : Idle(u) /\ Idle(u)' /\ outbox'[u] = <<>>
  <2>1. ~ Idle(t)
    BY DEF Emit, Idle
  <2> QED BY <1>1, <2>1 DEF CalmInv, Idle
<1>3. \A u, v \in Tasks : u # v => Idle(u)' \/ Idle(v)'
  BY <1>2
<1>4. \A u \in Tasks : \A i \in 1 .. Len(outbox'[u]) : ~ Fires(outbox'[u][i])
  <2> SUFFICES ASSUME NEW u \in Tasks, NEW i \in 1 .. Len(outbox'[u]), Fires(outbox'[u][i])
               PROVE  FALSE
    OBVIOUS
  <2>1. u = t
    BY <1>2
  <2>2. PICK j \in 1 .. Len(outbox[t]) : outbox'[t][i] = outbox[t][j] /\ j # 1
    BY <2>1, EmittedFrom
  <2> QED BY <2>1, <2>2 DEF CalmInv
<1>5. Fires(e) => BrokenBy(e) = {} /\ phase[e.galho] = e.to
  BY <1>1 DEF CalmInv
<1>6. \A g \in Known : phase[g] = Reported(g) \/ (Fires(e) /\ g = e.galho)
  <2> SUFFICES ASSUME NEW g \in Known, phase[g] # Reported(g)
               PROVE  Fires(e) /\ g = e.galho
    OBVIOUS
  <2>1. PICK u \in Tasks : \E i \in 1 .. Len(outbox[u]) :
          Fires(outbox[u][i]) /\ outbox[u][i].galho = g
    BY DEF CalmInv
  <2>2. PICK i \in 1 .. Len(outbox[u]) : Fires(outbox[u][i]) /\ outbox[u][i].galho = g
    BY <2>1
  <2>3. u = t
    BY <1>2, <2>2 DEF Idle
  <2>4. i = 1
    BY <2>2 DEF CalmInv
  <2> QED BY <1>1, <2>2, <2>3, <2>4
<1>7. Known' = Known
  BY <1>1 DEF Known
<1> HIDE DEF e
<1>8. CASE Fires(e)
  <2>1. /\ last'[e.galho] = e.to
        /\ \A g \in Galhos \ {e.galho} : last'[g] = last[g]
        /\ breaches' = breaches \cup BrokenBy(e)
    BY <1>1, <1>8, LogGrows DEF e
  <2>2. breaches' = {}
    BY <1>5, <1>8, <2>1 DEF CalmInv
  <2>3. e.galho \in Known /\ e.to # None
    BY <1>1, <1>5, <1>8
       DEF OutcomeEvent, TypeOK, Known, None, Phases, ForwardPhases, BackwardPhases, TerminalPhases
  <2>4. \A g \in Known : phase'[g] = Reported(g)'
    <3> SUFFICES ASSUME NEW g \in Known PROVE phase'[g] = Reported(g)'
      OBVIOUS
    <3>1. CASE g = e.galho
      BY <1>1, <1>5, <1>8, <2>1, <2>3, <3>1 DEF Reported
    <3>2. CASE g # e.galho
      BY <1>1, <1>6, <2>1, <3>2 DEF Reported, Known
    <3> QED BY <3>1, <3>2
  <2>5. \A g \in Galhos \ Known : last'[g] = None
    BY <2>1, <2>3 DEF CalmInv
  <2> QED BY <1>3, <1>4, <1>7, <2>2, <2>4, <2>5 DEF CalmInv
<1>9. CASE ~ Fires(e)
  <2>1. UNCHANGED <<last, breaches>>
    BY <1>1, <1>9, LogGrows DEF e
  <2>2. \A g \in Known : phase'[g] = Reported(g)'
    BY <1>1, <1>6, <1>9, <2>1 DEF Reported
  <2> QED BY <1>3, <1>4, <1>7, <2>1, <2>2 DEF CalmInv
<1> QED BY <1>8, <1>9

-----------------------------------------------------------------------------
(***************************************************************************)
(* The theorems.                                                           *)
(***************************************************************************)
LEMMA AuditInitial == AuditInit => AuditInv
<1> SUFFICES ASSUME AuditInit PROVE AuditInv
  OBVIOUS
<1>1. TypeOK /\ EvidenceInv
  BY TypeInit, EvidenceInit DEF AuditInit
<1>2. AuditTypes
  BY DEF AuditInit, AuditTypes
<1>3. \A t \in Tasks : outbox[t] = <<>> /\ call[t] = NoCall
  BY DEF AuditInit, Init
<1>4. \A g \in Galhos : phase[g] = "Absent" /\ flags[g] = {}
  BY DEF AuditInit, Init
<1>5. LockedInv
  BY <1>3, <1>4 DEF LockedInv, LocksAudited, AuditInit, Applying, AppliedPhases
<1>6. RecordInv
  BY <1>4 DEF RecordInv, AppliedPhases
<1>7. CalmInv
  BY <1>3, <1>4 DEF CalmInv, AuditInit, Idle, Known
<1> QED BY <1>1, <1>2, <1>5, <1>6, <1>7 DEF AuditInv

LEMMA AuditStep == AuditInv /\ [AuditNext]_<<vars, auditVars>> => AuditInv'
<1> SUFFICES ASSUME AuditInv, [AuditNext]_<<vars, auditVars>> PROVE AuditInv'
  OBVIOUS
<1> USE DEF AuditInv
<1>1. TypeOK' /\ EvidenceInv'
  <2>1. [Next]_vars
    BY DEF AuditNext, AuditedBegin, AuditedEmit, Next
  <2> QED BY <2>1, TypeNext, EvidenceNext
<1>2. ASSUME NEW t \in Tasks, AuditedBegin(t)
      PROVE  AuditInv'
  <2>1. UNCHANGED <<seen, last, breaches>> /\ Begin(t)
    BY <1>2 DEF AuditedBegin
  <2>2. ~ overlapped' => ~ overlapped /\ \A u \in Tasks \ {t} : Idle(u)
    BY <1>2 DEF AuditedBegin
  <2>3. AuditTypes'
    BY <2>1 DEF AuditTypes
  <2> QED BY <1>1, <2>1, <2>2, <2>3, LockedTask, RecordTask, CalmTask
<1>3. ASSUME NEW t \in Tasks, Quiet(t), UNCHANGED auditVars
      PROVE  AuditInv'
  <2>1. UNCHANGED <<seen, last, breaches, overlapped>>
    BY <1>3 DEF auditVars
  <2>2. ~ Idle(t)
    BY <1>3 DEF Quiet, Prepare, Advance, Idle, NoCall
  <2>3. ~ overlapped => \A u \in Tasks \ {t} : Idle(u)
    BY <2>2 DEF CalmInv
  <2>4. AuditTypes'
    BY <2>1 DEF AuditTypes
  <2> QED BY <1>1, <1>3, <2>1, <2>3, <2>4, LockedTask, RecordTask, CalmTask
<1>4. ASSUME NEW t \in Tasks, AuditedEmit(t)
      PROVE  AuditInv'
  <2>1. Emit(t) /\ Observe(Head(outbox[t])) /\ UNCHANGED overlapped
    BY <1>4 DEF AuditedEmit
  <2>2. AuditTypes'
    BY <2>1, Emitted, LogGrows
  <2> QED BY <1>1, <2>1, <2>2, LockedEmit, RecordEmit, CalmEmit
<1>5. CASE UNCHANGED <<vars, auditVars>>
  <2>1. UNCHANGED <<phase, flags, call, outbox, seen, last, breaches, overlapped>>
    BY <1>5 DEF vars, contextVars, auditVars
  <2>2. AuditTypes'
    BY <2>1 DEF AuditTypes
  <2>3. LockedInv'
    BY <2>1 DEF LockedInv, LocksAudited, Applying, Queued
  <2>4. RecordInv'
    BY <2>1 DEF RecordInv, OnRecord, Queued
  <2>5. CalmInv => CalmInv'
    <3>1. \A u \in Tasks : \A i \in 1 .. Len(outbox[u]) :
            BrokenBy(outbox[u][i])' = BrokenBy(outbox[u][i])
      BY <2>1 DEF BrokenBy
    <3>2. ASSUME CalmInv, NEW u \in Tasks, NEW i \in 1 .. Len(outbox[u]), Fires(outbox[u][i])
          PROVE  i = 1 /\ BrokenBy(outbox[u][i])' = {} /\ phase[outbox[u][i].galho] = outbox[u][i].to
      BY <3>1, <3>2 DEF CalmInv
    <3>3. (\A u \in Tasks : Idle(u)' <=> Idle(u)) /\ Known' = Known
      BY <2>1 DEF Idle, Known
    <3>4. \A g \in Galhos : Reported(g)' = Reported(g)
      BY <2>1 DEF Reported
    <3>5. Known \subseteq Galhos
      BY DEF Known
    <3> SUFFICES ASSUME CalmInv PROVE CalmInv'
      OBVIOUS
    <3>6. \A t, u \in Tasks : t # u => Idle(t)' \/ Idle(u)'
      BY <3>3 DEF CalmInv
    <3>7. \A u \in Tasks : \A i \in 1 .. Len(outbox'[u]) : Fires(outbox'[u][i]) =>
            /\ i = 1
            /\ BrokenBy(outbox[u][i])' = {}
            /\ phase'[outbox'[u][i].galho] = outbox'[u][i].to
      BY <2>1, <3>2
    <3>8. \A g \in Known' :
            \/ phase'[g] = Reported(g)'
            \/ \E u \in Tasks : \E i \in 1 .. Len(outbox'[u]) :
                 Fires(outbox'[u][i]) /\ outbox'[u][i].galho = g
      BY <2>1, <3>3, <3>4, <3>5 DEF CalmInv
    <3>9. breaches' = {} /\ \A g \in Galhos \ Known' : last'[g] = None
      BY <2>1, <3>3 DEF CalmInv
    <3> QED BY <3>6, <3>7, <3>8, <3>9 DEF CalmInv
  <2> QED BY <1>1, <2>1, <2>2, <2>3, <2>4, <2>5
<1> QED BY <1>2, <1>3, <1>4, <1>5 DEF AuditNext

LEMMA AuditCorrect == AuditSpec => []AuditInv
  BY AuditInitial, AuditStep, PTL DEF AuditSpec

\* However calls overlap, the log holds a lock event of a galho before its apply event: the
\* rule that cannot be broken by late emission.
THEOREM AppliesLockedOnRecord == AuditSpec => []LocksAudited
<1>1. AuditInv => LocksAudited
  BY DEF AuditInv, LockedInv
<1> QED BY <1>1, AuditCorrect, PTL

\* Once all calls have returned no event is missing that the phase of a galho stands for.
THEOREM RecordComplete == AuditSpec => []AuditComplete
<1>1. ASSUME AuditInv PROVE AuditComplete
  <2> SUFFICES ASSUME Quiescent, NEW g \in Galhos
               PROVE  /\ phase[g] \in AppliedPhases  => {"locked", "applied"} \subseteq seen[g]
                      /\ phase[g] \in ReviewedPhases => "approved" \in seen[g]
                      /\ phase[g] \in {"Verified", "Done", "Drifted"} => "verified" \in seen[g]
    BY DEF AuditComplete
  <2>1. \A mark : OnRecord(g, mark) => mark \in seen[g]
    BY DEF Quiescent, Idle, OnRecord, Queued
  <2>2. phase[g] \in ReviewedPhases => "has_approval_quorum" \in flags[g]
    BY <1>1 DEF AuditInv, EvidenceInv, EvidenceHeld
  <2> QED BY <1>1, <2>1, <2>2 DEF AuditInv, LockedInv, RecordInv
<1> QED BY <1>1, AuditCorrect, PTL

\* As long as no two calls overlap, no rule of the compliance baseline is ever broken.
THEOREM BaselineHolds == AuditSpec => []AuditClean
<1>1. AuditInv => AuditClean
  BY DEF AuditInv, CalmInv, AuditClean
<1> QED BY <1>1, AuditCorrect, PTL

\* And the phases can be read off the log.
THEOREM LogReplays == AuditSpec => []AuditReplays
<1>1. ASSUME AuditInv PROVE AuditReplays
  <2> SUFFICES ASSUME ~ overlapped, Quiescent, NEW g \in Known
               PROVE  phase[g] = Reported(g)
    BY DEF AuditReplays, Reported
  <2> QED BY <1>1 DEF AuditInv, CalmInv, Quiescent, Idle
<1> QED BY <1>1, AuditCorrect, PTL
=============================================================================
