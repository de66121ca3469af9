---------------------------- MODULE GalhoRuntime ----------------------------
(***************************************************************************)
(* The Runtime of galho-cli: an in-memory map of galho contexts and a map  *)
(* of stack locks, each behind its own RwLock, shared by concurrent        *)
(* callers (operator commands, webhook deliveries, a controller).          *)
(*                                                                         *)
(* A call is not atomic.  fire_morphism takes the locks map, then the      *)
(* contexts map to raise a flag, then the contexts map again to check the  *)
(* preconditions and move the phase, and emits its audit events only after *)
(* it let go of the lock.  deliver_signal reads the phase, lets go, and    *)
(* then fires.  Each critical section is one action; between two of them   *)
(* any other caller may run.                                               *)
(***************************************************************************)
EXTENDS GalhoPhases, Sequences, FiniteSets

CONSTANTS
  Galhos,     \* the names callers may use
  Roots,      \* the stack roots passed as --stack-root
  Tasks,      \* the concurrent callers of one Runtime
  Calls,      \* the morphisms the callers of this instance fire
  AnyPhase    \* may a caller fire a morphism in a phase that has no row for it?

ASSUME CallsAssumption == Calls \subseteq Morphisms
ASSUME NamesAssumption == IsFiniteSet(Galhos)

VARIABLES
  phase,          \* per name: the phase of its context, "Absent" before creation
  flags,          \* per name: the evidence flags its context has raised
  confirmations,  \* per name: the <<phase, role>> pairs that have signed off
  dependsOn,      \* per name: the declared dependencies
  depsSatisfied,  \* per name: the dependencies last observed as done enough
  locks,          \* per stack root: the holders; no entry is the empty set
  call,           \* per task: the fire_morphism in progress
  outbox          \* per task: the events it has yet to emit

contextVars == <<phase, flags, confirmations, dependsOn, depsSatisfied>>
vars        == <<contextVars, locks, call, outbox>>

-----------------------------------------------------------------------------
(***************************************************************************)
(* Data.                                                                   *)
(***************************************************************************)
None == "None"

Roles == UNION { ApprovalRoles(p) : p \in Phases }

EventKinds == {"GalhoCreated", "GalhoDestroyed", "MorphismFired", "MorphismBlocked",
               "SyncConfirmed", "StackLockAcquired", "StackLockJoined"}

\* kind, galho, morphism and to-phase of an audit event; time, actor and notes are left out.
OutcomeEvent == [kind : EventKinds, galho : Galhos, morphism : Morphisms \cup {None},
                 to : Phases \cup {None}]

Event(k, g)        == [kind |-> k, galho |-> g, morphism |-> None, to |-> None]

\* Faulty variant: the event reports the phase the galho was in.
FiredEventStale(g, m, q) ==
  [kind |-> "MorphismFired", galho |-> g, morphism |-> m, to |-> phase[g]]

FiredEvent(g, m, q) == [kind |-> "MorphismFired", galho |-> g, morphism |-> m, to |-> q]

\* A fire_morphism call between two critical sections: about to raise the flags
\* its preconditions need ("prepare"), or about to check and advance ("advance").
Pending == [stage : {"prepare", "advance"}, galho : Galhos, morphism : Morphisms]
NoCall  == [stage |-> "idle"]

Known   == { g \in Galhos : phase[g] # "Absent" }
Idle(t) == call[t] = NoCall /\ outbox[t] = <<>>

\* Faulty variant: acquire builds the lock without its first holder.
JoinedLosing(r, g) == IF locks[r] = {} THEN {} ELSE locks[r] \cup {g}

\* StackLock::acquire or StackLock::join: g is added to the holders of root r.
Joined(r, g) == locks[r] \cup {g}

\* The critical section a call of fire_morphism starts with.
FirstStage(m) == IF PreGranted(m) = {} THEN "advance" ELSE "prepare"

\* Callers of the instance fire m at g.
May(g, m) == m \in Calls /\ (AnyPhase \/ Offers(phase[g], m))

-----------------------------------------------------------------------------
(***************************************************************************)
(* Dependencies.                                                           *)
(***************************************************************************)

\* Faulty variant: the search stops one dependency below the new ones.
WouldCycleShallow(n, D) == n \in D \cup UNION { dependsOn[d] : d \in D }

\* detect_dep_cycle: the search from the new dependencies D through the declared
\* ones reaches the new name n, that is, n is in every set that holds D and is
\* closed under dependsOn.  A name with no context has no dependencies to follow.
WouldCycle(n, D) ==
  \A R \in SUBSET Galhos :
    (D \subseteq R /\ \A g \in R : dependsOn[g] \subseteq R) => n \in R

\* Faulty variant: deps_satisfied is not cleared before it is filled.
PropagatedKeeping(ph, deps) ==
  [g \in Galhos |-> depsSatisfied[g] \cup { d \in deps[g] : ph[d] \in DoneEnough }]

\* Faulty variant: filled from every context instead of the declared dependencies.
PropagatedUndeclared(ph, deps) ==
  [g \in Galhos |-> { d \in Galhos : ph[d] \in DoneEnough }]

\* Faulty variant: filled before the phase moves.
PropagatedEarly(ph, deps) ==
  [g \in Galhos |-> { d \in deps[g] : phase[d] \in DoneEnough }]

\* propagate_dep_satisfaction: every context's satisfied set, recomputed from the
\* phases ph and the declared dependencies deps.
Propagated(ph, deps) ==
  [g \in Galhos |-> { d \in deps[g] : ph[d] \in DoneEnough }]

-----------------------------------------------------------------------------
(***************************************************************************)
(* Operations that are one critical section: creation and approval.        *)
(***************************************************************************)

\* new_galho_with_deps.
Create(t, g, D) ==
  /\ Idle(t)
  /\ phase[g] = "Absent"
  /\ ~ WouldCycle(g, D)
  /\ phase' = [phase EXCEPT ![g] = "Declared"]
  /\ dependsOn' = [dependsOn EXCEPT ![g] = D]
  /\ depsSatisfied' = Propagated(phase', dependsOn')
  /\ outbox' = [outbox EXCEPT ![t] = <<Event("GalhoCreated", g)>>]
  /\ UNCHANGED <<flags, confirmations, locks, call>>

\* confirm_approval: a role the sync of the current phase allows signs off.
ConfirmApproval(t, g, role) ==
  /\ Idle(t)
  /\ SyncKind(phase[g]) = "OperatorApproval"
  /\ role \in ApprovalRoles(phase[g])
  /\ confirmations' = [confirmations EXCEPT ![g] = @ \cup {<<phase[g], role>>}]
  /\ LET count == Cardinality({ c \in confirmations'[g] : c[1] = phase[g] })
     IN  flags' = [flags EXCEPT ![g] = IF count >= ApprovalQuorum
                                       THEN @ \cup {"has_approval_quorum"} ELSE @]
  /\ outbox' = [outbox EXCEPT ![t] = <<Event("SyncConfirmed", g)>>]
  /\ UNCHANGED <<phase, dependsOn, depsSatisfied, locks, call>>

-----------------------------------------------------------------------------
(***************************************************************************)
(* The critical sections of fire_morphism.                                 *)
(***************************************************************************)

\* join_or_acquire_lock, the start of an apply: it asks nothing of the context and
\* runs even for a name that has none.
JoinOrAcquireLock(t, g, r) ==
  /\ Idle(t)
  /\ May(g, "ApplyToPreview")
  /\ locks' = [locks EXCEPT ![r] = Joined(r, g)]
  /\ outbox' = [outbox EXCEPT ![t] =
       <<Event(IF locks[r] = {} THEN "StackLockAcquired" ELSE "StackLockJoined", g)>>]
  /\ call' = [call EXCEPT ![t] =
       [stage |-> "prepare", galho |-> g, morphism |-> "ApplyToPreview"]]
  /\ UNCHANGED contextVars

\* Raise the flag the preconditions of m will look at, if the galho exists.
PrepareStep(t, g, m) ==
  /\ flags' = IF g \in Known THEN [flags EXCEPT ![g] = @ \cup PreGranted(m)] ELSE flags
  /\ call' = [call EXCEPT ![t] = [stage |-> "advance", galho |-> g, morphism |-> m]]
  /\ UNCHANGED <<phase, confirmations, dependsOn, depsSatisfied, locks, outbox>>

\* kb.advance let m through: move the phase, keep the flags in step, recompute
\* every dependent's satisfied set.
Fired(t, g, m, q) ==
  /\ Permits(m, phase[g], flags[g], dependsOn[g], depsSatisfied[g])
  /\ Row(phase[g], m, q)
  /\ phase' = [phase EXCEPT ![g] = q]
  /\ flags' = [flags EXCEPT ![g] = FlagsAfter(m, q, @)]
  /\ depsSatisfied' = Propagated(phase', dependsOn)
  /\ outbox' = [outbox EXCEPT ![t] =
       IF q = "Destroyed" THEN <<FiredEvent(g, m, q), Event("GalhoDestroyed", g)>>
                          ELSE <<FiredEvent(g, m, q)>>]
  /\ call' = [call EXCEPT ![t] = NoCall]
  /\ UNCHANGED <<confirmations, dependsOn, locks>>

\* An unmet precondition, or a permitted move the table has no row for.
Blocked(t, g, m) ==
  /\ g \in Known
  /\ ~ ( /\ Permits(m, phase[g], flags[g], dependsOn[g], depsSatisfied[g])
         /\ Offers(phase[g], m) )
  /\ outbox' = [outbox EXCEPT ![t] = <<Event("MorphismBlocked", g)>>]
  /\ call' = [call EXCEPT ![t] = NoCall]
  /\ UNCHANGED <<contextVars, locks>>

\* The name has no context.
NotFound(t, g) ==
  /\ g \notin Known
  /\ call' = [call EXCEPT ![t] = NoCall]
  /\ UNCHANGED <<contextVars, locks, outbox>>

AdvanceStep(t, g, m) ==
  \/ \E q \in Phases : Fired(t, g, m, q)
  \/ Blocked(t, g, m)
  \/ NotFound(t, g)

\* A call whose first critical section is the one that raises the flag, or the one
\* that advances.
FirePrepared(t, g, m) ==
  /\ Idle(t)
  /\ m # "ApplyToPreview" /\ FirstStage(m) = "prepare"
  /\ May(g, m)
  /\ PrepareStep(t, g, m)

FireDirect(t, g, m) ==
  /\ Idle(t)
  /\ FirstStage(m) = "advance"
  /\ May(g, m)
  /\ AdvanceStep(t, g, m)

\* deliver_signal: the signal matches the sync of the phase it reads; the forward
\* morphism it picks is fired later, whatever the phase is by then.
DeliverSignal(t, g) ==
  /\ Idle(t)
  /\ SyncKind(phase[g]) = "ExternalSignal"
  /\ \E m \in ForwardMorphisms(phase[g]) :
       call' = [call EXCEPT ![t] = [stage |-> FirstStage(m), galho |-> g, morphism |-> m]]
  /\ outbox' = [outbox EXCEPT ![t] = <<Event("SyncConfirmed", g)>>]
  /\ UNCHANGED <<contextVars, locks>>

-----------------------------------------------------------------------------
(***************************************************************************)
(* The continuation of a call: emit what is due, then the next section.    *)
(***************************************************************************)

\* observe: hand the oldest event to the emitter.  No lock is held.
Emit(t) ==
  /\ outbox[t] # <<>>
  /\ outbox' = [outbox EXCEPT ![t] = Tail(@)]
  /\ UNCHANGED <<contextVars, locks, call>>

Prepare(t) ==
  /\ outbox[t] = <<>> /\ call[t].stage = "prepare"
  /\ PrepareStep(t, call[t].galho, call[t].morphism)

Advance(t) ==
  /\ outbox[t] = <<>> /\ call[t].stage = "advance"
  /\ AdvanceStep(t, call[t].galho, call[t].morphism)

-----------------------------------------------------------------------------
Init ==
  /\ phase         = [g \in Galhos |-> "Absent"]
  /\ flags         = [g \in Galhos |-> {}]
  /\ confirmations = [g \in Galhos |-> {}]
  /\ dependsOn     = [g \in Galhos |-> {}]
  /\ depsSatisfied = [g \in Galhos |-> {}]
  /\ locks         = [r \in Roots |-> {}]
  /\ call          = [t \in Tasks |-> NoCall]
  /\ outbox        = [t \in Tasks |-> <<>>]

Begin(t) ==
  \E g \in Galhos :
    \/ \E D \in SUBSET Galhos : Create(t, g, D)
    \/ \E role \in ApprovalRoles(phase[g]) : ConfirmApproval(t, g, role)
    \/ \E r \in Roots : JoinOrAcquireLock(t, g, r)
    \/ \E m \in Morphisms : FirePrepared(t, g, m) \/ FireDirect(t, g, m)
    \/ DeliverSignal(t, g)

Quiet(t) == Prepare(t) \/ Advance(t)

Next == \E t \in Tasks : Begin(t) \/ Quiet(t) \/ Emit(t)

Spec == Init /\ [][Next]_vars

-----------------------------------------------------------------------------
(***************************************************************************)
(* Properties.                                                             *)
(***************************************************************************)

\* The type invariant.  A satisfied dependency is always a declared one.
TypeOK ==
  /\ phase         \in [Galhos -> Phases \cup {"Absent"}]
  /\ flags         \in [Galhos -> SUBSET Flags]
  /\ confirmations \in [Galhos -> SUBSET (Phases \X Roles)]
  /\ dependsOn     \in [Galhos -> SUBSET Galhos]
  /\ depsSatisfied \in [Galhos -> SUBSET Galhos]
  /\ \A g \in Galhos : depsSatisfied[g] \subseteq dependsOn[g]
  /\ locks         \in [Roots -> SUBSET Galhos]
  /\ call          \in [Tasks -> Pending \cup {NoCall}]
  /\ outbox        \in [Tasks -> Seq(OutcomeEvent)]

\* The declared dependencies never form a cycle, whatever the order in which the
\* galhos are created and however many of the names they depend on do not exist yet:
\* no set of galhos has a dependency inside itself at each of its members.
Acyclic ==
  \A S \in (SUBSET Galhos) \ {{}} : \E g \in S : dependsOn[g] \cap S = {}

\* deps_satisfied is never stale: between any two critical sections it is what the
\* phases of that very moment say, also after a dependency drifted, was recovered or
\* was created after its dependent.
DepsExact ==
  \A g \in Galhos : \A d \in dependsOn[g] :
    d \in depsSatisfied[g] <=> phase[d] \in {"Verified", "Done"}

\* A galho keeps the evidence its phase stands for, whatever calls overlap: from the
\* apply on it has its plan, its apply receipt and its claim on the stack lock, a
\* rolled back one can still be resumed from its plan, and past the review it has its
\* approval quorum.
EvidenceHeld ==
  \A g \in Galhos :
    /\ phase[g] \in PlannedPhases  => "has_plan" \in flags[g]
    /\ phase[g] \in AppliedPhases  =>
         {"has_apply_receipt", "stack_lock_held"} \subseteq flags[g]
    /\ phase[g] \in ReviewedPhases => "has_approval_quorum" \in flags[g]

\* No evidence outlives its cycle: a galho that is about to be planned or applied
\* again carries neither the receipt nor the approval of an earlier apply, so that
\* every apply needs a review of its own.
EvidenceFresh ==
  \A g \in Galhos :
    /\ phase[g] \notin PlannedPhases => "has_plan" \notin flags[g]
    /\ phase[g] \notin AppliedPhases =>
         {"has_apply_receipt", "has_approval_quorum"} \cap flags[g] = {}

\* The stack_lock_held flag of a context is never a lie: the galho is among the
\* holders of some stack root, although the flag is raised, and lowered by a rollback,
\* in critical sections of its own.
LockFlagBacked ==
  \A g \in Galhos : "stack_lock_held" \in flags[g] => \E r \in Roots : g \in locks[r]

\* No galho is cornered: out of every phase that is not terminal some morphism other
\* than giving up is permitted at once (given the flag fire_morphism raises by itself):
\* a forward one, the rollback of an apply, or a resume from the plan that is still there.
NoDeadEnd ==
  \A g \in Known :
    phase[g] \in TerminalPhases \/
    \E m \in Morphisms \ {"Abandon", "Escalate", "Promote"} :
      /\ Offers(phase[g], m)
      /\ Permits(m, phase[g], flags[g] \cup PreGranted(m),
                 dependsOn[g], depsSatisfied[g])

\* A galho is merged only while each of its dependencies is verified or done at that
\* very step, and not merely was when the call began.
PromoteRespectsDeps ==
  [][\A g \in Galhos :
       phase[g] # "Merged" /\ phase'[g] = "Merged" =>
         \A d \in dependsOn[g] : phase[d] \in {"Verified", "Done"}]_vars

\* The runtime implements the atomic lifecycle: seen through its approved galhos and
\* its lock holders, every interleaving of critical sections is a run of GalhoLifecycle.
Lifecycle ==
  INSTANCE GalhoLifecycle WITH
    approved <- { g \in Galhos : "has_approval_quorum" \in flags[g] },
    holders  <- { g \in Galhos : \E r \in Roots : g \in locks[r] }

ImplementsLifecycle == Lifecycle!Spec
=============================================================================
