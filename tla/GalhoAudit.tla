----------------------------- MODULE GalhoAudit -----------------------------
(***************************************************************************)
(* A Runtime together with its audit log and the compliance verifier that  *)
(* reads it.  The verifier folds the log event by event, so its passes are *)
(* kept as a running state next to the runtime: what each rule has seen of *)
(* a galho, the last phase the log gives it, and the rules broken so far.  *)
(*                                                                         *)
(* The log is the order in which events reach the emitter, which is not    *)
(* the order of the state changes they report: a task emits after it let   *)
(* go of the contexts map.                                                 *)
(***************************************************************************)
EXTENDS GalhoRuntime

VARIABLES
  seen,      \* per name: the marks the rules keep of the events logged so far
  last,      \* per name: the to-phase of its last MorphismFired event
  breaches,  \* the rules some logged event has violated
  overlapped \* history: two calls have been in progress at once

auditVars == <<seen, last, breaches, overlapped>>

Marks == {"approved", "locked", "applied", "verified"}

\* The ordering rules: an event of the morphism needs an earlier event of the mark.
Ordering ==
  [ PromoteRequiresPriorApproval |-> [morphism |-> "Promote",        mark |-> "approved"],
    VerifyRequiresPriorApply     |-> [morphism |-> "Verify",         mark |-> "applied"],
    DoneRequiresVerified         |-> [morphism |-> "SealDone",       mark |-> "verified"],
    RevertRequiresPriorApply     |-> [morphism |-> "RevertApply",    mark |-> "applied"],
    ApplyRequiresStackLock       |-> [morphism |-> "ApplyToPreview", mark |-> "locked"] ]

Rules == DOMAIN Ordering \cup {"NoPhaseStutter"}

\* Faulty variant: a lock that is acquired afresh does not count, only one that is joined.
MarksOfJoined(e) ==
  CASE e.kind = "SyncConfirmed"                                  -> {"approved"}
    [] e.kind = "StackLockJoined"                                -> {"locked"}
    [] e.kind = "MorphismFired" /\ e.morphism = "ApplyToPreview" -> {"applied"}
    [] e.kind = "MorphismFired" /\ e.morphism = "Verify"         -> {"verified"}
    [] OTHER                                                     -> {}

\* The mark an event leaves with the rules that look for it.
MarksOf(e) ==
  CASE e.kind = "SyncConfirmed"                              -> {"approved"}
    [] e.kind \in {"StackLockAcquired", "StackLockJoined"}   -> {"locked"}
    [] e.kind = "MorphismFired" /\ e.morphism = "ApplyToPreview" -> {"applied"}
    [] e.kind = "MorphismFired" /\ e.morphism = "Verify"         -> {"verified"}
    [] OTHER                                                 -> {}

\* The rules a MorphismFired event breaks, given what was logged before it.
BrokenBy(e) ==
  { r \in DOMAIN Ordering : /\ Ordering[r].morphism = e.morphism
                            /\ Ordering[r].mark \notin seen[e.galho] }
    \cup (IF last[e.galho] = e.to THEN {"NoPhaseStutter"} ELSE {})

Observe(e) ==
  /\ seen' = [seen EXCEPT ![e.galho] = @ \cup MarksOf(e)]
  /\ IF e.kind = "MorphismFired"
     THEN /\ last' = [last EXCEPT ![e.galho] = e.to]
          /\ breaches' = breaches \cup BrokenBy(e)
     ELSE UNCHANGED <<last, breaches>>

AuditedEmit(t) == Emit(t) /\ Observe(Head(outbox[t])) /\ UNCHANGED overlapped

AuditInit ==
  /\ Init
  /\ seen = [g \in Galhos |-> {}]
  /\ last = [g \in Galhos |-> None]
  /\ breaches = {}
  /\ overlapped = FALSE

AuditedBegin(t) ==
  /\ Begin(t)
  /\ overlapped' = (overlapped \/ \E u \in Tasks \ {t} : ~ Idle(u))
  /\ UNCHANGED <<seen, last, breaches>>

AuditNext ==
  \E t \in Tasks :
    \/ AuditedBegin(t)
    \/ Quiet(t) /\ UNCHANGED auditVars
    \/ AuditedEmit(t)

AuditSpec == AuditInit /\ [][AuditNext]_<<vars, auditVars>>

-----------------------------------------------------------------------------
(***************************************************************************)
(* Properties.                                                             *)
(***************************************************************************)

Quiescent == \A t \in Tasks : Idle(t)

\* The compliance baseline holds of the log, at every moment, as long as every caller
\* has waited for the calls of the others: no sequence of calls makes the verifier
\* report a breach.
AuditClean == ~ overlapped => breaches = {}

\* The log can then be replayed as well: between two calls the last fired event of each
\* galho names the phase its context is in.
AuditReplays ==
  ~ overlapped /\ Quiescent => \A g \in Known :
    phase[g] = IF last[g] = None THEN "Declared" ELSE last[g]

\* The lock events are never late: they are logged before the apply they permit gets
\* to its critical section, so ApplyRequiresStackLock holds for overlapping callers too.
LocksAudited == "ApplyRequiresStackLock" \notin breaches

\* Overlapping callers may log late but never lose an event: once every call has
\* returned, what the phase of a galho stands for has its events in the log.
AuditComplete ==
  Quiescent => \A g \in Galhos :
    /\ phase[g] \in AppliedPhases  => {"locked", "applied"} \subseteq seen[g]
    /\ phase[g] \in ReviewedPhases => "approved" \in seen[g]
    /\ phase[g] \in {"Verified", "Done", "Drifted"} => "verified" \in seen[g]
=============================================================================
