------------------------ MODULE GalhoControllerProofs ------------------------
(***************************************************************************)
(* Proofs about GalhoController: the ticker is one more caller of the      *)
(* runtime, whatever it decides on a phase that is out of date by the time *)
(* it acts.                                                                *)
(***************************************************************************)
EXTENDS GalhoController, GalhoRuntimeProofs

-----------------------------------------------------------------------------
(***************************************************************************)
(* The inductive invariant.                                                *)
(***************************************************************************)
\* All the ticker ever decides on.
TickMorphisms == {"Plan", "Verify", "Resume"}

TickCall == call[Ticker] # NoCall => call[Ticker].morphism \in TickMorphisms

ControllerInv == RuntimeInv /\ TickCall /\ todo \subseteq Galhos

LEMMA DueMorphisms ==
  ASSUME NEW p
  PROVE  AutomaticMorphisms(p) \subseteq TickMorphisms
<1> SUFFICES ASSUME NEW m \in AutomaticMorphisms(p) PROVE m \in TickMorphisms
  OBVIOUS
<1>1. /\ SyncKind(p) = "Automatic" /\ p \notin TerminalPhases
      /\ m \in ForwardMorphisms(p) /\ m # "ApplyToPreview"
  BY DEF AutomaticMorphisms
<1>2. PICK q \in ForwardPhases \cup {"Done"} : Row(p, m, q)
  BY <1>1 DEF ForwardMorphisms
<1>3. p \notin {"AppliedPendingReview", "Failed", "ApprovedAwaitingMerge", "Verified", "Drifted"}
  BY <1>1 DEF SyncKind
<1> QED BY <1>1, <1>2, <1>3 DEF Row, TransitionTable, ForwardPhases, TickMorphisms

\* A row of such a morphism starts in a phase the controller may leave.
LEMMA DueRows ==
  ASSUME NEW p, NEW m \in TickMorphisms, NEW q, Row(p, m, q)
  PROVE  p \in DuePhases
  BY DEF TickMorphisms, Row, TransitionTable, DuePhases

-----------------------------------------------------------------------------
(***************************************************************************)
(* The steps.                                                              *)
(***************************************************************************)
\* The steps of a caller, of the ticker too once it has decided.
LEMMA CallerKeeps ==
  ASSUME ControllerInv, NEW t \in Tasks, UNCHANGED todo,
         (Begin(t) /\ t # Ticker) \/ Quiet(t) \/ Emit(t)
  PROVE  ControllerInv'
<1>1. RuntimeInv'
  <2>1. [Next]_vars
    BY DEF Next
  <2> QED BY <2>1, TypeNext, AcyclicNext, DepsExactNext, EvidenceNext, LockNext
          DEF ControllerInv, RuntimeInv
<1>2. TickCall'
  <2>1. CASE Emit(t)
    BY <2>1 DEF Emit, ControllerInv, TickCall
  <2>2. CASE (Begin(t) \/ Quiet(t)) /\ t # Ticker
    <3>1. call'[Ticker] = call[Ticker]
      BY <2>2, OthersKept, TickerAssumption DEF ControllerInv, RuntimeInv
    <3> QED BY <3>1 DEF ControllerInv, TickCall
  <2>3. CASE Quiet(t) /\ t = Ticker
    <3>1. call[Ticker] # NoCall
      BY <2>3 DEF Quiet, Prepare, Advance, NoCall
    <3>2. call'[Ticker] # NoCall => call'[Ticker].morphism = call[Ticker].morphism
      BY <2>3, <3>1, SMTT(30) DEF Quiet, Prepare, Advance, PrepareStep, AdvanceStep, Fired, Blocked,
                        NotFound, ControllerInv, RuntimeInv, TypeOK
    <3> QED BY <3>1, <3>2 DEF ControllerInv, TickCall
  <2> QED BY <2>1, <2>2, <2>3
<1> QED BY <1>1, <1>2 DEF ControllerInv

LEMMA ExamineKeeps ==
  ASSUME ControllerInv, NEW g \in Galhos, Examine(g)
  PROVE  ControllerInv'
<1> USE TickerAssumption DEF ControllerInv, RuntimeInv
<1>1. CASE UNCHANGED call
  BY <1>1 DEF Examine, contextVars, TypeOK, Acyclic, DepsExact, EvidenceInv, EvidenceHeld,
             EvidenceFresh, LockInv, LockFlagBacked, PreparedLockHeld, Holds, TickCall
<1>2. ASSUME ~ UNCHANGED call PROVE ControllerInv'
  <2>1. PICK m \in AutomaticMorphisms(phase[g]) :
          call' = [call EXCEPT ![Ticker] = [stage |-> FirstStage(m), galho |-> g, morphism |-> m]]
    BY <1>2 DEF Examine
  <2>2. m \in TickMorphisms /\ m \in Morphisms
    BY <2>1, DueMorphisms DEF TickMorphisms, Morphisms
  <2>3. [stage |-> FirstStage(m), galho |-> g, morphism |-> m] \in Pending
    BY <2>2 DEF Pending, FirstStage
  <2>4. TypeOK'
    BY <2>1, <2>3 DEF Examine, contextVars, TypeOK
  <2>5. Acyclic' /\ DepsExact' /\ EvidenceInv'
    BY DEF Examine, contextVars, Acyclic, DepsExact, EvidenceInv, EvidenceHeld, EvidenceFresh
  <2>6. call'[Ticker].morphism = m /\ \A t \in Tasks \ {Ticker} : call'[t] = call[t]
    BY <2>1 DEF TypeOK
  <2>7. PreparedLockHeld'
    BY <2>2, <2>6 DEF LockInv, PreparedLockHeld, Holds, Examine, TickMorphisms
  <2>8. LockInv'
    BY <2>7 DEF LockInv, LockFlagBacked, Holds, Examine, contextVars
  <2>9. TickCall' /\ todo' \subseteq Galhos
    BY <2>2, <2>6 DEF TickCall, Examine
  <2> QED BY <2>4, <2>5, <2>8, <2>9
<1> QED BY <1>1, <1>2

LEMMA ControllerInitial == ControllerInit => ControllerInv
  BY TypeInit, AcyclicInit, DepsExactInit, EvidenceInit, LockInit, TickerAssumption
     DEF ControllerInit, Init, ControllerInv, RuntimeInv, TickCall

LEMMA ControllerStep == ControllerInv /\ [ControllerNext]_controllerVars => ControllerInv'
<1> SUFFICES ASSUME ControllerInv, [ControllerNext]_controllerVars PROVE ControllerInv'
  OBVIOUS
<1>1. CASE TickStart
  BY <1>1 DEF TickStart, vars, contextVars, Known, ControllerInv, RuntimeInv, TypeOK, Acyclic,
     DepsExact, EvidenceInv, EvidenceHeld, EvidenceFresh, LockInv, LockFlagBacked,
     PreparedLockHeld, Holds, TickCall
<1>2. CASE \E g \in Galhos : Examine(g)
  BY <1>2, ExamineKeeps
<1>3. CASE (Quiet(Ticker) \/ Emit(Ticker)) /\ UNCHANGED todo
  BY <1>3, CallerKeeps, TickerAssumption
<1>4. CASE OperatorStep
  BY <1>4, CallerKeeps DEF OperatorStep, Operators
<1>5. CASE UNCHANGED controllerVars
  BY <1>5 DEF controllerVars, vars, contextVars, ControllerInv, RuntimeInv, TypeOK, Acyclic,
     DepsExact, EvidenceInv, EvidenceHeld, EvidenceFresh, LockInv, LockFlagBacked,
     PreparedLockHeld, Holds, TickCall
<1> QED BY <1>1, <1>2, <1>3, <1>4, <1>5 DEF ControllerNext, TickerStep

LEMMA ControllerCorrect == ControllerSpec => []ControllerInv
  BY ControllerInitial, ControllerStep, PTL DEF ControllerSpec

-----------------------------------------------------------------------------
(***************************************************************************)
(* The theorems.                                                           *)
(***************************************************************************)
\* Next to a controller the runtime keeps all it promises: the tick fires on a phase it read
\* before, but no flag, lock or dependency is ever taken for what it was then.
THEOREM ControllerKeepsRuntime ==
  ControllerSpec => [](/\ TypeOK /\ Acyclic /\ DepsExact /\ EvidenceHeld /\ EvidenceFresh
                       /\ LockFlagBacked /\ NoDeadEnd)
<1>1. ControllerInv => /\ TypeOK /\ Acyclic /\ DepsExact /\ EvidenceHeld /\ EvidenceFresh
                       /\ LockFlagBacked /\ NoDeadEnd
  BY WayOut DEF ControllerInv, RuntimeInv, EvidenceInv, LockInv
<1> QED BY <1>1, ControllerCorrect, PTL

LEMMA TickStep ==
  ASSUME ControllerInv, ControllerNext, TickAdvances,
         NEW g \in Galhos, phase'[g] # phase[g]
  PROVE  phase[g] \in DuePhases
<1> USE TickerAssumption DEF ControllerInv, RuntimeInv
<1>1. call[Ticker] # NoCall /\ call'[Ticker] = NoCall
  BY DEF TickAdvances
<1>2. ASSUME NEW t \in Tasks, t # Ticker, Begin(t) \/ Quiet(t) \/ Emit(t)
      PROVE  FALSE
  <2>1. Emit(t) => call' = call
    BY DEF Emit
  <2> QED BY <1>1, <1>2, <2>1, OthersKept
<1>3. ~ TickStart /\ \A h \in Galhos : ~ Examine(h)
  BY <1>1 DEF TickStart, Examine, Idle
<1>4. ~ Emit(Ticker)
  BY <1>1 DEF Emit
<1>5. Quiet(Ticker)
  BY <1>2, <1>3, <1>4 DEF ControllerNext, TickerStep, OperatorStep, Operators
<1>6. ~ Prepare(Ticker)
  BY DEF Prepare, PrepareStep
<1>7. PICK q \in Phases : Fired(Ticker, call[Ticker].galho, call[Ticker].morphism, q)
  BY <1>5, <1>6 DEF Quiet, Advance, AdvanceStep, Blocked, NotFound, contextVars
<1>8. g = call[Ticker].galho
  BY <1>7 DEF Fired, TypeOK
<1>9. Row(phase[g], call[Ticker].morphism, q) /\ call[Ticker].morphism \in TickMorphisms
  BY <1>1, <1>7, <1>8 DEF Fired, TickCall
<1> QED BY <1>9, DueRows

\* Whatever happens between the look at a phase and the call it leads to, the ticker only
\* ever moves a galho out of a phase whose sync is Automatic.
THEOREM TickNeverCrossesGates == ControllerSpec => TickKeepsGates
<1>1. ControllerInv /\ [ControllerNext]_controllerVars =>
        [TickAdvances => \A g \in Galhos :
           phase'[g] # phase[g] => phase[g] \in DuePhases]_controllerVars
  BY TickStep
<1> QED BY <1>1, ControllerCorrect, PTL DEF ControllerSpec, TickKeepsGates

\* A tick reads, and whatever it fires is a call like any other: with the controller next to
\* its operators, every behaviour is still one of the atomic lifecycle.
THEOREM ControllerImplementsLifecycle == ControllerSpec => ImplementsLifecycle
<1>1. ControllerInit => Lifecycle!Init
  BY InitMaps DEF ControllerInit
<1>2. ControllerInv /\ ControllerInv' /\ [ControllerNext]_controllerVars =>
        [Lifecycle!Next]_Lifecycle!lifecycleVars
  <2> SUFFICES ASSUME ControllerInv, ControllerInv', [ControllerNext]_controllerVars
               PROVE  [Lifecycle!Next]_Lifecycle!lifecycleVars
    OBVIOUS
  <2>1. RuntimeInv /\ Acyclic'
    BY DEF ControllerInv, RuntimeInv
  <2>2. CASE TickStart \/ \E g \in Galhos : Examine(g)
    BY <2>2, StutterMaps
       DEF TickStart, Examine, vars, contextVars, Stutter, Approved, Holders
  <2>3. CASE [Next]_vars
    BY <2>1, <2>3, StepMaps
  <2>4. \/ TickStart \/ \E g \in Galhos : Examine(g)
        \/ [Next]_vars
    BY TickerAssumption
       DEF ControllerNext, TickerStep, OperatorStep, Operators, Next, controllerVars
  <2> QED BY <2>2, <2>3, <2>4
<1> QED BY <1>1, <1>2, ControllerCorrect, PTL DEF ControllerSpec, ImplementsLifecycle, Lifecycle!Spec
=============================================================================
