--------------------------- MODULE GalhoController ---------------------------
(***************************************************************************)
(* The GalhoController over a shared Runtime.  Its tick takes a snapshot   *)
(* of the names and goes through them one at a time: it reads the phase of *)
(* a galho, lets go of the lock, and fires the forward morphism it chose   *)
(* whatever has happened in between.  Operators and webhooks are the other *)
(* tasks of the runtime.                                                   *)
(***************************************************************************)
EXTENDS GalhoRuntime

CONSTANT Ticker    \* the task that runs tick, over and over

ASSUME TickerAssumption == Ticker \in Tasks

VARIABLE todo      \* the names of the snapshot the tick has yet to examine

controllerVars == <<vars, todo>>

Operators == Tasks \ {Ticker}

\* Faulty variant: the sync of the phase is not looked at.
AutomaticMorphismsUngated(p) == ForwardMorphisms(p) \ {"ApplyToPreview"}

\* Faulty variant: only phases on the forward arc are taken care of.
AutomaticMorphismsForward(p) ==
  IF SyncKind(p) = "Automatic" /\ p \in ForwardPhases
  THEN ForwardMorphisms(p) \ {"ApplyToPreview"} ELSE {}

\* What tick fires at a galho it finds in phase p: the forward morphism, if the sync of
\* the phase is Automatic and the phase not terminal.  It fires with no stack root, so
\* that an apply is refused before it touches anything.
AutomaticMorphisms(p) ==
  IF SyncKind(p) = "Automatic" /\ p \notin TerminalPhases
  THEN ForwardMorphisms(p) \ {"ApplyToPreview"} ELSE {}

\* tick: list_galhos.
TickStart ==
  /\ Idle(Ticker) /\ todo = {}
  /\ todo' = Known
  /\ UNCHANGED vars

\* tick: status of the next name, then the call it decides on, if any.
Examine(g) ==
  /\ Idle(Ticker)
  /\ g \in todo
  /\ todo' = todo \ {g}
  /\ LET due == AutomaticMorphisms(phase[g])
     IN  IF due = {} THEN UNCHANGED call
         ELSE \E m \in due : call' = [call EXCEPT ![Ticker] =
                [stage |-> FirstStage(m), galho |-> g, morphism |-> m]]
  /\ UNCHANGED <<contextVars, locks, outbox>>

TickerStep ==
  \/ TickStart
  \/ \E g \in Galhos : Examine(g)
  \/ (Quiet(Ticker) \/ Emit(Ticker)) /\ UNCHANGED todo

OperatorStep ==
  \E t \in Operators : (Begin(t) \/ Quiet(t) \/ Emit(t)) /\ UNCHANGED todo

ControllerInit == Init /\ todo = {}
ControllerNext == TickerStep \/ OperatorStep

\* The loop that calls tick never stops, and no operator is under any obligation.
ControllerSpec ==
  /\ ControllerInit
  /\ [][ControllerNext]_controllerVars
  /\ WF_controllerVars(TickerStep)

-----------------------------------------------------------------------------
(***************************************************************************)
(* Properties.                                                             *)
(***************************************************************************)

\* A critical section of the tick's call that ends it.
TickAdvances == call[Ticker] # NoCall /\ call'[Ticker] = NoCall

\* The phases the controller can and may leave by itself.
DuePhases == {"Declared", "Merged", "RolledBack"}

\* A tick never carries a galho over a gate that is not its own, although it acts on a
\* phase it read before: whatever it moves leaves a phase whose sync is Automatic.
TickKeepsGates ==
  [][TickAdvances => \A g \in Galhos :
       phase'[g] # phase[g] => phase[g] \in DuePhases]_controllerVars

\* The controller drives what is its to drive: no galho stays where the tick has
\* something to fire, even if operators keep firing at it.
AutomaticPhasesLeft ==
  \A g \in Galhos : phase[g] \in DuePhases ~> phase[g] \notin DuePhases
=============================================================================
