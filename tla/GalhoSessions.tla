---------------------------- MODULE GalhoSessions ----------------------------
(***************************************************************************)
(* CLI sessions over one store.  A session restores the audit chain and    *)
(* then, ref by ref, a runtime; it runs one command on it in memory, whose *)
(* events go to the chain at once; and it checkpoints every context and    *)
(* every stack lock, again ref by ref.  Several sessions may be open at    *)
(* once, and each may die or meet an I/O error in any call of the store.   *)
(* If that happens in the compare-and-set of a ref, the lock file of the   *)
(* ref stays, and no later session can change the ref.                     *)
(*                                                                         *)
(* A store and a runtime's memory are both a world: a context for every    *)
(* galho, a holder set for every stack root, or Missing.                   *)
(***************************************************************************)
EXTENDS GalhoPhases, Sequences

CONSTANTS
  Galhos,       \* names of galhos
  Roots,        \* stack roots
  Sessions,     \* the sessions that may be open at once
  SaveOrder,    \* the galhos and then the roots, in the order of the runtime's maps
  Commands,     \* the morphisms the sessions of the instance fire
  Starts,       \* the worlds a behaviour may start from
  MaxSessions,  \* bound: sessions opened in a behaviour
  MaxFailures,  \* bound: deaths and I/O errors in a behaviour
  Chain,        \* the head ref of the audit chain
  Missing,      \* no context, no lock
  Closed        \* what a slot holds between two sessions

Names == Galhos \cup Roots

\* A checkpoint leaves no name out, and saves every context before the first lock.
ASSUME NamesAssumption ==
  /\ Galhos \cap Roots = {} /\ Missing \notin Names /\ Chain \notin Names
  /\ SaveOrder \in Seq(Names) /\ { SaveOrder[i] : i \in DOMAIN SaveOrder } = Names
  /\ \A i, j \in DOMAIN SaveOrder : SaveOrder[i] \in Galhos /\ SaveOrder[j] \in Roots => i < j
ASSUME SessionsAssumption == MaxSessions \in Nat /\ MaxFailures \in Nat

VARIABLES
  store,       \* the world the refs of the store stand for
  session,     \* per slot: the open session or Closed
  logged,      \* per galho: the phase of the last event that moved it in the chain
  locked,      \* the refs whose lock file somebody has left behind
  opened,      \* how many sessions were opened so far
  overlapped,  \* history: were two sessions ever open at once?
  failures,    \* how many sessions died, or met an I/O error, so far
  unlogged     \* history: the galhos whose last move the chain has refused

sessionVars == <<store, session, logged, locked, opened, overlapped, failures, unlogged>>

Context == [phase : Phases, flags : SUBSET Flags,
            depends_on : SUBSET Galhos, deps_satisfied : SUBSET Galhos]
Stored  == Context \cup (SUBSET Galhos) \cup {Missing}
Event   == [galho : Galhos, phase : Phases \cup {Missing}]

\* An open session: how far it has come, and what it holds in memory.
OpenSession ==
  [stage : {"list", "read", "log", "save", "cas"}, stale : BOOLEAN,
   mem : [Names -> Stored], todo : SUBSET Names, events : Seq(Event), ok : BOOLEAN,
   position : 1 .. Len(SaveOrder) + 1, current : Stored]

ASSUME NothingAssumption ==
  /\ Missing \notin Context \cup Phases /\ \A S \in SUBSET Galhos : Missing # S
  /\ Closed \notin OpenSession

Nothing == [x \in Names |-> Missing]

Exists(w, g)  == w[g] # Missing
PhaseIn(w, g) == IF Exists(w, g) THEN w[g].phase ELSE "Absent"
Holders(w, r) == IF w[r] = Missing THEN {} ELSE w[r]

-----------------------------------------------------------------------------
(***************************************************************************)
(* Commands, as functions on a world.  Each returns the world it leaves,   *)
(* the events it emits and whether the command succeeds.                   *)
(***************************************************************************)

\* An event that leaves the phase alone, and one that gives it.
Note(g) == [galho |-> g, phase |-> Missing]

\* Faulty variant: the event of a move does not say where it led.
MoveUnnamed(g, p) == Note(g)

Move(g, p) == [galho |-> g, phase |-> p]

Failure(w, events) == [world |-> w, events |-> events, ok |-> FALSE]
Success(w, events) == [world |-> w, events |-> events, ok |-> TRUE]

\* Faulty variant: satisfied dependencies are left as they were.
RefreshedNever(w) == w

\* propagate_dep_satisfaction.
Refreshed(w) ==
  [x \in Names |->
     IF x \in Galhos /\ w[x] # Missing
     THEN [w[x] EXCEPT !.deps_satisfied =
             { d \in w[x].depends_on : PhaseIn(w, d) \in DoneEnough }]
     ELSE w[x]]

DependsOnIn(w, g) == IF Exists(w, g) THEN w[g].depends_on ELSE {}

Reaches(w, D, g) ==
  \A R \in SUBSET Galhos :
    (D \subseteq R /\ \A d \in R : DependsOnIn(w, d) \subseteq R) => g \in R

\* galho new --depends-on D
New(w, g, D) ==
  IF Exists(w, g) \/ Reaches(w, D, g) THEN Failure(w, <<>>)
  ELSE Success(Refreshed([w EXCEPT ![g] =
                 [phase |-> "Declared", flags |-> {}, depends_on |-> D, deps_satisfied |-> {}]]),
               <<Move(g, "Declared")>>)

\* galho confirm, with a role the sync allows: one confirmation is a quorum.
Confirm(w, g) ==
  IF SyncKind(PhaseIn(w, g)) # "OperatorApproval" THEN Failure(w, <<>>)
  ELSE Success([w EXCEPT ![g].flags = @ \cup {"has_approval_quorum"}], <<Note(g)>>)

\* The next phase kb.advance gives, or Missing.
NextPhase(c, m) ==
  IF \E q \in Phases : /\ Row(c.phase, m, q)
                       /\ Permits(m, c.phase, c.flags \cup PreGranted(m),
                                  c.depends_on, c.deps_satisfied)
  THEN CHOOSE q \in Phases : Row(c.phase, m, q) ELSE Missing

\* fire_morphism once the stack lock has been seen to; events are those already emitted.
FireOn(w, g, m, events) ==
  IF ~ Exists(w, g) THEN Failure(w, events)
  ELSE LET q == NextPhase(w[g], m)
       IN  IF q = Missing THEN Failure(w, events \o <<Note(g)>>)
           ELSE Success(Refreshed([w EXCEPT ![g].phase = q,
                                            ![g].flags = FlagsAfter(m, q, @ \cup PreGranted(m))]),
                        events \o <<Move(g, q)>>)

\* Faulty variant: a lock is acquired without its first holder.
JoinedEmpty(w, g, r) == IF w[r] = Missing THEN {} ELSE w[r] \cup {g}

Joined(w, g, r) == Holders(w, r) \cup {g}

\* galho apply --stack-root r: the galho joins the lock whatever comes of the apply.
Apply(w, g, r) ==
  FireOn([w EXCEPT ![r] = Joined(w, g, r)], g, "ApplyToPreview", <<Note(g)>>)

Fire(w, g, m) == FireOn(w, g, m, <<>>)

\* Everything one session may make of the world it has restored; status, list, deps,
\* gate, graph and checkpoint leave it alone.
Outcomes(w) ==
  {Success(w, <<>>)}
  \cup { New(w, g, D)   : g \in Galhos, D \in SUBSET Galhos }
  \cup { Confirm(w, g)  : g \in Galhos }
  \cup { Apply(w, g, r) : g \in Galhos, r \in {s \in Roots : "ApplyToPreview" \in Commands} }
  \cup { Fire(w, g, m)  : g \in Galhos, m \in Commands \ {"ApplyToPreview"} }

-----------------------------------------------------------------------------
(***************************************************************************)
(* A session.                                                              *)
(***************************************************************************)
Open(s) == session[s] # Closed

At(s, stage) == Open(s) /\ session[s].stage = stage

Become(s, rec) == session' = [session EXCEPT ![s] = rec]

Fail == failures < MaxFailures /\ failures' = failures + 1

\* make_runtime begins: OutcomeChain::restore reads the head.
OpenChain(s) ==
  /\ ~ Open(s) /\ opened < MaxSessions
  /\ opened' = opened + 1
  /\ overlapped' = (overlapped \/ \E o \in Sessions : Open(o))
  /\ Become(s, [stage |-> "list", stale |-> FALSE, mem |-> Nothing, todo |-> {},
                events |-> <<>>, ok |-> TRUE, position |-> 1, current |-> Missing])
  /\ UNCHANGED <<store, logged, locked, failures, unlogged>>

\* restore_from: list the refs, then read them one by one.
ListRefs(s) ==
  /\ At(s, "list")
  /\ Become(s, [session[s] EXCEPT !.stage = "read", !.todo = { x \in Names : store[x] # Missing }])
  /\ UNCHANGED <<store, logged, locked, opened, overlapped, failures, unlogged>>

\* Faulty variant: a restored context comes without its evidence.
RestoredBare(x) == IF x \in Galhos THEN [store[x] EXCEPT !.flags = {}] ELSE store[x]

\* read_ref and get_object: objects are never changed, so that the two are one step.
Restored(x) == store[x]

ReadRef(s) ==
  /\ At(s, "read")
  /\ \E x \in session[s].todo :
       Become(s, [session[s] EXCEPT !.mem[x] = Restored(x), !.todo = @ \ {x}])
  /\ UNCHANGED <<store, logged, locked, opened, overlapped, failures, unlogged>>

\* The command runs in memory; nobody else sees it.
Run(s) ==
  /\ At(s, "read") /\ session[s].todo = {}
  /\ \E o \in Outcomes(session[s].mem) :
       Become(s, [session[s] EXCEPT !.stage = "log", !.mem = o.world,
                                    !.events = o.events, !.ok = o.ok])
  /\ UNCHANGED <<store, logged, locked, opened, overlapped, failures, unlogged>>

\* s has an event to append to the chain, with the compare-and-set of the chain's head.
Logging(s) == At(s, "log") /\ session[s].events # <<>>

Due(s)  == Head(session[s].events)
Onward(s) == [session[s] EXCEPT !.events = Tail(@)]

\* The event is in the chain, and every other session's idea of the head is out of date.
Appended(s) ==
  /\ ~ session[s].stale /\ Chain \notin locked
  /\ session' = [o \in Sessions |->
       IF o = s THEN Onward(s)
       ELSE IF Open(o) THEN [session[o] EXCEPT !.stale = TRUE] ELSE session[o]]
  /\ IF Due(s).phase = Missing THEN UNCHANGED <<logged, unlogged>>
     ELSE /\ logged' = [logged EXCEPT ![Due(s).galho] = Due(s).phase]
          /\ unlogged' = unlogged \ {Due(s).galho}

\* The append returns an error: observe warns, and the session goes on without the event.
Dropped(s) ==
  /\ Become(s, Onward(s))
  /\ unlogged' = unlogged \cup (IF Due(s).phase = Missing THEN {} ELSE {Due(s).galho})
  /\ UNCHANGED logged

\* Somebody has appended since s read the head, holds the head's lock file, or has left it.
Blocked(s) ==
  session[s].stale \/ Chain \in locked \/ \E o \in Sessions \ {s} : Logging(o)

Log(s) ==
  /\ Logging(s)
  /\ Appended(s) \/ (Blocked(s) /\ Dropped(s))
  /\ UNCHANGED <<store, locked, opened, overlapped, failures>>

\* An I/O error in an append, before the new head is written, or when the lock file should be
\* removed, which goes unnoticed.
LogFails(s) ==
  /\ Logging(s)
  /\ \/ Dropped(s) /\ locked' \in {locked, locked \cup {Chain}}
     \/ Appended(s) /\ locked' = locked \cup {Chain}
  /\ Fail
  /\ UNCHANGED <<store, opened, overlapped>>

\* Faulty variant: a command that failed is checkpointed as well.
CheckpointsAlways(c) == c.events = <<>>

\* Only a command that succeeded is followed by a checkpoint.
Checkpoints(c) == c.events = <<>> /\ c.ok

StartCheckpoint(s) ==
  /\ At(s, "log") /\ Checkpoints(session[s])
  /\ Become(s, [session[s] EXCEPT !.stage = "save"])
  /\ UNCHANGED <<store, logged, locked, opened, overlapped, failures, unlogged>>

\* The name a checkpoint comes to in its i-th place: contexts first, then locks.
SavedAt(i) == SaveOrder[i]

\* put_object and read_ref of the next name; a name the runtime does not know is none
\* of its maps' entries.
ReadCurrent(s) ==
  /\ At(s, "save") /\ session[s].position <= Len(SaveOrder)
  /\ LET x == SavedAt(session[s].position)
     IN  Become(s, IF session[s].mem[x] = Missing
                   THEN [session[s] EXCEPT !.position = @ + 1]
                   ELSE [session[s] EXCEPT !.stage = "cas", !.current = store[x]])
  /\ UNCHANGED <<store, logged, locked, opened, overlapped, failures, unlogged>>

\* The ref s is about to set.
Saved(s) == SavedAt(session[s].position)

\* cas_ref.  An I/O error when it removes its lock file goes unnoticed.
CasRef(s) ==
  /\ At(s, "cas") /\ Saved(s) \notin locked
  /\ store[Saved(s)] = session[s].current
  /\ store' = [store EXCEPT ![Saved(s)] = session[s].mem[Saved(s)]]
  /\ Become(s, [session[s] EXCEPT !.stage = "save", !.position = @ + 1, !.current = Missing])
  /\ \/ UNCHANGED <<locked, failures>>
     \/ locked' = locked \cup {Saved(s)} /\ Fail
  /\ UNCHANGED <<logged, opened, overlapped, unlogged>>

\* The ref has changed since ReadCurrent, or another session holds its lock file or has left
\* it: the checkpoint is given up where it is.
CasRefused(s) ==
  /\ At(s, "cas")
  /\ \/ store[Saved(s)] # session[s].current
     \/ Saved(s) \in locked
     \/ \E o \in Sessions \ {s} : At(o, "cas") /\ Saved(o) = Saved(s)
  /\ Become(s, Closed)
  /\ UNCHANGED <<store, logged, locked, opened, overlapped, failures, unlogged>>

\* The process exits: the command failed, or everything is written.
Exit(s) ==
  /\ \/ At(s, "log") /\ session[s].events = <<>> /\ ~ session[s].ok
     \/ At(s, "save") /\ session[s].position > Len(SaveOrder)
  /\ Become(s, Closed)
  /\ UNCHANGED <<store, logged, locked, opened, overlapped, failures, unlogged>>

\* The process dies, or a call of the store other than an append fails and ends the command.
Die(s) ==
  /\ Open(s)
  /\ Become(s, Closed)
  /\ Fail
  /\ UNCHANGED <<store, logged, locked, opened, overlapped, unlogged>>

\* The same between the lock file of a ref and its new value: the lock file stays.
DieInCas(s) ==
  /\ Logging(s) \/ At(s, "cas")
  /\ Become(s, Closed)
  /\ locked' = locked \cup {IF At(s, "cas") THEN Saved(s) ELSE Chain}
  /\ Fail
  /\ UNCHANGED <<store, logged, opened, overlapped, unlogged>>

Init ==
  /\ store \in Starts
  /\ session = [s \in Sessions |-> Closed]
  /\ logged = [g \in Galhos |-> PhaseIn(store, g)]
  /\ locked = {} /\ opened = 0
  /\ overlapped = FALSE /\ failures = 0 /\ unlogged = {}

Step(s) == \/ OpenChain(s) \/ ListRefs(s) \/ ReadRef(s) \/ Run(s) \/ Log(s) \/ LogFails(s)
           \/ StartCheckpoint(s) \/ ReadCurrent(s) \/ CasRef(s) \/ CasRefused(s)
           \/ Exit(s) \/ Die(s) \/ DieInCas(s)

Next == \E s \in Sessions : Step(s)

Spec == Init /\ [][Next]_sessionVars

-----------------------------------------------------------------------------
(***************************************************************************)
(* Properties.                                                             *)
(***************************************************************************)
\* Contexts under the names of galhos, holder sets under the roots.
IsWorld(w) ==
  /\ w = [x \in Names |-> w[x]]
  /\ \A g \in Galhos : w[g] = Missing \/ w[g] \in Context
  /\ \A r \in Roots  : w[r] = Missing \/ (w[r] \subseteq Galhos /\ w[r] # {})

\* The type invariant.  What a session compares the ref with is always something that
\* may be stored under that ref.
TypeOK ==
  /\ IsWorld(store)
  /\ \A s \in Sessions : Open(s) =>
       /\ session[s].stage \in {"list", "read", "log", "save", "cas"}
       /\ session[s].stale \in BOOLEAN /\ session[s].ok \in BOOLEAN
       /\ IsWorld(session[s].mem)
       /\ session[s].todo \subseteq Names
       /\ session[s].position \in 1 .. Len(SaveOrder) + 1
       /\ session[s].stage = "cas" =>
            IsWorld([store EXCEPT ![SavedAt(session[s].position)] = session[s].current])
  /\ logged \in [Galhos -> Phases \cup {"Absent"}]
  /\ locked \subseteq Names \cup {Chain} /\ opened \in 0 .. MaxSessions
  /\ overlapped \in BOOLEAN /\ failures \in 0 .. MaxFailures /\ unlogged \subseteq Galhos

\* Every stored context is one the runtime may have had, with all the evidence of its
\* phase and none of an earlier cycle, although sessions overwrite each other's contexts
\* and die in the middle of a checkpoint: a ref moves from one whole context to another.
Evidenced(w) == \A g \in Galhos : Exists(w, g) => EvidenceMatches(w[g].phase, w[g].flags)

EvidenceStored == Evidenced(store)

\* A refused command leaves no holder behind: although an apply joins the stack lock before
\* it is checked, and even for a name without a galho, every holder of a stored lock has a
\* stored context, whoever dies in a checkpoint and whoever overwrites what.
HoldersIn(w, v) == \A r \in Roots : \A g \in Holders(w, r) : Exists(v, g)

HoldersStored == HoldersIn(store, store)

\* Satisfied dependencies are exact, and every claim on a stack lock is backed by a holder set.
StoreSound(w) ==
  /\ \A g \in Galhos : Exists(w, g) =>
       /\ w[g].deps_satisfied = { d \in w[g].depends_on : PhaseIn(w, d) \in DoneEnough }
       /\ "stack_lock_held" \in w[g].flags => \E r \in Roots : g \in Holders(w, r)

\* A behaviour starts from the empty store or from what earlier sessions have left.
ASSUME StartsAssumption ==
  \A w \in Starts : IsWorld(w) /\ Evidenced(w) /\ HoldersIn(w, w) /\ StoreSound(w)

Calm == ~ overlapped /\ failures = 0 /\ \A s \in Sessions : ~ Open(s)

\* What sessions that come one after the other, and meet no failure, leave behind is a
\* runtime like any other:
\* satisfied dependencies are exact, every claim on a stack lock is backed by a holder
\* set, and the audit chain names the phase each galho is in.
CalmStoreSound ==
  Calm => StoreSound(store) /\ \A g \in Galhos : logged[g] = PhaseIn(store, g)

\* One move along the transition table, or a creation.
OneMove(p, q) == (p = "Absent" /\ q = "Declared") \/ \E m \in Morphisms : Row(p, m, q)

\* The chain and the store of sessions that do not overlap part by one move at most, and
\* then it is the chain that is ahead, however many sessions die between their events and
\* their checkpoint or inside it, and whatever lock files they leave.  The exception is a
\* galho whose last move the chain has refused, to an I/O error or to the lock file that a
\* dead session has left on its head: the session goes on and checkpoints the move, so that
\* the store is ahead; the next move of the galho that the chain takes makes up for it.
LogOneAhead ==
  ~ overlapped => \A g \in Galhos \ unlogged :
    \/ logged[g] = PhaseIn(store, g)
    \/ OneMove(PhaseIn(store, g), logged[g])

\* "CAS against current value to make concurrent writers fail-loud" (galho-cli/src/lib.rs,
\* checkpoint): a concurrent session does not undo what another has saved, that is, the
\* stored phase of a galho changes only by a move that leads from it.
StoreFollowsLifecycle ==
  [][\A g \in Galhos :
       PhaseIn(store, g) # PhaseIn(store', g) => OneMove(PhaseIn(store, g), PhaseIn(store', g))
    ]_sessionVars
=============================================================================
