------------------------ MODULE GalhoSessionsProofs ------------------------
(***************************************************************************)
(* Proofs about GalhoSessions, for any names, any number of sessions and   *)
(* any commands.                                                           *)
(***************************************************************************)
EXTENDS GalhoSessions, TLAPS

-----------------------------------------------------------------------------
(***************************************************************************)
(* The inductive invariant, one predicate on an open session c at a time,  *)
(* against the store w and the chain's phases lg.                          *)
(***************************************************************************)
World(w) == w \in [Names -> Stored] /\ IsWorld(w)

\* A value that may be stored under the name x.
Fits(x, v) ==
  /\ x \in Galhos => v = Missing \/ v \in Context
  /\ x \in Roots  => v = Missing \/ (v \subseteq Galhos /\ v # {})

Saving(c) == c.stage \in {"save", "cas"}

SessionShape(c) ==
  /\ c \in OpenSession /\ World(c.mem) /\ Evidenced(c.mem)
  /\ ~ Saving(c) => c.position = 1
  /\ c.stage = "cas" => /\ c.position <= Len(SaveOrder)
                        /\ c.mem[SavedAt(c.position)] # Missing
                        /\ Fits(SavedAt(c.position), c.current)

ShapeInv ==
  /\ World(store) /\ Evidenced(store)
  /\ session \in [Sessions -> OpenSession \cup {Closed}]
  /\ logged \in [Galhos -> Phases \cup {"Absent"}]
  /\ opened \in 0 .. MaxSessions
  /\ overlapped \in BOOLEAN /\ failures \in 0 .. MaxFailures
  /\ locked \subseteq Names \cup {Chain} /\ unlogged \subseteq Galhos
  /\ failures = 0 => locked = {}
  /\ \A s \in Sessions : Open(s) => SessionShape(session[s])

\* Every holder that c may save is stored or will be, contexts first, unless its command
\* failed: then nothing is saved.
Backed(w, c) ==
  /\ c.stage # "log" => c.ok
  /\ c.ok => \A r \in Roots : \A g \in Holders(c.mem, r) :
       Exists(w, g) \/ (c.stage \notin {"list", "read"} /\ Exists(c.mem, g))
  /\ Saving(c) => \A i \in 1 .. Len(SaveOrder) :
       i < c.position /\ c.mem[SavedAt(i)] # Missing => w[SavedAt(i)] # Missing

StoredInv == HoldersStored /\ \A s \in Sessions : Open(s) => Backed(store, session[s])

\* Some event that is still to be logged moves g.
MoveDue(c, g) ==
  \E i \in 1 .. Len(c.events) : c.events[i].galho = g /\ c.events[i].phase # Missing

\* The command has moved a galho by one row at most, and what it moved is logged, or will
\* be, or the chain has refused it.
Ahead(w, lg, ul, c) ==
  /\ \A g \in Galhos :
       \/ PhaseIn(c.mem, g) = PhaseIn(w, g)
       \/ /\ OneMove(PhaseIn(w, g), PhaseIn(c.mem, g))
          /\ lg[g] = PhaseIn(c.mem, g) \/ MoveDue(c, g) \/ g \in ul
  /\ \A i \in 1 .. Len(c.events) : c.events[i].phase # Missing =>
       /\ c.events[i].phase = PhaseIn(c.mem, c.events[i].galho)
       /\ OneMove(PhaseIn(w, c.events[i].galho), c.events[i].phase)
  /\ \A x \in Names : c.mem[x] = Missing => w[x] = Missing

\* A session that is alone restores the store as it is, and no ref changes under it.
Sole(w, lg, ul, c) ==
  /\ c.stale = FALSE
  /\ c.stage = "list" => c.mem = Nothing
  /\ c.stage = "read" => \A x \in Names : x \in c.todo \/ c.mem[x] = w[x]
  /\ c.stage = "log" /\ ~ c.ok => \A i \in 1 .. Len(c.events) : c.events[i].phase = Missing
  /\ c.stage = "log" /\ c.ok => Ahead(w, lg, ul, c)
  /\ Saving(c) => c.events = <<>> /\ Ahead(w, lg, ul, c)
  /\ c.stage = "cas" => c.current = w[SavedAt(c.position)]

AloneInv ==
  /\ LogOneAhead
  /\ \A s \in Sessions : Open(s) =>
       (\A o \in Sessions : Open(o) => o = s) /\ Sole(store, logged, unlogged, session[s])

\* What is promised between two sessions, and how far one that is alone, before
\* anything fails, is from it.
Rest(w, lg) == StoreSound(w) /\ \A g \in Galhos : lg[g] = PhaseIn(w, g)

Settled(w, lg, c) ==
  /\ c.stage \in {"list", "read"} \/ (c.stage = "log" /\ ~ c.ok) => Rest(w, lg)
  /\ c.stage = "log" /\ c.ok =>
       /\ StoreSound(c.mem)
       /\ \A g \in Galhos : lg[g] = PhaseIn(c.mem, g) \/ MoveDue(c, g)
  /\ Saving(c) =>
       /\ Rest(c.mem, lg)
       /\ \A i \in 1 .. Len(SaveOrder) : i < c.position =>
            c.mem[SavedAt(i)] = Missing \/ c.mem[SavedAt(i)] = w[SavedAt(i)]

CalmInv ==
  /\ (\A s \in Sessions : ~ Open(s)) => Rest(store, logged)
  /\ \A s \in Sessions : Open(s) => Settled(store, logged, session[s])

SessionsInv ==
  /\ ShapeInv
  /\ StoredInv
  /\ ~ overlapped => AloneInv
  /\ ~ overlapped /\ failures = 0 => CalmInv

-----------------------------------------------------------------------------
(***************************************************************************)
(* Worlds.                                                                 *)
(***************************************************************************)

\* What a world holds under a name, and how a world is told.
LEMMA WorldParts ==
  ASSUME NEW w, World(w)
  PROVE  /\ \A g \in Galhos : g \in Names /\ g \notin Roots
         /\ \A r \in Roots : r \in Names /\ r \notin Galhos
         /\ \A g \in Galhos : Exists(w, g) => w[g] \in Context
         /\ \A g \in Galhos : ~ Exists(w, g) => w[g] = Missing
         /\ \A r \in Roots : Holders(w, r) \subseteq Galhos
         /\ \A g \in Galhos : PhaseIn(w, g) \in Phases \cup {"Absent"}
         /\ \A g \in Galhos : Exists(w, g) => PhaseIn(w, g) = w[g].phase
  BY NamesAssumption DEF World, IsWorld, Exists, PhaseIn, Holders, Names, Context

LEMMA IsAWorld ==
  ASSUME NEW w, w \in [Names -> Stored],
         \A g \in Galhos : w[g] = Missing \/ w[g] \in Context,
         \A r \in Roots  : w[r] = Missing \/ (w[r] \subseteq Galhos /\ w[r] # {})
  PROVE  World(w)
  BY DEF World, IsWorld

LEMMA StoredValues ==
  Missing \in Stored /\ \A v : v \in Context \/ v \subseteq Galhos => v \in Stored
  BY DEF Stored

LEMMA NothingIsAWorld == World(Nothing) /\ Evidenced(Nothing)
<1>1. Nothing \in [Names -> Stored] /\ \A x \in Names : Nothing[x] = Missing
  BY StoredValues DEF Nothing
<1>2. World(Nothing)
  BY <1>1, IsAWorld DEF Names
<1> QED BY <1>1, <1>2 DEF Names, Evidenced, Exists

\* Refreshing a world recomputes the satisfied dependencies and nothing else.
LEMMA RefreshedParts ==
  ASSUME NEW w, World(w)
  PROVE  /\ World(Refreshed(w))
         /\ \A r \in Roots : Refreshed(w)[r] = w[r]
         /\ \A g \in Galhos : /\ Exists(Refreshed(w), g) <=> Exists(w, g)
                              /\ PhaseIn(Refreshed(w), g) = PhaseIn(w, g)
         /\ \A g \in Galhos : Exists(w, g) =>
              /\ Refreshed(w)[g].flags = w[g].flags
              /\ Refreshed(w)[g].phase = w[g].phase
              /\ Refreshed(w)[g].depends_on = w[g].depends_on
              /\ Refreshed(w)[g].deps_satisfied =
                   { d \in w[g].depends_on : PhaseIn(w, d) \in DoneEnough }
<1> DEFINE sat(g) == { d \in w[g].depends_on : PhaseIn(w, d) \in DoneEnough }
<1> DEFINE v == Refreshed(w)
<1>1. \A g \in Galhos : /\ Exists(w, g) => v[g] = [w[g] EXCEPT !.deps_satisfied = sat(g)]
                        /\ ~ Exists(w, g) => v[g] = Missing
  BY WorldParts DEF Refreshed, Exists
<1>2. \A r \in Roots : v[r] = w[r]
  BY WorldParts DEF Refreshed
<1>3. v = [x \in Names |-> v[x]]
  BY DEF Refreshed
<1>4. \A g \in Galhos : Exists(w, g) => w[g] \in Context
  BY WorldParts
<1>5. \A g \in Galhos : Exists(w, g) => sat(g) \in SUBSET Galhos
  BY <1>4 DEF Context
<1> HIDE DEF v, sat
<1>6. \A g \in Galhos : Exists(w, g) =>
        /\ v[g] \in Context
        /\ v[g].flags = w[g].flags
        /\ v[g].phase = w[g].phase
        /\ v[g].depends_on = w[g].depends_on
        /\ v[g].deps_satisfied = sat(g)
  BY <1>1, <1>4, <1>5, ZenonT(60) DEF Context
<1>7. \A g \in Galhos : v[g] = Missing \/ v[g] \in Context
  BY <1>1, <1>6
<1>8. \A r \in Roots  : v[r] = Missing \/ (v[r] \subseteq Galhos /\ v[r] # {})
  BY <1>2 DEF World, IsWorld
<1>9. v \in [Names -> Stored]
  <2>1. \A x \in Names : v[x] \in Stored
    <3>1. \A x \in Galhos : v[x] \in Stored
      BY <1>7, StoredValues
    <3>2. \A x \in Roots : v[x] \in Stored
      BY <1>8, StoredValues
    <3> QED BY <3>1, <3>2 DEF Names
  <2> QED BY <1>3, <2>1
<1>10. World(v)
  BY <1>7, <1>8, <1>9, IsAWorld
<1>11. \A g \in Galhos : Exists(v, g) <=> Exists(w, g)
  BY <1>1, <1>6, NothingAssumption DEF Exists
<1>12. \A g \in Galhos : PhaseIn(v, g) = PhaseIn(w, g)
  BY <1>6, <1>11 DEF PhaseIn
<1> QED BY <1>2, <1>6, <1>10, <1>11, <1>12 DEF v, sat

\* A world with another context, or with another lock.
LEMMA ContextReplaced ==
  ASSUME NEW w, World(w), NEW g \in Galhos, NEW c \in Context,
         NEW v \in [Names -> Stored], v[g] = c, \A x \in Names \ {g} : v[x] = w[x]
  PROVE  /\ World(v) /\ v[g] = c /\ Exists(v, g) /\ PhaseIn(v, g) = c.phase
         /\ \A r \in Roots : v[r] = w[r]
         /\ \A h \in Galhos \ {g} : /\ v[h] = w[h]
                                    /\ Exists(v, h) <=> Exists(w, h)
                                    /\ PhaseIn(v, h) = PhaseIn(w, h)
<1>1. /\ \A h \in Galhos : v[h] = Missing \/ v[h] \in Context
      /\ \A r \in Roots  : v[r] = w[r]
      /\ \A r \in Roots  : v[r] = Missing \/ (v[r] \subseteq Galhos /\ v[r] # {})
  BY WorldParts DEF World, IsWorld
<1>2. World(v)
  BY <1>1, IsAWorld
<1>3. Exists(v, g) /\ PhaseIn(v, g) = c.phase
  BY NothingAssumption DEF Exists, PhaseIn
<1>4. \A h \in Galhos \ {g} : v[h] = w[h]
  BY WorldParts
<1> QED BY <1>1, <1>2, <1>3, <1>4 DEF Exists, PhaseIn

LEMMA LockReplaced ==
  ASSUME NEW w, World(w), NEW g \in Galhos, NEW r \in Roots
  PROVE  LET v == [w EXCEPT ![r] = Joined(w, g, r)]
         IN  /\ World(v)
             /\ \A h \in Galhos : v[h] = w[h]
             /\ \A s \in Roots : Holders(w, s) \subseteq Holders(v, s)
             /\ \A s \in Roots : Holders(v, s) \subseteq Holders(w, s) \cup {g}
             /\ g \in Holders(v, r)
<1> DEFINE v == [w EXCEPT ![r] = Joined(w, g, r)]
<1>1. Joined(w, g, r) \subseteq Galhos /\ Joined(w, g, r) # {}
  BY WorldParts DEF Joined
<1>2. /\ v \in [Names -> Stored] /\ v[r] = Holders(w, r) \cup {g}
      /\ \A x \in Names \ {r} : v[x] = w[x]
  BY <1>1, WorldParts DEF World, Stored, Joined
<1> HIDE DEF v
<1>3. \A h \in Galhos : v[h] = w[h]
  BY <1>2, WorldParts
<1>4. World(v)
  <2>1. \A x \in Roots : v[x] = Missing \/ (v[x] \subseteq Galhos /\ v[x] # {})
    BY <1>1, <1>2, WorldParts DEF World, IsWorld, Joined
  <2>2. \A h \in Galhos : v[h] = Missing \/ v[h] \in Context
    BY <1>3 DEF World, IsWorld
  <2> QED BY <1>2, <2>1, <2>2, IsAWorld
<1>5. \A s \in Roots \ {r} : Holders(v, s) = Holders(w, s)
  BY <1>2, WorldParts DEF Holders
<1>6. Holders(v, r) = Holders(w, r) \cup {g}
  BY <1>1, <1>2, NothingAssumption DEF Holders, Joined
<1> QED BY <1>3, <1>4, <1>5, <1>6 DEF v

-----------------------------------------------------------------------------
(***************************************************************************)
(* Commands.                                                               *)
(***************************************************************************)

\* Every row of the table, under the flags it requires, leads from evidence to evidence.
LEMMA EvidenceFired ==
  ASSUME NEW p, NEW m \in Morphisms, NEW q, NEW F \in SUBSET Flags,
         Row(p, m, q), Required(m) \subseteq F \cup PreGranted(m), EvidenceMatches(p, F)
  PROVE  /\ EvidenceMatches(q, FlagsAfter(m, q, F \cup PreGranted(m)))
         /\ FlagsAfter(m, q, F \cup PreGranted(m)) \subseteq Flags
         /\ q \in Phases
<1> USE DEF EvidenceMatches, PlannedPhases, AppliedPhases, ReviewedPhases, Row, TransitionTable,
            FlagsAfter, Granted, PreGranted, Cleared, Flags, Phases, ForwardPhases,
            BackwardPhases, TerminalPhases
<1>1. CASE m = "Plan"
  BY <1>1
<1>2. CASE m = "ApplyToPreview"
  BY <1>2
<1>3. CASE m = "RecordApproval"
  BY <1>3 DEF Required
<1>4. CASE m \in {"Promote", "Verify", "SealDone"}
  BY <1>4
<1>5. CASE m = "RevertApply"
  BY <1>5
<1>6. CASE m \in {"Abandon", "Recover"}
  BY <1>6
<1>7. CASE m \in {"DriftReconcile", "Escalate", "Resume"}
  BY <1>7
<1> QED BY <1>1, <1>2, <1>3, <1>4, <1>5, <1>6, <1>7 DEF Morphisms

\* The phase a morphism leads to, under the flags it requires.
LEMMA NextPhaseFound ==
  ASSUME NEW c, NEW m, NextPhase(c, m) # Missing
  PROVE  /\ Row(c.phase, m, NextPhase(c, m)) /\ m \in Morphisms
         /\ Required(m) \subseteq c.flags \cup PreGranted(m)
<1>1. \E q \in Phases : Row(c.phase, m, q)
  BY DEF NextPhase
<1>2. Required(m) \subseteq c.flags \cup PreGranted(m)
  BY DEF NextPhase, Permits
<1>3. Row(c.phase, m, NextPhase(c, m))
  BY <1>1 DEF NextPhase
<1>4. m \in Morphisms
  BY <1>3 DEF Row, TransitionTable, Morphisms
<1> QED BY <1>2, <1>3, <1>4

\* The events of a command: at most one of them moves a galho.
LEMMA EventsOf ==
  ASSUME NEW g \in Galhos, NEW q \in Phases
  PROVE  /\ Note(g) \in Event /\ Note(g).galho = g /\ Note(g).phase = Missing
         /\ Move(g, q) \in Event /\ Move(g, q).galho = g /\ Move(g, q).phase = q
  BY DEF Note, Move, Event

\* What any command makes of a well-formed world w: a world v, with events e.
Harmless(w, v) ==
  World(v) /\ Evidenced(v) /\ \A x \in Names : v[x] = Missing => w[x] = Missing

Fruitful(w, v, e) ==
  /\ \A r \in Roots : \A g \in Holders(v, r) : g \in Holders(w, r) \/ Exists(v, g)
  /\ \A g \in Galhos :
       \/ PhaseIn(v, g) = PhaseIn(w, g)
       \/ /\ OneMove(PhaseIn(w, g), PhaseIn(v, g))
          /\ \E i \in 1 .. Len(e) : e[i].galho = g /\ e[i].phase # Missing
  /\ \A i \in 1 .. Len(e) : e[i].phase # Missing =>
       /\ e[i].phase = PhaseIn(v, e[i].galho)
       /\ OneMove(PhaseIn(w, e[i].galho), e[i].phase)
  /\ StoreSound(w) => StoreSound(v)

SoundOutcome(w, o) ==
  /\ Harmless(w, o.world) /\ o.events \in Seq(Event)
  /\ \/ o.ok = FALSE /\ \A i \in 1 .. Len(o.events) : o.events[i].phase = Missing
     \/ o.ok = TRUE  /\ Fruitful(w, o.world, o.events)

LEMMA FailureSound ==
  ASSUME NEW w, NEW v, Harmless(w, v), NEW e \in Seq(Event),
         \A i \in 1 .. Len(e) : e[i].phase = Missing
  PROVE  SoundOutcome(w, Failure(v, e))
  BY DEF SoundOutcome, Failure

LEMMA RefusedSound ==
  ASSUME NEW w, World(w), Evidenced(w)
  PROVE  SoundOutcome(w, Failure(w, <<>>))
<1>1. <<>> \in Seq(Event) /\ \A i \in 1 .. Len(<<>>) : <<>>[i].phase = Missing
  OBVIOUS
<1>2. Harmless(w, w)
  BY DEF Harmless
<1> QED BY <1>1, <1>2, FailureSound

LEMMA SuccessSound ==
  ASSUME NEW w, NEW v, Harmless(w, v), NEW e \in Seq(Event), Fruitful(w, v, e)
  PROVE  SoundOutcome(w, Success(v, e))
  BY DEF SoundOutcome, Success

LEMMA IdleSound ==
  ASSUME NEW w, World(w), Evidenced(w)
  PROVE  SoundOutcome(w, Success(w, <<>>))
<1>1. <<>> \in Seq(Event) /\ Len(<<>>) = 0
  OBVIOUS
<1>2. Fruitful(w, w, <<>>)
  BY <1>1 DEF Fruitful
<1> QED BY <1>1, <1>2, SuccessSound DEF Harmless

\* A command that succeeds in refreshing a world that has one context more or moved.
LEMMA RefreshedSound ==
  ASSUME NEW w, World(w), Evidenced(w), NEW v, World(v), Evidenced(v),
         NEW g \in Galhos, NEW q \in Phases, NEW e \in Seq(Event),
         \A h \in Galhos \ {g} : v[h] = w[h],
         Exists(v, g), PhaseIn(v, g) = q, OneMove(PhaseIn(w, g), q),
         \A r \in Roots : Holders(w, r) \subseteq Holders(v, r),
         \A r \in Roots : Holders(v, r) \subseteq Holders(w, r) \cup {g},
         \A r \in Roots : v[r] = Missing => w[r] = Missing,
         "stack_lock_held" \in v[g].flags =>
            \/ \E r \in Roots : g \in Holders(v, r)
            \/ Exists(w, g) /\ "stack_lock_held" \in w[g].flags,
         \A i \in 1 .. Len(e) : e[i].galho = g /\ e[i].phase \in {Missing, q},
         \E i \in 1 .. Len(e) : e[i].phase = q, q # Missing
  PROVE  SoundOutcome(w, Success(Refreshed(v), e))
<1> DEFINE u == Refreshed(v)
<1>2. /\ World(u)
      /\ \A r \in Roots : u[r] = v[r]
      /\ \A h \in Galhos : /\ Exists(u, h) <=> Exists(v, h)
                           /\ PhaseIn(u, h) = PhaseIn(v, h)
      /\ \A h \in Galhos : Exists(v, h) =>
           /\ u[h].flags = v[h].flags
           /\ u[h].phase = v[h].phase
           /\ u[h].depends_on = v[h].depends_on
           /\ u[h].deps_satisfied = { d \in v[h].depends_on : PhaseIn(v, d) \in DoneEnough }
  BY RefreshedParts
<1> HIDE DEF u
<1>3. \A h \in Galhos \ {g} : (Exists(v, h) <=> Exists(w, h)) /\ PhaseIn(v, h) = PhaseIn(w, h)
  BY DEF Exists, PhaseIn
<1>4. \A r \in Roots : Holders(u, r) = Holders(v, r)
  BY <1>2 DEF Holders
<1>5. Evidenced(u)
  BY <1>2 DEF Evidenced
<1>6. \A x \in Names : u[x] = Missing => w[x] = Missing
  <2>1. \A h \in Galhos : u[h] = Missing => w[h] = Missing
    BY <1>2, <1>3 DEF Exists
  <2> QED BY <1>2, <2>1 DEF Names
<1>7. \A r \in Roots : \A h \in Holders(u, r) : h \in Holders(w, r) \/ Exists(u, h)
  BY <1>2, <1>4
<1>8. \A h \in Galhos : \/ PhaseIn(u, h) = PhaseIn(w, h)
                        \/ /\ OneMove(PhaseIn(w, h), PhaseIn(u, h))
                           /\ \E i \in 1 .. Len(e) : e[i].galho = h /\ e[i].phase # Missing
  <2>1. CASE TRUE
    <3>1. \E i \in 1 .. Len(e) : e[i].galho = g /\ e[i].phase # Missing
      OBVIOUS
    <3>2. PhaseIn(u, g) = q
      BY <1>2
    <3> QED BY <1>2, <1>3, <3>1, <3>2
  <2> QED BY <2>1
<1>9. \A i \in 1 .. Len(e) : e[i].phase # Missing =>
        e[i].phase = PhaseIn(u, e[i].galho) /\ OneMove(PhaseIn(w, e[i].galho), e[i].phase)
  BY <1>2
<1>10. ASSUME StoreSound(w)
       PROVE  StoreSound(u)
  <2>1. ASSUME NEW h \in Galhos, Exists(u, h)
        PROVE  u[h].deps_satisfied = { d \in u[h].depends_on : PhaseIn(u, d) \in DoneEnough }
    <3>1. v[h] \in Context
      BY <1>2, <2>1, WorldParts
    <3>2. v[h].depends_on \subseteq Galhos
      BY <3>1 DEF Context
    <3> QED BY <1>2, <2>1, <3>2
  <2>2. ASSUME NEW h \in Galhos, Exists(u, h), "stack_lock_held" \in u[h].flags
        PROVE  \E r \in Roots : h \in Holders(u, r)
    <3>1. Exists(v, h) /\ "stack_lock_held" \in v[h].flags
      BY <1>2, <2>2
    <3>2. CASE h = g
      BY <1>4, <1>10, <3>1, <3>2 DEF StoreSound
    <3>3. CASE h # g
      <4>1. Exists(w, h) /\ "stack_lock_held" \in w[h].flags
        BY <1>3, <3>1, <3>3
      <4> QED BY <1>4, <1>10, <4>1 DEF StoreSound
    <3> QED BY <3>2, <3>3
  <2> QED BY <2>1, <2>2 DEF StoreSound
<1>11. Harmless(w, u)
  BY <1>2, <1>5, <1>6 DEF Harmless
<1>12. Fruitful(w, u, e)
  BY <1>7, <1>8, <1>9, <1>10 DEF Fruitful
<1> QED BY <1>11, <1>12, SuccessSound DEF u

LEMMA NewSound ==
  ASSUME NEW w, World(w), Evidenced(w), NEW g \in Galhos, NEW D \in SUBSET Galhos
  PROVE  SoundOutcome(w, New(w, g, D))
<1> DEFINE c == [phase |-> "Declared", flags |-> {}, depends_on |-> D, deps_satisfied |-> {}]
<1> DEFINE v == [w EXCEPT ![g] = c]
<1>1. CASE Exists(w, g) \/ Reaches(w, D, g)
  BY <1>1, RefusedSound DEF New
<1>2. CASE ~ (Exists(w, g) \/ Reaches(w, D, g))
  <2>1. c \in Context /\ c.phase = "Declared" /\ c.flags = {}
    BY DEF Context, Phases, ForwardPhases
  <2>0. v \in [Names -> Stored] /\ v[g] = c /\ \A x \in Names \ {g} : v[x] = w[x]
    BY <2>1, WorldParts, StoredValues DEF World
  <2> HIDE DEF c, v
  <2>2. /\ World(v) /\ v[g] = c /\ Exists(v, g) /\ PhaseIn(v, g) = "Declared"
        /\ \A r \in Roots : v[r] = w[r]
        /\ \A h \in Galhos \ {g} : v[h] = w[h]
    BY <2>1, <2>0, ContextReplaced
  <2>3. Evidenced(v)
    <3>1. EvidenceMatches("Declared", {})
      BY DEF EvidenceMatches, PlannedPhases, AppliedPhases, ReviewedPhases
    <3> QED BY <2>1, <2>2, <3>1 DEF Evidenced, Exists
  <2>4. OneMove(PhaseIn(w, g), "Declared")
    BY <1>2 DEF OneMove, PhaseIn
  <2>5. "Declared" \in Phases
    BY DEF Phases, ForwardPhases
  <2> DEFINE e == <<Move(g, "Declared")>>
  <2>6. /\ e \in Seq(Event) /\ Len(e) = 1 
        /\ e[1].galho = g /\ e[1].phase = "Declared"
    BY <2>5, EventsOf
  <2> HIDE DEF e
  <2>7. CASE "Declared" # Missing
    <3>1. /\ \A i \in 1 .. Len(e) : e[i].galho = g /\ e[i].phase \in {Missing, "Declared"}
          /\ \E i \in 1 .. Len(e) : e[i].phase = "Declared"
      BY <2>6
    <3>2. /\ \A r \in Roots : Holders(v, r) = Holders(w, r)
          /\ \A r \in Roots : v[r] = Missing => w[r] = Missing
      BY <2>2 DEF Holders
    <3>3. SoundOutcome(w, Success(Refreshed(v), e))
      BY <2>1, <2>2, <2>3, <2>4, <2>5, <2>6, <2>7, <3>1, <3>2, RefreshedSound
    <3> QED BY <1>2, <3>3 DEF New, v, c, e
  <2> QED BY <2>5, <2>7, NothingAssumption
<1> QED BY <1>1, <1>2

LEMMA ConfirmSound ==
  ASSUME NEW w, World(w), Evidenced(w), NEW g \in Galhos
  PROVE  SoundOutcome(w, Confirm(w, g))
<1> DEFINE v == [w EXCEPT ![g].flags = @ \cup {"has_approval_quorum"}]
<1> DEFINE e == <<Note(g)>>
<1>1. CASE SyncKind(PhaseIn(w, g)) # "OperatorApproval"
  BY <1>1, RefusedSound DEF Confirm
<1>2. CASE SyncKind(PhaseIn(w, g)) = "OperatorApproval"
  <2>1. PhaseIn(w, g) \in AppliedPhases
    BY <1>2 DEF SyncKind, AppliedPhases
  <2>2. Exists(w, g) /\ w[g] \in Context /\ w[g].phase = PhaseIn(w, g)
    BY <2>1, WorldParts DEF PhaseIn, AppliedPhases
  <2> DEFINE c == [w[g] EXCEPT !.flags = @ \cup {"has_approval_quorum"}]
  <2>3. /\ c \in Context /\ c.phase = w[g].phase /\ c.depends_on = w[g].depends_on
        /\ c.deps_satisfied = w[g].deps_satisfied
        /\ c.flags = w[g].flags \cup {"has_approval_quorum"}
    BY <2>2 DEF Context, Flags
  <2>4. v \in [Names -> Stored] /\ v[g] = c /\ \A x \in Names \ {g} : v[x] = w[x]
    BY <2>2, <2>3, WorldParts, StoredValues DEF World
  <2> HIDE DEF c, v
  <2>5. /\ World(v) /\ v[g] = c /\ Exists(v, g)
        /\ \A r \in Roots : v[r] = w[r]
        /\ \A h \in Galhos \ {g} : v[h] = w[h]
        /\ \A h \in Galhos : Exists(v, h) <=> Exists(w, h)
        /\ \A h \in Galhos : PhaseIn(v, h) = PhaseIn(w, h)
    BY <2>2, <2>3, <2>4, ContextReplaced
  <2>6. Evidenced(v)
    <3>1. EvidenceMatches(c.phase, c.flags)
      BY <2>1, <2>2, <2>3 DEF Evidenced, EvidenceMatches
    <3> QED BY <2>5, <3>1 DEF Evidenced, Exists
  <2>7. Harmless(w, v)
    <3>1. \A h \in Galhos : v[h] = Missing => w[h] = Missing
      BY <2>5 DEF Exists
    <3> QED BY <2>5, <2>6, <3>1 DEF Harmless, Names
  <2>8. e \in Seq(Event) /\ Len(e) = 1 /\ e[1].phase = Missing
    <3>1. Note(g) \in Event /\ Note(g).phase = Missing
      BY DEF Note, Event
    <3> QED BY <3>1
  <2> HIDE DEF e
  <2>9. \A r \in Roots : Holders(v, r) = Holders(w, r)
    BY <2>5 DEF Holders
  <2>10. StoreSound(w) => StoreSound(v)
    <3>1. ASSUME StoreSound(w), NEW h \in Galhos, Exists(v, h)
          PROVE  /\ v[h].deps_satisfied = { d \in v[h].depends_on : PhaseIn(v, d) \in DoneEnough }
                 /\ "stack_lock_held" \in v[h].flags => \E r \in Roots : h \in Holders(v, r)
      <4>1. /\ v[h].depends_on = w[h].depends_on /\ v[h].deps_satisfied = w[h].deps_satisfied
            /\ "stack_lock_held" \in v[h].flags => "stack_lock_held" \in w[h].flags
        BY <2>3, <2>5
      <4>2. w[h].depends_on \subseteq Galhos
        BY <2>5, <3>1, WorldParts DEF Context
      <4>3. w[h].deps_satisfied = { d \in w[h].depends_on : PhaseIn(w, d) \in DoneEnough }
        BY <2>5, <3>1 DEF StoreSound
      <4>4. "stack_lock_held" \in w[h].flags => \E r \in Roots : h \in Holders(w, r)
        BY <2>5, <3>1 DEF StoreSound
      <4> QED BY <2>5, <2>9, <4>1, <4>2, <4>3, <4>4
    <3> QED BY <3>1 DEF StoreSound
  <2>11. Fruitful(w, v, e)
    BY <2>5, <2>8, <2>9, <2>10 DEF Fruitful
  <2>12. SoundOutcome(w, Success(v, e))
    BY <2>7, <2>8, <2>11, SuccessSound
  <2> QED BY <1>2, <2>12 DEF Confirm, v, e
<1> QED BY <1>1, <1>2

\* Firing a morphism, once the galho has joined the stack lock if it is an apply.
LEMMA FireOnSound ==
  ASSUME NEW w, World(w), Evidenced(w), NEW v, World(v), NEW g \in Galhos, NEW m,
         NEW e \in Seq(Event), \A i \in 1 .. Len(e) : e[i].galho = g /\ e[i].phase = Missing,
         \A h \in Galhos : v[h] = w[h],
         \A r \in Roots : Holders(w, r) \subseteq Holders(v, r),
         \A r \in Roots : Holders(v, r) \subseteq Holders(w, r) \cup {g},
         \A r \in Roots : v[r] = Missing => w[r] = Missing,
         m = "ApplyToPreview" => \E r \in Roots : g \in Holders(v, r)
  PROVE  SoundOutcome(w, FireOn(v, g, m, e))
<1> DEFINE q == NextPhase(v[g], m)
<1>1. Evidenced(v)
  BY DEF Evidenced, Exists
<1>2. Harmless(w, v)
  BY <1>1 DEF Harmless, Names
<1>3. CASE ~ Exists(v, g)
  <2>1. SoundOutcome(w, Failure(v, e))
    BY <1>2, FailureSound
  <2> QED BY <1>3, <2>1 DEF FireOn
<1>4. CASE Exists(v, g) /\ q = Missing
  <2> DEFINE f == e \o <<Note(g)>>
  <2>1. Note(g) \in Event /\ Note(g).phase = Missing
    BY DEF Note, Event
  <2>2. f \in Seq(Event) /\ \A i \in 1 .. Len(f) : f[i].phase = Missing
    BY <2>1
  <2>3. SoundOutcome(w, Failure(v, f))
    BY <1>2, <2>2, FailureSound
  <2> QED BY <1>4, <2>3 DEF FireOn
<1>5. CASE Exists(v, g) /\ q # Missing
  <2> DEFINE F == FlagsAfter(m, q, v[g].flags \cup PreGranted(m))
  <2> DEFINE c == [v[g] EXCEPT !.phase = q, !.flags = F]
  <2> DEFINE u == [v EXCEPT ![g].phase = q, ![g].flags = FlagsAfter(m, q, @ \cup PreGranted(m))]
  <2> DEFINE f == e \o <<Move(g, q)>>
  <2>1. v[g] \in Context /\ v[g] = w[g] /\ PhaseIn(w, g) = v[g].phase /\ Exists(w, g)
    BY <1>5, WorldParts DEF Exists
  <2>2. /\ Row(v[g].phase, m, q) /\ m \in Morphisms
        /\ Required(m) \subseteq v[g].flags \cup PreGranted(m)
    BY <1>5, NextPhaseFound
  <2> HIDE DEF q
  <2>3. v[g].flags \in SUBSET Flags
    BY <2>1 DEF Context
  <2>4. EvidenceMatches(v[g].phase, v[g].flags)
    BY <1>1, <1>5 DEF Evidenced
  <2>5. EvidenceMatches(q, F) /\ F \subseteq Flags /\ q \in Phases
    BY <2>2, <2>3, <2>4, EvidenceFired
  <2>6. "stack_lock_held" \in F => m = "ApplyToPreview" \/ "stack_lock_held" \in v[g].flags
    BY <2>2 DEF FlagsAfter, Granted, PreGranted, Cleared
  <2>7. c \in Context /\ c.phase = q /\ c.flags = F
    <3> HIDE DEF F
    <3> QED BY <2>1, <2>5 DEF Context
  <2>8. u \in [Names -> Stored] /\ u[g] = c /\ \A x \in Names \ {g} : u[x] = v[x]
    <3>1. u[g] = c /\ u = [x \in Names |-> u[x]] /\ \A x \in Names \ {g} : u[x] = v[x]
      BY <2>1, WorldParts DEF World, Context
    <3>2. \A x \in Names : v[x] \in Stored
      BY DEF World
    <3> HIDE DEF c, F, u
    <3>3. \A x \in Names : u[x] \in Stored
      BY <2>7, <3>1, <3>2, StoredValues
    <3> QED BY <3>1, <3>3
  <2> HIDE DEF c, u, F
  <2>9. /\ World(u) /\ u[g] = c /\ Exists(u, g) /\ PhaseIn(u, g) = q
        /\ \A r \in Roots : u[r] = v[r]
        /\ \A h \in Galhos \ {g} : u[h] = v[h]
    BY <2>7, <2>8, ContextReplaced
  <2>10. Evidenced(u)
    BY <1>1, <2>5, <2>7, <2>9 DEF Evidenced, Exists
  <2>11. OneMove(PhaseIn(w, g), q)
    BY <2>1, <2>2 DEF OneMove
  <2>12. /\ f \in Seq(Event)
         /\ \A i \in 1 .. Len(f) : f[i].galho = g /\ f[i].phase \in {Missing, q}
         /\ \E i \in 1 .. Len(f) : f[i].phase = q
    <3>1. Move(g, q) \in Event /\ Move(g, q).galho = g /\ Move(g, q).phase = q
      BY <2>5, EventsOf
    <3>2. /\ f \in Seq(Event) /\ Len(f) = Len(e) + 1 /\ f[Len(e) + 1] = Move(g, q)
          /\ \A i \in 1 .. Len(e) : f[i] = e[i]
      BY <3>1
    <3> HIDE DEF f
    <3> QED BY <3>1, <3>2
  <2> HIDE DEF f
  <2>13. /\ \A r \in Roots : Holders(u, r) = Holders(v, r)
         /\ \A r \in Roots : u[r] = Missing => w[r] = Missing
         /\ \A h \in Galhos \ {g} : u[h] = w[h]
    BY <2>9 DEF Holders
  <2>14. "stack_lock_held" \in u[g].flags =>
            \/ \E r \in Roots : g \in Holders(u, r)
            \/ Exists(w, g) /\ "stack_lock_held" \in w[g].flags
    BY <2>1, <2>6, <2>7, <2>9, <2>13
  <2>15. SoundOutcome(w, Success(Refreshed(u), f))
    BY <1>5, <2>5, <2>9, <2>10, <2>11, <2>12, <2>13, <2>14, RefreshedSound DEF q
  <2> QED BY <1>5, <2>15 DEF FireOn, q, u, f
<1> QED BY <1>3, <1>4, <1>5

\* No command, of any session on any world, does more than the lifecycle allows.
LEMMA OutcomesSound ==
  ASSUME NEW w, World(w), Evidenced(w), NEW o \in Outcomes(w)
  PROVE  SoundOutcome(w, o)
<1>1. ASSUME NEW g \in Galhos, NEW r \in Roots
      PROVE  SoundOutcome(w, Apply(w, g, r))
  <2> DEFINE v == [w EXCEPT ![r] = Joined(w, g, r)]
  <2>1. /\ World(v)
        /\ \A h \in Galhos : v[h] = w[h]
        /\ \A s \in Roots : Holders(w, s) \subseteq Holders(v, s)
        /\ \A s \in Roots : Holders(v, s) \subseteq Holders(w, s) \cup {g}
        /\ g \in Holders(v, r)
    BY LockReplaced
  <2>2. \A s \in Roots : v[s] = Missing => w[s] = Missing
    BY NothingAssumption, WorldParts DEF World, Joined
  <2>3. Note(g) \in Event /\ Note(g).galho = g /\ Note(g).phase = Missing
    BY DEF Note, Event
  <2>4. <<Note(g)>> \in Seq(Event)
        /\ \A i \in 1 .. Len(<<Note(g)>>) : <<Note(g)>>[i].galho = g /\ <<Note(g)>>[i].phase = Missing
    BY <2>3
  <2> HIDE DEF v
  <2>5. SoundOutcome(w, FireOn(v, g, "ApplyToPreview", <<Note(g)>>))
    BY <2>1, <2>2, <2>4, FireOnSound
  <2> QED BY <2>5 DEF Apply, v
<1>2. ASSUME NEW g \in Galhos, NEW m \in Commands \ {"ApplyToPreview"}
      PROVE  SoundOutcome(w, Fire(w, g, m))
  <2>1. <<>> \in Seq(Event)
        /\ \A i \in 1 .. Len(<<>>) : <<>>[i].galho = g /\ <<>>[i].phase = Missing
    OBVIOUS
  <2>2. SoundOutcome(w, FireOn(w, g, m, <<>>))
    BY <2>1, FireOnSound
  <2> QED BY <2>2 DEF Fire
<1>3. SoundOutcome(w, Success(w, <<>>))
  BY IdleSound
<1>4. \A g \in Galhos : SoundOutcome(w, Confirm(w, g))
  BY ConfirmSound
<1>5. \A g \in Galhos, D \in SUBSET Galhos : SoundOutcome(w, New(w, g, D))
  BY NewSound
<1> QED BY <1>1, <1>2, <1>3, <1>4, <1>5 DEF Outcomes

-----------------------------------------------------------------------------
(***************************************************************************)
(* The invariant, step by step.                                            *)
(***************************************************************************)
LEMMA SessionsInit == Init => SessionsInv
<1> SUFFICES ASSUME Init PROVE SessionsInv
  OBVIOUS
<1>1. /\ store \in Starts /\ session = [s \in Sessions |-> Closed]
      /\ logged = [g \in Galhos |-> PhaseIn(store, g)]
      /\ opened = 0 /\ overlapped = FALSE /\ failures = 0 /\ locked = {} /\ unlogged = {}
  BY DEF Init
<1>2. IsWorld(store) /\ Evidenced(store) /\ HoldersStored /\ StoreSound(store)
  BY <1>1, StartsAssumption DEF HoldersStored
<1>3. World(store)
  <2>1. \A x \in Names : store[x] \in Stored
    BY <1>2, StoredValues DEF IsWorld, Names
  <2> QED BY <1>2, <2>1 DEF World, IsWorld
<1>4. \A g \in Galhos : logged[g] = PhaseIn(store, g)
  BY <1>1
<1>5. logged \in [Galhos -> Phases \cup {"Absent"}]
  BY <1>1, <1>3, WorldParts
<1>6. \A s \in Sessions : ~ Open(s)
  BY <1>1 DEF Open
<1>7. ShapeInv
  <2>1. session \in [Sessions -> OpenSession \cup {Closed}]
    BY <1>1
  <2>2. opened \in 0 .. MaxSessions /\ failures \in 0 .. MaxFailures
    BY <1>1, SessionsAssumption
  <2>3. overlapped \in BOOLEAN /\ locked \subseteq Names \cup {Chain} /\ unlogged \subseteq Galhos
    BY <1>1
  <2> QED BY <1>1, <1>2, <1>3, <1>5, <1>6, <2>1, <2>2, <2>3 DEF ShapeInv
<1>8. StoredInv
  BY <1>2, <1>6 DEF StoredInv
<1>9. AloneInv
  BY <1>4, <1>6 DEF AloneInv, LogOneAhead
<1>10. CalmInv
  BY <1>2, <1>4, <1>6 DEF CalmInv, Rest
<1> QED BY <1>7, <1>8, <1>9, <1>10 DEF SessionsInv

\* A step of one session that nobody else sees.
LEMMA PrivateStep ==
  ASSUME SessionsInv, NEW s \in Sessions, Open(s), NEW d, Become(s, d),
         UNCHANGED <<store, logged, locked, opened, overlapped, failures, unlogged>>,
         SessionShape(d), Backed(store, d),
         ~ overlapped => Sole(store, logged, unlogged, d),
         ~ overlapped /\ failures = 0 => Settled(store, logged, d)
  PROVE  SessionsInv'
<1>1. /\ session' \in [Sessions -> OpenSession \cup {Closed}] /\ session'[s] = d
      /\ \A o \in Sessions \ {s} : session'[o] = session[o]
      /\ d # Closed
  BY NothingAssumption DEF Become, SessionsInv, ShapeInv, SessionShape
<1>2. \A o \in Sessions : session'[o] # Closed <=> session[o] # Closed
  BY <1>1 DEF Open
<1>3. ShapeInv'
  BY <1>1, <1>2 DEF SessionsInv, ShapeInv, Open
<1>4. StoredInv'
  BY <1>1, <1>2 DEF SessionsInv, StoredInv, HoldersStored, Open
<1>5. ~ overlapped => AloneInv'
  BY <1>1, <1>2 DEF SessionsInv, AloneInv, LogOneAhead, Open
<1>6. ~ overlapped /\ failures = 0 => CalmInv'
  BY <1>1, <1>2 DEF SessionsInv, CalmInv, Open
<1> QED BY <1>3, <1>4, <1>5, <1>6 DEF SessionsInv

\* What the invariant says of an open session.
LEMMA OpenParts ==
  ASSUME SessionsInv, NEW s \in Sessions, Open(s)
  PROVE  /\ SessionShape(session[s]) /\ Backed(store, session[s])
         /\ ~ overlapped => /\ Sole(store, logged, unlogged, session[s])
                            /\ \A o \in Sessions : Open(o) => o = s
                            /\ LogOneAhead
         /\ ~ overlapped /\ failures = 0 => Settled(store, logged, session[s])
         /\ World(store) /\ Evidenced(store) /\ HoldersStored
         /\ store \in [Names -> Stored]
  BY DEF SessionsInv, ShapeInv, StoredInv, AloneInv, CalmInv, World

LEMMA OpenChainStep ==
  ASSUME SessionsInv, NEW s \in Sessions, OpenChain(s)
  PROVE  SessionsInv'
<1> DEFINE d == [stage |-> "list", stale |-> FALSE, mem |-> Nothing, todo |-> {},
                 events |-> <<>>, ok |-> TRUE, position |-> 1, current |-> Missing]
<1>1. SaveOrder \in Seq(Names) /\ Len(SaveOrder) \in Nat
  BY NamesAssumption
<1>2. d \in OpenSession
  BY <1>1, StoredValues, NothingIsAWorld DEF OpenSession, World
<1>3. d # Closed /\ d.stage = "list" /\ d.stale = FALSE /\ d.mem = Nothing /\ d.ok = TRUE
  BY <1>2, NothingAssumption
<1>4. /\ Become(s, d) /\ opened' = opened + 1 /\ opened < MaxSessions
      /\ overlapped' = (overlapped \/ \E o \in Sessions : Open(o))
      /\ UNCHANGED <<store, logged, locked, failures, unlogged>> /\ ~ Open(s)
  BY DEF OpenChain
<1> HIDE DEF d
<1>5. /\ session' \in [Sessions -> OpenSession \cup {Closed}] /\ session'[s] = d
      /\ \A o \in Sessions \ {s} : session'[o] = session[o]
  BY <1>2, <1>4 DEF Become, SessionsInv, ShapeInv
<1>6. SessionShape(d)
  BY <1>2, <1>3, NothingIsAWorld DEF SessionShape, Saving, d
<1>7. \A r \in Roots : Holders(Nothing, r) = {}
  BY DEF Holders, Nothing, Names
<1>8. Backed(store, d)
  BY <1>3, <1>7 DEF Backed, Saving
<1>9. ShapeInv'
  <2>1. opened' \in 0 .. MaxSessions /\ overlapped' \in BOOLEAN
    BY <1>4, SessionsAssumption DEF SessionsInv, ShapeInv
  <2> QED BY <1>4, <1>5, <1>6, <2>1 DEF SessionsInv, ShapeInv, Open
<1>10. StoredInv'
  BY <1>4, <1>5, <1>8 DEF SessionsInv, StoredInv, HoldersStored, Open
<1>11. ASSUME ~ overlapped'
       PROVE  AloneInv' /\ (failures' = 0 => CalmInv')
  <2>1. ~ overlapped /\ \A o \in Sessions : ~ Open(o)
    BY <1>4, <1>11
  <2>2. \A o \in Sessions : session'[o] # Closed <=> o = s
    BY <1>3, <1>5, <2>1 DEF Open
  <2>3. Sole(store, logged, unlogged, d)
    BY <1>3 DEF Sole, Saving
  <2>4. AloneInv'
    BY <1>4, <1>5, <2>1, <2>2, <2>3 DEF SessionsInv, AloneInv, LogOneAhead, Open
  <2>5. ASSUME failures = 0
        PROVE  CalmInv'
    <3>1. Rest(store, logged)
      BY <2>1, <2>5 DEF SessionsInv, CalmInv
    <3>2. Settled(store, logged, d)
      BY <1>3, <3>1 DEF Settled, Saving
    <3> QED BY <1>4, <1>5, <2>2, <3>2 DEF CalmInv, Open
  <2> QED BY <1>4, <2>4, <2>5
<1> QED BY <1>9, <1>10, <1>11 DEF SessionsInv

LEMMA ListRefsStep ==
  ASSUME SessionsInv, NEW s \in Sessions, ListRefs(s)
  PROVE  SessionsInv'
<1> DEFINE c == session[s]
<1> DEFINE listed == { x \in Names : store[x] # Missing }
<1> DEFINE d == [c EXCEPT !.stage = "read", !.todo = listed]
<1>1. /\ Open(s) /\ c.stage = "list" /\ Become(s, d)
      /\ UNCHANGED <<store, logged, locked, opened, overlapped, failures, unlogged>>
  BY DEF ListRefs, At
<1>2. c \in OpenSession
  BY <1>1, OpenParts DEF SessionShape
<1>3. /\ d \in OpenSession /\ d.stage = "read" /\ d.todo = listed
      /\ d.mem = c.mem /\ d.ok = c.ok /\ d.stale = c.stale /\ d.position = c.position
  BY <1>2 DEF OpenSession
<1> HIDE DEF d
<1>4. SessionShape(d)
  BY <1>1, <1>3, OpenParts DEF SessionShape, Saving
<1>5. Backed(store, d)
  BY <1>1, <1>3, OpenParts DEF Backed, Saving
<1>6. ASSUME ~ overlapped
      PROVE  Sole(store, logged, unlogged, d)
  <2>1. c.mem = Nothing /\ c.stale = FALSE
    BY <1>1, <1>6, OpenParts DEF Sole
  <2>2. \A x \in Names : x \in listed \/ Nothing[x] = store[x]
    BY DEF Nothing
  <2> QED BY <1>3, <2>1, <2>2 DEF Sole, Saving
<1>7. ~ overlapped /\ failures = 0 => Settled(store, logged, d)
  BY <1>1, <1>3, OpenParts DEF Settled, Saving
<1> QED BY <1>1, <1>4, <1>5, <1>6, <1>7, PrivateStep

LEMMA ReadRefStep ==
  ASSUME SessionsInv, NEW s \in Sessions, ReadRef(s)
  PROVE  SessionsInv'
<1> DEFINE c == session[s]
<1>1. PICK x \in c.todo : Become(s, [c EXCEPT !.mem[x] = store[x], !.todo = @ \ {x}])
  BY DEF ReadRef, Restored
<1> DEFINE d == [c EXCEPT !.mem[x] = store[x], !.todo = @ \ {x}]
<1>2. /\ Open(s) /\ c.stage = "read"
      /\ UNCHANGED <<store, logged, locked, opened, overlapped, failures, unlogged>>
  BY DEF ReadRef, At
<1>3. c \in OpenSession /\ World(c.mem) /\ Evidenced(c.mem) /\ c.mem \in [Names -> Stored]
  BY <1>2, OpenParts DEF SessionShape, World
<1>4. x \in Names /\ store[x] \in Stored /\ World(store) /\ Evidenced(store)
  BY <1>2, <1>3, OpenParts DEF OpenSession
<1>5. /\ d \in OpenSession /\ d.stage = "read" /\ d.todo = c.todo \ {x}
      /\ d.mem = [c.mem EXCEPT ![x] = store[x]] /\ d.ok = c.ok /\ d.stale = c.stale
      /\ d.position = c.position
  BY <1>2, <1>3, <1>4 DEF OpenSession
<1>6. Become(s, d)
  BY <1>1
<1> HIDE DEF d
<1>7. \A y \in Names : d.mem[y] = c.mem[y] \/ d.mem[y] = store[y]
  BY <1>3, <1>4, <1>5
<1>8. World(d.mem) /\ Evidenced(d.mem)
  <2>1. d.mem \in [Names -> Stored]
    BY <1>5 DEF OpenSession
  <2>2. World(d.mem)
    <3>1. \A g \in Galhos : d.mem[g] = Missing \/ d.mem[g] \in Context
      BY <1>3, <1>4, <1>7, WorldParts DEF World, IsWorld
    <3>2. \A r \in Roots : d.mem[r] = Missing \/ (d.mem[r] \subseteq Galhos /\ d.mem[r] # {})
      BY <1>3, <1>4, <1>7, WorldParts DEF World, IsWorld
    <3> QED BY <2>1, <3>1, <3>2, IsAWorld
  <2>3. Evidenced(d.mem)
    BY <1>3, <1>4, <1>7, WorldParts DEF Evidenced, Exists
  <2> QED BY <2>2, <2>3
<1>9. SessionShape(d)
  BY <1>2, <1>5, <1>8, OpenParts DEF SessionShape, Saving
<1>10. Backed(store, d)
  <2>1. c.ok /\ \A r \in Roots : \A g \in Holders(c.mem, r) : Exists(store, g)
    BY <1>2, OpenParts DEF Backed
  <2>2. \A r \in Roots : \A g \in Holders(store, r) : Exists(store, g)
    BY <1>2, OpenParts DEF HoldersStored, HoldersIn
  <2>3. \A r \in Roots : \A g \in Holders(d.mem, r) : Exists(store, g)
    BY <1>3, <1>7, <2>1, <2>2, WorldParts DEF Holders
  <2> QED BY <1>5, <2>1, <2>3 DEF Backed, Saving
<1>11. ~ overlapped => Sole(store, logged, unlogged, d)
  <2>1. ASSUME ~ overlapped
        PROVE  \A y \in Names : y \in d.todo \/ d.mem[y] = store[y]
    <3>1. \A y \in Names : y \in c.todo \/ c.mem[y] = store[y]
      BY <1>2, <2>1, OpenParts DEF Sole
    <3> QED BY <1>3, <1>4, <1>5, <3>1
  <2> QED BY <1>2, <1>5, <2>1, OpenParts DEF Sole, Saving
<1>12. ~ overlapped /\ failures = 0 => Settled(store, logged, d)
  BY <1>2, <1>5, OpenParts DEF Settled, Saving
<1> QED BY <1>2, <1>6, <1>9, <1>10, <1>11, <1>12, PrivateStep

LEMMA RunStep ==
  ASSUME SessionsInv, NEW s \in Sessions, Run(s)
  PROVE  SessionsInv'
<1> DEFINE c == session[s]
<1>1. PICK o \in Outcomes(c.mem) :
        Become(s, [c EXCEPT !.stage = "log", !.mem = o.world, !.events = o.events, !.ok = o.ok])
  BY DEF Run
<1> DEFINE v == o.world
<1> DEFINE d == [c EXCEPT !.stage = "log", !.mem = o.world, !.events = o.events, !.ok = o.ok]
<1>2. /\ Open(s) /\ c.stage = "read" /\ c.todo = {}
      /\ UNCHANGED <<store, logged, locked, opened, overlapped, failures, unlogged>>
  BY DEF Run, At
<1>3. c \in OpenSession /\ World(c.mem) /\ Evidenced(c.mem) /\ c.mem \in [Names -> Stored]
  BY <1>2, OpenParts DEF SessionShape, World
<1>4. SoundOutcome(c.mem, o)
  BY <1>3, OutcomesSound
<1>5. /\ World(v) /\ v \in [Names -> Stored] /\ Evidenced(v) /\ o.events \in Seq(Event)
      /\ \A x \in Names : v[x] = Missing => c.mem[x] = Missing
      /\ o.ok \in BOOLEAN
      /\ ~ o.ok => \A i \in 1 .. Len(o.events) : o.events[i].phase = Missing
      /\ o.ok => Fruitful(c.mem, v, o.events)
  BY <1>4 DEF SoundOutcome, Harmless, World
<1>6. /\ d \in OpenSession /\ d.stage = "log" /\ d.mem = v /\ d.events = o.events
      /\ d.ok = o.ok /\ d.stale = c.stale /\ d.position = c.position
  BY <1>3, <1>5 DEF OpenSession
<1>7. Become(s, d)
  BY <1>1
<1> HIDE DEF d
<1>8. SessionShape(d)
  BY <1>2, <1>5, <1>6, OpenParts DEF SessionShape, Saving
<1>9. Backed(store, d)
  <2>1. \A r \in Roots : \A g \in Holders(c.mem, r) : Exists(store, g)
    BY <1>2, OpenParts DEF Backed
  <2>2. o.ok => \A r \in Roots : \A g \in Holders(v, r) : Exists(store, g) \/ Exists(v, g)
    BY <1>5, <2>1 DEF Fruitful
  <2> QED BY <1>6, <2>2 DEF Backed, Saving
<1>10. ASSUME ~ overlapped
       PROVE  Sole(store, logged, unlogged, d) /\ (failures = 0 => Settled(store, logged, d))
  <2>1. c.stale = FALSE /\ \A x \in Names : c.mem[x] = store[x]
    BY <1>2, <1>10, OpenParts DEF Sole
  <2>2. c.mem = store
    <3>1. store \in [Names -> Stored]
      BY <1>2, OpenParts
    <3> QED BY <1>3, <2>1, <3>1
  <2>3. ASSUME o.ok
        PROVE  Ahead(store, logged, unlogged, d)
    <3>1. Fruitful(store, v, d.events)
      BY <1>5, <1>6, <2>2, <2>3
    <3>2. \A g \in Galhos :
            \/ PhaseIn(v, g) = PhaseIn(store, g)
            \/ OneMove(PhaseIn(store, g), PhaseIn(v, g)) /\ MoveDue(d, g)
      BY <3>1 DEF Fruitful, MoveDue
    <3>3. \A i \in 1 .. Len(d.events) : d.events[i].phase # Missing =>
            /\ d.events[i].phase = PhaseIn(v, d.events[i].galho)
            /\ OneMove(PhaseIn(store, d.events[i].galho), d.events[i].phase)
      BY <3>1 DEF Fruitful
    <3> QED BY <1>5, <1>6, <2>1, <3>2, <3>3 DEF Ahead
  <2>4. Sole(store, logged, unlogged, d)
    BY <1>5, <1>6, <2>1, <2>3 DEF Sole, Saving
  <2>5. ASSUME failures = 0
        PROVE  Settled(store, logged, d)
    <3>1. Rest(store, logged)
      BY <1>2, <1>10, <2>5, OpenParts DEF Settled
    <3>2. o.ok => StoreSound(v)
      BY <1>5, <2>2, <3>1 DEF Fruitful, Rest
    <3>3. o.ok => \A g \in Galhos : logged[g] = PhaseIn(v, g) \/ MoveDue(d, g)
      BY <1>5, <1>6, <2>2, <3>1 DEF Fruitful, Rest, MoveDue
    <3> QED BY <1>6, <3>1, <3>2, <3>3 DEF Settled, Saving
  <2> QED BY <2>4, <2>5
<1> QED BY <1>2, <1>7, <1>8, <1>9, <1>10, PrivateStep

LEMMA StartCheckpointStep ==
  ASSUME SessionsInv, NEW s \in Sessions, StartCheckpoint(s)
  PROVE  SessionsInv'
<1> DEFINE c == session[s]
<1> DEFINE d == [c EXCEPT !.stage = "save"]
<1>1. /\ Open(s) /\ c.stage = "log" /\ c.events = <<>> /\ c.ok /\ Become(s, d)
      /\ UNCHANGED <<store, logged, locked, opened, overlapped, failures, unlogged>>
  BY DEF StartCheckpoint, At, Checkpoints
<1>2. c \in OpenSession
  BY <1>1, OpenParts DEF SessionShape
<1>3. /\ d \in OpenSession /\ d.stage = "save" /\ d.mem = c.mem /\ d.events = c.events
      /\ d.ok = c.ok /\ d.stale = c.stale /\ d.position = c.position
  BY <1>2 DEF OpenSession
<1> HIDE DEF d
<1>4. SessionShape(d)
  BY <1>1, <1>3, OpenParts DEF SessionShape, Saving
<1>5. c.position = 1
  BY <1>1, OpenParts DEF SessionShape, Saving
<1>6. Backed(store, d)
  <2>1. \A i \in 1 .. Len(SaveOrder) : ~ (i < d.position)
    BY <1>3, <1>5, NamesAssumption
  <2> QED BY <1>1, <1>3, <2>1, OpenParts DEF Backed, Saving
<1>7. ~ overlapped => Sole(store, logged, unlogged, d)
  <2>1. ~ overlapped => Ahead(store, logged, unlogged, c) /\ c.stale = FALSE
    BY <1>1, OpenParts DEF Sole
  <2>2. Ahead(store, logged, unlogged, c) => Ahead(store, logged, unlogged, d)
    BY <1>3 DEF Ahead, MoveDue
  <2> QED BY <1>1, <1>3, <2>1, <2>2 DEF Sole, Saving
<1>8. ~ overlapped /\ failures = 0 => Settled(store, logged, d)
  <2>1. \A g \in Galhos : ~ MoveDue(c, g)
    BY <1>1 DEF MoveDue
  <2>2. \A i \in 1 .. Len(SaveOrder) : ~ (i < d.position)
    BY <1>3, <1>5, NamesAssumption
  <2> QED BY <1>1, <1>3, <2>1, <2>2, OpenParts DEF Settled, Saving, Rest
<1> QED BY <1>1, <1>4, <1>6, <1>7, <1>8, PrivateStep

LEMMA ReadCurrentStep ==
  ASSUME SessionsInv, NEW s \in Sessions, ReadCurrent(s)
  PROVE  SessionsInv'
<1> DEFINE c == session[s]
<1> DEFINE x == SavedAt(c.position)
<1> DEFINE d == IF c.mem[x] = Missing THEN [c EXCEPT !.position = @ + 1]
                ELSE [c EXCEPT !.stage = "cas", !.current = store[x]]
<1>1. /\ Open(s) /\ c.stage = "save" /\ c.position <= Len(SaveOrder) /\ Become(s, d)
      /\ UNCHANGED <<store, logged, locked, opened, overlapped, failures, unlogged>>
  BY DEF ReadCurrent, At
<1>2. c \in OpenSession /\ c.position \in 1 .. Len(SaveOrder) + 1 /\ Len(SaveOrder) \in Nat
  BY <1>1, OpenParts, NamesAssumption DEF SessionShape, OpenSession
<1>3. x \in Names /\ store[x] \in Stored /\ Fits(x, store[x])
  <2>1. x \in Names
    BY <1>1, <1>2, NamesAssumption DEF SavedAt
  <2> HIDE DEF x
  <2> QED BY <1>1, <2>1, OpenParts DEF World, IsWorld, Fits
<1>4. /\ d \in OpenSession /\ d.mem = c.mem /\ d.events = c.events
      /\ d.ok = c.ok /\ d.stale = c.stale
      /\ \/ d.stage = "save" /\ d.position = c.position + 1 /\ c.mem[x] = Missing
         \/ d.stage = "cas" /\ d.position = c.position /\ c.mem[x] # Missing /\ d.current = store[x]
  <2>1. CASE c.mem[x] = Missing
    <3>1. d = [c EXCEPT !.position = c.position + 1] /\ c.position + 1 \in 1 .. Len(SaveOrder) + 1
      BY <1>1, <1>2, <2>1
    <3> HIDE DEF d, x
    <3> QED BY <1>1, <1>2, <2>1, <3>1 DEF OpenSession
  <2>2. CASE c.mem[x] # Missing
    <3>1. d = [c EXCEPT !.stage = "cas", !.current = store[x]]
      BY <2>2
    <3> HIDE DEF d, x
    <3> QED BY <1>1, <1>2, <1>3, <2>2, <3>1 DEF OpenSession
  <2> QED BY <2>1, <2>2
<1> HIDE DEF d
<1>5. SessionShape(d)
  BY <1>1, <1>3, <1>4, OpenParts DEF SessionShape, Saving
<1>6. \A i \in 1 .. Len(SaveOrder) : i < d.position =>
        i < c.position \/ c.mem[SavedAt(i)] = Missing
  BY <1>2, <1>4
<1>7. Backed(store, d)
  BY <1>1, <1>4, <1>6, OpenParts DEF Backed, Saving
<1>8. ~ overlapped => Sole(store, logged, unlogged, d)
  <2>1. ~ overlapped => Ahead(store, logged, unlogged, c) /\ c.stale = FALSE /\ c.events = <<>>
    BY <1>1, OpenParts DEF Sole, Saving
  <2>2. Ahead(store, logged, unlogged, c) => Ahead(store, logged, unlogged, d)
    BY <1>4 DEF Ahead, MoveDue
  <2> QED BY <1>4, <2>1, <2>2 DEF Sole, Saving
<1>9. ~ overlapped /\ failures = 0 => Settled(store, logged, d)
  BY <1>1, <1>4, <1>6, OpenParts DEF Settled, Saving
<1> QED BY <1>1, <1>5, <1>7, <1>8, <1>9, PrivateStep

\* An append of one session makes the head stale that another has read.
LEMMA StaleMade ==
  ASSUME NEW c \in OpenSession, NEW b \in BOOLEAN, NEW d, d = [c EXCEPT !.stale = b]
  PROVE  /\ d \in OpenSession
         /\ d.stage = c.stage /\ d.mem = c.mem /\ d.ok = c.ok /\ d.position = c.position
         /\ d.current = c.current
  BY DEF OpenSession

\* An event leaves c's memory for the chain, or is lost.
LEMMA EventStep ==
  ASSUME SessionsInv, NEW s \in Sessions, Logging(s), NEW taken \in BOOLEAN,
         logged' = IF taken /\ Due(s).phase # Missing
                   THEN [logged EXCEPT ![Due(s).galho] = Due(s).phase] ELSE logged,
         unlogged' = IF Due(s).phase = Missing THEN unlogged
                     ELSE IF taken THEN unlogged \ {Due(s).galho}
                     ELSE unlogged \cup {Due(s).galho},
         session' = [o \in Sessions |->
                       IF o = s THEN Onward(s)
                       ELSE IF taken /\ Open(o) THEN [session[o] EXCEPT !.stale = TRUE]
                       ELSE session[o]],
         UNCHANGED <<store, opened, overlapped>>,
         locked' \subseteq Names \cup {Chain}, failures' \in 0 .. MaxFailures,
         failures' = 0 => failures = 0 /\ locked' = {},
         taken \/ overlapped \/ failures' # 0
  PROVE  SessionsInv'
<1> DEFINE c == session[s]
<1> DEFINE e == Head(c.events)
<1> DEFINE d == [c EXCEPT !.events = Tail(@)]
<1>1. /\ Open(s) /\ c.stage = "log" /\ c.events # <<>>
      /\ UNCHANGED <<store, opened, overlapped>>
  BY DEF Logging, At
<1>2. /\ logged' = IF taken /\ e.phase # Missing THEN [logged EXCEPT ![e.galho] = e.phase]
                   ELSE logged
      /\ unlogged' = IF e.phase = Missing THEN unlogged
                     ELSE IF taken THEN unlogged \ {e.galho} ELSE unlogged \cup {e.galho}
      /\ session' = [o \in Sessions |->
           IF o = s THEN d
           ELSE IF taken /\ Open(o) THEN [session[o] EXCEPT !.stale = TRUE]
           ELSE session[o]]
  BY DEF Due, Onward
<1>3. c \in OpenSession /\ c.events \in Seq(Event)
  BY <1>1, OpenParts DEF SessionShape, OpenSession
<1>4. /\ e \in Event /\ e = c.events[1] /\ Len(c.events) \in Nat /\ Len(c.events) >= 1
      /\ Tail(c.events) \in Seq(Event) /\ Len(Tail(c.events)) = Len(c.events) - 1
      /\ \A i \in 1 .. Len(Tail(c.events)) : Tail(c.events)[i] = c.events[i + 1]
  BY <1>1, <1>3
<1>5. /\ d \in OpenSession /\ d.stage = "log" /\ d.events = Tail(c.events) /\ d.mem = c.mem
      /\ d.ok = c.ok /\ d.stale = c.stale /\ d.position = c.position
  BY <1>1, <1>3, <1>4 DEF OpenSession
<1>6. e.galho \in Galhos /\ (e.phase # Missing => e.phase \in Phases)
  BY <1>4 DEF Event
<1>7. logged \in [Galhos -> Phases \cup {"Absent"}]
  BY DEF SessionsInv, ShapeInv
<1>8. /\ logged' \in [Galhos -> Phases \cup {"Absent"}]
      /\ \A g \in Galhos : logged'[g] = IF taken /\ e.phase # Missing /\ g = e.galho
                                        THEN e.phase ELSE logged[g]
  <2> HIDE DEF e
  <2> QED BY <1>2, <1>6, <1>7
<1> HIDE DEF d, e
<1>9. \A o \in Sessions \ {s} : Open(o) =>
        /\ session'[o] \in OpenSession
        /\ session'[o].stage = session[o].stage /\ session'[o].mem = session[o].mem
        /\ session'[o].ok = session[o].ok /\ session'[o].position = session[o].position
        /\ session'[o].current = session[o].current
  <2> SUFFICES ASSUME NEW o \in Sessions \ {s}, Open(o)
               PROVE  /\ session'[o] \in OpenSession
                      /\ session'[o].stage = session[o].stage
                      /\ session'[o].mem = session[o].mem /\ session'[o].ok = session[o].ok
                      /\ session'[o].position = session[o].position
                      /\ session'[o].current = session[o].current
    OBVIOUS
  <2>1. session'[o] = session[o] \/ session'[o] = [session[o] EXCEPT !.stale = TRUE]
    BY <1>2
  <2>2. session[o] \in OpenSession
    BY OpenParts DEF SessionShape
  <2>3. CASE session'[o] = session[o]
    BY <2>2, <2>3
  <2>4. CASE session'[o] = [session[o] EXCEPT !.stale = TRUE]
    BY <2>2, <2>4, StaleMade, ZenonT(60)
  <2> QED BY <2>1, <2>3, <2>4
<1>10. \A o \in Sessions \ {s} : ~ Open(o) => session'[o] = session[o] /\ session'[o] = Closed
  BY <1>2 DEF Open
<1>11. session'[s] = d /\ \A o \in Sessions : session'[o] # Closed <=> Open(o)
  <2>1. session'[s] = d /\ d # Closed
    BY <1>2, <1>5, NothingAssumption
  <2> QED BY <1>1, <1>9, <1>10, <2>1, NothingAssumption, ZenonT(60)
<1>12. session' \in [Sessions -> OpenSession \cup {Closed}]
  <2>1. session' = [o \in Sessions |-> session'[o]]
    BY <1>2
  <2> QED BY <1>5, <1>9, <1>10, <1>11, <2>1
<1>13. SessionShape(d) /\ Backed(store, d)
  BY <1>1, <1>5, OpenParts DEF SessionShape, Backed, Saving
<1>17. unlogged' \subseteq Galhos
  BY <1>2, <1>6 DEF SessionsInv, ShapeInv
<1>14. ShapeInv'
  <2>1. \A o \in Sessions : Open(o) => SessionShape(session'[o])
    BY <1>9, <1>11, <1>13, OpenParts DEF SessionShape, Saving
  <2> QED BY <1>1, <1>8, <1>11, <1>12, <1>17, <2>1 DEF SessionsInv, ShapeInv, Open
<1>15. StoredInv'
  <2>1. \A o \in Sessions : Open(o) => Backed(store, session'[o])
    BY <1>9, <1>11, <1>13, OpenParts DEF Backed, Saving
  <2> QED BY <1>1, <1>11, <2>1 DEF SessionsInv, StoredInv, HoldersStored, Open
<1>16. ASSUME ~ overlapped
       PROVE  AloneInv' /\ (failures' = 0 => CalmInv')
  <2>1. /\ c.stale = FALSE /\ \A o \in Sessions : Open(o) <=> o = s
        /\ LogOneAhead /\ Sole(store, logged, unlogged, c)
    BY <1>1, <1>16, OpenParts DEF Sole
  <2>2. CASE ~ c.ok
    <3>6. \A i \in 1 .. Len(c.events) : c.events[i].phase = Missing
      BY <1>1, <2>1, <2>2 DEF Sole
    <3>7. \A i \in 1 .. Len(d.events) : i + 1 \in 1 .. Len(c.events) /\ d.events[i] = c.events[i + 1]
      BY <1>4, <1>5
    <3>1. e.phase = Missing /\ \A i \in 1 .. Len(d.events) : d.events[i].phase = Missing
      BY <1>4, <3>6, <3>7, SMTT(30)
    <3>2. (\A g \in Galhos : logged'[g] = logged[g]) /\ unlogged' = unlogged
      BY <1>2, <1>8, <3>1
    <3>3. Sole(store, logged', unlogged', d)
      BY <1>5, <2>1, <2>2, <3>1 DEF Sole, Saving
    <3>4. AloneInv'
      BY <1>1, <1>11, <2>1, <3>2, <3>3 DEF AloneInv, LogOneAhead, Open
    <3>5. failures' = 0 => Settled(store, logged', d)
      BY <1>1, <1>5, <1>16, <2>2, <3>2, OpenParts DEF Settled, Saving, Rest
    <3> QED BY <1>1, <1>11, <2>1, <3>4, <3>5 DEF CalmInv, Open
  <2>3. CASE c.ok
    <3>1. Ahead(store, logged, unlogged, c)
      BY <1>1, <2>1, <2>3 DEF Sole
    <3>2. e.phase # Missing => /\ e.phase = PhaseIn(c.mem, e.galho)
                               /\ OneMove(PhaseIn(store, e.galho), e.phase)
      BY <1>4, <3>1 DEF Ahead
    <3>3. \A g \in Galhos : MoveDue(c, g) =>
            MoveDue(d, g) \/ (e.galho = g /\ e.phase # Missing)
      <4>1. ASSUME NEW g \in Galhos, NEW i \in 1 .. Len(c.events),
                   c.events[i].galho = g, c.events[i].phase # Missing, i # 1
            PROVE  MoveDue(d, g)
        <5>1. i - 1 \in 1 .. Len(d.events) /\ d.events[i - 1] = c.events[i]
          BY <1>4, <1>5, <4>1
        <5> QED BY <4>1, <5>1 DEF MoveDue
      <4> QED BY <1>4, <4>1 DEF MoveDue
    <3>4. \A g \in Galhos : logged[g] = PhaseIn(c.mem, g) \/ MoveDue(c, g) \/ g \in unlogged =>
            logged'[g] = PhaseIn(d.mem, g) \/ MoveDue(d, g) \/ g \in unlogged'
      BY <1>2, <1>5, <1>8, <3>2, <3>3
    <3>10. ASSUME taken
           PROVE  \A g \in Galhos : logged[g] = PhaseIn(c.mem, g) \/ MoveDue(c, g) =>
                    logged'[g] = PhaseIn(d.mem, g) \/ MoveDue(d, g)
      BY <1>5, <1>8, <3>2, <3>3, <3>10
    <3>5. Ahead(store, logged', unlogged', d)
      <4>1. \A i \in 1 .. Len(d.events) : \E j \in 1 .. Len(c.events) : d.events[i] = c.events[j]
        BY <1>4, <1>5, SMTT(30)
      <4> QED BY <1>5, <3>1, <3>4, <4>1, ZenonT(60) DEF Ahead
    <3>6. LogOneAhead'
      BY <1>1, <1>2, <1>6, <1>8, <1>16, <2>1, <3>2 DEF LogOneAhead
    <3>7. Sole(store, logged', unlogged', d)
      BY <1>5, <2>1, <2>3, <3>5 DEF Sole, Saving
    <3>8. AloneInv'
      BY <1>1, <1>11, <2>1, <3>6, <3>7 DEF AloneInv, Open
    <3>9. failures' = 0 => Settled(store, logged', d)
      BY <1>1, <1>5, <1>16, <2>3, <3>10, OpenParts DEF Settled, Saving
    <3> QED BY <1>1, <1>11, <2>1, <3>8, <3>9 DEF CalmInv, Open
  <2> QED BY <2>2, <2>3
<1> QED BY <1>1, <1>14, <1>15, <1>16 DEF SessionsInv

LEMMA LogStep ==
  ASSUME SessionsInv, NEW s \in Sessions, Log(s)
  PROVE  SessionsInv'
<1>1. /\ Logging(s) /\ UNCHANGED <<store, locked, opened, overlapped, failures>>
      /\ failures' \in 0 .. MaxFailures /\ locked' \subseteq Names \cup {Chain}
      /\ failures' = 0 => failures = 0 /\ locked' = {}
  BY DEF Log, SessionsInv, ShapeInv
<1>2. CASE Appended(s)
  BY <1>1, <1>2, EventStep DEF Appended
<1>3. CASE Blocked(s) /\ Dropped(s)
  <2>1. overlapped \/ failures' # 0
    <3>1. SUFFICES ASSUME ~ overlapped, failures = 0 PROVE FALSE
      BY <1>1
    <3>2. Chain \notin locked /\ Open(s)
      BY <1>1, <3>1 DEF SessionsInv, ShapeInv, Logging, At
    <3>3. ~ session[s].stale /\ \A o \in Sessions \ {s} : ~ Logging(o)
      BY <3>1, <3>2, OpenParts DEF Sole, Logging, At
    <3> QED BY <1>3, <3>2, <3>3 DEF Blocked
  <2>2. session' = [o \in Sessions |-> IF o = s THEN Onward(s) ELSE session[o]]
    BY <1>3 DEF Dropped, Become, SessionsInv, ShapeInv
  <2> QED BY <1>1, <1>3, <2>1, <2>2, EventStep DEF Dropped
<1> QED BY <1>2, <1>3 DEF Log

LEMMA LogFailsStep ==
  ASSUME SessionsInv, NEW s \in Sessions, LogFails(s)
  PROVE  SessionsInv'
<1>1. /\ Logging(s) /\ UNCHANGED <<store, opened, overlapped>>
      /\ locked' \subseteq Names \cup {Chain}
      /\ failures' \in 0 .. MaxFailures /\ failures' # 0
  BY SessionsAssumption DEF LogFails, Fail, SessionsInv, ShapeInv
<1>2. CASE Appended(s)
  BY <1>1, <1>2, EventStep DEF Appended
<1>3. CASE Dropped(s)
  <2>1. session' = [o \in Sessions |-> IF o = s THEN Onward(s) ELSE session[o]]
    BY <1>3 DEF Dropped, Become, SessionsInv, ShapeInv
  <2> QED BY <1>1, <1>3, <2>1, EventStep DEF Dropped
<1> QED BY <1>2, <1>3 DEF LogFails

LEMMA CasRefStep ==
  ASSUME SessionsInv, NEW s \in Sessions, CasRef(s)
  PROVE  SessionsInv'
<1> DEFINE c == session[s]
<1> DEFINE x == SavedAt(c.position)
<1> DEFINE d == [c EXCEPT !.stage = "save", !.position = @ + 1, !.current = Missing]
<1>1. /\ Open(s) /\ c.stage = "cas" /\ Become(s, d)
      /\ store[x] = c.current /\ store' = [store EXCEPT ![x] = c.mem[x]]
      /\ UNCHANGED <<logged, opened, overlapped, unlogged>>
      /\ \/ UNCHANGED <<locked, failures>>
         \/ locked' = locked \cup {x} /\ Fail
  BY DEF CasRef, At, Saved
<1>2. /\ c \in OpenSession /\ c.position \in 1 .. Len(SaveOrder) /\ Len(SaveOrder) \in Nat
      /\ World(c.mem) /\ Evidenced(c.mem) /\ c.mem[x] # Missing
  BY <1>1, OpenParts, NamesAssumption DEF SessionShape, OpenSession
<1>3. x \in Names /\ c.mem[x] \in Stored
  <2>1. x \in Names
    BY <1>2, NamesAssumption DEF SavedAt
  <2> HIDE DEF x
  <2> QED BY <1>2, <2>1 DEF World
<1>4. /\ d \in OpenSession /\ d.stage = "save" /\ d.position = c.position + 1
      /\ d.mem = c.mem /\ d.events = c.events /\ d.ok = c.ok /\ d.stale = c.stale
  <2>1. c.position + 1 \in 1 .. Len(SaveOrder) + 1
    BY <1>2
  <2> QED BY <1>2, <2>1, StoredValues DEF OpenSession
<1> HIDE DEF d
<1>5. x = SavedAt(c.position)
  OBVIOUS
<1> HIDE DEF x
<1>6. /\ store \in [Names -> Stored] /\ store' \in [Names -> Stored]
      /\ store'[x] = c.mem[x] /\ \A y \in Names \ {x} : store'[y] = store[y]
  BY <1>1, <1>3, OpenParts
<1>7. World(store') /\ Evidenced(store')
  <2>1. \A y \in Names : store'[y] = store[y] \/ store'[y] = c.mem[y]
    BY <1>6
  <2>2. \A g \in Galhos : store'[g] = Missing \/ store'[g] \in Context
    BY <1>1, <1>2, <2>1, OpenParts, WorldParts DEF World, IsWorld
  <2>3. \A r \in Roots : store'[r] = Missing \/ (store'[r] \subseteq Galhos /\ store'[r] # {})
    BY <1>1, <1>2, <2>1, OpenParts, WorldParts DEF World, IsWorld
  <2>4. Evidenced(store')
    BY <1>1, <1>2, <2>1, OpenParts, WorldParts DEF Evidenced, Exists
  <2> QED BY <1>6, <2>2, <2>3, <2>4, IsAWorld
<1>8. \A y \in Names : store[y] # Missing => store'[y] # Missing
  BY <1>2, <1>6
<1>9. /\ session' \in [Sessions -> OpenSession \cup {Closed}] /\ session'[s] = d
      /\ \A o \in Sessions \ {s} : session'[o] = session[o]
      /\ d # Closed
  BY <1>1, <1>4, NothingAssumption DEF Become, SessionsInv, ShapeInv
<1>10. \A o \in Sessions : session'[o] # Closed <=> session[o] # Closed
  BY <1>1, <1>9 DEF Open
<1>11. SessionShape(d)
  BY <1>2, <1>4 DEF SessionShape, Saving
<1>21. /\ failures' \in 0 .. MaxFailures /\ locked' \subseteq Names \cup {Chain}
       /\ failures' = 0 => failures = 0 /\ locked' = {}
  BY <1>1, <1>3, SessionsAssumption DEF SessionsInv, ShapeInv, Fail
<1>12. ShapeInv'
  BY <1>1, <1>7, <1>9, <1>10, <1>11, <1>21 DEF SessionsInv, ShapeInv, Open
<1>13. \A i \in 1 .. Len(SaveOrder) : i < d.position => i < c.position \/ SavedAt(i) = x
  BY <1>2, <1>4, <1>5
<1>14. \A i \in 1 .. Len(SaveOrder) : SavedAt(i) \in Names
  BY NamesAssumption DEF SavedAt
<1>15. \A g \in Galhos : Exists(store, g) => Exists(store', g)
  BY <1>8 DEF Exists, Names
<1>16. ASSUME NEW o \in Sessions, Open(o)
       PROVE  Backed(store', session[o])
  <2>1. Backed(store, session[o]) /\ World(session[o].mem)
    BY <1>16, OpenParts DEF SessionShape
  <2>2. \A r \in Roots : Holders(session[o].mem, r) \subseteq Galhos
    BY <2>1, WorldParts
  <2> QED BY <1>8, <1>14, <1>15, <2>1, <2>2 DEF Backed
<1>17. Backed(store', d)
  <2>1. Backed(store', c)
    BY <1>1, <1>16
  <2>2. store'[x] # Missing
    BY <1>2, <1>6
  <2> QED BY <1>1, <1>4, <1>13, <2>1, <2>2 DEF Backed, Saving
<1>18. HoldersStored'
  <2>1. ASSUME NEW r \in Roots, NEW g \in Holders(store', r), r = x
        PROVE  Exists(store', g)
    <3>1. g \in Holders(c.mem, r) /\ g \in Galhos
      BY <1>2, <1>6, <2>1, WorldParts DEF Holders
    <3>2. Exists(store, g) \/ Exists(c.mem, g)
      BY <1>1, <3>1, OpenParts DEF Backed, Saving
    <3>3. PICK i \in 1 .. Len(SaveOrder) : SavedAt(i) = g
      BY <3>1, NamesAssumption DEF SavedAt, Names
    <3>4. i < c.position
      BY <1>2, <1>5, <2>1, <3>1, <3>3, NamesAssumption DEF SavedAt
    <3>5. Exists(c.mem, g) => Exists(store, g)
      BY <1>1, <3>3, <3>4, OpenParts DEF Backed, Saving, Exists
    <3> QED BY <1>15, <3>1, <3>2, <3>5
  <2>2. ASSUME NEW r \in Roots, NEW g \in Holders(store', r), r # x
        PROVE  Exists(store', g)
    <3>1. g \in Holders(store, r)
      BY <1>6, <2>2 DEF Holders, Names
    <3>2. g \in Galhos /\ Exists(store, g)
      BY <1>1, <3>1, OpenParts, WorldParts DEF HoldersStored, HoldersIn
    <3> QED BY <1>15, <3>2
  <2> QED BY <2>1, <2>2 DEF HoldersStored, HoldersIn
<1>19. StoredInv'
  BY <1>9, <1>10, <1>16, <1>17, <1>18 DEF StoredInv, Open
<1>20. ASSUME ~ overlapped
       PROVE  AloneInv' /\ (failures = 0 => CalmInv')
  <2>1. /\ c.stale = FALSE /\ \A o \in Sessions : Open(o) <=> o = s
        /\ LogOneAhead /\ c.events = <<>> /\ Ahead(store, logged, unlogged, c)
    BY <1>1, <1>20, OpenParts DEF Sole, Saving
  <2>2. \A g \in Galhos : ~ MoveDue(c, g)
    BY <2>1 DEF MoveDue
  <2>3. \A g \in Galhos : PhaseIn(store', g) = PhaseIn(store, g) \/ PhaseIn(store', g) = PhaseIn(c.mem, g)
    BY <1>6 DEF PhaseIn, Exists, Names
  <2>4. LogOneAhead'
    BY <1>1, <1>20, <2>1, <2>2, <2>3 DEF LogOneAhead, Ahead
  <2>5. Ahead(store', logged, unlogged, d)
    <3>1. \A g \in Galhos : ~ (PhaseIn(c.mem, g) = PhaseIn(store', g)) =>
            /\ OneMove(PhaseIn(store', g), PhaseIn(c.mem, g))
            /\ logged[g] = PhaseIn(c.mem, g) \/ g \in unlogged
      BY <2>1, <2>2, <2>3 DEF Ahead
    <3>2. \A y \in Names : c.mem[y] = Missing => store'[y] = Missing
      BY <1>2, <1>6, <2>1 DEF Ahead
    <3>3. Len(d.events) = 0
      BY <1>4, <2>1
    <3> QED BY <1>4, <3>1, <3>2, <3>3 DEF Ahead
  <2>6. Sole(store', logged, unlogged, d)
    BY <1>4, <2>1, <2>5 DEF Sole, Saving
  <2>7. AloneInv'
    BY <1>1, <1>9, <1>10, <2>1, <2>4, <2>6 DEF AloneInv, Open
  <2>8. ASSUME failures = 0
        PROVE  Settled(store', logged, d)
    <3>1. /\ Rest(c.mem, logged)
          /\ \A i \in 1 .. Len(SaveOrder) : i < c.position =>
               c.mem[SavedAt(i)] = Missing \/ c.mem[SavedAt(i)] = store[SavedAt(i)]
      BY <1>1, <1>20, <2>8, OpenParts DEF Settled, Saving
    <3>2. \A i \in 1 .. Len(SaveOrder) : i < d.position =>
            c.mem[SavedAt(i)] = Missing \/ c.mem[SavedAt(i)] = store'[SavedAt(i)]
      BY <1>6, <1>13, <1>14, <3>1
    <3> QED BY <1>4, <3>1, <3>2 DEF Settled, Saving
  <2> QED BY <1>1, <1>9, <1>10, <2>1, <2>7, <2>8 DEF CalmInv, Open
<1> QED BY <1>1, <1>12, <1>19, <1>20, <1>21 DEF SessionsInv

\* A session that closes leaves the store and the chain as they are.
LEMMA ClosingStep ==
  ASSUME SessionsInv, NEW s \in Sessions, Open(s), Become(s, Closed),
         UNCHANGED <<store, logged, opened, overlapped, unlogged>>,
         failures' \in 0 .. MaxFailures, locked' \subseteq Names \cup {Chain},
         failures' = 0 => failures = 0 /\ locked' = {}, ~ overlapped /\ failures' = 0 => Rest(store, logged)
  PROVE  SessionsInv'
<1>1. /\ session' \in [Sessions -> OpenSession \cup {Closed}] /\ session'[s] = Closed
      /\ \A o \in Sessions \ {s} : session'[o] = session[o]
  BY DEF Become, SessionsInv, ShapeInv
<1>2. \A o \in Sessions : session'[o] # Closed => o # s /\ Open(o) /\ session'[o] = session[o]
  BY <1>1 DEF Open
<1>3. ShapeInv'
  BY <1>1, <1>2 DEF SessionsInv, ShapeInv, Open
<1>4. StoredInv'
  BY <1>2 DEF SessionsInv, StoredInv, HoldersStored, Open
<1>5. ~ overlapped => AloneInv'
  BY <1>2 DEF SessionsInv, AloneInv, LogOneAhead, Open
<1>6. ~ overlapped /\ failures' = 0 => CalmInv'
  BY <1>2 DEF SessionsInv, CalmInv, Open
<1> QED BY <1>3, <1>4, <1>5, <1>6 DEF SessionsInv

\* A session that is alone is never refused as long as no lock file was left behind, and one
\* that has written everything has made the store what its memory was.
LEMMA CasRefusedStep ==
  ASSUME SessionsInv, NEW s \in Sessions, CasRefused(s)
  PROVE  SessionsInv'
<1>1. /\ Open(s) /\ session[s].stage = "cas" /\ Become(s, Closed)
      /\ UNCHANGED <<store, logged, locked, opened, overlapped, failures, unlogged>>
  BY DEF CasRefused, At
<1>2. overlapped \/ failures # 0
  <2>1. SUFFICES ASSUME ~ overlapped, failures = 0 PROVE FALSE
    OBVIOUS
  <2>2. \A o \in Sessions \ {s} : ~ At(o, "cas")
    BY <1>1, <2>1, OpenParts DEF At
  <2>3. session[s].current = store[Saved(s)]
    BY <1>1, <2>1, OpenParts DEF Sole, Saved
  <2>4. locked = {}
    BY <2>1 DEF SessionsInv, ShapeInv
  <2> QED BY <2>2, <2>3, <2>4 DEF CasRefused
<1>3. /\ failures' \in 0 .. MaxFailures /\ locked' \subseteq Names \cup {Chain}
      /\ failures' = 0 => failures = 0 /\ locked' = {}
  BY <1>1 DEF SessionsInv, ShapeInv
<1> QED BY <1>1, <1>2, <1>3, ClosingStep

LEMMA ExitStep ==
  ASSUME SessionsInv, NEW s \in Sessions, Exit(s)
  PROVE  SessionsInv'
<1> DEFINE c == session[s]
<1>1. /\ Open(s) /\ Become(s, Closed)
      /\ UNCHANGED <<store, logged, locked, opened, overlapped, failures, unlogged>>
      /\ \/ c.stage = "log" /\ ~ c.ok
         \/ c.stage = "save" /\ c.position > Len(SaveOrder)
  BY DEF Exit, At
<1>2. ASSUME ~ overlapped, failures = 0
      PROVE  Rest(store, logged)
  <2>1. CASE c.stage = "log" /\ ~ c.ok
    BY <1>1, <1>2, <2>1, OpenParts DEF Settled
  <2>2. CASE c.stage = "save" /\ c.position > Len(SaveOrder)
    <3>1. /\ Rest(c.mem, logged)
          /\ \A i \in 1 .. Len(SaveOrder) : i < c.position =>
               c.mem[SavedAt(i)] = Missing \/ c.mem[SavedAt(i)] = store[SavedAt(i)]
      BY <1>1, <1>2, <2>2, OpenParts DEF Settled, Saving
    <3>2. \A y \in Names : c.mem[y] = Missing => store[y] = Missing
      BY <1>1, <1>2, <2>2, OpenParts DEF Sole, Saving, Ahead
    <3>3. c.position \in Nat /\ Len(SaveOrder) \in Nat
      BY <1>1, OpenParts, NamesAssumption DEF SessionShape, OpenSession
    <3>4. \A y \in Names : c.mem[y] = store[y]
      <4>1. \A y \in Names : \E i \in 1 .. Len(SaveOrder) : SavedAt(i) = y
        BY NamesAssumption DEF SavedAt
      <4> QED BY <2>2, <3>1, <3>2, <3>3, <4>1
    <3>5. c.mem \in [Names -> Stored] /\ store \in [Names -> Stored]
      BY <1>1, OpenParts DEF SessionShape, World
    <3>6. c.mem = store
      BY <3>4, <3>5
    <3> QED BY <3>1, <3>6
  <2> QED BY <1>1, <2>1, <2>2
<1>3. /\ failures' \in 0 .. MaxFailures /\ locked' \subseteq Names \cup {Chain}
      /\ failures' = 0 => failures = 0 /\ locked' = {}
  BY <1>1 DEF SessionsInv, ShapeInv
<1> QED BY <1>1, <1>2, <1>3, ClosingStep

LEMMA DieStep ==
  ASSUME SessionsInv, NEW s \in Sessions, Die(s)
  PROVE  SessionsInv'
<1>1. /\ failures' \in 0 .. MaxFailures /\ failures' # 0
      /\ locked' \subseteq Names \cup {Chain}
  BY SessionsAssumption DEF Die, Fail, SessionsInv, ShapeInv
<1> QED BY <1>1, ClosingStep DEF Die

LEMMA DieInCasStep ==
  ASSUME SessionsInv, NEW s \in Sessions, DieInCas(s)
  PROVE  SessionsInv'
<1>1. Open(s) /\ failures' \in 0 .. MaxFailures /\ failures' # 0
  BY SessionsAssumption DEF DieInCas, Logging, At, Fail, SessionsInv, ShapeInv
<1>2. At(s, "cas") => Saved(s) \in Names
  <2>1. ASSUME At(s, "cas")
        PROVE  session[s].position \in 1 .. Len(SaveOrder)
    BY <1>1, <2>1, OpenParts, NamesAssumption DEF At, SessionShape, OpenSession
  <2> QED BY <2>1, NamesAssumption DEF Saved, SavedAt
<1>3. locked' \subseteq Names \cup {Chain}
  BY <1>2 DEF DieInCas, SessionsInv, ShapeInv
<1> QED BY <1>1, <1>3, ClosingStep DEF DieInCas

LEMMA SessionsNext == SessionsInv /\ [Next]_sessionVars => SessionsInv'
<1> SUFFICES ASSUME SessionsInv, [Next]_sessionVars PROVE SessionsInv'
  OBVIOUS
<1>1. ASSUME NEW s \in Sessions, Step(s)
      PROVE  SessionsInv'
  BY <1>1, OpenChainStep, ListRefsStep, ReadRefStep, RunStep, LogStep, LogFailsStep,
     StartCheckpointStep, ReadCurrentStep, CasRefStep, CasRefusedStep, ExitStep, DieStep,
     DieInCasStep DEF Step
<1>2. CASE UNCHANGED sessionVars
  BY <1>2 DEF sessionVars, SessionsInv, ShapeInv, StoredInv, AloneInv, CalmInv,
              HoldersStored, LogOneAhead, Open
<1> QED BY <1>1, <1>2 DEF Next

LEMMA SessionsInvariant == Spec => []SessionsInv
  BY SessionsInit, SessionsNext, PTL DEF Spec

-----------------------------------------------------------------------------
(***************************************************************************)
(* The theorems.                                                           *)
(***************************************************************************)
LEMMA TypeImplied == SessionsInv => TypeOK
<1> SUFFICES ASSUME SessionsInv PROVE TypeOK
  OBVIOUS
<1>1. World(store) /\ IsWorld(store) /\ store \in [Names -> Stored]
  BY DEF SessionsInv, ShapeInv, World
<1>2. ASSUME NEW s \in Sessions, Open(s)
      PROVE  /\ session[s].stage \in {"list", "read", "log", "save", "cas"}
             /\ session[s].stale \in BOOLEAN /\ session[s].ok \in BOOLEAN
             /\ IsWorld(session[s].mem)
             /\ session[s].todo \subseteq Names
             /\ session[s].position \in 1 .. Len(SaveOrder) + 1
  BY <1>2, OpenParts DEF SessionShape, OpenSession, World
<1>3. ASSUME NEW s \in Sessions, Open(s), session[s].stage = "cas"
      PROVE  IsWorld([store EXCEPT ![SavedAt(session[s].position)] = session[s].current])
  <2> DEFINE x == SavedAt(session[s].position)
  <2> DEFINE w == [store EXCEPT ![x] = session[s].current]
  <2>1. x \in Names
    BY <1>2, <1>3, OpenParts, NamesAssumption DEF SessionShape, SavedAt
  <2>2. Fits(x, session[s].current)
    BY <1>3, OpenParts DEF SessionShape
  <2> HIDE DEF x
  <2>3. /\ w = [y \in Names |-> w[y]] /\ w[x] = session[s].current
        /\ \A y \in Names \ {x} : w[y] = store[y]
    BY <1>1, <2>1
  <2> HIDE DEF w
  <2>4. /\ \A g \in Galhos : w[g] = Missing \/ w[g] \in Context
        /\ \A r \in Roots  : w[r] = Missing \/ (w[r] \subseteq Galhos /\ w[r] # {})
    BY <1>1, <2>2, <2>3 DEF IsWorld, Fits, Names
  <2>5. IsWorld(w)
    BY <2>3, <2>4 DEF IsWorld
  <2> QED BY <2>5 DEF w, x
<1> QED BY <1>1, <1>2, <1>3 DEF TypeOK, SessionsInv, ShapeInv

\* Every reachable state is well typed: whatever sessions race and die, a ref only ever
\* holds what may be stored under it.
THEOREM SessionsTyped == Spec => []TypeOK
  BY SessionsInvariant, TypeImplied, PTL

\* Whichever sessions overwrite each other and wherever they die, every stored context has
\* the evidence of its phase and none of an earlier cycle.
THEOREM StoredEvidenceMatches == Spec => []EvidenceStored
<1>1. SessionsInv => EvidenceStored
  BY DEF SessionsInv, ShapeInv, EvidenceStored
<1> QED BY SessionsInvariant, <1>1, PTL

\* Whichever sessions overwrite each other and wherever they die, every holder of a stored
\* lock has a stored context.
THEOREM StoredHoldersExist == Spec => []HoldersStored
<1>1. SessionsInv => HoldersStored
  BY DEF SessionsInv, StoredInv
<1> QED BY SessionsInvariant, <1>1, PTL

\* Sessions that come one after the other, and do not die, leave exact satisfied
\* dependencies, backed lock claims, and a chain that names every stored phase.
THEOREM CalmSessionsSound == Spec => []CalmStoreSound
<1>1. SessionsInv => CalmStoreSound
  BY DEF SessionsInv, CalmInv, Rest, CalmStoreSound, Calm
<1> QED BY SessionsInvariant, <1>1, PTL

\* Unless sessions overlap, the chain is never behind the store and never more than one
\* move ahead of it, whatever lock files dead sessions leave, except for a galho whose last
\* move an append has dropped.
THEOREM ChainOneAhead == Spec => []LogOneAhead
<1>1. SessionsInv => LogOneAhead
  BY DEF SessionsInv, AloneInv, LogOneAhead
<1> QED BY SessionsInvariant, <1>1, PTL

LEMMA AloneFollows ==
  ASSUME SessionsInv, [Next]_sessionVars, ~ overlapped, NEW g \in Galhos,
         PhaseIn(store, g) # PhaseIn(store', g)
  PROVE  OneMove(PhaseIn(store, g), PhaseIn(store', g))
<1>1. store' # store
  OBVIOUS
<1>2. PICK s \in Sessions : CasRef(s)
  BY <1>1 DEF Next, Step, sessionVars, OpenChain, ListRefs, ReadRef, Run, Log, LogFails,
              StartCheckpoint, ReadCurrent, CasRefused, Exit, Die, DieInCas
<1> DEFINE c == session[s]
<1>3. Open(s) /\ c.stage = "cas" /\ Ahead(store, logged, unlogged, c) /\ store \in [Names -> Stored]
  BY <1>2, OpenParts DEF CasRef, At, Sole, Saving
<1>4. PhaseIn(store', g) = PhaseIn(store, g) \/ PhaseIn(store', g) = PhaseIn(c.mem, g)
  BY <1>2, <1>3 DEF CasRef, Saved, PhaseIn, Exists, Names
<1> QED BY <1>3, <1>4 DEF Ahead

\* What the checkpoint's comment promises of concurrent writers holds of writers that come
\* one after the other: a stored phase changes only by a move that leads from it, even
\* when sessions die between the chain and the refs.
THEOREM AloneStoreFollowsLifecycle ==
  Spec => [][~ overlapped =>
               \A g \in Galhos : PhaseIn(store, g) # PhaseIn(store', g) =>
                 OneMove(PhaseIn(store, g), PhaseIn(store', g))]_sessionVars
<1>1. SessionsInv /\ [Next]_sessionVars =>
        [~ overlapped =>
           \A g \in Galhos : PhaseIn(store, g) # PhaseIn(store', g) =>
             OneMove(PhaseIn(store, g), PhaseIn(store', g))]_sessionVars
  BY AloneFollows
<1> QED BY SessionsInvariant, <1>1, PTL DEF Spec
=============================================================================
