--------------------------- MODULE GalhoTreeProofs ---------------------------
(***************************************************************************)
(* Proofs about GalhoTree, for any number of writers, galhos, nodes and    *)
(* collections, and any graph of parents, even one with cycles.            *)
(***************************************************************************)
EXTENDS GalhoTree, TLAPS

-----------------------------------------------------------------------------
(***************************************************************************)
(* The inductive invariant.                                                *)
(***************************************************************************)
\* The walk gc is at will come to all that is still reached from g: some of the metadata
\* that is there now leads there, and of it nothing is skipped.
Walked(g) ==
  \E M \in SUBSET metas :
    /\ \A n \in gc.seen \cap M : ParentsOf[n] \subseteq gc.seen \cup gc.stack
    /\ reached[g] \subseteq Closure(gc.seen \cup gc.stack, M)

MarkInv ==
  gc.stage = "mark" =>
    /\ gc.doomed = {} /\ gc.gone = None
    /\ gc.seen \subseteq gc.live
    /\ gc.stack = {} => gc.seen = {}
    /\ \A g \in Galhos \ gc.names : reached[g] \subseteq gc.live \/ Walked(g)

SweepInv ==
  gc.stage = "sweep" => gc.gone \notin gc.live /\ \A g \in Galhos : reached[g] \subseteq gc.live

GcInv ==
  /\ gc.stage = "idle" => gc = Idle
  /\ gc.stage # "idle" => \A g \in Galhos : reached[g] \subseteq Reachable(g)
  /\ MarkInv
  /\ SweepInv

\* The node and all it descends from are stored and described.
Whole(n) == Lineage[n] \subseteq objects \cap metas

CareInv ==
  /\ \A g \in Galhos : heads[g] # None => Whole(heads[g])
  /\ \A n \in fresh : Whole(n)
  /\ \A w \in Writers : putting[w] # None =>
       /\ gc.stage = "idle" /\ putting[w] \in objects
       /\ \A p \in ParentsOf[putting[w]] : Whole(p)
  /\ gc.stage # "idle" =>
       /\ fresh = {}
       /\ \A g \in Galhos : heads[g] # None => Lineage[heads[g]] \subseteq reached[g]

TreeInv ==
  /\ TypeOK
  /\ GcInv
  /\ ~ careless => CareInv

-----------------------------------------------------------------------------
(***************************************************************************)
(* Closures.                                                               *)
(***************************************************************************)
\* A closure is closed, and it is the least set that is.
LEMMA ClosureClosed ==
  ASSUME NEW S \in SUBSET Nodes, NEW D \in SUBSET Nodes
  PROVE  /\ S \subseteq Closure(S, D) /\ Closure(S, D) \subseteq Nodes
         /\ \A n \in Closure(S, D) \cap D : ParentsOf[n] \subseteq Closure(S, D)
<1>1. \A n \in Nodes : ParentsOf[n] \subseteq Nodes
  BY ParentsAssumption
<1>2. S \subseteq Closure(S, D) /\ Closure(S, D) \subseteq Nodes
  BY DEF Closure
<1>3. ASSUME NEW n \in Closure(S, D) \cap D, NEW p \in ParentsOf[n], p \notin Closure(S, D)
      PROVE  FALSE
  <2>1. PICK T \in SUBSET (Nodes \ S) :
          p \in T /\ \A m \in D \ T : ParentsOf[m] \cap T = {}
    BY <1>1, <1>3 DEF Closure
  <2>2. n \in T
    BY <1>3, <2>1
  <2> QED BY <1>3, <2>1, <2>2 DEF Closure
<1> QED BY <1>2, <1>3

LEMMA ClosureLeast ==
  ASSUME NEW S, NEW D \in SUBSET Nodes, NEW R \in SUBSET Nodes, S \subseteq R,
         \A n \in R \cap D : ParentsOf[n] \subseteq R
  PROVE  Closure(S, D) \subseteq R
<1> DEFINE T == Nodes \ R
<1>1. T \in SUBSET (Nodes \ S) /\ \A n \in D \ T : ParentsOf[n] \cap T = {}
  OBVIOUS
<1> QED BY <1>1 DEF Closure

\* It grows with what it starts from and with the parents that are followed.
LEMMA ClosureGrows ==
  ASSUME NEW S \in SUBSET Nodes, NEW D \in SUBSET Nodes,
         NEW S2 \in SUBSET Nodes, NEW D2 \in SUBSET Nodes, S \subseteq S2, D \subseteq D2
  PROVE  Closure(S, D) \subseteq Closure(S2, D2)
<1>1. /\ S2 \subseteq Closure(S2, D2) /\ Closure(S2, D2) \in SUBSET Nodes
      /\ \A n \in Closure(S2, D2) \cap D2 : ParentsOf[n] \subseteq Closure(S2, D2)
  BY ClosureClosed
<1> QED BY <1>1, ClosureLeast

\* A lineage starts at its node, holds that of every node in it, and is what its parents'
\* lineages are, and the node.
LEMMA LineageParts ==
  ASSUME NEW n \in Nodes
  PROVE  /\ n \in Lineage[n] /\ Lineage[n] \subseteq Nodes
         /\ ParentsOf[n] \subseteq Lineage[n]
         /\ \A m \in Lineage[n] : Lineage[m] \subseteq Lineage[n]
         /\ \A R \in SUBSET Nodes :
              n \in R /\ (\A m \in ParentsOf[n] : Lineage[m] \subseteq R) => Lineage[n] \subseteq R
<1>1. \A m \in Nodes : Lineage[m] = Closure({m}, Nodes)
  BY DEF Lineage
<1>2. \A m \in Nodes : /\ m \in Lineage[m] /\ Lineage[m] \subseteq Nodes
                       /\ \A k \in Lineage[m] : ParentsOf[k] \subseteq Lineage[m]
  <2>1. \A m \in Nodes :
          /\ {m} \subseteq Closure({m}, Nodes) /\ Closure({m}, Nodes) \subseteq Nodes
          /\ \A k \in Closure({m}, Nodes) \cap Nodes : ParentsOf[k] \subseteq Closure({m}, Nodes)
    BY ClosureClosed
  <2> QED BY <1>1, <2>1
<1>3. ASSUME NEW m \in Lineage[n]
      PROVE  Lineage[m] \subseteq Lineage[n]
  <2>1. m \in Nodes /\ Lineage[n] \in SUBSET Nodes /\ {m} \subseteq Lineage[n]
        /\ \A k \in Lineage[n] \cap Nodes : ParentsOf[k] \subseteq Lineage[n]
    BY <1>2
  <2>2. Closure({m}, Nodes) \subseteq Lineage[n]
    BY <2>1, ClosureLeast
  <2> QED BY <1>1, <2>1, <2>2
<1>4. ASSUME NEW R \in SUBSET Nodes, n \in R, \A m \in ParentsOf[n] : Lineage[m] \subseteq R
      PROVE  Lineage[n] \subseteq R
  <2> DEFINE Q == {n} \cup UNION { Lineage[m] : m \in ParentsOf[n] }
  <2>1. ParentsOf[n] \subseteq Nodes
    BY ParentsAssumption
  <2>2. Q \in SUBSET Nodes /\ {n} \subseteq Q
    BY <1>2, <2>1
  <2>3. ParentsOf[n] \subseteq Q
    BY <1>2, <2>1
  <2>4. \A k \in Q \cap Nodes : ParentsOf[k] \subseteq Q
    BY <1>2, <2>1, <2>3
  <2> HIDE DEF Q
  <2>5. Closure({n}, Nodes) \subseteq Q
    BY <2>2, <2>4, ClosureLeast
  <2>6. Q \subseteq R
    BY <1>4 DEF Q
  <2> QED BY <1>1, <2>5, <2>6
<1>5. ParentsOf[n] \subseteq Lineage[n]
  BY <1>2
<1> QED BY <1>2, <1>3, <1>4, <1>5

\* What a walk has seen, once it has nothing left to visit, is a closure.
LEMMA WalkEnds ==
  ASSUME NEW S \in SUBSET Nodes, NEW M \in SUBSET Nodes,
         \A n \in S \cap M : ParentsOf[n] \subseteq S
  PROVE  Closure(S, M) = S
  BY ClosureClosed, ClosureLeast

-----------------------------------------------------------------------------
(***************************************************************************)
(* Type correctness.                                                       *)
(***************************************************************************)
LEMMA ReachableType ==
  ASSUME TypeOK, NEW g \in Galhos
  PROVE  Reachable(g) \subseteq Nodes
<1>1. {heads[g]} \ {None} \in SUBSET Nodes /\ metas \in SUBSET Nodes
  BY DEF TypeOK
<1> QED BY <1>1, ClosureClosed DEF Reachable

\* What becomes of the history that the properties speak of.
LEMMA ReachedParts ==
  ASSUME Reached, reached \in [Galhos -> SUBSET Nodes],
         \A g \in Galhos : Reachable(g)' \subseteq Nodes
  PROVE  /\ reached' \in [Galhos -> SUBSET Nodes]
         /\ gc'.stage # "idle" => \A g \in Galhos : reached'[g] \subseteq Reachable(g)'
         /\ gc.stage = "idle" /\ gc'.stage # "idle" =>
              \A g \in Galhos : reached'[g] = Reachable(g)'
         /\ gc.stage # "idle" /\ gc'.stage # "idle" =>
              \A g \in Galhos : reached'[g] = reached[g] \cap Reachable(g)'
<1>1. CASE gc'.stage = "idle"
  BY <1>1 DEF Reached, Nothing
<1>2. CASE gc'.stage # "idle" /\ gc.stage = "idle"
  <2>1. reached' = [g \in Galhos |-> Reachable(g)']
    BY <1>2 DEF Reached
  <2> QED BY <1>2, <2>1
<1>3. CASE gc'.stage # "idle" /\ gc.stage # "idle"
  <2>1. reached' = [g \in Galhos |-> reached[g] \cap Reachable(g)']
    BY <1>3 DEF Reached
  <2> QED BY <1>3, <2>1
<1> QED BY <1>1, <1>2, <1>3

\* TypeOK without the history that Reached keeps, which is a conjunct of every step.
TypeHere ==
  /\ objects \subseteq Nodes /\ metas \subseteq Nodes
  /\ heads \in [Galhos -> known \cup {None}]
  /\ putting \in [Writers -> Nodes \cup {None}]
  /\ gc \in Collections /\ gc.live \cap gc.doomed = {}
  /\ gcs \in 0..MaxGcs
  /\ known \subseteq Nodes /\ fresh \subseteq known /\ careless \in BOOLEAN

LEMMA TypeReached ==
  ASSUME TypeOK, Reached, TypeHere'
  PROVE  TypeOK'
<1>1. ASSUME NEW g \in Galhos
      PROVE  Reachable(g)' \subseteq Nodes
  <2>1. {heads'[g]} \ {None} \in SUBSET Nodes /\ metas' \in SUBSET Nodes
    BY DEF TypeHere
  <2> QED BY <2>1, ClosureClosed DEF Reachable
<1>2. reached' \in [Galhos -> SUBSET Nodes]
  BY <1>1, ReachedParts DEF TypeOK
<1> QED BY <1>2 DEF TypeOK, TypeHere

LEMMA TypeWriter ==
  ASSUME TypeOK, NEW w \in Writers, WriterStep(w)
  PROVE  TypeHere'
<1>1. ASSUME NEW n \in Nodes, PutNode(w, n)
      PROVE  TypeHere'
  BY <1>1 DEF PutNode, TypeOK, TypeHere
<1>2. CASE PutNodeMeta(w)
  <2>1. putting[w] \in Nodes
    BY <1>2 DEF PutNodeMeta, TypeOK
  <2>2. fresh' \subseteq known' /\ known' \subseteq Nodes /\ metas' \subseteq Nodes
    BY <1>2, <2>1 DEF PutNodeMeta, Described, TypeOK
  <2>3. heads' \in [Galhos -> known' \cup {None}] /\ putting' \in [Writers -> Nodes \cup {None}]
    BY <1>2 DEF PutNodeMeta, TypeOK
  <2> QED BY <1>2, <2>2, <2>3 DEF PutNodeMeta, TypeOK, TypeHere
<1>3. CASE InsertFailed(w)
  BY <1>3 DEF InsertFailed, TypeOK, TypeHere
<1> QED BY <1>1, <1>2, <1>3 DEF WriterStep

\* Heads move to known nodes, from the tip that the step has checked.
LEMMA HeadMoves ==
  ASSUME HeadStep
  PROVE  \E n \in known : \E g \in Galhos : \E tip :
           MoveHead(g, tip, n) /\ (tip = None \/ tip \in ParentsOf[n])
<1>1. ASSUME NEW n \in Nodes, NEW g \in Galhos, NEW tip, AdvanceRef(g, tip, n)
      PROVE  n \in known /\ MoveHead(g, tip, n) /\ (tip = None \/ tip \in ParentsOf[n])
  BY <1>1 DEF AdvanceRef, Descends
<1>2. ASSUME NEW n \in Nodes, NEW d \in Divergences, DischargeDivergence(d, n)
      PROVE  n \in known /\ d.galho \in Galhos /\ MoveHead(d.galho, d.tip, n) /\ d.tip \in ParentsOf[n]
  BY <1>2 DEF DischargeDivergence, Divergences, Merges
<1> QED BY <1>1, <1>2 DEF HeadStep

LEMMA TypeHead ==
  ASSUME TypeOK, HeadStep
  PROVE  TypeHere'
<1>1. PICK n \in known : \E g \in Galhos : \E tip :
        MoveHead(g, tip, n) /\ (tip = None \/ tip \in ParentsOf[n])
  BY HeadMoves
<1>2. PICK g \in Galhos : \E tip : MoveHead(g, tip, n)
  BY <1>1
<1> QED BY <1>2 DEF MoveHead, TypeOK, TypeHere

LEMMA IdleType == Idle \in Collections /\ Idle.live = {} /\ Idle.doomed = {}
  BY DEF Idle, Collections

LEMMA TypeGc ==
  ASSUME TypeOK, MarkInv, GcStep
  PROVE  TypeHere'
<1>1. gc \in Collections /\ objects \subseteq Nodes /\ gc.live \cap gc.doomed = {}
  BY DEF TypeOK
<1>2. CASE GcStart
  <2>1. gc' \in Collections /\ gc'.live = {} /\ gc'.doomed = {}
    BY <1>2 DEF GcStart, Idle, Collections
  <2>2. gcs' \in 0 .. MaxGcs
    BY <1>2, BoundAssumption DEF GcStart, TypeOK
  <2> QED BY <1>2, <2>1, <2>2 DEF GcStart, GcOnly, TypeOK, TypeHere
<1>3. CASE GcList
  <2>1. gc' \in Collections /\ gc'.live \cap gc'.doomed = {}
    BY <1>1, <1>3 DEF GcList, Sweepable, Collections
  <2> QED BY <1>3, <2>1 DEF GcList, GcOnly, TypeOK, TypeHere
<1>4. CASE GcDeleteMeta
  <2>1. gc' \in Collections /\ gc'.live \cap gc'.doomed = {}
    BY <1>1, <1>4 DEF GcDeleteMeta, Collections
  <2> QED BY <1>4, <2>1 DEF GcDeleteMeta, TypeOK, TypeHere
<1>5. CASE GcEnd
  BY <1>5, IdleType DEF GcEnd, GcOnly, TypeOK, TypeHere
<1>6. ASSUME NEW g \in Galhos, GcReadHead(g)
      PROVE  TypeHere'
  <2>1. {heads[g]} \ {None} \subseteq Nodes
    BY DEF TypeOK
  <2>2. gc' \in Collections /\ gc'.live \cap gc'.doomed = {}
    BY <1>1, <1>6, <2>1 DEF GcReadHead, Collections
  <2> QED BY <1>6, <2>2 DEF GcReadHead, GcOnly, TypeOK, TypeHere
<1>7. ASSUME NEW n \in Nodes, GcVisit(n)
      PROVE  TypeHere'
  <2>1. ParentsToVisit(n) \subseteq Nodes
    BY ParentsAssumption DEF ParentsToVisit
  <2> DEFINE stack == (gc.stack \cup ParentsToVisit(n)) \ {n}
  <2>2. gc' = [gc EXCEPT !.stack = stack, !.live = gc.live \cup {n},
                         !.seen = IF stack = {} THEN {} ELSE gc.seen \cup {n}]
    BY <1>7 DEF GcVisit
  <2>3. stack \subseteq Nodes
    BY <1>1, <2>1 DEF Collections
  <2> HIDE DEF stack
  <2>4. gc' \in Collections /\ gc'.doomed = gc.doomed
    BY <1>1, <2>2, <2>3 DEF Collections
  <2>5. gc.doomed = {}
    BY <1>7 DEF GcVisit, MarkInv
  <2> QED BY <1>7, <2>4, <2>5 DEF GcVisit, GcOnly, TypeOK, TypeHere
<1>8. ASSUME NEW n \in Nodes, GcDeleteObject(n)
      PROVE  TypeHere'
  <2>1. gc' \in Collections /\ gc'.live \cap gc'.doomed = {}
    BY <1>1, <1>8 DEF GcDeleteObject, Collections
  <2> QED BY <1>8, <2>1 DEF GcDeleteObject, TypeOK, TypeHere
<1> QED BY <1>2, <1>3, <1>4, <1>5, <1>6, <1>7, <1>8 DEF GcStep

-----------------------------------------------------------------------------
(***************************************************************************)
(* The collection keeps what is reached.                                   *)
(***************************************************************************)
\* What a step does to the history, given that it keeps the types.
LEMMA ReachedKept ==
  ASSUME TypeOK, TypeOK', Reached
  PROVE  /\ gc'.stage # "idle" => \A g \in Galhos : reached'[g] \subseteq Reachable(g)'
         /\ gc.stage = "idle" /\ gc'.stage # "idle" =>
              \A g \in Galhos : reached'[g] = Reachable(g)'
         /\ gc.stage # "idle" /\ gc'.stage # "idle" =>
              \A g \in Galhos : reached'[g] = reached[g] \cap Reachable(g)'
<1>1. ASSUME NEW g \in Galhos
      PROVE  Reachable(g)' \subseteq Nodes
  <2>1. {heads'[g]} \ {None} \in SUBSET Nodes /\ metas' \in SUBSET Nodes
    BY DEF TypeOK
  <2> QED BY <2>1, ClosureClosed DEF Reachable
<1> QED BY <1>1, ReachedParts DEF TypeOK

\* Other tasks may take from what is reached and add metadata: the walk comes by anyway.
LEMMA WalkedKept ==
  ASSUME NEW g, Walked(g), metas \subseteq metas', gc'.seen = gc.seen, gc'.stack = gc.stack,
         reached'[g] \subseteq reached[g]
  PROVE  Walked(g)'
  BY DEF Walked

LEMMA GcInvOthers ==
  ASSUME TypeOK, TypeOK', GcInv, Reached, gc' = gc, metas \subseteq metas'
  PROVE  GcInv'
<1>1. CASE gc.stage = "idle"
  BY <1>1 DEF GcInv, MarkInv, SweepInv, Idle
<1>2. CASE gc.stage # "idle"
  <2>1. \A g \in Galhos : reached'[g] \subseteq reached[g] /\ reached'[g] \subseteq Reachable(g)'
    BY <1>2, ReachedKept
  <2>2. \A g \in Galhos : Walked(g) => Walked(g)'
    BY <2>1, WalkedKept
  <2>3. MarkInv'
    <3>1. SUFFICES ASSUME gc.stage = "mark" PROVE MarkInv'
      BY DEF MarkInv
    <3>2. /\ gc.doomed = {} /\ gc.gone = None
          /\ gc.seen \subseteq gc.live
          /\ gc.stack = {} => gc.seen = {}
          /\ \A g \in Galhos \ gc.names : reached[g] \subseteq gc.live \/ Walked(g)
      BY <3>1 DEF GcInv, MarkInv
    <3>3. \A g \in Galhos \ gc.names : reached'[g] \subseteq gc.live \/ Walked(g)'
      BY <2>1, <2>2, <3>2
    <3> QED BY <3>2, <3>3 DEF MarkInv
  <2>4. SweepInv'
    BY <2>1 DEF GcInv, SweepInv
  <2> QED BY <1>2, <2>1, <2>3, <2>4 DEF GcInv
<1> QED BY <1>1, <1>2

LEMMA GcInvStart ==
  ASSUME TypeOK, TypeOK', GcInv, Reached, GcStart
  PROVE  GcInv'
<1>1. /\ gc.stage = "idle" /\ heads' = heads
      /\ gc' = [Idle EXCEPT !.stage = "mark", !.names = { g \in Galhos : heads[g] # None }]
  BY DEF GcStart, GcOnly
<1>2. /\ gc'.stage = "mark" /\ gc'.names = { g \in Galhos : heads[g] # None } /\ gc'.stack = {}
      /\ gc'.seen = {} /\ gc'.live = {} /\ gc'.doomed = {} /\ gc'.gone = None
  BY <1>1 DEF Idle
<1>3. \A g \in Galhos : reached'[g] = Reachable(g)'
  BY <1>1, <1>2, ReachedKept
<1>4. Closure({}, metas') = {}
  BY WalkEnds DEF TypeOK
<1>5. \A g \in Galhos \ gc'.names : reached'[g] \subseteq gc'.live
  <2>1. \A g \in Galhos \ gc'.names : {heads'[g]} \ {None} = {}
    BY <1>1, <1>2
  <2> QED BY <1>3, <1>4, <2>1 DEF Reachable
<1>6. MarkInv'
  BY <1>2, <1>5 DEF MarkInv
<1> QED BY <1>2, <1>3, <1>6 DEF GcInv, SweepInv

LEMMA GcInvReadHead ==
  ASSUME TypeOK, TypeOK', GcInv, Reached, NEW g \in Galhos, GcReadHead(g)
  PROVE  GcInv'
<1>1. /\ gc.stage = "mark" /\ gc.stack = {} /\ heads' = heads /\ metas' = metas
      /\ gc' = [gc EXCEPT !.names = gc.names \ {g}, !.stack = {heads[g]} \ {None}]
  BY DEF GcReadHead, GcOnly
<1>2. /\ gc'.stage = "mark" /\ gc'.names = gc.names \ {g} /\ gc'.stack = {heads[g]} \ {None}
      /\ gc'.seen = gc.seen /\ gc'.live = gc.live /\ gc'.doomed = gc.doomed /\ gc'.gone = gc.gone
  BY <1>1 DEF TypeOK, Collections
<1>3. /\ gc.doomed = {} /\ gc.gone = None /\ gc.seen = {}
      /\ \A h \in Galhos \ gc.names : reached[h] \subseteq gc.live \/ Walked(h)
  BY <1>1 DEF GcInv, MarkInv
<1>4. \A h \in Galhos : reached'[h] \subseteq reached[h] /\ reached'[h] \subseteq Reachable(h)'
  BY <1>1, <1>2, ReachedKept
<1>5. ASSUME NEW h \in Galhos, Walked(h)
      PROVE  reached[h] = {}
  <2>1. PICK M \in SUBSET metas : reached[h] \subseteq Closure(gc.seen \cup gc.stack, M)
    BY <1>5 DEF Walked
  <2>2. gc.seen \cup gc.stack = {} /\ M \in SUBSET Nodes
    BY <1>1, <1>3 DEF TypeOK
  <2>3. Closure({}, M) = {}
    BY <2>2, WalkEnds
  <2> QED BY <2>1, <2>2, <2>3
<1>6. Walked(g)'
  <2>1. gc'.seen \cup gc'.stack = {heads'[g]} \ {None}
    BY <1>1, <1>2, <1>3
  <2>2. reached'[g] \subseteq Closure(gc'.seen \cup gc'.stack, metas')
    BY <1>4, <2>1 DEF Reachable
  <2>3. gc'.seen = {}
    BY <1>2, <1>3
  <2> QED BY <2>2, <2>3 DEF Walked
<1>7. \A h \in Galhos \ gc'.names : reached'[h] \subseteq gc'.live \/ Walked(h)'
  BY <1>2, <1>3, <1>4, <1>5, <1>6
<1>8. MarkInv'
  BY <1>2, <1>3, <1>7 DEF MarkInv
<1> QED BY <1>2, <1>4, <1>8 DEF GcInv, SweepInv

\* The node visited is seen, and its parents are seen or to visit.
LEMMA GcInvVisit ==
  ASSUME TypeOK, TypeOK', GcInv, Reached, NEW n \in Nodes, GcVisit(n)
  PROVE  GcInv'
<1> DEFINE stack == (gc.stack \cup ParentsToVisit(n)) \ {n}
<1>1. /\ gc.stage = "mark" /\ n \in gc.stack /\ heads' = heads /\ metas' = metas
      /\ gc' = [gc EXCEPT !.stack = stack, !.live = gc.live \cup {n},
                          !.seen = IF stack = {} THEN {} ELSE gc.seen \cup {n}]
  BY DEF GcVisit, GcOnly
<1>2. /\ gc.doomed = {} /\ gc.gone = None /\ gc.seen \subseteq gc.live
      /\ \A h \in Galhos \ gc.names : reached[h] \subseteq gc.live \/ Walked(h)
  BY <1>1 DEF GcInv, MarkInv
<1>3. n \in metas => ParentsOf[n] \subseteq gc.seen \cup stack \cup {n}
  BY DEF ParentsToVisit
<1>4. stack \subseteq Nodes /\ gc.stack \subseteq stack \cup {n}
  BY ParentsAssumption DEF ParentsToVisit, TypeOK, Collections
<1> HIDE DEF stack
<1>5. /\ gc'.stage = "mark" /\ gc'.names = gc.names /\ gc'.stack = stack
      /\ gc'.seen = (IF stack = {} THEN {} ELSE gc.seen \cup {n})
      /\ gc'.live = gc.live \cup {n} /\ gc'.doomed = gc.doomed /\ gc'.gone = gc.gone
  BY <1>1 DEF TypeOK, Collections
<1>6. \A h \in Galhos : reached'[h] \subseteq reached[h] /\ reached'[h] \subseteq Reachable(h)'
  BY <1>1, <1>5, ReachedKept
<1>7. ASSUME NEW h \in Galhos, Walked(h)
      PROVE  reached'[h] \subseteq gc'.live \/ Walked(h)'
  <2> DEFINE S == gc.seen \cup {n} \cup stack
  <2>1. PICK M \in SUBSET metas :
          /\ \A k \in gc.seen \cap M : ParentsOf[k] \subseteq gc.seen \cup gc.stack
          /\ reached[h] \subseteq Closure(gc.seen \cup gc.stack, M)
    BY <1>7 DEF Walked
  <2>2. M \in SUBSET Nodes /\ gc.seen \cup gc.stack \in SUBSET Nodes /\ S \in SUBSET Nodes
    BY <1>4 DEF TypeOK, Collections
  <2>3. gc.seen \cup gc.stack \subseteq S
    BY <1>4
  <2>4. \A k \in (gc.seen \cup {n}) \cap M : ParentsOf[k] \subseteq S
    BY <1>3, <2>1, <2>3
  <2>5. reached'[h] \subseteq Closure(S, M)
    <3> HIDE DEF S
    <3>1. Closure(gc.seen \cup gc.stack, M) \subseteq Closure(S, M)
      BY <2>2, <2>3, ClosureGrows
    <3> QED BY <1>6, <2>1, <3>1
  <2>6. CASE stack = {}
    <3>1. S = gc.seen \cup {n}
      BY <2>6
    <3> HIDE DEF S
    <3>2. Closure(S, M) = S
      BY <2>2, <2>4, <3>1, WalkEnds
    <3> QED BY <1>2, <1>5, <2>5, <3>1, <3>2
  <2>7. CASE stack # {}
    <3>1. S = gc'.seen \cup gc'.stack /\ gc'.seen = gc.seen \cup {n} /\ M \in SUBSET metas'
      BY <1>1, <1>5, <2>1, <2>7
    <3> HIDE DEF S
    <3> QED BY <2>4, <2>5, <3>1 DEF Walked
  <2> QED BY <2>6, <2>7
<1>8. \A h \in Galhos \ gc'.names : reached'[h] \subseteq gc'.live \/ Walked(h)'
  BY <1>2, <1>5, <1>6, <1>7
<1>9. MarkInv'
  BY <1>2, <1>5, <1>8 DEF MarkInv
<1> QED BY <1>5, <1>6, <1>9 DEF GcInv, SweepInv

LEMMA GcInvList ==
  ASSUME TypeOK, TypeOK', GcInv, Reached, GcList
  PROVE  GcInv'
<1>1. /\ gc.stage = "mark" /\ gc.stack = {} /\ gc.names = {}
      /\ gc' = [gc EXCEPT !.stage = "sweep", !.doomed = objects \ gc.live]
  BY DEF GcList, Marked, Sweepable
<1>2. gc'.stage = "sweep" /\ gc'.live = gc.live /\ gc'.gone = gc.gone
  BY <1>1 DEF TypeOK, Collections
<1>3. /\ gc.gone = None /\ gc.seen = {}
      /\ \A h \in Galhos : reached[h] \subseteq gc.live \/ Walked(h)
  BY <1>1 DEF GcInv, MarkInv
<1>4. \A h \in Galhos : reached'[h] \subseteq reached[h] /\ reached'[h] \subseteq Reachable(h)'
  BY <1>1, <1>2, ReachedKept
<1>5. ASSUME NEW h \in Galhos, Walked(h)
      PROVE  reached[h] = {}
  <2>1. PICK M \in SUBSET metas : reached[h] \subseteq Closure(gc.seen \cup gc.stack, M)
    BY <1>5 DEF Walked
  <2>2. gc.seen \cup gc.stack = {} /\ M \in SUBSET Nodes
    BY <1>1, <1>3 DEF TypeOK
  <2>3. Closure({}, M) = {}
    BY <2>2, WalkEnds
  <2> QED BY <2>1, <2>2, <2>3
<1>6. None \notin gc.live
  BY NoneAssumption DEF TypeOK, Collections
<1>7. SweepInv'
  BY <1>2, <1>3, <1>4, <1>5, <1>6 DEF SweepInv
<1> QED BY <1>2, <1>4, <1>7 DEF GcInv, MarkInv

LEMMA GcInvSweep ==
  ASSUME TypeOK, TypeOK', GcInv, Reached, GcDeleteMeta \/ \E n \in Nodes : GcDeleteObject(n)
  PROVE  GcInv'
<1>1. /\ gc.stage = "sweep" /\ gc'.stage = "sweep" /\ gc'.live = gc.live
      /\ gc'.gone = None \/ gc'.gone \in gc.doomed
  BY DEF GcDeleteMeta, GcDeleteObject, TypeOK, Collections
<1>2. \A h \in Galhos : reached'[h] \subseteq reached[h] /\ reached'[h] \subseteq Reachable(h)'
  BY <1>1, ReachedKept
<1>3. gc'.gone \notin gc.live
  BY <1>1, NoneAssumption DEF TypeOK, Collections
<1>4. SweepInv'
  BY <1>1, <1>2, <1>3 DEF GcInv, SweepInv
<1> QED BY <1>1, <1>2, <1>4 DEF GcInv, MarkInv

LEMMA GcInvEnd ==
  ASSUME GcEnd
  PROVE  GcInv'
<1>1. gc' = Idle /\ gc'.stage = "idle"
  BY DEF GcEnd, Idle
<1> QED BY <1>1 DEF GcInv, MarkInv, SweepInv

LEMMA GcInvNext ==
  ASSUME TypeOK, TypeOK', GcInv, Next
  PROVE  GcInv'
<1>1. Reached
  BY DEF Next
<1>2. CASE \E w \in Writers : WriterStep(w)
  <2>1. gc' = gc /\ metas \subseteq metas'
    BY <1>2 DEF WriterStep, PutNode, PutNodeMeta, InsertFailed, Described
  <2> QED BY <1>1, <2>1, GcInvOthers
<1>3. CASE HeadStep
  <2>1. gc' = gc /\ metas' = metas
    BY <1>3, HeadMoves DEF MoveHead
  <2> QED BY <1>1, <2>1, GcInvOthers
<1>4. CASE GcStep
  BY <1>1, <1>4, GcInvStart, GcInvReadHead, GcInvVisit, GcInvList, GcInvSweep, GcInvEnd DEF GcStep
<1> QED BY <1>2, <1>3, <1>4 DEF Next

-----------------------------------------------------------------------------
(***************************************************************************)
(* A careful history keeps whole what the heads stand on.                  *)
(***************************************************************************)
\* Following only some of the parents leads no further than the lineage; following enough
\* of them leads as far.
LEMMA ClosureOfWhole ==
  ASSUME NEW h \in Nodes, NEW D \in SUBSET Nodes
  PROVE  /\ Closure({h}, D) \subseteq Lineage[h]
         /\ Lineage[h] \subseteq D => Lineage[h] \subseteq Closure({h}, D)
<1>1. Lineage[h] = Closure({h}, Nodes)
  BY DEF Lineage
<1>2. Closure({h}, D) \subseteq Lineage[h]
  BY <1>1, ClosureGrows
<1>3. ASSUME Lineage[h] \subseteq D
      PROVE  Lineage[h] \subseteq Closure({h}, D)
  <2>1. /\ {h} \subseteq Closure({h}, D) /\ Closure({h}, D) \in SUBSET Nodes
        /\ \A n \in Closure({h}, D) \cap D : ParentsOf[n] \subseteq Closure({h}, D)
    BY ClosureClosed
  <2>2. \A n \in Closure({h}, D) \cap Nodes : ParentsOf[n] \subseteq Closure({h}, D)
    BY <1>2, <1>3, <2>1
  <2> DEFINE R == Closure({h}, D)
  <2>3. /\ {h} \subseteq R /\ R \in SUBSET Nodes /\ Nodes \in SUBSET Nodes
        /\ \A n \in R \cap Nodes : ParentsOf[n] \subseteq R
    BY <2>1, <2>2
  <2> HIDE DEF R
  <2>4. Closure({h}, Nodes) \subseteq R
    BY <2>3, ClosureLeast
  <2> QED BY <1>1, <2>4 DEF R
<1> QED BY <1>2, <1>3

LEMMA SoundWhole ==
  ASSUME TypeOK, CareInv, NEW n, Sound(n)
  PROVE  n \in Nodes /\ gc.stage = "idle" /\ Whole(n)
<1>1. gc.stage = "idle"
  BY DEF Sound
<1>2. CASE n \in fresh
  BY <1>1, <1>2 DEF CareInv, TypeOK
<1>3. ASSUME NEW g \in Galhos, n \in Reachable(g)
      PROVE  n \in Nodes /\ Whole(n)
  <2>1. heads[g] # None
    <3>1. SUFFICES ASSUME heads[g] = None PROVE FALSE
      OBVIOUS
    <3>2. {heads[g]} \ {None} = {} /\ metas \in SUBSET Nodes
      BY <3>1 DEF TypeOK
    <3>3. Closure({}, metas) = {}
      BY <3>2, WalkEnds
    <3> QED BY <1>3, <3>2, <3>3 DEF Reachable
  <2>2. heads[g] \in Nodes /\ metas \in SUBSET Nodes /\ {heads[g]} \ {None} = {heads[g]}
    BY <2>1 DEF TypeOK
  <2>3. n \in Lineage[heads[g]]
    BY <1>3, <2>2, ClosureOfWhole DEF Reachable
  <2>4. n \in Nodes /\ Lineage[n] \subseteq Lineage[heads[g]]
    BY <2>2, <2>3, LineageParts
  <2>5. Whole(heads[g])
    BY <2>1 DEF CareInv
  <2> QED BY <2>4, <2>5 DEF Whole
<1> QED BY <1>1, <1>2, <1>3 DEF Sound

LEMMA CareWriter ==
  ASSUME TypeOK, CareInv, NEW w \in Writers, WriterStep(w), ~ careless'
  PROVE  CareInv'
<1>1. ASSUME objects \subseteq objects', metas \subseteq metas'
      PROVE  \A n : Whole(n) => Lineage[n] \subseteq objects' \cap metas'
  BY <1>1 DEF Whole
<1>2. ASSUME NEW n \in Nodes, PutNode(w, n)
      PROVE  CareInv'
  <2>1. /\ gc.stage = "idle" /\ gc' = gc /\ heads' = heads /\ fresh' = fresh
        /\ objects' = objects \cup {n} /\ metas' = metas
        /\ \A p \in ParentsOf[n] : Sound(p)
    BY <1>2 DEF PutNode
  <2>2. \A p \in ParentsOf[n] : Whole(p)
    BY <2>1, SoundWhole
  <2>3. \A m : Whole(m) => Whole(m)'
    BY <1>1, <2>1 DEF Whole
  <2>4. \A v \in Writers : putting'[v] = IF v = w THEN n ELSE putting[v]
    BY <1>2 DEF PutNode, TypeOK
  <2>5. ASSUME NEW v \in Writers, putting'[v] # None
        PROVE  putting'[v] \in objects' /\ \A p \in ParentsOf[putting'[v]] : Lineage[p] \subseteq objects' \cap metas'
    <3>1. CASE v = w
      BY <1>1, <2>1, <2>2, <2>4, <3>1
    <3>2. CASE v # w
      BY <1>1, <2>1, <2>4, <2>5, <3>2 DEF CareInv
    <3> QED BY <3>1, <3>2
  <2> QED BY <1>1, <2>1, <2>5 DEF CareInv, Whole
<1>3. CASE PutNodeMeta(w)
  <2> DEFINE n == putting[w]
  <2>1. /\ n # None /\ gc' = gc /\ heads' = heads /\ objects' = objects
        /\ metas' = metas \cup {n} /\ fresh' \subseteq fresh \cup {n}
    BY <1>3 DEF PutNodeMeta, Described
  <2>2. n \in Nodes /\ ParentsOf[n] \subseteq Nodes
    BY <2>1, ParentsAssumption DEF TypeOK
  <2>3. gc.stage = "idle" /\ n \in objects /\ \A p \in ParentsOf[n] : Whole(p)
    BY <2>1 DEF CareInv
  <2>4. Lineage[n] \subseteq objects' \cap metas'
    <3>1. objects' \cap metas' \in SUBSET Nodes
      BY <2>1, <2>2 DEF TypeOK
    <3>2. n \in objects' \cap metas' /\ \A p \in ParentsOf[n] : Lineage[p] \subseteq objects' \cap metas'
      BY <1>1, <2>1, <2>3
    <3> QED BY <2>2, <3>1, <3>2, LineageParts
  <2>5. \A v \in Writers : putting'[v] = IF v = w THEN None ELSE putting[v]
    BY <1>3 DEF PutNodeMeta, TypeOK
  <2> HIDE DEF n
  <2> QED BY <1>1, <2>1, <2>3, <2>4, <2>5 DEF CareInv, Whole
<1>4. CASE InsertFailed(w)
  <2>1. \A v \in Writers : putting'[v] = IF v = w THEN None ELSE putting[v]
    BY <1>4 DEF InsertFailed, TypeOK
  <2>2. /\ gc' = gc /\ heads' = heads /\ objects' = objects /\ metas' = metas /\ fresh' = fresh
        /\ putting[w] # None
    BY <1>4 DEF InsertFailed
  <2>3. gc.stage = "idle"
    BY <2>2 DEF CareInv
  <2> QED BY <1>1, <2>1, <2>2, <2>3 DEF CareInv, Whole
<1> QED BY <1>2, <1>3, <1>4 DEF WriterStep

LEMMA CareHead ==
  ASSUME TypeOK, CareInv, HeadStep, ~ careless'
  PROVE  CareInv'
<1>1. PICK n \in known : \E g \in Galhos : \E tip :
        MoveHead(g, tip, n) /\ (tip = None \/ tip \in ParentsOf[n])
  BY HeadMoves
<1>2. PICK g \in Galhos : \E tip : MoveHead(g, tip, n)
  BY <1>1
<1>3. /\ heads' = [heads EXCEPT ![g] = n] /\ Sound(n) /\ fresh' = fresh
      /\ objects' = objects /\ metas' = metas /\ putting' = putting /\ gc' = gc
  BY <1>2 DEF MoveHead
<1>4. gc.stage = "idle" /\ Whole(n)
  BY <1>3, SoundWhole
<1>5. \A h \in Galhos : heads'[h] = IF h = g THEN n ELSE heads[h]
  BY <1>3 DEF TypeOK
<1> QED BY <1>3, <1>4, <1>5 DEF CareInv, Whole

\* While a collection runs, it is enough that it takes nothing of what the heads stand on.
LEMMA CareGc ==
  ASSUME TypeOK, TypeOK', CareInv, Reached, gc'.stage # "idle",
         fresh' = {}, heads' = heads, \A w \in Writers : putting'[w] = None,
         \A g \in Galhos : heads[g] # None => Lineage[heads[g]] \subseteq objects' \cap metas'
  PROVE  CareInv'
<1>1. ASSUME NEW g \in Galhos, heads[g] # None
      PROVE  Lineage[heads[g]] \subseteq reached'[g]
  <2>1. heads[g] \in Nodes /\ metas' \in SUBSET Nodes /\ {heads'[g]} \ {None} = {heads[g]}
    BY <1>1 DEF TypeOK
  <2>2. Lineage[heads[g]] \subseteq Reachable(g)'
    BY <1>1, <2>1, ClosureOfWhole DEF Reachable
  <2>3. CASE gc.stage = "idle"
    BY <2>2, <2>3, ReachedKept
  <2>4. CASE gc.stage # "idle"
    <3>1. Lineage[heads[g]] \subseteq reached[g]
      BY <1>1, <2>4 DEF CareInv
    <3> QED BY <2>2, <2>4, <3>1, ReachedKept
  <2> QED BY <2>3, <2>4
<1> QED BY <1>1 DEF CareInv, Whole

LEMMA CareGcStep ==
  ASSUME TypeOK, TypeOK', GcInv, CareInv, Reached, GcStep, ~ careless'
  PROVE  CareInv'
<1>1. \A g \in Galhos : heads[g] # None => Lineage[heads[g]] \subseteq objects \cap metas
  BY DEF CareInv, Whole
<1>2. gc.stage # "idle" =>
        /\ fresh = {} /\ \A w \in Writers : putting[w] = None
        /\ \A g \in Galhos : heads[g] # None => Lineage[heads[g]] \subseteq reached[g]
  BY DEF CareInv
<1>3. CASE GcStart
  <2>1. /\ gc'.stage = "mark" /\ fresh' = {} /\ heads' = heads /\ objects' = objects
        /\ metas' = metas /\ \A w \in Writers : putting'[w] = None
    BY <1>3 DEF GcStart, GcOnly, Idle
  <2> QED BY <1>1, <2>1, CareGc
<1>4. CASE GcList \/ (\E g \in Galhos : GcReadHead(g)) \/ (\E n \in Nodes : GcVisit(n))
  <2>1. /\ gc.stage # "idle" /\ fresh' = fresh /\ heads' = heads /\ objects' = objects
        /\ metas' = metas /\ putting' = putting
    BY <1>4 DEF GcList, GcReadHead, GcVisit, GcOnly
  <2>2. gc'.stage # "idle"
    <3>1. gc \in Collections
      BY DEF TypeOK
    <3> QED BY <1>4, <3>1 DEF GcList, GcReadHead, GcVisit, Collections
  <2> QED BY <1>1, <1>2, <2>1, <2>2, CareGc
<1>5. ASSUME NEW n \in Nodes, GcDeleteObject(n)
      PROVE  CareInv'
  <2>1. /\ gc.stage = "sweep" /\ fresh' = fresh /\ heads' = heads /\ objects' = objects \ {n}
        /\ metas' = metas /\ putting' = putting /\ n \in gc.doomed
    BY <1>5 DEF GcDeleteObject
  <2>2. gc'.stage # "idle"
    BY <1>5, <2>1 DEF GcDeleteObject, TypeOK, Collections
  <2>3. n \notin gc.live /\ \A g \in Galhos : reached[g] \subseteq gc.live
    BY <2>1 DEF GcInv, SweepInv, TypeOK
  <2>4. \A g \in Galhos : heads[g] # None => Lineage[heads[g]] \subseteq objects' \cap metas'
    BY <1>1, <1>2, <2>1, <2>3
  <2> QED BY <1>2, <2>1, <2>2, <2>4, CareGc
<1>6. CASE GcDeleteMeta
  <2>1. /\ gc.stage = "sweep" /\ fresh' = fresh /\ heads' = heads /\ objects' = objects
        /\ metas \ {gc.gone} \subseteq metas' /\ putting' = putting
    BY <1>6 DEF GcDeleteMeta
  <2>2. gc'.stage # "idle"
    BY <1>6, <2>1 DEF GcDeleteMeta, TypeOK, Collections
  <2>3. gc.gone \notin gc.live /\ \A g \in Galhos : reached[g] \subseteq gc.live
    BY <2>1 DEF GcInv, SweepInv
  <2>4. \A g \in Galhos : heads[g] # None => Lineage[heads[g]] \subseteq objects' \cap metas'
    BY <1>1, <1>2, <2>1, <2>3
  <2> QED BY <1>2, <2>1, <2>2, <2>4, CareGc
<1>7. CASE GcEnd
  <2>1. /\ gc.stage # "idle" /\ gc'.stage = "idle" /\ fresh' = fresh /\ heads' = heads
        /\ objects' = objects /\ metas' = metas /\ putting' = putting
    BY <1>7 DEF GcEnd, GcOnly, Idle
  <2> QED BY <1>1, <1>2, <2>1 DEF CareInv, Whole
<1> QED BY <1>3, <1>4, <1>5, <1>6, <1>7 DEF GcStep

\* Carelessness is not forgotten.
LEMMA CareNext ==
  ASSUME TypeOK, TypeOK', GcInv, ~ careless => CareInv, Next, ~ careless'
  PROVE  CareInv'
<1>1. ~ careless
  <2>1. CASE \E w \in Writers : WriterStep(w)
    BY <2>1 DEF WriterStep, PutNode, PutNodeMeta, InsertFailed
  <2>2. CASE HeadStep
    BY <2>2, HeadMoves DEF MoveHead
  <2>3. CASE GcStep
    BY <2>3 DEF GcStep, GcStart, GcReadHead, GcVisit, GcList, GcDeleteObject, GcDeleteMeta, GcEnd
  <2> QED BY <2>1, <2>2, <2>3 DEF Next
<1>2. CareInv /\ Reached
  BY <1>1 DEF Next
<1> QED BY <1>2, CareWriter, CareHead, CareGcStep DEF Next

-----------------------------------------------------------------------------
(***************************************************************************)
(* The invariant and the theorems.                                         *)
(***************************************************************************)
LEMMA TypeNext ==
  ASSUME TypeOK, MarkInv, Next
  PROVE  TypeOK'
<1>1. TypeHere'
  BY TypeWriter, TypeHead, TypeGc DEF Next
<1> QED BY <1>1, TypeReached DEF Next

LEMMA TreeInit ==
  ASSUME Init
  PROVE  TreeInv
<1>1. TypeOK
  <2>1. gcs \in 0 .. MaxGcs /\ gc \in Collections /\ gc.live \cap gc.doomed = {}
    BY IdleType, BoundAssumption DEF Init
  <2>2. heads \in [Galhos -> known \cup {None}] /\ putting \in [Writers -> Nodes \cup {None}]
    BY DEF Init
  <2>3. reached \in [Galhos -> SUBSET Nodes]
    BY DEF Init, Nothing
  <2> QED BY <2>1, <2>2, <2>3 DEF Init, TypeOK
<1>2. GcInv
  BY DEF Init, GcInv, MarkInv, SweepInv, Idle
<1>3. CareInv
  BY DEF Init, CareInv, Idle
<1> QED BY <1>1, <1>2, <1>3 DEF TreeInv

LEMMA TreeStutter ==
  ASSUME TreeInv, UNCHANGED <<treeVars, historyVars>>
  PROVE  TreeInv'
<1>1. /\ objects' = objects /\ metas' = metas /\ heads' = heads /\ putting' = putting
      /\ gc' = gc /\ gcs' = gcs /\ known' = known /\ fresh' = fresh
      /\ careless' = careless /\ reached' = reached
  BY DEF treeVars, historyVars
<1>2. TypeOK'
  BY <1>1 DEF TreeInv, TypeOK
<1>3. \A g \in Galhos : Walked(g) => Walked(g)'
  BY <1>1 DEF Walked
<1>4. \A g \in Galhos : Reachable(g)' = Reachable(g)
  BY <1>1 DEF Reachable
<1>5. MarkInv'
  BY <1>1, <1>3 DEF TreeInv, GcInv, MarkInv
<1>6. GcInv'
  BY <1>1, <1>4, <1>5 DEF TreeInv, GcInv, SweepInv
<1>7. CareInv => CareInv'
  BY <1>1 DEF CareInv, Whole
<1> QED BY <1>1, <1>2, <1>6, <1>7 DEF TreeInv

LEMMA TreeNext ==
  ASSUME TreeInv, [Next]_<<treeVars, historyVars>>
  PROVE  TreeInv'
<1>1. CASE Next
  <2>1. TypeOK'
    BY <1>1, TypeNext DEF TreeInv, GcInv
  <2>2. GcInv'
    BY <1>1, <2>1, GcInvNext DEF TreeInv
  <2>3. ~ careless' => CareInv'
    BY <1>1, <2>1, CareNext DEF TreeInv
  <2> QED BY <2>1, <2>2, <2>3 DEF TreeInv
<1> QED BY <1>1, TreeStutter

LEMMA TreeInvariant == Spec => []TreeInv
<1>1. Init => TreeInv
  BY TreeInit
<1>2. TreeInv /\ [Next]_<<treeVars, historyVars>> => TreeInv'
  BY TreeNext
<1> QED BY <1>1, <1>2, PTL DEF Spec

\* The state of the tree and of a collection keeps its types; what a collection keeps and
\* what it takes are never the same node.
THEOREM TreeTyped == Spec => []TypeOK
<1>1. TreeInv => TypeOK
  BY DEF TreeInv
<1> QED BY <1>1, TreeInvariant, PTL

\* gc never sweeps what the head of a galho has reached ever since it began, although it
\* reads the heads one by one, follows metadata that others write, and stops at a node
\* whose metadata it does not find.
THEOREM GcSparesReached == Spec => []GcKeepsReached
<1>1. TreeInv => GcKeepsReached
  BY DEF TreeInv, GcInv, SweepInv, TypeOK, GcKeepsReached
<1> QED BY <1>1, TreeInvariant, PTL

\* The whole history of every head is stored and described, unless a gc has come between
\* an insert and the advance of a head that stands on it.
THEOREM CarefulHeadsWhole == Spec => []HeadsWhole
<1>1. TreeInv => HeadsWhole
  BY DEF TreeInv, CareInv, Whole, HeadsWhole
<1> QED BY <1>1, TreeInvariant, PTL

\* advance_ref and discharge_divergence never lose an advance: a head is an ancestor of
\* every head after it.
THEOREM AdvancesKept == Spec => HeadsDescend
<1>1. ASSUME TypeOK, Next, NEW g \in Galhos, heads[g] # None
      PROVE  heads[g] \in Lineage[heads'[g]]
  <2>1. heads[g] \in Nodes /\ heads[g] \in Lineage[heads[g]]
    BY <1>1, LineageParts DEF TypeOK
  <2>2. CASE heads' = heads
    BY <2>1, <2>2
  <2>3. CASE HeadStep
    <3>1. PICK n \in known : \E h \in Galhos : \E tip :
            MoveHead(h, tip, n) /\ (tip = None \/ tip \in ParentsOf[n])
      BY <2>3, HeadMoves
    <3>2. PICK h \in Galhos : /\ heads' = [heads EXCEPT ![h] = n]
                              /\ heads[h] = None \/ heads[h] \in ParentsOf[n]
      BY <3>1 DEF MoveHead
    <3>3. n \in Nodes /\ ParentsOf[n] \subseteq Lineage[n]
      BY <1>1, LineageParts DEF TypeOK
    <3>4. CASE h = g
      BY <1>1, <3>2, <3>3, <3>4 DEF TypeOK
    <3>5. CASE h # g
      BY <1>1, <2>1, <3>2, <3>5 DEF TypeOK
    <3> QED BY <3>4, <3>5
  <2>4. CASE (\E w \in Writers : WriterStep(w)) \/ GcStep
    <3>1. heads' = heads
      BY <2>4 DEF WriterStep, PutNode, PutNodeMeta, InsertFailed, GcStep, GcStart, GcReadHead,
                  GcVisit, GcList, GcDeleteObject, GcDeleteMeta, GcEnd, GcOnly
    <3> QED BY <2>2, <3>1
  <2> QED BY <1>1, <2>3, <2>4 DEF Next
<1>2. TreeInv /\ [Next]_<<treeVars, historyVars>> =>
        [\A g \in Galhos : heads[g] # None => heads[g] \in Lineage[heads'[g]]]_heads
  BY <1>1 DEF TreeInv, treeVars
<1>3. Spec => [][\A g \in Galhos : heads[g] # None => heads[g] \in Lineage[heads'[g]]]_heads
  BY <1>2, TreeInvariant, PTL DEF Spec
<1> QED BY <1>3 DEF HeadsDescend
=============================================================================
