------------------------------ MODULE GalhoTree ------------------------------
(***************************************************************************)
(* The state DAG over an object store, one action per call of the store:   *)
(* nodes are inserted (an object, then its metadata), heads advance with a *)
(* lineage check, divergences are discharged by merge nodes, and gc marks  *)
(* what the heads reach and then sweeps the rest, while writers go on.     *)
(*                                                                         *)
(* A state names its parents inside the bytes it is hashed from, so the    *)
(* parents of a node are a constant.                                       *)
(***************************************************************************)
EXTENDS Naturals

CONSTANTS
  Writers,    \* tasks that insert nodes and advance heads
  Galhos,     \* names of galhos: refs under galhos/
  Nodes,      \* hashes of states
  ParentsOf,  \* the parents of each node
  MaxGcs,     \* bound: garbage collections
  None        \* no head, no insert

ASSUME ParentsAssumption == ParentsOf \in [Nodes -> SUBSET Nodes]
ASSUME NoneAssumption == None \notin Nodes
ASSUME BoundAssumption == MaxGcs \in Nat

VARIABLES
  objects,   \* the objects stored
  metas,     \* the nodes with metadata
  heads,     \* the head of each galho, or None
  putting,   \* per writer: the node it has put and not yet described, or None
  gc,        \* the garbage collection in progress
  gcs,       \* how many have begun
  known,     \* history: nodes some insert has returned
  fresh,     \* history: nodes inserted while no gc was running, since the last one
  careless,  \* history: a gc has come between an insert and the head it was for
  reached    \* history: per galho, what its head has reached ever since the gc began

treeVars == <<objects, metas, heads, putting, gc, gcs>>
historyVars == <<known, fresh, careless, reached>>

\* A collection: the galhos whose head is to be read; the nodes to visit and those visited
\* from the head read last; the live set; the objects to sweep; the object whose metadata
\* is next.
Collections ==
  [stage : {"idle", "mark", "list", "sweep"}, names : SUBSET Galhos, stack : SUBSET Nodes,
   seen : SUBSET Nodes, live : SUBSET Nodes, doomed : SUBSET Nodes, gone : Nodes \cup {None}]

Idle == [stage |-> "idle", names |-> {}, stack |-> {}, seen |-> {}, live |-> {},
         doomed |-> {}, gone |-> None]

\* What follows from S along the parents of the nodes in described: the nodes outside every
\* set that has nothing of S, nor a parent of a described node outside it.
Closure(S, described) ==
  Nodes \ UNION { T \in SUBSET (Nodes \ S) :
                    \A n \in described \ T : ParentsOf[n] \cap T = {} }

Lineage == [n \in Nodes |-> Closure({n}, Nodes)]

\* What gc would find from the head of g.
Reachable(g) == Closure({heads[g]} \ {None}, metas)

\* The node and what it stands on cannot have been swept.
Sound(n) == gc.stage = "idle" /\ n \in fresh \cup UNION { Reachable(g) : g \in Galhos }

-----------------------------------------------------------------------------
(***************************************************************************)
(* insert_node.  A caller derives a state from states it knows of.         *)
(***************************************************************************)
PutNode(w, n) ==
  /\ putting[w] = None /\ ParentsOf[n] \subseteq known
  /\ objects' = objects \cup {n}
  /\ putting' = [putting EXCEPT ![w] = n]
  /\ careless' = (careless \/ gc.stage # "idle" \/ \E p \in ParentsOf[n] : ~ Sound(p))
  /\ fresh' = IF careless' THEN {} ELSE fresh
  /\ UNCHANGED <<metas, heads, gc, gcs, known>>

\* Faulty variant: the metadata is left to a later call.
DescribedLater(w) == metas

Described(w) == metas \cup {putting[w]}

PutNodeMeta(w) ==
  /\ putting[w] # None
  /\ metas' = Described(w)
  /\ putting' = [putting EXCEPT ![w] = None]
  /\ known' = known \cup {putting[w]}
  /\ fresh' = IF gc.stage = "idle" /\ ~ careless THEN fresh \cup {putting[w]} ELSE fresh
  /\ UNCHANGED <<objects, heads, gc, gcs, careless>>

\* put_meta fails, or the writer dies.
InsertFailed(w) ==
  /\ putting[w] # None
  /\ putting' = [putting EXCEPT ![w] = None]
  /\ UNCHANGED <<objects, metas, heads, gc, gcs, known, fresh, careless>>

-----------------------------------------------------------------------------
(***************************************************************************)
(* advance_ref and discharge_divergence.  Neither looks at the objects.    *)
(***************************************************************************)
\* Faulty variant: the lineage of the new node is not checked.
DescendsUnchecked(n, tip) == TRUE

\* advance_ref: the tip is among the parents, or none is expected.
Descends(n, tip) == tip = None \/ tip \in ParentsOf[n]

MoveHead(g, tip, n) ==
  /\ heads[g] = tip
  /\ heads' = [heads EXCEPT ![g] = n]
  /\ careless' = (careless \/ ~ Sound(n))
  /\ fresh' = IF careless' THEN {} ELSE fresh
  /\ UNCHANGED <<objects, metas, putting, gc, gcs, known>>

AdvanceRef(g, tip, n) ==
  /\ n \in known
  /\ Descends(n, tip)
  /\ MoveHead(g, tip, n)

\* What advance_ref may answer instead, whatever the head is: only the arguments are
\* compared and nothing is stored, so a witness can be had, and had again, at any time.
Divergences ==
  { d \in [galho : Galhos, tip : known, node : known] : ~ Descends(d.node, d.tip) }

Merges(n, d) == {d.tip, d.node} \subseteq ParentsOf[n]

DischargeDivergence(d, n) ==
  /\ n \in known
  /\ Merges(n, d)
  /\ MoveHead(d.galho, d.tip, n)

-----------------------------------------------------------------------------
(***************************************************************************)
(* gc.                                                                     *)
(***************************************************************************)
GcOnly == UNCHANGED <<objects, metas, heads, putting, known>>

\* list_galhos: only the refs under galhos/ count.
GcStart ==
  /\ gc.stage = "idle" /\ gcs < MaxGcs
  /\ gc' = [Idle EXCEPT !.stage = "mark", !.names = { g \in Galhos : heads[g] # None }]
  /\ gcs' = gcs + 1
  /\ fresh' = {}
  /\ careless' = (careless \/ \E w \in Writers : putting[w] # None)
  /\ GcOnly

\* head, for the next name.
GcReadHead(g) ==
  /\ gc.stage = "mark" /\ gc.stack = {} /\ g \in gc.names
  /\ gc' = [gc EXCEPT !.names = @ \ {g}, !.stack = {heads[g]} \ {None}]
  /\ UNCHANGED <<gcs, fresh, careless>> /\ GcOnly

\* A node without metadata counts as a root.
ParentsToVisit(n) == IF n \in metas THEN ParentsOf[n] \ gc.seen ELSE {}

\* get_node_meta, for the next node of the walk.
GcVisit(n) ==
  /\ gc.stage = "mark" /\ n \in gc.stack
  /\ LET stack == (gc.stack \cup ParentsToVisit(n)) \ {n}
     IN  gc' = [gc EXCEPT !.stack = stack, !.live = @ \cup {n},
                          !.seen = IF stack = {} THEN {} ELSE @ \cup {n}]
  /\ UNCHANGED <<gcs, fresh, careless>> /\ GcOnly

\* Faulty variant: the first head stands for all.
MarkedFirst == gc.stack = {} /\ gc.live # {}

Marked == gc.stack = {} /\ gc.names = {}

\* Faulty variant: the sweep does not ask for the live set.
SweepableAny == objects

\* Also what a ref outside galhos/ points to: entries of the audit chain, checkpoints.
Sweepable == objects \ gc.live

\* list_objects, after the live set is complete.
GcList ==
  /\ gc.stage = "mark" /\ Marked
  /\ gc' = [gc EXCEPT !.stage = "sweep", !.doomed = Sweepable]
  /\ UNCHANGED <<gcs, fresh, careless>> /\ GcOnly

GcDeleteObject(n) ==
  /\ gc.stage = "sweep" /\ gc.gone = None /\ n \in gc.doomed
  /\ objects' = objects \ {n}
  /\ gc' = [gc EXCEPT !.doomed = @ \ {n}, !.gone = n]
  /\ UNCHANGED <<metas, heads, putting, gcs, known, fresh, careless>>

\* An error of delete_meta is ignored.
GcDeleteMeta ==
  /\ gc.stage = "sweep" /\ gc.gone # None
  /\ metas' \in {metas, metas \ {gc.gone}}
  /\ gc' = [gc EXCEPT !.gone = None]
  /\ UNCHANGED <<objects, heads, putting, gcs, known, fresh, careless>>

\* The sweep is over, or an error or a crash ends the collection wherever it is.
GcEnd ==
  /\ gc.stage # "idle"
  /\ gc' = Idle
  /\ UNCHANGED <<gcs, fresh, careless>> /\ GcOnly

-----------------------------------------------------------------------------
Nothing == [g \in Galhos |-> {}]

Init ==
  /\ objects = {} /\ metas = {}
  /\ heads = [g \in Galhos |-> None]
  /\ putting = [w \in Writers |-> None]
  /\ gc = Idle /\ gcs = 0
  /\ known = {} /\ fresh = {} /\ careless = FALSE
  /\ reached = Nothing

WriterStep(w) == (\E n \in Nodes : PutNode(w, n)) \/ PutNodeMeta(w) \/ InsertFailed(w)

HeadStep ==
  \E n \in Nodes :
    \/ \E g \in Galhos, tip \in Nodes \cup {None} : AdvanceRef(g, tip, n)
    \/ \E d \in Divergences : DischargeDivergence(d, n)

GcStep ==
  \/ GcStart \/ GcList \/ GcDeleteMeta \/ GcEnd
  \/ \E g \in Galhos : GcReadHead(g)
  \/ \E n \in Nodes : GcVisit(n) \/ GcDeleteObject(n)

\* A history: the walk of an omniscient collector.
Reached ==
  reached' = CASE gc'.stage = "idle" -> Nothing
               [] gc.stage = "idle" /\ gc'.stage # "idle" -> [g \in Galhos |-> Reachable(g)']
               [] OTHER -> [g \in Galhos |-> reached[g] \cap Reachable(g)']

Next == ((\E w \in Writers : WriterStep(w)) \/ HeadStep \/ GcStep) /\ Reached

Spec == Init /\ [][Next]_<<treeVars, historyVars>>

-----------------------------------------------------------------------------
(***************************************************************************)
(* Properties.                                                             *)
(***************************************************************************)
TypeOK ==
  /\ objects \subseteq Nodes /\ metas \subseteq Nodes
  /\ heads \in [Galhos -> known \cup {None}]
  /\ putting \in [Writers -> Nodes \cup {None}]
  /\ gc \in Collections /\ gc.live \cap gc.doomed = {}
  /\ gcs \in 0..MaxGcs
  /\ known \subseteq Nodes /\ fresh \subseteq known /\ careless \in BOOLEAN
  /\ reached \in [Galhos -> SUBSET Nodes]

\* A collection never takes what the head of a galho has reached ever since it began,
\* although it reads the heads one by one while they move, and walks metadata that another
\* writer is putting back.
GcKeepsReached ==
  gc.stage = "sweep" => \A g \in Galhos : reached[g] \cap (gc.doomed \cup {gc.gone}) = {}

\* The whole history of every head is stored and described, as long as no gc runs between
\* the insert of a node and the move of a head to it, or meets one of the two half-way.
\* Nothing in the code keeps a gc from doing so.
HeadsWhole ==
  ~ careless =>
    \A g \in Galhos : heads[g] # None => Lineage[heads[g]] \subseteq objects \cap metas

\* No advance is lost: a head is an ancestor of every head after it, whoever moves it from
\* whatever tip, merges included.
HeadsDescend ==
  [][\A g \in Galhos : heads[g] # None => heads[g] \in Lineage[heads'[g]]]_heads
=============================================================================
