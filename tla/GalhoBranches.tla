--------------------------- MODULE GalhoBranches ---------------------------
(***************************************************************************)
(* Two branches of one resource graph: each galho commits its own edits,   *)
(* then either the two are merged, or what one of them did is taken as a   *)
(* plan and replayed on the other, which may have moved on meanwhile.      *)
(*                                                                         *)
(* Sources: galho-types/src/{merge,derive,conflict,plan,state,ir}.rs       *)
(*                                                                         *)
(* A resource is its kind (with status and provenance, which travel with   *)
(* it), its attributes and its dependencies; an edge is its two ends.  The *)
(* hash of a state is the state.                                           *)
(***************************************************************************)
EXTENDS FiniteSets

CONSTANTS
  Ids,        \* resource ids
  Paths,      \* attribute paths
  Values,     \* attribute values
  Kinds,      \* kind, status and provenance of a resource
  Roots,      \* iac_system and schema_version of a graph
  Bases,      \* the graphs that branches start from
  Heads,      \* the graphs a branch may commit
  None        \* nothing there

VARIABLES
  base,       \* the graph both branches start from
  head,       \* per side, the graph its branch has committed
  plan,       \* the changes from base to ours, once derived
  outcome     \* the state that the merge or the replay has made

vars == <<base, head, plan, outcome>>

Sides == {"ours", "theirs"}

Resources == [kind : Kinds, attrs : [Paths -> Values \cup {None}], deps : SUBSET Ids]

ResourceGraph ==
  [root : Roots, resources : [Ids -> Resources \cup {None}], edges : SUBSET (Ids \X Ids)]

Live(resources) == { i \in Ids : resources[i] # None }

\* Faulty variant: an edge survives whatever becomes of its ends.
BetweenLiveEither(edges, resources) ==
  { e \in edges : e[1] \in Live(resources) \/ e[2] \in Live(resources) }

BetweenLive(edges, resources) ==
  { e \in edges : e[1] \in Live(resources) /\ e[2] \in Live(resources) }

ConflictKinds ==
  {"CrossSystem", "ModifiedBothDiverged", "CreatedBothDiverged", "DeletedOurs",
   "DeletedTheirs"}

Conflicts == [id : Ids \cup {None}, kind : ConflictKinds, paths : SUBSET Paths]

ASSUME GraphsAssumption == Bases \cup Heads \subseteq ResourceGraph
ASSUME NoneAssumption ==
  None \notin Resources /\ None \notin ResourceGraph /\ None \notin ConflictKinds

-----------------------------------------------------------------------------
(***************************************************************************)
(* three_way_merge.                                                        *)
(***************************************************************************)
All(b, o, t) == b # None /\ o # None /\ t # None

AttrClashes(b, o, t) ==
  \/ All(b, o, t) /\ b # o /\ b # t /\ o # t
  \/ b = None /\ o # None /\ t # None /\ o # t
  \/ b # None /\ o = None /\ t \notin {None, b}
  \/ b # None /\ t = None /\ o \notin {None, b}

\* Faulty variant: ours wins unless it says nothing.
MergedAttrOurs(b, o, t) ==
  CASE All(b, o, t)            -> o
    [] b = None /\ o # None    -> o
    [] b = None /\ o = None    -> t
    [] OTHER                   -> None

MergedAttr(b, o, t) ==
  CASE All(b, o, t) /\ b = o   -> t
    [] All(b, o, t) /\ b # o   -> o
    [] b = None /\ o # None    -> o
    [] b = None /\ o = None    -> t
    [] OTHER                   -> None

DivergedPaths(r, s) == { p \in Paths : r.attrs[p] # s.attrs[p] }

Taken(r) == [resource |-> r, conflict |-> None, paths |-> {}]

Clash(kind, paths) == [resource |-> None, conflict |-> kind, paths |-> paths]

\* Attributes path by path; of the rest, the dependencies of both and what ours says.
MergeDivergedResource(b, o, t) ==
  LET conflicting == { p \in Paths : AttrClashes(b.attrs[p], o.attrs[p], t.attrs[p]) }
  IN  IF conflicting # {}
        THEN Clash("ModifiedBothDiverged", conflicting)
        ELSE Taken([kind  |-> o.kind,
                    attrs |-> [p \in Paths |-> MergedAttr(b.attrs[p], o.attrs[p], t.attrs[p])],
                    deps  |-> o.deps \cup t.deps])

MergeOneResource(b, o, t) ==
  CASE All(b, o, t) /\ b = t                       -> Taken(o)
    [] All(b, o, t) /\ b = o /\ b # t              -> Taken(t)
    [] All(b, o, t) /\ b \notin {o, t} /\ o = t    -> Taken(o)
    [] All(b, o, t) /\ b \notin {o, t} /\ o # t    -> MergeDivergedResource(b, o, t)
    [] b = None /\ o # None /\ t \in {None, o}     -> Taken(o)
    [] b = None /\ o = None                        -> Taken(t)
    [] b = None /\ o # None /\ t \notin {None, o}  ->
         Clash("CreatedBothDiverged", DivergedPaths(o, t))
    [] b # None /\ o = None /\ t \in {None, b}     -> Taken(None)
    [] b # None /\ o = None /\ t \notin {None, b}  ->
         Clash("DeletedOurs", DivergedPaths(b, t))
    [] b # None /\ t = None /\ o = b               -> Taken(None)
    [] b # None /\ t = None /\ o \notin {None, b}  ->
         Clash("DeletedTheirs", DivergedPaths(b, o))

ThreeWayMerge(b, o, t) ==
  LET verdict   == [i \in Ids |->
                     MergeOneResource(b.resources[i], o.resources[i], t.resources[i])]
      conflicts == { [id |-> i, kind |-> verdict[i].conflict, paths |-> verdict[i].paths] :
                       i \in { j \in Ids : verdict[j].conflict # None } }
      resources == [i \in Ids |-> verdict[i].resource]
  IN  IF {b.root, o.root, t.root} # {b.root}
        THEN [graph     |-> None,
              conflicts |-> {[id |-> None, kind |-> "CrossSystem", paths |-> {}]}]
      ELSE IF conflicts # {}
        THEN [graph |-> None, conflicts |-> conflicts]
      ELSE [graph     |-> [root      |-> b.root,
                           resources |-> resources,
                           edges     |-> BetweenLive(b.edges \cup o.edges \cup t.edges,
                                                     resources)],
            conflicts |-> {}]

-----------------------------------------------------------------------------
(***************************************************************************)
(* diff_graphs and apply_changes.  A change names the resource and what it *)
(* becomes: a Create or an Update carries the whole resource, a Delete     *)
(* nothing.  The per-attribute diff of an Update is for the reader only.   *)
(***************************************************************************)
\* Faulty variant: without an attribute that differs there is nothing to update.
DiffGraphsByAttrs(b, t) ==
  { [id |-> i, after |-> t.resources[i]] :
      i \in { j \in Ids :
                \/ (b.resources[j] = None) # (t.resources[j] = None)
                \/ /\ b.resources[j] # None /\ t.resources[j] # None
                   /\ DivergedPaths(b.resources[j], t.resources[j]) # {} } }

DiffGraphs(b, t) ==
  { [id |-> i, after |-> t.resources[i]] :
      i \in { j \in Ids : b.resources[j] # t.resources[j] } }

\* Edges are not derived anew: those of the graph stay, where both ends do.
ApplyChanges(g, changes) ==
  LET after(i)  == { c \in changes : c.id = i }
      resources == [i \in Ids |-> IF after(i) = {} THEN g.resources[i]
                                  ELSE (CHOOSE c \in after(i) : TRUE).after]
  IN  [g EXCEPT !.resources = resources, !.edges = BetweenLive(@, resources)]

-----------------------------------------------------------------------------
Init ==
  /\ base \in Bases
  /\ head = [s \in Sides |-> base]
  /\ plan = None
  /\ outcome = None

\* The galho of a side commits what its operator has made of the base, or the base as
\* another version of its adapter reads it.
Commit(s) ==
  /\ outcome = None
  /\ s = "ours" => plan = None
  /\ head[s] = base
  /\ \E g \in Heads \cup { [base EXCEPT !.root = r] : r \in Roots } :
       head' = [head EXCEPT ![s] = g]
  /\ UNCHANGED <<base, plan, outcome>>

\* merge_states: a clean merge has both heads as parents and the bookkeeping of ours.
MergeStates ==
  /\ outcome = None /\ plan = None
  /\ LET merged == ThreeWayMerge(base, head["ours"], head["theirs"])
     IN  outcome' = [by        |-> "merge",
                     graph     |-> merged.graph,
                     conflicts |-> merged.conflicts,
                     parents   |-> IF merged.graph = None THEN <<>> ELSE <<"ours", "theirs">>,
                     adapter   |-> IF merged.graph = None THEN None ELSE "ours"]
  /\ UNCHANGED <<base, head, plan>>

\* diff_states
DiffStates ==
  /\ plan = None /\ outcome = None
  /\ plan' = [from_state |-> base, changes |-> DiffGraphs(base, head["ours"])]
  /\ UNCHANGED <<base, head, outcome>>

\* apply_plan: nobody compares the state with the one the plan starts from.
ApplyPlan ==
  /\ plan # None /\ outcome = None
  /\ outcome' = [by        |-> "replay",
                 graph     |-> ApplyChanges(head["theirs"], plan.changes),
                 conflicts |-> {},
                 parents   |-> <<"theirs">>,
                 adapter   |-> "theirs"]
  /\ UNCHANGED <<base, head, plan>>

Next ==
  \/ \E s \in Sides : Commit(s)
  \/ MergeStates
  \/ DiffStates
  \/ ApplyPlan

Spec == Init /\ [][Next]_vars

-----------------------------------------------------------------------------
(***************************************************************************)
(* Properties.                                                             *)
(***************************************************************************)
\* Every graph, also one that merge or replay has made out of two others, is a graph: typed,
\* and with no edge to a resource that is not in it.
TypeOK ==
  /\ { base } \cup { head[s] : s \in Sides } \subseteq ResourceGraph
  /\ outcome # None =>
       /\ outcome.conflicts \subseteq Conflicts
       /\ outcome.graph = None <=> outcome.conflicts # {}
       /\ outcome.graph # None =>
            /\ outcome.graph \in ResourceGraph
            /\ outcome.graph.edges \subseteq
                 Live(outcome.graph.resources) \X Live(outcome.graph.resources)

\* What a three-way merge may make of one thing, be it a resource or an attribute: the side
\* that changed it has its way, and nobody has when both changed it, differently.
Reconciled(b, o, t) ==
  CASE o = t            -> {o}
    [] o # t /\ b = o   -> {t}
    [] o # t /\ b = t   -> {o}
    [] OTHER            -> {}

\* The members that one three-way merge of three sets would have.
ReconciledSet(b, o, t) ==
  { x \in b \cup o \cup t : Reconciled(x \in b, x \in o, x \in t) = {TRUE} }

\* merged has all that it should; what else it has, a side has removed from the base.
LosesNoAddition(merged, wanted, b) == wanted \subseteq merged /\ merged \ wanted \subseteq b

\* A merge of resources loses no edit and invents none, but for three.  It is clean exactly if
\* each resource both sides have changed differently is still there on both, with no
\* attribute in dispute; then the untouched and the one-sided resources are as they should
\* be, and a resource edited on both sides has every attribute as its editor left it.  It
\* reports every resource in dispute, and of a resource edited on both sides the very paths.
\* The exceptions, where the code takes unions or takes ours: an edge that one side or both
\* have removed may come back as long as its ends are there; so may, in a resource edited
\* on both sides, a dependency that one of them has removed; and what theirs made of the
\* kind, the status or the provenance of such a resource is lost.  No edge or dependency
\* that a side has added, or that both have kept, is lost, and none appears out of nowhere.
MergeIsThreeWay ==
  outcome # None /\ outcome.by = "merge" /\ head["ours"].root = head["theirs"].root
                 /\ head["ours"].root = base.root =>
    LET b == base.resources
        o == head["ours"].resources
        t == head["theirs"].resources
        contested(i) == Reconciled(b[i], o[i], t[i]) = {}
        attr(i, p)   == Reconciled(b[i].attrs[p], o[i].attrs[p], t[i].attrs[p])
        edited(i)    == contested(i) /\ b[i] # None /\ o[i] # None /\ t[i] # None
        disputed(i)  == contested(i) /\ (edited(i) => \E p \in Paths : attr(i, p) = {})
        deps(i)      == ReconciledSet(b[i].deps, o[i].deps, t[i].deps)
        edges        == ReconciledSet(base.edges, head["ours"].edges, head["theirs"].edges)
    IN  /\ { c.id : c \in outcome.conflicts } = { i \in Ids : disputed(i) }
        /\ \A c \in outcome.conflicts :
             edited(c.id) => c.paths = { p \in Paths : attr(c.id, p) = {} }
        /\ outcome.graph # None =>
             /\ LosesNoAddition(outcome.graph.edges,
                                BetweenLive(edges, outcome.graph.resources), base.edges)
             /\ \A i \in Ids :
                  LET r == outcome.graph.resources[i]
                  IN  /\ ~ contested(i) => r \in Reconciled(b[i], o[i], t[i])
                      /\ edited(i) =>
                           /\ r.kind = o[i].kind
                           /\ LosesNoAddition(r.deps, deps(i), b[i].deps \cap (o[i].deps \cup t[i].deps))
                           /\ \A p \in Paths : r.attrs[p] \in attr(i, p)

\* Where no resource was changed on both sides, replaying what ours did on theirs comes to
\* what merging the two does, however far theirs has moved since the plan was derived; on a
\* branch that has not moved, it gives back the resources of ours.  Replay keeps no edge
\* that the merge would not.
ReplayMeetsMerge ==
  outcome # None /\ outcome.by = "replay" /\ head["ours"].root = head["theirs"].root
                 /\ head["ours"].root = base.root
                 /\ (\A i \in Ids : base.resources[i] \in { head[s].resources[i] : s \in Sides })
    => LET merged == ThreeWayMerge(base, head["ours"], head["theirs"])
       IN  /\ merged.conflicts = {}
           /\ outcome.graph.resources = merged.graph.resources
           /\ outcome.graph.edges \subseteq merged.graph.edges
           /\ head["theirs"] = base => outcome.graph.resources = head["ours"].resources
=============================================================================
