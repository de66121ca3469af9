------------------------ MODULE GalhoBranchesProofs ------------------------
(***************************************************************************)
(* Proofs about GalhoBranches, for any resources, attributes and values,   *)
(* and any graphs that the branches start from and commit.                 *)
(***************************************************************************)
EXTENDS GalhoBranches, TLAPS

-----------------------------------------------------------------------------
(***************************************************************************)
(* One attribute, one resource.                                            *)
(***************************************************************************)
\* An attribute clashes exactly where no side has its way; where one has, that is what
\* merging makes of it.
LEMMA AttrMerges ==
  ASSUME NEW b, NEW o, NEW t
  PROVE  /\ AttrClashes(b, o, t) <=> Reconciled(b, o, t) = {}
         /\ ~ AttrClashes(b, o, t) => MergedAttr(b, o, t) \in Reconciled(b, o, t)
         /\ MergedAttr(b, o, t) \in {o, t, None}
<1>1. CASE o = t
  BY <1>1 DEF AttrClashes, Reconciled, MergedAttr, All
<1>2. CASE o # t /\ b = o
  BY <1>2 DEF AttrClashes, Reconciled, MergedAttr, All
<1>3. CASE o # t /\ b = t
  BY <1>3 DEF AttrClashes, Reconciled, MergedAttr, All
<1>4. CASE o # t /\ b # o /\ b # t
  BY <1>4 DEF AttrClashes, Reconciled, MergedAttr, All
<1> QED BY <1>1, <1>2, <1>3, <1>4

Contested(b, o, t) == b # o /\ b # t /\ o # t

LEMMA ReconciledParts ==
  ASSUME NEW b, NEW o, NEW t
  PROVE  /\ Reconciled(b, o, t) = {} <=> Contested(b, o, t)
         /\ ~ Contested(b, o, t) => Reconciled(b, o, t) = {IF b = o THEN t ELSE o}
<1>1. CASE o = t
  BY <1>1 DEF Reconciled, Contested
<1>2. CASE o # t /\ b = o
  BY <1>2 DEF Reconciled, Contested
<1>3. CASE o # t /\ b = t
  BY <1>3 DEF Reconciled, Contested
<1>4. CASE Contested(b, o, t)
  BY <1>4 DEF Reconciled, Contested
<1> QED BY <1>1, <1>2, <1>3, <1>4 DEF Contested

\* The paths on which no side of an edited resource has its way.
Disputed(b, o, t) == { p \in Paths : Reconciled(b.attrs[p], o.attrs[p], t.attrs[p]) = {} }

LEMMA DivergedMerges ==
  ASSUME NEW b \in Resources, NEW o \in Resources, NEW t \in Resources,
         NEW v, v = MergeDivergedResource(b, o, t)
  PROVE  /\ v.conflict \in {"ModifiedBothDiverged", None} /\ v.paths \subseteq Paths
         /\ v.conflict # None <=> Disputed(b, o, t) # {}
         /\ v.conflict # None => v.paths = Disputed(b, o, t) /\ v.resource = None
         /\ v.conflict = None =>
              /\ v.resource \in Resources
              /\ v.resource.kind = o.kind /\ v.resource.deps = o.deps \cup t.deps
              /\ \A p \in Paths :
                   v.resource.attrs[p] \in Reconciled(b.attrs[p], o.attrs[p], t.attrs[p])
<1> DEFINE clashing == { p \in Paths : AttrClashes(b.attrs[p], o.attrs[p], t.attrs[p]) }
           attrs    == [p \in Paths |-> MergedAttr(b.attrs[p], o.attrs[p], t.attrs[p])]
<1>1. clashing = Disputed(b, o, t)
  BY AttrMerges DEF Disputed
<1>2. v = IF clashing # {} THEN Clash("ModifiedBothDiverged", clashing)
          ELSE Taken([kind |-> o.kind, attrs |-> attrs, deps |-> o.deps \cup t.deps])
  BY DEF MergeDivergedResource
<1>3. clashing = {} =>
        \A p \in Paths : attrs[p] \in Reconciled(b.attrs[p], o.attrs[p], t.attrs[p])
  BY AttrMerges
<1>4. attrs \in [Paths -> Values \cup {None}]
  <2>1. \A p \in Paths : MergedAttr(b.attrs[p], o.attrs[p], t.attrs[p]) \in Values \cup {None}
    <3> SUFFICES ASSUME NEW p \in Paths
                 PROVE  MergedAttr(b.attrs[p], o.attrs[p], t.attrs[p]) \in Values \cup {None}
      OBVIOUS
    <3>1. {o.attrs[p], t.attrs[p], None} \subseteq Values \cup {None}
      BY DEF Resources
    <3> QED BY <3>1, AttrMerges
  <2> QED BY <2>1
<1>5. clashing \subseteq Paths
  OBVIOUS
<1>6. "ModifiedBothDiverged" # None
  BY NoneAssumption DEF ConflictKinds
<1> HIDE DEF clashing, attrs
<1>7. CASE clashing # {}
  BY <1>1, <1>2, <1>5, <1>6, <1>7 DEF Clash
<1>8. CASE clashing = {}
  <2>1. [kind |-> o.kind, attrs |-> attrs, deps |-> o.deps \cup t.deps] \in Resources
    BY <1>4 DEF Resources
  <2> QED BY <1>1, <1>2, <1>3, <1>8, <2>1 DEF Taken
<1> QED BY <1>7, <1>8

LEMMA DivergedPathsType ==
  ASSUME NEW r, NEW s
  PROVE  DivergedPaths(r, s) \subseteq Paths
  BY DEF DivergedPaths

VerdictType(v) ==
  /\ v.conflict \in ConflictKinds \cup {None} /\ v.paths \subseteq Paths
  /\ v.resource \in Resources \cup {None}

\* A resource changed on one side, or the same way on both, is as that side has it; a
\* resource edited on both is merged path by path; any other is in dispute.
RightVerdict(v, b, o, t) ==
  /\ v.conflict # None <=> Contested(b, o, t) /\ (All(b, o, t) => Disputed(b, o, t) # {})
  /\ ~ Contested(b, o, t) => v.resource = IF b = o THEN t ELSE o
  /\ All(b, o, t) /\ Contested(b, o, t) =>
       /\ v.conflict # None => v.paths = Disputed(b, o, t)
       /\ v.conflict = None =>
            /\ v.resource \in Resources
            /\ v.resource.kind = o.kind /\ v.resource.deps = o.deps \cup t.deps
            /\ \A p \in Paths :
                 v.resource.attrs[p] \in Reconciled(b.attrs[p], o.attrs[p], t.attrs[p])

LEMMA ResourceMerges ==
  ASSUME NEW b \in Resources \cup {None}, NEW o \in Resources \cup {None},
         NEW t \in Resources \cup {None}, NEW v, v = MergeOneResource(b, o, t)
  PROVE  VerdictType(v) /\ RightVerdict(v, b, o, t)
<1> USE DEF VerdictType, RightVerdict
<1>1. CASE ~ Contested(b, o, t)
  <2>1. v = Taken(IF b = o THEN t ELSE o)
    <3>1. CASE All(b, o, t)
      BY <1>1, <3>1 DEF MergeOneResource, Contested, All
    <3>2. CASE b = None
      BY <1>1, <3>2 DEF MergeOneResource, Contested, All
    <3>3. CASE b # None /\ o = None
      BY <1>1, <3>3 DEF MergeOneResource, Contested, All
    <3>4. CASE b # None /\ o # None /\ t = None
      BY <1>1, <3>4 DEF MergeOneResource, Contested, All
    <3> QED BY <3>1, <3>2, <3>3, <3>4 DEF All
  <2> QED BY <1>1, <2>1 DEF Taken
<1>2. CASE Contested(b, o, t) /\ All(b, o, t)
  <2>1. v = MergeDivergedResource(b, o, t)
    BY <1>2 DEF MergeOneResource, Contested, All
  <2>2. b \in Resources /\ o \in Resources /\ t \in Resources
    BY <1>2 DEF All
  <2>3. "ModifiedBothDiverged" \in ConflictKinds
    BY DEF ConflictKinds
  <2>4. /\ v.conflict \in {"ModifiedBothDiverged", None} /\ v.paths \subseteq Paths
        /\ v.conflict # None <=> Disputed(b, o, t) # {}
        /\ v.conflict # None => v.paths = Disputed(b, o, t) /\ v.resource = None
        /\ v.conflict = None =>
             /\ v.resource \in Resources
             /\ v.resource.kind = o.kind /\ v.resource.deps = o.deps \cup t.deps
             /\ \A p \in Paths :
                  v.resource.attrs[p] \in Reconciled(b.attrs[p], o.attrs[p], t.attrs[p])
    BY <2>1, <2>2, DivergedMerges
  <2> QED BY <1>2, <2>3, <2>4
<1>3. CASE Contested(b, o, t) /\ ~ All(b, o, t)
  <2>1. \E kind \in ConflictKinds : \E r, s : v = Clash(kind, DivergedPaths(r, s))
    <3>1. {"CreatedBothDiverged", "DeletedOurs", "DeletedTheirs"} \subseteq ConflictKinds
      BY DEF ConflictKinds
    <3>2. CASE b = None
      <4>1. v = Clash("CreatedBothDiverged", DivergedPaths(o, t))
        BY <1>3, <3>2 DEF MergeOneResource, Contested, All
      <4> QED BY <3>1, <4>1
    <3>3. CASE b # None /\ o = None
      <4>1. v = Clash("DeletedOurs", DivergedPaths(b, t))
        BY <1>3, <3>3 DEF MergeOneResource, Contested, All
      <4> QED BY <3>1, <4>1
    <3>4. CASE b # None /\ o # None /\ t = None
      <4>1. v = Clash("DeletedTheirs", DivergedPaths(b, o))
        BY <1>3, <3>4 DEF MergeOneResource, Contested, All
      <4> QED BY <3>1, <4>1
    <3> QED BY <1>3, <3>2, <3>3, <3>4 DEF All
  <2>2. PICK kind \in ConflictKinds : \E r, s : v = Clash(kind, DivergedPaths(r, s))
    BY <2>1
  <2>3. PICK r, s : v = Clash(kind, DivergedPaths(r, s))
    BY <2>2
  <2>4. kind # None /\ DivergedPaths(r, s) \subseteq Paths
    BY NoneAssumption, DivergedPathsType
  <2>5. v.conflict = kind /\ v.paths = DivergedPaths(r, s) /\ v.resource = None
    BY <2>3 DEF Clash
  <2> QED BY <1>3, <2>4, <2>5
<1> QED BY <1>1, <1>2, <1>3

-----------------------------------------------------------------------------
(***************************************************************************)
(* Graphs.                                                                 *)
(***************************************************************************)
Verdict(b, o, t, i) == MergeOneResource(b.resources[i], o.resources[i], t.resources[i])

InConflict(b, o, t) == { i \in Ids : Verdict(b, o, t, i).conflict # None }

Clean(b, o, t) == \A i \in Ids : Verdict(b, o, t, i).conflict = None

AllEdges(b, o, t) == b.edges \cup o.edges \cup t.edges

SameRoot(b, o, t) == o.root = b.root /\ t.root = b.root

LEMMA VerdictParts ==
  ASSUME NEW b \in ResourceGraph, NEW o \in ResourceGraph, NEW t \in ResourceGraph, NEW i \in Ids
  PROVE  /\ b.resources[i] \in Resources \cup {None}
         /\ o.resources[i] \in Resources \cup {None}
         /\ t.resources[i] \in Resources \cup {None}
         /\ Verdict(b, o, t, i).conflict \in ConflictKinds \cup {None}
         /\ Verdict(b, o, t, i).paths \subseteq Paths
         /\ Verdict(b, o, t, i).resource \in Resources \cup {None}
<1>1. /\ b.resources[i] \in Resources \cup {None}
      /\ o.resources[i] \in Resources \cup {None}
      /\ t.resources[i] \in Resources \cup {None}
  BY DEF ResourceGraph
<1>2. PICK v : v = MergeOneResource(b.resources[i], o.resources[i], t.resources[i])
  OBVIOUS
<1>3. v.conflict \in ConflictKinds \cup {None} /\ v.paths \subseteq Paths
      /\ v.resource \in Resources \cup {None}
  BY <1>1, <1>2, ResourceMerges DEF VerdictType
<1> QED BY <1>1, <1>2, <1>3 DEF Verdict

LEMMA BetweenLiveType ==
  ASSUME NEW edges \in SUBSET (Ids \X Ids), NEW resources
  PROVE  /\ BetweenLive(edges, resources) \subseteq Ids \X Ids
         /\ BetweenLive(edges, resources) \subseteq Live(resources) \X Live(resources)
  BY DEF BetweenLive, Live

\* Graphs of different roots do not merge.
LEMMA MergeAcrossRoots ==
  ASSUME NEW b, NEW o, NEW t, ~ SameRoot(b, o, t), NEW m, m = ThreeWayMerge(b, o, t)
  PROVE  m.graph = None /\ m.conflicts # {} /\ m.conflicts \subseteq Conflicts
<1>1. {b.root, o.root, t.root} # {b.root}
  BY DEF SameRoot
<1>2. m = [graph     |-> None,
           conflicts |-> {[id |-> None, kind |-> "CrossSystem", paths |-> {}]}]
  BY <1>1 DEF ThreeWayMerge
<1>3. [id |-> None, kind |-> "CrossSystem", paths |-> {}] \in Conflicts
  BY DEF Conflicts, ConflictKinds
<1> QED BY <1>2, <1>3

\* What a merge says of a resource in conflict.
ConflictOf(b, o, t, i) ==
  [id |-> i, kind |-> Verdict(b, o, t, i).conflict, paths |-> Verdict(b, o, t, i).paths]

LEMMA MergeConflicts ==
  ASSUME NEW b, NEW o, NEW t, SameRoot(b, o, t), ~ Clean(b, o, t),
         NEW m, m = ThreeWayMerge(b, o, t)
  PROVE  /\ m.graph = None
         /\ \A i \in InConflict(b, o, t) : ConflictOf(b, o, t, i) \in m.conflicts
         /\ \A c \in m.conflicts :
              c.id \in InConflict(b, o, t) /\ c = ConflictOf(b, o, t, c.id)
<1> DEFINE verdict   == [i \in Ids |->
                          MergeOneResource(b.resources[i], o.resources[i], t.resources[i])]
           bad       == { j \in Ids : verdict[j].conflict # None }
           conflicts == { [id |-> i, kind |-> verdict[i].conflict, paths |-> verdict[i].paths] :
                            i \in bad }
<1>1. \A i \in Ids : verdict[i] = Verdict(b, o, t, i)
  BY DEF Verdict
<1>2. bad = InConflict(b, o, t)
  BY <1>1 DEF InConflict
<1>3. conflicts # {} => m.graph = None /\ m.conflicts = conflicts
  BY DEF ThreeWayMerge, SameRoot
<1> HIDE DEF verdict, bad
<1>4. bad \subseteq Ids
  BY DEF bad
<1>5. \A i \in bad : ConflictOf(b, o, t, i) \in conflicts
  BY <1>1, <1>4 DEF ConflictOf
<1>6. ASSUME NEW c \in conflicts
      PROVE  c.id \in bad /\ c = ConflictOf(b, o, t, c.id)
  <2>1. PICK i \in bad : c = [id |-> i, kind |-> verdict[i].conflict, paths |-> verdict[i].paths]
    OBVIOUS
  <2> QED BY <1>1, <1>4, <2>1 DEF ConflictOf
<1>7. conflicts # {}
  BY <1>2, <1>5 DEF Clean, InConflict
<1> HIDE DEF conflicts
<1> QED BY <1>2, <1>3, <1>5, <1>6, <1>7

\* Without a conflict, every resource becomes what its verdict says.
LEMMA MergeClean ==
  ASSUME NEW b \in ResourceGraph, NEW o \in ResourceGraph, NEW t \in ResourceGraph,
         SameRoot(b, o, t), Clean(b, o, t), NEW m, m = ThreeWayMerge(b, o, t)
  PROVE  /\ m.graph \in ResourceGraph /\ m.conflicts = {}
         /\ \A i \in Ids : m.graph.resources[i] = Verdict(b, o, t, i).resource
         /\ m.graph.edges = BetweenLive(AllEdges(b, o, t), m.graph.resources)
<1> DEFINE verdict   == [i \in Ids |->
                          MergeOneResource(b.resources[i], o.resources[i], t.resources[i])]
           bad       == { j \in Ids : verdict[j].conflict # None }
           conflicts == { [id |-> i, kind |-> verdict[i].conflict, paths |-> verdict[i].paths] :
                            i \in bad }
           resources == [i \in Ids |-> verdict[i].resource]
           merged    == [root |-> b.root, resources |-> resources,
                         edges |-> BetweenLive(AllEdges(b, o, t), resources)]
<1>1. \A i \in Ids : verdict[i] = Verdict(b, o, t, i)
  BY DEF Verdict
<1>2. conflicts = {}
  <2>1. bad = {}
    BY <1>1 DEF Clean
  <2> HIDE DEF bad
  <2> QED BY <2>1
<1>3. conflicts = {} => m = [graph |-> merged, conflicts |-> {}]
  BY DEF ThreeWayMerge, SameRoot, AllEdges
<1> HIDE DEF conflicts
<1>4. resources = [i \in Ids |-> Verdict(b, o, t, i).resource]
  <2> HIDE DEF verdict
  <2> QED BY <1>1
<1>5. resources \in [Ids -> Resources \cup {None}]
  <2>1. \A i \in Ids : Verdict(b, o, t, i).resource \in Resources \cup {None}
    BY VerdictParts
  <2> HIDE DEF resources
  <2> QED BY <1>4, <2>1
<1> HIDE DEF resources
<1>6. /\ merged \in ResourceGraph /\ merged.resources = resources
      /\ merged.edges = BetweenLive(AllEdges(b, o, t), resources)
  <2>1. b.root \in Roots /\ AllEdges(b, o, t) \in SUBSET (Ids \X Ids)
    BY DEF AllEdges, ResourceGraph
  <2>2. BetweenLive(AllEdges(b, o, t), resources) \subseteq Ids \X Ids
    BY <2>1, BetweenLiveType
  <2> QED BY <1>5, <2>1, <2>2 DEF ResourceGraph
<1> HIDE DEF merged
<1>7. \A i \in Ids : resources[i] = Verdict(b, o, t, i).resource
  BY <1>4
<1> QED BY <1>2, <1>3, <1>6, <1>7

\* A replay takes what the changes say of a resource, and leaves the others.
LEMMA ReplayParts ==
  ASSUME NEW b \in ResourceGraph, NEW o \in ResourceGraph, NEW g \in ResourceGraph,
         NEW r, r = ApplyChanges(g, DiffGraphs(b, o))
  PROVE  /\ r \in ResourceGraph
         /\ \A i \in Ids : r.resources[i] = IF b.resources[i] # o.resources[i]
                                            THEN o.resources[i] ELSE g.resources[i]
         /\ r.edges = BetweenLive(g.edges, r.resources)
<1> DEFINE changes   == DiffGraphs(b, o)
           after(i)  == { c \in changes : c.id = i }
           resources == [i \in Ids |-> IF after(i) = {} THEN g.resources[i]
                                       ELSE (CHOOSE c \in after(i) : TRUE).after]
           edges     == BetweenLive(g.edges, resources)
<1>1. r = [g EXCEPT !.resources = resources, !.edges = edges]
  BY DEF ApplyChanges
<1>2. ASSUME NEW i \in Ids
      PROVE  resources[i] = IF b.resources[i] # o.resources[i]
                            THEN o.resources[i] ELSE g.resources[i]
  <2>1. ASSUME NEW c \in changes
        PROVE  b.resources[c.id] # o.resources[c.id] /\ c.after = o.resources[c.id]
    <3>1. PICK j \in Ids : b.resources[j] # o.resources[j] /\ c = [id |-> j, after |-> o.resources[j]]
      BY DEF DiffGraphs
    <3> QED BY <3>1
  <2>2. b.resources[i] # o.resources[i] => \E c \in changes : c.id = i
    <3> DEFINE c == [id |-> i, after |-> o.resources[i]]
    <3>1. b.resources[i] # o.resources[i] => c \in changes
      BY DEF DiffGraphs
    <3>2. c.id = i
      OBVIOUS
    <3> HIDE DEF c, changes
    <3> QED BY <3>1, <3>2
  <2> HIDE DEF changes
  <2>3. after(i) = {} <=> b.resources[i] = o.resources[i]
    BY <2>1, <2>2
  <2>4. \A c \in after(i) : c.after = o.resources[i]
    BY <2>1
  <2>5. resources[i] = IF after(i) = {} THEN g.resources[i]
                       ELSE (CHOOSE c \in after(i) : TRUE).after
    OBVIOUS
  <2> HIDE DEF after, resources
  <2>6. after(i) # {} => (CHOOSE c \in after(i) : TRUE) \in after(i)
    OBVIOUS
  <2> QED BY <2>3, <2>4, <2>5, <2>6
<1>3. resources \in [Ids -> Resources \cup {None}]
  <2>1. \A i \in Ids : /\ o.resources[i] \in Resources \cup {None}
                       /\ g.resources[i] \in Resources \cup {None}
    BY DEF ResourceGraph
  <2>2. \E f : resources = [i \in Ids |-> f[i]]
    <3>1. resources = [i \in Ids |-> resources[i]]
      OBVIOUS
    <3> QED BY <3>1
  <2> HIDE DEF resources
  <2>3. \A i \in Ids : resources[i] \in Resources \cup {None}
    BY <1>2, <2>1
  <2> QED BY <2>2, <2>3
<1> HIDE DEF resources
<1>4. edges \in SUBSET (Ids \X Ids)
  <2>1. g.edges \in SUBSET (Ids \X Ids)
    BY DEF ResourceGraph
  <2> QED BY <2>1, BetweenLiveType
<1>5. edges = BetweenLive(g.edges, resources)
  OBVIOUS
<1> HIDE DEF edges
<1>6. r \in ResourceGraph /\ r.resources = resources /\ r.edges = edges
  BY <1>1, <1>3, <1>4 DEF ResourceGraph
<1> QED BY <1>2, <1>5, <1>6

-----------------------------------------------------------------------------
(***************************************************************************)
(* The inductive invariant.                                                *)
(***************************************************************************)
\* The graphs stay what they were when the outcome was made of them, and the plan what ours
\* did to the base.
BranchesInv ==
  /\ base \in ResourceGraph /\ head \in [Sides -> ResourceGraph]
  /\ plan # None => plan.changes = DiffGraphs(base, head["ours"])
  /\ outcome # None =>
       \/ /\ outcome.by = "merge"
          /\ outcome.graph = ThreeWayMerge(base, head["ours"], head["theirs"]).graph
          /\ outcome.conflicts = ThreeWayMerge(base, head["ours"], head["theirs"]).conflicts
       \/ /\ outcome.by = "replay" /\ outcome.conflicts = {}
          /\ outcome.graph = ApplyChanges(head["theirs"], DiffGraphs(base, head["ours"]))

LEMMA BranchesInit ==
  ASSUME Init
  PROVE  BranchesInv
<1>1. base \in ResourceGraph
  BY GraphsAssumption DEF Init
<1>2. head \in [Sides -> ResourceGraph]
  BY <1>1 DEF Init
<1> QED BY <1>1, <1>2 DEF Init, BranchesInv

LEMMA BranchesNext ==
  ASSUME BranchesInv, [Next]_vars
  PROVE  BranchesInv'
<1>1. ASSUME NEW s \in Sides, Commit(s)
      PROVE  BranchesInv'
  <2>1. PICK g \in Heads \cup { [base EXCEPT !.root = r] : r \in Roots } :
          head' = [head EXCEPT ![s] = g]
    BY <1>1 DEF Commit
  <2>2. g \in ResourceGraph
    <3>1. CASE g \in Heads
      BY <3>1, GraphsAssumption
    <3>2. ASSUME NEW r \in Roots, g = [base EXCEPT !.root = r]
          PROVE  g \in ResourceGraph
      BY <3>2 DEF BranchesInv, ResourceGraph
    <3> QED BY <2>1, <3>1, <3>2
  <2>3. head' \in [Sides -> ResourceGraph]
    BY <2>1, <2>2 DEF BranchesInv
  <2>4. plan # None => head'["ours"] = head["ours"]
    BY <1>1, <2>1 DEF Commit, BranchesInv, Sides
  <2>5. outcome' = None /\ plan' = plan /\ base' = base
    BY <1>1 DEF Commit
  <2> QED BY <2>3, <2>4, <2>5 DEF BranchesInv
<1>2. CASE MergeStates
  <2>1. /\ outcome'.by = "merge" /\ UNCHANGED <<base, head, plan>>
        /\ outcome'.graph = ThreeWayMerge(base, head["ours"], head["theirs"]).graph
        /\ outcome'.conflicts = ThreeWayMerge(base, head["ours"], head["theirs"]).conflicts
    BY <1>2 DEF MergeStates
  <2> QED BY <2>1 DEF BranchesInv
<1>3. CASE DiffStates
  <2>1. /\ plan'.changes = DiffGraphs(base, head["ours"]) /\ outcome' = None
        /\ UNCHANGED <<base, head>>
    BY <1>3 DEF DiffStates
  <2> QED BY <2>1 DEF BranchesInv
<1>4. CASE ApplyPlan
  <2>1. /\ outcome'.by = "replay" /\ outcome'.conflicts = {} /\ plan # None
        /\ outcome'.graph = ApplyChanges(head["theirs"], plan.changes)
        /\ UNCHANGED <<base, head, plan>>
    BY <1>4 DEF ApplyPlan
  <2>2. plan.changes = DiffGraphs(base, head["ours"])
    BY <2>1 DEF BranchesInv
  <2> QED BY <2>1, <2>2 DEF BranchesInv
<1>5. CASE UNCHANGED vars
  BY <1>5 DEF vars, BranchesInv
<1> QED BY <1>1, <1>2, <1>3, <1>4, <1>5 DEF Next

LEMMA BranchesInvariant == Spec => []BranchesInv
<1>1. Init => BranchesInv
  BY BranchesInit
<1>2. BranchesInv /\ [Next]_vars => BranchesInv'
  BY BranchesNext
<1> QED BY <1>1, <1>2, PTL DEF Spec

\* The outcome, in the terms of MergeClean and ReplayParts.
LEMMA GraphsHere ==
  ASSUME BranchesInv
  PROVE  base \in ResourceGraph /\ head["ours"] \in ResourceGraph /\ head["theirs"] \in ResourceGraph
  BY DEF BranchesInv, Sides

-----------------------------------------------------------------------------
(***************************************************************************)
(* The theorems.                                                           *)
(***************************************************************************)
\* Whatever graphs are merged or replayed, the result is a graph whose edges have both their
\* ends in it; and a merge has a graph exactly if it has no conflicts.
THEOREM OutcomesAreGraphs == Spec => []TypeOK
<1>1. ASSUME BranchesInv
      PROVE  TypeOK
  <2> DEFINE b == base
             o == head["ours"]
             t == head["theirs"]
  <2>1. b \in ResourceGraph /\ o \in ResourceGraph /\ t \in ResourceGraph
    BY <1>1, GraphsHere
  <2>2. { base } \cup { head[s] : s \in Sides } \subseteq ResourceGraph
    BY <1>1 DEF BranchesInv
  <2>3. CASE outcome # None /\ outcome.by = "merge"
    <3>1. outcome.graph = ThreeWayMerge(b, o, t).graph
          /\ outcome.conflicts = ThreeWayMerge(b, o, t).conflicts
      BY <1>1, <2>3 DEF BranchesInv
    <3> HIDE DEF b, o, t
    <3>2. PICK n : n = ThreeWayMerge(b, o, t)
      OBVIOUS
    <3>3. CASE ~ SameRoot(b, o, t)
      <4>1. n.graph = None /\ n.conflicts # {} /\ n.conflicts \subseteq Conflicts
        BY <3>2, <3>3, MergeAcrossRoots
      <4> QED BY <2>2, <2>3, <3>1, <3>2, <4>1 DEF TypeOK
    <3>4. CASE SameRoot(b, o, t) /\ ~ Clean(b, o, t)
      <4>1. /\ n.graph = None
            /\ \A i \in InConflict(b, o, t) : ConflictOf(b, o, t, i) \in n.conflicts
            /\ \A c \in n.conflicts :
                 c.id \in InConflict(b, o, t) /\ c = ConflictOf(b, o, t, c.id)
        BY <3>2, <3>4, MergeConflicts
      <4>2. ASSUME NEW i \in InConflict(b, o, t)
            PROVE  ConflictOf(b, o, t, i) \in Conflicts
        <5>1. /\ i \in Ids /\ Verdict(b, o, t, i).conflict # None
              /\ Verdict(b, o, t, i).conflict \in ConflictKinds \cup {None}
              /\ Verdict(b, o, t, i).paths \subseteq Paths
          BY <2>1, VerdictParts DEF InConflict
        <5> QED BY <5>1 DEF ConflictOf, Conflicts
      <4>3. n.conflicts \subseteq Conflicts /\ n.conflicts # {}
        BY <3>4, <4>1, <4>2 DEF Clean, InConflict
      <4> QED BY <2>2, <2>3, <3>1, <3>2, <4>1, <4>3 DEF TypeOK
    <3>5. CASE SameRoot(b, o, t) /\ Clean(b, o, t)
      <4>1. /\ n.graph \in ResourceGraph /\ n.conflicts = {}
            /\ n.graph.edges = BetweenLive(AllEdges(b, o, t), n.graph.resources)
        BY <2>1, <3>2, <3>5, MergeClean
      <4>2. AllEdges(b, o, t) \in SUBSET (Ids \X Ids)
        BY <2>1 DEF AllEdges, ResourceGraph
      <4>3. n.graph.edges \subseteq Live(n.graph.resources) \X Live(n.graph.resources)
        BY <4>1, <4>2, BetweenLiveType
      <4>4. n.graph # None
        BY <4>1, NoneAssumption
      <4> QED BY <2>2, <2>3, <3>1, <3>2, <4>1, <4>3, <4>4 DEF TypeOK
    <3> QED BY <3>3, <3>4, <3>5
  <2>4. CASE outcome # None /\ outcome.by # "merge"
    <3>1. outcome.graph = ApplyChanges(t, DiffGraphs(b, o)) /\ outcome.conflicts = {}
      BY <1>1, <2>4 DEF BranchesInv
    <3> HIDE DEF b, o, t
    <3>2. PICK n : n = ApplyChanges(t, DiffGraphs(b, o))
      OBVIOUS
    <3>3. n \in ResourceGraph /\ n.edges = BetweenLive(t.edges, n.resources)
      BY <2>1, <3>2, ReplayParts
    <3>4. t.edges \in SUBSET (Ids \X Ids)
      BY <2>1 DEF ResourceGraph
    <3>5. n.edges \subseteq Live(n.resources) \X Live(n.resources)
      BY <3>3, <3>4, BetweenLiveType
    <3>6. n # None
      BY <3>3, NoneAssumption
    <3> QED BY <2>2, <2>4, <3>1, <3>2, <3>3, <3>5, <3>6 DEF TypeOK
  <2>5. CASE outcome = None
    BY <2>2, <2>5 DEF TypeOK
  <2> QED BY <2>3, <2>4, <2>5
<1> QED BY <1>1, BranchesInvariant, PTL

LEMMA VerdictRight ==
  ASSUME NEW b \in ResourceGraph, NEW o \in ResourceGraph, NEW t \in ResourceGraph, NEW i \in Ids
  PROVE  RightVerdict(Verdict(b, o, t, i), b.resources[i], o.resources[i], t.resources[i])
<1>1. /\ b.resources[i] \in Resources \cup {None}
      /\ o.resources[i] \in Resources \cup {None}
      /\ t.resources[i] \in Resources \cup {None}
  BY VerdictParts
<1>2. PICK v : v = MergeOneResource(b.resources[i], o.resources[i], t.resources[i])
  OBVIOUS
<1>3. RightVerdict(v, b.resources[i], o.resources[i], t.resources[i])
  BY <1>1, <1>2, ResourceMerges
<1> QED BY <1>2, <1>3 DEF Verdict

\* A member is wanted if both sides have it, or if one has added it.
LEMMA MemberWanted ==
  ASSUME NEW b \in BOOLEAN, NEW o \in BOOLEAN, NEW t \in BOOLEAN
  PROVE  Reconciled(b, o, t) = {TRUE} <=>
           \/ o = TRUE /\ t = TRUE
           \/ (o = TRUE \/ t = TRUE) /\ b = FALSE
<1>1. CASE o = t
  BY <1>1 DEF Reconciled
<1>2. CASE o # t /\ b = o
  BY <1>2 DEF Reconciled
<1>3. CASE o # t /\ b = t
  BY <1>3 DEF Reconciled
<1> QED BY <1>1, <1>2, <1>3

\* What is wanted of three sets is in one side at least, and what the sides have beyond it was
\* in the base.
LEMMA WantedParts ==
  ASSUME NEW b, NEW o, NEW t
  PROVE  /\ ReconciledSet(b, o, t) \subseteq o \cup t
         /\ (o \cup t) \ ReconciledSet(b, o, t) \subseteq b
<1>1. ASSUME NEW x
      PROVE  Reconciled(x \in b, x \in o, x \in t) = {TRUE} <=>
               \/ x \in o /\ x \in t
               \/ (x \in o \/ x \in t) /\ x \notin b
  <2>1. (x \in b) \in BOOLEAN /\ (x \in o) \in BOOLEAN /\ (x \in t) \in BOOLEAN
    OBVIOUS
  <2>2. Reconciled(x \in b, x \in o, x \in t) = {TRUE} <=>
          \/ (x \in o) = TRUE /\ (x \in t) = TRUE
          \/ ((x \in o) = TRUE \/ (x \in t) = TRUE) /\ (x \in b) = FALSE
    BY <2>1, MemberWanted
  <2>3. /\ (x \in o) = TRUE <=> x \in o
        /\ (x \in t) = TRUE <=> x \in t
        /\ (x \in b) = FALSE <=> x \notin b
    OBVIOUS
  <2> QED BY <2>2, <2>3, Zenon
<1> QED BY <1>1 DEF ReconciledSet

\* The union of the sides' dependencies has what is wanted, and what else it has one side has
\* kept.
LEMMA DepsUnited ==
  ASSUME NEW b, NEW o, NEW t
  PROVE  LosesNoAddition(o \cup t, ReconciledSet(b, o, t), b \cap (o \cup t))
  BY WantedParts DEF LosesNoAddition

\* The union of all edges that keep their ends has what is wanted, and what else it has was in
\* the base.
LEMMA EdgesUnited ==
  ASSUME NEW b, NEW o, NEW t, NEW resources
  PROVE  LosesNoAddition(BetweenLive(AllEdges(b, o, t), resources),
                         BetweenLive(ReconciledSet(b.edges, o.edges, t.edges), resources), b.edges)
<1> DEFINE wanted == ReconciledSet(b.edges, o.edges, t.edges)
<1>1. wanted \subseteq o.edges \cup t.edges /\ (o.edges \cup t.edges) \ wanted \subseteq b.edges
  BY WantedParts
<1> HIDE DEF wanted
<1>2. BetweenLive(wanted, resources) \subseteq BetweenLive(AllEdges(b, o, t), resources)
  BY <1>1 DEF BetweenLive, AllEdges
<1>3. BetweenLive(AllEdges(b, o, t), resources) \ BetweenLive(wanted, resources) \subseteq b.edges
  BY <1>1 DEF BetweenLive, AllEdges
<1> QED BY <1>2, <1>3 DEF LosesNoAddition, wanted

\* three_way_merge loses no edit and invents none, but that edges and dependencies are united
\* and the kind is ours, and reports every dispute by name.
THEOREM MergesAreThreeWay == Spec => []MergeIsThreeWay
<1>1. ASSUME BranchesInv, outcome # None, outcome.by = "merge",
             head["ours"].root = head["theirs"].root, head["ours"].root = base.root
      PROVE  MergeIsThreeWay
  <2> DEFINE b == base
             o == head["ours"]
             t == head["theirs"]
             contested(i) == Reconciled(b.resources[i], o.resources[i], t.resources[i]) = {}
             attr(i, p)   == Reconciled(b.resources[i].attrs[p], o.resources[i].attrs[p],
                                        t.resources[i].attrs[p])
             edited(i)    == /\ contested(i) /\ b.resources[i] # None
                             /\ o.resources[i] # None /\ t.resources[i] # None
             disputed(i)  == contested(i) /\ (edited(i) => \E p \in Paths : attr(i, p) = {})
             deps(i)      == ReconciledSet(b.resources[i].deps, o.resources[i].deps,
                                           t.resources[i].deps)
             held(i)      == b.resources[i].deps
                               \cap (o.resources[i].deps \cup t.resources[i].deps)
             edges        == ReconciledSet(b.edges, o.edges, t.edges)
  <2>1. b \in ResourceGraph /\ o \in ResourceGraph /\ t \in ResourceGraph
    BY <1>1, GraphsHere
  <2>2. SameRoot(b, o, t)
    BY <1>1 DEF SameRoot
  <2>3. PICK n : n = ThreeWayMerge(b, o, t)
    OBVIOUS
  <2>4. outcome.graph = n.graph /\ outcome.conflicts = n.conflicts
    BY <1>1, <2>3 DEF BranchesInv
  <2>5. ASSUME NEW i \in Ids
        PROVE  /\ Verdict(b, o, t, i).conflict # None <=> disputed(i)
               /\ Verdict(b, o, t, i).conflict # None /\ edited(i) =>
                    Verdict(b, o, t, i).paths = { p \in Paths : attr(i, p) = {} }
               /\ Verdict(b, o, t, i).conflict = None =>
                    LET r == Verdict(b, o, t, i).resource
                    IN  /\ ~ contested(i) => r \in Reconciled(b.resources[i], o.resources[i],
                                                             t.resources[i])
                        /\ edited(i) => /\ r.kind = o.resources[i].kind
                                        /\ LosesNoAddition(r.deps, deps(i), held(i))
                                        /\ \A p \in Paths : r.attrs[p] \in attr(i, p)
    <3> HIDE DEF b, o, t
    <3>1. RightVerdict(Verdict(b, o, t, i), b.resources[i], o.resources[i], t.resources[i])
      BY <2>1, VerdictRight
    <3> DEFINE x == b.resources[i]
               y == o.resources[i]
               z == t.resources[i]
               v == Verdict(b, o, t, i)
    <3>2. contested(i) <=> Contested(x, y, z)
      BY ReconciledParts
    <3>3. ~ contested(i) => Reconciled(x, y, z) = {IF x = y THEN z ELSE y}
      BY ReconciledParts
    <3>4. Disputed(x, y, z) = { p \in Paths : attr(i, p) = {} }
      BY DEF Disputed
    <3>5. edited(i) <=> contested(i) /\ All(x, y, z)
      BY DEF All
    <3>6. disputed(i) <=> contested(i) /\ (edited(i) => { p \in Paths : attr(i, p) = {} } # {})
      OBVIOUS
    <3>7. edited(i) /\ v.conflict = None =>
            /\ v.resource.kind = y.kind /\ v.resource.deps = y.deps \cup z.deps
            /\ \A p \in Paths : v.resource.attrs[p] \in attr(i, p)
      BY <3>1, <3>2, <3>5 DEF RightVerdict
    <3>11. LosesNoAddition(y.deps \cup z.deps, deps(i), held(i))
      BY DepsUnited
    <3> HIDE DEF contested, edited, disputed, attr, v, deps, held
    <3>8. v.conflict # None <=> disputed(i)
      BY <3>1, <3>2, <3>4, <3>5, <3>6 DEF RightVerdict, v
    <3>9. v.conflict # None /\ edited(i) => v.paths = { p \in Paths : attr(i, p) = {} }
      BY <3>1, <3>2, <3>4, <3>5 DEF RightVerdict, v
    <3>10. ~ contested(i) => v.resource \in Reconciled(x, y, z)
      BY <3>1, <3>2, <3>3 DEF RightVerdict, v
    <3> QED BY <3>7, <3>8, <3>9, <3>10, <3>11 DEF v
  <2>6. { c.id : c \in outcome.conflicts } = { i \in Ids : disputed(i) }
    <3> HIDE DEF b, o, t, disputed, edited
    <3>1. CASE Clean(b, o, t)
      <4>1. n.conflicts = {}
        BY <2>1, <2>2, <2>3, <3>1, MergeClean
      <4>2. \A i \in Ids : ~ disputed(i)
        BY <2>5, <3>1 DEF Clean
      <4> QED BY <2>4, <4>1, <4>2
    <3>2. CASE ~ Clean(b, o, t)
      <4>1. /\ \A i \in InConflict(b, o, t) : ConflictOf(b, o, t, i) \in n.conflicts
            /\ \A c \in n.conflicts : c.id \in InConflict(b, o, t)
        BY <2>2, <2>3, <3>2, MergeConflicts
      <4>2. \A i : i \in InConflict(b, o, t) <=> i \in Ids /\ disputed(i)
        BY <2>5 DEF InConflict
      <4>3. \A i \in InConflict(b, o, t) : ConflictOf(b, o, t, i).id = i
        BY DEF ConflictOf
      <4> QED BY <2>4, <4>1, <4>2, <4>3
    <3> QED BY <3>1, <3>2
  <2>7. ASSUME NEW c \in outcome.conflicts, edited(c.id)
        PROVE  c.paths = { p \in Paths : attr(c.id, p) = {} }
    <3> HIDE DEF b, o, t, edited, attr
    <3>1. ~ Clean(b, o, t)
      BY <2>1, <2>2, <2>3, <2>4, <2>7, MergeClean
    <3>2. c.id \in InConflict(b, o, t) /\ c = ConflictOf(b, o, t, c.id)
      BY <2>2, <2>3, <2>4, <3>1, MergeConflicts
    <3>3. c.id \in Ids /\ Verdict(b, o, t, c.id).conflict # None
      BY <3>2 DEF InConflict
    <3>4. c.paths = Verdict(b, o, t, c.id).paths
      BY <3>2 DEF ConflictOf
    <3> QED BY <2>5, <2>7, <3>3, <3>4
  <2>8. ASSUME outcome.graph # None, NEW i \in Ids
        PROVE  LET r == outcome.graph.resources[i]
               IN  /\ ~ contested(i) => r \in Reconciled(b.resources[i], o.resources[i],
                                                        t.resources[i])
                   /\ edited(i) => /\ r.kind = o.resources[i].kind
                                   /\ LosesNoAddition(r.deps, deps(i), held(i))
                                   /\ \A p \in Paths : r.attrs[p] \in attr(i, p)
    <3> HIDE DEF b, o, t, contested, edited, attr, deps, held
    <3>1. Clean(b, o, t)
      BY <2>2, <2>3, <2>4, <2>8, MergeConflicts
    <3>2. n.graph.resources[i] = Verdict(b, o, t, i).resource
      BY <2>1, <2>2, <2>3, <3>1, MergeClean
    <3>3. Verdict(b, o, t, i).conflict = None
      BY <3>1 DEF Clean
    <3> QED BY <2>4, <2>5, <3>2, <3>3
  <2>9. outcome.graph # None =>
          LosesNoAddition(outcome.graph.edges, BetweenLive(edges, outcome.graph.resources), b.edges)
    <3> SUFFICES ASSUME outcome.graph # None
                 PROVE  LosesNoAddition(n.graph.edges, BetweenLive(edges, n.graph.resources), b.edges)
      BY <2>4
    <3> HIDE DEF b, o, t
    <3>1. Clean(b, o, t)
      BY <2>2, <2>3, <2>4, MergeConflicts
    <3>2. n.graph.edges = BetweenLive(AllEdges(b, o, t), n.graph.resources)
      BY <2>1, <2>2, <2>3, <3>1, MergeClean
    <3> QED BY <3>2, EdgesUnited
  <2> QED BY <2>6, <2>7, <2>8, <2>9 DEF MergeIsThreeWay
<1>2. BranchesInv => MergeIsThreeWay
  <2>1. \/ MergeIsThreeWay
        \/ /\ outcome # None /\ outcome.by = "merge"
           /\ head["ours"].root = head["theirs"].root /\ head["ours"].root = base.root
    BY DEF MergeIsThreeWay
  <2> QED BY <1>1, <2>1
<1> QED BY <1>2, BranchesInvariant, PTL

-----------------------------------------------------------------------------
(***************************************************************************)
(* Exchanging the sides.                                                   *)
(***************************************************************************)
\* Where no side of an edited resource prevails, neither does when they are exchanged.
LEMMA DisputesMirrored ==
  ASSUME NEW b, NEW o, NEW t
  PROVE  /\ Contested(b, o, t) <=> Contested(b, t, o)
         /\ Disputed(b, o, t) = Disputed(b, t, o)
<1>1. \A x, y, z : Contested(x, y, z) <=> Contested(x, z, y)
  BY DEF Contested
<1>2. \A x, y, z : Reconciled(x, y, z) = {} <=> Reconciled(x, z, y) = {}
  BY <1>1, ReconciledParts
<1> QED BY <1>1, <1>2 DEF Disputed

\* r, merged from b, o and t, and s, merged with o and t in each other's places, differ at most
\* in kind, and in that only if both o and t have changed b, differently.
SameButKind(r, s, b, o, t) ==
  \/ r = s
  \/ /\ r \in Resources /\ s \in Resources /\ Contested(b, o, t)
     /\ r = [s EXCEPT !.kind = o.kind] /\ s = [r EXCEPT !.kind = t.kind]

\* Two clean verdicts on one resource, one with the sides exchanged.
LEMMA VerdictsMirrored ==
  ASSUME NEW b \in Resources \cup {None}, NEW o \in Resources \cup {None},
         NEW t \in Resources \cup {None}, NEW v, NEW w,
         RightVerdict(v, b, o, t), RightVerdict(w, b, t, o), VerdictType(v), VerdictType(w)
  PROVE  /\ v.conflict = None <=> w.conflict = None
         /\ v.conflict = None => SameButKind(v.resource, w.resource, b, o, t)
<1>1. /\ Contested(b, o, t) <=> Contested(b, t, o)
      /\ Disputed(b, o, t) = Disputed(b, t, o)
  BY DisputesMirrored
<1>2. All(b, o, t) <=> All(b, t, o)
  BY DEF All
<1>3. v.conflict = None <=> w.conflict = None
  BY <1>1, <1>2 DEF RightVerdict
<1>4. CASE ~ Contested(b, o, t)
  <2>1. v.resource = (IF b = o THEN t ELSE o) /\ w.resource = (IF b = t THEN o ELSE t)
    BY <1>1, <1>4 DEF RightVerdict
  <2>2. (IF b = o THEN t ELSE o) = (IF b = t THEN o ELSE t)
    BY <1>4 DEF Contested
  <2> QED BY <1>3, <2>1, <2>2 DEF SameButKind
<1>5. CASE Contested(b, o, t) /\ v.conflict = None
  <2> DEFINE r == v.resource
             s == w.resource
             just(p) == Reconciled(b.attrs[p], o.attrs[p], t.attrs[p])
  <2>1. All(b, o, t) /\ o \in Resources /\ t \in Resources
    BY <1>5 DEF RightVerdict, All
  <2>2. /\ r.kind = o.kind /\ r.deps = o.deps \cup t.deps
        /\ \A p \in Paths : r.attrs[p] \in just(p)
    BY <1>5, <2>1 DEF RightVerdict
  <2>3. /\ s.kind = t.kind /\ s.deps = t.deps \cup o.deps
        /\ \A p \in Paths : s.attrs[p] \in Reconciled(b.attrs[p], t.attrs[p], o.attrs[p])
    BY <1>1, <1>2, <1>3, <1>5, <2>1 DEF RightVerdict
  <2>4. \A p \in Paths : r.attrs[p] = s.attrs[p]
    <3> SUFFICES ASSUME NEW p \in Paths
                 PROVE  r.attrs[p] = s.attrs[p]
      OBVIOUS
    <3> DEFINE x == b.attrs[p]
               y == o.attrs[p]
               z == t.attrs[p]
    <3>1. r.attrs[p] \in Reconciled(x, y, z) /\ s.attrs[p] \in Reconciled(x, z, y)
      BY <2>2, <2>3
    <3> HIDE DEF x, y, z, r, s
    <3>2. ~ Contested(x, y, z) /\ ~ Contested(x, z, y)
      BY <3>1, ReconciledParts
    <3>3. /\ r.attrs[p] = IF x = y THEN z ELSE y
          /\ s.attrs[p] = IF x = z THEN y ELSE z
      BY <3>1, <3>2, ReconciledParts
    <3> QED BY <3>2, <3>3 DEF Contested
  <2>5. r \in Resources /\ s \in Resources
    BY <1>1, <1>2, <1>3, <1>5, <2>1 DEF RightVerdict
  <2>6. r.attrs = s.attrs
    BY <2>4, <2>5 DEF Resources
  <2>7. r = [s EXCEPT !.kind = o.kind] /\ s = [r EXCEPT !.kind = t.kind]
    <3> HIDE DEF r, s
    <3> QED BY <2>2, <2>3, <2>5, <2>6 DEF Resources
  <2> QED BY <1>3, <1>5, <2>5, <2>7 DEF SameButKind
<1> QED BY <1>3, <1>4, <1>5

\* What remains clean when ours and theirs change places, and what becomes of it.
LEMMA MirrorsClean ==
  ASSUME NEW b \in ResourceGraph, NEW o \in ResourceGraph, NEW t \in ResourceGraph
  PROVE  /\ InConflict(b, o, t) = InConflict(b, t, o)
         /\ Clean(b, o, t) =>
              \A i \in Ids :
                SameButKind(Verdict(b, o, t, i).resource, Verdict(b, t, o, i).resource,
                            b.resources[i], o.resources[i], t.resources[i])
<1>1. ASSUME NEW i \in Ids
      PROVE  /\ Verdict(b, o, t, i).conflict = None <=> Verdict(b, t, o, i).conflict = None
             /\ Verdict(b, o, t, i).conflict = None =>
                  SameButKind(Verdict(b, o, t, i).resource, Verdict(b, t, o, i).resource,
                              b.resources[i], o.resources[i], t.resources[i])
  <2>1. PICK v, w : v = Verdict(b, o, t, i) /\ w = Verdict(b, t, o, i)
    OBVIOUS
  <2>2. /\ b.resources[i] \in Resources \cup {None}
        /\ o.resources[i] \in Resources \cup {None}
        /\ t.resources[i] \in Resources \cup {None}
        /\ VerdictType(v) /\ VerdictType(w)
    BY <2>1, VerdictParts DEF VerdictType
  <2>3. /\ RightVerdict(v, b.resources[i], o.resources[i], t.resources[i])
        /\ RightVerdict(w, b.resources[i], t.resources[i], o.resources[i])
    BY <2>1, VerdictRight
  <2> QED BY <2>1, <2>2, <2>3, VerdictsMirrored
<1> QED BY <1>1 DEF InConflict, Clean

\* "A clean merge of (b, o, t) and (b, t, o) produces the same resource set" (M.4 of
\* galho-types/tests/merge_proptest.rs) is true but for kind, status and provenance: which
\* side is called ours decides neither whether a merge is clean, nor which resources are in
\* dispute, nor what is there, with which attributes, dependencies and edges; only a
\* resource both sides have edited has the kind of the side called ours.
THEOREM MergesMirrored ==
  ASSUME NEW b \in ResourceGraph, NEW o \in ResourceGraph, NEW t \in ResourceGraph
  PROVE  LET m == ThreeWayMerge(b, o, t)
             n == ThreeWayMerge(b, t, o)
         IN  /\ m.graph = None <=> n.graph = None
             /\ SameRoot(b, o, t) => { c.id : c \in m.conflicts } = { c.id : c \in n.conflicts }
             /\ m.graph # None =>
                  /\ m.graph.edges = n.graph.edges
                  /\ \A i \in Ids :
                       SameButKind(m.graph.resources[i], n.graph.resources[i],
                                   b.resources[i], o.resources[i], t.resources[i])
<1>1. PICK m, n : m = ThreeWayMerge(b, o, t) /\ n = ThreeWayMerge(b, t, o)
  OBVIOUS
<1>2. CASE ~ SameRoot(b, o, t)
  <2>1. ~ SameRoot(b, t, o)
    BY <1>2 DEF SameRoot
  <2>2. m.graph = None /\ n.graph = None
    BY <1>1, <1>2, <2>1, MergeAcrossRoots
  <2> QED BY <1>1, <1>2, <2>2
<1>3. CASE SameRoot(b, o, t) /\ ~ Clean(b, o, t)
  <2>1. SameRoot(b, t, o) /\ ~ Clean(b, t, o)
    BY <1>3, MirrorsClean DEF SameRoot, Clean, InConflict
  <2>2. /\ m.graph = None
        /\ \A i \in InConflict(b, o, t) : ConflictOf(b, o, t, i) \in m.conflicts
        /\ \A c \in m.conflicts : c.id \in InConflict(b, o, t)
    BY <1>1, <1>3, MergeConflicts
  <2>3. /\ n.graph = None
        /\ \A i \in InConflict(b, t, o) : ConflictOf(b, t, o, i) \in n.conflicts
        /\ \A c \in n.conflicts : c.id \in InConflict(b, t, o)
    BY <1>1, <2>1, MergeConflicts
  <2>4. \A i : ConflictOf(b, o, t, i).id = i /\ ConflictOf(b, t, o, i).id = i
    BY DEF ConflictOf
  <2>5. { c.id : c \in m.conflicts } = InConflict(b, o, t)
    BY <2>2, <2>4
  <2>6. { c.id : c \in n.conflicts } = InConflict(b, t, o)
    BY <2>3, <2>4
  <2> QED BY <1>1, <2>2, <2>3, <2>5, <2>6, MirrorsClean
<1>4. CASE SameRoot(b, o, t) /\ Clean(b, o, t)
  <2>1. SameRoot(b, t, o) /\ Clean(b, t, o)
    BY <1>4, MirrorsClean DEF SameRoot, Clean, InConflict
  <2>2. /\ m.graph \in ResourceGraph /\ m.conflicts = {}
        /\ \A i \in Ids : m.graph.resources[i] = Verdict(b, o, t, i).resource
        /\ m.graph.edges = BetweenLive(AllEdges(b, o, t), m.graph.resources)
    BY <1>1, <1>4, MergeClean
  <2>3. /\ n.graph \in ResourceGraph /\ n.conflicts = {}
        /\ \A i \in Ids : n.graph.resources[i] = Verdict(b, t, o, i).resource
        /\ n.graph.edges = BetweenLive(AllEdges(b, t, o), n.graph.resources)
    BY <1>1, <2>1, MergeClean
  <2>4. m.graph # None /\ n.graph # None
    BY <2>2, <2>3, NoneAssumption
  <2>5. ASSUME NEW i \in Ids
        PROVE  SameButKind(m.graph.resources[i], n.graph.resources[i],
                           b.resources[i], o.resources[i], t.resources[i])
    <3>1. /\ m.graph.resources[i] = Verdict(b, o, t, i).resource
          /\ n.graph.resources[i] = Verdict(b, t, o, i).resource
      BY <2>2, <2>3
    <3> QED BY <1>4, <3>1, MirrorsClean
  <2>6. Live(m.graph.resources) = Live(n.graph.resources)
    <3>1. \A i \in Ids : m.graph.resources[i] = None <=> n.graph.resources[i] = None
      BY <2>5, NoneAssumption DEF SameButKind
    <3> QED BY <3>1 DEF Live
  <2>7. AllEdges(b, o, t) = AllEdges(b, t, o)
    BY DEF AllEdges
  <2>8. m.graph.edges = n.graph.edges
    BY <2>2, <2>3, <2>6, <2>7 DEF BetweenLive
  <2> QED BY <1>1, <2>2, <2>3, <2>4, <2>5, <2>8
<1> QED BY <1>2, <1>3, <1>4

-----------------------------------------------------------------------------
\* Where no resource was changed on both sides, applying the plan of one branch to the other
\* gives what merging them gives, although apply_plan does not compare the state it is given
\* with the one the plan starts from.
THEOREM ReplaysMeetMerges == Spec => []ReplayMeetsMerge
<1>1. ASSUME BranchesInv, outcome # None, outcome.by = "replay",
             head["ours"].root = head["theirs"].root, head["ours"].root = base.root,
             \A i \in Ids : base.resources[i] \in { head[s].resources[i] : s \in Sides }
      PROVE  ReplayMeetsMerge
  <2> DEFINE b == base
             o == head["ours"]
             t == head["theirs"]
  <2>1. b \in ResourceGraph /\ o \in ResourceGraph /\ t \in ResourceGraph
    BY <1>1, GraphsHere
  <2>2. SameRoot(b, o, t)
    BY <1>1 DEF SameRoot
  <2>3. PICK r : r = ApplyChanges(t, DiffGraphs(b, o))
    OBVIOUS
  <2>4. outcome.graph = r
    BY <1>1, <2>3 DEF BranchesInv
  <2>5. PICK n : n = ThreeWayMerge(b, o, t)
    OBVIOUS
  <2>6. \A i \in Ids : b.resources[i] \in {o.resources[i], t.resources[i]}
    BY <1>1 DEF Sides
  <2>7. ThreeWayMerge(base, head["ours"], head["theirs"]) = n
    BY <2>5
  <2>8. head["theirs"] = base <=> t = b
    OBVIOUS
  <2>9. /\ n.conflicts = {}
        /\ r.resources = n.graph.resources
        /\ r.edges \subseteq n.graph.edges
        /\ t = b => r.resources = o.resources
    <3> HIDE DEF b, o, t
    <3>1. ASSUME NEW i \in Ids
          PROVE  /\ Verdict(b, o, t, i).conflict = None
                 /\ Verdict(b, o, t, i).resource =
                      IF b.resources[i] # o.resources[i] THEN o.resources[i] ELSE t.resources[i]
      <4>1. RightVerdict(Verdict(b, o, t, i), b.resources[i], o.resources[i], t.resources[i])
        BY <2>1, VerdictRight
      <4>2. ~ Contested(b.resources[i], o.resources[i], t.resources[i])
        BY <2>6 DEF Contested
      <4> QED BY <4>1, <4>2 DEF RightVerdict
    <3>2. Clean(b, o, t)
      BY <3>1 DEF Clean
    <3>3. /\ n.graph \in ResourceGraph /\ n.conflicts = {}
          /\ \A i \in Ids : n.graph.resources[i] = Verdict(b, o, t, i).resource
          /\ n.graph.edges = BetweenLive(AllEdges(b, o, t), n.graph.resources)
      BY <2>1, <2>2, <2>5, <3>2, MergeClean
    <3>4. /\ r \in ResourceGraph
          /\ \A i \in Ids : r.resources[i] = IF b.resources[i] # o.resources[i]
                                             THEN o.resources[i] ELSE t.resources[i]
          /\ r.edges = BetweenLive(t.edges, r.resources)
      BY <2>1, <2>3, ReplayParts
    <3>5. /\ r.resources \in [Ids -> Resources \cup {None}]
          /\ n.graph.resources \in [Ids -> Resources \cup {None}]
          /\ o.resources \in [Ids -> Resources \cup {None}]
      BY <2>1, <3>3, <3>4 DEF ResourceGraph
    <3>6. r.resources = n.graph.resources
      <4>1. \A i \in Ids : r.resources[i] = n.graph.resources[i]
        BY <3>1, <3>3, <3>4
      <4> QED BY <3>5, <4>1
    <3>7. r.edges \subseteq n.graph.edges
      BY <3>3, <3>4, <3>6 DEF BetweenLive, AllEdges
    <3>8. ASSUME t = b
          PROVE  r.resources = o.resources
      <4>1. \A i \in Ids : r.resources[i] = o.resources[i]
        BY <3>4, <3>8
      <4> QED BY <3>5, <4>1
    <3> QED BY <3>3, <3>6, <3>7, <3>8
  <2> QED BY <2>4, <2>7, <2>8, <2>9 DEF ReplayMeetsMerge
<1>2. BranchesInv => ReplayMeetsMerge
  <2>1. \/ ReplayMeetsMerge
        \/ /\ outcome # None /\ outcome.by = "replay"
           /\ head["ours"].root = head["theirs"].root /\ head["ours"].root = base.root
           /\ \A i \in Ids : base.resources[i] \in { head[s].resources[i] : s \in Sides }
    BY DEF ReplayMeetsMerge
  <2> QED BY <1>1, <2>1
<1> QED BY <1>2, BranchesInvariant, PTL
=============================================================================
