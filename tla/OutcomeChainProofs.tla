-------------------------- MODULE OutcomeChainProofs --------------------------
(***************************************************************************)
(* Proofs about OutcomeChain, for any number of processes, tasks and       *)
(* appends, with and without crashes.                                      *)
(***************************************************************************)
EXTENDS OutcomeChain, FiniteSetTheorems, SequenceTheorems, TLAPS

-----------------------------------------------------------------------------
(***************************************************************************)
(* The inductive invariant.                                                *)
(***************************************************************************)
Active(t) == stage[t] # "idle"

Stored(t)  == stage[t] \in {"put_meta", "cas_ref", "publish"}
Indexed(t) == stage[t] \in {"cas_ref", "publish"}

\* A hash names one entry, be it stored or still in the hands of one task.
HashesUnique ==
  /\ \A o \in objects : o.hash \in 1 .. begun
  /\ \A t \in Tasks : Active(t) => entry[t].hash \in 1 .. begun
  /\ \A o, b \in objects : o.hash = b.hash => o = b
  /\ \A o \in objects, t \in Tasks : Active(t) /\ o.hash = entry[t].hash => o = entry[t]
  /\ \A t, u \in Tasks : Active(t) /\ Active(u) /\ entry[t].hash = entry[u].hash => t = u

\* What the calls of an append have done so far.
AppendsInOrder ==
  \A t \in Tasks :
    /\ Active(t)  => entry[t] \in Entries
    /\ Stored(t)  => entry[t] \in objects
    /\ Indexed(t) => entry[t].hash \in indexed
    /\ Active(t)  => (entry[t].hash \in committed <=> stage[t] = "publish")

\* An entry is the first one, or it follows a committed one at the next position.
Follows(e) ==
  \/ e.sequence = 0 /\ e.previous = Genesis
  \/ \E b \in objects : /\ b.hash = e.previous /\ b.hash \in indexed /\ b.hash \in committed
                        /\ b.sequence + 1 = e.sequence

\* The committed hashes are stored and indexed entries, and the head is the last of as
\* many positions as there are committed hashes.
CommittedInLine ==
  /\ committed \subseteq 1 .. begun
  /\ \A h \in committed : h \in indexed /\ \E o \in objects : o.hash = h
  /\ \A o \in objects : o.hash \in committed => o.sequence < Cardinality(committed)
  /\ head = Genesis => committed = {}
  /\ head # Genesis => /\ head \in committed
                       /\ \E o \in objects : /\ o.hash = head
                                             /\ o.sequence + 1 = Cardinality(committed)

\* What a process goes by is a position the chain has really been at, and the right one.
InnerOnChain ==
  \A p \in Processes :
    \/ inner[p] = Empty
    \/ \E o \in objects : /\ o.hash \in committed
                          /\ inner[p] = [head |-> o.hash, sequence |-> o.sequence + 1]

ChainInv ==
  /\ TypeOK
  /\ HashesUnique
  /\ AppendsInOrder
  /\ CommittedInLine
  /\ LinksResolve
  /\ \A t \in Tasks : Active(t) => Follows(entry[t])
  /\ InnerOnChain

LEMMA ChainInit == Init => ChainInv
<1> SUFFICES ASSUME Init PROVE ChainInv
  OBVIOUS
<1>1. TypeOK
  BY BoundAssumption DEF Init, TypeOK, Hashes, Empty, Genesis, Stages
<1>2. HashesUnique /\ AppendsInOrder
  BY DEF Init, HashesUnique, AppendsInOrder, Active, Stored, Indexed
<1>3. CommittedInLine
  BY DEF Init, CommittedInLine
<1> QED BY <1>1, <1>2, <1>3 DEF Init, ChainInv, LinksResolve, InnerOnChain, Active

\* There are no more committed hashes than appends begun, and one more after a CAS.
LEMMA CommittedCount ==
  ASSUME TypeOK, CommittedInLine
  PROVE  /\ IsFiniteSet(committed)
         /\ Cardinality(committed) \in 0 .. begun
         /\ \A h : h \notin committed =>
              Cardinality(committed \cup {h}) = Cardinality(committed) + 1
<1>1. begun \in Nat
  BY BoundAssumption DEF TypeOK
<1>2. IsFiniteSet(1 .. begun) /\ Cardinality(1 .. begun) = begun
  BY <1>1, FS_Interval
<1>3. IsFiniteSet(committed) /\ Cardinality(committed) <= begun
  BY <1>2, FS_Subset DEF CommittedInLine
<1>4. Cardinality(committed) \in Nat
  BY <1>3, FS_CardinalityType
<1> QED BY <1>1, <1>3, <1>4, FS_AddElement

-----------------------------------------------------------------------------
(***************************************************************************)
(* The steps.                                                              *)
(***************************************************************************)

LEMMA LinksByFollows == LinksResolve <=> \A o \in objects : Follows(o)
  BY DEF LinksResolve, Follows

LEMMA InvBeginAppend ==
  ASSUME ChainInv, NEW t \in Tasks, BeginAppend(t)
  PROVE  ChainInv'
<1> USE DEF ChainInv
<1> DEFINE in == inner[ProcessOf[t]]
           e  == [hash |-> begun + 1, sequence |-> in.sequence, previous |-> in.head]
<1>1. /\ ProcessOf[t] \in Processes
      /\ begun' = begun + 1 /\ begun \in Nat /\ begun + 1 \in 1 .. MaxAppends
      /\ entry' = [entry EXCEPT ![t] = e] /\ stage' = [stage EXCEPT ![t] = "put_object"]
      /\ UNCHANGED <<objects, indexed, head, inner, committed>>
  <2>1. begun \in Nat /\ begun < MaxAppends
    BY BoundAssumption DEF BeginAppend, TypeOK
  <2> QED BY <2>1, ProcessAssumption, BoundAssumption DEF BeginAppend
<1>2. e \in Entries
  BY <1>1 DEF TypeOK, Entries
<1>3. TypeOK'
  BY <1>1, <1>2 DEF TypeOK, Stages
<1>4. Follows(e)
  <2>1. CASE in = Empty
    BY <2>1 DEF Follows, Empty
  <2>2. CASE \E o \in objects : /\ o.hash \in committed
                                /\ in = [head |-> o.hash, sequence |-> o.sequence + 1]
    <3>1. PICK o \in objects : /\ o.hash \in committed
                               /\ in = [head |-> o.hash, sequence |-> o.sequence + 1]
      BY <2>2
    <3>2. o.hash \in indexed
      BY <3>1 DEF CommittedInLine
    <3>3. e.previous = o.hash /\ e.sequence = o.sequence + 1
      BY <3>1
    <3> HIDE DEF e
    <3> QED BY <3>1, <3>2, <3>3 DEF Follows
  <2> QED BY <1>1, <2>1, <2>2 DEF InnerOnChain
<1>5. \A u \in Tasks : u # t => /\ entry'[u] = entry[u] /\ stage'[u] = stage[u]
                                /\ Active(u)' = Active(u)
  BY <1>1 DEF TypeOK, Active
<1>6. entry'[t] = e /\ stage'[t] = "put_object"
  BY <1>1 DEF TypeOK
<1>7. HashesUnique'
  <2>1. 1 .. begun \subseteq 1 .. begun' /\ begun' \in 1 .. begun' /\ begun' \notin 1 .. begun
    BY <1>1
  <2>2. e.hash = begun'
    BY <1>1
  <2> HIDE DEF e
  <2> QED BY <1>1, <1>5, <1>6, <2>1, <2>2 DEF HashesUnique
<1>8. AppendsInOrder'
  <2>1. e.hash \notin committed
    BY <1>1 DEF CommittedInLine
  <2> HIDE DEF e
  <2> QED BY <1>1, <1>2, <1>5, <1>6, <2>1 DEF AppendsInOrder, Active, Stored, Indexed
<1>9. CommittedInLine'
  BY <1>1 DEF CommittedInLine
<1>10. \A u \in Tasks : Active(u)' => Follows(entry[u])'
  BY <1>1, <1>4, <1>5, <1>6 DEF Follows
<1> QED BY <1>1, <1>3, <1>7, <1>8, <1>9, <1>10 DEF LinksResolve, InnerOnChain

LEMMA InvPutObject ==
  ASSUME ChainInv, NEW t \in Tasks, PutObject(t)
  PROVE  ChainInv'
<1> USE DEF ChainInv
<1>1. /\ Active(t) /\ entry[t] \in Entries /\ entry[t].hash \notin committed
      /\ objects' = objects \cup {entry[t]}
      /\ stage' = [stage EXCEPT ![t] = "put_meta"]
      /\ UNCHANGED <<indexed, head, inner, entry, begun, committed>>
  BY DEF PutObject, AppendsInOrder, Active
<1>2. TypeOK'
  BY <1>1 DEF TypeOK, Stages
<1>3. \A u \in Tasks : Active(u)' <=> Active(u)
  BY <1>1 DEF TypeOK, Active
<1>4. HashesUnique'
  BY <1>1, <1>3 DEF HashesUnique
<1>5. AppendsInOrder'
  BY <1>1 DEF AppendsInOrder, TypeOK, Active, Stored, Indexed
<1>6. CommittedInLine'
  BY <1>1 DEF CommittedInLine
<1>7. LinksResolve' /\ \A u \in Tasks : Active(u)' => Follows(entry[u])'
  BY <1>1, <1>3, LinksByFollows DEF Follows, LinksResolve
<1> QED BY <1>1, <1>2, <1>4, <1>5, <1>6, <1>7 DEF InnerOnChain

LEMMA InvPutMeta ==
  ASSUME ChainInv, NEW t \in Tasks, PutMeta(t)
  PROVE  ChainInv'
<1> USE DEF ChainInv
<1>1. /\ Active(t) /\ entry[t] \in objects /\ entry[t].hash \notin committed
      /\ indexed' = indexed \cup {entry[t].hash}
      /\ stage' = [stage EXCEPT ![t] = "cas_ref"]
      /\ UNCHANGED <<objects, head, inner, entry, begun, committed>>
  BY DEF PutMeta, AppendsInOrder, Active, Stored
<1>2. TypeOK'
  BY <1>1 DEF TypeOK, Stages, Entries
<1>3. \A u \in Tasks : Active(u)' <=> Active(u)
  BY <1>1 DEF TypeOK, Active
<1>4. HashesUnique'
  BY <1>1, <1>3 DEF HashesUnique
<1>5. AppendsInOrder'
  BY <1>1 DEF AppendsInOrder, TypeOK, Active, Stored, Indexed
<1>6. CommittedInLine'
  BY <1>1 DEF CommittedInLine
<1>7. LinksResolve' /\ \A u \in Tasks : Active(u)' => Follows(entry[u])'
  BY <1>1, <1>3 DEF Follows, LinksResolve
<1> QED BY <1>1, <1>2, <1>4, <1>5, <1>6, <1>7 DEF InnerOnChain

\* The entry a CAS commits takes the position after the head's.
LEMMA CasPosition ==
  ASSUME ChainInv, NEW t \in Tasks, CasRef(t)
  PROVE  /\ entry[t] \in objects /\ entry[t].hash \in indexed
         /\ entry[t].previous = head
         /\ entry[t].sequence = Cardinality(committed)
<1> USE DEF ChainInv
<1>1. /\ Active(t) /\ entry[t] \in objects /\ entry[t] \in Entries
      /\ entry[t].hash \in indexed /\ entry[t].previous = head
  BY DEF CasRef, HeadExpected, AppendsInOrder, Active, Stored, Indexed
<1>2. Follows(entry[t])
  BY <1>1
<1>3. CASE head = Genesis
  <2>1. committed = {} /\ Cardinality(committed) = 0
    BY <1>3, FS_EmptySet DEF CommittedInLine
  <2> QED BY <1>1, <1>2, <2>1 DEF Follows
<1>4. CASE head # Genesis
  <2>1. PICK o \in objects : o.hash = head /\ o.sequence + 1 = Cardinality(committed)
    BY <1>4 DEF CommittedInLine
  <2>2. PICK b \in objects : b.hash = head /\ b.sequence + 1 = entry[t].sequence
    BY <1>1, <1>2, <1>4 DEF Follows
  <2> QED BY <1>1, <2>1, <2>2 DEF HashesUnique
<1> QED BY <1>1, <1>3, <1>4

LEMMA InvCasRef ==
  ASSUME ChainInv, NEW t \in Tasks, CasRef(t)
  PROVE  ChainInv'
<1> USE DEF ChainInv
<1> DEFINE h == entry[t].hash
<1>1. /\ stage[t] = "cas_ref" /\ entry[t] \in Entries /\ h \notin committed /\ h \in 1 .. begun
      /\ head' = h /\ committed' = committed \cup {h}
      /\ stage' = [stage EXCEPT ![t] = "publish"]
      /\ UNCHANGED <<objects, indexed, inner, entry, begun>>
  BY DEF CasRef, AppendsInOrder, Active, HashesUnique
<1>2. /\ entry[t] \in objects /\ h \in indexed
      /\ entry[t].sequence = Cardinality(committed)
  BY CasPosition
<1>3. Cardinality(committed') = Cardinality(committed) + 1 /\ Cardinality(committed) \in Nat
  BY <1>1, CommittedCount DEF TypeOK
<1>4. TypeOK'
  <2>1. h \in 1 .. MaxAppends /\ h \in Hashes
    BY <1>1, BoundAssumption DEF Entries, Hashes
  <2> HIDE DEF h
  <2> QED BY <1>1, <2>1 DEF TypeOK, Stages
<1>5. \A u \in Tasks : Active(u)' <=> Active(u)
  BY <1>1 DEF TypeOK, Active
<1>6. HashesUnique'
  BY <1>1, <1>5 DEF HashesUnique
<1>7. AppendsInOrder'
  BY <1>1 DEF AppendsInOrder, HashesUnique, TypeOK, Active, Stored, Indexed
<1>8. CommittedInLine'
  <2>1. \A o \in objects : o.hash \in committed' => o.sequence < Cardinality(committed')
    <3> SUFFICES ASSUME NEW o \in objects, o.hash \in committed'
                 PROVE  o.sequence < Cardinality(committed')
      OBVIOUS
    <3>1. o.sequence \in Nat
      BY DEF TypeOK, Entries
    <3>2. CASE o.hash \in committed
      BY <1>3, <3>1, <3>2 DEF CommittedInLine
    <3>3. CASE o.hash = h
      BY <1>2, <1>3, <3>3 DEF HashesUnique
    <3> QED BY <1>1, <3>2, <3>3
  <2> HIDE DEF h
  <2>2. h # Genesis
    BY <1>1 DEF Genesis, TypeOK
  <2> QED BY <1>1, <1>2, <1>3, <2>1, <2>2 DEF CommittedInLine, h
<1>9. LinksResolve' /\ \A u \in Tasks : Active(u)' => Follows(entry[u])'
  BY <1>1, <1>5 DEF Follows, LinksResolve
<1> QED BY <1>1, <1>4, <1>6, <1>7, <1>8, <1>9 DEF InnerOnChain

\* Tasks that leave their appends, with or without their entries in the chain.
LEMMA InvAbandon ==
  ASSUME ChainInv,
         stage' \in [Tasks -> Stages],
         entry' \in [Tasks -> Entries \cup {NoEntry}],
         \A t \in Tasks : \/ stage'[t] = "idle"
                          \/ stage'[t] = stage[t] /\ entry'[t] = entry[t],
         UNCHANGED <<objects, indexed, head, begun, committed>>,
         inner' \in [Processes -> [head : Hashes, sequence : 0 .. MaxAppends]],
         InnerOnChain'
  PROVE  ChainInv'
<1> USE DEF ChainInv
<1>1. TypeOK'
  BY DEF TypeOK
<1>2. \A u \in Tasks : Active(u)' => /\ Active(u)
                                     /\ entry'[u] = entry[u] /\ stage'[u] = stage[u]
  BY DEF Active
<1>3. HashesUnique'
  BY <1>2 DEF HashesUnique
<1>4. AppendsInOrder'
  BY <1>2 DEF AppendsInOrder, Active, Stored, Indexed
<1>5. CommittedInLine'
  BY DEF CommittedInLine
<1>6. LinksResolve' /\ \A u \in Tasks : Active(u)' => Follows(entry[u])'
  BY <1>2 DEF Follows, LinksResolve
<1> QED BY <1>1, <1>3, <1>4, <1>5, <1>6

LEMMA InvCasRefused ==
  ASSUME ChainInv, NEW t \in Tasks, CasRefused(t)
  PROVE  ChainInv'
<1>1. /\ stage' \in [Tasks -> Stages] /\ entry' \in [Tasks -> Entries \cup {NoEntry}]
      /\ \A u \in Tasks : \/ stage'[u] = "idle"
                          \/ stage'[u] = stage[u] /\ entry'[u] = entry[u]
      /\ UNCHANGED <<objects, indexed, head, begun, committed, inner>>
  BY DEF CasRefused, ChainInv, TypeOK, Stages
<1>2. InnerOnChain' /\ inner' \in [Processes -> [head : Hashes, sequence : 0 .. MaxAppends]]
  BY <1>1 DEF ChainInv, InnerOnChain, TypeOK
<1> QED BY <1>1, <1>2, InvAbandon

LEMMA InvPublish ==
  ASSUME ChainInv, NEW t \in Tasks, Publish(t)
  PROVE  ChainInv'
<1>1. /\ stage' \in [Tasks -> Stages] /\ entry' \in [Tasks -> Entries \cup {NoEntry}]
      /\ \A u \in Tasks : \/ stage'[u] = "idle"
                          \/ stage'[u] = stage[u] /\ entry'[u] = entry[u]
      /\ inner' = [inner EXCEPT ![ProcessOf[t]] = Published(entry[t])]
      /\ UNCHANGED <<objects, indexed, head, begun, committed>>
  BY DEF Publish, ChainInv, TypeOK, Stages
<1>2. /\ entry[t] \in objects /\ entry[t] \in Entries /\ entry[t].hash \in committed
  BY DEF Publish, ChainInv, AppendsInOrder, Active, Stored
<1>3. entry[t].sequence < Cardinality(committed) /\ Cardinality(committed) \in 0 .. begun
  BY <1>2, CommittedCount DEF ChainInv, CommittedInLine
<1>4. Published(entry[t]) \in [head : Hashes, sequence : 0 .. MaxAppends]
  BY <1>2, <1>3, BoundAssumption DEF Published, Entries, Hashes, ChainInv, TypeOK
<1>5. inner' \in [Processes -> [head : Hashes, sequence : 0 .. MaxAppends]]
  BY <1>1, <1>4 DEF ChainInv, TypeOK
<1>6. InnerOnChain'
  BY <1>1, <1>2 DEF ChainInv, TypeOK, InnerOnChain, Published
<1> QED BY <1>1, <1>5, <1>6, InvAbandon

LEMMA InvRestart ==
  ASSUME ChainInv, NEW p \in Processes, Restart(p)
  PROVE  ChainInv'
<1>1. /\ stage' \in [Tasks -> Stages] /\ entry' \in [Tasks -> Entries \cup {NoEntry}]
      /\ \A u \in Tasks : \/ stage'[u] = "idle"
                          \/ stage'[u] = stage[u] /\ entry'[u] = entry[u]
      /\ inner' = [inner EXCEPT ![p] = Restored]
      /\ UNCHANGED <<objects, indexed, head, begun, committed>>
  BY DEF Restart, ChainInv, TypeOK, Stages
<1>2. /\ Restored \in [head : Hashes, sequence : 0 .. MaxAppends]
      /\ \/ Restored = Empty
         \/ \E o \in objects : /\ o.hash \in committed
                               /\ Restored = [head |-> o.hash, sequence |-> o.sequence + 1]
  <2>1. CASE head = Genesis
    BY <2>1, BoundAssumption DEF Restored, Empty, Genesis, Hashes
  <2>2. CASE head # Genesis
    <3>1. PICK o \in objects : o.hash = head /\ o.sequence + 1 = Cardinality(committed)
      BY <2>2 DEF ChainInv, CommittedInLine
    <3>2. (CHOOSE b \in objects : b.hash = head) = o
      BY <3>1 DEF ChainInv, HashesUnique
    <3>3. Restored = [head |-> o.hash, sequence |-> o.sequence + 1] /\ o.hash \in committed
      BY <2>2, <3>1, <3>2 DEF Restored, ChainInv, CommittedInLine
    <3>4. o.hash \in Hashes /\ o.sequence + 1 \in 0 .. MaxAppends
      BY <3>1, CommittedCount, BoundAssumption DEF ChainInv, TypeOK
    <3> QED BY <3>3, <3>4
  <2> QED BY <2>1, <2>2
<1>3. /\ inner' \in [Processes -> [head : Hashes, sequence : 0 .. MaxAppends]]
      /\ InnerOnChain'
  BY <1>1, <1>2 DEF ChainInv, TypeOK, InnerOnChain
<1> QED BY <1>1, <1>3, InvAbandon

LEMMA ChainNext == ChainInv /\ [Next]_chainVars => ChainInv'
<1> SUFFICES ASSUME ChainInv, [Next]_chainVars PROVE ChainInv'
  OBVIOUS
<1>1. CASE UNCHANGED chainVars
  BY <1>1 DEF chainVars, ChainInv, TypeOK, HashesUnique, AppendsInOrder, CommittedInLine,
              LinksResolve, InnerOnChain, Follows, Active, Stored, Indexed
<1>2. ASSUME NEW t \in Tasks, AppendStep(t)
      PROVE  ChainInv'
  BY <1>2, InvBeginAppend, InvPutObject, InvPutMeta, InvCasRef, InvCasRefused, InvPublish
     DEF AppendStep
<1> QED BY <1>1, <1>2, InvRestart DEF Next

LEMMA ChainCorrect == Spec => []ChainInv
  BY ChainInit, ChainNext, PTL DEF Spec

-----------------------------------------------------------------------------
(***************************************************************************)
(* What follows.                                                           *)
(***************************************************************************)

\* Every reachable state of the chain is well typed: no position runs past the bound that
\* the number of appends sets.
THEOREM ChainTyped == Spec => []TypeOK
  BY ChainCorrect, PTL DEF ChainInv

\* From every entry ever written, in the chain or lost beside it, the chain can be walked
\* back to its first entry.
THEOREM LinksNeverDangle == Spec => []LinksResolve
  BY ChainCorrect, PTL DEF ChainInv

\* The committed chain neither forks nor skips: whatever moves the head is an append whose
\* entry is stored, indexed, linked to the old head and at the next position.
THEOREM HeadNeverForks == Spec => HeadAdvances
<1>1. ASSUME ChainInv, Next, head' # head
      PROVE  \E o \in objects : /\ o.hash = head' /\ o.hash \in indexed
                                /\ o.previous = head
                                /\ o.sequence = Cardinality(committed)
  <2>1. PICK t \in Tasks : CasRef(t)
    BY <1>1 DEF Next, AppendStep, BeginAppend, PutObject, PutMeta, CasRefused, Publish, Restart
  <2> QED BY <1>1, <2>1, CasPosition DEF CasRef
<1>2. ChainInv /\ [Next]_chainVars =>
        [head' # head => \E o \in objects : /\ o.hash = head' /\ o.hash \in indexed
                                            /\ o.previous = head
                                            /\ o.sequence = Cardinality(committed)]_chainVars
  BY <1>1
<1> QED BY <1>2, ChainCorrect, PTL DEF Spec, HeadAdvances

-----------------------------------------------------------------------------
(***************************************************************************)
(* The ledger.  The positions of the committed entries are filled one by   *)
(* one; and a process is never past an entry one of its own appends has    *)
(* committed but not yet published, so that there is at most one of these. *)
(***************************************************************************)
PositionsFilled ==
  /\ \A n \in 0 .. MaxAppends : n < Cardinality(committed) =>
       \E o \in objects : o.hash \in committed /\ o.sequence = n
  /\ \A o, b \in objects :
       o.hash \in committed /\ b.hash \in committed /\ o.sequence = b.sequence => o = b

ViewsInOrder ==
  /\ \A t \in Tasks : Active(t) =>
       IF stage[t] = "publish" THEN inner[ProcessOf[t]].sequence <= entry[t].sequence
                               ELSE entry[t].sequence <= inner[ProcessOf[t]].sequence
  /\ \A t, u \in Tasks : stage[t] = "publish" /\ stage[u] = "publish" /\ t # u =>
       ProcessOf[t] # ProcessOf[u]

LedgerInv == ChainInv /\ PositionsFilled /\ ViewsInOrder

LEMMA LedgerInit == Init => LedgerInv
<1> SUFFICES ASSUME Init PROVE PositionsFilled /\ ViewsInOrder
  BY ChainInit DEF LedgerInv
<1>1. Cardinality(committed) = 0
  BY FS_EmptySet DEF Init
<1> QED BY <1>1 DEF Init, PositionsFilled, ViewsInOrder, Active

\* Nobody is past the end.
LEMMA ViewsWithin ==
  ASSUME ChainInv, NEW p \in Processes
  PROVE  /\ inner[p].sequence \in 0 .. Cardinality(committed)
         /\ Cardinality(committed) \in Nat
<1>1. Cardinality(committed) \in Nat
  BY CommittedCount DEF ChainInv
<1>2. CASE inner[p] = Empty
  BY <1>1, <1>2 DEF Empty
<1>3. CASE \E o \in objects : /\ o.hash \in committed
                             /\ inner[p] = [head |-> o.hash, sequence |-> o.sequence + 1]
  <2>1. PICK o \in objects : /\ o.hash \in committed
                             /\ inner[p] = [head |-> o.hash, sequence |-> o.sequence + 1]
    BY <1>3
  <2>2. o.sequence < Cardinality(committed) /\ o.sequence \in Nat
    BY <2>1 DEF ChainInv, CommittedInLine, TypeOK, Entries
  <2> QED BY <1>1, <2>1, <2>2
<1> QED BY <1>1, <1>2, <1>3 DEF ChainInv, InnerOnChain

\* The process of a task that commits goes by the whole chain.
LEMMA CommitterUpToDate ==
  ASSUME LedgerInv, NEW t \in Tasks, CasRef(t)
  PROVE  /\ inner[ProcessOf[t]].sequence = Cardinality(committed)
         /\ entry[t].sequence = Cardinality(committed)
<1>1. entry[t].sequence = Cardinality(committed)
  BY CasPosition DEF LedgerInv
<1>2. entry[t].sequence <= inner[ProcessOf[t]].sequence
  BY DEF LedgerInv, ViewsInOrder, CasRef, Active
<1>3. inner[ProcessOf[t]].sequence \in 0 .. Cardinality(committed) /\ Cardinality(committed) \in Nat
  BY ProcessAssumption, ViewsWithin DEF LedgerInv
<1> QED BY <1>1, <1>2, <1>3

LEMMA PositionsCasRef ==
  ASSUME LedgerInv, NEW t \in Tasks, CasRef(t)
  PROVE  PositionsFilled'
<1> DEFINE e == entry[t]
           N == Cardinality(committed)
<1>1. /\ e \in objects /\ e.hash \notin committed /\ e.sequence = N
      /\ committed' = committed \cup {e.hash} /\ UNCHANGED objects
  BY CasPosition DEF LedgerInv, ChainInv, AppendsInOrder, Active, CasRef
<1>2. Cardinality(committed') = N + 1 /\ N \in Nat
  BY <1>1, CommittedCount DEF LedgerInv, ChainInv
<1>3. \A o \in objects : o.hash \in committed' => o.hash \in committed \/ o = e
  BY <1>1 DEF LedgerInv, ChainInv, HashesUnique
<1>4. \A o \in objects : o.hash \in committed => o.sequence < N /\ o.sequence \in Nat
  BY DEF LedgerInv, ChainInv, CommittedInLine, TypeOK, Entries
<1> HIDE DEF e, N
<1>5. ASSUME NEW n \in 0 .. MaxAppends, n < N + 1
      PROVE  \E o \in objects : o.hash \in committed' /\ o.sequence = n
  <2>1. CASE n < N
    BY <1>1, <2>1 DEF LedgerInv, PositionsFilled, N
  <2>2. CASE n = N
    BY <1>1, <2>2
  <2> QED BY <1>2, <1>5, <2>1, <2>2, BoundAssumption
<1>6. ASSUME NEW o \in objects, NEW b \in objects,
             o.hash \in committed', b.hash \in committed', o.sequence = b.sequence
      PROVE  o = b
  BY <1>1, <1>2, <1>3, <1>4, <1>6 DEF LedgerInv, PositionsFilled
<1> QED BY <1>1, <1>2, <1>5, <1>6 DEF PositionsFilled

\* A new entry is not a committed one.
LEMMA PositionsKept ==
  ASSUME LedgerInv, UNCHANGED committed,
         UNCHANGED objects \/ \E t \in Tasks : PutObject(t)
  PROVE  PositionsFilled'
<1>1. objects \subseteq objects' /\ \A o \in objects' : o.hash \in committed => o \in objects
  BY DEF PutObject, LedgerInv, ChainInv, AppendsInOrder, Active
<1> QED BY <1>1 DEF LedgerInv, PositionsFilled

\* Where a publication or a restore takes a process.
LEMMA PublishCatchesUp ==
  ASSUME LedgerInv, NEW t \in Tasks, Publish(t)
  PROVE  /\ entry[t] \in objects /\ entry[t].hash \in committed
         /\ inner' = [inner EXCEPT ![ProcessOf[t]] =
                        [head |-> entry[t].hash, sequence |-> entry[t].sequence + 1]]
         /\ entry[t].sequence \in Nat /\ entry[t].sequence < Cardinality(committed)
         /\ inner[ProcessOf[t]].sequence <= entry[t].sequence
<1>1. entry[t] \in objects /\ entry[t] \in Entries /\ entry[t].hash \in committed
  BY DEF Publish, LedgerInv, ChainInv, AppendsInOrder, Active, Stored
<1>2. inner[ProcessOf[t]].sequence <= entry[t].sequence
  BY DEF Publish, LedgerInv, ViewsInOrder, Active
<1> QED BY <1>1, <1>2 DEF Publish, Published, LedgerInv, ChainInv, CommittedInLine, Entries

LEMMA RestoreCatchesUp ==
  ASSUME LedgerInv
  PROVE  /\ Restored.sequence = Cardinality(committed)
         /\ \/ Restored = Empty
            \/ \E o \in objects : /\ o.hash \in committed
                                  /\ Restored = [head |-> o.hash, sequence |-> o.sequence + 1]
<1>1. CASE head = Genesis
  <2>1. Cardinality(committed) = 0
    BY <1>1, FS_EmptySet DEF LedgerInv, ChainInv, CommittedInLine
  <2> QED BY <1>1, <2>1 DEF Restored, Empty
<1>2. CASE head # Genesis
  <2>1. PICK o \in objects : o.hash = head /\ o.sequence + 1 = Cardinality(committed)
    BY <1>2 DEF LedgerInv, ChainInv, CommittedInLine
  <2>2. (CHOOSE b \in objects : b.hash = head) = o
    BY <2>1 DEF LedgerInv, ChainInv, HashesUnique
  <2>3. Restored = [head |-> o.hash, sequence |-> o.sequence + 1] /\ o.hash \in committed
    BY <1>2, <2>1, <2>2 DEF Restored, LedgerInv, ChainInv, CommittedInLine
  <2> QED BY <2>1, <2>3
<1> QED BY <1>1, <1>2

LEMMA ViewsNext == LedgerInv /\ ChainInv' /\ Next => ViewsInOrder'
<1> SUFFICES ASSUME LedgerInv, Next PROVE ViewsInOrder'
  OBVIOUS
<1> USE ProcessAssumption
<1>1. \A t \in Tasks : Active(t) => entry[t].sequence \in Nat
  BY DEF LedgerInv, ChainInv, AppendsInOrder, Entries
<1>2. \A p \in Processes : inner[p].sequence \in Nat
  BY BoundAssumption DEF LedgerInv, ChainInv, TypeOK
<1>3. /\ stage \in [Tasks -> Stages] /\ entry \in [Tasks -> Entries \cup {NoEntry}]
      /\ inner \in [Processes -> [head : Hashes, sequence : 0 .. MaxAppends]]
  BY DEF LedgerInv, ChainInv, TypeOK
<1>4. ASSUME NEW t \in Tasks, BeginAppend(t)
      PROVE  ViewsInOrder'
  <2>1. /\ \A u \in Tasks : u # t => entry'[u] = entry[u] /\ stage'[u] = stage[u]
        /\ entry'[t].sequence = inner[ProcessOf[t]].sequence /\ stage'[t] = "put_object"
        /\ UNCHANGED inner
    BY <1>3, <1>4 DEF BeginAppend
  <2> QED BY <1>1, <1>2, <2>1 DEF LedgerInv, ViewsInOrder, Active
<1>5. ASSUME NEW t \in Tasks, PutObject(t) \/ PutMeta(t)
      PROVE  ViewsInOrder'
  <2>1. /\ \A u \in Tasks : u # t => stage'[u] = stage[u]
        /\ stage[t] # "publish" /\ stage'[t] # "publish" /\ Active(t)
        /\ UNCHANGED <<inner, entry>>
    BY <1>3, <1>5 DEF PutObject, PutMeta, Active
  <2> QED BY <2>1 DEF LedgerInv, ViewsInOrder, Active
<1>6. ASSUME NEW t \in Tasks, CasRef(t)
      PROVE  ViewsInOrder'
  <2>1. /\ inner[ProcessOf[t]].sequence = Cardinality(committed)
        /\ entry[t].sequence = Cardinality(committed)
    BY <1>6, CommitterUpToDate
  <2>2. /\ \A u \in Tasks : u # t => stage'[u] = stage[u]
        /\ stage'[t] = "publish" /\ UNCHANGED <<inner, entry>>
    BY <1>3, <1>6 DEF CasRef
  <2>3. ASSUME NEW u \in Tasks, stage[u] = "publish", ProcessOf[u] = ProcessOf[t]
        PROVE  FALSE
    <3>1. entry[u] \in objects /\ entry[u].hash \in committed
      BY <2>3 DEF LedgerInv, ChainInv, AppendsInOrder, Active, Stored
    <3>2. entry[u].sequence < Cardinality(committed)
      BY <3>1 DEF LedgerInv, ChainInv, CommittedInLine
    <3>3. inner[ProcessOf[u]].sequence <= entry[u].sequence
      BY <2>3 DEF LedgerInv, ViewsInOrder, Active
    <3>4. entry[u].sequence \in Nat /\ inner[ProcessOf[t]].sequence \in Nat
      BY <1>1, <1>2, <2>3 DEF Active
    <3> QED BY <2>1, <2>3, <3>2, <3>3, <3>4
  <2>4. Cardinality(committed) <= Cardinality(committed)
    BY <1>2, <2>1
  <2> QED BY <2>1, <2>2, <2>3, <2>4 DEF LedgerInv, ViewsInOrder, Active
<1>7. ASSUME NEW t \in Tasks, CasRefused(t)
      PROVE  ViewsInOrder'
  <2>1. /\ \A u \in Tasks : u # t => entry'[u] = entry[u] /\ stage'[u] = stage[u]
        /\ stage'[t] = "idle" /\ UNCHANGED inner
    BY <1>3, <1>7 DEF CasRefused
  <2> QED BY <2>1 DEF LedgerInv, ViewsInOrder, Active
<1>8. ASSUME NEW t \in Tasks, Publish(t)
      PROVE  ViewsInOrder'
  <2> DEFINE p == ProcessOf[t]
  <2>1. /\ \A u \in Tasks : u # t => entry'[u] = entry[u] /\ stage'[u] = stage[u]
        /\ stage'[t] = "idle" /\ stage[t] = "publish"
    BY <1>3, <1>8 DEF Publish
  <2>2. /\ \A q \in Processes : q # p => inner'[q] = inner[q]
        /\ inner[p].sequence <= inner'[p].sequence
    <3>1. /\ inner' = [inner EXCEPT ![p] = [head |-> entry[t].hash,
                                            sequence |-> entry[t].sequence + 1]]
          /\ inner[p].sequence <= entry[t].sequence /\ entry[t].sequence \in Nat
      BY <1>8, PublishCatchesUp
    <3> QED BY <1>2, <1>3, <3>1
  <2>3. inner'[p].sequence \in Nat
    <3>1. inner' = [inner EXCEPT ![p] = [head |-> entry[t].hash,
                                        sequence |-> entry[t].sequence + 1]]
          /\ entry[t].sequence \in Nat
      BY <1>8, PublishCatchesUp
    <3> QED BY <1>3, <3>1
  <2>4. ASSUME NEW u \in Tasks, Active(u)', u # t
        PROVE  IF stage'[u] = "publish" THEN inner'[ProcessOf[u]].sequence <= entry'[u].sequence
                                        ELSE entry'[u].sequence <= inner'[ProcessOf[u]].sequence
    <3>1. Active(u)
      BY <2>1, <2>4 DEF Active
    <3>2. CASE ProcessOf[u] # p
      BY <2>1, <2>2, <2>4, <3>1, <3>2 DEF LedgerInv, ViewsInOrder
    <3>3. CASE ProcessOf[u] = p
      <4>1. stage[u] # "publish"
        BY <2>1, <2>4, <3>3 DEF LedgerInv, ViewsInOrder
      <4>2. entry[u].sequence <= inner[p].sequence
        BY <3>1, <3>3, <4>1 DEF LedgerInv, ViewsInOrder
      <4>3. entry[u].sequence <= inner'[p].sequence
        BY <1>1, <1>2, <2>2, <2>3, <3>1, <4>2
      <4> QED BY <2>1, <2>4, <3>3, <4>1, <4>3
    <3> QED BY <3>2, <3>3
  <2> QED BY <2>1, <2>4 DEF LedgerInv, ViewsInOrder, Active
<1>9. ASSUME NEW p \in Processes, Restart(p)
      PROVE  ViewsInOrder'
  <2>1. /\ \A u \in Tasks : ProcessOf[u] # p => entry'[u] = entry[u] /\ stage'[u] = stage[u]
        /\ \A u \in Tasks : ProcessOf[u] = p => stage'[u] = "idle"
        /\ \A q \in Processes : q # p => inner'[q] = inner[q]
    BY <1>3, <1>9 DEF Restart
  <2> QED BY <2>1 DEF LedgerInv, ViewsInOrder, Active
<1> QED BY <1>4, <1>5, <1>6, <1>7, <1>8, <1>9 DEF Next, AppendStep

LEMMA LedgerNext == LedgerInv /\ [Next]_chainVars => LedgerInv'
<1> SUFFICES ASSUME LedgerInv, [Next]_chainVars PROVE LedgerInv'
  OBVIOUS
<1>1. ChainInv'
  BY ChainNext DEF LedgerInv
<1>2. CASE UNCHANGED chainVars
  BY <1>1, <1>2 DEF chainVars, LedgerInv, PositionsFilled, ViewsInOrder, Active
<1>3. CASE Next
  <2>1. PositionsFilled'
    <3>1. CASE \E t \in Tasks : CasRef(t)
      BY <3>1, PositionsCasRef
    <3>2. CASE ~ \E t \in Tasks : CasRef(t)
      <4>1. UNCHANGED committed /\ (UNCHANGED objects \/ \E t \in Tasks : PutObject(t))
        BY <1>3, <3>2 DEF Next, AppendStep, BeginAppend, PutObject, PutMeta, CasRefused, Publish,
                          Restart
      <4> QED BY <4>1, PositionsKept
    <3> QED BY <3>1, <3>2
  <2> QED BY <1>1, <1>3, <2>1, ViewsNext DEF LedgerInv
<1> QED BY <1>2, <1>3

\* The ledger of the refinement.
Line == [n \in 1 .. Cardinality(committed) |-> CommittedAt(n - 1)]

LEMMA CommittedOnce ==
  ASSUME LedgerInv, NEW o \in objects, o.hash \in committed
  PROVE  CommittedAt(o.sequence) = o.hash
<1>1. \A h \in committed : (\E b \in objects : b.hash = h /\ b.sequence = o.sequence) => h = o.hash
  BY DEF LedgerInv, PositionsFilled
<1> QED BY <1>1 DEF CommittedAt

\* The line has the committed entries at their positions and nothing else.
LEMMA LineOfCommitted ==
  ASSUME LedgerInv
  PROVE  /\ Cardinality(committed) \in Nat
         /\ Line \in Seq(1 .. MaxAppends) /\ Len(Line) = Cardinality(committed)
         /\ \A o \in objects : o.hash \in committed =>
              o.sequence + 1 \in 1 .. Cardinality(committed) /\ Line[o.sequence + 1] = o.hash
         /\ \A n \in 1 .. Cardinality(committed) :
              \E o \in objects : o.hash \in committed /\ o.sequence + 1 = n /\ Line[n] = o.hash
<1> DEFINE N == Cardinality(committed)
<1>1. N \in Nat /\ N <= MaxAppends
  BY CommittedCount, BoundAssumption DEF LedgerInv, ChainInv, TypeOK
<1>2. ASSUME NEW o \in objects, o.hash \in committed
      PROVE  o.sequence + 1 \in 1 .. N /\ Line[o.sequence + 1] = o.hash
  <2>1. o.sequence \in Nat /\ o.sequence < N
    BY <1>2 DEF LedgerInv, ChainInv, CommittedInLine, TypeOK, Entries
  <2>2. o.sequence + 1 \in 1 .. N /\ (o.sequence + 1) - 1 = o.sequence
    BY <1>1, <2>1
  <2> HIDE DEF N
  <2> QED BY <1>2, <2>2, CommittedOnce DEF Line, N
<1>3. ASSUME NEW n \in 1 .. N
      PROVE  \E o \in objects : o.hash \in committed /\ o.sequence + 1 = n /\ Line[n] = o.hash
  <2>1. n - 1 \in 0 .. MaxAppends /\ n - 1 < N
    BY <1>1, BoundAssumption
  <2>2. PICK o \in objects : o.hash \in committed /\ o.sequence = n - 1
    BY <2>1 DEF LedgerInv, PositionsFilled
  <2> QED BY <1>2, <2>2
<1>4. Line \in [1 .. N -> 1 .. MaxAppends]
  <2>1. \A n \in 1 .. N : Line[n] \in 1 .. MaxAppends
    BY <1>3 DEF LedgerInv, ChainInv, TypeOK, Entries
  <2> QED BY <2>1 DEF Line
<1>5. Line \in Seq(1 .. MaxAppends) /\ Len(Line) = N
  <2> HIDE DEF Line, N
  <2>1. Line \in Seq(1 .. MaxAppends)
    BY <1>1, <1>4, SeqDef
  <2>2. Len(Line) = N
    BY <1>1, <1>4, <2>1, ElementOfSeq
  <2> QED BY <2>1, <2>2
<1> QED BY <1>1, <1>2, <1>3, <1>5

\* A view is one of a first part of the line.
LEMMA OnLine ==
  ASSUME LedgerInv, NEW v,
         \/ v = Empty
         \/ \E o \in objects : /\ o.hash \in committed
                               /\ v = [head |-> o.hash, sequence |-> o.sequence + 1]
  PROVE  v = Ledger!Prefix(v.sequence)
<1>1. CASE v = Empty
  BY <1>1 DEF Empty, Ledger!Prefix
<1>2. ASSUME NEW o \in objects, o.hash \in committed,
             v = [head |-> o.hash, sequence |-> o.sequence + 1]
      PROVE  v = Ledger!Prefix(v.sequence)
  <2>1. o.sequence + 1 # 0 /\ Line[o.sequence + 1] = o.hash
    BY <1>2, LineOfCommitted
  <2> QED BY <1>2, <2>1 DEF Ledger!Prefix, Line
<1> QED BY <1>1, <1>2

LEMMA LedgerStarts == Init => Ledger!Init
<1> SUFFICES ASSUME Init PROVE Ledger!Init
  OBVIOUS
<1>1. LedgerInv /\ Cardinality(committed) = 0
  BY LedgerInit, FS_EmptySet DEF Init
<1>2. Len(Line) = 0 /\ Line \in Seq(1 .. MaxAppends)
  BY <1>1, LineOfCommitted
<1>3. Line = << >>
  <2> HIDE DEF Line
  <2> QED BY <1>2, EmptySeq
<1> QED BY <1>3 DEF Line, Init, Empty, Ledger!Init, Ledger!Prefix

LinePlaced ==
  \A o \in objects : o.hash \in committed => Line[o.sequence + 1] = o.hash

LEMMA LineIsPlaced == LedgerInv => LinePlaced
  BY LineOfCommitted DEF LinePlaced

\* Entries stay where they are.
LEMMA LineKept ==
  ASSUME LedgerInv, LedgerInv', objects \subseteq objects', committed \subseteq committed',
         NEW n \in 1 .. Cardinality(committed)
  PROVE  Line'[n] = Line[n]
<1>1. PICK o \in objects : o.hash \in committed /\ o.sequence + 1 = n /\ Line[n] = o.hash
  BY LineOfCommitted
<1>2. o \in objects' /\ o.hash \in committed'
  BY <1>1
<1>3. LinePlaced'
  BY LineIsPlaced, PTL
<1>4. Line'[o.sequence + 1] = o.hash
  BY <1>2, <1>3 DEF LinePlaced
<1> QED BY <1>1, <1>4

LineTyped == /\ Cardinality(committed) \in Nat
             /\ Line \in Seq(1 .. MaxAppends) /\ Len(Line) = Cardinality(committed)

LEMMA LineIsTyped == LedgerInv => LineTyped
  BY LineOfCommitted DEF LineTyped

LEMMA LineUnchanged ==
  ASSUME LedgerInv, LedgerInv', objects \subseteq objects', UNCHANGED committed
  PROVE  UNCHANGED Line
<1>1. \A n \in 1 .. Cardinality(committed) : Line'[n] = Line[n]
  BY LineKept
<1> QED BY <1>1 DEF Line

\* An entry that is committed comes at the end.
LEMMA LineExtended ==
  ASSUME LedgerInv, LedgerInv', NEW t \in Tasks, CasRef(t)
  PROVE  Ledger!Extend(ProcessOf[t], entry[t].hash) /\ entry[t].hash \in 1 .. MaxAppends
<1> DEFINE e == entry[t]
           N == Cardinality(committed)
<1>1. /\ e \in objects /\ e \in Entries /\ e.hash \notin committed /\ e.sequence = N
      /\ committed' = committed \cup {e.hash} /\ UNCHANGED <<objects, inner>>
  BY CasPosition DEF LedgerInv, ChainInv, AppendsInOrder, Active, CasRef
<1>2. Cardinality(committed') = N + 1 /\ N \in Nat
  BY <1>1, CommittedCount DEF LedgerInv, ChainInv
<1>3. e.hash \in 1 .. MaxAppends
  BY <1>1 DEF Entries
<1>4. LineTyped /\ LineTyped' /\ LinePlaced'
  BY LineIsTyped, LineIsPlaced, PTL
<1>5. Line'[N + 1] = e.hash
  <2>1. e \in objects' /\ e.hash \in committed'
    BY <1>1
  <2> HIDE DEF e, N
  <2>2. Line'[e.sequence + 1] = e.hash
    BY <1>4, <2>1 DEF LinePlaced
  <2> QED BY <1>1, <2>2
<1>6. \A n \in 1 .. N : Line'[n] = Line[n]
  BY <1>1, LineKept
<1>7. \A n \in 1 .. N : Line[n] # e.hash
  <2>1. \A n \in 1 .. N : Line[n] \in committed
    BY LineOfCommitted
  <2> QED BY <1>1, <2>1
<1> HIDE DEF e, N
<1>8. Line' = Append(Line, e.hash)
  <2> DEFINE A == Append(Line, e.hash)
  <2>1. A \in Seq(1 .. MaxAppends) /\ Len(A) = N + 1
    BY <1>2, <1>3, <1>4, AppendProperties DEF LineTyped, N
  <2>2. (\A n \in 1 .. N : A[n] = Line[n]) /\ A[N + 1] = e.hash
    BY <1>2, <1>3, <1>4, AppendProperties DEF LineTyped, N
  <2>3. Line' \in Seq(1 .. MaxAppends) /\ Len(Line') = N + 1
    BY <1>2, <1>4 DEF LineTyped
  <2> HIDE DEF A
  <2>4. \A n \in 1 .. N + 1 : n \in 1 .. N \/ n = N + 1
    BY <1>2
  <2>5. \A n \in 1 .. N + 1 : Line'[n] = A[n]
    BY <1>5, <1>6, <2>2, <2>4
  <2>6. Line' = A
    BY <2>1, <2>3, <2>5, SeqEqual
  <2> QED BY <2>6 DEF A
<1>9. inner[ProcessOf[t]] = Ledger!Prefix(N)
  <2>1. inner[ProcessOf[t]].sequence = N
    BY CommitterUpToDate DEF N
  <2>2. inner[ProcessOf[t]] = Ledger!Prefix(inner[ProcessOf[t]].sequence)
    BY ProcessAssumption, OnLine, ZenonT(60) DEF LedgerInv, ChainInv, InnerOnChain
  <2> QED BY <2>1, <2>2
<1>10. Len(Line) = N
  BY <1>4 DEF LineTyped, N
<1> QED BY <1>1, <1>3, <1>7, <1>8, <1>9, <1>10 DEF Ledger!Extend, Line, e

\* A publication or a restore takes a process to a longer part of the ledger.
LEMMA CatchesUp ==
  ASSUME LedgerInv, NEW p \in Processes, NEW v,
         \/ v = Empty
         \/ \E o \in objects : /\ o.hash \in committed
                               /\ v = [head |-> o.hash, sequence |-> o.sequence + 1],
         v.sequence \in Nat, inner[p].sequence <= v.sequence, v.sequence <= Cardinality(committed),
         inner' = [inner EXCEPT ![p] = v], UNCHANGED Line
  PROVE  Ledger!CatchUp(p)
<1>1. v = Ledger!Prefix(v.sequence)
  BY OnLine
<1>2. v.sequence \in inner[p].sequence .. Len(Line)
  <2>1. inner[p].sequence \in 0 .. Cardinality(committed) /\ Cardinality(committed) \in Nat
    BY ViewsWithin DEF LedgerInv
  <2>2. LineTyped
    BY LineIsTyped
  <2> QED BY <2>1, <2>2 DEF LineTyped
<1>3. inner' = [inner EXCEPT ![p] = Ledger!Prefix(v.sequence)]
  BY <1>1
<1> QED BY <1>2, <1>3 DEF Ledger!CatchUp, Line

LEMMA LedgerSteps ==
  LedgerInv /\ LedgerInv' /\ [Next]_chainVars => [Ledger!Next]_Ledger!ledgerVars
<1> SUFFICES ASSUME LedgerInv, LedgerInv', [Next]_chainVars
             PROVE  Ledger!Next \/ UNCHANGED <<Line, inner>>
  BY DEF Ledger!ledgerVars, Line
<1>1. CASE UNCHANGED chainVars
  <2>1. objects \subseteq objects' /\ UNCHANGED <<committed, inner>>
    BY <1>1 DEF chainVars
  <2> QED BY <2>1, LineUnchanged
<1>2. ASSUME NEW t \in Tasks, BeginAppend(t) \/ PutObject(t) \/ PutMeta(t) \/ CasRefused(t)
      PROVE  UNCHANGED <<Line, inner>>
  <2>1. objects \subseteq objects' /\ UNCHANGED <<committed, inner>>
    BY <1>2 DEF BeginAppend, PutObject, PutMeta, CasRefused
  <2> QED BY <2>1, LineUnchanged
<1>3. ASSUME NEW t \in Tasks, CasRef(t)
      PROVE  Ledger!Next
  BY <1>3, ProcessAssumption, LineExtended DEF Ledger!Next
<1>4. ASSUME NEW t \in Tasks, Publish(t)
      PROVE  Ledger!Next
  <2> DEFINE p == ProcessOf[t]
             v == [head |-> entry[t].hash, sequence |-> entry[t].sequence + 1]
  <2>1. /\ entry[t] \in objects /\ entry[t].hash \in committed
        /\ inner' = [inner EXCEPT ![p] = v]
        /\ entry[t].sequence \in Nat /\ entry[t].sequence < Cardinality(committed)
        /\ inner[p].sequence <= entry[t].sequence
    BY <1>4, PublishCatchesUp
  <2>2. UNCHANGED Line
    <3>1. objects \subseteq objects' /\ UNCHANGED committed
      BY <1>4 DEF Publish
    <3> QED BY <3>1, LineUnchanged
  <2>3. p \in Processes
    BY ProcessAssumption
  <2>4. inner[p].sequence \in Nat /\ Cardinality(committed) \in Nat
    BY <2>3, ViewsWithin DEF LedgerInv
  <2>5. v.sequence \in Nat /\ inner[p].sequence <= v.sequence /\ v.sequence <= Cardinality(committed)
    BY <2>1, <2>4
  <2>6. \E o \in objects : o.hash \in committed /\ v = [head |-> o.hash, sequence |-> o.sequence + 1]
    BY <2>1
  <2> HIDE DEF p, v
  <2>7. Ledger!CatchUp(p)
    BY <2>1, <2>2, <2>3, <2>5, <2>6, CatchesUp
  <2> QED BY <2>3, <2>7 DEF Ledger!Next
<1>5. ASSUME NEW p \in Processes, Restart(p)
      PROVE  Ledger!Next
  <2>1. inner' = [inner EXCEPT ![p] = Restored]
    BY <1>5 DEF Restart
  <2>2. UNCHANGED Line
    <3>1. objects \subseteq objects' /\ UNCHANGED committed
      BY <1>5 DEF Restart
    <3> QED BY <3>1, LineUnchanged
  <2>3. inner[p].sequence \in 0 .. Cardinality(committed) /\ Cardinality(committed) \in Nat
    BY ViewsWithin DEF LedgerInv
  <2>4. /\ Restored.sequence \in Nat /\ inner[p].sequence <= Restored.sequence
        /\ Restored.sequence <= Cardinality(committed)
    BY <2>3, RestoreCatchesUp
  <2>5. Ledger!CatchUp(p)
    BY <2>1, <2>2, <2>4, RestoreCatchesUp, CatchesUp
  <2> QED BY <2>5 DEF Ledger!Next
<1> QED BY <1>1, <1>2, <1>3, <1>4, <1>5 DEF Next, AppendStep

\* Every behaviour of the chain, with its overlaps, lost appends and crashes, is one of a
\* ledger that only grows at its end, whose writers see first parts of it that never shrink.
THEOREM ChainImplementsLedger == Spec => ImplementsLedger
<1>1. Spec => []LedgerInv
  BY LedgerInit, LedgerNext, PTL DEF Spec
<1> QED BY <1>1, LedgerStarts, LedgerSteps, PTL DEF Spec, ImplementsLedger, Ledger!Spec

-----------------------------------------------------------------------------
(***************************************************************************)
(* What spoils verify_integrity, by ChainVerifies of OutcomeChain, are     *)
(* only the entries that have their sequence index and are not committed.  *)
(***************************************************************************)
NothingAstray == \A o \in objects : o.hash \in indexed => o.hash \in committed

\* As long as no append that has written its index loses its CAS, dies or is on its way, the
\* chain verifies for every process, however old its view and whatever the appends and
\* restarts before.
THEOREM IntegrityUnlessAstray ==
  Spec => [](NothingAstray => \A p \in Processes : IntegrityVerified(p))
<1>1. LedgerInv => (NothingAstray => \A p \in Processes : IntegrityVerified(p))
  <2> SUFFICES ASSUME LedgerInv, NothingAstray, NEW p \in Processes,
                      NEW n \in 0 .. MaxAppends, n < inner[p].sequence
               PROVE  /\ EntriesAt(n) # {}
                      /\ \A o \in EntriesAt(n) :
                           IF n = 0 THEN o.previous = Genesis
                                    ELSE \A b \in EntriesAt(n - 1) : o.previous = b.hash
    BY DEF IntegrityVerified
  <2>1. n < Cardinality(committed)
    BY ViewsWithin DEF LedgerInv
  <2>2. EntriesAt(n) # {}
    BY <2>1 DEF LedgerInv, PositionsFilled, ChainInv, CommittedInLine, EntriesAt
  <2>3. ASSUME NEW o \in EntriesAt(n), n = 0
        PROVE  o.previous = Genesis
    <3>1. o \in objects /\ o.sequence = 0 /\ \A b \in objects : b.sequence \in Nat
      BY <2>3 DEF EntriesAt, LedgerInv, ChainInv, TypeOK, Entries
    <3>2. \A b \in objects : b.sequence + 1 # 0
      BY <3>1
    <3> QED BY <3>1, <3>2 DEF LedgerInv, ChainInv, LinksResolve
  <2>4. ASSUME NEW o \in EntriesAt(n), n # 0, NEW b \in EntriesAt(n - 1)
        PROVE  o.previous = b.hash
    <3>1. o \in objects /\ o.sequence = n
          /\ b \in objects /\ b.sequence = n - 1 /\ b.hash \in committed
      BY DEF EntriesAt, NothingAstray
    <3>2. PICK c \in objects : c.hash = o.previous /\ c.hash \in committed
                               /\ c.sequence + 1 = o.sequence
      BY <2>4, <3>1 DEF LedgerInv, ChainInv, LinksResolve
    <3>3. c.sequence = n - 1
      <4>1. c.sequence \in Nat
        BY DEF LedgerInv, ChainInv, TypeOK, Entries
      <4> QED BY <3>1, <3>2, <4>1
    <3>4. b = c
      BY <3>1, <3>2, <3>3 DEF LedgerInv, PositionsFilled
    <3> QED BY <3>2, <3>4
  <2> QED BY <2>2, <2>3, <2>4
<1>2. Spec => []LedgerInv
  BY LedgerInit, LedgerNext, PTL DEF Spec
<1> QED BY <1>1, <1>2, PTL
=============================================================================
