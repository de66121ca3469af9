---------------------------- MODULE OutcomeChain ----------------------------
(***************************************************************************)
(* The hash-linked audit chain of galho-storage.  Several processes append *)
(* to one object store, each with its own in-memory head and sequence, and *)
(* several tasks of a process append at once.  An append is four separate  *)
(* calls of the store: the entry object, its sequence index, the CAS of    *)
(* the head ref, and then the in-memory state.  A process may die between  *)
(* any two of them and restore from the store.                             *)
(*                                                                         *)
(* The hash of an entry is its number among the appends: events carry a    *)
(* timestamp, so that no two appends write the same bytes.                 *)
(***************************************************************************)
EXTENDS Naturals, FiniteSets

CONSTANTS
  Tasks,       \* the callers of append
  Processes,   \* the processes that share the store
  ProcessOf,   \* the process of each task
  MaxAppends,  \* bound: appends begun in a behaviour
  Crashes      \* may a process die and restore?

ASSUME ProcessAssumption == ProcessOf \in [Tasks -> Processes]
ASSUME BoundAssumption   == MaxAppends \in Nat

VARIABLES
  objects,    \* the stored entries
  indexed,    \* the hashes with a sequence index in the store
  head,       \* the ref of the head; Genesis when there is none
  inner,      \* per process: the head and sequence it goes by
  stage,      \* per task: the next call of its append
  entry,      \* per task: the entry it appends
  begun,      \* the appends begun so far
  committed   \* history: every hash the head ref has pointed to

chainVars == <<objects, indexed, head, inner, stage, entry, begun, committed>>

Genesis == 0
Hashes  == 0 .. MaxAppends
Entries == [hash : 1 .. MaxAppends, sequence : 0 .. MaxAppends, previous : Hashes]
Stages  == {"idle", "put_object", "put_meta", "cas_ref", "publish"}

Empty    == [head |-> Genesis, sequence |-> 0]
NoEntry  == [hash |-> Genesis, sequence |-> 0, previous |-> Genesis]

-----------------------------------------------------------------------------
(***************************************************************************)
(* append.                                                                 *)
(***************************************************************************)

\* The entry goes by what the process believes the chain to be.
BeginAppend(t) ==
  /\ stage[t] = "idle" /\ begun < MaxAppends
  /\ begun' = begun + 1
  /\ LET in == inner[ProcessOf[t]]
     IN  entry' = [entry EXCEPT ![t] =
           [hash |-> begun + 1, sequence |-> in.sequence, previous |-> in.head]]
  /\ stage' = [stage EXCEPT ![t] = "put_object"]
  /\ UNCHANGED <<objects, indexed, head, inner, committed>>

PutObject(t) ==
  /\ stage[t] = "put_object"
  /\ objects' = objects \cup {entry[t]}
  /\ stage' = [stage EXCEPT ![t] = "put_meta"]
  /\ UNCHANGED <<indexed, head, inner, entry, begun, committed>>

PutMeta(t) ==
  /\ stage[t] = "put_meta"
  /\ indexed' = indexed \cup {entry[t].hash}
  /\ stage' = [stage EXCEPT ![t] = "cas_ref"]
  /\ UNCHANGED <<objects, head, inner, entry, begun, committed>>

\* Faulty variant: the ref is written whatever it holds.
HeadExpectedAny(e) == TRUE

\* The CAS expects the previous hash, or no ref at all for the first entry.
HeadExpected(e) == head = e.previous

CasRef(t) ==
  /\ stage[t] = "cas_ref"
  /\ HeadExpected(entry[t])
  /\ head' = entry[t].hash
  /\ committed' = committed \cup {head'}
  /\ stage' = [stage EXCEPT ![t] = "publish"]
  /\ UNCHANGED <<objects, indexed, inner, entry, begun>>

\* The CAS fails: the head has moved, or (on the file system) another task is in its
\* own CAS and holds the lock file.  The emitter swallows the error; object and index stay.
CasRefused(t) ==
  /\ stage[t] = "cas_ref"
  /\ ~ HeadExpected(entry[t]) \/ \E u \in Tasks \ {t} : stage[u] = "cas_ref"
  /\ stage' = [stage EXCEPT ![t] = "idle"]
  /\ entry' = [entry EXCEPT ![t] = NoEntry]
  /\ UNCHANGED <<objects, indexed, head, inner, begun, committed>>

\* Faulty variants: the position is left as it was, or counted twice.
PublishedBehind(e) == [head |-> e.hash, sequence |-> e.sequence]
PublishedAhead(e)  == [head |-> e.hash, sequence |-> e.sequence + 2]

Published(e) == [head |-> e.hash, sequence |-> e.sequence + 1]

Publish(t) ==
  /\ stage[t] = "publish"
  /\ inner' = [inner EXCEPT ![ProcessOf[t]] = Published(entry[t])]
  /\ stage' = [stage EXCEPT ![t] = "idle"]
  /\ entry' = [entry EXCEPT ![t] = NoEntry]
  /\ UNCHANGED <<objects, indexed, head, begun, committed>>

\* Faulty variant: the position is the head's, not the next one.
RestoredAtHead ==
  IF head = Genesis THEN Empty
  ELSE LET e == CHOOSE o \in objects : o.hash = head
       IN  [head |-> head, sequence |-> e.sequence]

\* restore: the head ref, and the sequence of the object it names.
Restored ==
  IF head = Genesis THEN Empty
  ELSE LET e == CHOOSE o \in objects : o.hash = head
       IN  [head |-> head, sequence |-> e.sequence + 1]

\* A process dies in the middle of its appends and a new one takes its place.
Restart(p) ==
  /\ Crashes
  /\ inner' = [inner EXCEPT ![p] = Restored]
  /\ stage' = [t \in Tasks |-> IF ProcessOf[t] = p THEN "idle" ELSE stage[t]]
  /\ entry' = [t \in Tasks |-> IF ProcessOf[t] = p THEN NoEntry ELSE entry[t]]
  /\ UNCHANGED <<objects, indexed, head, begun, committed>>

Init ==
  /\ objects = {} /\ indexed = {} /\ head = Genesis
  /\ inner = [p \in Processes |-> Empty]
  /\ stage = [t \in Tasks |-> "idle"]
  /\ entry = [t \in Tasks |-> NoEntry]
  /\ begun = 0
  /\ committed = {}

AppendStep(t) == \/ BeginAppend(t) \/ PutObject(t) \/ PutMeta(t)
                 \/ CasRef(t) \/ CasRefused(t) \/ Publish(t)

Next == (\E t \in Tasks : AppendStep(t)) \/ (\E p \in Processes : Restart(p))

Spec == Init /\ [][Next]_chainVars

-----------------------------------------------------------------------------
(***************************************************************************)
(* Reading the chain.                                                      *)
(***************************************************************************)

\* entry_at: the index is scanned in the order the store lists its objects, which is
\* unrelated to the order of the appends: any of these may be returned.
EntriesAt(n) == { o \in objects : o.hash \in indexed /\ o.sequence = n }

\* The committed hash of a position.
CommittedAt(n) == CHOOSE h \in committed : \E o \in objects : o.hash = h /\ o.sequence = n

\* verify_integrity answers true, whatever the order in which the objects are listed.
IntegrityVerified(p) ==
  \A n \in 0 .. MaxAppends : n < inner[p].sequence =>
    /\ EntriesAt(n) # {}
    /\ \A o \in EntriesAt(n) :
         IF n = 0 THEN o.previous = Genesis
                  ELSE \A b \in EntriesAt(n - 1) : o.previous = b.hash

-----------------------------------------------------------------------------
(***************************************************************************)
(* Properties.                                                             *)
(***************************************************************************)
TypeOK ==
  /\ objects \subseteq Entries
  /\ indexed \subseteq 1 .. MaxAppends
  /\ head \in Hashes
  /\ inner \in [Processes -> [head : Hashes, sequence : 0 .. MaxAppends]]
  /\ stage \in [Tasks -> Stages]
  /\ entry \in [Tasks -> Entries \cup {NoEntry}]
  /\ begun \in 0 .. MaxAppends
  /\ committed \subseteq 1 .. MaxAppends

\* The committed chain never forks and never skips a position, whoever appends, fails or
\* dies: the head advances by exactly one link, onto an entry that is stored and indexed.
HeadAdvances ==
  [][head' # head => \E o \in objects : /\ o.hash = head' /\ o.hash \in indexed
                                        /\ o.previous = head
                                        /\ o.sequence = Cardinality(committed)]_chainVars

\* No link dangles: an entry that was written names an entry that was committed before
\* it, one position below, so that the chain can be walked from any stored entry.
LinksResolve ==
  \A o \in objects :
    \/ o.sequence = 0 /\ o.previous = Genesis
    \/ \E b \in objects : /\ b.hash = o.previous /\ b.hash \in indexed /\ b.hash \in committed
                          /\ b.sequence + 1 = o.sequence

\* The chain implements a ledger that only grows at its end: the committed entries are one
\* list whatever the order in which appends overlap, fail and die; a process goes by a first
\* part of it, which a publication or a restore never shortens; and whoever commits knows at
\* that very moment, and not merely when the append began, the whole list.
Ledger ==
  INSTANCE AppendOnlyLedger WITH
    Writers <- Processes, Items <- 1 .. MaxAppends, Nothing <- Genesis,
    ledger <- [n \in 1 .. Cardinality(committed) |-> CommittedAt(n - 1)],
    view   <- inner

ImplementsLedger == Ledger!Spec

\* "Advance the head ref via CAS so concurrent appends fail-loud instead of corrupting"
\* (galho-storage/src/outcome_chain.rs), and "New sessions pick up where prior sessions
\* stopped -- verify_integrity holds across the whole accumulated chain"
\* (galho-cli/src/main.rs).  The CAS keeps the chain itself sound (HeadAdvances); but an
\* append that loses the CAS, or dies before it, leaves its sequence index behind, and the
\* chain does not verify even when no append is in progress any more.
ChainVerifies ==
  (\A t \in Tasks : stage[t] = "idle") => \A p \in Processes : IntegrityVerified(p)
=============================================================================
