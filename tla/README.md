# Formal model of galho

galho drives infrastructure stacks ("galhos") through a lifecycle: declare,
plan, apply, review, merge, verify, seal, with rollback, drift and failure
arcs. This directory holds TLA+ modules for its runtime, its stores and its
merge, the TLC runs that check them on small instances, and theorems about them
checked by TLAPS.

Paths below are relative to `src/crates/`.

## 1. The system

| Component | State | Operations | What makes it correct |
|---|---|---|---|
| Lifecycle knowledge (`galho-types`: `phase.rs`, `morphism.rs`, `knowledge.rs`, `sync.rs`) | none: tables | `transition_table`, `check_preconditions`, `advance`, `forward_morphisms_from`, `SyncConfig::default_for` | checks and table agree; no phase is a trap |
| Runtime (`galho-cli/src/lib.rs`) | `contexts` (phase, evidence flags, confirmations, dependencies, satisfied dependencies) and `locks`, each behind its own tokio `RwLock` | `new_galho_with_deps`, `confirm_approval`, `deliver_signal`, `fire_morphism`, `observe` | evidence matches the phase; approvals are not reused; dependencies acyclic and never overtaken; lock flags true |
| Stack lock (`stack_lock.rs`) | holders, reason, expiry | `acquire`, `join`, `release_holder`, `extend` | a lock that exists has holders; a flag that claims it is backed |
| Audit log and compliance verifier (`compliance_verifier.rs`, `compliance.rs`, `outcome.rs`) | the log | `emit`, `verify` (six ordering rules) | the log tells what happened, in an order the rules accept |
| Outcome chain (`galho-storage/src/outcome_chain.rs`) | entry objects, sequence index, head ref in the store; head and sequence in memory | `append`, `restore`, `entry_at`, `verify_integrity` | no fork, no gap, no dangling link |
| Controller (`galho-controller/src/lib.rs`) | none of its own but a tick's snapshot | `tick`, `deliver_signal` | crosses no gate, leaves nothing undriven |
| Checkpoint, restore and CLI sessions (`galho-cli/src/lib.rs`, `main.rs`) | context and lock objects and refs | `checkpoint`, `restore_from` | no session's work is lost; a restored runtime is one that could have run |
| Object store and refs (`object_store.rs`, `backends/`) | objects, refs, lock files | `put`, `get`, `compare_and_set_ref`, `delete_ref` | CAS is atomic, also over a crash |
| Galho tree and GC (`galho_tree.rs`) | nodes, head refs | `insert`, `advance`, `live_set`, `gc` | what is reachable is not collected |
| Merge, derive, plans (`merge.rs`, `derive.rs`, `conflict.rs`, `plan.rs`, `state.rs`, `ir.rs`) | none: pure functions on graphs | three-way merge, diff, apply | no edit lost or invented; a replayed plan and a merge agree |
| Policies (`attractor.rs`, `flow_tier.rs`, `cred.rs`, `comfort.rs`) | none: tables | edge tiers, credentials, distances, recommendation | agree with the transition table, and with what the runtime does |
| Typestate wrappers, Terraform translation, canonical bytes, values, configuration, errors, test helpers | none | | encoding and typing only |

Operators (CLI commands), webhooks and the controller call one `Runtime`
concurrently. A `Runtime` call takes and drops its locks several times: an apply
joins the stack lock, then raises `stack_lock_held`, then checks the
preconditions and moves the phase, and last hands its events to the emitter
with no lock held. The emitter appends to the outcome chain, and the compliance
verifier later reads what was emitted. A CLI session restores the runtime from
the store, runs one command and checkpoints.

What is hard here is therefore between the critical sections: flags raised in
one and used in another, phases read and acted upon later, events logged in
another order than the changes they report, and processes that die between two
calls of the store. `PROJECT.json` lists these hazards, line by line.

## 2. Modules

| Module | Models | Uses |
|---|---|---|
| `GalhoPhases` | phases, table, preconditions, flag bookkeeping, syncs: constant operators | |
| `GalhoLifecycle` | what the runtime promises, one atomic step per operation, without flags, calls or critical sections | `GalhoPhases` |
| `GalhoRuntime` | the Runtime, one action per critical section | `GalhoPhases`; refines `GalhoLifecycle` |
| `GalhoDependencySearch` | the depth-first search of `detect_dep_cycle`, compared with `WouldCycle` | `GalhoRuntime` |
| `GalhoAudit` | the runtime with its log and the verifier's rules folded over it | `GalhoRuntime` |
| `GalhoController` | the runtime with a tick loop next to its operators | `GalhoRuntime` |
| `GalhoPolicies` | tiers, credentials, comfort, distances and the attractor as constant operators, and two properties that put them next to the runtime | `GalhoRuntime` |
| `AppendOnlyLedger` | what the audit chain promises its writers | |
| `OutcomeChain` | the audit chain in a shared store | refines `AppendOnlyLedger` |
| `GalhoSessions` | CLI sessions: restore, one command, its events, checkpoint | `GalhoPhases` |
| `AtomicRefs` | what an object store promises of its refs (and what the in-memory backend does) | |
| `LocalFsBackend` | objects and refs as files, one action per file system call | refines `AtomicRefs` |
| `GalhoTree` | the state DAG, its heads and its garbage collection | |
| `GalhoBranches` | two branches of a graph: merge, or replay of a plan | |
| `GalhoRuntimeProofs` | theorems about `GalhoRuntime`, its invariants and that it implements `GalhoLifecycle`; and about the two modules next to it, the attractor and the search for cycles included | `GalhoPolicies`, `GalhoDependencySearch` |
| `GalhoAuditProofs`, `GalhoControllerProofs` | theorems about `GalhoAudit` and `GalhoController` | `GalhoRuntimeProofs` |
| `OutcomeChainProofs`, `LocalFsBackendProofs`, `GalhoSessionsProofs`, `GalhoTreeProofs`, `GalhoBranchesProofs` | theorems about the module they are named after | that module |
| `MCRuntime`, `MCAudit`, `MCController`, `MCOutcomeChain`, `MCSessions`, `MCLocalFs`, `MCGalhoTree`, `MCBranches` | instances for TLC: sets of calls, symmetry, placements | |

### GalhoRuntime

`phase`, `flags`, `confirmations`, `dependsOn` and `depsSatisfied` are the
fields of a `MorphismContext` (a name without context has phase `"Absent"`);
`locks` is the map of stack locks, with the empty set for a root that has no
entry. `call` and `outbox` are the local state of a caller between two
critical sections: the morphism it is in the middle of, and the events it has
yet to hand to the emitter.

| Code | Actions |
|---|---|
| `new_galho_with_deps` | `Create` (with `detect_dep_cycle` as `WouldCycle`) |
| `confirm_approval` | `ConfirmApproval` |
| `join_or_acquire_lock` at the start of an apply | `JoinOrAcquireLock` |
| the flag `fire_morphism` raises before the check | `FirePrepared`, `Prepare` (both `PrepareStep`) |
| check, `kb.advance`, flag update, `propagate_dep_satisfaction` | `FireDirect`, `Advance` (both `AdvanceStep`: `Fired`, `Blocked` or `NotFound`) |
| `deliver_signal` up to the call of `fire_morphism` | `DeliverSignal`; the rest is `Prepare`/`Advance` |
| `observe` | `Emit` |

`WouldCycle` states what the depth-first search finds by closed sets: the new
name is in every set that holds the new dependencies and is closed under
`dependsOn`. `GalhoDependencySearch` has the search itself, as a recursive function
of what is left to do at a context: the dependencies yet to be followed and the
names visited. That the two agree is checked, and proved for every graph.

Definitions whose comment starts with "Faulty variant" are seeded faults: the
definition they precede, with a plausible mistake in it. No specification uses
them; each property has been seen to fail with one of them in place.

### GalhoAudit

The verifier reads a finished log event by event. Its passes are kept as a
running fold: `seen` (what each rule looks for, per galho), `last` (the last
phase the log gives) and `breaches`; `overlapped` remembers whether two calls
have ever been in progress at once. The log grows in the order in which `Emit`
happens, not in the order of the changes. `ChainIntegrityHolds`, the rule that
asks the chain itself, is `ChainVerifies` of `OutcomeChain`.

### GalhoController

`TickStart` is `list_galhos`, `Examine` the read of one phase and the choice of
a forward morphism; the call it chose then runs through the critical sections
of the runtime like any other caller's. `todo` is a set: the order in which a
tick visits the names is left open. The controller passes no stack root, so an
apply it decides on is refused before it touches any state, and is left out.

### OutcomeChain

An append is `BeginAppend` (read the in-memory head), `PutObject`, `PutMeta`,
`CasRef` or `CasRefused`, `Publish`. A process has several tasks; it can die
between any two of these steps, after which `Restart` is `restore`. The hash of
an entry is its number: events carry a timestamp, so no two appends write the
same bytes. `CasRefused` also covers the file system backend's refusal while
another writer holds the lock file of the ref.

Seen through `AppendOnlyLedger`, the ledger is the list of committed hashes by
position and a writer's view is the head and sequence its process goes by.
`CasRef` is `Extend`, which only a writer that knows the whole ledger may do:
what its process knows at that moment, not what the task read when its append
began. `Publish` and `Restart` are `CatchUp`, which never goes back; the other
steps are stutters.

### GalhoPolicies

The tables of `flow_tier.rs`, `cred.rs`, `comfort.rs` and `attractor.rs` are sets
of edges and functions on phases; the breadth-first searches are distances
(`Distances`), and `recommend` is the set of best edges (`Recommended`), which
has one member at most. What the sources say of the tables alone (tallies, way
back to the golden subgraph, termination of the attractor, validation of the
knowledge base) are assumptions of `MCRuntime`, which TLC evaluates before each
of its runs. The two properties ask what the tables cannot know:
`AttractorUnrefused`, whether what they recommend passes the preconditions, given
the evidence concurrent calls have left and the dependencies of the galho, and `ReceiptsByCloud`, whether the runtime makes and
drops apply receipts only where the table of credentials asks for a write. The
attractor looks at neither evidence nor dependencies, so `AttractorUnrefused` has two
exceptions: the approval the sync of the phase asks for is not there yet, or the
recommended move is a promotion and some dependency is, at that moment, really
neither verified nor done. In both, nothing else is missing.

### GalhoSessions

A *world* is a context per galho and a holder set per root, or `Missing`. `store`
is the world the refs stand for, and each open session has one in memory.

| Code | Actions |
|---|---|
| `make_runtime` with `OutcomeChain::restore` | `OpenChain` (the session's view of the chain is fresh until somebody else appends) |
| `restore_from` | `ListRefs`, `ReadRef` per ref |
| the command of `main` | `Run`, one of the `Outcomes`: a new world, events, success or failure |
| `observe`, `ChainedOutcomeEmitter::emit`, `append` | `Log`: the event is in the chain (`Appended`); or the append is refused and the event dropped with a warning (`Dropped`), because another session has appended since this one restored, holds the lock file of the chain's head, or has left it there (`Blocked`). `LogFails`: an I/O error drops it, or leaves the lock file behind |
| the auto-checkpoint, after success only | `StartCheckpoint`; `ReadCurrent`, then `CasRef` or `CasRefused`, per context and then per lock |
| the end of the process | `Exit`; `Die`, which is also an I/O error that ends the command; `DieInCas`, the same in a compare-and-set, which leaves the lock file of the ref behind |

Commands use the tables and flag bookkeeping of `GalhoPhases`. In memory a
command is one step: nobody else has that memory. `put_object` and `read_ref` of
a checkpoint are one step as well, and so are `read_ref` and `get_object` of a
restore, because objects never change.

`locked` is the set of refs whose lock file somebody has left behind: no session
removes it, so `CasRef` of such a ref is refused for ever, and on the head of the
chain so is every append. `failures` counts deaths and I/O errors, `overlapped`
and `unlogged` are history: were two sessions ever open at once, and which galhos
made a last move that the chain has refused (until it takes a later one of them).

### AtomicRefs and LocalFsBackend

`put_object` is `PutSkipped`, or `PutBegin`, `CreateTmp`, `WriteTmp` and
`RenameTmp` (or `RenameFailed`). A writer has the file it opened, not its name:
`fd` follows it through the renames of others. `cas_ref` and `cas_delete_ref`
are `RefBegin`, `TakeLock` (or `LockRefused`), `CompareRef`, `ApplyRef` (or
`RemoveFailed`), `Unlock`; `delete_ref` is `DeleteRef`, which takes no lock.
`Die` is a crash or an I/O error: only a failed removal cleans up after itself.
`AtomicRefs` has one step where the backend has five. A call that `delete_ref`
meets half-way may write the ref that was just removed; the abstract
specification allows that (`met`), and nothing else.

### GalhoTree

| Code | Actions |
|---|---|
| `insert_node` | `PutNode`, `PutNodeMeta`, or `InsertFailed` between the two |
| `advance_ref` | `AdvanceRef`; its refusals change nothing and are `Divergences`: witnesses that can be had at any time |
| `discharge_divergence` | `DischargeDivergence` |
| `live_set` | `GcStart` (list), `GcReadHead` per name, `GcVisit` per node |
| `gc` | `GcList`, then `GcDeleteObject` and `GcDeleteMeta` per object, `GcEnd` |

Four history variables say what has happened, not what the code knows: `known`
(the nodes inserts have returned), `reached` (what a head has reached ever since
a collection began), `fresh` and `careless` (whether a collection has come
between an insert and the head the node was for).

### GalhoBranches

`ThreeWayMerge`, `MergeOneResource`, `MergeDivergedResource`, `MergedAttr` and
`AttrClashes` follow the match arms of `merge.rs`; `DiffGraphs` and
`ApplyChanges` follow `derive.rs`. The state machine around them lets two
branches commit any graphs, derive a plan, move on, and merge or replay. The
properties do not repeat the arms: `MergeIsThreeWay` compares the result, thing
by thing, with `Reconciled`, a definition of three-way merge by its four cases. The
code takes unions of edges (`merge.rs:91`) and, in a resource both sides edited,
of dependencies (`merge.rs:276`), and ours for its kind, status and provenance
(`merge.rs:274`). There `MergeIsThreeWay` asks less: everything a three-way merge of
the sets would have is there (`ReconciledSet`, `LosesNoAddition`), what else is there
was in the base, and, if it is a dependency, one side has kept it; the kind is ours.
So an edge that one side or both removed may come back as long as its ends are
there, so may such a dependency, and theirs' edit of the kind is lost.

## 3. Runs

Passing runs:

| Run | Question | Instance |
|---|---|---|
| `interleaving` | do evidence, lock flag, way out and atomic lifecycle survive every interleaving, of legal and illegal calls? does a receipt change on an edge that takes no write credential? | 1 galho, 2 callers, 2 roots, all morphisms in any phase; about 300,000 states |
| `dependencies` | are satisfied sets exact, and is no promotion ahead of its dependency? is what the attractor recommends refused for want of anything but an approval or a dependency? | 2 galhos, 2 callers, the calls that satisfy, withdraw, rule out or consult a dependency; about 310,000 states |
| `cycles` | does every order of creation, dangling names included, leave the graph acyclic, and does the depth-first search agree with `WouldCycle`? | 4 names, any dependencies; about 7,000 states |
| `audit` | is the log compliant and replayable while calls do not overlap, and which of its guarantees remain when they do? | 1 galho, 2 callers, all morphisms; about 340,000 states |
| `controller` | does the tick cross no gate and leave nothing undriven, against an operator that fires the same morphisms? | 2 galhos, 1 ticker, 1 operator; about 340,000 states |
| `outcome_chain` | does the committed chain neither fork, skip nor dangle, and is it one ledger that its processes see in order? | 2 processes, 3 tasks, 4 appends, crashes; about 39,000 states |
| `sessions` | what of evidence, holders, satisfied sets and chain survives sessions that overlap, overwrite each other, die in a checkpoint or an append, and leave lock files behind? | 2 galhos, 1 root, 3 sessions, 2 at a time, 1 death or I/O error, from an empty store and from two stores half-way through a stack; about 1.7 million states, up to exchanging the two slots |
| `local_fs` | is the lock-file CAS atomic, are locks given back, and what tears an object? | 2 clients, 2 refs with one lock file, 1 object; about 120,000 states |
| `galho_tree` | what does a collection keep while heads move and nodes are put back, and is any advance lost? | a root, its child and their merge, 2 galhos, 1 writer, 2 collections; about 360,000 states |
| `branches` | does the merge agree with a reference definition, up to removed edges and dependencies that come back, and a replayed plan with the merge? | 2 resources, one with 2 attributes and 3 values, 2 kinds, a dependency and an edge to the other in the base or not; about 2.8 million states |

Bounds and why they are enough:

- One galho suffices where properties speak of one galho, because contexts
  interact only through dependencies and holder sets; two suffice for a
  dependency and its dependent; four give cycles of every length up to four,
  closed from any side.
- Two callers give every pair of overlapping critical sections. The theorems
  of section 5 hold for any number of galhos, roots and callers.
- `Calls` is the set of morphisms callers fire and `AnyPhase` says whether they
  fire them in phases that have no row for them. Both only narrow the callers.
  `interleaving` narrows nothing. `dependencies` leaves out `Escalate`, `Recover` and
  `Resume`, so galhos in it do not fail and come back; its theorems
  (`DependenciesExact`, `PromotionOrdered`, `RecommendationsAccepted`) have no such
  limit. A delayed call may meet any phase in any run.
- `MaxAppends` bounds the appends of a behaviour of `OutcomeChain`: one that
  commits, one that is lost, and two that follow.
- `MaxSessions` is three: one that overwrites, one that is overwritten, and one
  that restores what they left. The sessions of a behaviour are few, so it may
  also start from stores that are already `UnderReview` or `Midway`; both are
  what a series of commands, without overlap, leaves behind.
- `MaxFailures` is one: a session that dies, and two that meet what it has left. A
  death between the new value of a ref and the removal of its lock file is two
  failures of the model, the lock file and then `Die`, so the run does not reach it;
  the theorems, which hold for any `MaxFailures`, do.
- `LocalFsBackend` has no bound. Two refs with one stem show both that they lock
  each other out and that they are not confused; one object suffices because
  nothing relates the files of two objects, and a compare-and-set sees an equal
  or a different ref with one hash and `None`.
- The three nodes of `Triangle` give a chain, a merge with two paths to the
  root, and a second path that arrives at what was visited. `MaxGcs` is two: a
  collection interrupted half-way, and one that meets what it left.
- One resource of `branches` takes every combination of presence, kind,
  attributes and dependency; the other is there or not, with or without an edge.
  Bases have them too, so that each side may add or remove the dependency and the
  edge, or keep them.
  Three values and absence on one attribute give every arm of the attribute
  matrix; the second attribute shows that the first does not decide for it.
- Deadlock is not checked where the system really may stop: names are used up
  (`cycles`), galhos are sealed and calls of the instance exhausted, the appends
  or the sessions are, all clients of the file system are done
  (`local_fs`, whose lock files may be left behind), or the two branches have
  become one (`branches`).

Fairness: `GalhoController` states weak fairness of the ticker's step. The loop
that calls `tick` never stops, a tick's call is never blocked for ever (tokio's
`RwLock` is fair, and no call modelled here holds one lock while it awaits
another), and nothing is assumed of operators: they may stop in the middle of a
call. Under it `AutomaticPhasesLeft` holds: a Declared, Merged or RolledBack
galho does not stay so. `LocalFsBackend` states weak fairness of each client's
next file system call: no call waits for another client (a taken lock file is an
error, not a wait), so a call that has begun goes on, unless its client dies.
Under it `LocksReleased` holds.

## 4. Where code and documents disagree

Two runs show a counterexample:

| Run | Documented | What happens |
|---|---|---|
| `lost_updates` | the CAS of a checkpoint makes concurrent writers fail loud (`galho-cli/src/lib.rs:1137`) | the checkpoint compares the ref with what it has read a moment before, not with what the session restored: a session that restored earlier puts the old phase back, without an error |
| `chain_sessions` | `verify_integrity` holds across sessions (`galho-cli/src/main.rs:306`) | an append that dies between its sequence index and its CAS, or loses the CAS to another task, leaves its index behind; `verify_integrity` may answer false for a sound chain |

The others were met while modelling and have no run of their own; `PROJECT.json`
quotes the lines.

- A confirmation is emitted late; a promotion that relies on it can be logged
  first, and the verifier then reports a breach of "every Promote is preceded by
  a SyncConfirmed".
- "Stack lock holder count matches the set of galhos that successfully fired
  ApplyToPreview": an apply joins the lock before its preconditions are checked
  and stays in it when they fail.
- "Stack lock released" on abandonment: only the flag is cleared.
- "'deps never satisfy' is impossible": a dependency can be destroyed while others
  wait for it.
- "Operator chooses to retry" after a rollback: RolledBack is Automatic and Resume
  counts as a forward morphism, so the tick retries.
- "Atomic writes via write-tmp + rename": two writers of one object share its
  temporary file. `TornOnlyByContention` says that nothing else tears an object.
- A checkpoint that dies between two contexts leaves satisfied dependencies that
  no longer hold, and a restore does not recompute them. `CalmStoreSound` asks
  for living sessions for this reason.
- `apply_changes` never adds an edge, so the round trip that "holds for all graph
  pairs" does not hold of edges.
- A clean merge takes kind, status and provenance from ours, so what theirs made of
  them in a resource both sides edited is lost, and the merge is not symmetric in
  them, as a test's comment says it is.
- "A real three-way merge algebra": edges are the union of base, ours and theirs, and
  the dependencies of a resource both sides edited the union of the two, so what one
  side removes comes back. Comments at both places say that they are unions.
- "Every Runtime transition emits an event that lands in the hash-linked
  OutcomeChain": once a session has died in the compare-and-set of the chain's head,
  its lock file stays, every later event is dropped with a warning, and the commands
  are checkpointed all the same. `LogOneAhead` has the exception.
- A dependency added on one side on a resource the other side deletes merges
  cleanly and dangles; the conflict kinds for that exist and no code reports them.
- From Done nothing leads anywhere, and `distance_to_golden_any_edge` answers
  `None`, which "never" happens.
- Collection marks from refs under `galhos/` only, and sweeps everything else of a
  store it shares with the audit chain and the checkpoints. In the model these
  objects need no name: `Sweepable` is every object that is not live.

Smaller ones: the table has no `Abandon` row from Merged, Verified, Drifted or
RollingBack, where `phase.rs:245` says "from any non-terminal phase"; the comfort
matrix says that no lock is held at rest in Drifted, Verified and Done, where the
runtime keeps the flag and the holder; Recover, described as resetting a cursor,
drops the apply receipt of a failed galho (the exception in `ReceiptsByCloud`);
and a root's ref has `_` for `/`, so that two roots may share one.

## 5. Proofs

Every safety property of the passing runs is a theorem, for all values of the
constants: none of the sets, placements and bounds of section 3 appears in a
proof. The theorems assume only this of the constants:

| Module | Assumed |
|---|---|
| `GalhoRuntime` and the modules that extend it | `Galhos` is finite; `Calls` is a set of morphisms; `Ticker` is one of the `Tasks` |
| `OutcomeChain` | every task has a process; `MaxAppends` is a number |
| `LocalFsBackend` | every ref has a lock file (one may serve several); `None` is no hash and no call |
| `GalhoSessions` | galhos and roots have different names; a checkpoint leaves no name out and saves contexts before locks, as `checkpoint` does; behaviours start from sound stores; `Missing` and `Closed` are nothing else |
| `GalhoTree` | every node has a set of parents, cycles not excluded; `None` is no node; `MaxGcs` is a number |
| `GalhoBranches` | bases and commits are graphs (`Base` and `Commit` could produce no others); `None` is no resource, graph or kind |

Each module of proofs has one inductive invariant, shown with one step per
action, and the theorems follow from it.

**`GalhoRuntimeProofs`**, `RuntimeInv`:

- `TypeCorrect` (`TypeOK`).
- `DependenciesAcyclic` (`Acyclic`). Only `Create` changes `dependsOn`. If it
  closed a cycle, a set `S` would have a dependency inside itself at every
  member; the new name is in `S`, and the members of `S` a closed set around
  the new dependencies misses would form a cycle before the step.
- `DependenciesExact` (`DepsExact`) and `PromotionOrdered`
  (`PromoteRespectsDeps`). Every action that changes a phase or a dependency
  recomputes all satisfied sets in the same critical section, so at the step
  that merges, the cached set it consults is the truth of that step.
- `EvidenceKept`, `EvidenceRenewed` and `AlwaysAWayOut` (`EvidenceHeld`,
  `EvidenceFresh`, `NoDeadEnd`). Neither of the first two is inductive alone:
  together they are, as a predicate on the phase and flags of one galho that
  every row of the table preserves and that no flag raised early disturbs.
- `LockFlagTrue` (`LockFlagBacked`). Not inductive: the lock is joined one
  critical section before the flag is raised. It is strengthened by
  `PreparedLockHeld`: a call in the middle of an apply is for a galho that holds
  some root, which no step takes away.
- `ReceiptsFollowCredentials` (`ReceiptsByCloud`). By the evidence, a galho has a
  receipt exactly in the applied phases; the edges that enter or leave that
  set are read off the table, and for each the table of credentials asks for a
  write, Recover excepted.
- `RecommendationsAccepted` (`AttractorUnrefused`): short of the goal the attractor
  has a move, and by the evidence of the phase it lacks nothing but an approval,
  where one is awaited, or a dependency, where it promotes. Since satisfied sets are
  exact (`DepsExact`), a dependency that is lacking is really not done. `AttractorArrives` is about the tables alone: whoever keeps
  taking recommended moves is at the goal after exactly as many steps as the
  distance, and not before.
- `SearchFindsCycles` (`SearchAgrees`), for every dependency graph.
- `RuntimeImplementsLifecycle`: with `approved` the galhos whose approval flag is
  up and `holders` the members of any stack lock, creation, joining, approval and
  a fired morphism map to `Create`, `JoinLock`, `Approve` and `Move`, and every
  other critical section to a stutter.

The theorems about the attractor and the search rest on recursive functions, whose
equations hold only if such a function exists, and on induction, which the
library states in a form none of the provers takes. Both are made from what they
do take. That finite sets have no infinite descent gives a least number in every
set of numbers (`LeastNumber`) and from it induction over sets of numbers
(`NumbersByInduction`). For distances, `LevelsExist` and `Levels` build the function
level by level, up to the number of phases. For the search, each job has a rank,
unvisited names times (all names + 1) plus dependencies left, which every call
lowers (`LexicographicRank`); `SearchExists` joins the functions that obey the
equation below a rank. By the same rank `Answered` holds of every job: what is
found is reached from its dependencies; and if nothing is found, these have been
visited, and so has what follows from any name visited on the way. So what an
unsuccessful search has visited is closed and without the target, the set that
`WouldCycle` asks for.

**`GalhoControllerProofs`**, `ControllerInv`: `RuntimeInv`, and that the ticker is
only ever in the middle of a Plan, a Verify or a Resume. The ticker decides on
a phase that may be stale when the call is made; but rows of these three
morphisms start only in phases it may leave, so a stale decision is refused and
never crosses a gate (`TickNeverCrossesGates`). The theorems about the runtime
hold with the ticker among the callers (`ControllerKeepsRuntime`), the refinement
of `GalhoLifecycle` included (`ControllerImplementsLifecycle`).

**`GalhoAuditProofs`**, `AuditInv`, in three parts. `LockedInv` follows the lock
event of an apply from the caller's queue into the log: it is there before the
flag that lets the apply fire goes up (`AppliesLockedOnRecord`). `RecordInv` says
that what a phase or an approval stands for is in the log or on its way
(`RecordComplete`: when nobody is on the way, it is in the log). `CalmInv` holds
as long as no two calls have overlapped: the one event under way is of the last
thing that happened, and breaks no rule (`BaselineHolds`, `LogReplays`).

**`OutcomeChainProofs`**, `ChainInv`. `LinksResolve` is not inductive: it needs that
no two entries have one hash, also counting those held in memory; that an append
has stored its entry by the time it sets the ref; and that the committed entries
number one more than the sequence of the head. From the last, an append that
wins its compare-and-set is the next entry and not a repetition
(`HeadNeverForks`, `LinksNeverDangle`).

`LedgerInv` adds what makes the chain a ledger (`ChainImplementsLedger`): each position
up to the head is filled by one committed entry; an append that has not committed
continues at a position its process has seen; and no process has two commits to
publish, or knows more than what precedes the one. So a task that wins its
compare-and-set belongs to a process that knows the whole chain
(`CommitterUpToDate`), and a publication or a restore never takes a process back.
From the same invariant, `IntegrityUnlessAstray` delimits the finding of the run
`chain_sessions`: as long as every entry with a sequence index is committed, the chain
verifies for every process, however old its view.

**`LocalFsBackendProofs`**, `FsInv`, by the two sides of the backend. Of objects:
a writer whose object nobody else writes has the file its name leads to, so its
rename moves what it has written (`ObjectsWhole`). Of refs: a lock file that
exists is one call's between taking and giving it back, or a dead client's
(`LocksAlwaysOwned`), so two calls on one ref are never both past the lock, and
from comparison to change the ref holds still, unless `delete_ref` met the call.
That last conjunct, `CasInv`, makes `ApplyRef` the one step of the abstract
compare-and-set; every other file system call is a beginning, an answer or a
stutter of `AtomicRefs` (`BackendImplementsAtomicRefs`).

**`GalhoSessionsProofs`**, `SessionsInv`, under ever stronger conditions:

- Always: memory and store are worlds of the right shape, each with the evidence
  its phases need; and the holders of a lock that is stored, or about to be, are
  stored (`StoredEvidenceMatches`, `StoredHoldersExist`). This survives every
  overlap because a context is replaced as a whole and contexts come before locks.
- While no two sessions have overlapped: of each galho, at most one move lies
  between the store and the chain, but for galhos whose last move the chain has
  refused (`ChainOneAhead`): a lock file left on the chain's head stops the chain, not
  the sessions. And each stored phase follows
  from the one before it (`AloneStoreFollowsLifecycle`, the complement of what
  the run `lost_updates` refutes of sessions at large).
- While besides nobody has died or met an I/O error: between two sessions the store is sound and the
  chain agrees with it (`CalmSessionsSound`).

**`GalhoTreeProofs`**, `TreeInv`. `Closure` is the complement of the largest set
that is closed from the other side, so that what a walk reaches can be reasoned
about without induction (`ClosureClosed`, `ClosureLeast`). The obstacle of
`GcSparesReached` is that descriptions come and go during the walk. `Walked` says
that, for each head the collection has read, some set of descriptions that are
all there now explains what has been visited, and that what the head has reached
ever since lies in the closure of visited and waiting nodes under it; when
nothing waits, that closure is the marked set. `CarefulHeadsWhole` needs that the
histories of nodes ready for an advance, and of the parents of nodes being
inserted, are whole, as long as no collection came in between.
`AdvancesKept` is the check of `advance_ref` and `discharge_divergence`, carried
from parents to whole histories.

**`GalhoBranchesProofs`**. `BranchesInv` says only that the graphs are what they
were when plan and outcome were made of them. What the theorems need are lemmas
about the operators: `AttrMerges` (an attribute merges to what the four cases of a
three-way merge give, and clashes exactly when they give nothing),
`DivergedMerges` and `ResourceMerges` (so does a resource, with the conflict kind
that belongs to it), `MergeConflicts` and `MergeClean` (so does a graph), and
`ReplayParts` (what a replayed plan does to a resource). `WantedParts`, with
`DepsUnited` and `EdgesUnited`, says what a union has beyond the three-way merge of
the sets: members of the base that a side has removed. With them
`MergesAreThreeWay`, `ReplaysMeetMerges` and `OutcomesAreGraphs` hold for any
ids, paths, values and kinds. `MergesMirrored` says how far the symmetry a test claims
of merges goes: which side is called ours decides neither whether a merge is clean,
nor which resources are in dispute, nor what the merged graph holds, but for the
kind, status and provenance of the resources that both sides have edited.

Some properties speak of quiet circumstances only, and are no guard outside them:

- `AuditClean` and `AuditReplays` ask that no two calls have overlapped. Under
  overlap, the order of the log is `LocksAudited` and its completeness
  `AuditComplete`; that events are logged in the order of the changes is not so.
- `AutomaticPhasesLeft` is about progress, and a tick that resumes a rolled back
  galho nobody asked to resume makes progress: see section 4.
- `CalmStoreSound` asks that sessions neither overlap nor fail. What a failed or
  overlapping one may leave is bounded by `EvidenceStored`, `HoldersStored` and
  `LogOneAhead`.
- `GcKeepsReached` is about what a head has reached since the collection began. A node
  inserted, or first reached, after that may be swept; `HeadsWhole` excepts heads
  advanced to a node after a collection came in between, and so both races of a
  writer with `gc` (`galho_tree.rs:277-278`). They happen in the code.

Only model-checked are the two liveness properties, `AutomaticPhasesLeft` and
`LocksReleased`: TLAPS proves neither leads-to under fairness nor `ENABLED`.

## 6. Abstractions and what is left out

- Of events kind, galho, morphism and to-phase are kept; time, actor and notes
  are left out.
- `conflict_open` and `drift_detected` are not modelled: no code sets them.
- The runtime's knowledge base is private and always the default one, so the
  default syncs and their quorum of one are the only ones.
- Confirmations are sets of phase and role: the code counts distinct roles of
  the current phase.
- Sync timeouts and `on_timeout` actions are configuration that no code acts on.
- A stack lock is its holder set. Reason, expiry and root are left out:
  `release_holder`, `extend` and `is_expired` have no caller outside tests, and
  nothing compares an expiry with a clock. The component is `partly` modelled for
  this reason, and stays so: there is no behaviour of the program to check.
- Snapshots, gate reports and renderers only read.
- Each call of the store is one step in `OutcomeChain`, `GalhoSessions` and
  `GalhoTree`; `LocalFsBackend` shows when that is so. Metadata files, which are
  written like objects, and listings are left out of it.
- A session's events carry the galho and the phase a move leads to.
- The hash of a state or an object is the state or object itself: no two have the
  same. The stack of the collector's walk is a set, since the order of a walk does
  not change what it finds.
- Kind, status and provenance of a resource travel together in every branch of the
  merge, and are one value. Plan cost, timestamps, and Replace changes, which only
  adapters make and which act like updates, are left out.
- In `GalhoPolicies`, reasons and evidence strings.

Not modelled: the typestate wrappers (a compile-time encoding of the forward arc;
each method calls `KnowledgeBase::advance`), the Terraform translation (a parser
and formatter without state), canonical bytes, values, configuration, errors and
test helpers.

## 7. Plan

Every component with behaviour of its own is modelled, and its invariants are
proved. What remains worth stating is in `GalhoAudit`: the receipts of
`ReceiptsByCloud` as a reader of the log alone can tell them.
