---------------------------- MODULE LocalFsBackend ----------------------------
(***************************************************************************)
(* The file system backend, one action per call of the file system.  An    *)
(* object is written to a temporary file and renamed; a ref is compared    *)
(* and changed under a lock file that is created exclusively.  Callers     *)
(* point refs only at objects they have stored, and may die, or be given   *)
(* up by an I/O error, between any two calls.                              *)
(***************************************************************************)
EXTENDS Naturals, FiniteSets

CONSTANTS
  Clients,  \* the tasks and processes that share the directory
  Refs,     \* names of refs
  Stems,    \* names without their extension, which lock files are called after
  StemOf,   \* the stem of each ref: "web.eu" and "web.us" have the same one
  Hashes,   \* hashes of the objects of the instance
  None      \* no ref, no call

ASSUME StemAssumption == StemOf \in [Refs -> Stems]
ASSUME NoneAssumption == None \notin Hashes

VARIABLES
  refFile,    \* the hash in the file of each ref, or None
  lockFiles,  \* the stems that have a lock file
  tmp,        \* per object: the state of its temporary file
  file,       \* per object: the state of its file
  op,         \* per client: the call it is in the middle of, or None
  stored,     \* per client: the objects it has been told are stored
  orphaned,   \* history: stems whose lock file was left behind
  contended   \* history: objects two clients have written at the same time

fsVars == <<refFile, lockFiles, tmp, file, op, stored, orphaned, contended>>

\* A file that is torn is empty or half written.
FileStates == {"none", "torn", "whole"}

\* A write of an object; fd is where the file it has opened is by now: still under the
\* temporary name, under the name of the object, or replaced by another.
Puts == [kind : {"put"}, stage : {"create", "write", "rename"}, hash : Hashes,
         fd : {"tmp", "file", "gone"}]

\* A compare-and-set, or, with new = None, a compare-and-delete.  A call with an answer has
\* nothing left to do but to unlock.
RefCalls ==
  { r \in [kind : {"ref"}, stage : {"lock", "read", "apply", "unlock"}, ref : Refs,
           expected : Hashes \cup {None}, new : Hashes \cup {None},
           answer : {"none", "ok", "mismatch"}, met : BOOLEAN] :
      r.answer # "none" => r.stage = "unlock" }

At(c, stage) == op[c] # None /\ op[c].stage = stage

Stem(c) == StemOf[op[c].ref]

Advance(c, stage) == op' = [op EXCEPT ![c].stage = stage]
Return(c)         == op' = [op EXCEPT ![c] = None]

-----------------------------------------------------------------------------
(***************************************************************************)
(* put_object.                                                             *)
(***************************************************************************)
Writing(h) == { c \in Clients : op[c] # None /\ op[c].kind = "put" /\ op[c].hash = h }

\* Faulty variant: the temporary file of another writer counts as the object.
ExistsHalf(h) == file[h] # "none" \/ tmp[h] # "none"

Exists(h) == file[h] # "none"

\* The object is there already: nothing is written.
PutSkipped(c, h) ==
  /\ op[c] = None
  /\ Exists(h)
  /\ stored' = [stored EXCEPT ![c] = @ \cup {h}]
  /\ UNCHANGED <<refFile, lockFiles, tmp, file, op, orphaned, contended>>

PutBegin(c, h) ==
  /\ op[c] = None
  /\ ~ Exists(h)
  /\ op' = [op EXCEPT ![c] = [kind |-> "put", stage |-> "create", hash |-> h, fd |-> "gone"]]
  /\ contended' = IF Writing(h) = {} THEN contended ELSE contended \cup {h}
  /\ UNCHANGED <<refFile, lockFiles, tmp, file, stored, orphaned>>

\* File::create: the temporary file is emptied, also when another client is writing it.
CreateTmp(c) ==
  /\ At(c, "create")
  /\ tmp' = [tmp EXCEPT ![op[c].hash] = "torn"]
  /\ op' = [op EXCEPT ![c].stage = "write", ![c].fd = "tmp"]
  /\ UNCHANGED <<refFile, lockFiles, file, stored, orphaned, contended>>

\* Faulty variant: the bytes are not flushed before the rename.
WrittenUnsynced == "torn"

\* write_all and sync_all, to wherever the opened file is by now.
Written == "whole"

WriteTmp(c) ==
  /\ At(c, "write")
  /\ tmp'  = IF op[c].fd = "tmp"  THEN [tmp EXCEPT ![op[c].hash] = Written] ELSE tmp
  /\ file' = IF op[c].fd = "file" THEN [file EXCEPT ![op[c].hash] = Written] ELSE file
  /\ Advance(c, "rename")
  /\ UNCHANGED <<refFile, lockFiles, stored, orphaned, contended>>

\* Whatever is under the temporary name becomes the object, for everyone who has it open.
Renamed(c, h) ==
  [d \in Clients |->
     IF d = c THEN None
     ELSE IF d \notin Writing(h) THEN op[d]
     ELSE [op[d] EXCEPT !.fd = CASE @ = "tmp" -> "file" [] @ = "file" -> "gone" [] OTHER -> @]]

RenameTmp(c) ==
  /\ At(c, "rename") /\ tmp[op[c].hash] # "none"
  /\ file' = [file EXCEPT ![op[c].hash] = tmp[op[c].hash]]
  /\ tmp' = [tmp EXCEPT ![op[c].hash] = "none"]
  /\ op' = Renamed(c, op[c].hash)
  /\ stored' = [stored EXCEPT ![c] = @ \cup {op[c].hash}]
  /\ UNCHANGED <<refFile, lockFiles, orphaned, contended>>

\* Another client has renamed the temporary file away: put_object fails.
RenameFailed(c) ==
  /\ At(c, "rename") /\ tmp[op[c].hash] = "none"
  /\ Return(c)
  /\ UNCHANGED <<refFile, lockFiles, tmp, file, stored, orphaned, contended>>

-----------------------------------------------------------------------------
(***************************************************************************)
(* cas_ref and cas_delete_ref.                                             *)
(***************************************************************************)
RefBegin(c, n, old, new) ==
  /\ op[c] = None
  /\ op' = [op EXCEPT ![c] = [kind |-> "ref", stage |-> "lock", ref |-> n, expected |-> old,
                              new |-> new, answer |-> "none", met |-> FALSE]]
  /\ UNCHANGED <<refFile, lockFiles, tmp, file, stored, orphaned, contended>>

\* Callers of cas_ref have the new hash from put_object.
CasRef(c, n, old)    == \E h \in stored[c] : RefBegin(c, n, old, h)
CasDelete(c, n, old) == RefBegin(c, n, old, None)

\* Faulty variant: an existing lock file is opened instead of refused.
LockFreeAlways(c) == TRUE

LockFree(c) == Stem(c) \notin lockFiles

\* create_new of the lock file.
TakeLock(c) ==
  /\ At(c, "lock") /\ LockFree(c)
  /\ lockFiles' = lockFiles \cup {Stem(c)}
  /\ Advance(c, "read")
  /\ UNCHANGED <<refFile, tmp, file, stored, orphaned, contended>>

\* The ref is "currently locked": the call is refused, and the caller may try again.
LockRefused(c) ==
  /\ At(c, "lock") /\ ~ LockFree(c)
  /\ Return(c)
  /\ UNCHANGED <<refFile, lockFiles, tmp, file, stored, orphaned, contended>>

\* Faulty variant: the mismatch is noted and the ref changed nevertheless.
ComparedOnly(r) ==
  IF refFile[r.ref] = r.expected
  THEN [r EXCEPT !.stage = "apply"]
  ELSE [r EXCEPT !.stage = "apply", !.answer = "mismatch"]

Compared(r) ==
  IF refFile[r.ref] = r.expected
  THEN [r EXCEPT !.stage = "apply"]
  ELSE [r EXCEPT !.stage = "unlock", !.answer = "mismatch"]

\* read_ref under the lock.
CompareRef(c) ==
  /\ At(c, "read")
  /\ op' = [op EXCEPT ![c] = Compared(@)]
  /\ UNCHANGED <<refFile, lockFiles, tmp, file, stored, orphaned, contended>>

\* The rename of the new ref over the old one (the temporary file of a ref is only seen by
\* who holds its lock), or the removal of the file.
ApplyRef(c) ==
  /\ At(c, "apply")
  /\ refFile' = [refFile EXCEPT ![op[c].ref] = op[c].new]
  /\ op' = [op EXCEPT ![c].stage = "unlock", ![c].answer = "ok"]
  /\ UNCHANGED <<lockFiles, tmp, file, stored, orphaned, contended>>

\* The file of the ref cannot be removed: the one error that does remove the lock file.
RemoveFailed(c) ==
  /\ At(c, "apply") /\ op[c].new = None
  /\ Advance(c, "unlock")
  /\ UNCHANGED <<refFile, lockFiles, tmp, file, stored, orphaned, contended>>

\* Faulty variant: a mismatch returns without removing the lock file.
UnlockedOnSuccess(c) ==
  IF op[c].answer = "ok" THEN lockFiles \ {Stem(c)} ELSE lockFiles

Unlocked(c) == lockFiles \ {Stem(c)}

Unlock(c) ==
  /\ At(c, "unlock")
  /\ lockFiles' = Unlocked(c)
  /\ Return(c)
  /\ UNCHANGED <<refFile, tmp, file, stored, orphaned, contended>>

\* delete_ref takes no lock; met marks the calls it meets half-way.
DeleteRef(c, n) ==
  /\ op[c] = None
  /\ refFile' = [refFile EXCEPT ![n] = None]
  /\ op' = [d \in Clients |->
       IF op[d] # None /\ op[d].kind = "ref" /\ op[d].ref = n
       THEN [op[d] EXCEPT !.met = TRUE] ELSE op[d]]
  /\ UNCHANGED <<lockFiles, tmp, file, stored, orphaned, contended>>

-----------------------------------------------------------------------------
Locking(c) == op[c] # None /\ op[c].kind = "ref" /\ op[c].stage # "lock"

\* The client dies, or an I/O error makes its call return: nothing is cleaned up.
Die(c) ==
  /\ op[c] # None
  /\ Return(c)
  /\ stored' = [stored EXCEPT ![c] = {}]
  /\ orphaned' = IF Locking(c) THEN orphaned \cup {Stem(c)} ELSE orphaned
  /\ UNCHANGED <<refFile, lockFiles, tmp, file, contended>>

Init ==
  /\ refFile = [n \in Refs |-> None]
  /\ lockFiles = {}
  /\ tmp = [h \in Hashes |-> "none"]
  /\ file = [h \in Hashes |-> "none"]
  /\ op = [c \in Clients |-> None]
  /\ stored = [c \in Clients |-> {}]
  /\ orphaned = {}
  /\ contended = {}

Begin(c) ==
  \/ \E h \in Hashes : PutSkipped(c, h) \/ PutBegin(c, h)
  \/ \E n \in Refs :
       \/ \E old \in Hashes \cup {None} : CasRef(c, n, old) \/ CasDelete(c, n, old)
       \/ DeleteRef(c, n)

\* The next step of a call that has begun.
Continue(c) ==
  \/ CreateTmp(c) \/ WriteTmp(c) \/ RenameTmp(c) \/ RenameFailed(c)
  \/ TakeLock(c) \/ LockRefused(c) \/ CompareRef(c) \/ ApplyRef(c)
  \/ RemoveFailed(c) \/ Unlock(c)

Next == \E c \in Clients : Begin(c) \/ Continue(c) \/ Die(c)

\* A call that has begun goes on unless its client dies.
Spec == Init /\ [][Next]_fsVars /\ \A c \in Clients : WF_fsVars(Continue(c))

-----------------------------------------------------------------------------
(***************************************************************************)
(* Properties.                                                             *)
(***************************************************************************)
TypeOK ==
  /\ refFile \in [Refs -> Hashes \cup {None}]
  /\ lockFiles \subseteq Stems
  /\ tmp \in [Hashes -> FileStates] /\ file \in [Hashes -> FileStates]
  /\ op \in [Clients -> Puts \cup RefCalls \cup {None}]
  /\ stored \in [Clients -> SUBSET Hashes]
  /\ orphaned \subseteq Stems /\ contended \subseteq Hashes

\* "Atomic writes via write-tmp + rename" (galho-storage/src/backends/local.rs) holds as
\* long as an object has one writer at a time, however many of them die half-way: the file
\* of an object is whole.  Two writers share the temporary file, and one may truncate what
\* the other is about to rename.
TornOnlyByContention ==
  \A h \in Hashes : file[h] = "torn" => h \in contended

\* A ref never dangles: what it points to has been stored, and so has everything a client
\* was told is stored, although another client may have done the writing.
RefsResolve ==
  /\ \A n \in Refs : refFile[n] # None => file[refFile[n]] # "none"
  /\ \A c \in Clients : \A h \in stored[c] : file[h] # "none"

\* A lock file stands for one call in progress at most, and one that stands for none was
\* left behind by a client that died in its call: no answer, mismatch included, and no
\* race for the lock leaves a ref locked.
LocksOwned ==
  /\ \A c, d \in Clients : c # d /\ Locking(c) /\ Locking(d) => Stem(c) # Stem(d)
  /\ lockFiles = orphaned \cup { Stem(c) : c \in { d \in Clients : Locking(d) } }

\* The backend seen as atomic refs: of a call, what has been asked and answered.
Atomic ==
  INSTANCE AtomicRefs WITH
    refs <- refFile,
    call <- [c \in Clients |->
               IF op[c] # None /\ op[c].kind = "ref"
               THEN [ref |-> op[c].ref, expected |-> op[c].expected, new |-> op[c].new,
                     answer |-> op[c].answer, met |-> op[c].met]
               ELSE None]

ASSUME NoCallAssumption == None \notin Puts \cup RefCalls \cup Atomic!Calls

\* The backend implements the atomic refs: whatever calls of the file system interleave
\* and wherever clients die, compare-and-set takes effect in one step or not at all.
ImplementsAtomicRefs == Atomic!Spec

\* A lock file goes away unless its owner has died: contention is never for ever.
LocksReleased ==
  \A s \in Stems : s \in lockFiles ~> (s \notin lockFiles \/ s \in orphaned)
=============================================================================
