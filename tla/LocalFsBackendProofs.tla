------------------------- MODULE LocalFsBackendProofs -------------------------
(***************************************************************************)
(* Proofs about LocalFsBackend, for any number of clients, refs, stems and *)
(* objects.                                                                *)
(***************************************************************************)
EXTENDS LocalFsBackend, TLAPS

InPut(c) == op[c] # None /\ op[c].kind = "put"
InRef(c) == op[c] # None /\ op[c].kind = "ref"

-----------------------------------------------------------------------------
(***************************************************************************)
(* The inductive invariant.                                                *)
(***************************************************************************)
\* No lock is taken that a dead client has left behind.
LockInv ==
  /\ LocksOwned
  /\ \A c \in Clients : Locking(c) => Stem(c) \notin orphaned

\* An object without contention has one writer, whose file is still under its temporary
\* name, and whole once it is about to be renamed.
WriteInv ==
  /\ TornOnlyByContention
  /\ \A c, d \in Clients :
       InPut(c) /\ InPut(d) /\ op[c].hash = op[d].hash /\ op[c].hash \notin contended => c = d
  /\ \A c \in Clients : InPut(c) /\ op[c].hash \notin contended =>
       /\ op[c].stage \in {"write", "rename"} => op[c].fd = "tmp"
       /\ op[c].stage = "rename" => tmp[op[c].hash] = "whole"

\* A ref is only ever pointed at an object that is there.
StoreInv ==
  /\ RefsResolve
  /\ \A c \in Clients : InRef(c) /\ op[c].new # None => file[op[c].new] # "none"

\* Between comparison and change the ref holds still, unless delete_ref has met the call.
CasInv ==
  \A c \in Clients : InRef(c) /\ op[c].stage = "apply" =>
    /\ refFile[op[c].ref] = op[c].expected \/ op[c].met
    /\ op[c].answer = "none"

FsInv == TypeOK /\ LockInv /\ WriteInv /\ StoreInv /\ CasInv

-----------------------------------------------------------------------------
(***************************************************************************)
(* Types.                                                                  *)
(***************************************************************************)
LEMMA Kinds ==
  ASSUME TypeOK, NEW c \in Clients
  PROVE  /\ InPut(c) => op[c] \in Puts
         /\ InRef(c) => op[c] \in RefCalls
         /\ op[c] # None => InPut(c) \/ InRef(c)
         /\ ~ (InPut(c) /\ InRef(c))
  BY DEF TypeOK, Puts, RefCalls, InPut, InRef

\* The stage of a call tells its kind.
LEMMA Stages ==
  ASSUME TypeOK, NEW c \in Clients, NEW stage, At(c, stage)
  PROVE  /\ stage \in {"create", "write", "rename"} => InPut(c) /\ op[c] \in Puts
         /\ stage \in {"lock", "read", "apply", "unlock"} => InRef(c) /\ op[c] \in RefCalls
  BY DEF TypeOK, Puts, RefCalls, InPut, InRef, At

LEMMA NoneIsNoRecord ==
  /\ \A r \in Puts : r # None
  /\ \A r \in RefCalls : r # None
  BY NoCallAssumption

LEMMA FsInit == Init => FsInv
  BY DEF Init, FsInv, TypeOK, LockInv, LocksOwned, WriteInv, TornOnlyByContention, StoreInv,
         RefsResolve, CasInv, InPut, InRef, Locking, FileStates

-----------------------------------------------------------------------------
(***************************************************************************)
(* What a step of one kind leaves alone of the other.                      *)
(***************************************************************************)

\* The steps of put_object and the calls of refs: nothing a ref call sees.
RefSideKept ==
  /\ UNCHANGED <<refFile, lockFiles, orphaned>>
  /\ \A c \in Clients : (InRef(c)' <=> InRef(c)) /\ (InRef(c) => op'[c] = op[c])

\* Nothing a writer sees, except that a client may have given up its write.
PutSideKept ==
  /\ UNCHANGED <<tmp, file, contended>>
  /\ \A c \in Clients : InPut(c)' => InPut(c) /\ op'[c] = op[c]

LEMMA LocksByCalls ==
  ASSUME LockInv, UNCHANGED <<lockFiles, orphaned>>,
         \A c \in Clients : Locking(c)' <=> Locking(c),
         \A c \in Clients : Locking(c) => Stem(c)' = Stem(c)
  PROVE  LockInv'
<1>1. { Stem(c) : c \in { d \in Clients : Locking(d) } }' =
      { Stem(c) : c \in { d \in Clients : Locking(d) } }
  OBVIOUS
<1>2. LocksOwned'
  BY <1>1 DEF LockInv, LocksOwned
<1> QED BY <1>2 DEF LockInv

LEMMA RefSideInv ==
  ASSUME LockInv, CasInv, RefSideKept
  PROVE  LockInv' /\ CasInv'
<1>1. \A c \in Clients : Locking(c)' <=> Locking(c)
  BY DEF RefSideKept, Locking, InRef
<1>2. \A c \in Clients : Locking(c) => Stem(c)' = Stem(c)
  BY DEF RefSideKept, Locking, InRef, Stem
<1>3. LockInv'
  BY <1>1, <1>2, LocksByCalls DEF RefSideKept
<1> QED BY <1>3 DEF RefSideKept, CasInv

LEMMA PutSideInv ==
  ASSUME WriteInv, PutSideKept
  PROVE  WriteInv'
  BY DEF WriteInv, PutSideKept, TornOnlyByContention

-----------------------------------------------------------------------------
(***************************************************************************)
(* The steps of put_object.                                                *)
(***************************************************************************)
PutStep(c) ==
  \/ \E h \in Hashes : PutSkipped(c, h) \/ PutBegin(c, h)
  \/ CreateTmp(c) \/ WriteTmp(c) \/ RenameTmp(c) \/ RenameFailed(c)

\* A write goes on as a write of the same object.
LEMMA WriteTypes ==
  ASSUME NEW r \in Puts
  PROVE  /\ [r EXCEPT !.stage = "write", !.fd = "tmp"] \in Puts
         /\ [r EXCEPT !.stage = "rename"] \in Puts
         /\ \A fd \in {"tmp", "file", "gone"} : [r EXCEPT !.fd = fd] \in Puts
  BY DEF Puts

\* What the rename of another writer does to a write in progress.
LEMMA RenamedType ==
  ASSUME TypeOK, NEW c \in Clients, NEW h \in Hashes, NEW d \in Clients
  PROVE  /\ Renamed(c, h)[d] \in Puts \cup RefCalls \cup {None}
         /\ d = c => Renamed(c, h)[d] = None
         /\ d # c /\ d \notin Writing(h) => Renamed(c, h)[d] = op[d]
         /\ d # c /\ d \in Writing(h) =>
              /\ Renamed(c, h)[d] \in Puts
              /\ Renamed(c, h)[d].hash = op[d].hash
              /\ Renamed(c, h)[d].stage = op[d].stage
<1>1. CASE d = c
  BY <1>1 DEF Renamed
<1>2. CASE d # c /\ d \notin Writing(h)
  BY <1>2 DEF Renamed, TypeOK
<1>3. CASE d # c /\ d \in Writing(h)
  <2>1. op[d] \in Puts
    BY <1>3, Kinds DEF Writing, InPut
  <2>2. PICK fd \in {"tmp", "file", "gone"} : Renamed(c, h)[d] = [op[d] EXCEPT !.fd = fd]
    <3> DEFINE fd == CASE op[d].fd = "tmp" -> "file" [] op[d].fd = "file" -> "gone"
                       [] OTHER -> op[d].fd
    <3>1. fd \in {"tmp", "file", "gone"}
      BY <2>1 DEF Puts
    <3>2. Renamed(c, h)[d] = [op[d] EXCEPT !.fd = fd]
      BY <1>3 DEF Renamed
    <3> QED BY <3>1, <3>2
  <2> QED BY <1>3, <2>1, <2>2 DEF Puts
<1> QED BY <1>1, <1>2, <1>3

LEMMA PutTypes ==
  ASSUME TypeOK, NEW c \in Clients, PutStep(c)
  PROVE  TypeOK'
<1>1. ASSUME NEW h \in Hashes, PutSkipped(c, h) PROVE TypeOK'
  BY <1>1 DEF PutSkipped, TypeOK
<1>2. ASSUME NEW h \in Hashes, PutBegin(c, h) PROVE TypeOK'
  <2>1. [kind |-> "put", stage |-> "create", hash |-> h, fd |-> "gone"] \in Puts
    BY DEF Puts
  <2> QED BY <1>2, <2>1 DEF PutBegin, TypeOK
<1>3. CASE CreateTmp(c)
  <2>1. op[c] \in Puts
    BY <1>3, Stages DEF CreateTmp
  <2>2. op[c].hash \in Hashes
    BY <2>1 DEF Puts
  <2> QED BY <1>3, <2>1, <2>2, WriteTypes DEF CreateTmp, TypeOK, FileStates
<1>4. CASE WriteTmp(c)
  <2>1. op[c] \in Puts
    BY <1>4, Stages DEF WriteTmp
  <2>2. op[c].hash \in Hashes
    BY <2>1 DEF Puts
  <2>3. tmp' \in [Hashes -> FileStates] /\ file' \in [Hashes -> FileStates]
    BY <1>4, <2>2 DEF WriteTmp, TypeOK, FileStates, Written
  <2>4. op' \in [Clients -> Puts \cup RefCalls \cup {None}]
    BY <1>4, <2>1, WriteTypes DEF WriteTmp, Advance, TypeOK
  <2> QED BY <1>4, <2>3, <2>4 DEF WriteTmp, TypeOK
<1>5. CASE RenameTmp(c)
  <2>1. op[c] \in Puts
    BY <1>5, Stages DEF RenameTmp
  <2>2. op[c].hash \in Hashes
    BY <2>1 DEF Puts
  <2>3. op' \in [Clients -> Puts \cup RefCalls \cup {None}]
    <3>1. op' = [d \in Clients |-> Renamed(c, op[c].hash)[d]]
      BY <1>5 DEF RenameTmp, Renamed
    <3> QED BY <2>2, <3>1, RenamedType
  <2> QED BY <1>5, <2>2, <2>3 DEF RenameTmp, TypeOK, FileStates
<1>6. CASE RenameFailed(c)
  BY <1>6 DEF RenameFailed, Return, TypeOK
<1> QED BY <1>1, <1>2, <1>3, <1>4, <1>5, <1>6 DEF PutStep

\* No step of put_object is seen by a call of a ref.
LEMMA PutKeepsRefSide ==
  ASSUME TypeOK, NEW c \in Clients, PutStep(c)
  PROVE  RefSideKept
<1>1. ASSUME NEW h \in Hashes, PutSkipped(c, h) PROVE RefSideKept
  BY <1>1 DEF PutSkipped, RefSideKept, InRef
<1>2. ASSUME NEW h \in Hashes, PutBegin(c, h) PROVE RefSideKept
  <2>1. \A d \in Clients \ {c} : op'[d] = op[d]
    BY <1>2 DEF PutBegin, TypeOK
  <2>2. ~ InRef(c) /\ ~ InRef(c)'
    BY <1>2 DEF PutBegin, TypeOK, InRef
  <2> QED BY <1>2, <2>1, <2>2 DEF PutBegin, RefSideKept, InRef
<1>3. CASE CreateTmp(c) \/ WriteTmp(c) \/ RenameFailed(c)
  <2>1. op[c] \in Puts /\ InPut(c)
    BY <1>3, Stages DEF CreateTmp, WriteTmp, RenameFailed
  <2>2. \A d \in Clients \ {c} : op'[d] = op[d]
    BY <1>3 DEF CreateTmp, WriteTmp, RenameFailed, Advance, Return, TypeOK
  <2>3. op'[c] = None \/ op'[c] \in Puts
    BY <1>3, <2>1, WriteTypes DEF CreateTmp, WriteTmp, RenameFailed, Advance, Return, TypeOK
  <2>4. ~ InRef(c) /\ ~ InRef(c)'
    BY <2>1, <2>3 DEF InRef, InPut, Puts
  <2> QED BY <1>3, <2>2, <2>4 DEF CreateTmp, WriteTmp, RenameFailed, RefSideKept, InRef
<1>4. CASE RenameTmp(c)
  <2>1. InPut(c) /\ op[c].hash \in Hashes
    BY <1>4, Stages DEF RenameTmp, Puts
  <2>2. \A d \in Clients : op'[d] = Renamed(c, op[c].hash)[d]
    BY <1>4 DEF RenameTmp
  <2>3. ASSUME NEW d \in Clients PROVE InRef(d)' <=> InRef(d)
    <3>1. CASE d = c
      BY <2>1, <2>2, <3>1, RenamedType DEF InRef, InPut
    <3>2. CASE d # c /\ d \notin Writing(op[c].hash)
      BY <2>1, <2>2, <3>2, RenamedType DEF InRef
    <3>3. CASE d # c /\ d \in Writing(op[c].hash)
      <4>1. op'[d] \in Puts
        BY <2>1, <2>2, <3>3, RenamedType
      <4> QED BY <3>3, <4>1 DEF InRef, Writing, Puts
    <3> QED BY <3>1, <3>2, <3>3
  <2>4. ASSUME NEW d \in Clients, InRef(d) PROVE op'[d] = op[d]
    <3>1. d # c /\ d \notin Writing(op[c].hash)
      BY <2>1, <2>4 DEF InRef, InPut, Writing
    <3> QED BY <2>1, <2>2, <3>1, RenamedType
  <2> QED BY <1>4, <2>3, <2>4 DEF RenameTmp, RefSideKept
<1> QED BY <1>1, <1>2, <1>3, <1>4 DEF PutStep

\* An object that is there stays there, and a client is told so of no other.
LEMMA PutKeepsFiles ==
  ASSUME TypeOK, NEW c \in Clients, PutStep(c)
  PROVE  /\ \A h \in Hashes : file[h] # "none" => file'[h] # "none"
         /\ \A d \in Clients : \A h \in stored'[d] : h \in stored[d] \/ file'[h] # "none"
<1>1. ASSUME NEW h \in Hashes, PutSkipped(c, h) \/ PutBegin(c, h)
      PROVE  /\ UNCHANGED file
             /\ \A d \in Clients : \A k \in stored'[d] : k \in stored[d] \/ file'[k] # "none"
  BY <1>1 DEF PutSkipped, PutBegin, Exists, TypeOK
<1>2. CASE CreateTmp(c) \/ RenameFailed(c)
  BY <1>2 DEF CreateTmp, RenameFailed
<1>3. CASE WriteTmp(c)
  BY <1>3 DEF WriteTmp, Written, TypeOK
<1>4. CASE RenameTmp(c)
  <2>1. op[c].hash \in Hashes
    BY <1>4, Stages DEF RenameTmp, Puts
  <2> QED BY <1>4, <2>1 DEF RenameTmp, TypeOK
<1> QED BY <1>1, <1>2, <1>3, <1>4 DEF PutStep

LEMMA PutKeepsStore ==
  ASSUME TypeOK, StoreInv, NEW c \in Clients, PutStep(c)
  PROVE  StoreInv'
<1>1. RefSideKept
  BY PutKeepsRefSide
<1>2. \A h \in Hashes : file[h] # "none" => file'[h] # "none"
  BY PutKeepsFiles
<1>3. \A n \in Refs : refFile'[n] # None => file'[refFile'[n]] # "none"
  BY <1>1, <1>2 DEF RefSideKept, StoreInv, RefsResolve, TypeOK
<1>4. \A d \in Clients : \A h \in stored'[d] : file'[h] # "none"
  <2> SUFFICES ASSUME NEW d \in Clients, NEW h \in stored'[d] PROVE file'[h] # "none"
    OBVIOUS
  <2>1. h \in stored[d] \/ file'[h] # "none"
    BY PutKeepsFiles
  <2>2. h \in stored[d] => h \in Hashes /\ file[h] # "none"
    BY DEF StoreInv, RefsResolve, TypeOK
  <2> QED BY <1>2, <2>1, <2>2
<1>5. ASSUME NEW d \in Clients, InRef(d)', op'[d].new # None
      PROVE  file'[op'[d].new] # "none"
  <2>1. InRef(d) /\ op'[d] = op[d]
    BY <1>1, <1>5 DEF RefSideKept
  <2>2. op[d].new \in Hashes
    BY <1>5, <2>1, Kinds DEF RefCalls
  <2> QED BY <1>2, <1>5, <2>1, <2>2 DEF StoreInv
<1> QED BY <1>3, <1>4, <1>5 DEF StoreInv, RefsResolve

\* The parts of WriteInv.
OneWriter(c, d) ==
  InPut(c) /\ InPut(d) /\ op[c].hash = op[d].hash /\ op[c].hash \notin contended => c = d
OnCourse(c) ==
  InPut(c) /\ op[c].hash \notin contended =>
    /\ op[c].stage \in {"write", "rename"} => op[c].fd = "tmp"
    /\ op[c].stage = "rename" => tmp[op[c].hash] = "whole"

\* A step of one writer, of an object h without contention: the other writers, and their
\* temporary files, are out of its reach.
LEMMA WriterAlone ==
  ASSUME TypeOK, WriteInv, NEW c \in Clients, NEW h \in Hashes,
         contended' = contended,
         \A d \in Clients \ {c} : op'[d] = op[d] \/ d \in Writing(h),
         \A d \in Clients \ {c} : InPut(d)' <=> InPut(d),
         \A d \in Clients \ {c} : InPut(d) => op'[d].hash = op[d].hash,
         InPut(c) /\ op[c].hash = h,
         InPut(c)' => op'[c].hash = h,
         \A k \in Hashes \ {h} : tmp'[k] = tmp[k] /\ file'[k] = file[k],
         OnCourse(c)',
         file'[h] = "torn" => h \in contended
  PROVE  WriteInv'
<1>1. TornOnlyByContention'
  BY DEF WriteInv, TornOnlyByContention
<1>2. ASSUME NEW d \in Clients, NEW e \in Clients PROVE OneWriter(d, e)'
  BY DEF WriteInv, OneWriter
<1>3. ASSUME NEW d \in Clients PROVE OnCourse(d)'
  <2>1. CASE d = c
    BY <2>1
  <2>2. CASE d # c /\ ~ InPut(d)
    BY <2>2 DEF OnCourse
  <2>3. CASE d # c /\ InPut(d) /\ op[d].hash = h
    BY <2>3 DEF WriteInv, OnCourse
  <2>4. CASE d # c /\ InPut(d) /\ op[d].hash # h
    <3>1. op'[d] = op[d]
      BY <2>4 DEF Writing
    <3>2. op[d].hash \in Hashes
      BY <2>4, Kinds DEF Puts
    <3> QED BY <2>4, <3>1, <3>2 DEF WriteInv, OnCourse
  <2> QED BY <2>1, <2>2, <2>3, <2>4
<1> QED BY <1>1, <1>2, <1>3 DEF WriteInv, OneWriter, OnCourse

LEMMA PutKeepsWrites ==
  ASSUME TypeOK, WriteInv, NEW c \in Clients, PutStep(c)
  PROVE  WriteInv'
<1>1. ASSUME NEW h \in Hashes, PutSkipped(c, h) PROVE WriteInv'
  BY <1>1 DEF PutSkipped, WriteInv, TornOnlyByContention, InPut
<1>2. ASSUME NEW h \in Hashes, PutBegin(c, h) PROVE WriteInv'
  <2>1. \A d \in Clients \ {c} : op'[d] = op[d]
    BY <1>2 DEF PutBegin, TypeOK
  <2>2. ~ InPut(c) /\ op'[c].hash = h /\ op'[c].stage = "create"
    BY <1>2 DEF PutBegin, TypeOK, InPut
  <2>3. contended \subseteq contended' /\ UNCHANGED <<tmp, file>>
    BY <1>2 DEF PutBegin
  <2>4. TornOnlyByContention'
    BY <2>3 DEF WriteInv, TornOnlyByContention
  <2>5. ASSUME NEW d \in Clients, NEW e \in Clients PROVE OneWriter(d, e)'
    <3>1. CASE d # c /\ e # c
      BY <2>1, <2>3, <3>1 DEF WriteInv, OneWriter, InPut
    <3>2. \A f \in Clients \ {c} : InPut(f)' /\ op'[f].hash = h => h \in contended'
      BY <1>2, <2>1 DEF PutBegin, Writing, InPut
    <3>3. CASE d = c \/ e = c
      BY <2>2, <3>2, <3>3 DEF OneWriter
    <3> QED BY <3>1, <3>3
  <2>6. ASSUME NEW d \in Clients PROVE OnCourse(d)'
    <3>1. CASE d = c
      BY <2>2, <3>1 DEF OnCourse
    <3>2. CASE d # c
      BY <2>1, <2>3, <3>2 DEF WriteInv, OnCourse, InPut
    <3> QED BY <3>1, <3>2
  <2> QED BY <2>4, <2>5, <2>6 DEF WriteInv, OneWriter, OnCourse
<1>3. CASE CreateTmp(c) \/ WriteTmp(c) \/ RenameFailed(c)
  <2>1. op[c] \in Puts /\ InPut(c) /\ op[c].hash \in Hashes
    BY <1>3, Stages DEF CreateTmp, WriteTmp, RenameFailed, Puts
  <2>2. \A d \in Clients \ {c} : op'[d] = op[d]
    BY <1>3 DEF CreateTmp, WriteTmp, RenameFailed, Advance, Return, TypeOK
  <2>3. contended' = contended
    BY <1>3 DEF CreateTmp, WriteTmp, RenameFailed
  <2>4. \A k \in Hashes \ {op[c].hash} : tmp'[k] = tmp[k] /\ file'[k] = file[k]
    BY <1>3 DEF CreateTmp, WriteTmp, RenameFailed, TypeOK
  <2>5. file'[op[c].hash] = "torn" => op[c].hash \in contended
    BY <1>3, <2>1 DEF CreateTmp, WriteTmp, RenameFailed, WriteInv, TornOnlyByContention,
                      Written, TypeOK
  <2>6. InPut(c)' => op'[c].hash = op[c].hash
    BY <1>3, <2>1 DEF CreateTmp, WriteTmp, RenameFailed, Advance, Return, TypeOK, InPut, Puts
  <2>7. OnCourse(c)'
    <3>1. CASE CreateTmp(c)
      BY <2>1, <3>1 DEF CreateTmp, OnCourse, InPut, TypeOK, Puts
    <3>2. CASE WriteTmp(c)
      <4>1. op[c].hash \notin contended => op[c].fd = "tmp"
        BY <2>1, <3>2 DEF WriteTmp, WriteInv, At
      <4>2. op'[c] = [op[c] EXCEPT !.stage = "rename"]
        BY <3>2 DEF WriteTmp, Advance, TypeOK
      <4>3. op'[c].hash = op[c].hash /\ op'[c].fd = op[c].fd
        BY <2>1, <4>2 DEF Puts
      <4>4. op[c].hash \notin contended => tmp'[op[c].hash] = "whole"
        BY <2>1, <3>2, <4>1 DEF WriteTmp, Written, TypeOK
      <4> QED BY <2>3, <4>1, <4>3, <4>4 DEF OnCourse
    <3>3. CASE RenameFailed(c)
      BY <3>3 DEF RenameFailed, Return, OnCourse, InPut, TypeOK
    <3> QED BY <1>3, <3>1, <3>2, <3>3
  <2>8. \A d \in Clients \ {c} : InPut(d)' <=> InPut(d)
    BY <2>2 DEF InPut
  <2> QED BY <2>1, <2>2, <2>3, <2>4, <2>5, <2>6, <2>7, <2>8, WriterAlone
<1>4. CASE RenameTmp(c)
  <2>1. op[c] \in Puts /\ InPut(c) /\ op[c].hash \in Hashes
    BY <1>4, Stages DEF RenameTmp, Puts
  <2>2. \A d \in Clients : op'[d] = Renamed(c, op[c].hash)[d]
    BY <1>4 DEF RenameTmp
  <2>3. op'[c] = None
    BY <2>1, <2>2, RenamedType
  <2>4. \A d \in Clients \ {c} : op'[d] = op[d] \/ d \in Writing(op[c].hash)
    BY <2>1, <2>2, RenamedType
  <2>5. ASSUME NEW d \in Clients \ {c}
        PROVE  (InPut(d)' <=> InPut(d)) /\ (InPut(d) => op'[d].hash = op[d].hash)
    <3>1. CASE d \in Writing(op[c].hash)
      <4>1. Renamed(c, op[c].hash)[d] \in Puts /\ Renamed(c, op[c].hash)[d].hash = op[d].hash
        BY <2>1, <3>1, RenamedType
      <4>2. op'[d] \in Puts /\ op'[d].hash = op[d].hash
        BY <2>2, <4>1
      <4> QED BY <3>1, <4>2, NoneIsNoRecord DEF InPut, Writing, Puts
    <3>2. CASE d \notin Writing(op[c].hash)
      BY <2>1, <2>4, <3>2 DEF InPut
    <3> QED BY <3>1, <3>2
  <2>6. contended' = contended /\ (\A k \in Hashes \ {op[c].hash} : tmp'[k] = tmp[k] /\ file'[k] = file[k])
    BY <1>4 DEF RenameTmp, TypeOK
  <2>7. file'[op[c].hash] = "torn" => op[c].hash \in contended
    BY <1>4, <2>1 DEF RenameTmp, WriteInv, At, TypeOK
  <2>8. OnCourse(c)' /\ ~ InPut(c)'
    BY <2>3 DEF OnCourse, InPut
  <2> QED BY <2>1, <2>4, <2>5, <2>6, <2>7, <2>8, WriterAlone
<1> QED BY <1>1, <1>2, <1>3, <1>4 DEF PutStep

-----------------------------------------------------------------------------
(***************************************************************************)
(* The calls of refs.                                                      *)
(***************************************************************************)
RefStart(c) ==
  \E n \in Refs : \E old \in Hashes \cup {None} : CasRef(c, n, old) \/ CasDelete(c, n, old)

RefContinue(c) ==
  \/ TakeLock(c) \/ LockRefused(c) \/ CompareRef(c) \/ ApplyRef(c)
  \/ RemoveFailed(c) \/ Unlock(c)

NewCall(n, old, new) ==
  [kind |-> "ref", stage |-> "lock", ref |-> n, expected |-> old, new |-> new,
   answer |-> "none", met |-> FALSE]

LEMMA NewCallType ==
  ASSUME NEW n \in Refs, NEW old \in Hashes \cup {None}, NEW new \in Hashes \cup {None}
  PROVE  NewCall(n, old, new) \in RefCalls
  BY DEF NewCall, RefCalls

\* A call is begun for an object that its client has stored.
LEMMA StartedCall ==
  ASSUME TypeOK, NEW c \in Clients, RefStart(c)
  PROVE  \E n \in Refs, old \in Hashes \cup {None}, new \in stored[c] \cup {None} :
           RefBegin(c, n, old, new)
  BY DEF RefStart, CasRef, CasDelete

LEMMA BegunCall ==
  ASSUME TypeOK, NEW c \in Clients, NEW n \in Refs, NEW old \in Hashes \cup {None},
         NEW new \in Hashes \cup {None}, RefBegin(c, n, old, new)
  PROVE  /\ op[c] = None /\ op'[c] = NewCall(n, old, new)
         /\ \A d \in Clients \ {c} : op'[d] = op[d]
         /\ UNCHANGED <<refFile, lockFiles, tmp, file, stored, orphaned, contended>>
  BY DEF RefBegin, NewCall, TypeOK

\* A call goes from stage to stage with its arguments; it takes an answer once.
LEMMA CallStep ==
  ASSUME TypeOK, NEW c \in Clients, RefContinue(c)
  PROVE  /\ InRef(c) /\ op[c] \in RefCalls
         /\ \A d \in Clients \ {c} : op'[d] = op[d]
         /\ op'[c] # None =>
              /\ op'[c] \in RefCalls
              /\ op'[c].ref = op[c].ref /\ op'[c].expected = op[c].expected
              /\ op'[c].new = op[c].new /\ op'[c].met = op[c].met
         /\ UNCHANGED <<tmp, file, stored, orphaned, contended>>
<1>1. InRef(c) /\ op[c] \in RefCalls
  BY Stages DEF RefContinue, TakeLock, LockRefused, CompareRef, ApplyRef, RemoveFailed, Unlock
<1>2. CASE LockRefused(c) \/ Unlock(c)
  BY <1>1, <1>2 DEF LockRefused, Unlock, Return, TypeOK
<1>3. CASE TakeLock(c)
  <2>1. op'[c] = [op[c] EXCEPT !.stage = "read"]
    BY <1>3 DEF TakeLock, Advance, TypeOK
  <2> QED BY <1>1, <1>3, <2>1 DEF TakeLock, Advance, TypeOK, RefCalls, At
<1>4. CASE CompareRef(c)
  <2>1. op'[c] = Compared(op[c])
    BY <1>4 DEF CompareRef, TypeOK
  <2>2. \/ op'[c] = [op[c] EXCEPT !.stage = "apply"]
        \/ op'[c] = [op[c] EXCEPT !.stage = "unlock", !.answer = "mismatch"]
    BY <2>1 DEF Compared
  <2> QED BY <1>1, <1>4, <2>2 DEF CompareRef, TypeOK, RefCalls, At
<1>5. CASE ApplyRef(c)
  <2>1. op'[c] = [op[c] EXCEPT !.stage = "unlock", !.answer = "ok"]
    BY <1>5 DEF ApplyRef, TypeOK
  <2> QED BY <1>1, <1>5, <2>1 DEF ApplyRef, TypeOK, RefCalls
<1>6. CASE RemoveFailed(c)
  <2>1. op'[c] = [op[c] EXCEPT !.stage = "unlock"]
    BY <1>6 DEF RemoveFailed, Advance, TypeOK
  <2> QED BY <1>1, <1>6, <2>1 DEF RemoveFailed, Advance, TypeOK, RefCalls
<1> QED BY <1>1, <1>2, <1>3, <1>4, <1>5, <1>6 DEF RefContinue

\* The answer and the stage a call has after each of its steps but the last.
LEMMA CallStages ==
  ASSUME TypeOK, NEW c \in Clients
  PROVE  /\ TakeLock(c) => op'[c] \in RefCalls /\ op'[c].stage = "read"
                           /\ op'[c].answer = op[c].answer
         /\ CompareRef(c) =>
              /\ op'[c] \in RefCalls
              /\ \/ /\ refFile[op[c].ref] = op[c].expected
                    /\ op'[c].stage = "apply" /\ op'[c].answer = op[c].answer
                 \/ /\ refFile[op[c].ref] # op[c].expected
                    /\ op'[c].stage = "unlock" /\ op'[c].answer = "mismatch"
         /\ ApplyRef(c) => op'[c] \in RefCalls /\ op'[c].stage = "unlock"
                           /\ op'[c].answer = "ok"
         /\ RemoveFailed(c) => op'[c] \in RefCalls /\ op'[c].stage = "unlock"
                               /\ op'[c].answer = op[c].answer
<1>1. ASSUME TakeLock(c)
      PROVE  op'[c] \in RefCalls /\ op'[c].stage = "read" /\ op'[c].answer = op[c].answer
  <2>1. op[c] \in RefCalls /\ op[c].stage = "lock"
    BY <1>1, Stages DEF TakeLock, At
  <2>2. op'[c] = [op[c] EXCEPT !.stage = "read"]
    BY <1>1 DEF TakeLock, Advance, TypeOK
  <2> QED BY <2>1, <2>2 DEF RefCalls
<1>2. ASSUME CompareRef(c)
      PROVE  /\ op'[c] \in RefCalls
             /\ \/ /\ refFile[op[c].ref] = op[c].expected
                   /\ op'[c].stage = "apply" /\ op'[c].answer = op[c].answer
                \/ /\ refFile[op[c].ref] # op[c].expected
                   /\ op'[c].stage = "unlock" /\ op'[c].answer = "mismatch"
  <2>1. op[c] \in RefCalls /\ op[c].stage = "read"
    BY <1>2, Stages DEF CompareRef, At
  <2>2. op'[c] = Compared(op[c])
    BY <1>2 DEF CompareRef, TypeOK
  <2>3. CASE refFile[op[c].ref] = op[c].expected
    <3>1. op'[c] = [op[c] EXCEPT !.stage = "apply"]
      BY <2>2, <2>3 DEF Compared
    <3> QED BY <2>1, <2>3, <3>1 DEF RefCalls
  <2>4. CASE refFile[op[c].ref] # op[c].expected
    <3>1. op'[c] = [op[c] EXCEPT !.stage = "unlock", !.answer = "mismatch"]
      BY <2>2, <2>4 DEF Compared
    <3> QED BY <2>1, <2>4, <3>1 DEF RefCalls
  <2> QED BY <2>3, <2>4
<1>3. ASSUME ApplyRef(c)
      PROVE  op'[c] \in RefCalls /\ op'[c].stage = "unlock" /\ op'[c].answer = "ok"
  <2>1. op[c] \in RefCalls
    BY <1>3, Stages DEF ApplyRef
  <2>2. op'[c] = [op[c] EXCEPT !.stage = "unlock", !.answer = "ok"]
    BY <1>3 DEF ApplyRef, TypeOK
  <2> QED BY <2>1, <2>2 DEF RefCalls
<1>4. ASSUME RemoveFailed(c)
      PROVE  op'[c] \in RefCalls /\ op'[c].stage = "unlock" /\ op'[c].answer = op[c].answer
  <2>1. op[c] \in RefCalls
    BY <1>4, Stages DEF RemoveFailed
  <2>2. op'[c] = [op[c] EXCEPT !.stage = "unlock"]
    BY <1>4 DEF RemoveFailed, Advance, TypeOK
  <2> QED BY <2>1, <2>2 DEF RefCalls
<1> QED BY <1>1, <1>2, <1>3, <1>4

LEMMA RefTypes ==
  ASSUME TypeOK, NEW c \in Clients
  PROVE  /\ RefStart(c) => TypeOK'
         /\ RefContinue(c) => TypeOK'
         /\ \A n \in Refs : DeleteRef(c, n) => TypeOK'
<1>1. ASSUME RefStart(c) PROVE TypeOK'
  <2>1. PICK n \in Refs, old \in Hashes \cup {None}, new \in stored[c] \cup {None} :
          RefBegin(c, n, old, new)
    BY <1>1, StartedCall
  <2>2. new \in Hashes \cup {None}
    BY DEF TypeOK
  <2>3. NewCall(n, old, new) \in RefCalls
    BY <2>2, NewCallType
  <2> QED BY <2>1, <2>3 DEF RefBegin, NewCall, TypeOK
<1>2. ASSUME RefContinue(c) PROVE TypeOK'
  <2>1. op[c] \in RefCalls /\ op[c].ref \in Refs /\ op[c].new \in Hashes \cup {None}
    BY <1>2, CallStep DEF RefCalls
  <2>2. Stem(c) \in Stems
    BY <2>1, StemAssumption DEF Stem
  <2>3. op' \in [Clients -> Puts \cup RefCalls \cup {None}]
    <3>1. \E v : op' = [op EXCEPT ![c] = v]
      BY <1>2 DEF RefContinue, TakeLock, LockRefused, CompareRef, ApplyRef, RemoveFailed,
                  Unlock, Advance, Return
    <3>2. op'[c] \in RefCalls \cup {None}
      BY <1>2, CallStep
    <3> QED BY <3>1, <3>2 DEF TypeOK
  <2>4. refFile' \in [Refs -> Hashes \cup {None}]
    BY <1>2, <2>1 DEF RefContinue, TakeLock, LockRefused, CompareRef, ApplyRef, RemoveFailed,
                     Unlock, TypeOK
  <2>5. lockFiles' \subseteq Stems
    BY <1>2, <2>2 DEF RefContinue, TakeLock, LockRefused, CompareRef, ApplyRef, RemoveFailed,
                     Unlock, Unlocked, TypeOK
  <2> QED BY <1>2, <2>3, <2>4, <2>5, CallStep DEF TypeOK
<1>3. ASSUME NEW n \in Refs, DeleteRef(c, n) PROVE TypeOK'
  <2>1. ASSUME NEW d \in Clients PROVE op'[d] \in Puts \cup RefCalls \cup {None}
    <3>1. CASE InRef(d)
      <4>1. op[d] \in RefCalls
        BY <3>1, Kinds
      <4>2. [op[d] EXCEPT !.met = TRUE] \in RefCalls
        BY <4>1 DEF RefCalls
      <4> QED BY <1>3, <4>1, <4>2 DEF DeleteRef
    <3>2. CASE ~ InRef(d)
      BY <1>3, <3>2 DEF DeleteRef, InRef, TypeOK
    <3> QED BY <3>1, <3>2
  <2>2. op' \in [Clients -> Puts \cup RefCalls \cup {None}]
    BY <1>3, <2>1 DEF DeleteRef
  <2> QED BY <1>3, <2>2 DEF DeleteRef, TypeOK
<1> QED BY <1>1, <1>2, <1>3

\* delete_ref marks calls and changes nothing else of them.
LEMMA Marked ==
  ASSUME TypeOK, NEW c \in Clients, NEW n \in Refs, DeleteRef(c, n), NEW d \in Clients
  PROVE  /\ InRef(d)' <=> InRef(d)
         /\ ~ InRef(d) => op'[d] = op[d]
         /\ InRef(d) =>
              /\ op'[d].stage = op[d].stage /\ op'[d].ref = op[d].ref
              /\ op'[d].expected = op[d].expected /\ op'[d].new = op[d].new
              /\ op'[d].answer = op[d].answer
              /\ op'[d].met = (op[d].met \/ op[d].ref = n)
<1>1. CASE InRef(d)
  <2>1. op[d] \in RefCalls
    BY <1>1, Kinds
  <2>2. op'[d] = IF op[d].ref = n THEN [op[d] EXCEPT !.met = TRUE] ELSE op[d]
    BY <1>1 DEF DeleteRef, InRef
  <2>3. op'[d] \in RefCalls
    BY <2>1, <2>2 DEF RefCalls
  <2>4. InRef(d)'
    BY <2>3, NoneIsNoRecord DEF InRef, RefCalls
  <2> QED BY <1>1, <2>1, <2>2, <2>4 DEF RefCalls
<1>2. CASE ~ InRef(d)
  BY <1>2 DEF DeleteRef, InRef
<1> QED BY <1>1, <1>2

\* The others keep what they hold.
OthersKept(c) ==
  /\ \A d \in Clients \ {c} : Locking(d)' <=> Locking(d)
  /\ \A d \in Clients \ {c} : Locking(d) => Stem(d)' = Stem(d)

LEMMA OthersLocks ==
  ASSUME NEW c \in Clients, \A d \in Clients \ {c} : op'[d] = op[d]
  PROVE  OthersKept(c)
  BY DEF OthersKept, Locking, Stem

LEMMA LockTaken ==
  ASSUME LockInv, NEW c \in Clients, OthersKept(c), UNCHANGED orphaned,
         ~ Locking(c), Locking(c)', Stem(c)' = Stem(c),
         Stem(c) \notin lockFiles, lockFiles' = lockFiles \cup {Stem(c)}
  PROVE  LockInv'
<1>1. \A d \in Clients \ {c} : Locking(d)' => Stem(d)' \in lockFiles /\ Stem(d)' # Stem(c)
  BY DEF LockInv, LocksOwned, OthersKept
<1>2. \A d, e \in Clients : d # e /\ Locking(d)' /\ Locking(e)' => Stem(d)' # Stem(e)'
  <2> SUFFICES ASSUME NEW d \in Clients, NEW e \in Clients, d # e, Locking(d)', Locking(e)'
               PROVE  Stem(d)' # Stem(e)'
    OBVIOUS
  <2>1. CASE d = c \/ e = c
    BY <1>1, <2>1
  <2>2. CASE d # c /\ e # c
    BY <2>2 DEF LockInv, LocksOwned, OthersKept
  <2> QED BY <2>1, <2>2
<1>3. ASSUME NEW s
      PROVE  s \in lockFiles' <=>
               s \in orphaned' \/ \E d \in Clients : Locking(d)' /\ Stem(d)' = s
  <2>1. s \in lockFiles <=> s \in orphaned \/ \E d \in Clients : Locking(d) /\ Stem(d) = s
    BY DEF LockInv, LocksOwned
  <2>2. (\E d \in Clients : Locking(d)' /\ Stem(d)' = s) <=>
          s = Stem(c) \/ \E d \in Clients : Locking(d) /\ Stem(d) = s
    BY DEF OthersKept
  <2> QED BY <2>1, <2>2
<1>4. (lockFiles = orphaned \cup { Stem(d) : d \in { e \in Clients : Locking(e) } })'
  BY <1>3
<1>5. \A d \in Clients : Locking(d)' => Stem(d)' \notin orphaned'
  BY <1>1 DEF LockInv, LocksOwned, OthersKept
<1> QED BY <1>2, <1>4, <1>5 DEF LockInv, LocksOwned

\* The lock of a call that ends is removed, or left behind for ever.
LEMMA LockLeft ==
  ASSUME LockInv, NEW c \in Clients, OthersKept(c), Locking(c), ~ Locking(c)',
         \/ lockFiles' = lockFiles \ {Stem(c)} /\ orphaned' = orphaned
         \/ lockFiles' = lockFiles /\ orphaned' = orphaned \cup {Stem(c)}
  PROVE  LockInv'
<1>1. \A d \in Clients \ {c} : Locking(d)' => Locking(d) /\ Stem(d)' = Stem(d) /\ Stem(d) # Stem(c)
  BY DEF LockInv, LocksOwned, OthersKept
<1>2. \A d, e \in Clients : d # e /\ Locking(d)' /\ Locking(e)' => Stem(d)' # Stem(e)'
  BY <1>1 DEF LockInv, LocksOwned
<1>3. ASSUME NEW s
      PROVE  s \in lockFiles' <=>
               s \in orphaned' \/ \E d \in Clients : Locking(d)' /\ Stem(d)' = s
  <2>1. s \in lockFiles <=> s \in orphaned \/ \E d \in Clients : Locking(d) /\ Stem(d) = s
    BY DEF LockInv, LocksOwned
  <2>2. (\E d \in Clients : Locking(d) /\ Stem(d) = s) <=>
          s = Stem(c) \/ \E d \in Clients : Locking(d)' /\ Stem(d)' = s
    BY DEF OthersKept
  <2>3. ~ \E d \in Clients : Locking(d)' /\ Stem(d)' = Stem(c)
    BY <1>1
  <2>4. Stem(c) \notin orphaned
    BY DEF LockInv
  <2> QED BY <2>1, <2>2, <2>3, <2>4
<1>4. (lockFiles = orphaned \cup { Stem(d) : d \in { e \in Clients : Locking(e) } })'
  BY <1>3
<1>5. \A d \in Clients : Locking(d)' => Stem(d)' \notin orphaned'
  BY <1>1 DEF LockInv
<1> QED BY <1>2, <1>4, <1>5 DEF LockInv, LocksOwned

LEMMA LockSame ==
  ASSUME LockInv, UNCHANGED <<lockFiles, orphaned>>, NEW c \in Clients, OthersKept(c),
         Locking(c)' <=> Locking(c), Locking(c) => Stem(c)' = Stem(c)
  PROVE  LockInv'
<1>1. \A d \in Clients : Locking(d)' <=> Locking(d)
  BY DEF OthersKept
<1>2. \A d \in Clients : Locking(d) => Stem(d)' = Stem(d)
  BY DEF OthersKept
<1> QED BY <1>1, <1>2, LocksByCalls

LEMMA RefKeepsLocks ==
  ASSUME TypeOK, LockInv, NEW c \in Clients
  PROVE  /\ RefStart(c) => LockInv'
         /\ RefContinue(c) => LockInv'
         /\ \A n \in Refs : DeleteRef(c, n) => LockInv'
<1>1. ASSUME RefStart(c) PROVE LockInv'
  <2>1. PICK n \in Refs, old \in Hashes \cup {None}, new \in Hashes \cup {None} :
          RefBegin(c, n, old, new)
    BY <1>1, StartedCall DEF TypeOK
  <2>2. /\ op[c] = None /\ op'[c] = NewCall(n, old, new)
        /\ \A d \in Clients \ {c} : op'[d] = op[d]
        /\ UNCHANGED <<lockFiles, orphaned>>
    BY <2>1, BegunCall
  <2>3. ~ Locking(c) /\ ~ Locking(c)'
    BY <2>2 DEF Locking, NewCall
  <2> QED BY <2>2, <2>3, OthersLocks, LockSame
<1>2. ASSUME RefContinue(c) PROVE LockInv'
  <2>1. /\ InRef(c) /\ op[c] \in RefCalls
        /\ \A d \in Clients \ {c} : op'[d] = op[d]
        /\ UNCHANGED orphaned
    BY <1>2, CallStep
  <2>2. OthersKept(c)
    BY <2>1, OthersLocks
  <2>3. CASE TakeLock(c)
    <3>1. op'[c] \in RefCalls /\ op'[c].stage = "read"
      BY <2>3, CallStages
    <3>2. op'[c] # None /\ op'[c].kind = "ref" /\ op'[c].ref = op[c].ref
      BY <1>2, <3>1, CallStep, NoneIsNoRecord DEF RefCalls
    <3>3. ~ Locking(c) /\ Locking(c)' /\ Stem(c)' = Stem(c)
      BY <2>3, <3>1, <3>2 DEF TakeLock, At, Locking, Stem
    <3> QED BY <2>1, <2>2, <2>3, <3>3, LockTaken DEF TakeLock, LockFree
  <2>4. CASE LockRefused(c)
    <3>1. ~ Locking(c) /\ ~ Locking(c)'
      BY <2>4 DEF LockRefused, At, Return, Locking, TypeOK
    <3> QED BY <2>1, <2>2, <2>4, <3>1, LockSame DEF LockRefused
  <2>5. CASE CompareRef(c) \/ ApplyRef(c) \/ RemoveFailed(c)
    <3>1. op'[c] \in RefCalls /\ op'[c].stage # "lock"
      BY <2>5, CallStages
    <3>2. op'[c] # None /\ op'[c].kind = "ref" /\ op'[c].ref = op[c].ref
      BY <1>2, <3>1, CallStep, NoneIsNoRecord DEF RefCalls
    <3>3. Locking(c) /\ Locking(c)' /\ Stem(c)' = Stem(c)
      BY <2>1, <2>5, <3>1, <3>2 DEF CompareRef, ApplyRef, RemoveFailed, At, InRef, Locking, Stem
    <3> QED BY <2>1, <2>2, <2>5, <3>3, LockSame DEF CompareRef, ApplyRef, RemoveFailed
  <2>6. CASE Unlock(c)
    <3>1. Locking(c) /\ ~ Locking(c)'
      BY <2>1, <2>6 DEF Unlock, At, InRef, Return, Locking, TypeOK
    <3> QED BY <2>1, <2>2, <2>6, <3>1, LockLeft DEF Unlock, Unlocked
  <2> QED BY <1>2, <2>3, <2>4, <2>5, <2>6 DEF RefContinue
<1>3. ASSUME NEW n \in Refs, DeleteRef(c, n) PROVE LockInv'
  <2>1. \A d \in Clients : Locking(d)' <=> Locking(d)
    BY <1>3, Marked DEF Locking, InRef
  <2>2. \A d \in Clients : Locking(d) => Stem(d)' = Stem(d)
    BY <1>3, Marked DEF Locking, InRef, Stem
  <2> QED BY <1>3, <2>1, <2>2, LocksByCalls DEF DeleteRef
<1> QED BY <1>1, <1>2, <1>3

\* No step of a call of a ref is seen by a writer.
LEMMA RefKeepsPutSide ==
  ASSUME TypeOK, NEW c \in Clients
  PROVE  /\ RefStart(c) => PutSideKept
         /\ RefContinue(c) => PutSideKept
         /\ \A n \in Refs : DeleteRef(c, n) => PutSideKept
<1>1. ASSUME RefStart(c) PROVE PutSideKept
  <2>1. PICK n \in Refs, old \in Hashes \cup {None}, new \in Hashes \cup {None} :
          RefBegin(c, n, old, new)
    BY <1>1, StartedCall DEF TypeOK
  <2>2. /\ op'[c] = NewCall(n, old, new)
        /\ \A d \in Clients \ {c} : op'[d] = op[d]
        /\ UNCHANGED <<tmp, file, contended>>
    BY <2>1, BegunCall
  <2>3. ~ InPut(c)'
    BY <2>2 DEF InPut, NewCall
  <2> QED BY <2>2, <2>3 DEF PutSideKept, InPut
<1>2. ASSUME RefContinue(c) PROVE PutSideKept
  <2>1. ~ InPut(c)'
    <3>1. op'[c] # None => op'[c] \in RefCalls
      BY <1>2, CallStep
    <3> QED BY <3>1 DEF InPut, RefCalls
  <2>2. /\ \A d \in Clients \ {c} : op'[d] = op[d]
        /\ UNCHANGED <<tmp, file, contended>>
    BY <1>2, CallStep
  <2> QED BY <2>1, <2>2 DEF PutSideKept, InPut
<1>3. ASSUME NEW n \in Refs, DeleteRef(c, n) PROVE PutSideKept
  <2>1. ASSUME NEW d \in Clients, InPut(d)' PROVE InPut(d) /\ op'[d] = op[d]
    <3>1. CASE InRef(d)
      BY <1>3, <2>1, <3>1, Marked DEF InRef, InPut
    <3>2. CASE ~ InRef(d)
      BY <1>3, <2>1, <3>2, Marked DEF InPut
    <3> QED BY <3>1, <3>2
  <2> QED BY <1>3, <2>1 DEF DeleteRef, PutSideKept
<1> QED BY <1>1, <1>2, <1>3

\* A ref is changed by no one else while its lock is held, except by delete_ref.
LEMMA RefKeepsCas ==
  ASSUME TypeOK, LockInv, CasInv, NEW c \in Clients
  PROVE  /\ RefStart(c) => CasInv'
         /\ RefContinue(c) => CasInv'
         /\ \A n \in Refs : DeleteRef(c, n) => CasInv'
<1>1. ASSUME RefStart(c) PROVE CasInv'
  <2>1. PICK n \in Refs, old \in Hashes \cup {None}, new \in Hashes \cup {None} :
          RefBegin(c, n, old, new)
    BY <1>1, StartedCall DEF TypeOK
  <2>2. /\ op'[c] = NewCall(n, old, new)
        /\ \A d \in Clients \ {c} : op'[d] = op[d]
        /\ UNCHANGED refFile
    BY <2>1, BegunCall
  <2>3. op'[c].stage = "lock"
    BY <2>2 DEF NewCall
  <2> QED BY <2>2, <2>3 DEF CasInv, InRef
<1>2. ASSUME RefContinue(c) PROVE CasInv'
  <2>1. /\ InRef(c) /\ op[c] \in RefCalls
        /\ \A d \in Clients \ {c} : op'[d] = op[d]
        /\ op'[c] # None => op'[c].ref = op[c].ref /\ op'[c].expected = op[c].expected
    BY <1>2, CallStep
  <2>2. ASSUME NEW d \in Clients, InRef(d)', op'[d].stage = "apply"
        PROVE  /\ refFile'[op'[d].ref] = op'[d].expected \/ op'[d].met
               /\ op'[d].answer = "none"
    <3>1. CASE TakeLock(c) \/ RemoveFailed(c) \/ LockRefused(c) \/ Unlock(c)
      <4>1. d # c
        BY <2>2, <3>1, CallStages
           DEF LockRefused, Unlock, Return, TypeOK, InRef
      <4> QED BY <2>1, <2>2, <3>1, <4>1
              DEF CasInv, InRef, TakeLock, RemoveFailed, LockRefused, Unlock
    <3>2. CASE CompareRef(c)
      <4>1. UNCHANGED refFile /\ op[c].stage = "read"
        BY <3>2 DEF CompareRef, At
      <4>2. CASE d = c
        <5>1. refFile[op[c].ref] = op[c].expected /\ op'[c].answer = op[c].answer
          BY <2>2, <3>2, <4>2, CallStages
        <5>2. op[c].answer = "none"
          BY <2>1, <4>1 DEF RefCalls
        <5> QED BY <2>1, <2>2, <4>1, <4>2, <5>1, <5>2 DEF InRef
      <4>3. CASE d # c
        BY <2>1, <2>2, <4>1, <4>3 DEF CasInv, InRef
      <4> QED BY <4>2, <4>3
    <3>3. CASE ApplyRef(c)
      <4>1. d # c
        BY <2>2, <3>3, CallStages
      <4>2. op'[d] = op[d] /\ InRef(d)
        BY <2>1, <2>2, <4>1 DEF InRef
      <4>3. Locking(c) /\ Locking(d)
        BY <2>1, <2>2, <3>3, <4>2 DEF ApplyRef, At, Locking, InRef
      <4>4. op[d].ref # op[c].ref
        BY <4>1, <4>3 DEF LockInv, LocksOwned, Stem
      <4>5. refFile'[op[d].ref] = refFile[op[d].ref]
        BY <3>3, <4>2, <4>4, Kinds DEF ApplyRef, TypeOK, RefCalls
      <4> QED BY <2>2, <4>2, <4>5 DEF CasInv
    <3> QED BY <1>2, <3>1, <3>2, <3>3 DEF RefContinue
  <2> QED BY <2>2 DEF CasInv
<1>3. ASSUME NEW n \in Refs, DeleteRef(c, n) PROVE CasInv'
  <2>1. ASSUME NEW d \in Clients, InRef(d)', op'[d].stage = "apply"
        PROVE  /\ refFile'[op'[d].ref] = op'[d].expected \/ op'[d].met
               /\ op'[d].answer = "none"
    <3>1. /\ InRef(d) /\ op[d].stage = "apply"
          /\ op'[d].ref = op[d].ref /\ op'[d].expected = op[d].expected
          /\ op'[d].answer = op[d].answer
          /\ op'[d].met = (op[d].met \/ op[d].ref = n)
      BY <1>3, <2>1, Marked
    <3>2. op[d].ref # n => refFile'[op[d].ref] = refFile[op[d].ref]
      BY <1>3, <3>1, Kinds DEF DeleteRef, TypeOK, RefCalls
    <3> QED BY <3>1, <3>2 DEF CasInv
  <2> QED BY <2>1 DEF CasInv
<1> QED BY <1>1, <1>2, <1>3

LEMMA RefKeepsStore ==
  ASSUME TypeOK, StoreInv, NEW c \in Clients
  PROVE  /\ RefStart(c) => StoreInv'
         /\ RefContinue(c) => StoreInv'
         /\ \A n \in Refs : DeleteRef(c, n) => StoreInv'
<1>1. ASSUME RefStart(c) PROVE StoreInv'
  <2>1. PICK n \in Refs, old \in Hashes \cup {None}, new \in stored[c] \cup {None} :
          RefBegin(c, n, old, new)
    BY <1>1, StartedCall
  <2>2. new \in Hashes \cup {None}
    BY DEF TypeOK
  <2>3. /\ op'[c] = NewCall(n, old, new)
        /\ \A d \in Clients \ {c} : op'[d] = op[d]
        /\ UNCHANGED <<refFile, file, stored>>
    BY <2>1, <2>2, BegunCall
  <2>4. op'[c].new = new
    BY <2>3 DEF NewCall
  <2>5. new # None => file[new] # "none"
    BY DEF StoreInv, RefsResolve
  <2> QED BY <2>3, <2>4, <2>5 DEF StoreInv, RefsResolve, InRef
<1>2. ASSUME RefContinue(c) PROVE StoreInv'
  <2>1. /\ InRef(c) /\ op[c] \in RefCalls
        /\ \A d \in Clients \ {c} : op'[d] = op[d]
        /\ op'[c] # None => op'[c].new = op[c].new
        /\ UNCHANGED <<file, stored>>
    BY <1>2, CallStep
  <2>2. \A d \in Clients : InRef(d)' /\ op'[d].new # None => file'[op'[d].new] # "none"
    BY <2>1 DEF StoreInv, InRef
  <2>3. \A n \in Refs : refFile'[n] = refFile[n] \/ refFile'[n] = op[c].new
    BY <1>2 DEF RefContinue, TakeLock, LockRefused, CompareRef, ApplyRef, RemoveFailed, Unlock,
               TypeOK
  <2>4. op[c].new # None => file[op[c].new] # "none"
    BY <2>1 DEF StoreInv
  <2> QED BY <2>1, <2>2, <2>3, <2>4 DEF StoreInv, RefsResolve
<1>3. ASSUME NEW n \in Refs, DeleteRef(c, n) PROVE StoreInv'
  <2>1. \A d \in Clients : InRef(d)' => InRef(d) /\ op'[d].new = op[d].new
    BY <1>3, Marked
  <2>2. \A m \in Refs : refFile'[m] # None => refFile'[m] = refFile[m]
    BY <1>3 DEF DeleteRef, TypeOK
  <2> QED BY <1>3, <2>1, <2>2 DEF DeleteRef, StoreInv, RefsResolve
<1> QED BY <1>1, <1>2, <1>3

-----------------------------------------------------------------------------
(***************************************************************************)
(* The death of a client.                                                  *)
(***************************************************************************)
LEMMA DieKeeps ==
  ASSUME FsInv, NEW c \in Clients, Die(c)
  PROVE  FsInv'
<1> USE DEF FsInv
<1>1. /\ op[c] # None /\ op'[c] = None
      /\ \A d \in Clients \ {c} : op'[d] = op[d]
      /\ UNCHANGED <<refFile, lockFiles, tmp, file, contended>>
  BY DEF Die, Return, TypeOK
<1>2. TypeOK'
  <2>1. Locking(c) => Stem(c) \in Stems
    BY Kinds, StemAssumption DEF Locking, InRef, RefCalls, Stem
  <2> QED BY <2>1 DEF Die, Return, TypeOK
<1>3. LockInv'
  <2>1. OthersKept(c) /\ ~ Locking(c)'
    BY <1>1, OthersLocks DEF Locking
  <2>2. CASE Locking(c)
    BY <1>1, <2>1, <2>2, LockLeft DEF Die
  <2>3. CASE ~ Locking(c)
    BY <1>1, <2>1, <2>3, LockSame DEF Die
  <2> QED BY <2>2, <2>3
<1>4. PutSideKept
  BY <1>1 DEF PutSideKept, InPut
<1>5. WriteInv'
  BY <1>4, PutSideInv
<1>6. \A d \in Clients : stored'[d] \subseteq stored[d]
  BY DEF Die, TypeOK
<1>7. StoreInv'
  BY <1>1, <1>6 DEF StoreInv, RefsResolve, InRef
<1>8. CasInv'
  BY <1>1 DEF CasInv, InRef
<1> QED BY <1>2, <1>3, <1>5, <1>7, <1>8

-----------------------------------------------------------------------------
LEMMA FsNext == FsInv /\ [Next]_fsVars => FsInv'
<1> SUFFICES ASSUME FsInv, [Next]_fsVars PROVE FsInv'
  OBVIOUS
<1> USE DEF FsInv
<1>1. ASSUME NEW c \in Clients, PutStep(c) PROVE FsInv'
  BY <1>1, PutTypes, PutKeepsRefSide, RefSideInv, PutKeepsWrites, PutKeepsStore
<1>2. ASSUME NEW c \in Clients,
             RefStart(c) \/ RefContinue(c) \/ \E n \in Refs : DeleteRef(c, n)
      PROVE  FsInv'
  <2>1. TypeOK' /\ LockInv' /\ CasInv' /\ StoreInv' /\ PutSideKept
    BY <1>2, RefTypes, RefKeepsLocks, RefKeepsCas, RefKeepsStore, RefKeepsPutSide
  <2> QED BY <2>1, PutSideInv
<1>3. ASSUME NEW c \in Clients, Die(c) PROVE FsInv'
  BY <1>3, DieKeeps
<1>4. CASE UNCHANGED fsVars
  BY <1>4 DEF fsVars, TypeOK, LockInv, LocksOwned, Locking, Stem, WriteInv,
             TornOnlyByContention, StoreInv, RefsResolve, CasInv, InPut, InRef
<1>5. ASSUME NEW c \in Clients, Begin(c) \/ Continue(c) \/ Die(c) PROVE FsInv'
  <2>1. Begin(c) => PutStep(c) \/ RefStart(c) \/ \E n \in Refs : DeleteRef(c, n)
    BY DEF Begin, PutStep, RefStart
  <2>2. Continue(c) => PutStep(c) \/ RefContinue(c)
    BY DEF Continue, PutStep, RefContinue
  <2> QED BY <1>1, <1>2, <1>3, <1>5, <2>1, <2>2
<1> QED BY <1>4, <1>5 DEF Next

LEMMA FsCorrect == Spec => []FsInv
<1>1. Init => FsInv
  BY FsInit
<1>2. FsInv /\ [Next]_fsVars => FsInv'
  BY FsNext
<1> QED BY <1>1, <1>2, PTL DEF Spec

-----------------------------------------------------------------------------
(***************************************************************************)
(* The backend implements AtomicRefs.                                      *)
(***************************************************************************)

\* What the mapping keeps of a call of a ref, and of all calls.
View(r) == [ref |-> r.ref, expected |-> r.expected, new |-> r.new,
            answer |-> r.answer, met |-> r.met]

Call == [c \in Clients |-> IF op[c] # None /\ op[c].kind = "ref"
                           THEN [ref |-> op[c].ref, expected |-> op[c].expected,
                                 new |-> op[c].new, answer |-> op[c].answer,
                                 met |-> op[c].met]
                           ELSE None]

LEMMA CallOf ==
  ASSUME NEW c \in Clients
  PROVE  Call[c] = IF InRef(c) THEN View(op[c]) ELSE None
  BY DEF Call, View, InRef

LEMMA CallOfNext ==
  ASSUME NEW c \in Clients
  PROVE  Call'[c] = IF InRef(c)' THEN View(op'[c]) ELSE None
  BY DEF Call, View, InRef

\* A call in progress is one in progress of AtomicRefs too.
LEMMA ViewIsCall ==
  ASSUME NEW r \in RefCalls
  PROVE  View(r) \in Atomic!Calls /\ View(r) # None
<1>1. View(r) \in Atomic!Calls
  BY DEF View, RefCalls, Atomic!Calls
<1> QED BY <1>1, NoCallAssumption

LEMMA CallsBut ==
  ASSUME NEW c \in Clients, NEW v, Call'[c] = v, \A d \in Clients \ {c} : Call'[d] = Call[d]
  PROVE  Call' = [Call EXCEPT ![c] = v]
<1>1. Call = [d \in Clients |-> Call[d]] /\ Call' = [d \in Clients |-> Call'[d]]
  BY DEF Call
<1> QED BY <1>1

LEMMA CallsSame ==
  ASSUME \A d \in Clients : Call'[d] = Call[d], UNCHANGED refFile
  PROVE  UNCHANGED Atomic!atomicVars
<1>1. Call = [d \in Clients |-> Call[d]] /\ Call' = [d \in Clients |-> Call'[d]]
  BY DEF Call
<1>2. Call' = Call
  BY <1>1
<1> QED BY <1>2 DEF Atomic!atomicVars, Call

LEMMA OthersCalls ==
  ASSUME NEW c \in Clients, \A d \in Clients \ {c} : op'[d] = op[d]
  PROVE  \A d \in Clients \ {c} : Call'[d] = Call[d]
  BY CallOf, CallOfNext DEF InRef

LEMMA PutStutters ==
  ASSUME RefSideKept
  PROVE  UNCHANGED Atomic!atomicVars
  BY CallOf, CallOfNext, CallsSame DEF RefSideKept

LEMMA BeginMaps ==
  ASSUME FsInv, NEW c \in Clients, RefStart(c)
  PROVE  Atomic!Next
<1>1. PICK n \in Refs, old \in Hashes \cup {None}, new \in Hashes \cup {None} :
        RefBegin(c, n, old, new)
  BY StartedCall DEF FsInv, TypeOK
<1>2. /\ op[c] = None /\ op'[c] = NewCall(n, old, new)
      /\ \A d \in Clients \ {c} : op'[d] = op[d]
      /\ UNCHANGED refFile
  BY <1>1, BegunCall DEF FsInv
<1>3. Call[c] = None
  BY <1>2, CallOf DEF InRef
<1>4. NewCall(n, old, new) # None
  BY NewCallType, NoneIsNoRecord
<1>5. Call'[c] = [ref |-> n, expected |-> old, new |-> new, answer |-> "none", met |-> FALSE]
  <2>1. InRef(c)'
    BY <1>2, <1>4 DEF InRef, NewCall
  <2>2. Call'[c] = View(NewCall(n, old, new))
    BY <1>2, <2>1, CallOfNext
  <2> QED BY <2>2 DEF NewCall, View
<1>6. Call' = [Call EXCEPT ![c] =
        [ref |-> n, expected |-> old, new |-> new, answer |-> "none", met |-> FALSE]]
  BY <1>2, <1>5, OthersCalls, CallsBut
<1>7. Atomic!Begin(c, n, old, new)
  BY <1>2, <1>3, <1>6 DEF Atomic!Begin, Call
<1> QED BY <1>7 DEF Atomic!Next

\* The steps of a call under its lock.
LEMMA ContinueMaps ==
  ASSUME FsInv, NEW c \in Clients, RefContinue(c)
  PROVE  [Atomic!Next]_Atomic!atomicVars
<1> USE DEF FsInv
<1>1. /\ InRef(c) /\ op[c] \in RefCalls
      /\ \A d \in Clients \ {c} : op'[d] = op[d]
      /\ op'[c] # None =>
           /\ op'[c] \in RefCalls
           /\ op'[c].ref = op[c].ref /\ op'[c].expected = op[c].expected
           /\ op'[c].new = op[c].new /\ op'[c].met = op[c].met
  BY CallStep
<1>2. Call[c] = View(op[c]) /\ Call[c] # None
  BY <1>1, CallOf, ViewIsCall
<1>3. \A d \in Clients \ {c} : Call'[d] = Call[d]
  BY <1>1, OthersCalls
<1>4. ASSUME op'[c] \in RefCalls PROVE Call'[c] = View(op'[c])
  BY <1>4, CallOfNext, NoneIsNoRecord DEF InRef, RefCalls
<1>5. ASSUME op'[c] \in RefCalls, op'[c].answer = op[c].answer, UNCHANGED refFile
      PROVE  UNCHANGED Atomic!atomicVars
  <2>1. op'[c] # None
    BY <1>5, NoneIsNoRecord
  <2>2. Call'[c] = Call[c]
    BY <1>1, <1>2, <1>4, <1>5, <2>1 DEF View
  <2> QED BY <1>3, <1>5, <2>2, CallsSame
<1>6. CASE TakeLock(c) \/ RemoveFailed(c)
  <2>1. UNCHANGED refFile
    BY <1>6 DEF TakeLock, RemoveFailed
  <2> QED BY <1>5, <1>6, <2>1, CallStages
<1>7. CASE LockRefused(c) \/ Unlock(c)
  <2>1. op'[c] = None /\ UNCHANGED refFile
    BY <1>7 DEF LockRefused, Unlock, Return, TypeOK
  <2>2. Call'[c] = None
    BY <2>1, CallOfNext DEF InRef
  <2>3. Call' = [Call EXCEPT ![c] = None]
    BY <1>3, <2>2, CallsBut
  <2>4. Atomic!End(c)
    BY <1>2, <2>1, <2>3 DEF Atomic!End, Call
  <2> QED BY <2>4 DEF Atomic!Next
<1>8. CASE CompareRef(c)
  <2>1. op'[c] \in RefCalls /\ op'[c] # None /\ UNCHANGED refFile
    BY <1>8, CallStages, NoneIsNoRecord DEF CompareRef
  <2>2. op[c].answer = "none"
    BY <1>1, <1>8 DEF CompareRef, At, RefCalls
  <2>3. CASE op'[c].answer = op[c].answer
    BY <1>5, <2>1, <2>3
  <2>4. CASE op'[c].answer # op[c].answer
    <3>1. refFile[op[c].ref] # op[c].expected /\ op'[c].answer = "mismatch"
      BY <1>8, <2>4, CallStages
    <3>2. Call'[c] = [Call[c] EXCEPT !.answer = "mismatch"]
      BY <1>1, <1>2, <1>4, <2>1, <3>1 DEF View
    <3>3. Call' = [Call EXCEPT ![c].answer = "mismatch"]
      BY <1>3, <3>2, CallsBut
    <3>4. /\ Call[c].answer = "none"
          /\ refFile[Call[c].ref] # Call[c].expected
      BY <1>2, <2>2, <3>1 DEF View
    <3>5. Atomic!Mismatch(c)
      BY <1>2, <2>1, <3>3, <3>4 DEF Atomic!Mismatch, Atomic!Undecided, Call
    <3> QED BY <3>5 DEF Atomic!Next
  <2> QED BY <2>3, <2>4
<1>9. CASE ApplyRef(c)
  <2>1. op'[c] \in RefCalls /\ op'[c] # None /\ op'[c].answer = "ok"
    BY <1>9, CallStages, NoneIsNoRecord
  <2>2. op[c].answer = "none" /\ (refFile[op[c].ref] = op[c].expected \/ op[c].met)
    BY <1>1, <1>9 DEF ApplyRef, At, CasInv
  <2>3. Call'[c] = [Call[c] EXCEPT !.answer = "ok"]
    BY <1>1, <1>2, <1>4, <2>1 DEF View
  <2>4. Call' = [Call EXCEPT ![c].answer = "ok"]
    BY <1>3, <2>3, CallsBut
  <2>5. /\ Call[c].answer = "none"
        /\ refFile[Call[c].ref] = Call[c].expected \/ Call[c].met
        /\ refFile' = [refFile EXCEPT ![Call[c].ref] = Call[c].new]
    BY <1>2, <1>9, <2>2 DEF View, ApplyRef
  <2>6. Atomic!Succeed(c)
    BY <1>2, <2>4, <2>5 DEF Atomic!Succeed, Atomic!Undecided, Call
  <2> QED BY <2>6 DEF Atomic!Next
<1> QED BY <1>6, <1>7, <1>8, <1>9 DEF RefContinue

LEMMA SameCall ==
  ASSUME NEW v \in Atomic!Calls, NEW w \in Atomic!Calls, v.ref = w.ref,
         v.expected = w.expected, v.new = w.new, v.answer = w.answer, v.met <=> w.met
  PROVE  v = w
  BY DEF Atomic!Calls

LEMMA MarkedView ==
  ASSUME NEW r \in RefCalls, NEW q \in RefCalls, q.met,
         q.ref = r.ref, q.expected = r.expected, q.new = r.new, q.answer = r.answer
  PROVE  View(q) = [View(r) EXCEPT !.met = TRUE]
<1> DEFINE v == View(r)
           w == View(q)
<1>1. v \in Atomic!Calls /\ w \in Atomic!Calls
  BY ViewIsCall
<1>2. v.ref = w.ref /\ v.expected = w.expected /\ v.new = w.new /\ v.answer = w.answer /\ w.met
  BY DEF View
<1> HIDE DEF v, w
<1> DEFINE e == [v EXCEPT !.met = TRUE]
<1>3. e \in Atomic!Calls
  BY <1>1 DEF Atomic!Calls
<1>4. e.ref = v.ref /\ e.expected = v.expected /\ e.new = v.new /\ e.answer = v.answer
  BY <1>1 DEF Atomic!Calls
<1>5. e.met = TRUE
  BY <1>1 DEF Atomic!Calls
<1> HIDE DEF e
<1>6. w = e
  BY <1>1, <1>2, <1>3, <1>4, <1>5, SameCall
<1> QED BY <1>6, Zenon DEF v, w, e

LEMMA DeleteMaps ==
  ASSUME FsInv, NEW c \in Clients, NEW n \in Refs, DeleteRef(c, n)
  PROVE  Atomic!Next
<1> USE DEF FsInv
<1>1. ASSUME NEW d \in Clients
      PROVE  Call'[d] = IF Call[d] # None /\ Call[d].ref = n
                        THEN [Call[d] EXCEPT !.met = TRUE] ELSE Call[d]
  <2>1. CASE InRef(d)
    <3>1. op[d] \in RefCalls /\ Call[d] = View(op[d]) /\ Call[d] # None
      BY <2>1, CallOf, Kinds, ViewIsCall
    <3>2. Call'[d] = View(op'[d])
      BY <2>1, Marked, CallOfNext
    <3>3. op[d].met \in BOOLEAN
      BY <3>1 DEF RefCalls
    <3>4. op'[d] \in RefCalls
      <4>1. TypeOK' /\ InRef(d)'
        BY <2>1, RefTypes, Marked
      <4> QED BY <4>1 DEF TypeOK, InRef, Puts
    <3>5. CASE op[d].ref = n
      <4>1. op'[d].met
        BY <2>1, <3>5, Marked
      <4>2. /\ op'[d].ref = op[d].ref /\ op'[d].expected = op[d].expected
            /\ op'[d].new = op[d].new /\ op'[d].answer = op[d].answer
        BY <2>1, Marked
      <4>3. Call'[d] = [Call[d] EXCEPT !.met = TRUE]
        <5>1. View(op'[d]) = [View(op[d]) EXCEPT !.met = TRUE]
          BY <3>1, <3>4, <4>1, <4>2, MarkedView
        <5> QED BY <3>1, <3>2, <5>1, Zenon
      <4>4. Call[d].ref = n
        BY <3>1, <3>5 DEF View
      <4> QED BY <3>1, <4>3, <4>4
    <3>6. CASE op[d].ref # n
      <4>1. op'[d].met = op[d].met
        BY <2>1, <3>3, <3>6, Marked
      <4> QED BY <2>1, <3>1, <3>2, <3>6, <4>1, Marked DEF View
    <3> QED BY <3>5, <3>6
  <2>2. CASE ~ InRef(d)
    BY <2>2, Marked, CallOf, CallOfNext
  <2> QED BY <2>1, <2>2
<1>2. Call' = [d \in Clients |-> Call'[d]]
  BY DEF Call
<1>3. Call' = [d \in Clients |-> IF Call[d] # None /\ Call[d].ref = n
                                 THEN [Call[d] EXCEPT !.met = TRUE] ELSE Call[d]]
  BY <1>1, <1>2
<1>4. Atomic!Delete(n)
  BY <1>3 DEF DeleteRef, Atomic!Delete, Call
<1> QED BY <1>4 DEF Atomic!Next

LEMMA DieMaps ==
  ASSUME FsInv, NEW c \in Clients, Die(c)
  PROVE  [Atomic!Next]_Atomic!atomicVars
<1>1. op'[c] = None /\ UNCHANGED refFile /\ \A d \in Clients \ {c} : op'[d] = op[d]
  BY DEF Die, Return, FsInv, TypeOK
<1>2. Call'[c] = None /\ \A d \in Clients \ {c} : Call'[d] = Call[d]
  BY <1>1, CallOfNext, OthersCalls DEF InRef
<1>3. CASE Call[c] = None
  BY <1>1, <1>2, <1>3, CallsSame
<1>4. CASE Call[c] # None
  <2>1. Call' = [Call EXCEPT ![c] = None]
    BY <1>2, CallsBut
  <2>2. Atomic!End(c)
    BY <1>1, <1>4, <2>1 DEF Atomic!End, Call
  <2> QED BY <2>2 DEF Atomic!Next
<1> QED BY <1>3, <1>4

LEMMA StepMaps == FsInv /\ [Next]_fsVars => [Atomic!Next]_Atomic!atomicVars
<1> SUFFICES ASSUME FsInv, [Next]_fsVars PROVE [Atomic!Next]_Atomic!atomicVars
  OBVIOUS
<1>1. ASSUME NEW c \in Clients, PutStep(c) PROVE UNCHANGED Atomic!atomicVars
  BY <1>1, PutKeepsRefSide, PutStutters DEF FsInv
<1>2. CASE UNCHANGED fsVars
  BY <1>2 DEF fsVars, Atomic!atomicVars
<1>3. ASSUME NEW c \in Clients, Begin(c) \/ Continue(c) \/ Die(c)
      PROVE  [Atomic!Next]_Atomic!atomicVars
  <2>1. Begin(c) => PutStep(c) \/ RefStart(c) \/ \E n \in Refs : DeleteRef(c, n)
    BY DEF Begin, PutStep, RefStart
  <2>2. Continue(c) => PutStep(c) \/ RefContinue(c)
    BY DEF Continue, PutStep, RefContinue
  <2> QED BY <1>1, <1>3, <2>1, <2>2, BeginMaps, ContinueMaps, DeleteMaps, DieMaps
<1> QED BY <1>2, <1>3 DEF Next

LEMMA InitMaps == Init => Atomic!Init
  BY DEF Init, Atomic!Init

-----------------------------------------------------------------------------
(***************************************************************************)
(* The theorems.                                                           *)
(***************************************************************************)

\* Every call is at a stage its kind has, with arguments of the store, whatever calls of the
\* file system interleave and wherever clients die.
THEOREM LocalFsTyped == Spec => []TypeOK
<1>1. FsInv => TypeOK
  BY DEF FsInv
<1> QED BY <1>1, FsCorrect, PTL

\* A lock file stands for at most one compare-and-set or -delete under way, or for one whose
\* client died: create_new excludes, and every answer removes the file.
THEOREM LocksAlwaysOwned == Spec => []LocksOwned
<1>1. FsInv => LocksOwned
  BY DEF FsInv, LockInv
<1> QED BY <1>1, FsCorrect, PTL

\* Write-temporary-and-rename gives whole objects, through any number of crashes, unless two
\* clients write the same object at once.
THEOREM ObjectsWhole == Spec => []TornOnlyByContention
<1>1. FsInv => TornOnlyByContention
  BY DEF FsInv, WriteInv
<1> QED BY <1>1, FsCorrect, PTL

\* Neither a ref nor an answer of put_object names an object that is not there.
THEOREM RefsNeverDangle == Spec => []RefsResolve
<1>1. FsInv => RefsResolve
  BY DEF FsInv, StoreInv
<1> QED BY <1>1, FsCorrect, PTL

\* cas_ref and cas_delete_ref, a sequence of calls of the file system under a lock file, are
\* atomic: the backend implements AtomicRefs.
THEOREM BackendImplementsAtomicRefs == Spec => ImplementsAtomicRefs
<1>1. Init => Atomic!Init
  BY InitMaps
<1>2. FsInv /\ [Next]_fsVars => [Atomic!Next]_Atomic!atomicVars
  BY StepMaps
<1> QED BY <1>1, <1>2, FsCorrect, PTL DEF Spec, ImplementsAtomicRefs, Atomic!Spec
=============================================================================
