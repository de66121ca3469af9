------------------------------ MODULE AtomicRefs ------------------------------
(***************************************************************************)
(* What an ObjectStore promises of its refs: compare-and-set and           *)
(* compare-and-delete take effect in one step or not at all, and answer a  *)
(* mismatch only when there is one.  A call may also end without having    *)
(* had any effect (contention, an I/O error, the death of the caller).     *)
(* The in-memory backend does exactly this under its one lock.             *)
(*                                                                         *)
(* delete_ref is unconditional, and a compare-and-set that it meets        *)
(* half-way may still write the ref it has just removed.                   *)
(***************************************************************************)
CONSTANTS
  Clients,  \* the callers of the store
  Refs,     \* names of refs
  Hashes,   \* hashes refs may point to
  None      \* no ref, no call

VARIABLES
  refs,     \* the hash each ref points to, or None
  call      \* per client: its compare-and-set or -delete in progress, or None

atomicVars == <<refs, call>>

\* A call: new is None for a compare-and-delete; met tells whether delete_ref has removed
\* the ref since the call began.
Calls == [ref : Refs, expected : Hashes \cup {None}, new : Hashes \cup {None},
          answer : {"none", "ok", "mismatch"}, met : BOOLEAN]

Undecided(c) == call[c] # None /\ call[c].answer = "none"

Begin(c, n, old, new) ==
  /\ call[c] = None
  /\ call' = [call EXCEPT ![c] =
       [ref |-> n, expected |-> old, new |-> new, answer |-> "none", met |-> FALSE]]
  /\ UNCHANGED refs

Succeed(c) ==
  /\ Undecided(c)
  /\ refs[call[c].ref] = call[c].expected \/ call[c].met
  /\ refs' = [refs EXCEPT ![call[c].ref] = call[c].new]
  /\ call' = [call EXCEPT ![c].answer = "ok"]

Mismatch(c) ==
  /\ Undecided(c)
  /\ refs[call[c].ref] # call[c].expected
  /\ call' = [call EXCEPT ![c].answer = "mismatch"]
  /\ UNCHANGED refs

\* The call returns, refused if it is undecided.
End(c) ==
  /\ call[c] # None
  /\ call' = [call EXCEPT ![c] = None]
  /\ UNCHANGED refs

Delete(n) ==
  /\ refs' = [refs EXCEPT ![n] = None]
  /\ call' = [c \in Clients |->
       IF call[c] # None /\ call[c].ref = n THEN [call[c] EXCEPT !.met = TRUE] ELSE call[c]]

Init ==
  /\ refs = [n \in Refs |-> None]
  /\ call = [c \in Clients |-> None]

Next ==
  \/ \E c \in Clients :
       \/ \E n \in Refs, old, new \in Hashes \cup {None} : Begin(c, n, old, new)
       \/ Succeed(c) \/ Mismatch(c) \/ End(c)
  \/ \E n \in Refs : Delete(n)

Spec == Init /\ [][Next]_atomicVars
=============================================================================
