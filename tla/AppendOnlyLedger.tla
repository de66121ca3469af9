-------------------------- MODULE AppendOnlyLedger --------------------------
(***************************************************************************)
(* What an audit chain promises to the writers that share it: one ledger,  *)
(* which only grows, at its end, and by one entry at a time; and for each  *)
(* writer a view of some first part of it, which may be old but is never   *)
(* of anything else and never goes back.  Only a writer whose view is of   *)
(* the whole ledger can extend it; it does not see its own entry until it  *)
(* looks again.                                                            *)
(***************************************************************************)
EXTENDS Sequences, Naturals

CONSTANTS
  Writers,  \* those that share the ledger
  Items,    \* what can be entered
  Nothing   \* the head of an empty ledger

VARIABLES
  ledger,   \* the items entered so far
  view      \* per writer: the last item and the length of the part it knows

ledgerVars == <<ledger, view>>

\* The first n items, by their last one and their number.
Prefix(n) == [head |-> IF n = 0 THEN Nothing ELSE ledger[n], sequence |-> n]

Init ==
  /\ ledger = <<>>
  /\ view = [w \in Writers |-> Prefix(0)]

Extend(w, item) ==
  /\ view[w] = Prefix(Len(ledger))
  /\ \A n \in 1 .. Len(ledger) : ledger[n] # item
  /\ ledger' = Append(ledger, item)
  /\ UNCHANGED view

CatchUp(w) ==
  /\ \E n \in view[w].sequence .. Len(ledger) : view' = [view EXCEPT ![w] = Prefix(n)]
  /\ UNCHANGED ledger

Next == \E w \in Writers : CatchUp(w) \/ \E item \in Items : Extend(w, item)

Spec == Init /\ [][Next]_ledgerVars
=============================================================================
