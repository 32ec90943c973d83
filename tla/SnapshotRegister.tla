-------------------------- MODULE SnapshotRegister --------------------------
(***************************************************************************)
(* What the V2 snapshot store promises its callers, with no lock, file or  *)
(* crash in sight: one log of committed updates that only ever grows by    *)
(* one whole update, and a record of the longest log some caller has been  *)
(* told about.  StoreV2 implements it.                                     *)
(***************************************************************************)
EXTENDS Naturals, Sequences

CONSTANT Writers

VARIABLES
  log,        \* the committed updates, oldest first
  promised    \* the longest log a returned transaction was based on

rvars == <<log, promised>>

Init == log = << >> /\ promised = << >>

\* One whole update is committed, or nothing is.
Commit == /\ \E w \in Writers : log' = Append(log, w)
          /\ UNCHANGED promised

\* A transaction returns to its caller: it may speak only of committed state.
Promise == promised' = log /\ UNCHANGED log

Next == Commit \/ Promise

Spec == Init /\ [][Next]_rvars
=============================================================================
