---------------------------- MODULE RepairBudget -----------------------------
(***************************************************************************)
(* What the ledger of an item promises, under limits of its own.           *)
(***************************************************************************)
EXTENDS Naturals

CONSTANTS Ceiling,      \* the limits, by dimension
          Stages, Procedures, Fingerprints, Trees

ASSUME CeilingAssumption == Ceiling \in [DOMAIN Ceiling -> Nat]

VARIABLE history

Ledger == INSTANCE RetryLedger WITH Limit <- Ceiling

\* No sequence of repairs exceeds a ceiling, brings back a tree that was left or goes on with
\* a failure that does not change.
RetriesAreBounded == Ledger!CeilingsHold /\ Ledger!NoProgressStops
=============================================================================
