----------------------------- MODULE RetryLedger -----------------------------
(***************************************************************************)
(* The ledger of one item, under any sequence of repairs the service could *)
(* ask for.                                                                *)
(***************************************************************************)
EXTENDS RetryRules

CONSTANTS Stages, Procedures, Fingerprints, Trees

VARIABLE history

Dimensions == DOMAIN Limit

Repairs == [dim : Dimensions, stage : Stages, procedure : Procedures,
            fingerprint : Fingerprints, tree : Trees]

TypeOK == history \in Seq(Repairs)

Init == history = <<>>

Consume(r) == ~ Refuses(history, r) /\ history' = Append(history, r)

Next == \E r \in Repairs : Consume(r)

Spec == Init /\ [][Next]_history

-----------------------------------------------------------------------------
OfDim(d) == {k \in DOMAIN history : history[k].dim = d}

\* auditSnapshotV2 holds every ledger to its limits (state.ts:135-141); whatever
\* names checks and failures are given, an item never gets more repairs.
CeilingsHold == \A d \in Dimensions : Cardinality(OfDim(d)) <= Limit[d]

\* What README.md:359-364 promises to stop: in one dimension a tree that was left
\* does not come back, none is repaired three times in a row, no failure
\* alternates with another, and none outlives two trees.
NoProgressStops ==
  \A d \in Dimensions :
    LET s == OfDim(d) IN
      /\ \A j, k, m \in s : j < k /\ k < m => history[j].tree # history[m].tree
      /\ \A j, k, m \in s :
           /\ j < k /\ k < m /\ \A n \in s : j < n /\ n < m => n = k
           /\ history[j].fingerprint = history[m].fingerprint
           => history[k].fingerprint = history[j].fingerprint
      /\ \A k \in s : Cardinality(TreesOf(history, Counter(history, history[k]))) <= 2
=============================================================================
