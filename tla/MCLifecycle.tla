---------------------------- MODULE MCLifecycle ----------------------------
(***************************************************************************)
(* The lifecycle in parts that each look at one thing: an item whose       *)
(* checks fail and are repaired; one whose candidates and workers change;  *)
(* two items with a producer of independent evidence; and, with a variable *)
(* of its own, the ledger under the limits of the code.                    *)
(***************************************************************************)
EXTENDS Lifecycle, RepairBudget, ItemCases

\* The limits of the code, for one dimension of three repairs and the one of one.
CodeLimits == "product" :> 3 @@ "infrastructure" :> 1

CONSTANT Parts          \* which of them are looked at

VARIABLE part

MCInit == part \in Parts /\ Init /\ Ledger!Init

-----------------------------------------------------------------------------
\* Bounds of the parts: which items are worked on, the candidates and workers they get, what
\* comes out of the checks, and how a landing is closed.
OutcomesIn ==
  "item" :> RepairOutcomes @@ "replaced" :> PassOutcomes
    @@ "produced" :> ProducerOutcomes @@ "implementers" :> ProducerOutcomes

Alone == node'[b].status \in {"pending", "cancelled"}
OneCandidate == \A i \in Items : life'[i].candidates \subseteq {"x"}
EvaluatedOnce == life'[b].stage <= 3
FiveRounds == \A i \in Items : node'[i].status # "cancelled" => life'[i].round <= 5
FirstIsX == \A i \in Items : life'[i].candidates # {"y"}     \* as good as the other way round
OneWorker == \A i \in Items : node'[i].status # "cancelled" => node'[i].gen = 1
ClosedByCancellation ==
  \A i \in Items : \A n \in DOMAIN ledger'[i] : ledger'[i][n].dim # "integration"

Within ==
  /\ \A i \in Items : \A e \in execs'[i] :
       e.status # "quarantined" => e.job \in {Pending} \cup OutcomesIn[part][e.check]
  /\ IF part = "produced" THEN EvaluatedOnce ELSE Alone
  /\ part # "replaced" => OneCandidate
  /\ part \in {"item", "produced"} => OneWorker
  /\ part = "replaced" => FirstIsX /\ FiveRounds /\ ClosedByCancellation

MCNext ==
  /\ UNCHANGED part
  /\ \/ part # "ledger" /\ Next /\ Within /\ UNCHANGED history
     \/ part = "ledger" /\ Ledger!Next /\ UNCHANGED vars

MCSpec == MCInit /\ [][MCNext]_<<vars, history, part>>
=============================================================================
