----------------------------- MODULE RetryRules -----------------------------
(***************************************************************************)
(* When another repair of an item is refused (runtime-v2/lifecycle.ts,     *)
(* consumeRetryV2).  The ledger of an item is the sequence of the repairs  *)
(* it has spent; the code also groups them in counters, one for each       *)
(* dimension, stage, procedure and fingerprint.                            *)
(* Replacements are recorded there as well, but never read for admission.  *)
(***************************************************************************)
EXTENDS Naturals, Sequences, FiniteSets

CONSTANT Limit  \* retryLimitsV2: how many repairs of each dimension an item gets

ASSUME LimitAssumption == Limit \in [DOMAIN Limit -> Nat]

\* A repair: its dimension, the stage and procedure of the failed check, the
\* fingerprint of the failure, and the candidate tree it was found in.
Repair(d, s, p, f, t) == [dim |-> d, stage |-> s, procedure |-> p, fingerprint |-> f, tree |-> t]

\* Repairs of a ledger, by their places in it.
OfDimension(h, r) == {k \in DOMAIN h : h[k].dim = r.dim}
Counter(h, r) ==
  {k \in OfDimension(h, r) : h[k].stage = r.stage /\ h[k].procedure = r.procedure
                               /\ h[k].fingerprint = r.fingerprint}

TreesOf(h, s) == {h[k].tree : k \in s}

Latest(s, k) == k \in s /\ \A m \in s : m <= k
LatestTwo(s, j, k) == Latest(s, k) /\ Latest(s \ {k}, j)

Spent(s, r) == Cardinality(s) >= Limit[r.dim]
StandsStill(h, s, r) ==
  \E j, k \in s : LatestTwo(s, j, k) /\ h[j].tree = r.tree /\ h[k].tree = r.tree
Recurs(h, s, r) ==
  r.tree \in TreesOf(h, s) /\ \E k \in s : Latest(s, k) /\ h[k].tree # r.tree

Oscillates(h, s, r) ==
  \E j, k \in s : LatestTwo(s, j, k) /\ h[j].fingerprint = r.fingerprint
                                    /\ h[k].fingerprint # r.fingerprint
Persists(h, s) == Cardinality(TreesOf(h, s)) >= 2

\* Mistake: the ceiling looks for progress only.
DimensionRefusesUnspent(h, r) ==
  LET s == OfDimension(h, r) IN StandsStill(h, s, r) \/ Recurs(h, s, r) \/ Oscillates(h, s, r)

\* The ceiling of a dimension, which renaming a check cannot reset.
DimensionRefuses(h, r) ==
  LET s == OfDimension(h, r) IN
    Spent(s, r) \/ StandsStill(h, s, r) \/ Recurs(h, s, r) \/ Oscillates(h, s, r)

CounterRefuses(h, r) ==
  LET s == Counter(h, r) IN
    Spent(s, r) \/ StandsStill(h, s, r) \/ Recurs(h, s, r) \/ Persists(h, s)

Refuses(h, r) == DimensionRefuses(h, r) \/ CounterRefuses(h, r)
=============================================================================
