------------------------------ MODULE ItemLife ------------------------------
(***************************************************************************)
(* What the rest of a run relies on of the lifecycle of its items: when an *)
(* item may become ready, what takes that away, and that a stop is for     *)
(* good.  Lifecycle implements it with stages, rounds, executions and      *)
(* ledgers; DagRun uses no more of it than this.                           *)
(***************************************************************************)
CONSTANTS Items, Findings  \* Findings: kinds of blocking findings

VARIABLE life

Unworked == [cand |-> FALSE, ready |-> FALSE, stop |-> FALSE, failed |-> FALSE,
             open |-> {}, findings |-> {}]

Init == life = [i \in Items |-> Unworked]

\* Evidence is discarded; results on their way become stale.
Discarded(l) == [l EXCEPT !.ready = FALSE, !.failed = FALSE,
                          !.open = IF @ = {} THEN {} ELSE {"stale"}]

Withdrawn(l) == IF l.open = {} THEN {[Discarded(l) EXCEPT !.cand = FALSE]} ELSE {}

Delivered(l) == IF l.stop THEN {} ELSE {[Discarded(l) EXCEPT !.cand = TRUE]}

Stopped(l) == [l EXCEPT !.stop = TRUE, !.ready = FALSE]

Prepared(l) ==
  IF l.cand /\ ~ l.stop /\ ~ l.ready THEN {[l EXCEPT !.open = @ \cup {"current"}]} ELSE {}

\* A result arrives; others of its kind may be still to come.  Only a current
\* one says anything, and only a failure has findings.
Arrived(l) ==
  UNION {{[l EXCEPT !.open = @ \ {kind}], l} : kind \in l.open}
Failing(l, left, found) ==
  [l EXCEPT !.open = left, !.failed = TRUE, !.findings = @ \cup found]
Observed(l) ==
  Arrived(l) \cup
    IF "current" \in l.open
      THEN {Failing(l, left, found) :
              left \in {l.open, l.open \ {"current"}}, found \in SUBSET Findings}
      ELSE {}

Repaired(l) ==
  IF l.failed /\ l.open = {} THEN {[l EXCEPT !.failed = FALSE, !.ready = FALSE]} ELSE {}

Judged(l) == {[l EXCEPT !.findings = @ \ {f}] : f \in l.findings}

\* Readiness takes a candidate, no stop, and nothing failed, found or awaited.
Accepted(l) ==
  IF l.cand /\ ~ l.stop /\ ~ l.failed /\ l.findings = {} /\ l.open = {}
    THEN {[l EXCEPT !.ready = TRUE]} ELSE {}

Successors(l) ==
  {l, Discarded(l), Stopped(l)} \cup Withdrawn(l) \cup Delivered(l) \cup Prepared(l)
    \cup Observed(l) \cup Repaired(l) \cup Judged(l) \cup Accepted(l)

\* A cancellation changes all items at once.
Next == /\ DOMAIN life' = Items
        /\ \A i \in Items : life'[i] # life[i] => life'[i] \in Successors(life[i])

Spec == Init /\ [][Next]_life
=============================================================================
