------------------------------- MODULE MCV1 ---------------------------------
(***************************************************************************)
(* V1.  A run of two items, in parts that each look at one thing: one item *)
(* that is coded twice and evaluated, to its end and under two owners; two *)
(* items that exclude each other and whose workers are replaced; one item  *)
(* whose run is cancelled to the end, under two owners; and, with          *)
(* variables of their own, the recovery of a dead owner and the train of   *)
(* the items that have ended.                                              *)
(***************************************************************************)
EXTENDS RunAuditV1, RunSnapshot, TrainV1

CONSTANTS i1, i2, i3

VARIABLE part

\* Two stages that write code, the evaluation of the code and the end.
Coding == <<"F1", "F2", "F3", "F8">>
ThreeItems == <<i1, i2, i3>>

ownerVars == <<state, archives, lock, recovery, intent, quarantine, dead, pc, op, mem, proof,
               judged, reader>>
others == <<ownerVars, trainVars>>

MCInit == part \in {"one", "two", "cancelled", "owner", "train"} /\ Init /\ Owner!Init /\ Train!Init

\* Bounds of the parts: which items are reserved, for which stages, how many worktrees are
\* cleaned up, and whether the owner changes.
Alone == res'[i2] = None
UpTo(last) == \A i \in Live' : res'[i].stage <= last
OneCleanup ==
  \A i \in Item : Cardinality({e \in DOMAIN eff' : e[1] = "cleanup" /\ e[2][1] = i}) <= 1
OneOwner == epoch' = 1

MCNext ==
  /\ UNCHANGED part
  /\ \/ part = "one" /\ Next /\ Alone /\ OneCleanup /\ UNCHANGED others
     \/ part = "two" /\ Next /\ UpTo(2) /\ OneCleanup /\ OneOwner /\ UNCHANGED others
     \/ part = "cancelled" /\ Next /\ Alone /\ UpTo(2) /\ UNCHANGED others
     \/ part = "owner" /\ Owner!Next /\ UNCHANGED <<vars, trainVars>>
     \/ part = "train" /\ Train!Next /\ UNCHANGED <<vars, ownerVars>>

\* The fairness of DagRunV1, for the part that is cancelled to the end.
MCFairness ==
  /\ WF_vars(part = "cancelled" /\ AgentCloses)
  /\ WF_vars(part = "cancelled" /\ \E k \in DOMAIN att : RecordCleanup(k))

MCSpec == MCInit /\ [][MCNext]_<<vars, ownerVars, trainVars, part>> /\ MCFairness

-----------------------------------------------------------------------------
\* A cancellation closes, unless a clean-up that it stranded keeps it open.
CancellationEndsUnlessStranded ==
  part = "cancelled" /\ cancel = "open" ~> cancel = "closed" \/ AnyStranded
=============================================================================
