--------------------------- MODULE DagRunProofs ---------------------------
(***************************************************************************)
(* The safety of DagRun for any plan, any number of calls, processes and   *)
(* generations: what the audit of a snapshot demands, the sums of lanes    *)
(* and resources among it, is never violated by a legal call; every worker *)
(* that runs is known; a cancelled run is quiet, and stays cancelled; and  *)
(* the run uses the lifecycle of its items as ItemLife allows.             *)
(***************************************************************************)
EXTENDS DagRun, FiniteSetTheorems, TLAPS

\* A dispatch that holds the lock still has the authority it started with.
DispatchAgrees ==
  txn # None =>
    /\ status = "active"
    /\ node[txn.item].status = "active" /\ node[txn.item].res = "dispatching"
    /\ txn.step # "prepare" => txn.item \in workspace

\* Revisions: what a call may still act on is what is accepted.
SeenIsCurrent == \A c \in Calls : seen[c] # None => seen[c] = Complete

\* The extra generation is the one a cancellation fences with.
GenerationsFit == \A i \in Items : node[i].status # "cancelled" => node[i].gen \in Gens

\* Results that count, and landings, belong to an item that is worked on.
CurrentIsActive == \A i \in Items : "current" \in life[i].open => node[i].status = "active"
UnresolvedIsWorked == \A i \in Items : Unresolved(i) => node[i].status \in {"active", "cancelled"}

\* Nothing is awaited or held against an item that is ready.
ReadyIsClean ==
  \A i \in Items : life[i].ready =>
    /\ life[i].cand /\ ~ life[i].stop /\ ~ life[i].failed
    /\ life[i].findings = {} /\ life[i].open = {}

ScopeKept == \A i \in Items : node[i].status = "excluded" <=> i \notin Scope

IInv == /\ TypeOK /\ GenerationsFit /\ DispatchAgrees /\ WorkersAreKnown /\ SeenIsCurrent
        /\ CurrentIsActive /\ UnresolvedIsWorked /\ ReadyIsClean /\ ScopeKept
        /\ DependenciesIntegrated /\ SerialPrefix /\ ReservationMatches /\ TerminalMatches
        /\ AcceptedStaysReady /\ CancelledIsQuiet

\* What an action changes keeps its type, one lemma for each record.
LEMMA NodeUpdates ==
  ASSUME NEW n \in Node
  PROVE  /\ \A r \in Reservation : [n EXCEPT !.res = r] \in Node
         /\ [n EXCEPT !.status = "complete"] \in Node
         /\ \A g \in Gens, b \in SUBSET Items :
              [n EXCEPT !.status = "active", !.res = "reserved", !.resGen = g, !.base = b] \in Node
         /\ \A g \in Gens :
              [n EXCEPT !.gen = g, !.resGen = g, !.res = "reserved"] \in Node
         /\ \A g \in 1..MaxGen + 1 : [n EXCEPT !.status = "cancelled", !.gen = g] \in Node
<1>1. Gens \subseteq 1..MaxGen + 1
  BY PlanAssumption DEF Gens
<1>. QED  BY <1>1 DEF Node, NodeStatus, Reservation

LEMMA LifeUpdates ==
  ASSUME NEW l \in Life
  PROVE  /\ Invalidated(l) \in Life
         /\ [l EXCEPT !.stop = TRUE] \in Life
         /\ [l EXCEPT !.stop = TRUE, !.ready = FALSE] \in Life
         /\ [l EXCEPT !.failed = FALSE, !.ready = FALSE] \in Life
         /\ [l EXCEPT !.ready = TRUE] \in Life
         /\ \A b \in BOOLEAN : [l EXCEPT !.cand = b] \in Life
         /\ \A o \in SUBSET {"current", "stale"} : [l EXCEPT !.open = o] \in Life
         /\ \A s \in SUBSET Findings : [l EXCEPT !.findings = s] \in Life
         /\ \A b \in BOOLEAN, s \in SUBSET Findings :
              [l EXCEPT !.failed = b, !.findings = s] \in Life
         /\ l.open \in SUBSET {"current", "stale"} /\ l.findings \in SUBSET Findings
         /\ l.failed \in BOOLEAN
BY DEF Life, Invalidated

LEMMA TypeNext == ASSUME TypeOK, GenerationsFit, [Next]_vars PROVE TypeOK'
<1>. USE PlanAssumption DEF TypeOK
<1>0. \A j \in Items :
        /\ node[j] \in Node /\ \A n \in Node : [node EXCEPT ![j] = n] \in [Items -> Node]
        /\ life[j] \in Life /\ \A l \in Life : [life EXCEPT ![j] = l] \in [Items -> Life]
  OBVIOUS
<1>1. ASSUME NEW c \in Calls, AcquireLease(c) PROVE TypeOK'
  <2>1. lease' \in Procs \cup {None}
    BY <1>1 DEF AcquireLease
  <2>2. seen' \in [Calls -> (SUBSET Items) \cup {None}]
    BY <1>1 DEF AcquireLease, Complete, WithStatus
  <2>. QED  BY <1>1, <2>1, <2>2 DEF AcquireLease, runVars
<1>2. ASSUME NEW c \in Calls, Observe(c) PROVE TypeOK'
  <2>1. seen' \in [Calls -> (SUBSET Items) \cup {None}]
    BY <1>2 DEF Observe, Complete, WithStatus
  <2>. QED  BY <1>2, <2>1 DEF Observe, runVars
<1>3. ASSUME NEW c \in Calls, Annotate(c) PROVE TypeOK'
  <2>1. seen' \in [Calls -> (SUBSET Items) \cup {None}]
    BY <1>3 DEF Annotate, Publish
  <2>. QED  BY <1>3, <2>1 DEF Annotate, runVars
<1>4. ASSUME NEW c \in Calls, NEW i \in Items, Reserve(c, i) PROVE TypeOK'
  <2>1. node' \in [Items -> Node]
    <3>1. node[i].gen \in Gens /\ seen[c] \in SUBSET Items
      BY <1>4 DEF Reserve, Admissible, Mutates, GenerationsFit
    <3>2. [node[i] EXCEPT !.status = "active", !.res = "reserved",
                            !.resGen = node[i].gen, !.base = seen[c]] \in Node
      BY <1>4, <3>1, NodeUpdates, <1>0
    <3>. QED  BY <1>4, <3>2, <1>0 DEF Reserve
  <2>2. seen' \in [Calls -> (SUBSET Items) \cup {None}]
    BY <1>4 DEF Reserve, Publish
  <2>. QED  BY <1>4, <2>1, <2>2 DEF Reserve, runVars
<1>5. ASSUME NEW c \in Calls, NEW i \in Items, BeginDispatch(c, i) PROVE TypeOK'
  <2>1. txn' \in Dispatch \cup {None}
    BY <1>5 DEF BeginDispatch, Dispatch
  <2>2. node' \in [Items -> Node]
    BY <1>5, NodeUpdates, <1>0 DEF BeginDispatch, Reservation
  <2>3. seen' \in [Calls -> (SUBSET Items) \cup {None}]
    BY <1>5 DEF BeginDispatch, Publish
  <2>. QED  BY <1>5, <2>1, <2>2, <2>3 DEF BeginDispatch, runVars
<1>6. ASSUME PrepareWorkspace PROVE TypeOK'
  <2>1. txn' \in Dispatch \cup {None}
    BY <1>6 DEF PrepareWorkspace, Dispatch
  <2>2. workspace' \in SUBSET Items
    BY <1>6 DEF PrepareWorkspace, Dispatch
  <2>3. seen' \in [Calls -> (SUBSET Items) \cup {None}]
    BY <1>6 DEF PrepareWorkspace, Publish
  <2>. QED  BY <1>6, <2>1, <2>2, <2>3 DEF PrepareWorkspace, runVars
<1>7. ASSUME PlanWorker PROVE TypeOK'
  <2>1. worker' \in [Items -> [Gens -> Worker]]
    BY <1>7 DEF PlanWorker, Worker, Dispatch, Node
  <2>. QED  BY <1>7, <2>1 DEF PlanWorker, runVars
<1>8. ASSUME Launch PROVE TypeOK'
  <2>1. worker' \in [Items -> [Gens -> Worker]]
    BY <1>8 DEF Launch, Worker, Dispatch, Node
  <2>2. txn' \in Dispatch \cup {None}
    BY <1>8 DEF Launch, Dispatch
  <2>. QED  BY <1>8, <2>1, <2>2 DEF Launch, runVars
<1>9. ASSUME Bind PROVE TypeOK'
  <2>1. node' \in [Items -> Node]
    <3>1. txn.item \in Items
      BY <1>9 DEF Bind, Dispatch
    <3>2. [node[txn.item] EXCEPT !.res = "bound"] \in Node
      BY <1>9, <3>1, NodeUpdates, <1>0 DEF Reservation
    <3>. QED  BY <1>9, <3>1, <3>2, <1>0 DEF Bind
  <2>2. txn' \in Dispatch \cup {None}
    BY <1>9 DEF Bind, Dispatch
  <2>3. seen' \in [Calls -> (SUBSET Items) \cup {None}]
    BY <1>9 DEF Bind, Publish
  <2>. QED  BY <1>9, <2>1, <2>2, <2>3 DEF Bind, runVars
<1>10. ASSUME AbandonDispatch PROVE TypeOK'
  <2>1. txn' \in Dispatch \cup {None}
    BY <1>10 DEF AbandonDispatch, Dispatch
  <2>. QED  BY <1>10, <2>1 DEF AbandonDispatch, runVars
<1>11. ASSUME NEW c \in Calls, NEW i \in Items, RecoverBinding(c, i) PROVE TypeOK'
  <2>1. node' \in [Items -> Node]
    BY <1>11, NodeUpdates, <1>0 DEF RecoverBinding, Reservation
  <2>2. seen' \in [Calls -> (SUBSET Items) \cup {None}]
    BY <1>11 DEF RecoverBinding, Publish
  <2>. QED  BY <1>11, <2>1, <2>2 DEF RecoverBinding, runVars
<1>12. ASSUME NEW c \in Calls, NEW i \in Items, FenceUnlaunched(c, i) PROVE TypeOK'
  <2>1. worker' \in [Items -> [Gens -> Worker]]
    BY <1>12 DEF FenceUnlaunched, Worker
  <2>. QED  BY <1>12, <2>1 DEF FenceUnlaunched, runVars
<1>13. ASSUME NEW c \in Calls, NEW i \in Items, Replace(c, i) PROVE TypeOK'
  <2>1. node' \in [Items -> Node]
    <3>1. node[i].gen + 1 \in Gens
      <4>1. node[i].gen \in Gens /\ node[i].gen < MaxGen
        BY <1>13 DEF Replace, CanReplace, GenerationsFit
      <4>. QED  BY <4>1 DEF Gens
    <3>2. [node[i] EXCEPT !.gen = node[i].gen + 1, !.resGen = node[i].gen + 1,
                            !.res = "reserved"] \in Node
      BY <1>13, <3>1, NodeUpdates, <1>0
    <3>. QED  BY <1>13, <3>2, <1>0 DEF Replace
  <2>2. life' \in [Items -> Life]
    <3>1. [Invalidated(life[i]) EXCEPT !.cand = FALSE] \in Life
      BY <1>13, LifeUpdates, <1>0
    <3>. QED  BY <1>13, <3>1, <1>0 DEF Replace
  <2>3. git' \in [Items -> GitPhase]
    BY <1>13 DEF Replace, GitPhase
  <2>4. seen' \in [Calls -> (SUBSET Items) \cup {None}]
    BY <1>13 DEF Replace, Publish
  <2>. QED  BY <1>13, <2>1, <2>2, <2>3, <2>4 DEF Replace, runVars
<1>14. ASSUME NEW c \in Calls, NEW i \in Items, SetCandidate(c, i) PROVE TypeOK'
  <2>1. life' \in [Items -> Life]
    <3>1. /\ [Invalidated(life[i]) EXCEPT !.cand = TRUE] \in Life
          /\ [life[i] EXCEPT !.stop = TRUE, !.ready = FALSE] \in Life
      BY <1>14, LifeUpdates, <1>0
    <3>2. CASE life' = [life EXCEPT ![i].stop = TRUE, ![i].ready = FALSE]
      BY <1>14, <3>1, <3>2, <1>0
    <3>3. CASE life' = [life EXCEPT ![i] = [Invalidated(@) EXCEPT !.cand = TRUE]]
      BY <1>14, <3>1, <3>3, <1>0
    <3>. QED  BY <1>14, <3>2, <3>3 DEF SetCandidate
  <2>2. seen' \in [Calls -> (SUBSET Items) \cup {None}]
    BY <1>14 DEF SetCandidate, Publish
  <2>. QED  BY <1>14, <2>1, <2>2 DEF SetCandidate, runVars
<1>15. ASSUME NEW c \in Calls, NEW i \in Items, PrepareCheck(c, i) PROVE TypeOK'
  <2>1. life' \in [Items -> Life]
    <3>1. life[i].open \cup {"current"} \in SUBSET {"current", "stale"}
      BY <1>15, LifeUpdates, <1>0
    <3>2. [life[i] EXCEPT !.open = life[i].open \cup {"current"}] \in Life
      BY <1>15, <3>1, LifeUpdates, <1>0
    <3>. QED  BY <1>15, <3>2, <1>0 DEF PrepareCheck
  <2>2. seen' \in [Calls -> (SUBSET Items) \cup {None}]
    BY <1>15 DEF PrepareCheck, Publish
  <2>. QED  BY <1>15, <2>1, <2>2 DEF PrepareCheck, runVars
<1>16. ASSUME NEW c \in Calls, NEW i \in Items, NEW kind \in {"current", "stale"},
             NEW more \in BOOLEAN, RecordResult(c, i, kind, more)
      PROVE TypeOK'
  <2>1. life' \in [Items -> Life]
    <3>1. PICK failed \in BOOLEAN, found \in SUBSET Findings :
            \E l \in {[life[i] EXCEPT !.open = life[i].open],
                     [life[i] EXCEPT !.open = life[i].open \ {kind}]} :
              \/ life' = [life EXCEPT ![i] = l]
              \/ life' = [life EXCEPT ![i] = [l EXCEPT !.failed = l.failed \/ failed,
                                                       !.findings = l.findings \cup found]]
      BY <1>16 DEF RecordResult
    <3>2. \A l \in Life : [l EXCEPT !.failed = l.failed \/ failed,
                                    !.findings = l.findings \cup found] \in Life
      BY <3>1, LifeUpdates
    <3>3. /\ [life[i] EXCEPT !.open = life[i].open] \in Life
          /\ [life[i] EXCEPT !.open = life[i].open \ {kind}] \in Life
      BY <1>16, LifeUpdates, <1>0
    <3>4. PICK l \in Life : life' = [life EXCEPT ![i] = l]
      BY <3>1, <3>2, <3>3
    <3>. QED  BY <1>16, <3>4, <1>0
  <2>2. status' \in RunStatus
    BY <1>16 DEF RecordResult, RunStatus
  <2>3. seen' \in [Calls -> (SUBSET Items) \cup {None}]
    BY <1>16 DEF RecordResult, Publish
  <2>. QED  BY <1>16, <2>1, <2>2, <2>3 DEF RecordResult, runVars
<1>17. ASSUME NEW c \in Calls, NEW i \in Items, AdvanceToReady(c, i) PROVE TypeOK'
  <2>1. life' \in [Items -> Life]
    <3>1. [life[i] EXCEPT !.ready = TRUE] \in Life
      BY <1>17, LifeUpdates, <1>0
    <3>. QED  BY <1>17, <3>1, <1>0 DEF AdvanceToReady
  <2>2. seen' \in [Calls -> (SUBSET Items) \cup {None}]
    BY <1>17 DEF AdvanceToReady, Publish
  <2>. QED  BY <1>17, <2>1, <2>2 DEF AdvanceToReady, runVars
<1>18. ASSUME NEW c \in Calls, NEW i \in Items, RetryCheck(c, i) PROVE TypeOK'
  <2>1. life' \in [Items -> Life]
    <3>1. /\ [life[i] EXCEPT !.stop = TRUE] \in Life
          /\ [life[i] EXCEPT !.failed = FALSE, !.ready = FALSE] \in Life
      BY <1>18, LifeUpdates, <1>0
    <3>2. CASE life' = [life EXCEPT ![i].stop = TRUE]
      BY <1>18, <3>1, <3>2, <1>0
    <3>3. CASE life' = [life EXCEPT ![i].failed = FALSE, ![i].ready = FALSE]
      BY <1>18, <3>1, <3>3, <1>0
    <3>. QED  BY <1>18, <3>2, <3>3 DEF RetryCheck
  <2>2. seen' \in [Calls -> (SUBSET Items) \cup {None}]
    BY <1>18 DEF RetryCheck, Publish
  <2>. QED  BY <1>18, <2>1, <2>2 DEF RetryCheck, runVars
<1>19. ASSUME NEW c \in Calls, NEW i \in Items, NEW f \in Findings, DispositionFinding(c,
             i, f)
      PROVE TypeOK'
  <2>1. life' \in [Items -> Life]
    <3>1. life[i].findings \ {f} \in SUBSET Findings
      BY <1>19, LifeUpdates, <1>0
    <3>2. [life[i] EXCEPT !.findings = life[i].findings \ {f}] \in Life
      BY <1>19, <3>1, LifeUpdates, <1>0
    <3>. QED  BY <1>19, <3>2, <1>0 DEF DispositionFinding
  <2>2. seen' \in [Calls -> (SUBSET Items) \cup {None}]
    BY <1>19 DEF DispositionFinding, Publish
  <2>. QED  BY <1>19, <2>1, <2>2 DEF DispositionFinding, runVars
<1>20. ASSUME NEW c \in Calls, NEW g \in Gates, ReleaseGate(c, g) PROVE TypeOK'
  <2>1. released' \in SUBSET Gates
    BY <1>20 DEF ReleaseGate
  <2>2. seen' \in [Calls -> (SUBSET Items) \cup {None}]
    BY <1>20 DEF ReleaseGate, Publish
  <2>. QED  BY <1>20, <2>1, <2>2 DEF ReleaseGate, runVars
<1>21. ASSUME NEW c \in Calls, Pause(c) PROVE TypeOK'
  <2>1. status' \in RunStatus
    BY <1>21 DEF Pause, RunStatus
  <2>2. seen' \in [Calls -> (SUBSET Items) \cup {None}]
    BY <1>21 DEF Pause, Publish
  <2>. QED  BY <1>21, <2>1, <2>2 DEF Pause, runVars
<1>22. ASSUME NEW c \in Calls, Resume(c) PROVE TypeOK'
  <2>1. status' \in RunStatus
    BY <1>22 DEF Resume, RunStatus
  <2>2. seen' \in [Calls -> (SUBSET Items) \cup {None}]
    BY <1>22 DEF Resume, Publish
  <2>. QED  BY <1>22, <2>1, <2>2 DEF Resume, runVars
<1>23. ASSUME NEW c \in Calls, Cancel(c) PROVE TypeOK'
  <2>1. node' \in [Items -> Node]
    <3>1. \A j \in WithStatus("pending") \cup ActiveItems :
            [node[j] EXCEPT !.status = "cancelled", !.gen = node[j].gen + 1] \in Node
      <4>1. \A j \in WithStatus("pending") \cup ActiveItems :
              j \in Items /\ node[j] \in Node /\ node[j].gen \in Gens
        BY <1>0 DEF WithStatus, ActiveItems, GenerationsFit
      <4>2. \A g \in Gens : g + 1 \in 1..MaxGen + 1
        BY DEF Gens
      <4>. QED  BY <4>1, <4>2, NodeUpdates
    <3>. QED  BY <1>23, <3>1 DEF Cancel
  <2>2. life' \in [Items -> Life]
    BY <1>23, LifeUpdates, <1>0 DEF Cancel
  <2>3. status' \in RunStatus
    BY <1>23 DEF Cancel, RunStatus
  <2>4. seen' \in [Calls -> (SUBSET Items) \cup {None}]
    BY <1>23 DEF Cancel, Publish
  <2>. QED  BY <1>23, <2>1, <2>2, <2>3, <2>4 DEF Cancel, runVars
<1>24. ASSUME NEW c \in Calls, NEW i \in Items, Signal(c, i) PROVE TypeOK'
  <2>1. signalled' \in SUBSET Items
    BY <1>24 DEF Signal
  <2>. QED  BY <1>24, <2>1 DEF Signal, runVars
<1>25. ASSUME NEW c \in Calls, ReconcileCancellation(c) PROVE TypeOK'
  <2>1. status' \in RunStatus
    BY <1>25 DEF ReconcileCancellation, RunStatus
  <2>2. seen' \in [Calls -> (SUBSET Items) \cup {None}]
    BY <1>25 DEF ReconcileCancellation, Publish
  <2>. QED  BY <1>25, <2>1, <2>2 DEF ReconcileCancellation, runVars
<1>26. ASSUME NEW c \in Calls, NEW i \in Items, GitOpen(c, i) PROVE TypeOK'
  <2>1. git' \in [Items -> GitPhase]
    BY <1>26 DEF GitOpen, GitPhase
  <2>2. seen' \in [Calls -> (SUBSET Items) \cup {None}]
    BY <1>26 DEF GitOpen, Publish
  <2>. QED  BY <1>26, <2>1, <2>2 DEF GitOpen, runVars
<1>27. ASSUME NEW c \in Calls, NEW i \in Items, GitLaunch(c, i) PROVE TypeOK'
  <2>1. git' \in [Items -> GitPhase]
    BY <1>27 DEF GitLaunch, GitPhase
  <2>2. seen' \in [Calls -> (SUBSET Items) \cup {None}]
    BY <1>27 DEF GitLaunch, Publish
  <2>. QED  BY <1>27, <2>1, <2>2 DEF GitLaunch, runVars
<1>28. ASSUME NEW c \in Calls, NEW i \in Items, GitReconcile(c, i) PROVE TypeOK'
  <2>1. git' \in [Items -> GitPhase]
    BY <1>28 DEF GitReconcile, GitPhase
  <2>2. seen' \in [Calls -> (SUBSET Items) \cup {None}]
    BY <1>28 DEF GitReconcile, Publish
  <2>. QED  BY <1>28, <2>1, <2>2 DEF GitReconcile, runVars
<1>29. ASSUME NEW c \in Calls, NEW i \in Items, GitClose(c, i) PROVE TypeOK'
  <2>1. git' \in [Items -> GitPhase]
    BY <1>29 DEF GitClose, GitPhase
  <2>2. seen' \in [Calls -> (SUBSET Items) \cup {None}]
    BY <1>29 DEF GitClose, Publish
  <2>. QED  BY <1>29, <2>1, <2>2 DEF GitClose, runVars
<1>30. ASSUME NEW c \in Calls, NEW i \in Items, Integrate(c, i) PROVE TypeOK'
  <2>1. git' \in [Items -> GitPhase]
    BY <1>30 DEF Integrate, GitPhase
  <2>2. node' \in [Items -> Node]
    <3>1. [node[i] EXCEPT !.status = "complete"] \in Node
      BY <1>30, NodeUpdates, <1>0
    <3>. QED  BY <1>30, <3>1, <1>0 DEF Integrate
  <2>3. status' \in RunStatus
    BY <1>30 DEF Integrate, RunStatus
  <2>4. seen' \in [Calls -> (SUBSET Items) \cup {None}]
    BY <1>30 DEF Integrate, Publish
  <2>. QED  BY <1>30, <2>1, <2>2, <2>3, <2>4 DEF Integrate, runVars
<1>31. ASSUME NEW i \in Items, NEW g \in Gens, WorkerSettles(i, g) PROVE TypeOK'
  <2>1. worker' \in [Items -> [Gens -> Worker]]
    BY <1>31 DEF WorkerSettles, Worker
  <2>. QED  BY <1>31, <2>1 DEF WorkerSettles, runVars
<1>32. ASSUME NEW p \in Procs, ProcessDies(p) PROVE TypeOK'
  <2>1. alive' \in SUBSET Procs
    BY <1>32 DEF ProcessDies
  <2>2. seen' \in [Calls -> (SUBSET Items) \cup {None}]
    BY <1>32 DEF ProcessDies
  <2>3. txn' \in Dispatch \cup {None}
    BY <1>32 DEF ProcessDies, Dispatch
  <2>. QED  BY <1>32, <2>1, <2>2, <2>3 DEF ProcessDies, runVars
<1>33. CASE UNCHANGED vars
  BY <1>33 DEF vars, runVars
<1>. QED
  BY <1>1, <1>2, <1>3, <1>4, <1>5, <1>6, <1>7, <1>8, <1>9, <1>10, <1>11, <1>12, <1>13, <1>14,
     <1>15, <1>16, <1>17, <1>18, <1>19, <1>20, <1>21, <1>22, <1>23, <1>24, <1>25, <1>26, <1>27,
     <1>28, <1>29, <1>30, <1>31, <1>32, <1>33
     DEF Next, ItemStep

LEMMA NextIInv == IInv /\ [Next]_vars => IInv'
<1>. SUFFICES ASSUME IInv, [Next]_vars PROVE IInv'
  OBVIOUS
<1>. USE PlanAssumption DEF IInv
<1>0. TypeOK'
  BY TypeNext DEF IInv
<1>1. ASSUME NEW c \in Calls, AcquireLease(c) PROVE IInv'
  <2>1. SeenIsCurrent'
    BY <1>1 DEF AcquireLease, runVars, SeenIsCurrent, Complete, WithStatus
  <2>. QED  BY <1>1, <1>0, <2>1
               DEF AcquireLease, runVars, GenerationsFit, DispatchAgrees, WorkersAreKnown,
                   CurrentIsActive, UnresolvedIsWorked, ReadyIsClean, ScopeKept,
                   DependenciesIntegrated, SerialPrefix, ReservationMatches, TerminalMatches,
                   AcceptedStaysReady, CancelledIsQuiet, Unresolved, ActiveItems, Complete,
                   WithStatus, Finished
<1>2. ASSUME NEW c \in Calls, Observe(c) PROVE IInv'
  <2>1. SeenIsCurrent'
    BY <1>2 DEF Observe, runVars, SeenIsCurrent, Complete, WithStatus
  <2>. QED  BY <1>2, <1>0, <2>1
               DEF Observe, runVars, GenerationsFit, DispatchAgrees, WorkersAreKnown,
                   CurrentIsActive, UnresolvedIsWorked, ReadyIsClean, ScopeKept,
                   DependenciesIntegrated, SerialPrefix, ReservationMatches, TerminalMatches,
                   AcceptedStaysReady, CancelledIsQuiet, Unresolved, ActiveItems, Complete,
                   WithStatus, Finished
<1>3. ASSUME NEW c \in Calls, Annotate(c) PROVE IInv'
  <2>1. SeenIsCurrent'
    BY <1>3 DEF Annotate, Publish, SeenIsCurrent
  <2>. QED  BY <1>3, <1>0, <2>1
               DEF Annotate, runVars, GenerationsFit, DispatchAgrees, WorkersAreKnown,
                   CurrentIsActive, UnresolvedIsWorked, ReadyIsClean, ScopeKept,
                   DependenciesIntegrated, SerialPrefix, ReservationMatches, TerminalMatches,
                   AcceptedStaysReady, CancelledIsQuiet, Unresolved, ActiveItems, Complete,
                   WithStatus, Finished
<1>4. ASSUME NEW c \in Calls, NEW i \in Items, Reserve(c, i) PROVE IInv'
  <2>1. GenerationsFit'
    BY <1>4 DEF Reserve, TypeOK, Admissible, GenerationsFit
  <2>2. DispatchAgrees'
    BY <1>4 DEF Reserve, Mutates, Holds, DispatchAgrees
  <2>3. WorkersAreKnown'
    BY <1>4 DEF Reserve, TypeOK, WorkersAreKnown
  <2>4. SeenIsCurrent'
    BY <1>4 DEF Reserve, Publish, SeenIsCurrent
  <2>5. CurrentIsActive'
    BY <1>4 DEF Reserve, TypeOK, CurrentIsActive
  <2>6. UnresolvedIsWorked'
    BY <1>4 DEF Reserve, TypeOK, UnresolvedIsWorked, Unresolved
  <2>7. ScopeKept'
    BY <1>4 DEF Reserve, TypeOK, Admissible, ScopeKept
  <2>8. DependenciesIntegrated'
    BY <1>4
       DEF Reserve, TypeOK, Admissible, DependenciesIntegrated, ActiveItems, Complete, WithStatus
  <2>9. SerialPrefix'
    <3>1. \A j \in Items : node'[j].status = IF j = i THEN "active" ELSE node[j].status
      BY <1>4 DEF Reserve, TypeOK, Node
    <3>2. node[i].status = "pending" /\ i \in Scope /\ (Serial => NextSerial(i))
      BY <1>4 DEF Reserve, Admissible, ScopeKept
    <3>. SUFFICES ASSUME Serial, NEW m \in DOMAIN Order, NEW n \in DOMAIN Order, m < n,
                         Order[n] \in ActiveItems' \cup Complete'
                  PROVE  node'[Order[m]].status = "complete"
      BY DEF SerialPrefix, Complete, WithStatus
    <3>3. /\ Order[m] \in Items /\ Order[n] \in Items
          /\ m \in 1..n-1
          /\ \A q \in DOMAIN Order : Order[q] = Order[n] => q = n
      <4>1. Cardinality(Items) \in Nat
        BY FS_CardinalityType
      <4>2. m \in Int /\ n \in Int /\ 1 <= m
        BY <4>1
      <4>3. m \in 1..n-1
        BY <4>2
      <4>4. \A q \in DOMAIN Order : Order[q] = Order[n] => q = n
        BY DEF IsInjective
      <4>. QED  BY <4>3, <4>4
    <3>4. CASE Order[n] # i
      <4>1. Order[n] \in ActiveItems \cup Complete
        BY <3>1, <3>3, <3>4 DEF ActiveItems, Complete, WithStatus
      <4>2. node[Order[m]].status = "complete"
        BY <4>1 DEF SerialPrefix, Complete, WithStatus
      <4>. QED  BY <3>1, <3>2, <3>3, <4>2
    <3>5. CASE Order[n] = i
      <4>1. Finished(Order[m]) /\ Order[m] \in Scope
        BY <3>2, <3>3, <3>5 DEF NextSerial
      <4>2. node[Order[m]].status = "complete"
        BY <3>3, <4>1 DEF Finished, ScopeKept
      <4>. QED  BY <3>1, <3>2, <3>3, <4>2
    <3>. QED  BY <3>4, <3>5
  <2>10. ReservationMatches'
    BY <1>4 DEF Reserve, TypeOK, Node, runVars, ReservationMatches
  <2>11. TerminalMatches'
    BY <1>4 DEF Reserve, TypeOK, TerminalMatches, WithStatus, Finished
  <2>12. AcceptedStaysReady'
    BY <1>4 DEF Reserve, TypeOK, AcceptedStaysReady
  <2>. QED  BY <1>4, <1>0, <2>1, <2>2, <2>3, <2>4, <2>5, <2>6, <2>7, <2>8, <2>9, <2>10, <2>11, <2>12
               DEF Reserve, runVars, ReadyIsClean, CancelledIsQuiet, Unresolved
<1>5. ASSUME NEW c \in Calls, NEW i \in Items, BeginDispatch(c, i) PROVE IInv'
  <2>1. GenerationsFit'
    BY <1>5 DEF BeginDispatch, GenerationsFit
  <2>2. DispatchAgrees'
    BY <1>5 DEF BeginDispatch, TypeOK, DispatchAgrees
  <2>3. WorkersAreKnown'
    BY <1>5 DEF BeginDispatch, WorkersAreKnown
  <2>4. SeenIsCurrent'
    BY <1>5 DEF BeginDispatch, Publish, SeenIsCurrent, Complete, WithStatus
  <2>5. CurrentIsActive'
    BY <1>5 DEF BeginDispatch, CurrentIsActive
  <2>6. UnresolvedIsWorked'
    BY <1>5 DEF BeginDispatch, UnresolvedIsWorked, Unresolved
  <2>7. ScopeKept'
    BY <1>5 DEF BeginDispatch, ScopeKept
  <2>8. DependenciesIntegrated'
    BY <1>5 DEF BeginDispatch, DependenciesIntegrated, ActiveItems, Complete, WithStatus
  <2>9. SerialPrefix'
    BY <1>5 DEF BeginDispatch, SerialPrefix, ActiveItems, Complete, WithStatus
  <2>10. ReservationMatches'
    BY <1>5 DEF BeginDispatch, ReservationMatches
  <2>11. TerminalMatches'
    BY <1>5 DEF BeginDispatch, TerminalMatches, WithStatus, Finished
  <2>12. AcceptedStaysReady'
    BY <1>5 DEF BeginDispatch, AcceptedStaysReady
  <2>. QED  BY <1>5, <1>0, <2>1, <2>2, <2>3, <2>4, <2>5, <2>6, <2>7, <2>8, <2>9, <2>10, <2>11, <2>12
               DEF BeginDispatch, runVars, ReadyIsClean, CancelledIsQuiet, Unresolved
<1>6. ASSUME PrepareWorkspace PROVE IInv'
  <2>1. DispatchAgrees'
    BY <1>6 DEF PrepareWorkspace, DispatchAgrees
  <2>2. WorkersAreKnown'
    BY <1>6 DEF PrepareWorkspace, WorkersAreKnown
  <2>3. SeenIsCurrent'
    BY <1>6 DEF PrepareWorkspace, Publish, SeenIsCurrent, Complete, WithStatus
  <2>. QED  BY <1>6, <1>0, <2>1, <2>2, <2>3
               DEF PrepareWorkspace, runVars, GenerationsFit, CurrentIsActive, UnresolvedIsWorked,
                   ReadyIsClean, ScopeKept, DependenciesIntegrated, SerialPrefix,
                   ReservationMatches, TerminalMatches, AcceptedStaysReady, CancelledIsQuiet,
                   Unresolved, ActiveItems, Complete, WithStatus, Finished
<1>7. ASSUME PlanWorker PROVE IInv'
  <2>1. WorkersAreKnown'
    BY <1>7 DEF PlanWorker, runVars, WorkersAreKnown, DispatchAgrees
  <2>2. CancelledIsQuiet'
    BY <1>7 DEF PlanWorker, runVars, CancelledIsQuiet, DispatchAgrees
  <2>. QED  BY <1>7, <1>0, <2>1, <2>2
               DEF PlanWorker, runVars, GenerationsFit, DispatchAgrees, SeenIsCurrent,
                   CurrentIsActive, UnresolvedIsWorked, ReadyIsClean, ScopeKept,
                   DependenciesIntegrated, SerialPrefix, ReservationMatches, TerminalMatches,
                   AcceptedStaysReady, Complete, WithStatus, Unresolved, ActiveItems, Finished
<1>8. ASSUME Launch PROVE IInv'
  <2>1. DispatchAgrees'
    BY <1>8 DEF Launch, runVars, DispatchAgrees
  <2>2. WorkersAreKnown'
    BY <1>8 DEF Launch, runVars, WorkersAreKnown
  <2>3. CancelledIsQuiet'
    BY <1>8 DEF Launch, runVars, CancelledIsQuiet, DispatchAgrees
  <2>. QED  BY <1>8, <1>0, <2>1, <2>2, <2>3
               DEF Launch, runVars, GenerationsFit, SeenIsCurrent, CurrentIsActive,
                   UnresolvedIsWorked, ReadyIsClean, ScopeKept, DependenciesIntegrated,
                   SerialPrefix, ReservationMatches, TerminalMatches, AcceptedStaysReady, Complete,
                   WithStatus, Unresolved, ActiveItems, Finished
<1>9. ASSUME Bind PROVE IInv'
  <2>1. GenerationsFit'
    BY <1>9 DEF Bind, GenerationsFit
  <2>2. DispatchAgrees'
    BY <1>9 DEF Bind, DispatchAgrees
  <2>3. WorkersAreKnown'
    BY <1>9 DEF Bind, WorkersAreKnown
  <2>4. SeenIsCurrent'
    BY <1>9 DEF Bind, Publish, SeenIsCurrent
  <2>5. CurrentIsActive'
    BY <1>9 DEF Bind, CurrentIsActive
  <2>6. UnresolvedIsWorked'
    BY <1>9 DEF Bind, UnresolvedIsWorked, Unresolved
  <2>7. ScopeKept'
    BY <1>9 DEF Bind, ScopeKept
  <2>8. DependenciesIntegrated'
    BY <1>9 DEF Bind, DependenciesIntegrated, ActiveItems, Complete, WithStatus
  <2>9. SerialPrefix'
    BY <1>9 DEF Bind, SerialPrefix, ActiveItems, Complete, WithStatus
  <2>10. ReservationMatches'
    <3>1. /\ txn.item \in Items
          /\ node[txn.item].status = "active" /\ node[txn.item].res = "dispatching"
      BY <1>9 DEF Bind, TypeOK, DispatchAgrees
    <3>2. \A j \in Items : /\ node'[j].status = node[j].status /\ node'[j].gen = node[j].gen
                           /\ node'[j].resGen = node[j].resGen
                           /\ node'[j].res = IF j = txn.item THEN "bound" ELSE node[j].res
      BY <1>9, <3>1 DEF Bind, TypeOK, Node
    <3>. SUFFICES ASSUME NEW j \in Items
                  PROVE  /\ node'[j].status = "active" => node'[j].res # "none"
                         /\ node'[j].res # "none" =>
                              /\ node'[j].status \in {"active", "complete", "cancelled"}
                              /\ node'[j].resGen =
                                   node'[j].gen - (IF node'[j].status = "cancelled" THEN 1 ELSE 0)
      BY DEF ReservationMatches
    <3>3. node[j].res # "none" <=> node'[j].res # "none"
      BY <3>1, <3>2
    <3>. QED  BY <3>2, <3>3 DEF ReservationMatches
  <2>11. TerminalMatches'
    BY <1>9 DEF Bind, TerminalMatches, ActiveItems, WithStatus, Finished, Unresolved
  <2>12. AcceptedStaysReady'
    BY <1>9 DEF Bind, AcceptedStaysReady
  <2>. QED  BY <1>9, <1>0, <2>1, <2>2, <2>3, <2>4, <2>5, <2>6, <2>7, <2>8, <2>9, <2>10, <2>11, <2>12
               DEF Bind, runVars, ReadyIsClean, CancelledIsQuiet, Unresolved
<1>10. ASSUME AbandonDispatch PROVE IInv'
  <2>1. DispatchAgrees'
    BY <1>10 DEF AbandonDispatch, DispatchAgrees
  <2>. QED  BY <1>10, <1>0, <2>1
               DEF AbandonDispatch, runVars, GenerationsFit, WorkersAreKnown, SeenIsCurrent,
                   CurrentIsActive, UnresolvedIsWorked, ReadyIsClean, ScopeKept,
                   DependenciesIntegrated, SerialPrefix, ReservationMatches, TerminalMatches,
                   AcceptedStaysReady, CancelledIsQuiet, Complete, WithStatus, Unresolved,
                   ActiveItems, Finished
<1>11. ASSUME NEW c \in Calls, NEW i \in Items, RecoverBinding(c, i) PROVE IInv'
  <2>1. GenerationsFit'
    BY <1>11 DEF RecoverBinding, GenerationsFit
  <2>2. DispatchAgrees'
    BY <1>11 DEF RecoverBinding, Mutates, Holds, DispatchAgrees
  <2>3. WorkersAreKnown'
    BY <1>11 DEF RecoverBinding, WorkersAreKnown
  <2>4. SeenIsCurrent'
    BY <1>11 DEF RecoverBinding, Publish, SeenIsCurrent
  <2>5. CurrentIsActive'
    BY <1>11 DEF RecoverBinding, CurrentIsActive
  <2>6. UnresolvedIsWorked'
    BY <1>11 DEF RecoverBinding, UnresolvedIsWorked, Unresolved
  <2>7. ScopeKept'
    BY <1>11 DEF RecoverBinding, ScopeKept
  <2>8. DependenciesIntegrated'
    BY <1>11 DEF RecoverBinding, DependenciesIntegrated, ActiveItems, Complete, WithStatus
  <2>9. SerialPrefix'
    BY <1>11 DEF RecoverBinding, SerialPrefix, ActiveItems, Complete, WithStatus
  <2>10. ReservationMatches'
    BY <1>11 DEF RecoverBinding, ReservationMatches
  <2>11. TerminalMatches'
    BY <1>11 DEF RecoverBinding, TerminalMatches, ActiveItems, WithStatus, Finished, Unresolved
  <2>12. AcceptedStaysReady'
    BY <1>11 DEF RecoverBinding, AcceptedStaysReady
  <2>. QED  BY <1>11, <1>0, <2>1, <2>2, <2>3, <2>4, <2>5, <2>6, <2>7, <2>8, <2>9, <2>10, <2>11,
               <2>12
               DEF RecoverBinding, runVars, ReadyIsClean, CancelledIsQuiet, Unresolved
<1>12. ASSUME NEW c \in Calls, NEW i \in Items, FenceUnlaunched(c, i) PROVE IInv'
  <2>1. WorkersAreKnown'
    BY <1>12 DEF FenceUnlaunched, runVars, WorkersAreKnown
  <2>2. CancelledIsQuiet'
    BY <1>12 DEF FenceUnlaunched, runVars, CancelledIsQuiet, Unresolved
  <2>. QED  BY <1>12, <1>0, <2>1, <2>2
               DEF FenceUnlaunched, runVars, GenerationsFit, DispatchAgrees, SeenIsCurrent,
                   CurrentIsActive, UnresolvedIsWorked, ReadyIsClean, ScopeKept,
                   DependenciesIntegrated, SerialPrefix, ReservationMatches, TerminalMatches,
                   AcceptedStaysReady, Complete, WithStatus, Unresolved, ActiveItems, Finished
<1>13. ASSUME NEW c \in Calls, NEW i \in Items, Replace(c, i) PROVE IInv'
  <2>1. GenerationsFit'
    BY <1>13 DEF Replace, TypeOK, GenerationsFit, Gens
  <2>2. DispatchAgrees'
    BY <1>13 DEF Replace, Mutates, Holds, DispatchAgrees
  <2>3. WorkersAreKnown'
    BY <1>13 DEF Replace, TypeOK, Settled, WorkersAreKnown
  <2>4. SeenIsCurrent'
    BY <1>13 DEF Replace, Publish, SeenIsCurrent
  <2>5. CurrentIsActive'
    BY <1>13 DEF Replace, TypeOK, Invalidated, CurrentIsActive
  <2>6. UnresolvedIsWorked'
    BY <1>13 DEF Replace, TypeOK, Unresolved, UnresolvedIsWorked
  <2>7. ReadyIsClean'
    BY <1>13 DEF Replace, Invalidated, ReadyIsClean
  <2>8. ScopeKept'
    BY <1>13 DEF Replace, TypeOK, ScopeKept
  <2>9. DependenciesIntegrated'
    BY <1>13 DEF Replace, TypeOK, DependenciesIntegrated, ActiveItems, Complete, WithStatus
  <2>10. SerialPrefix'
    BY <1>13 DEF Replace, TypeOK, SerialPrefix, ActiveItems, Complete, WithStatus
  <2>11. ReservationMatches'
    BY <1>13 DEF Replace, TypeOK, Node, runVars, CanReplace, ReservationMatches
  <2>12. TerminalMatches'
    BY <1>13
       DEF Replace, TypeOK, Node, runVars, Mutates, Holds, Publish, CanReplace, TerminalMatches,
           WithStatus, Finished
  <2>13. AcceptedStaysReady'
    BY <1>13 DEF Replace, TypeOK, CanReplace, AcceptedStaysReady
  <2>14. CancelledIsQuiet'
    BY <1>13 DEF Replace, Invalidated, Unresolved, CancelledIsQuiet
  <2>. QED  BY <1>13, <1>0, <2>1, <2>2, <2>3, <2>4, <2>5, <2>6, <2>7, <2>8, <2>9, <2>10, <2>11,
               <2>12, <2>13, <2>14
               DEF Replace, runVars
<1>14. ASSUME NEW c \in Calls, NEW i \in Items, SetCandidate(c, i) PROVE IInv'
  <2>1. /\ \A j \in Items \ {i} : life'[j] = life[j]
        /\ ~ life'[i].ready /\ node[i].status = "active"
        /\ "current" \in life'[i].open => "current" \in life[i].open
    <3>1. node[i].status = "active" /\ life[i] \in Life
      BY <1>14 DEF SetCandidate, Bound, TypeOK
    <3>2. CASE life' = [life EXCEPT ![i].stop = TRUE, ![i].ready = FALSE]
      BY <1>14, <3>1, <3>2 DEF TypeOK, Life
    <3>3. CASE life' = [life EXCEPT ![i] = [Invalidated(@) EXCEPT !.cand = TRUE]]
      BY <1>14, <3>1, <3>3 DEF TypeOK, Life, Invalidated
    <3>. QED  BY <1>14, <3>1, <3>2, <3>3 DEF SetCandidate
  <2>2. SeenIsCurrent'
    BY <1>14 DEF SetCandidate, Publish, SeenIsCurrent, TypeOK
  <2>3. CurrentIsActive'
    BY <1>14, <2>1 DEF SetCandidate, CurrentIsActive
  <2>4. ReadyIsClean'
    BY <2>1 DEF ReadyIsClean
  <2>5. AcceptedStaysReady'
    BY <1>14, <2>1 DEF SetCandidate, AcceptedStaysReady
  <2>6. CancelledIsQuiet'
    BY <1>14 DEF SetCandidate, CancelledIsQuiet, Unresolved
  <2>. QED  BY <1>14, <1>0, <2>2, <2>3, <2>4, <2>5, <2>6
           DEF SetCandidate, GenerationsFit, DispatchAgrees, WorkersAreKnown, UnresolvedIsWorked,
               ScopeKept, DependenciesIntegrated, SerialPrefix, ReservationMatches, TerminalMatches,
               ActiveItems, Complete, WithStatus, Finished, Unresolved
<1>15. ASSUME NEW c \in Calls, NEW i \in Items, PrepareCheck(c, i) PROVE IInv'
  <2>1. SeenIsCurrent'
    BY <1>15 DEF PrepareCheck, Publish, SeenIsCurrent
  <2>2. CurrentIsActive'
    BY <1>15 DEF PrepareCheck, CurrentIsActive
  <2>3. ReadyIsClean'
    BY <1>15 DEF PrepareCheck, ReadyIsClean
  <2>4. AcceptedStaysReady'
    BY <1>15 DEF PrepareCheck, AcceptedStaysReady
  <2>5. CancelledIsQuiet'
    BY <1>15 DEF PrepareCheck, CancelledIsQuiet
  <2>. QED  BY <1>15, <1>0, <2>1, <2>2, <2>3, <2>4, <2>5
               DEF PrepareCheck, runVars, GenerationsFit, DispatchAgrees, WorkersAreKnown,
                   UnresolvedIsWorked, ScopeKept, DependenciesIntegrated, SerialPrefix,
                   ReservationMatches, TerminalMatches, Unresolved, ActiveItems, Complete,
                   WithStatus, Finished
<1>16. ASSUME NEW c \in Calls, NEW i \in Items, NEW kind \in {"current",
             "stale"}, NEW more \in BOOLEAN, RecordResult(c, i, kind, more)
      PROVE IInv'
  <2>1. /\ kind \in life[i].open /\ ~ life[i].ready
        /\ node[i].status # "complete" /\ status # "cancelled"
    BY <1>16 DEF RecordResult, ReadyIsClean, AcceptedStaysReady, CancelledIsQuiet
  <2>2. /\ \A j \in Items \ {i} : life'[j] = life[j]
        /\ ~ life'[i].ready /\ life'[i].open \subseteq life[i].open
        /\ status' = status \/ (kind = "current" /\ status' = "needs_replan")
    <3>1. life[i] \in Life
      BY <1>16 DEF TypeOK
    <3>2. PICK failed \in BOOLEAN, found \in SUBSET Findings :
            LET l == [life[i] EXCEPT !.open = IF more THEN @ ELSE @ \ {kind}] IN
            IF kind = "current"
              THEN /\ life' = [life EXCEPT ![i] = [l EXCEPT !.failed = @ \/ failed,
                                                            !.findings = @ \cup found]]
                   /\ status' \in {status, "needs_replan"}
              ELSE life' = [life EXCEPT ![i] = l] /\ status' = status
      BY <1>16 DEF RecordResult
    <3>3. \A l \in Life : \A x, y :
            /\ [l EXCEPT !.failed = x, !.findings = y].ready = l.ready
            /\ [l EXCEPT !.failed = x, !.findings = y].open = l.open
      BY DEF Life
    <3>4. \A o \in SUBSET {"current", "stale"} :
            /\ [life[i] EXCEPT !.open = o] \in Life
            /\ [life[i] EXCEPT !.open = o].ready = life[i].ready
            /\ [life[i] EXCEPT !.open = o].open = o
      BY <3>1 DEF Life
    <3>5. PICK o \in SUBSET {"current", "stale"} :
            o \subseteq life[i].open /\ o = IF more THEN life[i].open ELSE life[i].open \ {kind}
      BY <3>1 DEF Life
    <3>6. CASE kind = "current"
      <4>1. PICK x, y : life' = [life EXCEPT ![i] = [[life[i] EXCEPT !.open = o]
                                                       EXCEPT !.failed = x, !.findings = y]]
        BY <3>2, <3>5, <3>6
      <4>2. /\ life'[i] = [[life[i] EXCEPT !.open = o] EXCEPT !.failed = x, !.findings = y]
            /\ \A j \in Items \ {i} : life'[j] = life[j]
        BY <1>16, <4>1 DEF TypeOK
      <4>3. life'[i].ready = life[i].ready /\ life'[i].open = o
        BY <3>3, <3>4, <4>2
      <4>4. status' = status \/ (kind = "current" /\ status' = "needs_replan")
        BY <3>2, <3>6
      <4>5. life'[i].open \subseteq life[i].open /\ ~ life'[i].ready
        BY <2>1, <3>5, <4>3
      <4>. QED  BY <4>2, <4>4, <4>5
    <3>7. CASE kind # "current"
      <4>1. life' = [life EXCEPT ![i] = [life[i] EXCEPT !.open = o]] /\ UNCHANGED status
        BY <3>2, <3>5, <3>7
      <4>2. life'[i] = [life[i] EXCEPT !.open = o] /\ \A j \in Items \ {i} : life'[j] = life[j]
        BY <1>16, <4>1 DEF TypeOK
      <4>3. life'[i].ready = life[i].ready /\ life'[i].open = o
        BY <3>4, <4>2
      <4>4. life'[i].open \subseteq life[i].open /\ ~ life'[i].ready
        BY <2>1, <3>5, <4>3
      <4>5. status' = status
        BY <4>1
      <4>. QED  BY <4>2, <4>4, <4>5
    <3>. QED  BY <3>6, <3>7
  <2>3. \/ status' = status
        \/ node[i].status = "active" /\ status \notin {"complete", "cancelling", "cancelled"}
    BY <1>16, <2>1, <2>2 DEF CurrentIsActive, TerminalMatches, Finished, ActiveItems, WithStatus
  <2>4. DispatchAgrees' /\ SeenIsCurrent'
    BY <1>16 DEF RecordResult, Mutates, Holds, Publish, DispatchAgrees, SeenIsCurrent
  <2>5. CurrentIsActive'
    BY <1>16, <2>2 DEF RecordResult, CurrentIsActive
  <2>6. ReadyIsClean'
    BY <2>2 DEF ReadyIsClean
  <2>7. TerminalMatches'
    BY <1>16, <2>2, <2>3
       DEF RecordResult, TerminalMatches, ActiveItems, WithStatus, Finished, Unresolved
  <2>8. AcceptedStaysReady'
    BY <1>16, <2>1, <2>2 DEF RecordResult, AcceptedStaysReady
  <2>9. CancelledIsQuiet'
    BY <1>16, <2>1, <2>2 DEF RecordResult, CancelledIsQuiet, Unresolved
  <2>. QED  BY <1>16, <1>0, <2>4, <2>5, <2>6, <2>7, <2>8, <2>9
           DEF RecordResult, GenerationsFit, WorkersAreKnown, UnresolvedIsWorked, ScopeKept,
               DependenciesIntegrated, SerialPrefix, ReservationMatches, ActiveItems, Complete,
               WithStatus, Unresolved
<1>17. ASSUME NEW c \in Calls, NEW i \in Items, AdvanceToReady(c, i) PROVE IInv'
  <2>1. SeenIsCurrent'
    BY <1>17 DEF AdvanceToReady, Publish, SeenIsCurrent
  <2>2. CurrentIsActive'
    BY <1>17 DEF AdvanceToReady, CurrentIsActive
  <2>3. ReadyIsClean'
    BY <1>17 DEF AdvanceToReady, ReadyIsClean
  <2>4. AcceptedStaysReady'
    BY <1>17 DEF AdvanceToReady, AcceptedStaysReady
  <2>5. CancelledIsQuiet'
    BY <1>17 DEF AdvanceToReady, CancelledIsQuiet
  <2>. QED  BY <1>17, <1>0, <2>1, <2>2, <2>3, <2>4, <2>5
               DEF AdvanceToReady, runVars, GenerationsFit, DispatchAgrees, WorkersAreKnown,
                   UnresolvedIsWorked, ScopeKept, DependenciesIntegrated, SerialPrefix,
                   ReservationMatches, TerminalMatches, Unresolved, ActiveItems, Complete,
                   WithStatus, Finished
<1>18. ASSUME NEW c \in Calls, NEW i \in Items, RetryCheck(c, i) PROVE IInv'
  <2>1. /\ \A j \in Items \ {i} : life'[j] = life[j]
        /\ ~ life'[i].ready /\ life'[i].open = life[i].open
        /\ node[i].status # "complete"
    <3>1. ~ life[i].ready /\ life[i].failed /\ life[i] \in Life
      BY <1>18 DEF RetryCheck, TypeOK, ReadyIsClean
    <3>2. CASE life' = [life EXCEPT ![i].stop = TRUE]
      BY <1>18, <3>1, <3>2 DEF TypeOK, Life, AcceptedStaysReady
    <3>3. CASE life' = [life EXCEPT ![i].failed = FALSE, ![i].ready = FALSE]
      BY <1>18, <3>1, <3>3 DEF TypeOK, Life, AcceptedStaysReady
    <3>. QED  BY <1>18, <3>2, <3>3 DEF RetryCheck
  <2>2. SeenIsCurrent'
    BY <1>18 DEF RetryCheck, Publish, SeenIsCurrent, TypeOK
  <2>3. CurrentIsActive'
    BY <1>18, <2>1 DEF RetryCheck, CurrentIsActive
  <2>4. ReadyIsClean'
    BY <2>1 DEF ReadyIsClean
  <2>5. AcceptedStaysReady'
    BY <1>18, <2>1 DEF RetryCheck, AcceptedStaysReady
  <2>6. CancelledIsQuiet'
    BY <1>18 DEF RetryCheck, CancelledIsQuiet, Unresolved
  <2>. QED  BY <1>18, <1>0, <2>2, <2>3, <2>4, <2>5, <2>6
           DEF RetryCheck, GenerationsFit, DispatchAgrees, WorkersAreKnown, UnresolvedIsWorked,
               ScopeKept, DependenciesIntegrated, SerialPrefix, ReservationMatches, TerminalMatches,
               ActiveItems, Complete, WithStatus, Finished, Unresolved
<1>19. ASSUME NEW c \in Calls, NEW i \in Items, NEW f \in Findings, DispositionFinding(c, i, f)
      PROVE IInv'
  <2>1. SeenIsCurrent'
    BY <1>19 DEF DispositionFinding, Publish, SeenIsCurrent
  <2>2. CurrentIsActive'
    BY <1>19 DEF DispositionFinding, CurrentIsActive
  <2>3. ReadyIsClean'
    BY <1>19 DEF DispositionFinding, ReadyIsClean
  <2>4. AcceptedStaysReady'
    BY <1>19 DEF DispositionFinding, AcceptedStaysReady
  <2>5. CancelledIsQuiet'
    BY <1>19 DEF DispositionFinding, CancelledIsQuiet
  <2>. QED  BY <1>19, <1>0, <2>1, <2>2, <2>3, <2>4, <2>5
               DEF DispositionFinding, runVars, GenerationsFit, DispatchAgrees, WorkersAreKnown,
                   UnresolvedIsWorked, ScopeKept, DependenciesIntegrated, SerialPrefix,
                   ReservationMatches, TerminalMatches, Unresolved, ActiveItems, Complete,
                   WithStatus, Finished
<1>20. ASSUME NEW c \in Calls, NEW g \in Gates, ReleaseGate(c, g) PROVE IInv'
  <2>1. SeenIsCurrent'
    BY <1>20 DEF ReleaseGate, Publish, SeenIsCurrent
  <2>. QED  BY <1>20, <1>0, <2>1
               DEF ReleaseGate, runVars, GenerationsFit, DispatchAgrees, WorkersAreKnown,
                   CurrentIsActive, UnresolvedIsWorked, ReadyIsClean, ScopeKept,
                   DependenciesIntegrated, SerialPrefix, ReservationMatches, TerminalMatches,
                   AcceptedStaysReady, CancelledIsQuiet, Unresolved, ActiveItems, Complete,
                   WithStatus, Finished
<1>21. ASSUME NEW c \in Calls, Pause(c) PROVE IInv'
  <2>1. DispatchAgrees'
    BY <1>21 DEF Pause, Mutates, Holds, DispatchAgrees
  <2>2. SeenIsCurrent'
    BY <1>21 DEF Pause, Publish, SeenIsCurrent
  <2>3. TerminalMatches'
    BY <1>21 DEF Pause, TerminalMatches, WithStatus, Finished
  <2>4. CancelledIsQuiet'
    BY <1>21 DEF Pause, CancelledIsQuiet
  <2>. QED  BY <1>21, <1>0, <2>1, <2>2, <2>3, <2>4
               DEF Pause, runVars, GenerationsFit, WorkersAreKnown, CurrentIsActive,
                   UnresolvedIsWorked, ReadyIsClean, ScopeKept, DependenciesIntegrated,
                   SerialPrefix, ReservationMatches, AcceptedStaysReady, Unresolved, ActiveItems,
                   Complete, WithStatus
<1>22. ASSUME NEW c \in Calls, Resume(c) PROVE IInv'
  <2>1. DispatchAgrees'
    BY <1>22 DEF Resume, DispatchAgrees
  <2>2. SeenIsCurrent'
    BY <1>22 DEF Resume, Publish, SeenIsCurrent
  <2>3. TerminalMatches'
    BY <1>22 DEF Resume, TerminalMatches, WithStatus, Finished
  <2>4. CancelledIsQuiet'
    BY <1>22 DEF Resume, CancelledIsQuiet
  <2>. QED  BY <1>22, <1>0, <2>1, <2>2, <2>3, <2>4
               DEF Resume, runVars, GenerationsFit, WorkersAreKnown, CurrentIsActive,
                   UnresolvedIsWorked, ReadyIsClean, ScopeKept, DependenciesIntegrated,
                   SerialPrefix, ReservationMatches, AcceptedStaysReady, Unresolved, ActiveItems,
                   Complete, WithStatus
<1>23. ASSUME NEW c \in Calls, Cancel(c) PROVE IInv'
  <2>1. \A j \in Items :
          /\ node[j].status \in {"pending", "active"} =>
               node'[j].status = "cancelled" /\ node'[j].gen = node[j].gen + 1
          /\ node[j].status \notin {"pending", "active"} => node'[j] = node[j] /\ life'[j] = life[j]
          /\ node'[j].res = node[j].res /\ node'[j].resGen = node[j].resGen
    <3>1. \A j \in Items :
            /\ node[j] \in Node
            /\ node[j].status \in {"pending", "active"} =>
                 node'[j] = [node[j] EXCEPT !.status = "cancelled", !.gen = @ + 1]
            /\ node[j].status \notin {"pending", "active"} =>
                 node'[j] = node[j] /\ life'[j] = life[j]
      BY <1>23 DEF Cancel, TypeOK, WithStatus, ActiveItems
    <3>. TAKE j \in Items
    <3>2. node[j] \in Node
      BY <3>1
    <3>3. CASE node[j].status \in {"pending", "active"}
      <4>1. \A n \in Node : LET f == [n EXCEPT !.status = "cancelled", !.gen = @ + 1] IN
              f.status = "cancelled" /\ f.gen = n.gen + 1 /\ f.res = n.res /\ f.resGen = n.resGen
        BY DEF Node
      <4>. QED  BY <3>1, <3>2, <3>3, <4>1
    <3>. QED  BY <3>1, <3>3
  <2>2. \A j \in Items : node[j].status \in {"pending", "active"} =>
          ~ life'[j].ready /\ "current" \notin life'[j].open
    <3>1. \A j \in Items : node[j].status \in {"pending", "active"} =>
            life[j] \in Life /\ life'[j] = Invalidated(life[j])
      BY <1>23 DEF Cancel, TypeOK, WithStatus, ActiveItems
    <3>2. \A l \in Life : ~ Invalidated(l).ready /\ "current" \notin Invalidated(l).open
      BY DEF Life, Invalidated
    <3>. SUFFICES ASSUME NEW j \in Items, node[j].status \in {"pending", "active"}
                  PROVE  ~ life'[j].ready /\ "current" \notin life'[j].open
      OBVIOUS
    <3>3. life[j] \in Life /\ life'[j] = Invalidated(life[j])
      BY <3>1
    <3>. QED  BY <3>2, <3>3
  <2>3. status' = "cancelling" /\ status \in {"active", "paused", "needs_replan"}
    BY <1>23 DEF Cancel
  <2>4. UNCHANGED <<worker, workspace, git, txn, released>> /\ txn = None
    BY <1>23 DEF Cancel, Mutates, Holds
  <2>5. GenerationsFit' /\ DispatchAgrees' /\ SeenIsCurrent' /\ ScopeKept'
    BY <1>23, <2>1, <2>4
       DEF Cancel, Publish, TypeOK, GenerationsFit, DispatchAgrees, SeenIsCurrent, ScopeKept
  <2>6. WorkersAreKnown'
    BY <2>1, <2>4 DEF WorkersAreKnown
  <2>7. CurrentIsActive' /\ ReadyIsClean'
    BY <2>1, <2>2 DEF CurrentIsActive, ReadyIsClean
  <2>8. UnresolvedIsWorked'
    BY <2>1, <2>4 DEF UnresolvedIsWorked, Unresolved
  <2>9. ActiveItems' = {} /\ WithStatus("pending")' = {} /\ Complete' = Complete
    BY <2>1 DEF ActiveItems, Complete, WithStatus
  <2>9a. DependenciesIntegrated' /\ SerialPrefix'
    BY <2>9 DEF DependenciesIntegrated, SerialPrefix
  <2>10. ReservationMatches'
    <3>1. \A j \in Items : node[j].gen \in 1..MaxGen + 1 /\ node[j].resGen \in Gens
      BY DEF TypeOK, Node
    <3>2. \A j \in Items : node[j].gen \in Int
      BY <3>1
    <3>. SUFFICES ASSUME NEW j \in Items
                  PROVE  /\ node'[j].status = "active" => node'[j].res # "none"
                         /\ node'[j].res # "none" =>
                              /\ node'[j].status \in {"active", "complete", "cancelled"}
                              /\ node'[j].resGen =
                                   node'[j].gen - (IF node'[j].status = "cancelled" THEN 1 ELSE 0)
      BY DEF ReservationMatches
    <3>3. CASE node[j].status \in {"pending", "active"}
      <4>1. node[j].res # "none" => node[j].resGen = node[j].gen
        <5>1. node[j].status # "cancelled" /\ node[j].gen \in Int
          BY <3>2, <3>3
        <5>2. node[j].res # "none" => node[j].resGen = node[j].gen - 0
          BY <5>1 DEF ReservationMatches
        <5>. QED  BY <5>1, <5>2
      <4>2. node'[j].status = "cancelled" /\ node'[j].gen = node[j].gen + 1
            /\ node'[j].res = node[j].res /\ node'[j].resGen = node[j].resGen
        BY <2>1, <3>3
      <4>3. node[j].gen \in Int /\ node[j].gen = (node[j].gen + 1) - 1
        BY <3>2
      <4>4. node'[j].res # "none" => node'[j].resGen = node'[j].gen - 1
        BY <4>1, <4>2, <4>3
      <4>. QED  BY <4>2, <4>4
    <3>4. CASE node[j].status \notin {"pending", "active"}
      BY <2>1, <3>4 DEF ReservationMatches
    <3>. QED  BY <3>3, <3>4
  <2>11. TerminalMatches'
    <3>1. PICK j \in Items : ~ Finished(j)
      BY <2>3 DEF TerminalMatches
    <3>2. node[j].status \in {"pending", "active"}
      BY <2>3, <3>1 DEF TerminalMatches, WithStatus, Finished, TypeOK, Node, NodeStatus
    <3>3. \E q \in Items : ~ Finished(q)'
      BY <2>1, <3>2 DEF Finished
    <3>. QED  BY <2>3, <2>9, <3>3 DEF TerminalMatches
  <2>12. AcceptedStaysReady'
    BY <2>1, <2>4 DEF AcceptedStaysReady
  <2>13. CancelledIsQuiet'
    BY <2>3 DEF CancelledIsQuiet
  <2>. QED  BY <1>0, <2>5, <2>6, <2>7, <2>8, <2>9a, <2>10, <2>11, <2>12, <2>13
<1>24. ASSUME NEW c \in Calls, NEW i \in Items, Signal(c, i) PROVE IInv'
  <2>. QED  BY <1>24, <1>0
               DEF Signal, runVars, GenerationsFit, DispatchAgrees, WorkersAreKnown, SeenIsCurrent,
                   CurrentIsActive, UnresolvedIsWorked, ReadyIsClean, ScopeKept,
                   DependenciesIntegrated, SerialPrefix, ReservationMatches, TerminalMatches,
                   AcceptedStaysReady, CancelledIsQuiet, Complete, WithStatus, Unresolved,
                   ActiveItems, Finished
<1>25. ASSUME NEW c \in Calls, ReconcileCancellation(c) PROVE IInv'
  <2>1. DispatchAgrees'
    BY <1>25 DEF ReconcileCancellation, DispatchAgrees
  <2>2. SeenIsCurrent'
    BY <1>25 DEF ReconcileCancellation, Publish, SeenIsCurrent
  <2>3. TerminalMatches'
    BY <1>25
       DEF ReconcileCancellation, Unresolved, TerminalMatches, ActiveItems, WithStatus, Finished
  <2>4. CancelledIsQuiet'
    BY <1>25 DEF ReconcileCancellation, Settled, Unresolved, CancelledIsQuiet, WorkersAreKnown
  <2>. QED  BY <1>25, <1>0, <2>1, <2>2, <2>3, <2>4
               DEF ReconcileCancellation, runVars, GenerationsFit, WorkersAreKnown, CurrentIsActive,
                   UnresolvedIsWorked, ReadyIsClean, ScopeKept, DependenciesIntegrated,
                   SerialPrefix, ReservationMatches, AcceptedStaysReady, Unresolved, ActiveItems,
                   Complete, WithStatus
<1>26. ASSUME NEW c \in Calls, NEW i \in Items, GitOpen(c, i) PROVE IInv'
  <2>1. SeenIsCurrent'
    BY <1>26 DEF GitOpen, Publish, SeenIsCurrent
  <2>2. UnresolvedIsWorked'
    BY <1>26 DEF GitOpen, Landable, Bound, Unresolved, UnresolvedIsWorked
  <2>3. TerminalMatches'
    BY <1>26 DEF GitOpen, Landable, TerminalMatches, WithStatus, Finished
  <2>4. AcceptedStaysReady'
    BY <1>26 DEF GitOpen, AcceptedStaysReady
  <2>5. CancelledIsQuiet'
    BY <1>26 DEF GitOpen, Landable, CancelledIsQuiet
  <2>. QED  BY <1>26, <1>0, <2>1, <2>2, <2>3, <2>4, <2>5
               DEF GitOpen, runVars, GenerationsFit, DispatchAgrees, WorkersAreKnown,
                   CurrentIsActive, ReadyIsClean, ScopeKept, DependenciesIntegrated, SerialPrefix,
                   ReservationMatches, ActiveItems, Complete, WithStatus
<1>27. ASSUME NEW c \in Calls, NEW i \in Items, GitLaunch(c, i) PROVE IInv'
  <2>1. SeenIsCurrent'
    BY <1>27 DEF GitLaunch, Publish, SeenIsCurrent
  <2>2. UnresolvedIsWorked'
    BY <1>27 DEF GitLaunch, Unresolved, UnresolvedIsWorked
  <2>3. TerminalMatches'
    BY <1>27 DEF GitLaunch, Unresolved, TerminalMatches, ActiveItems, WithStatus, Finished
  <2>4. AcceptedStaysReady'
    BY <1>27 DEF GitLaunch, AcceptedStaysReady
  <2>5. CancelledIsQuiet'
    BY <1>27 DEF GitLaunch, Unresolved, CancelledIsQuiet
  <2>. QED  BY <1>27, <1>0, <2>1, <2>2, <2>3, <2>4, <2>5
               DEF GitLaunch, runVars, GenerationsFit, DispatchAgrees, WorkersAreKnown,
                   CurrentIsActive, ReadyIsClean, ScopeKept, DependenciesIntegrated, SerialPrefix,
                   ReservationMatches, ActiveItems, Complete, WithStatus
<1>28. ASSUME NEW c \in Calls, NEW i \in Items, GitReconcile(c, i) PROVE IInv'
  <2>1. SeenIsCurrent'
    BY <1>28 DEF GitReconcile, Publish, SeenIsCurrent
  <2>2. UnresolvedIsWorked'
    BY <1>28 DEF GitReconcile, Unresolved, UnresolvedIsWorked
  <2>3. TerminalMatches'
    BY <1>28 DEF GitReconcile, Unresolved, TerminalMatches, ActiveItems, WithStatus, Finished
  <2>4. AcceptedStaysReady'
    BY <1>28 DEF GitReconcile, AcceptedStaysReady
  <2>5. CancelledIsQuiet'
    BY <1>28 DEF GitReconcile, Unresolved, CancelledIsQuiet
  <2>. QED  BY <1>28, <1>0, <2>1, <2>2, <2>3, <2>4, <2>5
               DEF GitReconcile, runVars, GenerationsFit, DispatchAgrees, WorkersAreKnown,
                   CurrentIsActive, ReadyIsClean, ScopeKept, DependenciesIntegrated, SerialPrefix,
                   ReservationMatches, ActiveItems, Complete, WithStatus
<1>29. ASSUME NEW c \in Calls, NEW i \in Items, GitClose(c, i) PROVE IInv'
  <2>1. SeenIsCurrent'
    BY <1>29 DEF GitClose, Publish, SeenIsCurrent
  <2>2. UnresolvedIsWorked'
    BY <1>29 DEF GitClose, Unresolved, UnresolvedIsWorked
  <2>3. TerminalMatches'
    BY <1>29 DEF GitClose, TerminalMatches, ActiveItems, WithStatus, Finished
  <2>4. AcceptedStaysReady'
    BY <1>29 DEF GitClose, AcceptedStaysReady
  <2>5. CancelledIsQuiet'
    BY <1>29 DEF GitClose, CancelledIsQuiet
  <2>. QED  BY <1>29, <1>0, <2>1, <2>2, <2>3, <2>4, <2>5
               DEF GitClose, runVars, GenerationsFit, DispatchAgrees, WorkersAreKnown,
                   CurrentIsActive, ReadyIsClean, ScopeKept, DependenciesIntegrated, SerialPrefix,
                   ReservationMatches, ActiveItems, Complete, WithStatus
<1>30. ASSUME NEW c \in Calls, NEW i \in Items, Integrate(c, i) PROVE IInv'
  <2>1. GenerationsFit'
    BY <1>30 DEF Integrate, Landable, Bound, GenerationsFit
  <2>2. DispatchAgrees'
    BY <1>30 DEF Integrate, Mutates, Holds, DispatchAgrees
  <2>3. WorkersAreKnown'
    BY <1>30 DEF Integrate, WorkersAreKnown
  <2>4. SeenIsCurrent'
    BY <1>30 DEF Integrate, Publish, SeenIsCurrent
  <2>5. CurrentIsActive'
    BY <1>30 DEF Integrate, Landable, CurrentIsActive, ReadyIsClean
  <2>6. UnresolvedIsWorked'
    BY <1>30 DEF Integrate, TypeOK, UnresolvedIsWorked, Unresolved
  <2>7. ScopeKept'
    BY <1>30 DEF Integrate, Landable, Bound, ScopeKept
  <2>8. DependenciesIntegrated'
    BY <1>30
       DEF Integrate, Landable, Bound, DependenciesIntegrated, ActiveItems, Complete, WithStatus
  <2>9. SerialPrefix'
    BY <1>30 DEF Integrate, Landable, Bound, SerialPrefix, ActiveItems, Complete, WithStatus
  <2>10. ReservationMatches'
    BY <1>30 DEF Integrate, Landable, Bound, ReservationMatches
  <2>11. TerminalMatches'
    BY <1>30
       DEF Integrate, TypeOK, Node, runVars, Finished, TerminalMatches, ActiveItems, WithStatus,
           Unresolved, UnresolvedIsWorked
  <2>12. AcceptedStaysReady'
    BY <1>30 DEF Integrate, TypeOK, Landable, AcceptedStaysReady, ReadyIsClean
  <2>13. CancelledIsQuiet'
    BY <1>30 DEF Integrate, CancelledIsQuiet, Unresolved
  <2>. QED  BY <1>30, <1>0, <2>1, <2>2, <2>3, <2>4, <2>5, <2>6, <2>7, <2>8, <2>9, <2>10, <2>11,
               <2>12, <2>13
               DEF Integrate, runVars, ReadyIsClean
<1>31. ASSUME NEW i \in Items, NEW g \in Gens, WorkerSettles(i, g) PROVE IInv'
  <2>1. WorkersAreKnown'
    BY <1>31 DEF WorkerSettles, runVars, WorkersAreKnown
  <2>2. CancelledIsQuiet'
    BY <1>31 DEF WorkerSettles, runVars, CancelledIsQuiet
  <2>. QED  BY <1>31, <1>0, <2>1, <2>2
               DEF WorkerSettles, runVars, GenerationsFit, DispatchAgrees, SeenIsCurrent,
                   CurrentIsActive, UnresolvedIsWorked, ReadyIsClean, ScopeKept,
                   DependenciesIntegrated, SerialPrefix, ReservationMatches, TerminalMatches,
                   AcceptedStaysReady, Complete, WithStatus, Unresolved, ActiveItems, Finished
<1>32. ASSUME NEW p \in Procs, ProcessDies(p) PROVE IInv'
  <2>1. DispatchAgrees'
    BY <1>32 DEF ProcessDies, runVars, DispatchAgrees
  <2>2. SeenIsCurrent'
    BY <1>32 DEF ProcessDies, runVars, SeenIsCurrent, Complete, WithStatus
  <2>. QED  BY <1>32, <1>0, <2>1, <2>2
               DEF ProcessDies, runVars, GenerationsFit, WorkersAreKnown, CurrentIsActive,
                   UnresolvedIsWorked, ReadyIsClean, ScopeKept, DependenciesIntegrated,
                   SerialPrefix, ReservationMatches, TerminalMatches, AcceptedStaysReady,
                   CancelledIsQuiet, Unresolved, ActiveItems, Complete, WithStatus, Finished
<1>33. CASE UNCHANGED vars
  BY <1>33, <1>0
     DEF vars, runVars, GenerationsFit, DispatchAgrees, WorkersAreKnown, SeenIsCurrent,
         CurrentIsActive, UnresolvedIsWorked, ReadyIsClean, ScopeKept, DependenciesIntegrated,
         SerialPrefix, ReservationMatches, TerminalMatches, AcceptedStaysReady, CancelledIsQuiet,
         Unresolved, Complete, WithStatus, ActiveItems, Finished
<1>. QED
  BY <1>1, <1>2, <1>3, <1>4, <1>5, <1>6, <1>7, <1>8, <1>9, <1>10, <1>11, <1>12, <1>13, <1>14,
     <1>15, <1>16, <1>17, <1>18, <1>19, <1>20, <1>21, <1>22, <1>23, <1>24, <1>25, <1>26, <1>27,
     <1>28, <1>29, <1>30, <1>31, <1>32, <1>33
     DEF Next, ItemStep

LEMMA InitIInv == Init => IInv
<1>. SUFFICES ASSUME Init PROVE IInv
  OBVIOUS
<1>1. /\ status = "active" /\ txn = None /\ released = {} /\ lease = None /\ alive = Procs
      /\ workspace = {} /\ signalled = {}
      /\ \A c \in Calls : seen[c] = None
      /\ \A i \in Items : /\ node[i].status = IF i \in Scope THEN "pending" ELSE "excluded"
                          /\ node[i].gen = 1 /\ node[i].res = "none"
                          /\ git[i] = "none" /\ life[i].open = {} /\ ~ life[i].ready
                          /\ \A g \in Gens : worker[i][g] = "none"
  BY DEF Init
<1>2. TypeOK
  <2>1. 1 \in Gens /\ 1 \in 1..MaxGen + 1
    BY PlanAssumption DEF Gens
  <2>2. node \in [Items -> Node]
    BY <2>1 DEF Init, Node, NodeStatus, Reservation
  <2>3. life \in [Items -> Life]
    BY DEF Init, Life
  <2>4. worker \in [Items -> [Gens -> Worker]] /\ git \in [Items -> GitPhase]
    BY DEF Init, Worker, GitPhase
  <2>5. seen \in [Calls -> (SUBSET Items) \cup {None}]
    BY DEF Init
  <2>. QED  BY <1>1, <2>2, <2>3, <2>4, <2>5 DEF TypeOK, RunStatus
<1>3. GenerationsFit
  BY <1>1, PlanAssumption DEF GenerationsFit, Gens
<1>4. DispatchAgrees /\ WorkersAreKnown /\ SeenIsCurrent /\ CurrentIsActive /\ ReadyIsClean
  BY <1>1 DEF DispatchAgrees, WorkersAreKnown, SeenIsCurrent, CurrentIsActive, ReadyIsClean
<1>5. UnresolvedIsWorked /\ ScopeKept /\ CancelledIsQuiet
  BY <1>1 DEF UnresolvedIsWorked, Unresolved, ScopeKept, CancelledIsQuiet
<1>6. DependenciesIntegrated /\ SerialPrefix
  BY <1>1 DEF DependenciesIntegrated, SerialPrefix, ActiveItems, Complete, WithStatus
<1>7. ReservationMatches /\ AcceptedStaysReady
  BY <1>1 DEF ReservationMatches, AcceptedStaysReady
<1>8. TerminalMatches
  <2>1. PICK i \in Scope : i \in Items
    BY PlanAssumption
  <2>. QED  BY <1>1, <2>1 DEF TerminalMatches, Finished, WithStatus
<1>. QED  BY <1>2, <1>3, <1>4, <1>5, <1>6, <1>7, <1>8 DEF IInv

LEMMA Invariance == Spec => []IInv
<1>. QED  BY InitIInv, NextIInv, PTL DEF Spec

-----------------------------------------------------------------------------
(* Sums over finite sets.                                                  *)

\* What is said of subsets of a finite set fails first for a smallest one.
LEMMA SmallestSubset ==
  ASSUME NEW S, IsFiniteSet(S), NEW B, B \subseteq SUBSET S, B # {}
  PROVE  \E X \in B : \A Y \in B : Y \subseteq X => Y = X
<1>. DEFINE R == StrictSubsetOrdering(S)
<1>1. IsWellFoundedOn(R, FiniteSubsetsOf(S))
  BY FS_StrictSubsetOrderingWellFounded
<1>2. B \subseteq FiniteSubsetsOf(S)
  BY FS_Subset DEF FiniteSubsetsOf
<1>3. PICK X \in B : \A Y \in B : ~(<<Y, X>> \in R)
  <2>. HIDE DEF R
  <2>. QED  BY <1>1, <1>2, WFMin
<1>4. ASSUME NEW Y \in B, Y \subseteq X, Y # X PROVE FALSE
  <2>1. <<Y, X>> \in R
    BY <1>4 DEF StrictSubsetOrdering
  <2>. QED  BY <1>3, <2>1
<1>. QED  BY <1>4

\* A sum takes one element after the other, so that there is one of every finite set, and it
\* is that of the rest and of any of its elements.
Pick(s) == CHOOSE x \in s : TRUE
Less(s) == s \ {Pick(s)}
Sums(f, g, X) ==
  g = [s \in SUBSET X |-> IF s = {} THEN 0 ELSE f[Pick(s)] + g[Less(s)]]
Partial(f, X) == CHOOSE g : Sums(f, g, X)

LEMMA SumIsPartial ==
  ASSUME NEW f, NEW S
  PROVE  SumFunctionOnSet(f, S) = Partial(f, S)[S]
BY Zenon DEF SumFunctionOnSet, FoldFunctionOnSet, MapThenFoldSet, Partial, Sums, Pick, Less

LEMMA LessIsSmaller ==
  ASSUME NEW s, s # {}
  PROVE  Pick(s) \in s /\ Less(s) \subseteq s /\ Less(s) # s
BY DEF Pick, Less

LEMMA PartialSumsAgree ==
  ASSUME NEW f, NEW g, NEW h, NEW X, NEW Y, IsFiniteSet(X), Sums(f, g, X), Sums(f, h, Y),
         NEW s, s \subseteq X, s \subseteq Y
  PROVE  g[s] = h[s]
<1>. DEFINE B == {t \in SUBSET X : t \subseteq Y /\ g[t] # h[t]}
<1>1. SUFFICES ASSUME B # {} PROVE FALSE
  OBVIOUS
<1>2. PICK t \in B : \A u \in B : u \subseteq t => u = t
  <2>1. B \subseteq SUBSET X
    OBVIOUS
  <2>. HIDE DEF B
  <2>. QED  BY <1>1, <2>1, SmallestSubset
<1>3. /\ g[t] = IF t = {} THEN 0 ELSE f[Pick(t)] + g[Less(t)]
      /\ h[t] = IF t = {} THEN 0 ELSE f[Pick(t)] + h[Less(t)]
  BY DEF Sums
<1>4. t # {}
  BY <1>3
<1>5. g[Less(t)] = h[Less(t)]
  BY <1>2, <1>4, LessIsSmaller
<1>. QED  BY <1>3, <1>4, <1>5

LEMMA PartialSumsAreThere ==
  ASSUME NEW f, NEW S, IsFiniteSet(S)
  PROVE  Sums(f, Partial(f, S), S)
<1>. DEFINE B == {X \in SUBSET S : ~Sums(f, Partial(f, X), X)}
<1>1. SUFFICES ASSUME B # {} PROVE FALSE
  OBVIOUS
<1>2. PICK X \in B : \A Y \in B : Y \subseteq X => Y = X
  <2>1. B \subseteq SUBSET S
    OBVIOUS
  <2>. HIDE DEF B
  <2>. QED  BY <1>1, <2>1, SmallestSubset
<1>3. \A Y \in SUBSET X : Y # X => Sums(f, Partial(f, Y), Y) /\ IsFiniteSet(Y)
  BY <1>2, FS_Subset
<1>. DEFINE G == [s \in SUBSET X |-> IF s = {} THEN 0
                                     ELSE f[Pick(s)] + Partial(f, Less(s))[Less(s)]]
<1>4. ASSUME NEW Y \in SUBSET X, Y # X PROVE G[Y] = Partial(f, Y)[Y]
  <2>1. Partial(f, Y)[Y] = IF Y = {} THEN 0 ELSE f[Pick(Y)] + Partial(f, Y)[Less(Y)]
    BY <1>3, <1>4 DEF Sums
  <2>2. ASSUME Y # {} PROVE Partial(f, Y)[Less(Y)] = Partial(f, Less(Y))[Less(Y)]
    <3>1. Less(Y) \in SUBSET X /\ Less(Y) # X /\ Less(Y) \subseteq Y
      BY <1>4, <2>2, LessIsSmaller
    <3>. QED  BY <1>3, <1>4, <3>1, PartialSumsAgree
  <2>. QED  BY <2>1, <2>2
<1>5. Sums(f, G, X)
  <2>1. ASSUME NEW s \in SUBSET X, s # {} PROVE Partial(f, Less(s))[Less(s)] = G[Less(s)]
    <3>1. Less(s) \in SUBSET X /\ Less(s) # X
      BY <2>1, LessIsSmaller
    <3>. HIDE DEF G
    <3>. QED  BY <1>4, <3>1
  <2>2. G = [s \in SUBSET X |-> IF s = {} THEN 0 ELSE f[Pick(s)] + G[Less(s)]]
    BY <2>1
  <2>. QED  BY <2>2 DEF Sums
<1>6. Sums(f, Partial(f, X), X)
  <2>. HIDE DEF G
  <2>. QED  BY <1>5 DEF Partial
<1>. QED  BY <1>2, <1>6

LEMMA SumStep ==
  ASSUME NEW f, NEW S, IsFiniteSet(S)
  PROVE  SumFunctionOnSet(f, S)
           = IF S = {} THEN 0 ELSE f[Pick(S)] + SumFunctionOnSet(f, Less(S))
<1>1. Partial(f, S)[S] = IF S = {} THEN 0 ELSE f[Pick(S)] + Partial(f, S)[Less(S)]
  <2>1. SUFFICES ASSUME NEW g, g = Partial(f, S)
                 PROVE  g[S] = IF S = {} THEN 0 ELSE f[Pick(S)] + g[Less(S)]
    OBVIOUS
  <2>2. Sums(f, g, S)
    BY <2>1, PartialSumsAreThere
  <2>. QED  BY <2>2 DEF Sums
<1>2. ASSUME S # {} PROVE Partial(f, S)[Less(S)] = Partial(f, Less(S))[Less(S)]
  <2>1. Less(S) \subseteq S /\ IsFiniteSet(Less(S))
    BY <1>2, LessIsSmaller, FS_Subset
  <2>. QED  BY <2>1, PartialSumsAreThere, PartialSumsAgree
<1>. QED  BY <1>1, <1>2, SumIsPartial

\* A sum of numbers does not depend on the order.
LEMMA SumOfNumbers ==
  ASSUME NEW f, NEW S, IsFiniteSet(S), \A x \in S : f[x] \in Nat
  PROVE  /\ SumFunctionOnSet(f, S) \in Nat
         /\ \A x \in S : SumFunctionOnSet(f, S) = f[x] + SumFunctionOnSet(f, S \ {x})
<1>. DEFINE Good(X) == /\ SumFunctionOnSet(f, X) \in Nat
                       /\ \A x \in X : SumFunctionOnSet(f, X) = f[x] + SumFunctionOnSet(f, X \ {x})
            B == {X \in SUBSET S : ~Good(X)}
<1>1. SUFFICES ASSUME B # {} PROVE FALSE
  OBVIOUS
<1>2. PICK X \in B : \A Y \in B : Y \subseteq X => Y = X
  <2>1. B \subseteq SUBSET S
    OBVIOUS
  <2>. HIDE DEF B
  <2>. QED  BY <1>1, <2>1, SmallestSubset
<1>3. IsFiniteSet(X) /\ ~Good(X)
  BY <1>2, FS_Subset
<1>4. \A Y \in SUBSET X : Y # X => Good(Y)
  BY <1>2
<1>5. X # {}
  <2>1. SumFunctionOnSet(f, {}) = 0
    BY FS_EmptySet, SumStep
  <2>2. Good({})
    BY <2>1
  <2>. HIDE DEF Good, B
  <2>. QED  BY <1>3, <2>2
<1>. DEFINE p == Pick(X)
<1>6. p \in X /\ f[p] \in Nat /\ Less(X) = X \ {p}
  BY <1>5, LessIsSmaller DEF Less
<1>. HIDE DEF p
<1>7. /\ SumFunctionOnSet(f, X) = f[p] + SumFunctionOnSet(f, X \ {p})
      /\ SumFunctionOnSet(f, X \ {p}) \in Nat
  <2>1. SumFunctionOnSet(f, X) = f[p] + SumFunctionOnSet(f, Less(X))
    BY <1>3, <1>5, SumStep DEF p
  <2>2. X \ {p} \in SUBSET X /\ X \ {p} # X
    BY <1>6
  <2>. QED  BY <1>4, <1>6, <2>1, <2>2
<1>8. ASSUME NEW x \in X PROVE SumFunctionOnSet(f, X) = f[x] + SumFunctionOnSet(f, X \ {x})
  <2>1. CASE x = p
    BY <1>7, <2>1
  <2>2. CASE x # p
    <3>. DEFINE Z == X \ {x, p}
    <3>1. (X \ {x}) \ {p} = Z /\ (X \ {p}) \ {x} = Z /\ x \in X \ {p} /\ p \in X \ {x}
      BY <1>6, <2>2
    <3>2. SumFunctionOnSet(f, X \ {p}) = f[x] + SumFunctionOnSet(f, Z)
      BY <1>4, <1>6, <3>1
    <3>3. SumFunctionOnSet(f, X \ {x}) = f[p] + SumFunctionOnSet(f, Z)
      BY <1>4, <3>1
    <3>4. SumFunctionOnSet(f, Z) \in Nat /\ f[x] \in Nat
      BY <1>4, <1>6
    <3>. HIDE DEF Z
    <3>. QED  BY <1>6, <1>7, <3>2, <3>3, <3>4
  <2>. QED  BY <2>1, <2>2
<1>. QED  BY <1>3, <1>6, <1>7, <1>8

LEMMA SumOfFewer ==
  ASSUME NEW f, NEW S, IsFiniteSet(S), \A x \in S : f[x] \in Nat, NEW T \in SUBSET S
  PROVE  SumFunctionOnSet(f, T) <= SumFunctionOnSet(f, S)
<1>. DEFINE B == {X \in SUBSET S : T \subseteq X
                                   /\ ~(SumFunctionOnSet(f, T) <= SumFunctionOnSet(f, X))}
<1>1. SUFFICES ASSUME B # {} PROVE FALSE
  OBVIOUS
<1>2. PICK X \in B : \A Y \in B : Y \subseteq X => Y = X
  <2>1. B \subseteq SUBSET S
    OBVIOUS
  <2>. HIDE DEF B
  <2>. QED  BY <1>1, <2>1, SmallestSubset
<1>3. X \subseteq S /\ T \subseteq X /\ IsFiniteSet(X) /\ IsFiniteSet(T)
  BY <1>2, FS_Subset
<1>4. SumFunctionOnSet(f, T) \in Nat
  BY <1>3, SumOfNumbers
<1>5. PICK x \in X : x \notin T
  <2>1. T # X
    BY <1>2, <1>4
  <2>. QED  BY <1>3, <2>1
<1>6. SumFunctionOnSet(f, T) <= SumFunctionOnSet(f, X \ {x})
  BY <1>2, <1>3, <1>5
<1>7. /\ SumFunctionOnSet(f, X) = f[x] + SumFunctionOnSet(f, X \ {x})
      /\ SumFunctionOnSet(f, X \ {x}) \in Nat /\ f[x] \in Nat
  <2>1. IsFiniteSet(X \ {x})
    BY <1>3, FS_Subset
  <2>. QED  BY <1>3, <2>1, SumOfNumbers
<1>. QED  BY <1>2, <1>4, <1>6, <1>7

-----------------------------------------------------------------------------
(* Lanes, resources and exclusion groups.                                  *)

LEMMA LoadsAdd ==
  ASSUME NEW r \in Resources, NEW S \in SUBSET Items
  PROVE  /\ Load(r, S) \in Nat /\ \A T \in SUBSET S : Load(r, T) <= Load(r, S)
         /\ \A i \in Items \ S : Load(r, S \cup {i}) = Demand[r][i] + Load(r, S)
<1>1. IsFiniteSet(S) /\ \A i \in Items : Demand[r][i] \in Nat
  BY PlanAssumption, FS_Subset
<1>2. Load(r, S) \in Nat /\ \A T \in SUBSET S : Load(r, T) <= Load(r, S)
  BY <1>1, SumOfNumbers, SumOfFewer DEF Load
<1>3. ASSUME NEW i \in Items \ S PROVE Load(r, S \cup {i}) = Demand[r][i] + Load(r, S)
  <2>1. IsFiniteSet(S \cup {i}) /\ (S \cup {i}) \ {i} = S
    BY <1>1, <1>3, FS_AddElement
  <2>2. \A x \in S \cup {i} : Demand[r][x] \in Nat
    BY <1>1
  <2>. QED  BY <2>1, <2>2, SumOfNumbers DEF Load
<1>. QED  BY <1>2, <1>3

\* Only a reservation makes an item active.
LEMMA OnlyReservationsAdd ==
  ASSUME IInv, [Next]_vars
  PROVE  ActiveItems' \subseteq ActiveItems \/ \E c \in Calls, i \in Items : Reserve(c, i)
<1>. USE DEF ActiveItems, WithStatus
<1>1. CASE UNCHANGED node
  BY <1>1
<1>2. CASE \E c \in Calls, j \in Items :
             \/ BeginDispatch(c, j) \/ RecoverBinding(c, j) \/ Integrate(c, j) \/ Replace(c, j)
  BY <1>2 DEF BeginDispatch, RecoverBinding, Integrate, Replace, IInv, TypeOK, Node
<1>3. CASE Bind
  BY <1>3 DEF Bind, IInv, TypeOK, Node, Dispatch
<1>4. CASE \E c \in Calls : Cancel(c)
  <2>1. SUFFICES ASSUME NEW i \in Items, node'[i].status = "active"
                 PROVE  node[i].status = "active"
    OBVIOUS
  <2>2. PICK c \in Calls : Cancel(c)
    BY <1>4
  <2>3. node'[i] = IF i \in {k \in Items : node[k].status = "pending"}
                               \cup {k \in Items : node[k].status = "active"}
                   THEN [node[i] EXCEPT !.status = "cancelled", !.gen = node[i].gen + 1]
                   ELSE node[i]
    BY <2>2, Zenon DEF Cancel
  <2>4. node[i] \in Node
    BY DEF IInv, TypeOK
  <2>5. [node[i] EXCEPT !.status = "cancelled", !.gen = node[i].gen + 1].status = "cancelled"
    BY <2>4 DEF Node
  <2>. QED  BY <2>1, <2>3, <2>5
<1>5. ASSUME NEW c \in Calls, NEW j \in Items, ItemStep(c, j)
      PROVE  \/ UNCHANGED node
             \/ Reserve(c, j) \/ Replace(c, j)
             \/ BeginDispatch(c, j) \/ RecoverBinding(c, j) \/ Integrate(c, j)
  BY <1>5
     DEF ItemStep, runVars, FenceUnlaunched, SetCandidate, PrepareCheck, AdvanceToReady,
         RetryCheck, RecordResult, DispositionFinding, Signal, GitOpen, GitLaunch,
         GitReconcile, GitClose
<1>6. CASE \E c \in Calls :
             \/ AcquireLease(c) \/ Observe(c) \/ Annotate(c)
             \/ Pause(c) \/ Resume(c) \/ ReconcileCancellation(c)
             \/ \E g \in Gates : ReleaseGate(c, g)
  BY <1>1, <1>6 DEF AcquireLease, Observe, Annotate, Pause, Resume, ReconcileCancellation,
                    ReleaseGate, runVars
<1>7. CASE \/ PrepareWorkspace \/ PlanWorker \/ Launch \/ AbandonDispatch
           \/ \E j \in Items, g \in Gens : WorkerSettles(j, g)
           \/ \E p \in Procs : ProcessDies(p)
           \/ UNCHANGED vars
  BY <1>1, <1>7 DEF PrepareWorkspace, PlanWorker, Launch, AbandonDispatch, WorkerSettles,
                    ProcessDies, vars, runVars
<1>. QED  BY <1>1, <1>2, <1>3, <1>4, <1>5, <1>6, <1>7 DEF Next

LEMMA NeverOvercommitted == IInv /\ NoOvercommit /\ [Next]_vars => NoOvercommit'
<1>. SUFFICES ASSUME IInv, NoOvercommit, [Next]_vars PROVE NoOvercommit'
  OBVIOUS
<1>1. /\ ActiveItems \subseteq Items /\ IsFiniteSet(ActiveItems) /\ Lanes \in Nat
      /\ \A r \in Resources : Capacity[r] \in Nat
  BY PlanAssumption, FS_Subset DEF ActiveItems, WithStatus
<1>2. CASE ActiveItems' \subseteq ActiveItems
  <2>1. SUFFICES ASSUME NEW A, A = ActiveItems' PROVE
          /\ Cardinality(A) <= Lanes
          /\ \A r \in Resources : Load(r, A) <= Capacity[r]
          /\ \A M \in Mutexes : Cardinality(M \cap A) <= 1
    BY DEF NoOvercommit, Load
  <2>2. A \subseteq ActiveItems /\ A \in SUBSET Items
    BY <1>1, <1>2, <2>1
  <2>3. Cardinality(A) <= Lanes
    <3>1. Cardinality(A) <= Cardinality(ActiveItems) /\ Cardinality(A) \in Nat
          /\ Cardinality(ActiveItems) \in Nat
      BY <1>1, <2>2, FS_Subset, FS_CardinalityType
    <3>. QED  BY <1>1, <3>1 DEF NoOvercommit
  <2>4. ASSUME NEW r \in Resources PROVE Load(r, A) <= Capacity[r]
    <3>1. /\ Load(r, A) <= Load(r, ActiveItems) /\ Load(r, A) \in Nat
          /\ Load(r, ActiveItems) \in Nat /\ Load(r, ActiveItems) <= Capacity[r]
      BY <1>1, <2>2, LoadsAdd DEF NoOvercommit
    <3>. QED  BY <1>1, <3>1
  <2>5. ASSUME NEW M \in Mutexes PROVE Cardinality(M \cap A) <= 1
    <3>1. M \cap A \subseteq M \cap ActiveItems /\ IsFiniteSet(M \cap ActiveItems)
      BY <1>1, <2>2, FS_Subset
    <3>2. /\ Cardinality(M \cap A) <= Cardinality(M \cap ActiveItems)
          /\ Cardinality(M \cap A) \in Nat /\ Cardinality(M \cap ActiveItems) \in Nat
      BY <3>1, FS_Subset, FS_CardinalityType
    <3>. QED  BY <3>2 DEF NoOvercommit
  <2>. QED  BY <2>3, <2>4, <2>5
<1>3. ASSUME NEW c \in Calls, NEW i \in Items, Reserve(c, i) PROVE NoOvercommit'
  <2>1. Admissible(i) /\ i \notin ActiveItems
    BY <1>3 DEF Reserve, Admissible, ActiveItems, WithStatus
  <2>2. ActiveItems' = ActiveItems \cup {i}
    BY <1>3 DEF Reserve, ActiveItems, WithStatus, IInv, TypeOK, Node
  <2>3. SUFFICES ASSUME NEW A, A = ActiveItems \cup {i} PROVE
          /\ Cardinality(A) <= Lanes
          /\ \A r \in Resources : Load(r, A) <= Capacity[r]
          /\ \A M \in Mutexes : Cardinality(M \cap A) <= 1
    BY <2>2 DEF NoOvercommit, Load
  <2>4. Cardinality(A) <= Lanes
    <3>1. Cardinality(A) = Cardinality(ActiveItems) + 1 /\ Cardinality(ActiveItems) \in Nat
      BY <1>1, <2>1, <2>3, FS_AddElement, FS_CardinalityType
    <3>. QED  BY <1>1, <2>1, <3>1 DEF Admissible
  <2>5. ASSUME NEW r \in Resources PROVE Load(r, A) <= Capacity[r]
    <3>1. Load(r, A) = Demand[r][i] + Load(r, ActiveItems)
      BY <1>1, <2>1, <2>3, LoadsAdd
    <3>. QED  BY <2>1, <3>1 DEF Admissible
  <2>6. ASSUME NEW M \in Mutexes PROVE Cardinality(M \cap A) <= 1
    <3>1. CASE i \in M
      <4>1. M \cap A = {i}
        BY <2>1, <2>3, <3>1 DEF Admissible
      <4>. QED  BY <4>1, FS_Singleton
    <3>2. CASE i \notin M
      <4>1. M \cap A = M \cap ActiveItems
        BY <2>3, <3>2
      <4>. QED  BY <4>1 DEF NoOvercommit
    <3>. QED  BY <3>1, <3>2
  <2>. QED  BY <2>4, <2>5, <2>6
<1>. QED  BY <1>2, <1>3, OnlyReservationsAdd

LEMMA NothingIsCommitted == Init => NoOvercommit
<1>. SUFFICES ASSUME Init PROVE NoOvercommit
  OBVIOUS
<1>1. ActiveItems = {}
  BY DEF Init, ActiveItems, WithStatus
<1>2. Cardinality({}) = 0 /\ \A M \in Mutexes : M \cap {} = {}
  BY FS_EmptySet
<1>3. \A r \in Resources : Load(r, {}) = 0 /\ Capacity[r] \in Nat
  BY FS_EmptySet, SumStep, PlanAssumption DEF Load
<1>. QED  BY <1>1, <1>2, <1>3, PlanAssumption DEF NoOvercommit

-----------------------------------------------------------------------------
\* Every variable of the run keeps its type; in particular only results that
\* recordResult() expects are ever awaited, current or stale.
THEOREM RunTypes == Spec => []TypeOK
<1>. QED  BY Invariance, PTL DEF IInv

\* What auditSnapshotV2 demands of a snapshot holds after every legal call, so that publish()
\* never throws one away: of nodes, reservations and statuses, and of the sums of lanes,
\* resources and exclusion groups.
THEOREM AuditNeverRejects == Spec => []AuditSnapshot
<1>1. Spec => [](IInv /\ NoOvercommit)
  BY InitIInv, NextIInv, NothingIsCommitted, NeverOvercommitted, PTL DEF Spec
<1>2. IInv /\ NoOvercommit => AuditSnapshot
  BY DEF IInv, AuditSnapshot
<1>. QED  BY <1>1, <1>2, PTL

\* No worker that dispatch() launched is orphaned and no item has two, whatever
\* was cut off between the launch and its acknowledgement.
THEOREM WorkersStayKnown == Spec => []WorkersAreKnown
<1>. QED  BY Invariance, PTL DEF IInv

\* reconcileCancellation() ends the run only when nothing it started can still
\* have an effect.
THEOREM CancelledRunQuiet == Spec => []CancelledIsQuiet
<1>. QED  BY Invariance, PTL DEF IInv

-----------------------------------------------------------------------------
\* A late result moves the run only if its item is still worked on, and then
\* the run is not on its way out.
LEMMA LateResult ==
  ASSUME IInv, NEW c \in Calls, NEW i \in Items, NEW kind \in {"current", "stale"},
         NEW more \in BOOLEAN, RecordResult(c, i, kind, more)
  PROVE  status' = status \/ status \notin {"complete", "cancelling", "cancelled"}
<1>1. CASE kind = "current"
  <2>1. node[i].status = "active"
    BY <1>1 DEF IInv, CurrentIsActive, RecordResult
  <2>. QED  BY <2>1 DEF IInv, TerminalMatches, Finished, ActiveItems, WithStatus
<1>2. CASE kind # "current"
  BY <1>2 DEF RecordResult
<1>. QED  BY <1>1, <1>2

\* A run never comes back from cancellation or completion, not even for a late
\* result that demands replanning.
THEOREM TerminalStays == Spec => TerminalIsFinal
<1>1. ASSUME IInv, [Next]_vars
      PROVE  /\ status \in {"cancelling", "cancelled"} => status' \in {"cancelling", "cancelled"}
             /\ status \in {"complete", "cancelled"} => status' = status
  <2>1. CASE \E c \in Calls, i \in Items, kind \in {"current", "stale"}, more \in BOOLEAN :
               RecordResult(c, i, kind, more)
    BY <1>1, <2>1, LateResult
  <2>2. CASE \E c \in Calls : Pause(c) \/ Resume(c) \/ Cancel(c) \/ ReconcileCancellation(c)
    BY <2>2 DEF Pause, Resume, Cancel, ReconcileCancellation
  <2>3. CASE \E c \in Calls, i \in Items : Integrate(c, i)
    BY <2>3 DEF Integrate, Landable
  <2>4. CASE UNCHANGED status
    BY <2>4
  <2>5. ASSUME NEW c \in Calls, NEW i \in Items, ItemStep(c, i)
        PROVE  \/ UNCHANGED status
               \/ Integrate(c, i)
               \/ \E kind \in {"current", "stale"}, more \in BOOLEAN :
                    RecordResult(c, i, kind, more)
    BY <2>5
       DEF ItemStep, runVars, Reserve, BeginDispatch, RecoverBinding, FenceUnlaunched, Replace,
           SetCandidate, PrepareCheck, AdvanceToReady, RetryCheck, DispositionFinding, Signal,
           GitOpen, GitLaunch, GitReconcile, GitClose
  <2>6. CASE \E c \in Calls : \/ AcquireLease(c) \/ Observe(c) \/ Annotate(c)
                              \/ \E g \in Gates : ReleaseGate(c, g)
    BY <2>4, <2>6 DEF AcquireLease, Observe, Annotate, ReleaseGate, runVars
  <2>7. CASE \/ PrepareWorkspace \/ PlanWorker \/ Launch \/ Bind \/ AbandonDispatch
             \/ \E i \in Items, g \in Gens : WorkerSettles(i, g)
             \/ \E p \in Procs : ProcessDies(p)
    BY <2>4, <2>7 DEF PrepareWorkspace, PlanWorker, Launch, Bind, AbandonDispatch, WorkerSettles,
                      ProcessDies, runVars
  <2>8. CASE UNCHANGED vars
    BY <2>4, <2>8 DEF vars, runVars
  <2>. QED  BY <1>1, <2>1, <2>2, <2>3, <2>4, <2>5, <2>6, <2>7, <2>8 DEF Next
<1>. QED  BY <1>1, Invariance, PTL DEF Spec, TerminalIsFinal

\* Nothing is launched for a run that is paused, replanned or cancelled: the
\* dispatch that holds the lock has the authority it took the lock with.
THEOREM FenceHolds == Spec => NothingStartsUnlessActive
<1>1. ASSUME IInv, [Next]_vars, NEW i \in Items
      PROVE  /\ \A g \in Gens : worker[i][g] # "running" /\ worker'[i][g] = "running"
                                  => status = "active" /\ node[i].status = "active"
             /\ git[i] # "landing" /\ git'[i] = "landing" => status = "active"
  <2>. USE <1>1
  <2>1. CASE Launch
    BY <2>1 DEF Launch, runVars, IInv, TypeOK, Dispatch, DispatchAgrees
  <2>2. CASE \E c \in Calls, j \in Items : GitLaunch(c, j)
    BY <2>2 DEF GitLaunch, Landable, IInv, TypeOK
  <2>3. CASE PlanWorker
    BY <2>3 DEF PlanWorker, runVars, IInv, TypeOK, Dispatch
  <2>4. CASE \E c \in Calls, j \in Items : FenceUnlaunched(c, j)
    BY <2>4 DEF FenceUnlaunched, runVars, IInv, TypeOK
  <2>5. CASE \E j \in Items, g \in Gens : WorkerSettles(j, g)
    BY <2>5 DEF WorkerSettles, runVars, IInv, TypeOK
  <2>6. CASE \E c \in Calls, j \in Items :
               \/ Replace(c, j) \/ GitOpen(c, j) \/ GitReconcile(c, j) \/ GitClose(c, j)
               \/ Integrate(c, j)
    BY <2>6 DEF Replace, GitOpen, GitReconcile, GitClose, Integrate, IInv, TypeOK
  <2>7. CASE UNCHANGED <<worker, git>>
    BY <2>7
  <2>8. ASSUME NEW c \in Calls, NEW j \in Items, ItemStep(c, j)
        PROVE  \/ UNCHANGED <<worker, git>>
               \/ GitLaunch(c, j) \/ FenceUnlaunched(c, j)
               \/ Replace(c, j) \/ GitOpen(c, j) \/ GitReconcile(c, j) \/ GitClose(c, j)
               \/ Integrate(c, j)
    BY <2>8
       DEF ItemStep, runVars, Reserve, BeginDispatch, RecoverBinding, SetCandidate, PrepareCheck,
           AdvanceToReady, RetryCheck, RecordResult, DispositionFinding, Signal
  <2>9. CASE \E c \in Calls :
               \/ AcquireLease(c) \/ Observe(c) \/ Annotate(c)
               \/ Pause(c) \/ Resume(c) \/ Cancel(c) \/ ReconcileCancellation(c)
               \/ \E g \in Gates : ReleaseGate(c, g)
    BY <2>7, <2>9 DEF AcquireLease, Observe, Annotate, Pause, Resume, Cancel,
                      ReconcileCancellation, ReleaseGate, runVars
  <2>10. CASE \/ PrepareWorkspace \/ Bind \/ AbandonDispatch
              \/ \E p \in Procs : ProcessDies(p)
    BY <2>7, <2>10 DEF PrepareWorkspace, Bind, AbandonDispatch, ProcessDies, runVars
  <2>11. CASE UNCHANGED vars
    BY <2>7, <2>11 DEF vars, runVars
  <2>. QED
    BY <2>1, <2>2, <2>3, <2>4, <2>5, <2>6, <2>7, <2>8, <2>9, <2>10, <2>11 DEF Next
<1>2. IInv /\ [Next]_vars =>
        [ \A i \in Items :
            /\ \A g \in Gens : worker[i][g] # "running" /\ worker'[i][g] = "running"
                                 => status = "active" /\ node[i].status = "active"
            /\ git[i] # "landing" /\ git'[i] = "landing" => status = "active" ]_vars
  BY <1>1
<1>. QED  BY <1>2, Invariance, PTL DEF Spec, NothingStartsUnlessActive

\* A worker starts from what is accepted when its item is reserved: guard()
\* refuses a base that startWork() computed from an older run.
THEOREM BaseIsCurrent == Spec => BaseIsAcceptedPrefix
<1>1. ASSUME IInv, [Next]_vars, NEW i \in Items, node[i].res = "none", node'[i].res = "reserved"
      PROVE  node'[i].base = Complete
  <2>. USE <1>1
  <2>1. CASE \E c \in Calls, j \in Items : Reserve(c, j)
    BY <2>1 DEF Reserve, Mutates, IInv, SeenIsCurrent, TypeOK, Node
  <2>2. CASE \E c \in Calls, j \in Items :
               BeginDispatch(c, j) \/ RecoverBinding(c, j) \/ Integrate(c, j)
    BY <2>2 DEF BeginDispatch, RecoverBinding, Integrate, IInv, TypeOK, Node
  <2>3. CASE \E c \in Calls, j \in Items : Replace(c, j)
    BY <2>3 DEF Replace, CanReplace, IInv, TypeOK
  <2>4. CASE Bind
    BY <2>4 DEF Bind, IInv, TypeOK, Node, Dispatch
  <2>5. CASE \E c \in Calls : Cancel(c)
    <3>1. \A n \in Node : \A g : [n EXCEPT !.status = "cancelled", !.gen = g].res = n.res
      BY DEF Node
    <3>2. node[i] \in Node
      BY DEF IInv, TypeOK
    <3>3. \/ node'[i] = [node[i] EXCEPT !.status = "cancelled", !.gen = node[i].gen + 1]
          \/ node'[i] = node[i]
      BY <2>5 DEF Cancel
    <3>. QED  BY <3>1, <3>2, <3>3
  <2>6. CASE UNCHANGED node
    BY <2>6
  <2>7. ASSUME NEW c \in Calls, NEW j \in Items, ItemStep(c, j)
        PROVE  \/ UNCHANGED node
               \/ Reserve(c, j) \/ Replace(c, j)
               \/ BeginDispatch(c, j) \/ RecoverBinding(c, j) \/ Integrate(c, j)
    BY <2>7
       DEF ItemStep, runVars, FenceUnlaunched, SetCandidate, PrepareCheck, AdvanceToReady,
           RetryCheck, RecordResult, DispositionFinding, Signal, GitOpen, GitLaunch,
           GitReconcile, GitClose
  <2>8. CASE \E c \in Calls :
               \/ AcquireLease(c) \/ Observe(c) \/ Annotate(c)
               \/ Pause(c) \/ Resume(c) \/ ReconcileCancellation(c)
               \/ \E g \in Gates : ReleaseGate(c, g)
    BY <2>6, <2>8 DEF AcquireLease, Observe, Annotate, Pause, Resume, ReconcileCancellation,
                      ReleaseGate, runVars
  <2>9. CASE \/ PrepareWorkspace \/ PlanWorker \/ Launch \/ AbandonDispatch
             \/ \E j \in Items, g \in Gens : WorkerSettles(j, g)
             \/ \E p \in Procs : ProcessDies(p)
    BY <2>6, <2>9 DEF PrepareWorkspace, PlanWorker, Launch, AbandonDispatch, WorkerSettles,
                      ProcessDies, runVars
  <2>10. CASE UNCHANGED vars
    BY <2>6, <2>10 DEF vars, runVars
  <2>. QED  BY <2>1, <2>2, <2>3, <2>4, <2>5, <2>6, <2>7, <2>8, <2>9, <2>10 DEF Next
<1>2. IInv /\ [Next]_vars =>
        [ \A i \in Items : node[i].res = "none" /\ node'[i].res = "reserved"
            => node'[i].base = Complete ]_vars
  BY <1>1
<1>. QED  BY <1>2, Invariance, PTL DEF Spec, BaseIsAcceptedPrefix

-----------------------------------------------------------------------------
\* A step of one item is one of ItemLife, whatever the others are.
LEMMA OneItem ==
  ASSUME TypeOK, NEW i \in Items, NEW l \in Lives!Successors(life[i]),
         life' = [life EXCEPT ![i] = l]
  PROVE  Lives!Next
<1>1. DOMAIN life' = Items /\ life'[i] = l /\ \A j \in Items \ {i} : life'[j] = life[j]
  BY DEF TypeOK
<1>2. \A j \in Items \ {i} : life[j] \in Lives!Successors(life[j])
  BY DEF Lives!Successors
<1>. QED  BY <1>1, <1>2 DEF Lives!Next

\* A result that is only retained, and one that counts.
LEMMA ResultIsAllowed ==
  ASSUME NEW l \in Life, NEW kind \in l.open, NEW more \in BOOLEAN, NEW failed \in BOOLEAN,
         NEW found \in SUBSET Findings, found # {} => failed
  PROVE  LET k == [l EXCEPT !.open = IF more THEN @ ELSE @ \ {kind}] IN
         /\ k \in Lives!Successors(l)
         /\ kind = "current" =>
              [k EXCEPT !.failed = @ \/ failed, !.findings = @ \cup found] \in Lives!Successors(l)
<1>0. /\ Lives!Arrived(l) \subseteq Lives!Observed(l)
      /\ Lives!Observed(l) \subseteq Lives!Successors(l)
  <2>1. Lives!Arrived(l) \subseteq Lives!Observed(l)
    BY DEF Lives!Observed
  <2>2. Lives!Observed(l) \subseteq Lives!Successors(l)
    BY DEF Lives!Successors
  <2>. QED  BY <2>1, <2>2
<1>0a. ASSUME "current" \in l.open, NEW left \in {l.open, l.open \ {"current"}}
       PROVE  Lives!Failing(l, left, found) \in Lives!Successors(l)
  BY <1>0, <1>0a DEF Lives!Observed
<1>. DEFINE k == [l EXCEPT !.open = IF more THEN @ ELSE @ \ {kind}]
<1>1. k \in Life /\ (k = l \/ k = [l EXCEPT !.open = @ \ {kind}])
  BY DEF Life
<1>2. k \in Lives!Arrived(l)
  BY <1>1 DEF Lives!Arrived
<1>. HIDE DEF k
<1>3. k \in Lives!Successors(l)
  BY <1>0, <1>2
<1>4. ASSUME kind = "current"
      PROVE  [k EXCEPT !.failed = @ \/ failed, !.findings = @ \cup found] \in Lives!Successors(l)
  <2>1. CASE ~ failed
    <3>1. found = {}
      BY <2>1
    <3>2. [k EXCEPT !.failed = @ \/ failed, !.findings = @ \cup found] = k
      BY <1>1, <2>1, <3>1 DEF Life
    <3>. QED  BY <1>3, <3>2
  <2>2. CASE failed
    <3>1. PICK left \in {l.open, l.open \ {"current"}} : k = [l EXCEPT !.open = left]
      BY <1>1, <1>4 DEF Life
    <3>2. [k EXCEPT !.failed = @ \/ failed, !.findings = @ \cup found]
            = Lives!Failing(l, left, found)
      BY <2>2, <3>1 DEF Life, Lives!Failing
    <3>. QED  BY <1>0a, <1>4, <3>1, <3>2
  <2>. QED  BY <2>1, <2>2
<1>. QED  BY <1>3, <1>4 DEF k

LEMMA LifeNext == ASSUME TypeOK, TypeOK', ReadyIsClean, [Next]_vars PROVE [Lives!Next]_life
<1>. USE OneItem
<1>0. \A i \in Items : life[i] \in Life
  BY DEF TypeOK
<1>1. ASSUME NEW c \in Calls, NEW i \in Items, Replace(c, i) PROVE Lives!Next
  <2>1. [Invalidated(life[i]) EXCEPT !.cand = FALSE] \in Lives!Successors(life[i])
    BY <1>1 DEF Replace, CanReplace, Invalidated, Lives!Successors, Lives!Withdrawn, Lives!Discarded
  <2>. QED  BY <1>1, <2>1 DEF Replace
<1>2. ASSUME NEW c \in Calls, NEW i \in Items, SetCandidate(c, i) PROVE Lives!Next
  <2>1. [Invalidated(life[i]) EXCEPT !.cand = TRUE] \in Lives!Successors(life[i])
    BY <1>2 DEF SetCandidate, Invalidated, Lives!Successors, Lives!Delivered, Lives!Discarded
  <2>2. CASE life' = [life EXCEPT ![i].stop = TRUE, ![i].ready = FALSE]
    <3>1. life' = [life EXCEPT ![i] = [life[i] EXCEPT !.stop = TRUE, !.ready = FALSE]]
      BY <2>2 DEF TypeOK
    <3>2. [life[i] EXCEPT !.stop = TRUE, !.ready = FALSE] \in Lives!Successors(life[i])
      BY DEF Lives!Successors, Lives!Stopped
    <3>. QED  BY <3>1, <3>2
  <2>. QED  BY <1>2, <2>1, <2>2 DEF SetCandidate
<1>3. ASSUME NEW c \in Calls, NEW i \in Items, PrepareCheck(c, i) PROVE Lives!Next
  <2>1. [life[i] EXCEPT !.open = @ \cup {"current"}] \in Lives!Successors(life[i])
    BY <1>3 DEF PrepareCheck, Lives!Successors, Lives!Prepared
  <2>. QED  BY <1>3, <2>1 DEF PrepareCheck
<1>4. ASSUME NEW c \in Calls, NEW i \in Items, NEW kind \in {"current", "stale"},
             NEW more \in BOOLEAN, RecordResult(c, i, kind, more)
      PROVE  Lives!Next
  <2>1. kind \in life[i].open
    BY <1>4 DEF RecordResult
  <2>2. PICK failed \in BOOLEAN, found \in SUBSET Findings :
          LET l == [life[i] EXCEPT !.open = IF more THEN @ ELSE @ \ {kind}] IN
          /\ found # {} => failed
          /\ IF kind = "current"
               THEN life' = [life EXCEPT ![i] = [l EXCEPT !.failed = @ \/ failed,
                                                          !.findings = @ \cup found]]
               ELSE life' = [life EXCEPT ![i] = l]
    BY <1>4 DEF RecordResult
  <2>3. LET l == [life[i] EXCEPT !.open = IF more THEN @ ELSE @ \ {kind}] IN
        /\ l \in Lives!Successors(life[i])
        /\ kind = "current" =>
             [l EXCEPT !.failed = @ \/ failed, !.findings = @ \cup found]
               \in Lives!Successors(life[i])
    BY <1>0, <2>1, <2>2, ResultIsAllowed
  <2>. QED  BY <2>2, <2>3
<1>5. ASSUME NEW c \in Calls, NEW i \in Items, AdvanceToReady(c, i) PROVE Lives!Next
  <2>1. [life[i] EXCEPT !.ready = TRUE] \in Lives!Successors(life[i])
    BY <1>5 DEF AdvanceToReady, Lives!Successors, Lives!Accepted
  <2>. QED  BY <1>5, <2>1 DEF AdvanceToReady
<1>6. ASSUME NEW c \in Calls, NEW i \in Items, RetryCheck(c, i) PROVE Lives!Next
  <2>1. CASE life' = [life EXCEPT ![i].failed = FALSE, ![i].ready = FALSE]
    <3>1. [life[i] EXCEPT !.failed = FALSE, !.ready = FALSE] \in Lives!Successors(life[i])
      BY <1>6 DEF RetryCheck, Lives!Successors, Lives!Repaired
    <3>2. life' = [life EXCEPT ![i] = [life[i] EXCEPT !.failed = FALSE, !.ready = FALSE]]
      BY <2>1 DEF TypeOK
    <3>. QED  BY <3>1, <3>2
  <2>2. CASE life' = [life EXCEPT ![i].stop = TRUE]
    <3>1. [life[i] EXCEPT !.stop = TRUE] = Lives!Stopped(life[i])
      <4>1. ~ life[i].ready
        BY <1>6 DEF RetryCheck, ReadyIsClean
      <4>. QED  BY <1>0, <4>1 DEF Lives!Stopped, Life
    <3>2. life' = [life EXCEPT ![i] = [life[i] EXCEPT !.stop = TRUE]]
      BY <2>2 DEF TypeOK
    <3>. QED  BY <3>1, <3>2 DEF Lives!Successors
  <2>. QED  BY <1>6, <2>1, <2>2 DEF RetryCheck
<1>7. ASSUME NEW c \in Calls, NEW i \in Items, NEW f \in Findings, DispositionFinding(c, i, f)
      PROVE  Lives!Next
  <2>1. [life[i] EXCEPT !.findings = @ \ {f}] \in Lives!Successors(life[i])
    BY <1>7 DEF DispositionFinding, Lives!Successors, Lives!Judged
  <2>. QED  BY <1>7, <2>1 DEF DispositionFinding
<1>8. ASSUME NEW c \in Calls, Cancel(c) PROVE Lives!Next
  <2>1. DOMAIN life' = Items /\ \A j \in Items : life'[j] \in {life[j], Invalidated(life[j])}
    BY <1>8 DEF Cancel
  <2>2. \A j \in Items : {life[j], Invalidated(life[j])} \subseteq Lives!Successors(life[j])
    BY DEF Invalidated, Lives!Successors, Lives!Discarded
  <2>. QED  BY <2>1, <2>2 DEF Lives!Next
<1>9. CASE UNCHANGED life
  BY <1>9
<1>10. ASSUME NEW c \in Calls, NEW i \in Items, ItemStep(c, i) PROVE [Lives!Next]_life
  <2>1. CASE \/ Reserve(c, i) \/ BeginDispatch(c, i) \/ RecoverBinding(c, i)
             \/ FenceUnlaunched(c, i) \/ Signal(c, i) \/ GitOpen(c, i) \/ GitLaunch(c, i)
             \/ GitReconcile(c, i) \/ GitClose(c, i) \/ Integrate(c, i)
    BY <1>9, <2>1 DEF Reserve, BeginDispatch, RecoverBinding, FenceUnlaunched, Signal, GitOpen,
                      GitLaunch, GitReconcile, GitClose, Integrate, runVars
  <2>. QED  BY <1>1, <1>2, <1>3, <1>4, <1>5, <1>6, <1>7, <1>10, <2>1 DEF ItemStep
<1>11. CASE \E c \in Calls :
              \/ AcquireLease(c) \/ Observe(c) \/ Annotate(c)
              \/ Pause(c) \/ Resume(c) \/ ReconcileCancellation(c)
              \/ \E g \in Gates : ReleaseGate(c, g)
  BY <1>9, <1>11 DEF AcquireLease, Observe, Annotate, Pause, Resume, ReconcileCancellation,
                     ReleaseGate, runVars
<1>12. CASE \/ PrepareWorkspace \/ PlanWorker \/ Launch \/ Bind \/ AbandonDispatch
            \/ \E j \in Items, g \in Gens : WorkerSettles(j, g)
            \/ \E p \in Procs : ProcessDies(p)
  BY <1>9, <1>12 DEF PrepareWorkspace, PlanWorker, Launch, Bind, AbandonDispatch, WorkerSettles,
                     ProcessDies, runVars
<1>13. CASE UNCHANGED vars
  BY <1>9, <1>13 DEF vars, runVars
<1>. QED  BY <1>8, <1>10, <1>11, <1>12, <1>13 DEF Next

\* The run uses the lifecycle of its items as ItemLife, which Lifecycle
\* implements, allows: what is shown of it in DagRun is not an artefact of its
\* coarseness.
THEOREM RunUsesItemLife == Spec => ImplementsItemLife
<1>1. Init => Lives!Init
  BY DEF Init, Lives!Init, Lives!Unworked
<1>2. IInv /\ IInv' /\ [Next]_vars => [Lives!Next]_life
  BY LifeNext DEF IInv
<1>. QED  BY <1>1, <1>2, Invariance, PTL DEF Spec, ImplementsItemLife, Lives!Spec
=============================================================================
