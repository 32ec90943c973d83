------------------------------- MODULE DagRun -------------------------------
(***************************************************************************)
(* One V2 run (runtime-v2/service.ts, state.ts, and the calls product.ts   *)
(* makes of them): admission, reservation, dispatch, replacement,          *)
(* integration, pause, replanning and cancellation of the items of a plan. *)
(*                                                                         *)
(* A step is one store transaction, which StoreV2 justifies, except for    *)
(* dispatch: it holds the store lock across three publications and the     *)
(* launch of an external process, and can be cut anywhere between them.    *)
(*                                                                         *)
(* Each tool call first reads the run (product.ts mutation) and passes     *)
(* what it read to a service method, which refuses it if the revision has  *)
(* moved.  Revisions are abstracted to what each call has read and may     *)
(* still act on: every publication takes that away from all calls.         *)
(*                                                                         *)
(* The lifecycle of an item is coarse here (Lifecycle models its stages,   *)
(* rounds and retry ledgers), and so is its Git operation (GitLanding).    *)
(***************************************************************************)
EXTENDS Naturals, Sequences, FiniteSets, Functions

CONSTANTS
  Items,          \* work items of the plan
  Order,          \* the items in plan order
  Deps,           \* Deps[i]: the items i depends on
  Scope,          \* items the start request authorizes
  Serial,         \* plan.integration.strategy = "serial"
  Lanes,          \* authority.maxConcurrency
  Resources, Demand, Capacity,  \* Demand[r][i], Capacity[r]
  Mutexes,        \* sets of items that may not be active together
  Gates, GatesOf, \* declared gates; GatesOf[i]: those i waits for
  Procs,          \* host processes of the session, one after another
  Calls, Process, \* tool calls in flight; Process[c]: the one that runs c
  None,
  MaxGen          \* bound: generations of an item that can be reserved

Gens == 1..MaxGen

\* parsePlanV2 and assertScopeV2: the order is a topological enumeration of the
\* items, and the scope is closed under dependencies and, for a serial plan,
\* under predecessors.
ASSUME PlanAssumption ==
  /\ IsFiniteSet(Items)
  /\ Order \in [1..Cardinality(Items) -> Items] /\ IsInjective(Order)
  /\ Deps \in [Items -> SUBSET Items]
  /\ \A m, n \in DOMAIN Order : Order[m] \in Deps[Order[n]] => m < n
  /\ Scope \in SUBSET Items /\ Scope # {}
  /\ \A i \in Scope : Deps[i] \subseteq Scope
  /\ Serial \in BOOLEAN
  /\ Serial => \A m, n \in DOMAIN Order : m < n /\ Order[n] \in Scope => Order[m] \in Scope
  /\ Lanes \in Nat \ {0} /\ MaxGen \in Nat \ {0}
  /\ Demand \in [Resources -> [Items -> Nat]] /\ Capacity \in [Resources -> Nat]
  /\ Mutexes \subseteq SUBSET Items
  /\ GatesOf \in [Items -> SUBSET Gates]
  /\ Process \in [Calls -> Procs] /\ None \notin Procs \cup Calls

VARIABLES
  status,     \* run.status
  released,   \* run.releasedGates
  node,       \* run.nodes: status, generation, reservation and its base
  life,       \* what service.ts reads of node.lifecycle
  git,        \* the Git operation of the item's latest generation
  workspace,  \* items with a published node workspace binding
  worker,     \* external worker of each natural slot (item, generation)
  signalled,  \* items whose worker was told to stop
  lease,      \* process named by run.lease
  alive,      \* processes that run
  seen,       \* the accepted items each call has read, None once it is stale
  txn         \* the dispatch that holds the store lock, or None

runVars == <<status, released, node, life, git, workspace>>
vars == <<runVars, worker, signalled, lease, alive, seen, txn>>

RunStatus == {"active", "paused", "needs_replan", "complete", "cancelling", "cancelled"}
NodeStatus == {"excluded", "pending", "active", "complete", "cancelled"}
Reservation == {"none", "reserved", "dispatching", "bound"}
Findings == {"blocking", "plan_affecting"}
Node == [status : NodeStatus, gen : 1..MaxGen + 1, res : Reservation, resGen : Gens, base : SUBSET Items]
Life == [cand : BOOLEAN, ready : BOOLEAN, stop : BOOLEAN, failed : BOOLEAN,
         open : SUBSET {"current", "stale"}, findings : SUBSET Findings]
GitPhase == {"none", "open", "landing", "landed", "accepted", "closed"}
Worker == {"none", "planned", "running", "settled", "fenced"}
Dispatch == [call : Calls, item : Items, step : {"prepare", "launch", "bind"}]

TypeOK ==
  /\ status \in RunStatus
  /\ released \in SUBSET Gates
  /\ node \in [Items -> Node]
  /\ life \in [Items -> Life]
  /\ git \in [Items -> GitPhase]
  /\ workspace \in SUBSET Items
  /\ worker \in [Items -> [Gens -> Worker]]
  /\ signalled \in SUBSET Items
  /\ lease \in Procs \cup {None}
  /\ alive \in SUBSET Procs
  /\ seen \in [Calls -> (SUBSET Items) \cup {None}]
  /\ txn \in Dispatch \cup {None}

Init ==
  /\ status = "active"
  /\ released = {}
  /\ node = [i \in Items |-> [status |-> IF i \in Scope THEN "pending" ELSE "excluded",
                              gen |-> 1, res |-> "none", resGen |-> 1, base |-> {}]]
  /\ life = [i \in Items |-> [cand |-> FALSE, ready |-> FALSE, stop |-> FALSE, failed |-> FALSE,
                              open |-> {}, findings |-> {}]]
  /\ git = [i \in Items |-> "none"]
  /\ workspace = {}
  /\ worker = [i \in Items |-> [g \in Gens |-> "none"]]
  /\ signalled = {}
  /\ lease = None
  /\ alive = Procs
  /\ seen = [c \in Calls |-> None]
  /\ txn = None

-----------------------------------------------------------------------------
(* Each operator that a mistake in the code would change is preceded by    *)
(* the mistaken form, which some property below must notice.               *)

WithStatus(s) == {i \in Items : node[i].status = s}
ActiveItems == WithStatus("active")
Complete == WithStatus("complete")
Finished(i) == node[i].status \in {"complete", "excluded"}

\* unresolvedGitV2
Unresolved(i) == git[i] \in {"open", "landing", "landed"}

Load(r, S) == SumFunctionOnSet(Demand[r], S)

\* The next unfinished item in plan order is the only one a serial plan admits.
NextSerial(i) ==
  \E n \in DOMAIN Order : Order[n] = i /\ \A m \in 1..n-1 : Finished(Order[m])

\* Mistake: mutual exclusion groups are not consulted.
AdmissibleBesideMutex(i) ==
  /\ node[i].status = "pending"
  /\ Cardinality(ActiveItems) < Lanes
  /\ Serial => NextSerial(i)
  /\ Deps[i] \subseteq Complete /\ GatesOf[i] \subseteq released
  /\ \A r \in Resources : Demand[r][i] + Load(r, ActiveItems) <= Capacity[r]

\* admissibleV2, for a run that is active.
Admissible(i) ==
  /\ node[i].status = "pending"
  /\ Cardinality(ActiveItems) < Lanes
  /\ Serial => NextSerial(i)
  /\ Deps[i] \subseteq Complete
  /\ GatesOf[i] \subseteq released
  /\ \A M \in Mutexes : i \in M => M \cap ActiveItems = {}
  /\ \A r \in Resources : Demand[r][i] + Load(r, ActiveItems) <= Capacity[r]

\* The store lock is free and the calling process runs and holds the lease.
Holds(c) == txn = None /\ lease = Process[c] /\ Process[c] \in alive

\* Mistake: dispatch does not hold the lock, and other transactions interleave.
MutatesUnlocked(c) == lease = Process[c] /\ Process[c] \in alive /\ seen[c] # None

\* guard(): the lease is the caller's and the revision is the one it read.
Mutates(c) == Holds(c) /\ seen[c] # None

\* Mistake: the revision is not incremented.
PublishSameRevision == UNCHANGED seen

\* run.revision++ and publish().
Publish == seen' = [c \in Calls |-> None]

Bound(i) == node[i].status = "active" /\ node[i].res = "bound"

\* Mistakes: results on their way stay current; they get a status of their own.
InvalidatedButOpen(l) == [l EXCEPT !.ready = FALSE, !.failed = FALSE]
InvalidatedAsFailed(l) == [l EXCEPT !.ready = FALSE, !.failed = FALSE,
                                    !.open = IF @ = {} THEN {} ELSE {"failed"}]

\* What invalidateLifecycleV2 does: evidence is quarantined, and results still
\* to come are stale.
Invalidated(l) == [l EXCEPT !.ready = FALSE, !.failed = FALSE,
                            !.open = IF @ = {} THEN {} ELSE {"stale"}]

\* Mistakes: an unacknowledged launch counts as none; an absent one as running.
SettledWhenUnbound(i) ==
  \/ node[i].res \in {"none", "reserved", "dispatching"}
  \/ worker[i][node[i].resGen] \in {"settled", "fenced"}
SettledOnlyByResult(i) ==
  node[i].res = "dispatching" => worker[i][node[i].resGen] \in {"settled", "fenced"}

\* The adapter's settled(): nothing was launched or recorded, or what was has
\* ended or can no longer start.
Settled(i) ==
  \/ node[i].res \in {"none", "reserved"}
  \/ node[i].res = "dispatching" /\ worker[i][node[i].resGen] = "none"
  \/ worker[i][node[i].resGen] \in {"settled", "fenced"}

\* Mistake: readiness is not checked again after the operation was opened.
LandableUnready(i) == status = "active" /\ Bound(i)

\* current() of the Git driver: what a landing depends on still holds.
Landable(i) == status = "active" /\ Bound(i) /\ life[i].ready

-----------------------------------------------------------------------------
(* Reading and the lease.                                                  *)

\* product.ts mutation() of a process that has no lease yet; a lease is taken
\* over only from a process that is gone.
AcquireLease(c) ==
  /\ txn = None /\ Process[c] \in alive
  /\ lease # Process[c] /\ (lease = None \/ lease \notin alive)
  /\ status \notin {"complete", "cancelled"}
  /\ lease' = Process[c]
  /\ seen' = [d \in Calls |-> IF d = c THEN Complete ELSE None]
  /\ UNCHANGED <<runVars, worker, signalled, alive, txn>>

\* Reading takes no lock: it sees what a dispatch under way has published.
Observe(c) ==
  /\ lease = Process[c] /\ Process[c] \in alive
  /\ seen[c] = None
  /\ seen' = [seen EXCEPT ![c] = Complete]
  /\ UNCHANGED <<runVars, worker, signalled, lease, alive, txn>>

\* setWorkerDirection, bindNodeWorkspace, recordWorkerCompletion and
\* recordIntakeRejection publish receipts no service guard reads again; what
\* matters of them here is that they move the revision.
Annotate(c) ==
  /\ Mutates(c)
  /\ status \in {"active", "paused"}
  /\ Publish
  /\ UNCHANGED <<runVars, worker, signalled, lease, alive, txn>>

-----------------------------------------------------------------------------
(* From admission to a bound worker.                                       *)

Reserve(c, i) ==
  /\ Mutates(c) /\ status = "active"
  /\ node[i].res = "none"
  /\ Admissible(i)
  /\ node' = [node EXCEPT ![i].status = "active", ![i].res = "reserved",
                          ![i].resGen = node[i].gen, ![i].base = seen[c]]
  /\ Publish
  /\ UNCHANGED <<status, released, life, git, workspace, worker, signalled, lease, alive, txn>>

\* dispatch(): guards, and the durable intent to launch.
BeginDispatch(c, i) ==
  /\ Mutates(c) /\ status = "active"
  /\ node[i].status = "active" /\ node[i].res \in {"reserved", "dispatching"}
  /\ ~ life[i].stop
  /\ txn' = [call |-> c, item |-> i, step |-> "prepare"]
  /\ node' = [node EXCEPT ![i].res = "dispatching"]
  /\ IF node[i].res = "reserved" THEN Publish ELSE UNCHANGED seen
  /\ UNCHANGED <<status, released, life, git, workspace, worker, signalled, lease, alive>>

\* prepareWorkspace(), and the publication of the binding it returned.
PrepareWorkspace ==
  /\ txn # None /\ txn.step = "prepare"
  /\ txn' = [txn EXCEPT !.step = "launch"]
  /\ workspace' = workspace \cup {txn.item}
  /\ IF txn.item \in workspace THEN UNCHANGED seen ELSE Publish
  /\ UNCHANGED <<status, released, node, life, git, worker, signalled, lease, alive>>

\* ensure(): the manager records the natural slot durably, then spawns its
\* worker; a slot it already knows is returned as it is.
PlanWorker ==
  /\ txn # None /\ txn.step = "launch"
  /\ worker[txn.item][node[txn.item].resGen] = "none"
  /\ worker' = [worker EXCEPT ![txn.item][node[txn.item].resGen] = "planned"]
  /\ UNCHANGED <<runVars, signalled, lease, alive, seen, txn>>

Launch ==
  /\ txn # None /\ txn.step = "launch"
  /\ worker[txn.item][node[txn.item].resGen] # "none"
  /\ worker' = [worker EXCEPT ![txn.item][node[txn.item].resGen] =
                  IF @ = "planned" THEN "running" ELSE @]
  /\ txn' = [txn EXCEPT !.step = "bind"]
  /\ UNCHANGED <<runVars, signalled, lease, alive, seen>>

Bind ==
  /\ txn # None /\ txn.step = "bind"
  /\ node' = [node EXCEPT ![txn.item].res = "bound"]
  /\ txn' = None
  /\ Publish
  /\ UNCHANGED <<status, released, life, git, workspace, worker, signalled, lease, alive>>

\* prepareWorkspace() or ensure() throws, before or after its effect.
AbandonDispatch ==
  /\ txn # None /\ txn' = None
  /\ UNCHANGED <<runVars, worker, signalled, lease, alive, seen>>

\* recoverWorkerBinding(): the launch was never acknowledged; look it up.
RecoverBinding(c, i) ==
  /\ Mutates(c)
  /\ node[i].status \in {"active", "cancelled"} /\ node[i].res = "dispatching"
  /\ worker[i][node[i].resGen] \in {"running", "settled"}
  /\ node' = [node EXCEPT ![i].res = "bound"]
  /\ Publish
  /\ UNCHANGED <<status, released, life, git, workspace, worker, signalled, lease, alive, txn>>

CanReplace(i) ==
  /\ status \in {"active", "paused", "needs_replan"}
  /\ node[i].status = "active" /\ node[i].res # "none"
  /\ ~ Unresolved(i) /\ life[i].open = {}

\* cancelUnlaunchedByLaunchKey, which settled() and cancel() call: the manager
\* makes a recorded but unspawned worker final.  The service step that asked
\* for it may still fail.
FenceUnlaunched(c, i) ==
  /\ Mutates(c)
  /\ \/ CanReplace(i)
     \/ status = "cancelling" /\ node[i].status = "cancelled"
  /\ node[i].res = "dispatching" /\ worker[i][node[i].resGen] = "planned"
  /\ worker' = [worker EXCEPT ![i][node[i].resGen] = "fenced"]
  /\ UNCHANGED <<runVars, signalled, lease, alive, seen, txn>>

\* replace(): a new generation of an item whose worker has settled.  A retry
\* stop, findings and retained results survive it.
Replace(c, i) ==
  /\ Mutates(c)
  /\ CanReplace(i) /\ Settled(i)
  /\ node[i].gen < MaxGen
  /\ node' = [node EXCEPT ![i].gen = @ + 1, ![i].resGen = node[i].gen + 1,
                          ![i].res = "reserved"]
  /\ life' = [life EXCEPT ![i] = [Invalidated(@) EXCEPT !.cand = FALSE]]
  /\ git' = [git EXCEPT ![i] = "none"]
  /\ Publish
  /\ UNCHANGED <<status, released, workspace, worker, signalled, lease, alive, txn>>

-----------------------------------------------------------------------------
(* The lifecycle, as far as the run depends on it.                         *)

\* completion() and setCandidate(): the ended worker's candidate is bound, or is
\* found to be a tree that was tried before, which stops the item.
SetCandidate(c, i) ==
  /\ Mutates(c) /\ status = "active"
  /\ Bound(i) /\ worker[i][node[i].resGen] = "settled"
  /\ ~ life[i].stop /\ ~ Unresolved(i)
  /\ \/ life' = [life EXCEPT ![i].stop = TRUE, ![i].ready = FALSE]
     \/ life' = [life EXCEPT ![i] = [Invalidated(@) EXCEPT !.cand = TRUE]]
  /\ Publish
  /\ UNCHANGED <<status, released, node, git, workspace, worker, signalled, lease, alive, txn>>

\* prepareCheck(): there are no checks beyond F7, so none for a ready item.
PrepareCheck(c, i) ==
  /\ Mutates(c) /\ status = "active"
  /\ node[i].status = "active"
  /\ life[i].cand /\ ~ life[i].stop /\ ~ life[i].ready
  /\ life' = [life EXCEPT ![i].open = @ \cup {"current"}]
  /\ Publish
  /\ UNCHANGED <<status, released, node, git, workspace, worker, signalled, lease, alive, txn>>

\* recordResult(): the result of a check arrives whatever became of the run.
\* A stale one is only retained.  `more' says whether results of its kind are
\* still to come.
RecordResult(c, i, kind, more) ==
  /\ Mutates(c)
  /\ kind \in life[i].open
  /\ \E failed \in BOOLEAN, found \in SUBSET Findings :
       LET l == [life[i] EXCEPT !.open = IF more THEN @ ELSE @ \ {kind}] IN
       /\ found # {} => failed
       /\ IF kind = "current"
            THEN /\ life' = [life EXCEPT ![i] = [l EXCEPT !.failed = @ \/ failed,
                                                          !.findings = @ \cup found]]
                 /\ status' = IF "plan_affecting" \in found THEN "needs_replan" ELSE status
            ELSE /\ life' = [life EXCEPT ![i] = l]
                 /\ UNCHANGED status
  /\ Publish
  /\ UNCHANGED <<released, node, git, workspace, worker, signalled, lease, alive, txn>>

\* advanceLifecycle() past F8.
AdvanceToReady(c, i) ==
  /\ Mutates(c) /\ status = "active"
  /\ life[i].cand /\ ~ life[i].stop /\ ~ life[i].ready /\ ~ life[i].failed
  /\ life[i].findings = {} /\ life[i].open = {}
  /\ life' = [life EXCEPT ![i].ready = TRUE]
  /\ Publish
  /\ UNCHANGED <<status, released, node, git, workspace, worker, signalled, lease, alive, txn>>

\* retryCheck(): another round, or a durable stop when a ledger refuses it.
RetryCheck(c, i) ==
  /\ Mutates(c) /\ status = "active"
  /\ life[i].failed /\ life[i].open = {} /\ ~ Unresolved(i)
  /\ \/ life' = [life EXCEPT ![i].stop = TRUE]
     \/ life' = [life EXCEPT ![i].failed = FALSE, ![i].ready = FALSE]
  /\ Publish
  /\ UNCHANGED <<status, released, node, git, workspace, worker, signalled, lease, alive, txn>>

DispositionFinding(c, i, f) ==
  /\ Mutates(c) /\ status \notin {"complete", "cancelled"}
  /\ f \in life[i].findings
  /\ life' = [life EXCEPT ![i].findings = @ \ {f}]
  /\ Publish
  /\ UNCHANGED <<status, released, node, git, workspace, worker, signalled, lease, alive, txn>>

-----------------------------------------------------------------------------
(* Run control.                                                            *)

ReleaseGate(c, g) ==
  /\ Mutates(c) /\ status = "active"
  /\ g \notin released
  /\ released' = released \cup {g}
  /\ Publish
  /\ UNCHANGED <<status, node, life, git, workspace, worker, signalled, lease, alive, txn>>

Pause(c) ==
  /\ Mutates(c) /\ status = "active"
  /\ status' = "paused"
  /\ Publish
  /\ UNCHANGED <<released, node, life, git, workspace, worker, signalled, lease, alive, txn>>

Resume(c) ==
  /\ Mutates(c) /\ status \in {"paused", "needs_replan"}
  /\ status = "needs_replan" => \A i \in Items : "plan_affecting" \notin life[i].findings
  /\ status' = "active"
  /\ Publish
  /\ UNCHANGED <<released, node, life, git, workspace, worker, signalled, lease, alive, txn>>

\* cancel(): every unfinished generation is fenced before anything is signalled.
Cancel(c) ==
  /\ Mutates(c) /\ status \in {"active", "paused", "needs_replan"}
  /\ LET fenced == WithStatus("pending") \cup ActiveItems IN
       /\ node' = [i \in Items |-> IF i \in fenced
                     THEN [node[i] EXCEPT !.status = "cancelled", !.gen = @ + 1] ELSE node[i]]
       /\ life' = [i \in Items |-> IF i \in fenced THEN Invalidated(life[i]) ELSE life[i]]
  /\ status' = "cancelling"
  /\ Publish
  /\ UNCHANGED <<released, git, workspace, worker, signalled, lease, alive, txn>>

\* product.ts cancel() after the fence: a running worker is told to stop.
Signal(c, i) ==
  /\ Holds(c) /\ status = "cancelling"
  /\ node[i].status = "cancelled" /\ node[i].res \in {"dispatching", "bound"}
  /\ worker[i][node[i].resGen] = "running"
  /\ i \notin signalled
  /\ signalled' = signalled \cup {i}
  /\ UNCHANGED <<runVars, worker, lease, alive, seen, txn>>

\* reconcileCancellation()
ReconcileCancellation(c) ==
  /\ Mutates(c) /\ status = "cancelling"
  /\ \A i \in Items : life[i].open = {} /\ ~ Unresolved(i) /\ Settled(i)
  /\ status' = "cancelled"
  /\ Publish
  /\ UNCHANGED <<released, node, life, git, workspace, worker, signalled, lease, alive, txn>>

-----------------------------------------------------------------------------
(* Integration.  One operation at a time is unresolved in a run.           *)

GitOpen(c, i) ==
  /\ Mutates(c) /\ Landable(i)
  /\ git[i] = "none" /\ \A j \in Items : ~ Unresolved(j)
  /\ git' = [git EXCEPT ![i] = "open"]
  /\ Publish
  /\ UNCHANGED <<status, released, node, life, workspace, worker, signalled, lease, alive, txn>>

\* The driver's own updates are guarded by the lease and not by the revision.
GitLaunch(c, i) ==
  /\ Holds(c) /\ Landable(i)
  /\ git[i] = "open"
  /\ git' = [git EXCEPT ![i] = "landing"]
  /\ Publish
  /\ UNCHANGED <<status, released, node, life, workspace, worker, signalled, lease, alive, txn>>

\* reconcile(): observation of what the launched merge did needs no authority.
GitReconcile(c, i) ==
  /\ Holds(c)
  /\ git[i] = "landing"
  /\ \E to \in {"open", "landed"} : git' = [git EXCEPT ![i] = to]
  /\ Publish
  /\ UNCHANGED <<status, released, node, life, workspace, worker, signalled, lease, alive, txn>>

\* closeOperation(): a target that moved can be given up only while cancelling.
GitClose(c, i) ==
  /\ Mutates(c) /\ status \in {"active", "paused", "needs_replan", "cancelling"}
  /\ \/ git[i] = "open"
     \/ git[i] = "landed" /\ status = "cancelling"
  /\ git' = [git EXCEPT ![i] = "closed"]
  /\ Publish
  /\ UNCHANGED <<status, released, node, life, workspace, worker, signalled, lease, alive, txn>>

\* integrate(): the landing is accepted and consumers are released.
Integrate(c, i) ==
  /\ Mutates(c) /\ Landable(i)
  /\ git[i] = "landed"
  /\ Serial => NextSerial(i)
  /\ git' = [git EXCEPT ![i] = "accepted"]
  /\ node' = [node EXCEPT ![i].status = "complete"]
  /\ status' = IF \A j \in Items \ {i} : Finished(j) THEN "complete" ELSE status
  /\ Publish
  /\ UNCHANGED <<released, life, workspace, worker, signalled, lease, alive, txn>>

-----------------------------------------------------------------------------
(* The environment.                                                        *)

WorkerSettles(i, g) ==
  /\ worker[i][g] = "running"
  /\ worker' = [worker EXCEPT ![i][g] = "settled"]
  /\ UNCHANGED <<runVars, signalled, lease, alive, seen, txn>>

\* The host process dies with its calls; the kernel drops its store lock.  The
\* session is continued by another process, as long as there is one.
ProcessDies(p) ==
  /\ p \in alive /\ alive # {p}
  /\ alive' = alive \ {p}
  /\ seen' = [c \in Calls |-> IF Process[c] = p THEN None ELSE seen[c]]
  /\ txn' = IF txn # None /\ Process[txn.call] = p THEN None ELSE txn
  /\ UNCHANGED <<runVars, worker, signalled, lease>>

ItemStep(c, i) ==
  \/ Reserve(c, i) \/ BeginDispatch(c, i) \/ RecoverBinding(c, i)
  \/ FenceUnlaunched(c, i) \/ Replace(c, i)
  \/ SetCandidate(c, i) \/ PrepareCheck(c, i) \/ AdvanceToReady(c, i) \/ RetryCheck(c, i)
  \/ \E kind \in {"current", "stale"}, more \in BOOLEAN : RecordResult(c, i, kind, more)
  \/ \E f \in Findings : DispositionFinding(c, i, f)
  \/ Signal(c, i)
  \/ GitOpen(c, i) \/ GitLaunch(c, i) \/ GitReconcile(c, i) \/ GitClose(c, i)
  \/ Integrate(c, i)

Next ==
  \/ \E c \in Calls :
       \/ AcquireLease(c) \/ Observe(c) \/ Annotate(c)
       \/ Pause(c) \/ Resume(c) \/ Cancel(c) \/ ReconcileCancellation(c)
       \/ \E g \in Gates : ReleaseGate(c, g)
       \/ \E i \in Items : ItemStep(c, i)
  \/ PrepareWorkspace \/ PlanWorker \/ Launch \/ Bind \/ AbandonDispatch
  \/ \E i \in Items, g \in Gens : WorkerSettles(i, g)
  \/ \E p \in Procs : ProcessDies(p)

Spec == Init /\ [][Next]_vars

\* What has to be done about item i before a cancelling run is quiet.
Finish(c, i) ==
  /\ status = "cancelling"
  /\ \/ \E kind \in {"current", "stale"} : RecordResult(c, i, kind, FALSE)
     \/ FenceUnlaunched(c, i) \/ Signal(c, i)
     \/ GitReconcile(c, i) \/ GitClose(c, i)

\* Somebody keeps making the calls product.ts next() offers for a cancelling
\* run (line 273), the commands under way end, and a worker told to stop does.
FairSpec ==
  /\ Spec
  /\ WF_vars(\E c \in Calls : AcquireLease(c) \/ Observe(c))
  /\ SF_vars(\E c \in Calls, i \in Items : Finish(c, i))
  /\ SF_vars(\E c \in Calls : ReconcileCancellation(c))
  /\ WF_vars(\E i \in signalled, g \in Gens : WorkerSettles(i, g))

-----------------------------------------------------------------------------
(* Properties.                                                             *)

\* auditSnapshotV2 rejects a publication that breaks any of these, after the
\* service has done its work and possibly called the outside world.  That they
\* are invariant says that no legal call is ever refused by the audit.
DependenciesIntegrated ==
  \A i \in ActiveItems \cup Complete : Deps[i] \subseteq Complete

SerialPrefix ==
  Serial => \A m, n \in DOMAIN Order :
    m < n /\ Order[n] \in ActiveItems \cup Complete => Order[m] \in Complete

NoOvercommit ==
  /\ Cardinality(ActiveItems) <= Lanes
  /\ \A r \in Resources : Load(r, ActiveItems) <= Capacity[r]
  /\ \A M \in Mutexes : Cardinality(M \cap ActiveItems) <= 1

ReservationMatches ==
  \A i \in Items :
    /\ node[i].status = "active" => node[i].res # "none"
    /\ node[i].res # "none" =>
         /\ node[i].status \in {"active", "complete", "cancelled"}
         /\ node[i].resGen = node[i].gen - (IF node[i].status = "cancelled" THEN 1 ELSE 0)

TerminalMatches ==
  /\ status = "complete" <=> \A i \in Items : Finished(i)
  /\ WithStatus("cancelled") # {} => status \in {"cancelling", "cancelled"}
  /\ status \in {"cancelling", "cancelled"} =>
       WithStatus("pending") \cup ActiveItems = {}
  /\ status \in {"complete", "cancelled"} => \A i \in Items : ~ Unresolved(i)

\* assertReadyV2 still holds of everything that was accepted.
AcceptedStaysReady ==
  \A i \in Items : node[i].status = "complete" =>
    /\ git[i] = "accepted"
    /\ life[i].cand /\ life[i].ready /\ ~ life[i].stop
    /\ life[i].findings = {} /\ life[i].open = {}

AuditSnapshot ==
  /\ DependenciesIntegrated /\ SerialPrefix /\ NoOvercommit
  /\ ReservationMatches /\ TerminalMatches /\ AcceptedStaysReady

\* A worker that runs belongs to the reservation the run shows, also when its
\* launch was never acknowledged: none is orphaned, and no item has two.
WorkersAreKnown ==
  \A i \in Items, g \in Gens : worker[i][g] \in {"planned", "running"} =>
    /\ node[i].resGen = g /\ node[i].res \in {"dispatching", "bound"}
    /\ i \in workspace

\* A run is cancelled only when nothing it started can still have an effect.
CancelledIsQuiet ==
  status = "cancelled" =>
    \A i \in Items : /\ \A g \in Gens : worker[i][g] \notin {"planned", "running"}
                     /\ life[i].open = {} /\ ~ Unresolved(i)

\* After the fence nothing starts: no worker and no landing is launched for a
\* run that is not active, whatever was in flight when it left that state.
NothingStartsUnlessActive ==
  [][ \A i \in Items :
        /\ \A g \in Gens : worker[i][g] # "running" /\ worker'[i][g] = "running"
                             => status = "active" /\ node[i].status = "active"
        /\ git[i] # "landing" /\ git'[i] = "landing" => status = "active" ]_vars

\* A run never comes back from cancellation or completion, also when a late
\* result demands replanning.
TerminalIsFinal ==
  [][ /\ status \in {"cancelling", "cancelled"} => status' \in {"cancelling", "cancelled"}
      /\ status \in {"complete", "cancelled"} => status' = status ]_vars

\* A worker starts from the prefix that is accepted when its item is reserved:
\* a call cannot reserve with a base it computed from an older run.
BaseIsAcceptedPrefix ==
  [][ \A i \in Items : node[i].res = "none" /\ node'[i].res = "reserved"
        => node'[i].base = Complete ]_vars

\* The run treats the lifecycle of its items the way Lifecycle really behaves.
Lives == INSTANCE ItemLife

ImplementsItemLife == Lives!Spec

\* Cancellation always comes to its end: no open check, unacknowledged launch,
\* Git operation or loss of the process that asked for it can wedge it.
CancellationSettles == (status = "cancelling") ~> (status = "cancelled")
=============================================================================
