------------------------------ MODULE MCDagRun ------------------------------
(***************************************************************************)
(* Two plans.  The serial one is worked on by two racing calls of one      *)
(* process and by a call of the process that takes over when the first     *)
(* dies; the parallel one, with variables of its own, by one call.          *)
(***************************************************************************)
EXTENDS DagRun, TLC

CONSTANTS a, b, d, p, q, c1, c2, d1

\* A serial plan: b depends on a and waits for a gate.
SerialOrder == <<a, b>>
SerialDeps == (a :> {}) @@ (b :> {a})
SerialGates == (a :> {}) @@ (b :> {"g"})
Unlimited == [r \in {} |-> 0]

\* A parallel plan: a and b may run together; d would exceed the resource beside
\* a and excludes b.
ParallelOrder == <<a, b, d>>
ParallelDeps == (a :> {}) @@ (b :> {}) @@ (d :> {})
NoGates == (a :> {}) @@ (b :> {}) @@ (d :> {})
ParallelDemand == "cpu" :> ((a :> 1) @@ (b :> 0) @@ (d :> 2))
ParallelCapacity == "cpu" :> 2
ParallelMutexes == {{b, d}}

TwoProcesses == (c1 :> p) @@ (c2 :> p) @@ (d1 :> q)
OneProcess == (c1 :> p)

VARIABLES status2, released2, node2, life2, git2, workspace2, worker2, signalled2, lease2,
          alive2, seen2, txn2
VARIABLE part           \* which of the two is worked on

Parallel == INSTANCE DagRun
  WITH Items <- {a, b, d}, Order <- ParallelOrder, Deps <- ParallelDeps, Scope <- {a, b, d},
       Serial <- FALSE, Resources <- {"cpu"}, Demand <- ParallelDemand,
       Capacity <- ParallelCapacity, Mutexes <- ParallelMutexes,
       Gates <- {}, GatesOf <- NoGates, Procs <- {p}, Calls <- {c1}, Process <- OneProcess,
       MaxGen <- 1,
       status <- status2, released <- released2, node <- node2, life <- life2, git <- git2,
       workspace <- workspace2, worker <- worker2, signalled <- signalled2, lease <- lease2,
       alive <- alive2, seen <- seen2, txn <- txn2

parallelVars == <<status2, released2, node2, life2, git2, workspace2, worker2, signalled2,
                  lease2, alive2, seen2, txn2>>

MCInit == Init /\ Parallel!Init /\ part \in {"serial", "parallel"}

MCNext ==
  /\ \/ part = "serial" /\ Next /\ UNCHANGED parallelVars
     \/ part = "parallel" /\ Parallel!Next /\ UNCHANGED vars
  /\ UNCHANGED part

\* The fairness of DagRun, for the run of the serial plan.
RunFair ==
  /\ WF_vars(part = "serial" /\ \E c \in Calls : AcquireLease(c) \/ Observe(c))
  /\ SF_vars(part = "serial" /\ \E c \in Calls, i \in Items : Finish(c, i))
  /\ SF_vars(part = "serial" /\ \E c \in Calls : ReconcileCancellation(c))
  /\ WF_vars(part = "serial" /\ \E i \in signalled, g \in Gens : WorkerSettles(i, g))

MCSpec ==
  MCInit /\ [][MCNext]_<<vars, parallelVars, part>> /\ RunFair

\* The variables keep their types, and the audit refuses no call of the parallel plan either,
\* whatever competes for lanes, resources and exclusion groups.
ParallelAuditPasses == TypeOK /\ Parallel!TypeOK /\ Parallel!AuditSnapshot
=============================================================================
