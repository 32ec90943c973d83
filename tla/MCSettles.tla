------------------------------ MODULE MCSettles ------------------------------
(***************************************************************************)
(* What ends: a transaction of the store, a journaled command, the         *)
(* operation of a cancelled run, the repairs of an item, the lock of a     *)
(* dead owner, a cancelled worker.  Each is a part of its own; the others  *)
(* stay in their initial state, and only the steps of this part are fair.  *)
(***************************************************************************)
EXTENDS StoreV2, SupervisedAttempt, FiniteSets, ItemCases

CONSTANTS Requests, MaxEpoch,                    \* CommandRunner
          Items, Commands, Foreign,              \* GitLanding
          Proc, NoOwner, Empty, LockKinds,       \* FileLock
          MaxDeaths                              \* FileLock

VARIABLES run, intent, job, owned, worker, dirty, up, ensure, pipe, journal, sup, alive, outcome
VARIABLES status, opened, op, lane, rival, claimed, work, target, process, receipt, call
VARIABLES kind, path, tombs, place, seen, again, dead
VARIABLES node, life, execs, past, findings, ledger, git, checks
VARIABLE part

Runner == INSTANCE CommandRunner
Git == INSTANCE GitLanding WITH owned <- claimed, child <- process
FileLocks == INSTANCE FileLock WITH pc <- place, Nobody <- NoOwner, Kinds <- LockKinds
Item == INSTANCE Lifecycle
  WITH Checks <- SevenChecks, StageOf <- OneEach, Candidates <- {"x"}, Tree <- TreeOf,
       Baseline <- "base", Outcomes <- TestOutcomes, WorkerId <- WorkerIds, MaxGen <- 1,
       Limit <- SmallLimits, call <- checks

runnerVars == <<run, intent, job, owned, worker, dirty, up, ensure, pipe, journal, sup, alive,
                outcome>>
gitVars == <<status, opened, op, lane, rival, claimed, work, target, process, receipt, call>>
lockVars == <<kind, path, tombs, place, seen, again, dead>>
supervisorVars == <<at, memory, timers, child, out, files, missed>>
itemVars == <<node, life, execs, past, findings, ledger, git, checks>>
settleVars == <<vars, runnerVars, gitVars, lockVars, supervisorVars, itemVars, part>>

SettlesInit ==
    /\ part \in {"store", "runner", "git", "lock", "supervisor", "item"}
    /\ Init /\ Runner!Init /\ Git!Init /\ Sup!Init /\ Item!Init
    /\ FileLocks!Init /\ (part # "lock" => dead = {} /\ kind = CHOOSE k \in LockKinds : TRUE)

\* A step of one part, named by the variables that are not its own.
StoreNext == Next /\ UNCHANGED <<runnerVars, gitVars, lockVars, supervisorVars, itemVars>>
RunnerNext == Runner!Next /\ UNCHANGED <<vars, gitVars, lockVars, supervisorVars, itemVars>>
GitNext == Git!Next /\ UNCHANGED <<vars, runnerVars, lockVars, supervisorVars, itemVars>>
LockNext ==
    FileLocks!LockNext /\ UNCHANGED <<vars, runnerVars, gitVars, supervisorVars, itemVars>>
SupervisorNext ==
    Sup!Next /\ UNCHANGED <<vars, runnerVars, gitVars, lockVars, itemVars>>
ItemNext == Item!Next /\ UNCHANGED <<vars, runnerVars, gitVars, lockVars, supervisorVars>>

SettlesNext ==
    /\ UNCHANGED part
    /\ \/ part = "store" /\ StoreNext
       \/ part = "runner" /\ RunnerNext
       \/ part = "git" /\ GitNext
       \/ part = "lock" /\ LockNext
       \/ part = "supervisor" /\ SupervisorNext
       \/ part = "item" /\ ItemNext

----------------------------------------------------------------------------
(* The fairness of the modules, for the part that runs. *)

StoreFair == \A p \in Procs : WF_vars(part = "store" /\ Step(p))

RunnerFair ==
    \A r \in Requests :
        /\ WF_runnerVars(part = "runner" /\ Runner!CallStep(r))
        /\ WF_runnerVars(part = "runner" /\ Runner!SupervisorStep(r))
        /\ WF_runnerVars(part = "runner" /\ sup[r].aborting /\ Runner!CommandEnds(r))
        /\ WF_runnerVars(part = "runner" /\ \E p \in Procs : Runner!Recover(p, r))

GitFair ==
    /\ WF_gitVars(part = "git" /\ Git!CallStep)
    /\ WF_gitVars(part = "git" /\ Git!EndCall)
    /\ WF_gitVars(part = "git" /\ Git!Progress)
    /\ WF_gitVars(part = "git" /\ Git!ChildEnds)
    /\ WF_gitVars(part = "git" /\ Git!OrphanEnds)
    /\ <>[][Git!EndCall => ~ ENABLED Git!CallStep
                           /\ process.state \notin {"waiting", "running"}]_gitVars
    /\ <>[][Git!ChildEnds => ~ ENABLED Git!Launch /\ ~ ENABLED Git!Progress]_gitVars
    /\ <>[][~ Git!KillSupervisor /\ ~ Git!LaunchLost]_gitVars
    /\ \A i \in Items : SF_gitVars(part = "git" /\ Git!StartClose(i))

LockFair ==
    \A p \in Proc :
        WF_lockVars(part = "lock" /\ p \notin dead /\ (FileLocks!LockStep(p) \/ FileLocks!Leave(p)))

SupervisorFair ==
    /\ WF_supervisorVars(part = "supervisor" /\ Sup!Start)
    /\ WF_supervisorVars(part = "supervisor" /\ Sup!SupervisorStep)

ItemFair ==
    /\ WF_itemVars(part = "item" /\ Item!CallStep) /\ WF_itemVars(part = "item" /\ Item!EndCall)
    /\ <>[][Item!EndCall => ~ ENABLED Item!CallStep]_itemVars
    /\ \A i \in Items :
          /\ SF_itemVars(part = "item" /\ Item!StartChecks(i))
          /\ SF_itemVars(part = "item" /\ \E e \in execs[i] : Item!RetryCheck(i, e))

SettlesSpec ==
    /\ SettlesInit /\ [][SettlesNext]_settleVars
    /\ StoreFair /\ RunnerFair /\ GitFair /\ LockFair /\ SupervisorFair /\ ItemFair

----------------------------------------------------------------------------
JournaledSettles == Runner!JournaledSettles
RepairsEnd == Item!RepairsEnd
CancelledOperationCloses == Git!CancelledOperationCloses
\* No lock is held for ever: a transaction gives the lock of the store back, whatever fails, and
\* the lock of a dead owner goes.
LocksAreGivenBack == TransactionsEnd /\ FileLocks!DeadLockGoes

CancellationEnds == Sup!CancellationEnds
=============================================================================
