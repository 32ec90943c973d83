------------------------------ MODULE GitLanding ------------------------------
(***************************************************************************)
(* Landing the candidates of one run: runtime-v2/git-driver.ts with the    *)
(* journal of the node workspace (git-workspace.ts), the audit of          *)
(* git-state.ts, the common lock (git-lock.ts) and the reference guard.    *)
(*                                                                         *)
(* integrate() composes the candidate onto the accepted prefix, checks the *)
(* proposal out in the item's workspace, runs the plan's commands there,   *)
(* restores the candidate and fast-forwards the target branch.             *)
(* closeOperation() gives up.  Every one of the many steps is journaled,   *)
(* and a call may end between any two of them: it is aborted, a step       *)
(* throws, or its process dies and another takes the lease over.  What the *)
(* next call finds is the snapshot, the workspace, the target, and perhaps *)
(* a supervised process that still runs and holds the common lock.         *)
(*                                                                         *)
(* A commit is the sequence of the items that it has on top of the         *)
(* baseline.  An item has one operation: its generation, and the lifecycle *)
(* behind assertReadyV2, are DagRun's and Lifecycle's.                     *)
(***************************************************************************)
EXTENDS Naturals, SequencesExt

CONSTANTS
  Items,
  Commands,    \* how many commands the plan's integration has
  Foreign      \* a commit that is not ours

VARIABLES
  status,    \* of the run
  opened,    \* run.gitOperations: the items, in the order of their operations
  op,        \* the operation of each item, with its workspace journal
  lane,      \* the claim file in the common directory: who lands
  rival,     \* the operation of another store that holds the claim is unresolved
  owned,     \* the ownership record of the workspace names the operation
  work,      \* content of the item's workspace
  target,    \* commit of the target branch, and whether its worktree is clean
  child,     \* the supervised Git or check process
  receipt,   \* the outcome its supervisor left
  call       \* the integrate() or closeOperation() in progress

vars == <<status, opened, op, lane, rival, owned, work, target, child, receipt, call>>

Nobody == "nobody"
Rival == "rival"

ASSUME LandingAssumption ==
  Commands \in Nat \ {0} /\ Foreign \notin Seq(Items) /\ {Nobody, Rival} \cap Items = {}

Idle == [kind |-> "none", item |-> Nobody, step |-> "idle", seen |-> "none"]
NoChild == [kind |-> "none", item |-> Nobody, state |-> "gone", done |-> FALSE]

Phases == {"none", "intent", "composed", "validated", "landing", "landed", "accepted", "blocked", "closed"}
Journal == {"none", "intent", "launched", "settled", "unlaunched"}
Observations == {"none", "old-clean", "old-dirty", "new-clean", "new-dirty", "third"}
Transitions == {"switch", "repair", "restore"}
Kinds == Transitions \cup {"check", "merge"}
CallSteps == Kinds \cup {"idle", "publish", "claim", "current", "proceed", "materialize", "checks",
                         "fence", "restoring", "checkout", "dispatch", "settle", "observe", "conclude",
                         "look", "close", "release"}

\* What a workspace may hold: the candidate, the proposal, a checkout of one over
\* the other that has not finished, the candidate's files under another HEAD, or
\* changes of a user or a check; "altered" are changes that look like a checkout.
Contents == {"candidate", "proposal", "mixed", "staged", "edited", "altered"}

Operation == [phase : Phases, expected : Seq(Items), proposed : BOOLEAN, dispatches : 0..2,
              landing : Journal, observation : Observations,
              space : {"original", "switching", "composed", "restoring", "restored"},
              closing : BOOLEAN, transition : Journal,
              jobs : [1..Commands -> {"none", "intent", "launched", "PASS", "BLOCKED"}]]

NoOperation == [phase |-> "none", expected |-> <<>>, proposed |-> FALSE, dispatches |-> 0,
                landing |-> "none", observation |-> "none", space |-> "original",
                closing |-> FALSE, transition |-> "none", jobs |-> [k \in 1..Commands |-> "none"]]

TypeOK ==
  /\ status \in {"active", "paused", "cancelling"}
  /\ opened \in Seq(Items)
  /\ op \in [Items -> Operation]
  /\ lane \in Items \cup {Nobody, Rival} /\ rival \in BOOLEAN
  /\ owned \in [Items -> BOOLEAN] /\ work \in [Items -> Contents]
  /\ target \in [commit : Seq(Items) \cup {Foreign}, clean : BOOLEAN]
  /\ child \in [kind : Kinds \cup {"none"}, item : Items \cup {Nobody},
                state : {"gone", "waiting", "running", "orphan"}, done : BOOLEAN]
  /\ receipt \in {"none", "unused", "failed", "ok"}
  /\ call \in [kind : {"none", "integrate", "close"}, item : Items \cup {Nobody},
               step : CallSteps, seen : Observations]

Init ==
  /\ status = "active" /\ opened = <<>>
  /\ op = [i \in Items |-> NoOperation]
  /\ lane = Nobody /\ rival = FALSE
  /\ owned = [i \in Items |-> FALSE] /\ work = [i \in Items |-> "candidate"]
  /\ target = [commit |-> <<>>, clean |-> TRUE]
  /\ child = NoChild /\ receipt = "none"
  /\ call = Idle

-----------------------------------------------------------------------------
(* What the steps ask.  A mistaken form stands before what a mistake in    *)
(* the code would change.                                                  *)

Resolved(i) == op[i].phase \in {"accepted", "closed"}
Unresolved(i) == op[i].phase # "none" /\ ~ Resolved(i)

Proposal(i) == Append(op[i].expected, i)

\* The proposal of the last operation before the nth that was accepted, or the baseline.
Accepted(m) == op[opened[m]].phase = "accepted"
Prefix(n) ==
  LET last == {m \in 1..n - 1 : Accepted(m) /\ \A k \in m + 1..n - 1 : ~ Accepted(k)} IN
    IF last = {} THEN <<>> ELSE Proposal(opened[CHOOSE m \in last : TRUE])

\* The accepted prefix.
Chain == Prefix(Len(opened) + 1)

\* lockGitCommonV2: a supervisor holds the lock as well as the call that started it.
LockFree == call = Idle /\ child.state \notin {"waiting", "running"}

\* claim(): the operation that the claim names must be over.  One that was claimed
\* and never published is not.
Claimable(i) == \/ lane \in {Nobody, i}
                \/ lane = Rival /\ ~ rival
                \/ \E j \in Items : lane = j /\ Resolved(j)

\* assertTargetV2
TargetAt(c) == target = [commit |-> c, clean |-> TRUE]

\* Mistake: a check that was made counts as passed.
AllMade(i) == op[i].proposed /\ \A k \in 1..Commands : op[i].jobs[k] \in {"PASS", "BLOCKED"}

\* assertGitChecksV2
AllPass(i) == op[i].proposed /\ \A k \in 1..Commands : op[i].jobs[k] = "PASS"

ChecksSettled(i) == \A k \in 1..Commands : op[i].jobs[k] \in {"none", "PASS", "BLOCKED"}

\* current(): the lease is the caller's and the item ready for as long as the run
\* has not been cancelled.
Current == status = "active"

\* currentGitExecutionV2
CurrentCheck(i, k) ==
  /\ op[i].phase = "composed" /\ status = "active"
  /\ op[i].space = "composed" /\ ~ op[i].closing
  /\ \A n \in 1..k - 1 : op[i].jobs[n] = "PASS"
  /\ \A n \in 1..Commands \ {k} : op[i].jobs[n] \notin {"intent", "launched"}

\* Mistake: the end of the owner's wait is taken for the end of the process.
ProvedExtinctAnyway(j) == TRUE

\* A process whose identity was never journaled was never launched; of another
\* only the supervisor's receipt proves that it is extinct.
ProvedExtinct(j) == j = "launched" => receipt # "none"

SettledJournal(j) == IF j = "launched" THEN "settled" ELSE IF j = "intent" THEN "unlaunched" ELSE j

\* GIT_REDISPATCH_LIMIT
Redispatchable(o) == o.dispatches < 2

\* observeGitV2
Observation(i) ==
  LET at(new) == IF target.clean THEN IF new THEN "new-clean" ELSE "old-clean"
                                 ELSE IF new THEN "new-dirty" ELSE "old-dirty"
  IN IF op[i].proposed /\ target.commit = Proposal(i) THEN at(TRUE)
     ELSE IF target.commit = op[i].expected THEN at(FALSE) ELSE "third"

At(step) == call.step = step
Goto(step) == call' = [call EXCEPT !.step = step]
Start(kind) == /\ child' = [kind |-> kind, item |-> call.item, state |-> "waiting", done |-> FALSE]
               /\ receipt' = "none" /\ Goto(kind)
Ours == call.item
Set(i, o) == op' = [op EXCEPT ![i] = o]

-----------------------------------------------------------------------------
(* integrate(): the claims, the intent and the composition.                *)

\* Mistake: the operation is published before the claim.
OpenUnclaimed(i) == UNCHANGED lane

\* The claim of the common directory is durable before the operation is.
ClaimLane(i) == Claimable(i) /\ lane' = i

OpenOperation(i) ==
  /\ LockFree
  /\ op[i].phase = "none" /\ Current
  /\ \A j \in Items : ~ Unresolved(j)
  /\ ClaimLane(i)
  /\ call' = [kind |-> "integrate", item |-> i, step |-> "publish", seen |-> "none"]
  /\ UNCHANGED <<status, opened, op, rival, owned, work, target, child, receipt>>

PublishIntent ==
  /\ At("publish")
  /\ Set(Ours, [NoOperation EXCEPT !.phase = "intent", !.expected = Chain])
  /\ opened' = Append(opened, Ours)
  /\ Goto("claim")
  /\ UNCHANGED <<status, lane, rival, owned, work, target, child, receipt>>

Resume(i) ==
  /\ LockFree /\ op[i].phase # "none"
  /\ call' = [kind |-> "integrate", item |-> i, seen |-> "none",
              step |-> IF op[i].phase = "accepted" THEN "release" ELSE "claim"]
  /\ UNCHANGED <<status, opened, op, lane, rival, owned, work, target, child, receipt>>

\* The workspace is claimed, then the lane.  An attempted landing is reconciled
\* before anything is decided.
ClaimWorkspace ==
  /\ At("claim")
  /\ owned' = [owned EXCEPT ![Ours] = TRUE]
  /\ lane' = IF Claimable(Ours) THEN Ours ELSE lane
  /\ IF ~ Claimable(Ours) \/ op[Ours].phase \in {"blocked", "closed"} THEN call' = Idle
     ELSE Goto(IF op[Ours].landing = "none" THEN "current" ELSE "settle")
  /\ UNCHANGED <<status, opened, op, rival, work, target, child, receipt>>

CheckCurrent ==
  /\ At("current") /\ Current /\ Goto("proceed")
  /\ UNCHANGED <<status, opened, op, lane, rival, owned, work, target, child, receipt>>

\* The proposal is composed on the expected target; otherwise the operation blocks.
Compose ==
  /\ At("proceed") /\ op[Ours].phase = "intent"
  /\ \/ /\ Current /\ TargetAt(op[Ours].expected)
        /\ Set(Ours, [op[Ours] EXCEPT !.phase = "composed", !.proposed = TRUE])
        /\ UNCHANGED call
     \/ /\ Set(Ours, [op[Ours] EXCEPT !.phase = "blocked"])
        /\ call' = Idle
  /\ UNCHANGED <<status, opened, lane, rival, owned, work, target, child, receipt>>

\* Mistake: the merge does not wait for the workspace.
ProceedUnrestored ==
  /\ At("proceed") /\ Current
  /\ \/ op[Ours].phase = "composed" /\ Goto("materialize")
     \/ op[Ours].phase = "validated" /\ Goto("dispatch")
  /\ UNCHANGED <<status, opened, op, lane, rival, owned, work, target, child, receipt>>

\* A composed operation is checked, a validated one goes back to its candidate.
Proceed ==
  /\ At("proceed") /\ Current
  /\ \/ op[Ours].phase = "composed" /\ Goto("materialize")
     \/ op[Ours].phase = "validated" /\ Goto("fence")
  /\ UNCHANGED <<status, opened, op, lane, rival, owned, work, target, child, receipt>>

-----------------------------------------------------------------------------
(* The workspace.                                                          *)

\* settle()
SettleTransition ==
  /\ At("materialize") \/ At("restoring")
  /\ op[Ours].transition \in {"intent", "launched"} /\ ProvedExtinct(op[Ours].transition)
  /\ Set(Ours, [op[Ours] EXCEPT !.transition = SettledJournal(@)])
  /\ UNCHANGED <<status, opened, lane, rival, owned, work, target, child, receipt, call>>

Transit(kind, phase) ==
  /\ Set(Ours, [op[Ours] EXCEPT !.space = phase, !.transition = "intent"])
  /\ Start(kind)
  /\ UNCHANGED <<status, opened, lane, rival, owned, work, target>>

Quiet(i) == op[i].transition \notin {"intent", "launched"}

\* materialize(): from either exact endpoint, never from anything else.
Materialized ==
  /\ At("materialize") /\ Quiet(Ours) /\ ~ op[Ours].closing
  /\ op[Ours].space \in {"switching", "composed"} /\ work[Ours] = "proposal"
  /\ Set(Ours, [op[Ours] EXCEPT !.space = "composed"])
  /\ Goto("checks")
  /\ UNCHANGED <<status, opened, lane, rival, owned, work, target, child, receipt>>

Materialize ==
  /\ At("materialize") /\ Quiet(Ours) /\ ~ op[Ours].closing
  /\ op[Ours].space \in {"original", "switching"} /\ work[Ours] = "candidate"
  /\ Transit("switch", "switching")

\* The transition's process is gone.  Unless that is proved the call ends.
Transited ==
  /\ call.step \in Transitions /\ child = NoChild
  /\ ProvedExtinct(op[Ours].transition)
  /\ Set(Ours, [op[Ours] EXCEPT !.transition = SettledJournal(@)])
  /\ IF receipt = "ok"
       THEN Goto(CASE At("switch") -> "materialize" [] At("repair") -> "checkout" [] OTHER -> "restoring")
       ELSE call' = Idle
  /\ UNCHANGED <<status, opened, lane, rival, owned, work, target, child, receipt>>

\* restore(): the proof that the checks have settled and the fence that keeps new
\* ones out are one transaction.
FenceChecks ==
  /\ At("fence") /\ ChecksSettled(Ours)
  /\ owned' = [owned EXCEPT ![Ours] = TRUE]
  /\ Set(Ours, [op[Ours] EXCEPT !.closing = TRUE])
  /\ Goto("restoring")
  /\ UNCHANGED <<status, opened, lane, rival, work, target, child, receipt>>

AfterRestore == Goto(IF call.kind = "integrate" THEN "dispatch"
                     ELSE IF op[Ours].landing = "none" THEN "look" ELSE "settle")

\* Mistake: either clean endpoint will do.
BackAtEndpoint(i) == work[i] \in {"candidate", "proposal"}

BackAtCandidate(i) == work[i] = "candidate"

Restored ==
  /\ At("restoring") /\ Quiet(Ours) /\ BackAtCandidate(Ours)
  /\ Set(Ours, [op[Ours] EXCEPT !.space = "restored"])
  /\ AfterRestore
  /\ UNCHANGED <<status, opened, lane, rival, owned, work, target, child, receipt>>

Restore ==
  /\ At("restoring") /\ Quiet(Ours) /\ op[Ours].space # "restored"
  /\ op[Ours].proposed /\ work[Ours] = "proposal"
  /\ Transit("restore", "restoring")

\* Mistake: anything that looks like an unfinished checkout is taken for one.
PartialByLooks(i) == work[i] \in {"mixed", "staged", "altered"}

\* A mixed workspace is ours to repair only if the journal proves that the
\* transition was launched and is extinct.
PartialCheckout(i) ==
  /\ op[i].space \in {"switching", "restoring"}
  /\ op[i].transition = "settled" /\ receipt \in {"ok", "failed"}
  /\ work[i] \in {"mixed", "staged", "altered"}

Repair ==
  /\ At("restoring") /\ Quiet(Ours) /\ op[Ours].space # "restored"
  /\ op[Ours].proposed /\ PartialCheckout(Ours)
  /\ Transit("repair", "restoring")

Checkout == At("checkout") /\ Transit("restore", "restoring")

-----------------------------------------------------------------------------
(* The checks of the proposal.                                             *)

PrepareCheck(k) ==
  /\ At("checks") /\ op[Ours].jobs[k] = "none" /\ CurrentCheck(Ours, k)
  /\ Set(Ours, [op[Ours] EXCEPT !.jobs[k] = "intent"])
  /\ Start("check")
  /\ UNCHANGED <<status, opened, lane, rival, owned, work, target>>

\* A result counts as PASS only if the workspace is what it was.
CheckResult ==
  IF receipt = "ok" /\ work[Ours] = "proposal" THEN "PASS" ELSE "BLOCKED"

Checked(k) ==
  /\ At("check") /\ child = NoChild
  /\ op[Ours].jobs[k] \in {"intent", "launched"} /\ ProvedExtinct(op[Ours].jobs[k])
  /\ Set(Ours, [op[Ours] EXCEPT !.jobs[k] = CheckResult])
  /\ Goto("checks")
  /\ UNCHANGED <<status, opened, lane, rival, owned, work, target, child, receipt>>

\* dag_recover_execution, once the process that ran the check is dead.
RecoverCheck(i, k) ==
  /\ op[i].jobs[k] = "launched" /\ receipt # "none"
  /\ ~ (call.item = i /\ At("check"))
  /\ Set(i, [op[i] EXCEPT !.jobs[k] = "BLOCKED"])
  /\ UNCHANGED <<status, opened, lane, rival, owned, work, target, child, receipt, call>>

Validate ==
  /\ At("checks") /\ Current /\ AllPass(Ours)
  /\ Set(Ours, [op[Ours] EXCEPT !.phase = "validated"])
  /\ Goto("proceed")
  /\ UNCHANGED <<status, opened, lane, rival, owned, work, target, child, receipt>>

-----------------------------------------------------------------------------
(* Landing.                                                                *)

\* The intent to merge; at most two dispatches of the same proposal.
Dispatch ==
  /\ At("dispatch") /\ op[Ours].phase = "validated"
  /\ Current /\ AllPass(Ours) /\ TargetAt(op[Ours].expected)
  /\ Redispatchable(op[Ours])
  /\ Set(Ours, [op[Ours] EXCEPT !.phase = "landing", !.dispatches = @ + 1, !.landing = "intent"])
  /\ Start("merge")
  /\ UNCHANGED <<status, opened, lane, rival, owned, work, target>>

\* The launch gate of each process.
MayLaunch(kind, i) ==
  CASE kind = "switch" -> Current
    [] kind = "merge" -> Current /\ AllPass(i) /\ TargetAt(op[i].expected)
    [] kind = "check" -> \E k \in 1..Commands : op[i].jobs[k] = "intent" /\ CurrentCheck(i, k)
    [] OTHER -> TRUE

\* The gate publishes the identity of the process.
Identified ==
  /\ call.step \in Kinds /\ child.kind = call.step /\ child.state = "waiting"
  /\ MayLaunch(child.kind, Ours)
  /\ Set(Ours, CASE child.kind = "merge" -> [op[Ours] EXCEPT !.landing = "launched"]
                 [] child.kind = "check" -> [op[Ours] EXCEPT !.jobs =
                      [k \in 1..Commands |-> IF @[k] = "intent" THEN "launched" ELSE @[k]]]
                 [] OTHER -> [op[Ours] EXCEPT !.transition = "launched"])
  /\ UNCHANGED <<status, opened, lane, rival, owned, work, target, receipt>>

\* Then the process is told to go, unless the caller dies in between.
Launch == Identified /\ child' = [child EXCEPT !.state = "running"] /\ UNCHANGED call
LaunchLost == Identified /\ call' = Idle /\ UNCHANGED child

Merged ==
  /\ At("merge") /\ child = NoChild
  /\ Goto("settle")
  /\ UNCHANGED <<status, opened, op, lane, rival, owned, work, target, child, receipt>>

\* reconcile()
SettleLanding ==
  /\ At("settle") /\ ProvedExtinct(op[Ours].landing)
  /\ Set(Ours, [op[Ours] EXCEPT !.landing = SettledJournal(@)])
  /\ Goto("observe")
  /\ UNCHANGED <<status, opened, lane, rival, owned, work, target, child, receipt>>

\* The target is observed before the transaction that believes it.
Observe ==
  /\ At("observe") \/ At("look")
  /\ call' = [call EXCEPT !.seen = Observation(Ours),
                          !.step = IF At("observe") THEN "conclude" ELSE "close"]
  /\ UNCHANGED <<status, opened, op, lane, rival, owned, work, target, child, receipt>>

Concluded(o, seen) ==
  [o EXCEPT !.observation = seen,
            !.phase = IF seen = "new-clean" THEN "landed"
                      ELSE IF seen = "old-clean" /\ Redispatchable(o) THEN "validated" ELSE "blocked"]

Conclude ==
  /\ At("conclude")
  /\ Set(Ours, Concluded(op[Ours], call.seen))
  /\ IF call.kind = "close" THEN Goto("look")
     ELSE IF Concluded(op[Ours], call.seen).phase = "blocked" THEN call' = Idle ELSE Goto("current")
  /\ UNCHANGED <<status, opened, lane, rival, owned, work, target, child, receipt>>

\* verify()
Acceptable(i) == AllPass(i) /\ TargetAt(Proposal(i))

Accept ==
  /\ At("proceed") /\ op[Ours].phase = "landed"
  /\ Current /\ Acceptable(Ours)
  /\ Set(Ours, [op[Ours] EXCEPT !.phase = "accepted"])
  /\ Goto("release")
  /\ UNCHANGED <<status, opened, lane, rival, owned, work, target, child, receipt>>

Release ==
  /\ At("release") /\ op[Ours].space = "restored" /\ Resolved(Ours)
  /\ owned' = [owned EXCEPT ![Ours] = FALSE]
  /\ call' = Idle
  /\ UNCHANGED <<status, opened, op, lane, rival, work, target, child, receipt>>

-----------------------------------------------------------------------------
(* closeOperation()                                                        *)

StartClose(i) ==
  /\ LockFree /\ op[i].phase \notin {"none", "accepted"}
  /\ ClaimLane(i)
  /\ call' = [kind |-> "close", item |-> i, seen |-> "none",
              step |-> IF op[i].phase = "closed" THEN "release" ELSE "fence"]
  /\ UNCHANGED <<status, opened, op, rival, owned, work, target, child, receipt>>

\* Mistake: what has landed is never closed.
ClosableOld(seen) == seen = "old-clean"

\* What landed and was not accepted is closed only to finish a cancellation.
Closable(seen) == seen = "old-clean" \/ (status = "cancelling" /\ seen = "new-clean")

Close ==
  /\ At("close") /\ Closable(call.seen) /\ ChecksSettled(Ours)
  /\ Set(Ours, [op[Ours] EXCEPT !.phase = "closed", !.observation = call.seen])
  /\ Goto("release")
  /\ UNCHANGED <<status, opened, lane, rival, owned, work, target, child, receipt>>

\* A step throws, the caller aborts, or the process dies.
EndCall ==
  /\ call # Idle /\ call' = Idle
  /\ UNCHANGED <<status, opened, op, lane, rival, owned, work, target, child, receipt>>

-----------------------------------------------------------------------------
(* The supervised process.  A supervisor that is killed leaves an orphan,  *)
(* which runs on without the lock and without a receipt.                   *)

Alive == child.state \in {"running", "orphan"}
ChildDoes(w) == /\ work' = [work EXCEPT ![child.item] = w]
                /\ UNCHANGED <<status, opened, op, lane, rival, owned, target, receipt, call>>
Finished == child' = [child EXCEPT !.done = TRUE]

\* git checkout changes one path after another.
CheckoutBegins ==
  /\ Alive /\ ~ child.done
  /\ \/ child.kind = "switch" /\ work[child.item] = "candidate"
     \/ child.kind = "restore" /\ work[child.item] \in {"proposal", "staged"}
     \/ child.kind = "repair" /\ work[child.item] = "altered"
  /\ ChildDoes("mixed") /\ UNCHANGED child

CheckoutFinishes ==
  /\ Alive /\ ~ child.done /\ child.kind \in Transitions
  /\ work[child.item] \in IF child.kind = "repair" THEN {"mixed", "staged"} ELSE {"mixed"}
  /\ ChildDoes(CASE child.kind = "switch" -> "proposal" [] child.kind = "repair" -> "staged"
                 [] OTHER -> "candidate")
  /\ Finished

\* A command is trusted not to change the workspace, and may.
CheckPasses == Alive /\ ~ child.done /\ child.kind = "check" /\ Finished
                 /\ UNCHANGED <<status, opened, op, lane, rival, owned, work, target, receipt, call>>
CheckEdits == /\ Alive /\ child.kind = "check"
              /\ \E w \in {"edited", "altered"} : ChildDoes(w)
              /\ UNCHANGED child

\* git merge --ff-only: the worktree, then the branch, if the guard finds what it
\* expects under Git's reference lock.
MergeBegins ==
  /\ Alive /\ child.kind = "merge" /\ ~ child.done
  /\ TargetAt(op[child.item].expected)
  /\ target' = [target EXCEPT !.clean = FALSE]
  /\ UNCHANGED <<status, opened, op, lane, rival, owned, work, child, receipt, call>>

\* Mistake: no guard.
GuardedLoosely(i) == TRUE

\* reference-transaction.py
Guarded(i) == target.commit = op[i].expected

MergeMoves ==
  /\ Alive /\ child.kind = "merge" /\ ~ child.done /\ ~ target.clean
  /\ Guarded(child.item)
  /\ target' = [commit |-> Proposal(child.item), clean |-> TRUE]
  /\ Finished
  /\ UNCHANGED <<status, opened, op, lane, rival, owned, work, receipt, call>>

\* It ends by itself, or is aborted: the owner may be gone, or its deadline.
ChildEnds ==
  /\ child.state \in {"waiting", "running"}
  /\ child' = NoChild
  /\ \E r \in {"unused", "failed", "ok"} :
       /\ (r = "unused") = (child.state = "waiting") /\ (r = "ok" => child.done)
       /\ receipt' = r
  /\ UNCHANGED <<status, opened, op, lane, rival, owned, work, target, call>>

KillSupervisor ==
  /\ child.state \in {"waiting", "running"}
  /\ child' = IF child.state = "waiting" THEN NoChild ELSE [child EXCEPT !.state = "orphan"]
  /\ UNCHANGED <<status, opened, op, lane, rival, owned, work, target, receipt, call>>

OrphanEnds ==
  /\ child.state = "orphan" /\ child' = NoChild
  /\ UNCHANGED <<status, opened, op, lane, rival, owned, work, target, receipt, call>>

-----------------------------------------------------------------------------
(* The rest of the world.                                                  *)

\* pause, resume and cancel wait for the store's lock.
Control(new) ==
  /\ ~ At("publish") /\ status # new /\ status # "cancelling"
  /\ status' = new
  /\ UNCHANGED <<opened, op, lane, rival, owned, work, target, child, receipt, call>>

\* Another store of the same repository lands.
RivalLands ==
  /\ LockFree
  /\ lane \in {Nobody, Rival} \/ (\E j \in Items : lane = j /\ Resolved(j))
  /\ lane' = Rival /\ rival' = ~ rival
  /\ UNCHANGED <<status, opened, op, owned, work, target, child, receipt, call>>

StrayCommit ==
  /\ target' = [target EXCEPT !.commit = Foreign]
  /\ UNCHANGED <<status, opened, op, lane, rival, owned, work, child, receipt, call>>

\* The bound worktrees are left alone while a call or its process works in them.
\* (What befalls a workspace outside an operation is CommandRunner's.)
Quiescent == call = Idle /\ child = NoChild

UserEdits(i) ==
  /\ Quiescent /\ Unresolved(i)
  /\ work' = [work EXCEPT ![i] = "edited"]
  /\ UNCHANGED <<status, opened, op, lane, rival, owned, target, child, receipt, call>>

UserCleans ==
  /\ Quiescent
  /\ \/ /\ target' = [target EXCEPT !.clean = TRUE] /\ UNCHANGED work
     \/ /\ \E i \in Items : /\ work[i] \in {"edited", "altered"}
                            /\ work' = [work EXCEPT ![i] =
                                 IF op[i].space = "composed" THEN "proposal" ELSE "candidate"]
        /\ UNCHANGED target
  /\ UNCHANGED <<status, opened, op, lane, rival, owned, child, receipt, call>>

Integrate ==
  \/ PublishIntent \/ ClaimWorkspace \/ CheckCurrent \/ Compose \/ Proceed
  \/ Materialized \/ Materialize
  \/ \E k \in 1..Commands : PrepareCheck(k) \/ Checked(k)
  \/ Validate \/ Dispatch \/ Merged \/ Accept
Shared == SettleTransition \/ Transited \/ FenceChecks \/ Restored \/ Restore \/ Repair \/ Checkout
            \/ Launch \/ SettleLanding \/ Observe \/ Conclude \/ Release
CallStep == Integrate \/ Shared \/ Close

Progress == CheckoutBegins \/ CheckoutFinishes \/ CheckPasses \/ MergeBegins \/ MergeMoves

Next ==
  \/ CallStep \/ EndCall \/ LaunchLost
  \/ Progress \/ CheckEdits \/ ChildEnds \/ KillSupervisor \/ OrphanEnds
  \/ RivalLands \/ StrayCommit \/ UserCleans
  \/ \E new \in {"active", "paused", "cancelling"} : Control(new)
  \/ \E i \in Items :
       \/ OpenOperation(i) \/ Resume(i) \/ StartClose(i) \/ UserEdits(i)
       \/ \E k \in 1..Commands : RecoverCheck(i, k)

Spec == Init /\ [][Next]_vars

-----------------------------------------------------------------------------
(* Properties.                                                             *)

\* Of the audit: every operation was opened on what the ones before it had accepted.
OperationsJoin ==
  \A n \in 1..Len(opened) :
     /\ op[opened[n]].phase # "none" /\ op[opened[n]].expected = Prefix(n)
     /\ \A m \in 1..Len(opened) : opened[m] = opened[n] => m = n

\* auditGitV2 rejects a publication that breaks these: no sequence of calls, ends
\* of calls and deaths may get there, or the operation could not go on.
AuditGit ==
  /\ TypeOK /\ OperationsJoin
  /\ \A i \in Items : LET o == op[i] IN
       /\ o.phase \notin {"none", "intent", "blocked", "closed"} => o.proposed
       /\ o.phase \in {"landing", "landed", "accepted", "closed"} => o.space = "restored" /\ Quiet(i)
       /\ o.phase \in {"validated", "landing", "landed", "accepted"} => \A k \in 1..Commands : o.jobs[k] = "PASS"
       /\ o.phase \in {"landed", "accepted"} =>
            o.landing \in {"settled", "unlaunched"} /\ o.observation = "new-clean"
       /\ o.phase = "closed" =>
            /\ o.observation \in {"old-clean", "new-clean"} /\ o.landing \notin {"intent", "launched"}
            /\ \A k \in 1..Commands : o.jobs[k] \notin {"intent", "launched"}

\* The claim of the common directory shuts out every other store from before an
\* operation is published until it is over, whoever dies.
UnresolvedHoldsLane ==
  \A i \in Items : Unresolved(i) => lane = i /\ \A j \in Items \ {i} : ~ Unresolved(j)

\* A workspace that is not at its candidate because of an operation is claimed by
\* it: no worker, check or cleanup meets another commit, or half of one.
OnlyOwnedIsSwitched ==
  \A i \in Items : work[i] \in {"proposal", "mixed", "staged"} => owned[i]

\* When an operation is accepted or closed nothing of it runs any more.
ResolvedIsExtinct ==
  \A i \in Items : Resolved(i) => child.item # i

\* What the records say is so: the claim in the common directory covers every operation that
\* is not resolved, a resolved one has no process left, and a workspace that is not at its
\* candidate is the one an operation's journal names.
RecordsAreTrue == UnresolvedHoldsLane /\ ResolvedIsExtinct /\ OnlyOwnedIsSwitched

\* No Git process of an operation overwrites what a user or a check has changed.
ChangesSurvive ==
  [][ \A i \in Items : work[i] \in {"edited", "altered"} /\ work'[i] # work[i] =>
        work'[i] \in {"edited", "altered"} \/ Quiescent ]_vars

\* The target moves to a proposal only when every command has passed on it, the
\* workspace is back at the candidate, and the lane is still the operation's.
LandsWhatWasChecked ==
  [][ target'.commit \notin {target.commit, Foreign} =>
        \E i \in Items :
          /\ target'.commit = Append(op[i].expected, i) /\ Unresolved(i) /\ lane = i
          /\ \A k \in 1..Commands : op[i].jobs[k] = "PASS"
          /\ work[i] = "candidate" ]_vars

-----------------------------------------------------------------------------
(* Refinement.                                                             *)

Outward(i) == CASE op[i].phase = "none" -> "none" [] Resolved(i) -> op[i].phase [] OTHER -> "open"

Branch == INSTANCE TargetBranch WITH
  commit <- target.commit, chain <- Chain,
  state <- [i \in Items |-> Outward(i)],
  status <- IF status = "cancelling" THEN "cancelling" ELSE "active"

\* Items land one at a time, each once and on top of the accepted ones; an
\* operation that is over never moves the target.
ImplementsTargetBranch == Branch!Spec

-----------------------------------------------------------------------------
(* Liveness.                                                               *)

\* finalize() calls closeOperation() again and again.  Calls and processes end,
\* but from some time on none is cut short that could go on, nor killed.
FairSpec ==
  /\ Spec
  /\ WF_vars(CallStep) /\ WF_vars(EndCall) /\ WF_vars(Progress)
  /\ WF_vars(ChildEnds) /\ WF_vars(OrphanEnds)
  /\ <>[][EndCall => ~ ENABLED CallStep /\ child.state \notin {"waiting", "running"}]_vars
  /\ <>[][ChildEnds => ~ ENABLED Launch /\ ~ ENABLED Progress]_vars
  /\ <>[][~ KillSupervisor /\ ~ LaunchLost]_vars
  /\ \A i \in Items : SF_vars(StartClose(i))

\* What only a person can resolve: a changed target or workspace, a process of
\* which nothing proves that it is extinct, or a half checkout whose journal was
\* overwritten by that of a repair which was never invoked: restore() takes such
\* a workspace for somebody else's.
Disowned(i) == /\ work[i] \in {"mixed", "staged"}
               /\ op[i].transition = "unlaunched" \/ receipt = "unused"

Ambiguous(i) ==
  \/ target.commit = Foreign \/ ~ target.clean \/ work[i] \in {"edited", "altered"}
  \/ Disowned(i)
  \/ "launched" \in {op[i].transition, op[i].landing}
  \/ \E k \in 1..Commands : op[i].jobs[k] \in {"intent", "launched"}

\* A cancelled run's operation is closed, from whatever step it was left at, or
\* there is something for a person to resolve.
CancelledOperationCloses ==
  \A i \in Items : <>[](status = "cancelling" /\ Unresolved(i)) => []<>Ambiguous(i)
=============================================================================
