---------------------------- MODULE CommandRunner ----------------------------
(***************************************************************************)
(* The execution of check commands in the workspace of one item:           *)
(* runtime-v2/command-runner.ts, the supervisor process it starts          *)
(* (command-supervisor.py), and the ownership record of the workspace      *)
(* (worker-runtime/workspace-ownership.mjs), which the item's workers use  *)
(* in turn.                                                                *)
(*                                                                         *)
(* Three kinds of process take part: Pi processes, which run the service,  *)
(* one supervisor for each execution, and the command with its             *)
(* descendants.  Each may die at any point.  A step is a store transaction,*)
(* a locked change of the ownership record, or a step of a supervisor.     *)
(* Time is not modelled: what waits for a deadline may happen at any time. *)
(***************************************************************************)
EXTENDS Naturals, Sequences

CONSTANTS
  Requests,   \* executions the lifecycle may ask for
  Procs,      \* Pi processes
  MaxEpoch    \* bound: handoffs of the workspace

VARIABLES
  run,      \* status of the run: active, cancelling, cancelled
  intent,   \* the lifecycle's record of an execution
  job,      \* the snapshot's record of the execution
  owned,    \* the ownership record of the workspace
  worker,   \* the item's worker: none, running, settled
  dirty,    \* the workspace differs from the candidate
  up,       \* processes that live
  ensure,   \* the ensure() call that published the job
  pipe,     \* what it wrote to the supervisor's standard input
  journal,  \* the process journal: none, running, BLOCKED
  sup,      \* the supervisor
  alive,    \* the command or a descendant of it runs
  outcome   \* the supervisor's receipt

vars == <<run, intent, job, owned, worker, dirty, up, ensure, pipe, journal, sup, alive, outcome>>

NoRequest == "null"
NoJob == [status |-> "none", owner |-> "nobody", workspace |-> FALSE, result |-> "none", invoked |-> FALSE]
NoOutcome == [exit |-> "none", invoked |-> FALSE, interrupted |-> FALSE]
NoCall == [at |-> "idle", interrupted |-> FALSE, launched |-> FALSE, result |-> "none", invoked |-> FALSE]

\* The steps of ensure(), in order.
Steps == {"idle", "prepare", "watch", "publish", "release", "ended"}
\* A supervisor waits for its launch, runs, and is gone; it may be killed.
Supervisor == [at : {"none", "waiting", "launched", "gone", "killed"}, aborting : BOOLEAN]

ASSUME RunnerAssumption == NoRequest \notin Requests /\ "nobody" \notin Procs /\ MaxEpoch \in Nat

Results == {"none", "PASS", "FAIL", "BLOCKED"}
Intent == [status : {"none", "intent", "obsolete"}, recorded : BOOLEAN, epoch : 0..MaxEpoch]
Job == [status : {"none", "running", "settled"}, owner : Procs \cup {"nobody"},
        workspace : BOOLEAN, result : Results, invoked : BOOLEAN]
Ownership == [launch : BOOLEAN, execution : Requests \cup {NoRequest}, epoch : 0..MaxEpoch]
Call == [at : Steps, interrupted : BOOLEAN, launched : BOOLEAN, result : Results, invoked : BOOLEAN]
Receipt == [exit : {"none", "zero", "other"}, invoked : BOOLEAN, interrupted : BOOLEAN]

TypeOK ==
  /\ run \in {"active", "cancelling", "cancelled"}
  /\ intent \in [Requests -> Intent] /\ job \in [Requests -> Job]
  /\ owned \in Ownership
  /\ worker \in {"none", "running", "settled"} /\ dirty \in BOOLEAN
  /\ up \subseteq Procs
  /\ ensure \in [Requests -> Call]
  /\ pipe \in [Requests -> Seq({"launch", "abort"})]
  /\ journal \in [Requests -> {"none", "running", "BLOCKED"}]
  /\ sup \in [Requests -> Supervisor]
  /\ alive \in [Requests -> BOOLEAN]
  /\ outcome \in [Requests -> Receipt]

\* The first worker holds the workspace it was given.
Init ==
  /\ run = "active"
  /\ intent = [r \in Requests |-> [status |-> "none", recorded |-> FALSE, epoch |-> 0]]
  /\ job = [r \in Requests |-> NoJob]
  /\ owned = [launch |-> TRUE, execution |-> NoRequest, epoch |-> 0]
  /\ worker = "running" /\ dirty = FALSE
  /\ up = Procs
  /\ ensure = [r \in Requests |-> NoCall]
  /\ pipe = [r \in Requests |-> <<>>]
  /\ journal = [r \in Requests |-> "none"]
  /\ sup = [r \in Requests |-> [at |-> "none", aborting |-> FALSE]]
  /\ alive = [r \in Requests |-> FALSE]
  /\ outcome = [r \in Requests |-> NoOutcome]

-----------------------------------------------------------------------------
(* The ownership record.                                                   *)

\* The request names the epoch of the workspace it was prepared for.
HoldsNode(r) == ~ owned.launch /\ owned.epoch = intent[r].epoch

\* reconcileNodeWorkspace(): a claim outlives its execution when the process dies
\* between the two publications; only a settled job closes the gap.
Reconciled ==
  LET r == owned.execution IN
  IF r # NoRequest /\ job[r].status = "settled" /\ owned.epoch = intent[r].epoch
    THEN [owned EXCEPT !.execution = NoRequest] ELSE owned

Released(r) ==
  IF owned.execution = r /\ HoldsNode(r) THEN [owned EXCEPT !.execution = NoRequest] ELSE owned

-----------------------------------------------------------------------------
(* The service: intents, results, workers, cancellation.                   *)

\* A worker's workspace goes back to the item once it has settled, and nothing
\* but a committed candidate is in it.
TakeWorkspace ==
  /\ worker = "settled" /\ owned.launch /\ owned.execution = NoRequest /\ ~ dirty
  /\ owned.epoch < MaxEpoch
  /\ owned' = [owned EXCEPT !.launch = FALSE, !.epoch = @ + 1]
  /\ UNCHANGED <<run, intent, job, worker, dirty, up, ensure, pipe, journal, sup, alive, outcome>>

PrepareCheck(r) ==
  /\ run = "active" /\ intent[r].status = "none"
  /\ worker = "settled" /\ ~ owned.launch
  /\ intent' = [intent EXCEPT ![r] = [status |-> "intent", recorded |-> FALSE, epoch |-> owned.epoch]]
  /\ owned' = Reconciled
  /\ UNCHANGED <<run, job, worker, dirty, up, ensure, pipe, journal, sup, alive, outcome>>

Obsolete(s) == [q \in Requests |->
  IF q \in s /\ intent[q].status = "intent" THEN [intent[q] EXCEPT !.status = "obsolete"] ELSE intent[q]]

\* A new candidate makes the executions of the old one obsolete, running or not.
NewCandidate ==
  /\ run = "active"
  /\ intent' = Obsolete(Requests)
  /\ intent' # intent
  /\ UNCHANGED <<run, job, owned, worker, dirty, up, ensure, pipe, journal, sup, alive, outcome>>

\* Mistake: only executions that still count are waited for.
AllRecordedCurrent == \A r \in Requests : intent[r].status = "intent" => intent[r].recorded

AllRecorded == \A r \in Requests : intent[r].status # "none" => intent[r].recorded

\* replace() and prepareWorkspace(): the next generation borrows the workspace.
NextWorker ==
  /\ run = "active" /\ worker = "settled" /\ AllRecorded
  /\ ~ owned.launch /\ Reconciled.execution = NoRequest /\ ~ dirty
  /\ worker' = "running"
  /\ owned' = [Reconciled EXCEPT !.launch = TRUE]
  /\ intent' = Obsolete(Requests)
  /\ UNCHANGED <<run, job, dirty, up, ensure, pipe, journal, sup, alive, outcome>>

WorkerSettles ==
  /\ worker = "running" /\ worker' = "settled"
  /\ dirty' \in BOOLEAN
  /\ UNCHANGED <<run, intent, job, owned, up, ensure, pipe, journal, sup, alive, outcome>>

\* recordResult(): the durable result of a job, current or not.
RecordResult(r) ==
  /\ intent[r].status # "none" /\ ~ intent[r].recorded
  /\ job[r].result # "none"
  /\ intent' = [intent EXCEPT ![r].recorded = TRUE]
  /\ UNCHANGED <<run, job, owned, worker, dirty, up, ensure, pipe, journal, sup, alive, outcome>>

Cancel ==
  /\ run = "active" /\ run' = "cancelling"
  /\ intent' = Obsolete(Requests)
  /\ UNCHANGED <<job, owned, worker, dirty, up, ensure, pipe, journal, sup, alive, outcome>>

\* reconcileUnlaunched(), from finalize(): without a job nothing was invoked.
ReconcileUnlaunched(r) ==
  /\ run = "cancelling"
  /\ intent[r].status = "obsolete" /\ ~ intent[r].recorded
  /\ job[r].status = "none"
  /\ job' = [job EXCEPT ![r].status = "settled", ![r].result = "BLOCKED"]
  /\ UNCHANGED <<run, intent, owned, worker, dirty, up, ensure, pipe, journal, sup, alive, outcome>>

\* reconcileCancellation()
Finalize ==
  /\ run = "cancelling" /\ worker = "settled" /\ AllRecorded
  /\ run' = "cancelled"
  /\ UNCHANGED <<intent, job, owned, worker, dirty, up, ensure, pipe, journal, sup, alive, outcome>>

-----------------------------------------------------------------------------
(* ensure(): at most one call publishes the job, and only that one goes on. *)

Current(r) == run = "active" /\ intent[r].status = "intent"

\* Ownership is claimed inside the transaction that publishes the job, and before
\* it: the publication may fail, or the process die, in between.
Ensure(p, r) ==
  /\ p \in up
  /\ job[r].status = "none" /\ Current(r)
  /\ HoldsNode(r) /\ Reconciled.execution \in {NoRequest, r}
  /\ owned' = [Reconciled EXCEPT !.execution = r]
  /\ \/ /\ job' = [job EXCEPT ![r].status = "running", ![r].owner = p]
        /\ ensure' = [ensure EXCEPT ![r].at = "prepare"]
     \/ UNCHANGED <<job, ensure>>
  /\ UNCHANGED <<run, intent, worker, dirty, up, pipe, journal, sup, alive, outcome>>

\* Another ensure() of a settled job only releases what it may still hold.
EnsureAgain(r) ==
  /\ job[r].result # "none" /\ owned.execution = r
  /\ owned' = Released(r)
  /\ UNCHANGED <<run, intent, job, worker, dirty, up, ensure, pipe, journal, sup, alive, outcome>>

Runs(r, step) == job[r].owner \in up /\ ensure[r].at = step
To(r, step) == ensure' = [ensure EXCEPT ![r].at = step]
ToPublish(r, result, invoked) ==
  ensure' = [ensure EXCEPT ![r].at = "publish", ![r].result = result, ![r].invoked = invoked]

\* Whatever fails before a supervisor is started leaves a result that says so.
PrepareFails(r) ==
  /\ Runs(r, "prepare")
  /\ ToPublish(r, "BLOCKED", FALSE)
  /\ UNCHANGED <<run, intent, job, owned, worker, dirty, up, pipe, journal, sup, alive, outcome>>

\* Mistake: the fence is not looked at again when the command is launched.
GateUnfenced(r) == owned.execution = r /\ HoldsNode(r) /\ ~ dirty

\* invoke() rechecks all this under the store lock and starts before it lets go.
Gate(r) == Current(r) /\ owned.execution = r /\ HoldsNode(r) /\ ~ dirty

StartSupervisor(r) ==
  /\ Runs(r, "prepare") /\ Gate(r)
  /\ job' = [job EXCEPT ![r].workspace = TRUE]
  /\ sup' = [sup EXCEPT ![r].at = "waiting"]
  /\ To(r, "watch")
  /\ UNCHANGED <<run, intent, owned, worker, dirty, up, pipe, journal, alive, outcome>>

Send(r, m) == pipe' = [pipe EXCEPT ![r] = Append(@, m)]

\* The journal is durable before the launch is sent; the process may die, or find
\* that it was aborted, after the one and before the other.
Launch(r) ==
  /\ Runs(r, "watch") /\ ~ ensure[r].launched /\ ~ ensure[r].interrupted
  /\ sup[r].at = "waiting" /\ Gate(r)
  /\ journal' = [journal EXCEPT ![r] = "running"]
  /\ \/ /\ ensure' = [ensure EXCEPT ![r].launched = TRUE]
        /\ Send(r, "launch") /\ UNCHANGED up
     \/ /\ ensure' = [ensure EXCEPT ![r].interrupted = TRUE]
        /\ Send(r, "abort") /\ UNCHANGED up
     \/ /\ up' = up \ {job[r].owner} /\ UNCHANGED <<ensure, pipe>>
  /\ UNCHANGED <<run, intent, job, owned, worker, dirty, sup, alive, outcome>>

\* The caller's signal, the deadline, or a launch that was refused.
Abort(r) ==
  /\ Runs(r, "watch") /\ ~ ensure[r].interrupted
  /\ ensure' = [ensure EXCEPT ![r].interrupted = TRUE]
  /\ Send(r, "abort")
  /\ UNCHANGED <<run, intent, job, owned, worker, dirty, up, journal, sup, alive, outcome>>

\* Mistake: an abort that came too late is forgotten.
DispositionLate(r) ==
  IF dirty THEN "FAIL" ELSE IF ~ outcome[r].invoked THEN "BLOCKED"
  ELSE IF outcome[r].exit = "zero" /\ ~ outcome[r].interrupted THEN "PASS" ELSE "FAIL"

\* Mistake: the exit is taken for the disposition.
DispositionRaw(r) == outcome[r].exit

Disposition(r) ==
  IF dirty THEN "FAIL" ELSE IF ~ outcome[r].invoked THEN "BLOCKED"
  ELSE IF outcome[r].exit = "zero" /\ ~ outcome[r].interrupted /\ ~ ensure[r].interrupted
    THEN "PASS" ELSE "FAIL"

\* The receipt is all that settles a command.
Observe(r) ==
  /\ Runs(r, "watch") /\ sup[r].at = "gone"
  /\ ToPublish(r, Disposition(r), outcome[r].invoked)
  /\ UNCHANGED <<run, intent, job, owned, worker, dirty, up, pipe, journal, sup, alive, outcome>>

\* Mistake: a supervisor that died is taken to have ended its command.
SettledWithout(r) == sup[r].at = "killed"

\* Without a receipt, only a launch that was never sent is settled.
SettledUnlaunched(r) == sup[r].at = "killed" /\ ~ ensure[r].launched

Unavailable(r) ==
  /\ Runs(r, "watch") /\ SettledUnlaunched(r)
  /\ ToPublish(r, "BLOCKED", FALSE)
  /\ UNCHANGED <<run, intent, job, owned, worker, dirty, up, pipe, journal, sup, alive, outcome>>

\* The supervisor is lost after the launch, or does not answer an abort: the job
\* stays running, and the journal says that it is BLOCKED.
Unsettled(r) ==
  /\ Runs(r, "watch") /\ ~ SettledUnlaunched(r)
  /\ \/ sup[r].at = "killed"
     \/ ensure[r].interrupted /\ sup[r].at # "gone"
  /\ journal' = [journal EXCEPT ![r] = IF @ = "none" THEN @ ELSE "BLOCKED"]
  /\ To(r, "ended")
  /\ UNCHANGED <<run, intent, job, owned, worker, dirty, up, pipe, sup, alive, outcome>>

\* The result is durable before anybody hears of it; the publication may fail.
Publish(r) ==
  /\ Runs(r, "publish") /\ job[r].result = "none"
  /\ job' = [job EXCEPT ![r].status = "settled", ![r].result = ensure[r].result,
                        ![r].invoked = ensure[r].invoked]
  /\ To(r, "release")
  /\ UNCHANGED <<run, intent, owned, worker, dirty, up, pipe, journal, sup, alive, outcome>>

PublishFails(r) ==
  /\ Runs(r, "publish")
  /\ To(r, "ended")
  /\ UNCHANGED <<run, intent, job, owned, worker, dirty, up, pipe, journal, sup, alive, outcome>>

Release(r) ==
  /\ Runs(r, "release")
  /\ owned' = Released(r)
  /\ To(r, "ended")
  /\ UNCHANGED <<run, intent, job, worker, dirty, up, pipe, journal, sup, alive, outcome>>

\* Mistake: a live process is waited for even when it has given up.
GivenUpDead(r) == job[r].owner \notin up

\* Nobody waits for the command any more.
GivenUp(r) == job[r].owner \notin up \/ journal[r] = "BLOCKED"

\* reconcileExtinctCommand(): the receipt, found by the journal, when its reader is
\* dead or has given up.
Recover(p, r) ==
  /\ p \in up
  /\ job[r].status = "running" /\ job[r].workspace
  /\ journal[r] # "none"
  /\ GivenUp(r)
  /\ sup[r].at = "gone" /\ ~ dirty
  /\ job' = [job EXCEPT ![r].status = "settled", ![r].result = "BLOCKED", ![r].invoked = outcome[r].invoked]
  /\ owned' \in {owned, Released(r)}
  /\ UNCHANGED <<run, intent, worker, dirty, up, ensure, pipe, journal, sup, alive, outcome>>

\* A process dies; nothing it has not published survives.
Die(p) ==
  /\ p \in up /\ up' = up \ {p}
  /\ UNCHANGED <<run, intent, job, owned, worker, dirty, ensure, pipe, journal, sup, alive, outcome>>

-----------------------------------------------------------------------------
(* The supervisor and its command.                                         *)

Hears(r, m) == pipe[r] # <<>> /\ Head(pipe[r]) = m

\* The command may turn out not to be executable.
SupervisorLaunches(r) ==
  /\ sup[r].at = "waiting" /\ ~ sup[r].aborting /\ Hears(r, "launch")
  /\ pipe' = [pipe EXCEPT ![r] = Tail(@)]
  /\ sup' = [sup EXCEPT ![r].at = "launched"]
  /\ \E started \in BOOLEAN :
       /\ alive' = [alive EXCEPT ![r] = started]
       /\ outcome' = [outcome EXCEPT ![r].invoked = started]
  /\ UNCHANGED <<run, intent, job, owned, worker, dirty, up, ensure, journal>>

\* It is told to, the pipe is at its end, or its own deadline has passed: any time.
SupervisorAborts(r) ==
  /\ sup[r].at \in {"waiting", "launched"} /\ ~ sup[r].aborting
  /\ sup' = [sup EXCEPT ![r].aborting = TRUE]
  /\ UNCHANGED <<run, intent, job, owned, worker, dirty, up, ensure, pipe, journal, alive, outcome>>

CommandWrites(r) ==
  /\ alive[r] /\ ~ dirty /\ dirty' = TRUE
  /\ UNCHANGED <<run, intent, job, owned, worker, up, ensure, pipe, journal, sup, alive, outcome>>

\* The command's exit and the end of its last descendant; a killed supervisor no
\* longer sees them.
CommandEnds(r) ==
  /\ alive[r]
  /\ alive' = [alive EXCEPT ![r] = FALSE]
  /\ \E exit \in {"zero", "other"} :
       outcome' = [outcome EXCEPT ![r].exit = IF sup[r].at = "killed" THEN @ ELSE exit]
  /\ UNCHANGED <<run, intent, job, owned, worker, dirty, up, ensure, pipe, journal, sup>>

\* Mistake: the command's own exit is enough.
ExtinctWhenExited(r) == TRUE

\* waitpid(-1) = ECHILD
Extinct(r) == ~ alive[r]

SupervisorReceipt(r) ==
  /\ \/ sup[r].at = "launched"
     \/ sup[r].at = "waiting" /\ sup[r].aborting
  /\ Extinct(r)
  /\ sup' = [sup EXCEPT ![r].at = "gone"]
  /\ outcome' = [outcome EXCEPT ![r].interrupted = sup[r].aborting]
  /\ UNCHANGED <<run, intent, job, owned, worker, dirty, up, ensure, pipe, journal, alive>>

SupervisorKilled(r) ==
  /\ sup[r].at \in {"waiting", "launched"}
  /\ sup' = [sup EXCEPT ![r].at = "killed"]
  /\ UNCHANGED <<run, intent, job, owned, worker, dirty, up, ensure, pipe, journal, alive, outcome>>

-----------------------------------------------------------------------------
ServiceStep ==
  \/ TakeWorkspace \/ NewCandidate \/ NextWorker \/ WorkerSettles \/ Cancel \/ Finalize
  \/ \E r \in Requests : PrepareCheck(r) \/ RecordResult(r) \/ ReconcileUnlaunched(r)

\* What the call does without being interfered with.
CallStep(r) ==
  PrepareFails(r) \/ StartSupervisor(r) \/ Launch(r) \/ Abort(r) \/ Observe(r) \/ Unavailable(r)
    \/ Unsettled(r) \/ Publish(r) \/ Release(r)

SupervisorStep(r) == SupervisorLaunches(r) \/ SupervisorAborts(r) \/ SupervisorReceipt(r)

Next ==
  \/ ServiceStep
  \/ \E r \in Requests :
       \/ EnsureAgain(r) \/ CallStep(r) \/ PublishFails(r)
       \/ SupervisorStep(r) \/ SupervisorKilled(r) \/ CommandWrites(r) \/ CommandEnds(r)
       \/ \E p \in Procs : Ensure(p, r) \/ Recover(p, r)
  \/ \E p \in Procs : Die(p)

Spec == Init /\ [][Next]_vars

-----------------------------------------------------------------------------
(* Properties.                                                             *)

\* A worker and the commands of a check never write the same workspace, nor do
\* two commands: whatever crashes, the claim outlives what runs under it.
WorkspaceExclusive ==
  /\ worker = "running" => owned.launch /\ owned.execution = NoRequest
  /\ \A r \in Requests : alive[r] => ~ owned.launch /\ owned.execution = r

\* A settled job has no process left, and none that could still start: its result
\* may be retried, its workspace handed on.
SettledIsExtinct ==
  \A r \in Requests : job[r].status = "settled" =>
    ~ alive[r] /\ sup[r].at \in {"none", "gone", "killed"}

\* A cancelled run has nothing left that runs or may start.
CancelledIsQuiet ==
  run = "cancelled" =>
    worker = "settled" /\ \A r \in Requests :
      /\ ~ alive[r] /\ sup[r].at \notin {"waiting", "launched"}
      /\ ensure[r].at \in {"idle", "release", "ended"} \/ job[r].owner \notin up

\* PASS is an exit that the supervisor saw, of a command that nobody aborted.
PassIsObserved ==
  \A r \in Requests : job[r].result = "PASS" =>
    /\ sup[r].at = "gone" /\ outcome[r].invoked /\ outcome[r].exit = "zero"
    /\ ~ ensure[r].interrupted /\ ~ sup[r].aborting

\* An execution that was fenced before its launch was sent never starts.
FencedNeverStarts ==
  [][ \A r \in Requests :
        ~ Current(r) /\ ~ ensure[r].launched => ~ ensure'[r].launched /\ ~ alive'[r] ]_vars

-----------------------------------------------------------------------------
(* Liveness.                                                               *)

\* Calls and supervisors go on while they live; a supervisor that aborts kills; the
\* agent uses the recovery tool when next() offers it.
FairSpec ==
  /\ Spec
  /\ \A r \in Requests :
       /\ WF_vars(CallStep(r)) /\ WF_vars(SupervisorStep(r))
       /\ WF_vars(sup[r].aborting /\ CommandEnds(r))
       /\ WF_vars(\E p \in Procs : Recover(p, r))

\* Once the journal is written a job settles, whoever dies: unless the supervisor
\* itself was killed, the workspace is not clean, nobody is left, or the process
\* lives on without having published (it is not presumed dead).
JournaledSettles ==
  \A r \in Requests :
    journal[r] # "none" ~>
      \/ job[r].status = "settled"
      \/ sup[r].at = "killed" \/ dirty \/ up = {}
      \/ (job[r].owner \in up /\ ensure[r].at = "ended" /\ journal[r] = "running")
=============================================================================
