------------------------ MODULE CommandRunnerProofs ------------------------
(***************************************************************************)
(* The safety of CommandRunner for any number of requests, processes and   *)
(* handoffs: nothing writes a workspace beside its holder, a settled job   *)
(* has no process left, and PASS was seen by a supervisor nobody aborted.  *)
(***************************************************************************)
EXTENDS CommandRunner, TLAPS

\* The phase of a job, of its call and of its supervisor agree.
PhasesAgree ==
  \A r \in Requests :
    /\ job[r].status # "none" => intent[r].status # "none"
    /\ job[r].status = "none" => ensure[r].at = "idle" /\ sup[r].at = "none"
    /\ job[r].status = "settled" <=> job[r].result # "none"
    /\ intent[r].recorded => job[r].status = "settled"
    /\ ensure[r].at = "prepare" => job[r].status = "running" /\ sup[r].at = "none"
    /\ ensure[r].at = "publish" => ensure[r].result # "none"
    /\ ensure[r].at = "release" => job[r].status = "settled"
    /\ journal[r] = "BLOCKED" => ensure[r].at = "ended"

\* Until its job is settled an execution keeps the workspace it was given.
RunningHolds ==
  /\ owned.launch => owned.execution = NoRequest
  /\ worker = "running" => owned.launch
  /\ \A r \in Requests :
       job[r].status = "running" => owned.execution = r /\ HoldsNode(r)

\* Only a launch that was sent is heard, and only a heard one starts a command.
LaunchIsSent ==
  \A r \in Requests :
    /\ \A n \in 1..Len(pipe[r]) : pipe[r][n] = "launch" => ensure[r].launched
    /\ sup[r].at = "launched" \/ alive[r] => ensure[r].launched
    /\ alive[r] => sup[r].at \in {"launched", "killed"}

\* A result is on its way only when its command can no longer run.
ResultIsExtinct ==
  \A r \in Requests : ensure[r].at = "publish" \/ job[r].status = "settled" =>
    ~ alive[r] /\ sup[r].at \in {"none", "gone", "killed"}

\* Once a job is settled, its call is past the supervisor or has died.
SettledIsOver ==
  \A r \in Requests : job[r].status = "settled" =>
    ensure[r].at \in {"idle", "release", "ended"} \/ job[r].owner \notin up

\* A supervisor that is gone has told all it saw.
PassWasSeen ==
  \A r \in Requests :
    /\ sup[r].at = "gone" => outcome[r].interrupted = sup[r].aborting
    /\ (ensure[r].at = "publish" /\ ensure[r].result = "PASS") \/ job[r].result = "PASS" =>
         /\ sup[r].at = "gone" /\ outcome[r].invoked /\ outcome[r].exit = "zero"
         /\ ~ ensure[r].interrupted /\ ~ sup[r].aborting

CancelledIsRecorded == run = "cancelled" => worker = "settled" /\ AllRecorded

IInv == /\ TypeOK /\ PhasesAgree /\ RunningHolds /\ LaunchIsSent /\ ResultIsExtinct
        /\ SettledIsOver /\ PassWasSeen /\ CancelledIsRecorded

LEMMA InitIInv == Init => IInv
<1>. SUFFICES ASSUME Init PROVE IInv
  OBVIOUS
<1>1. TypeOK
  <2>1. /\ [status |-> "none", recorded |-> FALSE, epoch |-> 0] \in Intent
        /\ owned \in Ownership
    BY RunnerAssumption DEF Init, Intent, Ownership
  <2>2. NoJob \in Job /\ NoCall \in Call /\ NoOutcome \in Receipt
        /\ [at |-> "none", aborting |-> FALSE] \in Supervisor
    BY DEF NoJob, Job, Results, NoCall, Call, Steps, NoOutcome, Receipt, Supervisor
  <2>3. <<>> \in Seq({"launch", "abort"})
    OBVIOUS
  <2>. QED  BY <2>1, <2>2, <2>3 DEF Init, TypeOK
<1>2. PhasesAgree /\ SettledIsOver /\ ResultIsExtinct /\ PassWasSeen
  BY DEF Init, NoJob, NoCall, NoOutcome, PhasesAgree, SettledIsOver, ResultIsExtinct, PassWasSeen
<1>3. RunningHolds /\ LaunchIsSent /\ CancelledIsRecorded
  BY DEF Init, NoJob, NoCall, RunningHolds, LaunchIsSent, CancelledIsRecorded
<1>. QED  BY <1>1, <1>2, <1>3 DEF IInv

\* What an action changes keeps its type, one lemma for each record.
LEMMA Update ==
  ASSUME NEW S, NEW f \in [Requests -> S], NEW r \in Requests, NEW v \in S
  PROVE  /\ [f EXCEPT ![r] = v] \in [Requests -> S] /\ f[r] \in S
OBVIOUS

LEMMA CallUpdates ==
  ASSUME NEW c \in Call
  PROVE  /\ \A s \in Steps : [c EXCEPT !.at = s] \in Call
         /\ [c EXCEPT !.interrupted = TRUE] \in Call
         /\ [c EXCEPT !.launched = TRUE] \in Call
         /\ \A t \in Results, b \in BOOLEAN :
              [c EXCEPT !.at = "publish", !.result = t, !.invoked = b] \in Call
BY DEF Call, Steps

LEMMA JobUpdates ==
  ASSUME NEW j \in Job
  PROVE  /\ \A p \in Procs : [j EXCEPT !.status = "running", !.owner = p] \in Job
         /\ [j EXCEPT !.workspace = TRUE] \in Job
         /\ \A t \in Results :
              /\ [j EXCEPT !.status = "settled", !.result = t] \in Job
              /\ \A b \in BOOLEAN :
                   [j EXCEPT !.status = "settled", !.result = t, !.invoked = b] \in Job
BY DEF Job

LEMMA OwnershipUpdates ==
  ASSUME NEW o \in Ownership
  PROVE  /\ [o EXCEPT !.launch = TRUE] \in Ownership
         /\ \A e \in 0..MaxEpoch : [o EXCEPT !.launch = FALSE, !.epoch = e] \in Ownership
         /\ \A e \in Requests \cup {NoRequest} : [o EXCEPT !.execution = e] \in Ownership
         /\ o.epoch \in 0..MaxEpoch
BY DEF Ownership

LEMMA SupervisorUpdates ==
  ASSUME NEW s \in Supervisor
  PROVE  /\ \A a \in {"waiting", "launched", "gone", "killed"} : [s EXCEPT !.at = a] \in Supervisor
         /\ [s EXCEPT !.aborting = TRUE] \in Supervisor
         /\ s.aborting \in BOOLEAN
BY DEF Supervisor

LEMMA ReceiptUpdates ==
  ASSUME NEW o \in Receipt
  PROVE  /\ \A b \in BOOLEAN : /\ [o EXCEPT !.invoked = b] \in Receipt
                               /\ [o EXCEPT !.interrupted = b] \in Receipt
         /\ \A e \in {"none", "zero", "other"} : [o EXCEPT !.exit = e] \in Receipt
         /\ o.invoked \in BOOLEAN /\ o.exit \in {"none", "zero", "other"}
BY DEF Receipt

LEMMA PipeUpdates ==
  ASSUME NEW q \in Seq({"launch", "abort"})
  PROVE  /\ \A m \in {"launch", "abort"} : Append(q, m) \in Seq({"launch", "abort"})
         /\ q # <<>> => Tail(q) \in Seq({"launch", "abort"})
OBVIOUS

LEMMA TypeNext == TypeOK /\ [Next]_vars => TypeOK'
<1>. SUFFICES ASSUME TypeOK, [Next]_vars PROVE TypeOK'
  OBVIOUS
<1>. USE RunnerAssumption DEF TypeOK
<1>1. ASSUME TakeWorkspace PROVE TypeOK'
  <2>1. owned' \in Ownership
    <3>1. owned.epoch \in 0..MaxEpoch /\ owned.epoch < MaxEpoch
      BY <1>1, OwnershipUpdates DEF TakeWorkspace
    <3>2. owned.epoch + 1 \in 0..MaxEpoch
      BY <3>1
    <3>. QED  BY <1>1, <3>2, OwnershipUpdates DEF TakeWorkspace
  <2>. QED  BY <1>1, <2>1 DEF TakeWorkspace
<1>2. ASSUME NewCandidate PROVE TypeOK'
  <2>1. intent' \in [Requests -> Intent]
    BY <1>2 DEF NewCandidate, Obsolete, Intent
  <2>. QED  BY <1>2, <2>1 DEF NewCandidate
<1>3. ASSUME NextWorker PROVE TypeOK'
  <2>1. owned' \in Ownership
    BY <1>3 DEF NextWorker, Reconciled, Ownership
  <2>2. intent' \in [Requests -> Intent]
    BY <1>3 DEF NextWorker, Obsolete, Intent
  <2>. QED  BY <1>3, <2>1, <2>2 DEF NextWorker
<1>4. ASSUME WorkerSettles PROVE TypeOK'
  BY <1>4 DEF WorkerSettles
<1>5. ASSUME Cancel PROVE TypeOK'
  <2>1. run' \in {"active", "cancelling", "cancelled"}
    BY <1>5 DEF Cancel
  <2>2. intent' \in [Requests -> Intent]
    BY <1>5 DEF Cancel, Obsolete, Intent
  <2>. QED  BY <1>5, <2>1, <2>2 DEF Cancel
<1>6. ASSUME Finalize PROVE TypeOK'
  BY <1>6 DEF Finalize
<1>7. ASSUME NEW r \in Requests, PrepareCheck(r) PROVE TypeOK'
  <2>1. intent' \in [Requests -> Intent]
    BY <1>7 DEF PrepareCheck, Intent, Ownership
  <2>2. owned' \in Ownership
    BY <1>7 DEF PrepareCheck, Reconciled, Ownership
  <2>. QED  BY <1>7, <2>1, <2>2 DEF PrepareCheck
<1>8. ASSUME NEW r \in Requests, RecordResult(r) PROVE TypeOK'
  <2>1. intent' \in [Requests -> Intent]
    BY <1>8 DEF RecordResult, Intent
  <2>. QED  BY <1>8, <2>1 DEF RecordResult
<1>9. ASSUME NEW r \in Requests, ReconcileUnlaunched(r) PROVE TypeOK'
  <2>1. job' \in [Requests -> Job]
    <3>1. [job[r] EXCEPT !.status = "settled", !.result = "BLOCKED"] \in Job
      BY <1>9, JobUpdates, Update DEF Results
    <3>. QED  BY <1>9, <3>1, Update DEF ReconcileUnlaunched
  <2>. QED  BY <1>9, <2>1 DEF ReconcileUnlaunched
<1>10. ASSUME NEW r \in Requests, EnsureAgain(r) PROVE TypeOK'
  <2>1. owned' \in Ownership
    BY <1>10 DEF EnsureAgain, Released, HoldsNode, Ownership
  <2>. QED  BY <1>10, <2>1 DEF EnsureAgain
<1>11. ASSUME NEW r \in Requests, PrepareFails(r) PROVE TypeOK'
  <2>1. ensure' \in [Requests -> Call]
    BY <1>11, CallUpdates, Update DEF PrepareFails, ToPublish, Results, Steps
  <2>. QED  BY <1>11, <2>1 DEF PrepareFails
<1>12. ASSUME NEW r \in Requests, StartSupervisor(r) PROVE TypeOK'
  <2>1. job' \in [Requests -> Job]
    BY <1>12, JobUpdates, Update DEF StartSupervisor, Results
  <2>2. sup' \in [Requests -> Supervisor]
    BY <1>12, SupervisorUpdates, Update DEF StartSupervisor
  <2>3. ensure' \in [Requests -> Call]
    BY <1>12, CallUpdates, Update DEF StartSupervisor, To, Results, Steps
  <2>. QED  BY <1>12, <2>1, <2>2, <2>3 DEF StartSupervisor
<1>13. ASSUME NEW r \in Requests, Launch(r) PROVE TypeOK'
  <2>1. ensure' \in [Requests -> Call]
    <3>1. /\ [ensure[r] EXCEPT !.launched = TRUE] \in Call
          /\ [ensure[r] EXCEPT !.interrupted = TRUE] \in Call
      BY <1>13, CallUpdates, Update
    <3>. QED  BY <1>13, <3>1, Update DEF Launch
  <2>2. pipe' \in [Requests -> Seq({"launch", "abort"})]
    <3>1. \A m \in {"launch", "abort"} : Append(pipe[r], m) \in Seq({"launch", "abort"})
      BY <1>13, PipeUpdates, Update
    <3>. QED  BY <1>13, <3>1, Update DEF Launch, Send
  <2>. QED  BY <1>13, <2>1, <2>2 DEF Launch
<1>14. ASSUME NEW r \in Requests, Abort(r) PROVE TypeOK'
  <2>1. ensure' \in [Requests -> Call]
    BY <1>14, CallUpdates, Update DEF Abort, Results, Steps
  <2>2. pipe' \in [Requests -> Seq({"launch", "abort"})]
    BY <1>14, PipeUpdates, Update DEF Abort, Send
  <2>. QED  BY <1>14, <2>1, <2>2 DEF Abort
<1>15. ASSUME NEW r \in Requests, Observe(r) PROVE TypeOK'
  <2>1. ensure' \in [Requests -> Call]
    <3>1. Disposition(r) \in Results /\ outcome[r].invoked \in BOOLEAN
      BY <1>15, ReceiptUpdates, Update DEF Disposition, Results
    <3>2. [ensure[r] EXCEPT !.at = "publish", !.result = Disposition(r),
                            !.invoked = outcome[r].invoked] \in Call
      BY <1>15, <3>1, CallUpdates, Update
    <3>. QED  BY <1>15, <3>2, Update DEF Observe, ToPublish
  <2>. QED  BY <1>15, <2>1 DEF Observe
<1>16. ASSUME NEW r \in Requests, Unavailable(r) PROVE TypeOK'
  <2>1. ensure' \in [Requests -> Call]
    BY <1>16, CallUpdates, Update DEF Unavailable, ToPublish, Results, Steps
  <2>. QED  BY <1>16, <2>1 DEF Unavailable
<1>17. ASSUME NEW r \in Requests, Unsettled(r) PROVE TypeOK'
  <2>1. ensure' \in [Requests -> Call]
    BY <1>17, CallUpdates, Update DEF Unsettled, To, Results, Steps
  <2>. QED  BY <1>17, <2>1 DEF Unsettled
<1>18. ASSUME NEW r \in Requests, Publish(r) PROVE TypeOK'
  <2>1. job' \in [Requests -> Job]
    <3>1. ensure[r].result \in Results /\ ensure[r].invoked \in BOOLEAN
      BY <1>18, Update DEF Call
    <3>2. [job[r] EXCEPT !.status = "settled", !.result = ensure[r].result,
                         !.invoked = ensure[r].invoked] \in Job
      BY <1>18, <3>1, JobUpdates, Update
    <3>. QED  BY <1>18, <3>2, Update DEF Publish
  <2>2. ensure' \in [Requests -> Call]
    <3>1. [ensure[r] EXCEPT !.at = "release"] \in Call
      BY <1>18, CallUpdates, Update DEF Steps
    <3>. QED  BY <1>18, <3>1, Update DEF Publish, To
  <2>. QED  BY <1>18, <2>1, <2>2 DEF Publish
<1>19. ASSUME NEW r \in Requests, Release(r) PROVE TypeOK'
  <2>1. owned' \in Ownership
    BY <1>19 DEF Release, Released, HoldsNode, Ownership
  <2>2. ensure' \in [Requests -> Call]
    BY <1>19, CallUpdates, Update DEF Release, To, Results, Steps
  <2>. QED  BY <1>19, <2>1, <2>2 DEF Release
<1>20. ASSUME NEW r \in Requests, PublishFails(r) PROVE TypeOK'
  <2>1. ensure' \in [Requests -> Call]
    BY <1>20, CallUpdates, Update DEF PublishFails, To, Results, Steps
  <2>. QED  BY <1>20, <2>1 DEF PublishFails
<1>21. ASSUME NEW r \in Requests, SupervisorLaunches(r) PROVE TypeOK'
  <2>1. pipe' \in [Requests -> Seq({"launch", "abort"})]
    <3>1. Tail(pipe[r]) \in Seq({"launch", "abort"})
      BY <1>21, PipeUpdates, Update DEF SupervisorLaunches, Hears
    <3>. QED  BY <1>21, <3>1, Update DEF SupervisorLaunches
  <2>2. sup' \in [Requests -> Supervisor]
    BY <1>21, SupervisorUpdates, Update DEF SupervisorLaunches
  <2>3. outcome' \in [Requests -> Receipt]
    BY <1>21, ReceiptUpdates, Update DEF SupervisorLaunches
  <2>. QED  BY <1>21, <2>1, <2>2, <2>3 DEF SupervisorLaunches
<1>22. ASSUME NEW r \in Requests, SupervisorAborts(r) PROVE TypeOK'
  <2>1. sup' \in [Requests -> Supervisor]
    BY <1>22, SupervisorUpdates, Update DEF SupervisorAborts
  <2>. QED  BY <1>22, <2>1 DEF SupervisorAborts
<1>23. ASSUME NEW r \in Requests, SupervisorReceipt(r) PROVE TypeOK'
  <2>1. sup' \in [Requests -> Supervisor]
    BY <1>23, SupervisorUpdates, Update DEF SupervisorReceipt
  <2>2. outcome' \in [Requests -> Receipt]
    <3>1. sup[r].aborting \in BOOLEAN
      BY <1>23, SupervisorUpdates
    <3>2. [outcome[r] EXCEPT !.interrupted = sup[r].aborting] \in Receipt
      BY <1>23, <3>1, ReceiptUpdates
    <3>. QED  BY <1>23, <3>2, Update DEF SupervisorReceipt
  <2>. QED  BY <1>23, <2>1, <2>2 DEF SupervisorReceipt
<1>24. ASSUME NEW r \in Requests, SupervisorKilled(r) PROVE TypeOK'
  <2>1. sup' \in [Requests -> Supervisor]
    BY <1>24, SupervisorUpdates, Update DEF SupervisorKilled
  <2>. QED  BY <1>24, <2>1 DEF SupervisorKilled
<1>25. ASSUME NEW r \in Requests, CommandWrites(r) PROVE TypeOK'
  BY <1>25 DEF CommandWrites
<1>26. ASSUME NEW r \in Requests, CommandEnds(r) PROVE TypeOK'
  <2>1. outcome' \in [Requests -> Receipt]
    BY <1>26, ReceiptUpdates, Update DEF CommandEnds
  <2>. QED  BY <1>26, <2>1 DEF CommandEnds
<1>27. ASSUME NEW p \in Procs, NEW r \in Requests, Ensure(p, r) PROVE TypeOK'
  <2>1. owned' \in Ownership
    BY <1>27 DEF Ensure, Reconciled, HoldsNode, Ownership
  <2>2. job' \in [Requests -> Job]
    <3>1. [job[r] EXCEPT !.status = "running", !.owner = p] \in Job
      BY <1>27, JobUpdates
    <3>2. CASE UNCHANGED job
      BY <3>2
    <3>3. CASE job' = [job EXCEPT ![r].status = "running", ![r].owner = p]
      BY <1>27, <3>1, <3>3, Update
    <3>. QED  BY <1>27, <3>2, <3>3 DEF Ensure
  <2>3. ensure' \in [Requests -> Call]
    <3>1. [ensure[r] EXCEPT !.at = "prepare"] \in Call
      BY <1>27, CallUpdates, Update DEF Steps
    <3>2. [ensure EXCEPT ![r] = [ensure[r] EXCEPT !.at = "prepare"]] \in [Requests -> Call]
      BY <1>27, <3>1, Update
    <3>. QED  BY <1>27, <3>2 DEF Ensure
  <2>. QED  BY <1>27, <2>1, <2>2, <2>3 DEF Ensure
<1>28. ASSUME NEW p \in Procs, NEW r \in Requests, Recover(p, r) PROVE TypeOK'
  <2>1. job' \in [Requests -> Job]
    <3>1. [job[r] EXCEPT !.status = "settled", !.result = "BLOCKED",
                         !.invoked = outcome[r].invoked] \in Job
      BY <1>28, JobUpdates, ReceiptUpdates, Update DEF Results
    <3>. QED  BY <1>28, <3>1, Update DEF Recover
  <2>2. owned' \in Ownership
    BY <1>28 DEF Recover, Released, HoldsNode, Ownership
  <2>. QED  BY <1>28, <2>1, <2>2 DEF Recover
<1>29. ASSUME NEW p \in Procs, Die(p) PROVE TypeOK'
  BY <1>29 DEF Die
<1>30. CASE UNCHANGED vars
  BY <1>30 DEF vars
<1>. QED
  BY <1>1, <1>2, <1>3, <1>4, <1>5, <1>6, <1>7, <1>8, <1>9, <1>10, <1>11, <1>12, <1>13,
     <1>14, <1>15, <1>16, <1>17, <1>18, <1>19, <1>20, <1>21, <1>22, <1>23, <1>24,
     <1>25, <1>26, <1>27, <1>28, <1>29, <1>30
     DEF Next, ServiceStep, CallStep, SupervisorStep

LEMMA NextIInv == IInv /\ [Next]_vars => IInv'
<1>. SUFFICES ASSUME IInv, [Next]_vars PROVE IInv'
  OBVIOUS
<1>. USE RunnerAssumption DEF IInv
<1>0. TypeOK'
  BY TypeNext DEF IInv
<1>1. ASSUME TakeWorkspace PROVE IInv'
  <2>1. RunningHolds'
    BY <1>1 DEF TakeWorkspace, RunningHolds
  <2>. QED  BY <1>1, <1>0, <2>1 DEF TakeWorkspace, PhasesAgree, LaunchIsSent, ResultIsExtinct,
                   SettledIsOver, PassWasSeen, CancelledIsRecorded, AllRecorded
<1>2. ASSUME NewCandidate PROVE IInv'
  <2>1. PhasesAgree'
    BY <1>2 DEF NewCandidate, Obsolete, PhasesAgree
  <2>2. RunningHolds'
    BY <1>2 DEF NewCandidate, Obsolete, RunningHolds, HoldsNode
  <2>3. CancelledIsRecorded'
    BY <1>2 DEF NewCandidate, CancelledIsRecorded
  <2>. QED  BY <1>2, <1>0, <2>1, <2>2, <2>3 DEF NewCandidate, LaunchIsSent, ResultIsExtinct,
                   SettledIsOver, PassWasSeen
<1>3. ASSUME NextWorker PROVE IInv'
  <2>1. PhasesAgree'
    BY <1>3 DEF NextWorker, Obsolete, PhasesAgree
  <2>2. RunningHolds'
    BY <1>3 DEF NextWorker, Reconciled, RunningHolds
  <2>3. CancelledIsRecorded'
    BY <1>3 DEF NextWorker, CancelledIsRecorded
  <2>. QED  BY <1>3, <1>0, <2>1, <2>2, <2>3 DEF NextWorker, LaunchIsSent, ResultIsExtinct,
                   SettledIsOver, PassWasSeen
<1>4. ASSUME WorkerSettles PROVE IInv'
  <2>1. RunningHolds'
    BY <1>4 DEF WorkerSettles, RunningHolds
  <2>2. CancelledIsRecorded'
    BY <1>4 DEF WorkerSettles, CancelledIsRecorded
  <2>. QED  BY <1>4, <1>0, <2>1, <2>2 DEF WorkerSettles, PhasesAgree, LaunchIsSent,
                   ResultIsExtinct, SettledIsOver, PassWasSeen
<1>5. ASSUME Cancel PROVE IInv'
  <2>1. PhasesAgree'
    BY <1>5 DEF Cancel, Obsolete, PhasesAgree
  <2>2. RunningHolds'
    BY <1>5 DEF Cancel, Obsolete, RunningHolds, HoldsNode
  <2>3. CancelledIsRecorded'
    BY <1>5 DEF Cancel, CancelledIsRecorded
  <2>. QED  BY <1>5, <1>0, <2>1, <2>2, <2>3 DEF Cancel, LaunchIsSent, ResultIsExtinct,
                   SettledIsOver, PassWasSeen
<1>6. ASSUME Finalize PROVE IInv'
  <2>1. CancelledIsRecorded'
    BY <1>6 DEF Finalize, AllRecorded, CancelledIsRecorded
  <2>. QED  BY <1>6, <1>0, <2>1 DEF Finalize, PhasesAgree, RunningHolds, LaunchIsSent,
                   ResultIsExtinct, SettledIsOver, PassWasSeen, HoldsNode
<1>7. ASSUME NEW r \in Requests, PrepareCheck(r) PROVE IInv'
  <2>1. PhasesAgree'
    BY <1>7 DEF PrepareCheck, PhasesAgree
  <2>2. RunningHolds'
    BY <1>7 DEF PrepareCheck, Reconciled, RunningHolds, HoldsNode
  <2>3. CancelledIsRecorded'
    BY <1>7 DEF PrepareCheck, CancelledIsRecorded
  <2>. QED  BY <1>7, <1>0, <2>1, <2>2, <2>3 DEF PrepareCheck, LaunchIsSent, ResultIsExtinct,
                   SettledIsOver, PassWasSeen
<1>8. ASSUME NEW r \in Requests, RecordResult(r) PROVE IInv'
  <2>1. PhasesAgree'
    BY <1>8 DEF RecordResult, PhasesAgree
  <2>2. RunningHolds'
    BY <1>8 DEF RecordResult, RunningHolds, HoldsNode
  <2>3. CancelledIsRecorded'
    BY <1>8 DEF RecordResult, CancelledIsRecorded, AllRecorded
  <2>. QED  BY <1>8, <1>0, <2>1, <2>2, <2>3 DEF RecordResult, LaunchIsSent, ResultIsExtinct,
                   SettledIsOver, PassWasSeen
<1>9. ASSUME NEW r \in Requests, ReconcileUnlaunched(r) PROVE IInv'
  <2>1. PhasesAgree'
    BY <1>9 DEF ReconcileUnlaunched, TypeOK, PhasesAgree
  <2>2. RunningHolds'
    BY <1>9 DEF ReconcileUnlaunched, TypeOK, RunningHolds, HoldsNode
  <2>3. ResultIsExtinct'
    BY <1>9 DEF ReconcileUnlaunched, TypeOK, ResultIsExtinct, PhasesAgree, LaunchIsSent
  <2>4. SettledIsOver'
    BY <1>9 DEF ReconcileUnlaunched, TypeOK, SettledIsOver, PhasesAgree
  <2>5. PassWasSeen'
    BY <1>9 DEF ReconcileUnlaunched, TypeOK, PassWasSeen
  <2>. QED  BY <1>9, <1>0, <2>1, <2>2, <2>3, <2>4, <2>5
            DEF ReconcileUnlaunched, LaunchIsSent, CancelledIsRecorded
<1>10. ASSUME NEW r \in Requests, EnsureAgain(r) PROVE IInv'
  <2>1. RunningHolds'
    BY <1>10 DEF EnsureAgain, Released, RunningHolds, PhasesAgree
  <2>. QED  BY <1>10, <1>0, <2>1 DEF EnsureAgain, PhasesAgree, LaunchIsSent, ResultIsExtinct,
                   SettledIsOver, PassWasSeen, CancelledIsRecorded, AllRecorded
<1>11. ASSUME NEW r \in Requests, PrepareFails(r) PROVE IInv'
  <2>1. PhasesAgree'
    BY <1>11 DEF PrepareFails, TypeOK, Runs, ToPublish, PhasesAgree
  <2>2. LaunchIsSent'
    BY <1>11 DEF PrepareFails, TypeOK, ToPublish, LaunchIsSent
  <2>3. ResultIsExtinct'
    BY <1>11 DEF PrepareFails, TypeOK, Runs, ToPublish, ResultIsExtinct, PhasesAgree, LaunchIsSent
  <2>4. SettledIsOver'
    BY <1>11 DEF PrepareFails, TypeOK, Runs, ToPublish, SettledIsOver
  <2>5. PassWasSeen'
    BY <1>11 DEF PrepareFails, TypeOK, ToPublish, PassWasSeen
  <2>. QED  BY <1>11, <1>0, <2>1, <2>2, <2>3, <2>4, <2>5 DEF PrepareFails, RunningHolds,
                   CancelledIsRecorded, HoldsNode, AllRecorded
<1>12. ASSUME NEW r \in Requests, StartSupervisor(r) PROVE IInv'
  <2>1. PhasesAgree'
    BY <1>12 DEF StartSupervisor, TypeOK, Runs, To, PhasesAgree
  <2>2. RunningHolds'
    BY <1>12 DEF StartSupervisor, RunningHolds, HoldsNode
  <2>3. LaunchIsSent'
    BY <1>12 DEF StartSupervisor, Runs, To, LaunchIsSent, PhasesAgree
  <2>4. ResultIsExtinct'
    BY <1>12 DEF StartSupervisor, Runs, To, ResultIsExtinct, PhasesAgree
  <2>5. SettledIsOver'
    BY <1>12 DEF StartSupervisor, Runs, To, SettledIsOver
  <2>6. PassWasSeen'
    BY <1>12 DEF StartSupervisor, Runs, To, PassWasSeen, PhasesAgree
  <2>. QED  BY <1>12, <1>0, <2>1, <2>2, <2>3, <2>4, <2>5, <2>6 DEF StartSupervisor,
                   CancelledIsRecorded, AllRecorded
<1>13. ASSUME NEW r \in Requests, Launch(r) PROVE IInv'
  <2>1. job[r].status = "running" /\ job[r].result = "none" /\ ensure[r].at = "watch"
    BY <1>13 DEF Launch, TypeOK, Runs, PhasesAgree, SettledIsOver, Job
  <2>2. \A q \in Requests :
          /\ ensure'[q].at = ensure[q].at /\ ensure'[q].result = ensure[q].result
          /\ ensure[q].launched => ensure'[q].launched
          /\ q # r => ensure'[q].interrupted = ensure[q].interrupted /\ pipe'[q] = pipe[q]
          /\ journal'[q] = "BLOCKED" => journal[q] = "BLOCKED"
    BY <1>13 DEF Launch, TypeOK, Send, Call
  <2>3. \A n \in 1..Len(pipe'[r]) : pipe'[r][n] = "launch" => ensure'[r].launched
    <3>1. \A m \in {"launch", "abort"} : \A n \in 1..Len(Append(pipe[r], m)) :
            Append(pipe[r], m)[n] = IF n <= Len(pipe[r]) THEN pipe[r][n] ELSE m
      BY <1>13
    <3>2. CASE UNCHANGED <<ensure, pipe>>
      BY <3>2 DEF LaunchIsSent
    <3>3. CASE ensure'[r].launched
      BY <3>3
    <3>4. CASE /\ pipe' = [pipe EXCEPT ![r] = Append(@, "abort")]
               /\ ensure'[r].launched = ensure[r].launched
      BY <1>13, <3>1, <3>4 DEF LaunchIsSent
    <3>. QED  BY <1>13, <3>2, <3>3, <3>4 DEF Launch, TypeOK, Send, Call
  <2>4. PhasesAgree'
    BY <1>13, <2>1, <2>2 DEF Launch, PhasesAgree
  <2>5. LaunchIsSent'
    BY <1>13, <2>2, <2>3 DEF Launch, LaunchIsSent
  <2>6. ResultIsExtinct' /\ SettledIsOver'
    BY <1>13, <2>1, <2>2 DEF Launch, ResultIsExtinct, SettledIsOver
  <2>7. PassWasSeen'
    BY <1>13, <2>1, <2>2 DEF Launch, PassWasSeen
  <2>. QED  BY <1>13, <1>0, <2>4, <2>5, <2>6, <2>7
            DEF Launch, RunningHolds, CancelledIsRecorded, HoldsNode, AllRecorded
<1>14. ASSUME NEW r \in Requests, Abort(r) PROVE IInv'
  <2>1. PhasesAgree'
    BY <1>14 DEF Abort, PhasesAgree
  <2>2. LaunchIsSent'
    BY <1>14 DEF Abort, Send, LaunchIsSent
  <2>3. ResultIsExtinct'
    BY <1>14 DEF Abort, ResultIsExtinct
  <2>4. SettledIsOver'
    BY <1>14 DEF Abort, SettledIsOver
  <2>5. PassWasSeen'
    <3>1. job[r].result = "none" /\ ensure[r].at = "watch"
      BY <1>14 DEF Abort, Runs, PhasesAgree, SettledIsOver
    <3>2. \A q \in Requests :
            /\ ensure'[q].at = ensure[q].at /\ ensure'[q].result = ensure[q].result
            /\ q # r => ensure'[q] = ensure[q]
      BY <1>14 DEF Abort
    <3>. QED  BY <1>14, <3>1, <3>2 DEF Abort, PassWasSeen
  <2>. QED  BY <1>14, <1>0, <2>1, <2>2, <2>3, <2>4, <2>5 DEF Abort, RunningHolds,
                   CancelledIsRecorded, HoldsNode, AllRecorded
<1>15. ASSUME NEW r \in Requests, Observe(r) PROVE IInv'
  <2>1. PhasesAgree'
    BY <1>15 DEF Observe, TypeOK, Runs, ToPublish, Disposition, PhasesAgree
  <2>2. LaunchIsSent'
    BY <1>15 DEF Observe, TypeOK, ToPublish, LaunchIsSent
  <2>3. ResultIsExtinct'
    BY <1>15 DEF Observe, TypeOK, ToPublish, ResultIsExtinct, LaunchIsSent
  <2>4. SettledIsOver'
    BY <1>15 DEF Observe, TypeOK, Runs, ToPublish, SettledIsOver
  <2>5. PassWasSeen'
    BY <1>15 DEF Observe, TypeOK, ToPublish, Disposition, PassWasSeen
  <2>. QED  BY <1>15, <1>0, <2>1, <2>2, <2>3, <2>4, <2>5 DEF Observe, RunningHolds,
                   CancelledIsRecorded, HoldsNode, AllRecorded
<1>16. ASSUME NEW r \in Requests, Unavailable(r) PROVE IInv'
  <2>1. PhasesAgree'
    BY <1>16 DEF Unavailable, TypeOK, Runs, ToPublish, PhasesAgree
  <2>2. LaunchIsSent'
    BY <1>16 DEF Unavailable, TypeOK, ToPublish, LaunchIsSent
  <2>3. ResultIsExtinct'
    BY <1>16 DEF Unavailable, TypeOK, ToPublish, SettledUnlaunched, ResultIsExtinct, LaunchIsSent
  <2>4. SettledIsOver'
    BY <1>16 DEF Unavailable, TypeOK, Runs, ToPublish, SettledIsOver
  <2>5. PassWasSeen'
    BY <1>16 DEF Unavailable, TypeOK, ToPublish, PassWasSeen
  <2>. QED  BY <1>16, <1>0, <2>1, <2>2, <2>3, <2>4, <2>5 DEF Unavailable, RunningHolds,
                   CancelledIsRecorded, HoldsNode, AllRecorded
<1>17. ASSUME NEW r \in Requests, Unsettled(r) PROVE IInv'
  <2>1. PhasesAgree'
    BY <1>17 DEF Unsettled, TypeOK, Runs, To, PhasesAgree
  <2>2. LaunchIsSent'
    BY <1>17 DEF Unsettled, To, LaunchIsSent
  <2>3. ResultIsExtinct'
    BY <1>17 DEF Unsettled, To, ResultIsExtinct
  <2>4. SettledIsOver'
    BY <1>17 DEF Unsettled, To, SettledIsOver
  <2>5. PassWasSeen'
    BY <1>17 DEF Unsettled, To, PassWasSeen
  <2>. QED  BY <1>17, <1>0, <2>1, <2>2, <2>3, <2>4, <2>5 DEF Unsettled, RunningHolds,
                   CancelledIsRecorded, HoldsNode, AllRecorded
<1>18. ASSUME NEW r \in Requests, Publish(r) PROVE IInv'
  <2>1. PhasesAgree'
    BY <1>18 DEF Publish, TypeOK, Runs, To, PhasesAgree
  <2>2. RunningHolds'
    BY <1>18 DEF Publish, TypeOK, RunningHolds, HoldsNode
  <2>3. LaunchIsSent'
    BY <1>18 DEF Publish, To, LaunchIsSent
  <2>4. ResultIsExtinct'
    BY <1>18 DEF Publish, TypeOK, Runs, To, ResultIsExtinct
  <2>5. SettledIsOver'
    BY <1>18 DEF Publish, TypeOK, To, SettledIsOver
  <2>6. PassWasSeen'
    BY <1>18 DEF Publish, TypeOK, Runs, To, PassWasSeen
  <2>. QED  BY <1>18, <1>0, <2>1, <2>2, <2>3, <2>4, <2>5, <2>6 DEF Publish, CancelledIsRecorded,
                   AllRecorded
<1>19. ASSUME NEW r \in Requests, Release(r) PROVE IInv'
  <2>1. PhasesAgree'
    BY <1>19 DEF Release, Runs, To, PhasesAgree
  <2>2. RunningHolds'
    BY <1>19 DEF Release, Runs, Released, HoldsNode, RunningHolds, PhasesAgree
  <2>3. LaunchIsSent'
    BY <1>19 DEF Release, To, LaunchIsSent
  <2>4. ResultIsExtinct'
    BY <1>19 DEF Release, To, ResultIsExtinct
  <2>5. SettledIsOver'
    BY <1>19 DEF Release, To, SettledIsOver
  <2>6. PassWasSeen'
    BY <1>19 DEF Release, To, PassWasSeen
  <2>. QED  BY <1>19, <1>0, <2>1, <2>2, <2>3, <2>4, <2>5, <2>6 DEF Release, CancelledIsRecorded,
                   AllRecorded
<1>20. ASSUME NEW r \in Requests, PublishFails(r) PROVE IInv'
  <2>1. PhasesAgree'
    BY <1>20 DEF PublishFails, Runs, To, PhasesAgree
  <2>2. LaunchIsSent'
    BY <1>20 DEF PublishFails, To, LaunchIsSent
  <2>3. ResultIsExtinct'
    BY <1>20 DEF PublishFails, To, ResultIsExtinct
  <2>4. SettledIsOver'
    BY <1>20 DEF PublishFails, To, SettledIsOver
  <2>5. PassWasSeen'
    BY <1>20 DEF PublishFails, To, PassWasSeen
  <2>. QED  BY <1>20, <1>0, <2>1, <2>2, <2>3, <2>4, <2>5 DEF PublishFails, RunningHolds,
                   CancelledIsRecorded, HoldsNode, AllRecorded
<1>21. ASSUME NEW r \in Requests, SupervisorLaunches(r) PROVE IInv'
  <2>1. PhasesAgree'
    BY <1>21 DEF SupervisorLaunches, PhasesAgree
  <2>2. LaunchIsSent'
    <3>1. /\ Len(Tail(pipe[r])) = Len(pipe[r]) - 1
          /\ \A n \in 1..Len(Tail(pipe[r])) : Tail(pipe[r])[n] = pipe[r][n + 1]
          /\ Len(pipe[r]) \in Nat /\ Len(pipe[r]) >= 1 /\ pipe[r][1] = "launch"
      BY <1>21 DEF SupervisorLaunches, Hears
    <3>1a. 1 \in 1..Len(pipe[r])
      BY <3>1
    <3>2. ensure[r].launched
      BY <1>21, <3>1, <3>1a DEF LaunchIsSent
    <3>3. \A n \in 1..Len(pipe'[r]) : pipe'[r][n] = "launch" => ensure'[r].launched
      BY <1>21, <3>2 DEF SupervisorLaunches
    <3>. QED  BY <1>21, <3>2, <3>3 DEF SupervisorLaunches, TypeOK, LaunchIsSent
  <2>3. ResultIsExtinct'
    BY <1>21 DEF SupervisorLaunches, ResultIsExtinct
  <2>4. PassWasSeen'
    BY <1>21 DEF SupervisorLaunches, PassWasSeen
  <2>. QED  BY <1>21, <1>0, <2>1, <2>2, <2>3, <2>4 DEF SupervisorLaunches, RunningHolds,
                   SettledIsOver, CancelledIsRecorded, HoldsNode, AllRecorded
<1>22. ASSUME NEW r \in Requests, SupervisorAborts(r) PROVE IInv'
  <2>1. PhasesAgree'
    BY <1>22 DEF SupervisorAborts, PhasesAgree
  <2>2. LaunchIsSent'
    BY <1>22 DEF SupervisorAborts, LaunchIsSent
  <2>3. ResultIsExtinct'
    BY <1>22 DEF SupervisorAborts, ResultIsExtinct
  <2>4. PassWasSeen'
    BY <1>22 DEF SupervisorAborts, TypeOK, PassWasSeen, Supervisor
  <2>. QED  BY <1>22, <1>0, <2>1, <2>2, <2>3, <2>4 DEF SupervisorAborts, RunningHolds,
                   SettledIsOver, CancelledIsRecorded, HoldsNode, AllRecorded
<1>23. ASSUME NEW r \in Requests, SupervisorReceipt(r) PROVE IInv'
  <2>1. PhasesAgree'
    BY <1>23 DEF SupervisorReceipt, PhasesAgree
  <2>2. LaunchIsSent'
    BY <1>23 DEF SupervisorReceipt, Extinct, LaunchIsSent
  <2>3. ResultIsExtinct'
    BY <1>23 DEF SupervisorReceipt, ResultIsExtinct
  <2>4. PassWasSeen'
    BY <1>23 DEF SupervisorReceipt, TypeOK, PassWasSeen
  <2>. QED  BY <1>23, <1>0, <2>1, <2>2, <2>3, <2>4 DEF SupervisorReceipt, RunningHolds,
                   SettledIsOver, CancelledIsRecorded, HoldsNode, AllRecorded
<1>24. ASSUME NEW r \in Requests, SupervisorKilled(r) PROVE IInv'
  <2>1. PhasesAgree'
    BY <1>24 DEF SupervisorKilled, PhasesAgree
  <2>2. LaunchIsSent'
    BY <1>24 DEF SupervisorKilled, LaunchIsSent
  <2>3. ResultIsExtinct'
    BY <1>24 DEF SupervisorKilled, ResultIsExtinct
  <2>4. PassWasSeen'
    BY <1>24 DEF SupervisorKilled, PassWasSeen
  <2>. QED  BY <1>24, <1>0, <2>1, <2>2, <2>3, <2>4 DEF SupervisorKilled, RunningHolds,
                   SettledIsOver, CancelledIsRecorded, HoldsNode, AllRecorded
<1>25. ASSUME NEW r \in Requests, CommandWrites(r) PROVE IInv'
  <2>. QED  BY <1>25, <1>0 DEF CommandWrites, PhasesAgree, RunningHolds, LaunchIsSent,
                   ResultIsExtinct, SettledIsOver, PassWasSeen, CancelledIsRecorded, HoldsNode,
                   AllRecorded
<1>26. ASSUME NEW r \in Requests, CommandEnds(r) PROVE IInv'
  <2>1. LaunchIsSent'
    BY <1>26 DEF CommandEnds, LaunchIsSent
  <2>2. ResultIsExtinct'
    BY <1>26 DEF CommandEnds, ResultIsExtinct
  <2>3. PassWasSeen'
    BY <1>26 DEF CommandEnds, PassWasSeen, PhasesAgree, ResultIsExtinct
  <2>. QED  BY <1>26, <1>0, <2>1, <2>2, <2>3 DEF CommandEnds, PhasesAgree, RunningHolds,
                   SettledIsOver, CancelledIsRecorded, HoldsNode, AllRecorded
<1>27. ASSUME NEW p \in Procs, NEW r \in Requests, Ensure(p, r) PROVE IInv'
  <2>1. /\ job[r].status = "none" /\ job[r].result = "none" /\ intent[r].status = "intent"
        /\ ensure[r].at = "idle" /\ sup[r].at = "none" /\ ~ alive[r] /\ journal[r] # "BLOCKED"
        /\ ~ intent[r].recorded
    BY <1>27 DEF Ensure, Current, PhasesAgree, LaunchIsSent
  <2>2. \A q \in Requests :
          /\ q # r => ensure'[q] = ensure[q] /\ job'[q] = job[q]
          /\ ensure'[q].result = ensure[q].result /\ ensure'[q].launched = ensure[q].launched
          /\ ensure'[q].interrupted = ensure[q].interrupted /\ job'[q].result = job[q].result
    BY <1>27 DEF Ensure, TypeOK, Call, Job
  <2>3. \/ job'[r].status = "running" /\ ensure'[r].at = "prepare"
        \/ job'[r] = job[r] /\ ensure'[r] = ensure[r]
    BY <1>27 DEF Ensure, TypeOK, Call, Job
  <2>4. PhasesAgree'
    BY <1>27, <2>1, <2>2, <2>3 DEF Ensure, PhasesAgree
  <2>5. RunningHolds'
    <3>1. \A q \in Requests : q # r => job[q].status # "running"
      BY <1>27, <2>1 DEF Ensure, Reconciled, RunningHolds
    <3>2. ~ owned.launch /\ owned'.launch = owned.launch /\ owned'.epoch = owned.epoch
          /\ owned'.execution = r /\ owned.epoch = intent[r].epoch
      BY <1>27 DEF Ensure, Reconciled, HoldsNode
    <3>. QED  BY <1>27, <2>2, <3>1, <3>2 DEF Ensure, RunningHolds, HoldsNode
  <2>6. LaunchIsSent'
    BY <1>27, <2>2 DEF Ensure, LaunchIsSent
  <2>7. ResultIsExtinct' /\ SettledIsOver'
    BY <1>27, <2>1, <2>2, <2>3 DEF Ensure, ResultIsExtinct, SettledIsOver
  <2>8. PassWasSeen'
    BY <1>27, <2>1, <2>2, <2>3 DEF Ensure, PassWasSeen
  <2>. QED  BY <1>27, <1>0, <2>4, <2>5, <2>6, <2>7, <2>8
            DEF Ensure, CancelledIsRecorded, AllRecorded
<1>28. ASSUME NEW p \in Procs, NEW r \in Requests, Recover(p, r) PROVE IInv'
  <2>1. PhasesAgree'
    BY <1>28 DEF Recover, TypeOK, PhasesAgree
  <2>2. RunningHolds'
    <3>1. owned.execution = r /\ \A q \in Requests : job[q].status = "running" => q = r
      BY <1>28 DEF Recover, RunningHolds
    <3>2. \A q \in Requests : job'[q].status # "running"
      BY <1>28, <3>1 DEF Recover, TypeOK
    <3>3. owned'.launch = owned.launch /\ (owned.launch => owned'.execution = NoRequest)
      BY <1>28 DEF Recover, TypeOK, Released, RunningHolds, Ownership
    <3>. QED  BY <1>28, <3>2, <3>3 DEF Recover, RunningHolds
  <2>3. ResultIsExtinct'
    BY <1>28 DEF Recover, TypeOK, ResultIsExtinct, LaunchIsSent
  <2>4. SettledIsOver'
    BY <1>28 DEF Recover, TypeOK, GivenUp, SettledIsOver, PhasesAgree
  <2>5. PassWasSeen'
    BY <1>28 DEF Recover, TypeOK, PassWasSeen
  <2>. QED  BY <1>28, <1>0, <2>1, <2>2, <2>3, <2>4, <2>5 DEF Recover, LaunchIsSent,
                   CancelledIsRecorded, AllRecorded
<1>29. ASSUME NEW p \in Procs, Die(p) PROVE IInv'
  <2>1. SettledIsOver'
    BY <1>29 DEF Die, SettledIsOver
  <2>. QED  BY <1>29, <1>0, <2>1 DEF Die, PhasesAgree, RunningHolds, LaunchIsSent,
                   ResultIsExtinct, PassWasSeen, CancelledIsRecorded, HoldsNode, AllRecorded
<1>30. CASE UNCHANGED vars
  BY <1>30, <1>0 DEF vars, PhasesAgree, RunningHolds, LaunchIsSent, ResultIsExtinct,
         SettledIsOver, PassWasSeen, CancelledIsRecorded, HoldsNode, AllRecorded
<1>. QED
  BY <1>1, <1>2, <1>3, <1>4, <1>5, <1>6, <1>7, <1>8, <1>9, <1>10, <1>11, <1>12, <1>13,
     <1>14, <1>15, <1>16, <1>17, <1>18, <1>19, <1>20, <1>21, <1>22, <1>23, <1>24,
     <1>25, <1>26, <1>27, <1>28, <1>29, <1>30
     DEF Next, ServiceStep, CallStep, SupervisorStep

LEMMA Invariance == Spec => []IInv
<1>. QED  BY InitIInv, NextIInv, PTL DEF Spec

-----------------------------------------------------------------------------
\* Every variable of the runner keeps its type.
THEOREM RunnerTypes == Spec => []TypeOK
<1>. QED  BY Invariance, PTL DEF IInv

\* A worker and a command never write the same workspace, nor do two commands:
\* the claim of command-runner.ts ensure() outlives whatever runs under it.
THEOREM WorkspaceIsExclusive == Spec => []WorkspaceExclusive
<1>1. IInv => WorkspaceExclusive
  <2>. SUFFICES ASSUME IInv PROVE WorkspaceExclusive
    OBVIOUS
  <2>1. \A r \in Requests : alive[r] => job[r].status = "running"
    BY DEF IInv, TypeOK, Job, PhasesAgree, LaunchIsSent, ResultIsExtinct
  <2>. QED  BY <2>1 DEF IInv, RunningHolds, HoldsNode, WorkspaceExclusive
<1>. QED  BY <1>1, Invariance, PTL

\* A durable result, whether observed, refused or recovered by
\* reconcileExtinctCommand(), means that nothing of the execution is left.
THEOREM SettledExtinct == Spec => []SettledIsExtinct
<1>1. IInv => SettledIsExtinct
  BY DEF IInv, ResultIsExtinct, SettledIsExtinct
<1>. QED  BY <1>1, Invariance, PTL

\* reconcileCancellation() ends a run only when no execution of it can go on.
THEOREM CancelledQuiet == Spec => []CancelledIsQuiet
<1>1. IInv => CancelledIsQuiet
  <2>. SUFFICES ASSUME IInv, run = "cancelled", NEW r \in Requests
                PROVE  /\ ~ alive[r] /\ sup[r].at \notin {"waiting", "launched"}
                       /\ ensure[r].at \in {"idle", "release", "ended"} \/ job[r].owner \notin up
    BY DEF IInv, CancelledIsRecorded, CancelledIsQuiet
  <2>1. CASE intent[r].status = "none"
    BY <2>1 DEF IInv, PhasesAgree, LaunchIsSent
  <2>2. CASE intent[r].status # "none"
    <3>1. job[r].status = "settled"
      BY <2>2 DEF IInv, CancelledIsRecorded, AllRecorded, PhasesAgree
    <3>. QED  BY <3>1 DEF IInv, ResultIsExtinct, SettledIsOver
  <2>. QED  BY <2>1, <2>2
<1>. QED  BY <1>1, Invariance, PTL

\* PASS is the exit a supervisor saw, of a command that nobody aborted.
THEOREM PassObserved == Spec => []PassIsObserved
<1>1. IInv => PassIsObserved
  BY DEF IInv, PassWasSeen, PassIsObserved
<1>. QED  BY <1>1, Invariance, PTL

-----------------------------------------------------------------------------
\* Only a launch through the gate of invoke() sends the launch.
LEMMA LaunchNeedsGate ==
  ASSUME TypeOK, [Next]_vars, NEW r \in Requests, ensure'[r].launched
  PROVE  ensure[r].launched \/ Current(r)
<1>. USE DEF TypeOK
<1>1. CASE \E q \in Requests : Launch(q)
  <2>1. PICK q \in Requests : Launch(q)
    BY <1>1
  <2>2. CASE q = r
    BY <2>1, <2>2 DEF Launch, Gate
  <2>3. CASE q # r
    BY <2>1, <2>3 DEF Launch
  <2>. QED  BY <2>2, <2>3
<1>2. CASE \E p \in Procs, q \in Requests : Ensure(p, q)
  BY <1>2 DEF Ensure, Call
<1>3. ASSUME NEW q \in Requests, NEW s, NEW t, NEW b, To(q, s) \/ ToPublish(q, t, b)
      PROVE  ensure'[r].launched = ensure[r].launched
  <2>0. ensure[r] \in Call
    OBVIOUS
  <2>1. CASE To(q, s)
    BY <1>3, <2>0, <2>1 DEF To, Call
  <2>2. CASE ToPublish(q, t, b)
    BY <1>3, <2>0, <2>2 DEF ToPublish, Call
  <2>. QED  BY <1>3, <2>1, <2>2
<1>4. ASSUME NEW q \in Requests, CallStep(q) \/ PublishFails(q), ~ Launch(q), ~ Abort(q)
      PROVE  ensure'[r].launched = ensure[r].launched
  BY <1>3, <1>4 DEF CallStep, PrepareFails, StartSupervisor, Observe, Unavailable, Unsettled,
                    Publish, Release, PublishFails
<1>5. CASE \E q \in Requests : Abort(q)
  BY <1>5 DEF Abort, Call
<1>6. CASE UNCHANGED ensure
  BY <1>6
<1>. QED
  BY <1>1, <1>2, <1>3, <1>4, <1>5, <1>6
     DEF Next, ServiceStep, CallStep, SupervisorStep, TakeWorkspace, NewCandidate, NextWorker,
         WorkerSettles, Cancel, Finalize, PrepareCheck, RecordResult, ReconcileUnlaunched,
         EnsureAgain, SupervisorLaunches, SupervisorAborts, SupervisorReceipt, SupervisorKilled,
         CommandWrites, CommandEnds, Recover, Die, vars

\* An execution fenced before its launch was sent, by a new candidate, a new
\* worker or a cancellation, never starts.
THEOREM FencedStaysDown == Spec => FencedNeverStarts
<1>1. IInv /\ IInv' /\ [Next]_vars =>
        [ \A r \in Requests :
            ~ Current(r) /\ ~ ensure[r].launched => ~ ensure'[r].launched /\ ~ alive'[r] ]_vars
  BY LaunchNeedsGate DEF IInv, LaunchIsSent
<1>. QED  BY <1>1, Invariance, PTL DEF Spec, FencedNeverStarts
=============================================================================
