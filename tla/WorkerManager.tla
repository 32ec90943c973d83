---------------------------- MODULE WorkerManager ----------------------------
(***************************************************************************)
(* worker-runtime/manager.mjs: one worker of a session, its attempts one   *)
(* after the other, and the queue of completions the session is told.      *)
(*                                                                         *)
(* The session is a file that is replaced under a lock (FileLock), so a    *)
(* #mutate is one step; but an operation of the manager is many mutations  *)
(* and looks at files, and several operations are under way at a time: the *)
(* scan, a launch or retry, a reconciliation asked for by the workflow.    *)
(* Each remembers what it has read.  What happens to an attempt outside of *)
(* the manager is WorkerAttempt.                                           *)
(*                                                                         *)
(* `explicit' workers belong to a run of the DAG: only their caller starts *)
(* or restarts them, and they are never retried.  Working roots, archives, *)
(* forks of a session and corrupt files are left out.                      *)
(***************************************************************************)
EXTENDS Naturals, Sequences, FiniteSets

CONSTANT MaxAttempts     \* bound: attempts of the worker

ASSUME AttemptsAssumption == MaxAttempts \in Nat \ {0}

VARIABLES explicit,   \* the worker belongs to a run
          run,        \* per attempt: its processes and the files they write
          recovery,   \* per attempt: the result written by the manager, recovery-result.json
          moved,      \* results that were moved to quarantine
          session,    \* the file of the session
          ops,        \* the operations under way, and what they have read
          escalation, \* per attempt: the next signal the manager will send
          manager,    \* attached or not, and what it keeps in memory
          aborted     \* attempts whose launch was aborted by the caller

managerVars == <<explicit, run, recovery, moved, session, ops, escalation, manager, aborted>>

\* The manager tells a cancelled result from any other, and no more.
A == INSTANCE WorkerAttempt WITH attempt <- run[1], Statuses <- {"succeeded", "cancelled"}

Attempt == 1..MaxAttempts
Op == {"scan", "launch", "binding"}
Terminal == {"succeeded", "needs_attention", "failed", "cancelled", "lost"}

NoAttempt == [status |-> "none", bound |-> FALSE, kid |-> FALSE, by |-> "none"]
Idle == [at |-> "idle", n |-> 0, full |-> FALSE, cancelling |-> FALSE, seen |-> "none",
         bound |-> FALSE]

Init ==
    /\ explicit \in BOOLEAN
    /\ run = [n \in Attempt |-> A!Unlaunched]
    /\ recovery = [n \in Attempt |-> "none"]
    /\ moved = {}
    /\ session = [status |-> "none", current |-> 0, att |-> [n \in Attempt |-> NoAttempt],
                  auth |-> 0, queue |-> << >>, inFlight |-> 0, completed |-> {}]
    /\ ops = [o \in Op |-> Idle]
    /\ escalation = [n \in Attempt |-> "none"]
    /\ manager = [attached |-> TRUE, timer |-> FALSE, sending |-> 0, delivered |-> 0]
    /\ aborted = {}

----------------------------------------------------------------------------
ResultThere(n) == run[n].result # "none" /\ <<n, "result">> \notin moved
RecoveryThere(n) == recovery[n] # "none" /\ <<n, "recovery">> \notin moved
Adopted(n) == session.att[n].by # "none"

Active(s) == s.status \notin Terminal \cup {"none"}

At(o, step) == manager.attached /\ ops[o].at = step
Over(o) == ops' = [ops EXCEPT ![o] = Idle]

\* What an operation has read is forgotten when it is about to end.
Go(o, step) ==
    ops' = CASE step = "thrown" \/ (step = "end" /\ o = "binding") -> [ops EXCEPT ![o] = Idle]
             [] step = "end" /\ o # "binding" ->
                   [ops EXCEPT ![o] = [Idle EXCEPT !.at = "end", !.full = ops[o].full]]
             [] OTHER -> [ops EXCEPT ![o].at = step]

\* Two operations of one manager never dispatch the same attempt.
Dispatching(n) == \E o \in Op : /\ ops[o].n = n
                                /\ ops[o].at \in {"spawn", "receiptFile", "bind"}

Change(f) == session' = f

----------------------------------------------------------------------------
(* Launch and retry. *)

\* The reservation of a launch; a replay of the same key finds it.
Launch ==
    /\ At("launch", "idle") /\ session.current = 0 /\ session.status \in {"none", "launching"}
    /\ Change([session EXCEPT !.status = "launching"])
    /\ ops' = [ops EXCEPT !["launch"] = [Idle EXCEPT !.at = "reserve"]]
    /\ UNCHANGED <<explicit, run, recovery, moved, escalation, manager, aborted>>

\* One open authorization for the result of the current attempt.
AuthorizeRetry ==
    /\ At("launch", "idle") /\ ~explicit /\ session.auth = 0
    /\ session.status \in Terminal /\ session.current \in 1..MaxAttempts - 1
    /\ Adopted(session.current)
    /\ Change([session EXCEPT !.auth = session.current])
    /\ ops' = [ops EXCEPT !["launch"] = [Idle EXCEPT !.at = "reserveRetry"]]
    /\ UNCHANGED <<explicit, run, recovery, moved, escalation, manager, aborted>>

Reserve(o, n) ==
    /\ session' = [session EXCEPT !.current = n, !.status = "launching", !.auth = 0,
                                  !.att[n] = [NoAttempt EXCEPT !.status = "planned"]]
    /\ ops' = [ops EXCEPT ![o].at = "claim", ![o].n = n]

ReserveFirst(o) ==
    /\ At(o, "reserve")
    /\ IF session.current = 0 /\ session.status # "cancelled"
       THEN Reserve(o, 1)
       ELSE Go(o, "end") /\ UNCHANGED session
    /\ UNCHANGED <<explicit, run, recovery, moved, escalation, manager, aborted>>

\* The token, which nobody else has, is consumed by the attempt it starts.
ReserveRetry ==
    /\ At("launch", "reserveRetry") /\ session.auth = session.current
    /\ Reserve("launch", session.current + 1)
    /\ UNCHANGED <<explicit, run, recovery, moved, escalation, manager, aborted>>

\* The caller may abort a launch wherever its signal is looked at: the attempt then gets a
\* result from the manager, "cancelled", and what was spawned gets a SIGTERM.  What this is
\* worth is left to the processes.
Abort(o) ==
    /\ o = "launch"
    /\ \E step \in {"claim", "spawn", "receiptFile", "bind"} : At(o, step)
    /\ Go(o, "writeCancelled")
    /\ aborted' = aborted \cup {ops[o].n}
    /\ UNCHANGED <<explicit, run, recovery, moved, session, escalation, manager>>

\* Mistake: the claim is not looked at.
ClaimDispatchAgain(o) ==
    /\ At(o, "claim")
    /\ Change([session EXCEPT !.att[ops[o].n].status = "dispatching"])
    /\ Go(o, "spawn")
    /\ UNCHANGED <<explicit, run, recovery, moved, escalation, manager, aborted>>

\* The claim decides which of several dispatches of an attempt goes on.
ClaimDispatch(o) ==
    /\ At(o, "claim")
    /\ IF session.att[ops[o].n].status = "planned"
       THEN /\ Change([session EXCEPT !.att[ops[o].n].status = "dispatching"])
            /\ Go(o, "spawn")
       ELSE Go(o, "end") /\ UNCHANGED session
    /\ UNCHANGED <<explicit, run, recovery, moved, escalation, manager, aborted>>

\* The working root is checked again, and the supervisor is spawned; either may fail, and the
\* second failure is thrown on.
DispatchFails(o) ==
    /\ At(o, "spawn")
    /\ Go(o, "writeFailed") \/ Go(o, "writeFailedThrow")
    /\ UNCHANGED <<explicit, run, recovery, moved, session, escalation, manager, aborted>>

Spawn(o) ==
    /\ At(o, "spawn")
    /\ \E b \in A!Spawned(run[ops[o].n]) : run' = [run EXCEPT ![ops[o].n] = b]
    /\ Go(o, "receiptFile")
    /\ UNCHANGED <<explicit, recovery, moved, session, escalation, manager, aborted>>

\* Without the identity of the process there is no receipt and no binding.
NoIdentity(o) ==
    /\ At(o, "receiptFile")
    /\ Change(IF Adopted(ops[o].n) \/ session.status = "cancelling" THEN session
              ELSE [session EXCEPT !.att[ops[o].n].status = "launch_ambiguous",
                                   !.status = "needs_attention"])
    /\ Go(o, "end")
    /\ UNCHANGED <<explicit, run, recovery, moved, escalation, manager, aborted>>

WriteReceipt(o) ==
    /\ At(o, "receiptFile")
    /\ \E b \in A!Receipted(run[ops[o].n]) : run' = [run EXCEPT ![ops[o].n] = b]
    /\ Go(o, "bind")
    /\ UNCHANGED <<explicit, recovery, moved, session, escalation, manager, aborted>>

\* A result or a cancellation that came first keeps its status.
BindSupervisor(o) ==
    /\ At(o, "bind")
    /\ LET n == ops[o].n
           late == \/ session.att[n].by # "none" \/ session.att[n].status \in Terminal
                   \/ session.status = "cancelling" \/ session.current # n IN
       Change([session EXCEPT
                 !.att[n] = [session.att[n] EXCEPT !.bound = TRUE,
                               !.status = IF late THEN session.att[n].status ELSE "running"],
                 !.status = IF late THEN session.status ELSE "running"])
    /\ Go(o, "end")
    /\ UNCHANGED <<explicit, run, recovery, moved, escalation, manager, aborted>>

----------------------------------------------------------------------------
(* The scan of the current attempt, step by step as the files are looked   *)
(* at, and the reconciliation of one attempt by its workflow.              *)

StartScan(full) ==
    LET n == session.current IN
    CASE session.status = "none" \/ (session.status \in Terminal /\ ~full) ->
              [Idle EXCEPT !.at = "end"]
      [] n = 0 /\ session.status # "none" ->
              [Idle EXCEPT !.at = IF explicit \/ session.status \in Terminal THEN "end"
                                  ELSE "reserve"]
      [] n > 0 /\ Adopted(n) -> [Idle EXCEPT !.at = "end", !.full = full]
      [] OTHER -> [at |-> "receipt", n |-> n, full |-> full, seen |-> session.att[n].status,
                   cancelling |-> session.status = "cancelling", bound |-> session.att[n].bound]

TimerScan ==
    /\ At("scan", "idle") /\ manager.timer
    /\ ops' = [ops EXCEPT !["scan"] = StartScan(FALSE)]
    /\ UNCHANGED <<explicit, run, recovery, moved, session, escalation, manager, aborted>>

\* #bindLaunchReceipt: the receipt binds the attempt to its supervisor.
BindReceipt ==
    /\ At("scan", "receipt")
    /\ LET n == ops["scan"].n
           runs == /\ session.att[n].by = "none" /\ session.att[n].status = "dispatching"
                   /\ ~session.att[n].bound IN
       /\ Change(IF ~run[n].receipt THEN session
                 ELSE [session EXCEPT
                        !.att[n] = [session.att[n] EXCEPT !.bound = TRUE,
                                      !.status = IF runs THEN "running" ELSE session.att[n].status],
                        !.status = IF runs /\ session.status # "cancelling"
                                   THEN "running" ELSE session.status])
       /\ ops' = [ops EXCEPT !["scan"] = [ops["scan"] EXCEPT
            !.bound = ops["scan"].bound \/ run[n].receipt,
            !.seen = "none",
            !.at = CASE ops["scan"].seen = "planned" /\ ~explicit -> "claim"
                     [] ops["scan"].seen \in {"planned", "cancelling"} /\ explicit -> "end"
                     [] OTHER -> "checkRecovery"]]
    /\ UNCHANGED <<explicit, run, recovery, moved, escalation, manager, aborted>>

CheckRecovery(o) ==
    /\ At(o, "checkRecovery")
    /\ LET n == ops[o].n IN
       Go(o, CASE RecoveryThere(n) -> "adoptRecovery"
               [] ~RecoveryThere(n) /\ o = "scan" /\ ~ops[o].bound ->
                     IF Dispatching(n) THEN "end" ELSE "missing"
               [] OTHER -> "checkResult")
    /\ UNCHANGED <<explicit, run, recovery, moved, session, escalation, manager, aborted>>

CheckResult(o) ==
    /\ At(o, "checkResult")
    /\ Go(o, CASE ResultThere(ops[o].n) -> "adoptResult"
               [] ~ResultThere(ops[o].n) /\ o = "scan" /\ run[ops[o].n].mailbox # "none" -> "mailbox"
               [] ~ResultThere(ops[o].n) /\ o = "scan" /\ run[ops[o].n].mailbox = "none" -> "missing"
               [] OTHER -> "end")
    /\ UNCHANGED <<explicit, run, recovery, moved, session, escalation, manager, aborted>>

\* The mailbox names the child; it is read for ever, whether its supervisor lives or not.
ReadMailbox ==
    /\ At("scan", "mailbox")
    /\ LET n == ops["scan"].n
           stuck == run[n].mailbox = "stuck" IN
       /\ Change(IF Adopted(n) THEN session
                 ELSE [session EXCEPT
                        !.att[n].kid = run[n].mailbox # "starting",
                        !.status = IF /\ session.current = n /\ Active(session)
                                      /\ session.status # "cancelling"
                                   THEN "running" ELSE session.status])
       /\ escalation' = [escalation EXCEPT ![n] =
              IF run[n].mailbox = "child" /\ ops["scan"].cancelling /\ @ = "none"
              THEN "term" ELSE @]
       /\ Go("scan", IF stuck THEN "fail" ELSE "end")
    /\ UNCHANGED <<explicit, run, recovery, moved, manager, aborted>>

\* #reconcileMissingAttempt, once the attempt is old enough.  A mailbox that was read names
\* the child, and stays: without one there is no child to look for.
TooYoung ==
    /\ At("scan", "missing")
    /\ Go("scan", "end")
    /\ UNCHANGED <<explicit, run, recovery, moved, session, escalation, manager, aborted>>

ReconcileMissing ==
    /\ At("scan", "missing")
    /\ Go("scan", IF ~ops["scan"].bound \/ run[ops["scan"].n].sup = "down"
                  THEN "fail" ELSE "end")
    /\ UNCHANGED <<explicit, run, recovery, moved, session, escalation, manager, aborted>>

\* #recordTerminationFailure: the worker needs attention, and has no result.
RecordTerminationFailure ==
    /\ At("scan", "fail")
    /\ LET n == ops["scan"].n IN
       Change(IF session.current # n \/ Adopted(n) THEN session
              ELSE [session EXCEPT !.status = "needs_attention",
                                   !.att[n].status = "termination_failed"])
    /\ Go("scan", "end")
    /\ UNCHANGED <<explicit, run, recovery, moved, escalation, manager, aborted>>

\* terminalResultForBinding(..., { reconcile: true }).
Reconcile ==
    /\ explicit /\ At("binding", "idle") /\ session.current > 0 /\ ~Adopted(session.current)
    /\ ops' = [ops EXCEPT !["binding"] = [Idle EXCEPT !.at = "checkRecovery", !.n = session.current]]
    /\ UNCHANGED <<explicit, run, recovery, moved, session, escalation, manager, aborted>>

----------------------------------------------------------------------------
(* Adoption of a result: #ingestResult and #writeRecoveryResult. *)

\* The completion of the attempt is queued, unless it is known.
Adopt(n, status, by) ==
    LET known == \/ n \in session.completed \/ session.inFlight = n
                 \/ \E i \in 1..Len(session.queue) : session.queue[i] = n IN
    [session EXCEPT
        !.att[n] = [session.att[n] EXCEPT !.by = by, !.status = status,
                                          !.kid = session.att[n].kid \/ by = "primary"],
        !.status = IF session.current = n THEN status ELSE @,
        !.queue = IF ~known /\ session.current = n THEN Append(@, n) ELSE @]

\* Mistake: the cancellation is not looked at.
AdoptResultAnyway(o) ==
    /\ At(o, "adoptResult")
    /\ LET n == ops[o].n IN
       /\ Go(o, "end")
       /\ Change(IF Adopted(n) THEN session ELSE Adopt(n, run[n].result, "primary"))
    /\ UNCHANGED <<explicit, run, recovery, moved, escalation, manager, aborted>>

\* What is not a cancellation is refused once cancellation was asked for, and a result of a
\* supervisor that the attempt is not bound to is refused as well.
AdoptResult(o) ==
    /\ At(o, "adoptResult")
    /\ LET n == ops[o].n
           refused == \/ ~session.att[n].bound
                      \/ run[n].result # "cancelled" /\ run[n].cancel IN
       IF Adopted(n) \/ ~ResultThere(n)
       THEN Go(o, "end") /\ UNCHANGED session
       ELSE IF refused
       THEN Go(o, "quarantine") /\ UNCHANGED session
       ELSE Go(o, "end") /\ Change(Adopt(n, run[n].result, "primary"))
    /\ UNCHANGED <<explicit, run, recovery, moved, escalation, manager, aborted>>

Quarantine(o) ==
    /\ At(o, "quarantine")
    /\ moved' = moved \cup {<<ops[o].n, "result">>}
    /\ Go(o, "writeLostAnyway")
    /\ UNCHANGED <<explicit, run, recovery, session, escalation, manager, aborted>>

\* The manager's own result; one that lost a result it refused may write it although the
\* supervisor's path is taken.
WriteRecovery(o) ==
    /\ \E step \in {"writeCancelled", "writeFailed", "writeFailedThrow", "writeLostAnyway"} :
          At(o, step)
    /\ LET n == ops[o].n
           status == CASE ops[o].at = "writeCancelled" -> "cancelled"
                       [] ops[o].at = "writeLostAnyway" -> "lost"
                       [] OTHER -> "failed" IN
       recovery' = [recovery EXCEPT ![n] =
           IF \/ Adopted(n) \/ recovery[n] # "none"
              \/ ops[o].at # "writeLostAnyway" /\ ResultThere(n)
           THEN @ ELSE status]
    /\ Go(o, IF \/ o = "launch" /\ ops[o].at = "writeCancelled"
                \/ ops[o].at = "writeFailedThrow"
             THEN "adoptThrow" ELSE "adoptRecovery")
    /\ UNCHANGED <<explicit, run, moved, session, escalation, manager, aborted>>

\* The supervisor's result, where there is one too, is moved away by a scan and by a
\* reconciliation.
AdoptRecovery(o) ==
    /\ At(o, "adoptRecovery") \/ At(o, "adoptThrow")
    /\ LET n == ops[o].n IN
       /\ Change(IF Adopted(n) \/ ~RecoveryThere(n) THEN session
                 ELSE Adopt(n, recovery[n], "recovery"))
       /\ moved' = IF o # "launch" /\ ResultThere(n) THEN moved \cup {<<n, "result">>} ELSE moved
    /\ Go(o, IF ops[o].at = "adoptThrow" THEN "thrown" ELSE "end")
    /\ UNCHANGED <<explicit, run, recovery, escalation, manager, aborted>>

\* A scan at attachment also looks for what came after an adoption.
Late == {f \in Attempt \X {"result", "recovery"} :
            \/ f[2] = "result" /\ session.att[f[1]].by = "recovery" /\ ResultThere(f[1])
            \/ f[2] = "recovery" /\ session.att[f[1]].by = "primary" /\ RecoveryThere(f[1])}

QuarantineLate ==
    /\ At("scan", "end") /\ ops["scan"].full /\ Late # {}
    /\ moved' = moved \cup Late
    /\ UNCHANGED <<explicit, run, recovery, session, ops, escalation, manager, aborted>>

----------------------------------------------------------------------------
(* Cancellation. *)

Cancel ==
    /\ manager.attached /\ session.current > 0 /\ Active(session)
    /\ LET n == session.current IN
       /\ \E b \in A!Cancelled(run[n]) : run' = [run EXCEPT ![n] = b]
       /\ escalation' = [escalation EXCEPT ![n] =
              IF session.att[n].kid /\ run[n].child = "alive" /\ @ = "none" THEN "term" ELSE @]
    /\ Change([session EXCEPT !.status = "cancelling"])
    /\ UNCHANGED <<explicit, recovery, moved, ops, manager, aborted>>

\* cancelUnlaunchedByLaunchKey: fences an attempt nobody has claimed.
CancelUnlaunched ==
    /\ explicit /\ At("binding", "idle") /\ session.status \notin Terminal \cup {"none"}
    /\ \/ /\ session.current = 0
          /\ Change([session EXCEPT !.status = "cancelled"])
          /\ UNCHANGED ops
       \/ /\ session.current > 0
          /\ session.att[session.current].status \in {"planned", "cancelling"}
          /\ Change([session EXCEPT !.status = "cancelling",
                                    !.att[session.current].status = "cancelling"])
          /\ ops' = [ops EXCEPT !["binding"] =
                [Idle EXCEPT !.at = "writeCancelled", !.n = session.current]]
    /\ UNCHANGED <<explicit, run, recovery, moved, escalation, manager, aborted>>

\* A signal to the child whose identity is known, and a second one if it survives.
Escalate(n) ==
    /\ manager.attached /\ escalation[n] # "none"
    /\ LET kills == session.status = "cancelling" /\ session.current = n /\ run[n].child = "alive" IN
       /\ \/ /\ kills
             /\ run' = [run EXCEPT ![n].child = "gone"]
          \/ UNCHANGED run /\ (~kills \/ escalation[n] = "term")
       /\ escalation' = [escalation EXCEPT ![n] = IF kills /\ @ = "term" THEN "kill" ELSE "none"]
    /\ UNCHANGED <<explicit, recovery, moved, session, ops, manager, aborted>>

----------------------------------------------------------------------------
(* Completions: what is taken from the queue is in flight until the        *)
(* session has settled.  The operations on them wait for each other.       *)

TakeNext(s) == s.inFlight = 0 /\ s.queue # << >>

Taken(s) == IF TakeNext(s) THEN [s EXCEPT !.inFlight = Head(s.queue), !.queue = Tail(s.queue)]
                           ELSE s
Sending(s) == IF TakeNext(s) THEN Head(s.queue) ELSE 0

\* The scan's last steps: the next completion, and the timer as the session asks for it.
EndScan ==
    /\ At("scan", "end") /\ ~(ops["scan"].full /\ Late # {}) /\ manager.sending = 0
    /\ IF manager.delivered = 0 /\ TakeNext(session)
       THEN /\ Change(Taken(session))
            /\ manager' = [manager EXCEPT !.sending = Sending(session)]
            /\ Go("scan", "sent")
       ELSE /\ manager' = [manager EXCEPT !.timer = Active(session)]
            /\ Over("scan")
            /\ UNCHANGED session
    /\ UNCHANGED <<explicit, run, recovery, moved, escalation, aborted>>

\* #dispatchCompletion; the scan that waits for it goes on, or fails with it.
Send ==
    /\ manager.attached /\ manager.sending # 0
    /\ LET scans == ops["scan"].at = "sent" IN
       /\ manager' = [manager EXCEPT !.delivered = manager.sending, !.sending = 0,
                                     !.timer = IF scans THEN Active(session) ELSE @]
       /\ IF scans THEN Over("scan") ELSE UNCHANGED ops
    /\ UNCHANGED <<explicit, run, recovery, moved, session, escalation, aborted>>

SendFails ==
    /\ manager.attached /\ manager.sending # 0
    /\ manager' = [manager EXCEPT !.sending = 0]
    /\ Change([session EXCEPT !.inFlight = 0, !.queue = <<manager.sending>> \o @])
    /\ IF ops["scan"].at = "sent" THEN Over("scan") ELSE UNCHANGED ops
    /\ UNCHANGED <<explicit, run, recovery, moved, escalation, aborted>>

\* onAgentSettled: the session has taken notice.
AgentSettled ==
    /\ manager.attached /\ manager.delivered # 0 /\ manager.sending = 0
    /\ LET done == IF session.inFlight # manager.delivered THEN session
                   ELSE [session EXCEPT !.inFlight = 0,
                                        !.completed = @ \cup {manager.delivered}] IN
       /\ Change(Taken(done))
       /\ manager' = [manager EXCEPT !.delivered = 0, !.sending = Sending(done)]
    /\ UNCHANGED <<explicit, run, recovery, moved, ops, escalation, aborted>>

\* launch and retry look at the timer when they return; nobody else does.
EndOp(o) ==
    /\ o # "scan" /\ At(o, "end")
    /\ Over(o)
    /\ manager' = [manager EXCEPT !.timer = IF o = "launch" THEN Active(session) ELSE @]
    /\ UNCHANGED <<explicit, run, recovery, moved, session, escalation, aborted>>

----------------------------------------------------------------------------
(* The process of the manager dies, or the session is reloaded. *)

Detach ==
    /\ manager.attached
    /\ manager' = [attached |-> FALSE, timer |-> FALSE, sending |-> 0, delivered |-> 0]
    /\ ops' = [o \in Op |-> Idle]
    /\ escalation' = [n \in Attempt |-> "none"]
    /\ UNCHANGED <<explicit, run, recovery, moved, session, aborted>>

\* Mistake: what was in flight is taken to be known.
AttachForgets ==
    /\ ~manager.attached
    /\ manager' = [manager EXCEPT !.attached = TRUE]
    /\ Change([session EXCEPT !.inFlight = 0])
    /\ ops' = [ops EXCEPT !["scan"] = StartScan(TRUE)]
    /\ UNCHANGED <<explicit, run, recovery, moved, escalation, aborted>>

\* #claimOwnership puts what was in flight back in front of the queue; a full scan follows.
Attach ==
    /\ ~manager.attached
    /\ manager' = [manager EXCEPT !.attached = TRUE]
    /\ Change(IF session.inFlight = 0 THEN session
              ELSE [session EXCEPT !.inFlight = 0, !.queue = <<session.inFlight>> \o @])
    /\ ops' = [ops EXCEPT !["scan"] = StartScan(TRUE)]
    /\ UNCHANGED <<explicit, run, recovery, moved, escalation, aborted>>

----------------------------------------------------------------------------
(* Everything outside of the manager.  What the supervisor does after its  *)
(* result was adopted is of no interest.                                   *)

Outside(n) ==
    /\ session.att[n].by # "primary"
    /\ \E b \in A!Progress(run[n]) : b # run[n] /\ run' = [run EXCEPT ![n] = b]
    /\ UNCHANGED <<explicit, recovery, moved, session, ops, escalation, manager, aborted>>

OpStep(o) ==
    \/ ReserveFirst(o) \/ ClaimDispatch(o) \/ Spawn(o) \/ WriteReceipt(o)
    \/ BindSupervisor(o) \/ CheckRecovery(o) \/ CheckResult(o) \/ AdoptResult(o)
    \/ Quarantine(o) \/ WriteRecovery(o) \/ AdoptRecovery(o) \/ EndOp(o)

ScanStep ==
    \/ TimerScan \/ BindReceipt \/ ReadMailbox \/ TooYoung \/ ReconcileMissing
    \/ RecordTerminationFailure
    \/ QuarantineLate \/ EndScan

ManagerStep ==
    \/ \E o \in Op : OpStep(o)
    \/ ScanStep \/ ReserveRetry \/ Send
    \/ \E n \in Attempt : Escalate(n)

\* What is asked of the manager.
Asked == Launch \/ AuthorizeRetry \/ Reconcile \/ Cancel \/ CancelUnlaunched

Fails == \/ \E o \in Op : Abort(o) \/ DispatchFails(o) \/ NoIdentity(o)
         \/ SendFails \/ Detach

Next ==
    \/ ManagerStep \/ Asked \/ Fails \/ AgentSettled \/ Attach
    \/ \E n \in Attempt : Outside(n)

Spec == Init /\ [][Next]_managerVars

\* The operations go on, a manager that has died is started again, and attempts grow old.
\* What a caller asks for and what the processes do is up to them.
FairSpec ==
    /\ Spec
    /\ \A o \in Op : WF_managerVars(OpStep(o))
    /\ WF_managerVars(ScanStep) /\ WF_managerVars(Send) /\ WF_managerVars(Attach)
    /\ SF_managerVars(ReconcileMissing)

----------------------------------------------------------------------------
(* Properties. *)

\* A cancellation that was asked for before a result is adopted decides: no other result of
\* the attempt's supervisor is adopted, whenever it was written and whoever adopts it.
CancelWins ==
    \A n \in Attempt :
        session.att[n].by = "primary" /\ run[n].result # "cancelled" => ~run[n].cancel

\* An attempt whose result was adopted, by the scan, a launch, or a reconciliation, has no
\* child that runs, so that the next attempt has the worktree to itself.  The exception is
\* an attempt whose launch the caller aborted, when its supervisor was only told to stop.
AdoptedIsExtinct ==
    \A n \in Attempt : Adopted(n) /\ run[n].child = "alive" => n \in aborted

\* Every adopted attempt has its completion, whatever dies: it is queued, or in flight, or
\* the session has taken notice, and just one of these.  What is in flight of a session that
\* is attached is on its way, so that the queue behind it does not wait for nothing.
CompletionsAreKept ==
    /\ \A n \in Attempt :
          LET queued == Cardinality({i \in 1..Len(session.queue) : session.queue[i] = n})
              flying == IF session.inFlight = n THEN 1 ELSE 0
              known == IF n \in session.completed THEN 1 ELSE 0 IN
          queued + flying + known = IF Adopted(n) THEN 1 ELSE 0
    /\ manager.attached => session.inFlight \in {0, manager.sending, manager.delivered}

\* "Reconnect [...] marks proven-dead attempts lost" (spec/owned-worker-runtime/spec.md:69):
\* an attempt whose supervisor and child are dead, the child known by the mailbox, and which
\* has no result, does not stay as it is for a manager that scans for ever.
ProvenDead(n) ==
    /\ session.current = n /\ session.att[n].bound /\ Active(session)
    /\ run[n].sup = "down" /\ run[n].child = "gone" /\ run[n].result = "none"
    /\ run[n].mailbox = "child"
Marked(n) == Adopted(n) \/ session.att[n].status = "termination_failed"

DeadAttemptsAreMarked ==
    <>[](manager.attached /\ manager.timer) => \A n \in Attempt : ProvenDead(n) ~> Marked(n)
=============================================================================
