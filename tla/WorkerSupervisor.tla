--------------------------- MODULE WorkerSupervisor ---------------------------
(***************************************************************************)
(* worker-runtime/supervisor.mjs: the detached process that runs one Pi    *)
(* child, drives it over RPC until it has reported, takes it down and      *)
(* writes the result of the attempt.                                       *)
(*                                                                         *)
(* The events of the child's output are handled in their order; timers,    *)
(* the poll of the cancellation file, signals and the exit of the child    *)
(* come in between at any time.  The exit may be seen before the last      *)
(* output is.  Diagnostics, usage and heartbeats are left out.             *)
(***************************************************************************)
EXTENDS Naturals, Sequences

CONSTANT MaxRepairs          \* reportRepairAttempts of the configuration: 0 to 2

VARIABLES at,       \* how far the supervisor is
          mem,      \* its variables
          timers,   \* the timers that are set
          child,    \* the Pi child: its life, its turn and its input
          out,      \* the child's output that is not handled yet
          files,    \* the files of the attempt
          missed    \* the child exited before its exit was listened to

supervisorVars == <<at, mem, timers, child, out, files, missed>>

Reports == {"completed", "needs_attention"}
Records == Reports \cup {"error", "settled"}

TypeOK ==
    /\ at \in {"none", "receipt", "mailbox", "spawn", "bind", "listen", "listening", "finalizing",
               "closing", "over", "dead"}
    /\ mem \in [report : Reports \cup {"none"}, repairs : 0..MaxRepairs, cancel : BOOLEAN,
                intent : {"none", "succeeded", "needs_attention", "cancelled"},
                broken : BOOLEAN, forced : BOOLEAN]
    /\ timers \subseteq {"force", "kill"}
    /\ child \in [life : {"none", "alive", "clean", "unclean"},
                  turn : {"idle", "busy", "reported"}, stdin : {"open", "prompt", "closed"}]
    /\ out \in Seq(Records)
    /\ files \in [receipt : BOOLEAN, mailbox : {"none", "starting", "child", "stuck"},
                  cancel : BOOLEAN, result : {"none", "succeeded", "needs_attention", "failed", "cancelled"},
                  report : Reports \cup {"none"}]
    /\ missed \in BOOLEAN

Init ==
    /\ at = "none"
    /\ mem = [report |-> "none", repairs |-> 0, cancel |-> FALSE, intent |-> "none",
              broken |-> FALSE, forced |-> FALSE]
    /\ timers = {}
    /\ child = [life |-> "none", turn |-> "idle", stdin |-> "open"]
    /\ out = << >>
    /\ files = [receipt |-> FALSE, mailbox |-> "none", cancel |-> FALSE, result |-> "none",
                report |-> "none"]
    /\ missed = FALSE

Exited == child.life \in {"clean", "unclean"}
Up == at \notin {"none", "over", "dead"}

----------------------------------------------------------------------------
(* Start. *)

\* The manager spawns the supervisor.
Start ==
    /\ at = "none"
    /\ at' = "receipt"
    /\ UNCHANGED <<mem, timers, child, out, files, missed>>

WriteReceipt ==
    /\ at = "receipt"
    /\ at' = "mailbox"
    /\ files' = [files EXCEPT !.receipt = TRUE]
    /\ UNCHANGED <<mem, timers, child, out, missed>>

WriteMailbox ==
    /\ at = "mailbox"
    /\ at' = "spawn"
    /\ files' = [files EXCEPT !.mailbox = "starting"]
    /\ UNCHANGED <<mem, timers, child, out, missed>>

SpawnChild ==
    /\ at = "spawn"
    /\ at' = "bind"
    /\ child' = [child EXCEPT !.life = "alive"]
    /\ UNCHANGED <<mem, timers, out, files, missed>>

\* The identity of the child is read and written to the mailbox ...
BindChild ==
    /\ at = "bind"
    /\ at' = "listen"
    /\ files' = [files EXCEPT !.mailbox = "child"]
    /\ UNCHANGED <<mem, timers, child, out, missed>>

\* ... before the handlers are attached: the exit of a child that is gone by now is
\* never seen.  Then the first prompt is sent.
Listen ==
    /\ at = "listen"
    /\ at' = "listening"
    /\ missed' = Exited
    /\ child' = [child EXCEPT !.stdin = IF Exited THEN @ ELSE "prompt"]
    /\ UNCHANGED <<mem, timers, out, files>>

----------------------------------------------------------------------------
(* The records of the child, one after the other. *)

Handle(record) ==
    /\ at \in {"listening", "finalizing"}
    /\ out # << >> /\ Head(out) = record
    /\ out' = Tail(out)
    /\ UNCHANGED <<at, files, missed>>

HandleReport ==
    /\ \E r \in Reports : Handle(r) /\ mem' = [mem EXCEPT !.report = r]
    /\ UNCHANGED <<timers, child>>

\* A model error, a failed RPC command or unreadable output.
HandleError ==
    /\ Handle("error")
    /\ mem' = [mem EXCEPT !.broken = TRUE]
    /\ UNCHANGED <<timers, child>>

\* closeChildAfterSettle: the input is closed and the child has 2 seconds.
Close ==
    /\ child' = [child EXCEPT !.stdin = IF Exited THEN @ ELSE "closed"]
    /\ timers' = IF Exited THEN timers ELSE timers \cup {"force"}

\* handleSettled.
HandleSettled ==
    /\ Handle("settled")
    /\ \/ /\ ~mem.cancel /\ mem.report = "none" /\ mem.repairs < MaxRepairs
          /\ mem' = [mem EXCEPT !.repairs = @ + 1]
          /\ child' = [child EXCEPT !.stdin = IF Exited THEN @ ELSE "prompt"]
          /\ UNCHANGED timers
       \/ /\ mem.cancel \/ mem.report # "none" \/ mem.repairs >= MaxRepairs
          /\ mem' = [mem EXCEPT !.intent = CASE mem.cancel -> "cancelled"
                                             [] ~mem.cancel /\ mem.report = "completed" -> "succeeded"
                                             [] OTHER -> "needs_attention"]
          /\ Close

----------------------------------------------------------------------------
(* Cancellation and force. *)

\* requestCancellation: asked by the cancellation file, at a poll, or by a signal.
RequestCancellation ==
    /\ at \in {"listening", "finalizing"} /\ ~mem.cancel
    /\ mem' = [mem EXCEPT !.cancel = TRUE]
    /\ timers' = IF at = "listening" THEN timers \cup {"force"} ELSE timers
    /\ UNCHANGED <<at, child, out, files, missed>>

PollCancellation == files.cancel /\ RequestCancellation

\* SIGTERM before its handler is there ends the supervisor.
SignalSupervisor ==
    \/ RequestCancellation
    \/ /\ at \in {"receipt", "spawn", "bind", "listen"}
       /\ at' = "dead"
       /\ timers' = {}
       /\ UNCHANGED <<mem, child, out, files, missed>>

\* Mistake: a child that survives SIGTERM is left alone.
TerminateOnce ==
    /\ at = "listening" /\ "force" \in timers
    /\ IF Exited
       THEN timers' = timers \ {"force"} /\ UNCHANGED mem
       ELSE mem' = [mem EXCEPT !.forced = TRUE] /\ timers' = timers \ {"force"}
    /\ UNCHANGED <<at, child, out, files, missed>>

\* terminateChild: the flag that the teardown was forced is set before the signal is sent,
\* and the signal may not be delivered.
Terminate ==
    /\ at = "listening" /\ "force" \in timers
    /\ IF Exited
       THEN timers' = timers \ {"force"} /\ UNCHANGED <<mem, files>>
       ELSE /\ mem' = [mem EXCEPT !.forced = TRUE]
            /\ timers' = (timers \ {"force"}) \cup {"kill"}
            /\ \/ UNCHANGED files
               \/ files' = [files EXCEPT !.mailbox = "stuck"]
    /\ UNCHANGED <<at, child, out, missed>>

Kill ==
    /\ at = "listening" /\ "kill" \in timers
    /\ timers' = timers \ {"kill"}
    /\ IF Exited
       THEN UNCHANGED <<child, files>>
       ELSE \/ child' = [child EXCEPT !.life = "unclean"] /\ UNCHANGED files
            \/ files' = [files EXCEPT !.mailbox = "stuck"] /\ UNCHANGED child
    /\ UNCHANGED <<at, mem, out, missed>>

----------------------------------------------------------------------------
(* The end. *)

\* Mistake: the turn that has settled is the end, not the exit of the child.
FinalizeSettled ==
    /\ at = "listening" /\ ((Exited /\ ~missed) \/ mem.intent # "none")
    /\ at' = "finalizing"
    /\ timers' = {}
    /\ UNCHANGED <<mem, child, out, files, missed>>

\* finalize, called when the exit is seen: the records queued by then are handled, those
\* that arrive later no longer matter.
Finalize ==
    /\ at = "listening" /\ Exited /\ ~missed
    /\ at' = "finalizing"
    /\ timers' = {}
    /\ UNCHANGED <<mem, child, out, files, missed>>

\* Mistake: what the last turn came to is looked at before what went wrong.
TerminalStatusIntentFirst ==
    CASE mem.cancel -> "cancelled"
      [] ~mem.cancel /\ mem.intent # "none" -> mem.intent
      [] OTHER -> "failed"

\* Cancelled, failed, or what the last settled turn came to.
TerminalStatus ==
    CASE mem.cancel -> "cancelled"
      [] /\ ~mem.cancel
         /\ \/ mem.broken \/ mem.forced \/ child.life = "unclean"
            \/ mem.intent = "none"
         -> "failed"
      [] OTHER -> mem.intent

\* The result is written and never changed, or cannot be written.
WriteResult ==
    /\ at = "finalizing"
    /\ at' = "closing"
    /\ \/ files' = [files EXCEPT
            !.result = IF mem.report = "none" /\ TerminalStatus = "succeeded"
                       THEN "needs_attention" ELSE TerminalStatus,
            !.report = mem.report]
       \/ UNCHANGED files
    /\ UNCHANGED <<mem, timers, child, out, missed>>

\* The mailbox says so, and the process ends.
CloseMailbox ==
    /\ at = "closing"
    /\ at' = "over"
    /\ UNCHANGED <<mem, timers, child, out, files, missed>>

SupervisorDies ==
    /\ Up
    /\ at' = "dead"
    /\ timers' = {}
    /\ UNCHANGED <<mem, child, out, files, missed>>

----------------------------------------------------------------------------
(* The Pi child with its report tool, and the manager's cancellation. *)

Says(record) == out' = Append(out, record)

TakePrompt ==
    /\ child.life = "alive" /\ child.turn = "idle" /\ child.stdin = "prompt"
    /\ child' = [child EXCEPT !.turn = "busy", !.stdin = "open"]
    /\ UNCHANGED <<at, mem, timers, out, files, missed>>

\* subagent_report ends the turn.
ChildReports ==
    /\ child.life = "alive" /\ child.turn = "busy"
    /\ \E r \in Reports : Says(r)
    /\ child' = [child EXCEPT !.turn = "reported"]
    /\ UNCHANGED <<at, mem, timers, files, missed>>

\* An error of the model; Pi may try again in the same turn.
ChildErrs ==
    /\ child.life = "alive" /\ child.turn = "busy"
    /\ ~mem.broken /\ \A i \in 1..Len(out) : out[i] # "error"
    /\ Says("error")
    /\ UNCHANGED <<at, mem, timers, child, files, missed>>

ChildSettles ==
    /\ child.life = "alive" /\ child.turn \in {"busy", "reported"}
    /\ Says("settled")
    /\ child' = [child EXCEPT !.turn = "idle"]
    /\ UNCHANGED <<at, mem, timers, files, missed>>

\* It exits when its input is closed, but it may exit, with 0 or not, at any time.
ChildExits ==
    /\ child.life = "alive"
    /\ \E life \in {"clean", "unclean"} : child' = [child EXCEPT !.life = life]
    /\ UNCHANGED <<at, mem, timers, out, files, missed>>

CancelAttempt ==
    /\ ~files.cancel
    /\ files' = [files EXCEPT !.cancel = TRUE]
    /\ UNCHANGED <<at, mem, timers, child, out, missed>>

----------------------------------------------------------------------------
SupervisorStep ==
    \/ WriteReceipt \/ WriteMailbox \/ SpawnChild \/ BindChild \/ Listen
    \/ HandleReport \/ HandleError \/ HandleSettled
    \/ PollCancellation \/ Terminate \/ Kill \/ Finalize \/ WriteResult
    \/ CloseMailbox

ChildStep == TakePrompt \/ ChildReports \/ ChildErrs \/ ChildSettles \/ ChildExits

Next == Start \/ SupervisorStep \/ ChildStep \/ SignalSupervisor \/ SupervisorDies \/ CancelAttempt

Spec == Init /\ [][Next]_supervisorVars

\* The supervisor's own events happen; the child may work for ever.
FairSpec == Spec /\ WF_supervisorVars(Start) /\ WF_supervisorVars(SupervisorStep)

----------------------------------------------------------------------------
(* Properties. *)

\* In whatever order reports, settled turns, errors, cancellations, forced teardown and the
\* exit arrive, the result is one that the manager's validateTerminalResult accepts, and "a
\* captured completed claim never overrides observed failure": nothing went wrong with a
\* child that has succeeded or needs attention, and its own last report says so.
ResultIsJustified ==
    /\ files.result = "succeeded" => files.report = "completed"
    /\ files.result = "needs_attention" => files.report \in {"none", "needs_attention"}
    /\ files.result \in {"succeeded", "needs_attention"} =>
          child.life = "clean" /\ ~mem.broken /\ ~mem.forced /\ ~mem.cancel
    /\ files.result = "cancelled" => mem.cancel

\* An attempt as its manager sees it.
Attempt == INSTANCE WorkerAttempt WITH attempt <-
    [sup |-> IF at = "none" THEN "none" ELSE IF Up THEN "up" ELSE "down",
     child |-> IF child.life = "none" THEN "none" ELSE IF Exited THEN "gone" ELSE "alive",
     receipt |-> files.receipt, mailbox |-> files.mailbox, cancel |-> files.cancel,
     result |-> files.result],
    Statuses <- {"succeeded", "needs_attention", "failed", "cancelled"}

ImplementsAttempt == Attempt!Spec

\* A cancelled attempt comes to an end: its child is gone, with a result, or its supervisor
\* is; unless a signal could not be delivered, or the exit of the child was missed.
CancellationEnds ==
    files.cancel /\ Up ~> \/ ~Up \/ missed \/ files.mailbox = "stuck"
=============================================================================
