---------------------------- MODULE WorkerAttempt ----------------------------
(***************************************************************************)
(* What one attempt of a worker looks like to the manager that launched    *)
(* it: a detached supervisor, the Pi child that it runs, and the files     *)
(* they leave.  The supervisor names itself in a launch receipt and its    *)
(* child in a mailbox, and when the child has exited it writes one result, *)
(* which never changes.  Either process may die; a result that was not     *)
(* written then never will be.                                             *)
(*                                                                         *)
(* An attempt is a record, and what may happen to it next a set of         *)
(* records, so that the manager can keep one per attempt.  WorkerSupervisor*)
(* implements this module, and WorkerManager is built upon it.             *)
(***************************************************************************)

CONSTANT Statuses       \* of the results: "cancelled" and others

Attempts ==
    [sup : {"none", "up", "down"},              \* the supervisor's process
     child : {"none", "alive", "gone"},         \* the Pi child's process
     receipt : BOOLEAN,                         \* launch-receipt.json
     mailbox : {"none", "starting", "child", "stuck"}, \* mailbox.json: no child yet, the
                                                \* child is named, it could not be killed
     cancel : BOOLEAN,                          \* cancel.json, written by the manager
     result : {"none"} \cup Statuses]           \* result.json

Unlaunched == [sup |-> "none", child |-> "none", receipt |-> FALSE, mailbox |-> "none",
               cancel |-> FALSE, result |-> "none"]

\* The one next state b, when c.
When(c, b) == IF c THEN {b} ELSE {}

\* The manager spawns the supervisor, publishes a receipt and asks for cancellation.
Spawned(a) == When(a.sup = "none", [a EXCEPT !.sup = "up"])
Receipted(a) == When(a.sup # "none", [a EXCEPT !.receipt = TRUE])
Cancelled(a) == {[a EXCEPT !.cancel = TRUE]}

\* The supervisor.  It may be told to stop by a signal as well, so that a result may be
\* cancelled without a cancellation file.
Starts(a) == When(a.sup = "up" /\ a.receipt /\ a.mailbox = "none",
                  [a EXCEPT !.mailbox = "starting"])
Runs(a) == When(a.sup = "up" /\ a.mailbox = "starting" /\ a.child = "none",
                [a EXCEPT !.child = "alive"])
Announces(a) == When(a.sup = "up" /\ a.child # "none" /\ a.result = "none",
                     [a EXCEPT !.mailbox = "child"])
CannotKill(a) == When(a.sup = "up" /\ a.mailbox \in {"child", "stuck"} /\ a.child = "alive",
                      [a EXCEPT !.mailbox = "stuck"])
Publishes(a) == IF a.sup = "up" /\ a.child = "gone" /\ a.mailbox \in {"child", "stuck"} /\ a.result = "none"
                THEN {[a EXCEPT !.result = s] : s \in Statuses} ELSE {}
Ends(a) == When(a.sup = "up", [a EXCEPT !.sup = "down"])

\* The child exits by itself or is killed.
ChildExits(a) == When(a.child = "alive", [a EXCEPT !.child = "gone"])

Progress(a) ==
    UNION {When(a.sup = "up", [a EXCEPT !.receipt = TRUE]),
           Starts(a), Runs(a), Announces(a), CannotKill(a), Publishes(a), Ends(a), ChildExits(a)}

----------------------------------------------------------------------------
VARIABLE attempt

Init == attempt = Unlaunched
Next == attempt' \in Spawned(attempt) \cup Cancelled(attempt) \cup Progress(attempt)
Spec == Init /\ [][Next]_attempt
=============================================================================
