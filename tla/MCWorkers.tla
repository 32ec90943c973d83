----------------------------- MODULE MCWorkers ------------------------------
(* Two workers: one of a run of the DAG, with one attempt and MaxFaults    *)
(* failures and deaths, and one of the session, which is retried once and  *)
(* whose second attempt is not cancelled, with one.                        *)
EXTENDS WorkerManager

CONSTANT MaxFaults      \* bound: failures, aborts and deaths of the manager

VARIABLE faults         \* how many there were

MCInit == Init /\ faults = 0

MCFails == /\ faults < (IF explicit THEN MaxFaults ELSE 1)
           /\ Fails
           /\ faults' = faults + 1

MCAsked == Launch \/ AuthorizeRetry \/ Reconcile \/ CancelUnlaunched
           \/ (session.current = 1 /\ Cancel)

MCNext ==
    \/ MCFails
    \/ /\ \/ ManagerStep \/ MCAsked \/ AgentSettled \/ Attach
          \/ \E n \in Attempt : Outside(n)
       /\ UNCHANGED faults

MCSpec == MCInit /\ [][MCNext]_<<managerVars, faults>>

\* The processes and the session's record of an attempt that was retried, and whose child has
\* exited by its own account, play no part any more.
Past(n) == n < session.current /\ session.att[n].by = "primary"
View == <<explicit, [n \in Attempt |-> IF Past(n) THEN "past" ELSE run[n]], recovery, moved,
          [session EXCEPT !.att = [n \in Attempt |->
              IF Past(n) THEN "past" ELSE session.att[n]]],
          ops, escalation, manager, aborted, faults>>
=============================================================================
