------------------------------- MODULE MCLocks -------------------------------
(***************************************************************************)
(* The three locks and what is done under them: the lock of a worker       *)
(* session alone, the planning store, the project model with its files.    *)
(***************************************************************************)
EXTENDS PlanningStore, ModelStore

CONSTANTS Keepers,    \* bound: the processes that use a store; of others it may hold the dead
          MaxUsers    \* bound: how many processes, dead ones included, use a store at a time

LocksInit == Init /\ PlanInit /\ ModelInit

SessionNext == kind = "session" /\ LockNext /\ UNCHANGED <<planVars, modelVars>>

Users == {p \in Proc : p \in dead \/ pc[p] # "out"}
Few == Users' \subseteq Keepers \cup dead /\ Cardinality(Users') <= MaxUsers

PlanningNext == kind = "plan" /\ PlanNext /\ Few /\ UNCHANGED modelVars
FilesNext == kind = "model" /\ ModelNext /\ Few /\ UNCHANGED planVars

\* What is promised of a store is promised until two processes have been inside at once.
LocksNext ==
    \/ SessionNext
    \/ ~together /\ PlanningNext
    \/ ~met /\ FilesNext

LocksSpec == LocksInit /\ [][LocksNext]_<<lockVars, planVars, modelVars>>

\* The planning store alone, and what becomes of it then.
PlanningSpec == LocksInit /\ [][PlanningNext]_<<lockVars, planVars, modelVars>>

Interchangeable == Permutations(Keepers) \cup Permutations(Proc \ Keepers) \cup Permutations(File)
=============================================================================
