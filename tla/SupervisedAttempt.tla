-------------------------- MODULE SupervisedAttempt --------------------------
(***************************************************************************)
(* One attempt under its supervisor, and what it is to the manager.        *)
(***************************************************************************)
CONSTANT MaxRepairs
VARIABLES at, memory, timers, child, out, files, missed

Sup == INSTANCE WorkerSupervisor WITH mem <- memory

\* A supervisor does what its manager expects of an attempt, and its result tells what it saw.
ImplementsAttempt == Sup!ImplementsAttempt /\ []Sup!ResultIsJustified
=============================================================================
