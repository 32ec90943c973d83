-------------------------- MODULE MCCommandRunner --------------------------
EXTENDS CommandRunner, TLC

\* Requests and processes are interchangeable.
Symmetric == Permutations(Requests) \cup Permutations(Procs)
=============================================================================
