--------------------------- MODULE MCGitLanding ---------------------------
(***************************************************************************)
(* The operations of V2 on a target branch, for TLC.                       *)
(***************************************************************************)
EXTENDS GitLanding, FiniteSets, TLC

\* Bound: a user or a check has changes in one workspace at a time.
OneIsEdited == Cardinality({i \in Items : work'[i] \in {"edited", "altered"}}) <= 1
LandingSpec == Init /\ [][Next /\ OneIsEdited]_vars

Symmetric == Permutations(Items)
=============================================================================
