---------------------------- MODULE TargetBranch ----------------------------
(***************************************************************************)
(* What the Git driver promises of the target branch: items land on it one *)
(* at a time, each once and on top of the accepted ones, and an operation  *)
(* that is over never moves it again.  GitLanding implements it.           *)
(***************************************************************************)
EXTENDS Sequences

CONSTANTS
  Items,
  Foreign    \* a commit that is not ours

VARIABLES
  commit,    \* the target: the items that have landed on the baseline, or Foreign
  chain,     \* the accepted items, in order
  state,     \* of the operation of each item
  status     \* of the run

vars == <<commit, chain, state, status>>

Init == /\ commit = <<>> /\ chain = <<>>
        /\ state = [i \in Items |-> "none"] /\ status = "active"

Open(i) == /\ status = "active" /\ state[i] = "none"
           /\ \A j \in Items : state[j] # "open"
           /\ state' = [state EXCEPT ![i] = "open"] /\ UNCHANGED <<commit, chain, status>>

Land(i) == /\ state[i] = "open" /\ commit = chain
           /\ commit' = Append(chain, i) /\ UNCHANGED <<chain, state, status>>

Accept(i) == /\ status = "active" /\ state[i] = "open" /\ commit = Append(chain, i)
             /\ chain' = Append(chain, i) /\ state' = [state EXCEPT ![i] = "accepted"]
             /\ UNCHANGED <<commit, status>>

\* Nothing has landed, unless the run is being cancelled.
Close(i) == /\ state[i] = "open" /\ (status = "active" => commit # Append(chain, i))
            /\ state' = [state EXCEPT ![i] = "closed"] /\ UNCHANGED <<commit, chain, status>>

Cancel == status' = "cancelling" /\ UNCHANGED <<commit, chain, state>>

Stray == commit' = Foreign /\ UNCHANGED <<chain, state, status>>

Next == Cancel \/ Stray \/ \E i \in Items : Open(i) \/ Land(i) \/ Accept(i) \/ Close(i)

Spec == Init /\ [][Next]_vars
=============================================================================
