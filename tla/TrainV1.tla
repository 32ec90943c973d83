------------------------------- MODULE TrainV1 -------------------------------
(***************************************************************************)
(* The train of a V1 run as the target branch sees it, with variables of   *)
(* its own, and what it promises of the branch.                            *)
(***************************************************************************)
EXTENDS Sequences

CONSTANTS Order, Elsewhere, NoItem
VARIABLES want, fence, member, entry, attempt, active, lease, slot, prefix, tip, validated,
          merging, landing

trainVars == <<want, fence, member, entry, attempt, active, lease, slot, prefix, tip, validated,
               merging, landing>>

Train == INSTANCE IntegrationV1
  WITH None <- NoItem, Foreign <- Elsewhere, desired <- want, cancel <- fence, item <- member,
       lock <- lease, res <- slot, target <- tip, facts <- validated, call <- landing

\* The records of the train: the states of an effect, an attempt, a lease of the lock, a
\* reservation and a landing that is under way.
Effects == {"none", "intended", "dispatching", "observed", "proven_absent", "reconciled", "failed",
            "ambiguous"}
TrainAttempts ==
  [expected : Seq(Train!Members), compose : Effects, prefix : Effects, final : Effects,
   land : Effects, conflict : BOOLEAN,
   landing : {"not_started", "intended", "observed", "reconciled", "ambiguous", "landed"}]
Leases == [by : Train!Members, state : {"active"}]
Reserved == {"reserved", "active", "release_requested"}
Landings == [item : Train!Members, step : {"merging", "record"},
             seen : {"proven_absent", "applied_exact", "conflict", NoItem}, fresh : BOOLEAN]

\* Each member is in the train once; NoItem is no member and no record of one, and the foreign
\* commit is not made of members.
ASSUME TrainAssumption ==
  /\ Order \in Seq(Train!Members)
  /\ \A k, n \in DOMAIN Order : Order[k] = Order[n] => k = n
  /\ NoItem \notin Train!Members \cup Reserved \cup TrainAttempts \cup Leases \cup Landings
  /\ Elsewhere \notin Seq(Train!Members)

\* The train of V1 lands items one at a time, each once and on top of the accepted ones, and
\* no command of it leads to a snapshot that the audit refuses, or that closes a cancellation
\* and leaves something behind.
TrainKeepsThePromise == Train!ImplementsTargetBranch /\ [](Train!TrainAudit /\ Train!TrainIsQuiet)
=============================================================================
