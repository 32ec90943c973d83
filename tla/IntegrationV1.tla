----------------------------- MODULE IntegrationV1 -----------------------------
(***************************************************************************)
(* integration-driver.ts with the integration commands of reducer.ts and   *)
(* the Git operations of git-integration.ts: the train of one repository.  *)
(* Items whose evaluation is over (F8) queue in the order of the plan; the *)
(* head reserves an attempt and the lock, is composed onto the accepted    *)
(* prefix, validated twice, landed on the target branch by a fast-forward  *)
(* and accepted.  The conductor offers each item's next step one at a      *)
(* time; a step ends in one command of the reducer against the revision it *)
(* read, and between the steps the user moves the target, pauses or        *)
(* cancels, and the owner dies.                                            *)
(*                                                                         *)
(* A commit is the sequence of the items it has on top of the baseline.    *)
(* Compositions and landings are rebound to the next owner and validations *)
(* keep theirs (rebindOwnerAuthority), so a new owner goes on where the    *)
(* last one stopped: epochs are left out.  What leads an item to F8 is one *)
(* step (DagRunV1); a check of the target and the command after it are one.*)
(***************************************************************************)
EXTENDS Naturals, SequencesExt

CONSTANTS
  Order,      \* the members of the train, each once, in the order of the plan
  Foreign,    \* a commit that is not ours
  None
VARIABLES
  desired, cancel,   \* of the run, as in DagRunV1
  item,              \* current of each item
  entry,             \* state of its entry in the train, "none" before it is queued
  attempt,           \* its integration attempt: None or a record
  active,            \* the item whose attempt is active
  lock,              \* the lease of the repository: None or [by, state]
  res,               \* state of its F8 reservation, or None
  prefix,            \* the accepted prefix
  target,            \* the world: the commit of the target branch
  facts,             \* durable observations of validations: <<item, phase, verdict>>
  merging,           \* the world: the item whose fast-forward is under way, or None
  call               \* the landing under way: None or [item, step, seen, fresh]

vars == <<desired, cancel, item, entry, attempt, active, lock, res, prefix, target, facts,
          merging, call>>
world == <<target, merging, call>>
queue == <<item, entry, active, lock, res, prefix>>

Members == Range(Order)
Phases == <<"prefix", "final">>
At(i) == CHOOSE k \in DOMAIN Order : Order[k] = i
Earlier(i) == {Order[k] : k \in 1..(At(i) - 1)}
Intended(i) == Append(attempt[i].expected, i)

Init ==
  /\ desired = "running" /\ cancel = "none"
  /\ item = [i \in Members |-> "active"] /\ entry = [i \in Members |-> "none"]
  /\ attempt = [i \in Members |-> None] /\ active = None /\ lock = None
  /\ res = [i \in Members |-> None]
  /\ prefix = <<>> /\ target = <<>> /\ facts = {} /\ merging = None /\ call = None

\* Another command publishes a revision that the landing under way did not read.
Publishes == call' = IF call = None THEN None ELSE [call EXCEPT !.fresh = FALSE]

-----------------------------------------------------------------------------
(* The train.                                                              *)

\* seal_f8_integration_ready: an item is queued once; after a conflict its entry
\* stays invalidated.
Ready(i) ==
  /\ desired = "running" /\ item[i] = "active"
  /\ item' = [item EXCEPT ![i] = "integration_ready"]
  /\ entry' = [entry EXCEPT ![i] =
       IF @ # "none" THEN @ ELSE IF At(i) = Len(prefix) + 1 THEN "eligible" ELSE "waiting"]
  /\ Publishes
  /\ UNCHANGED <<desired, cancel, attempt, active, lock, res, prefix, target, facts, merging>>

\* deriveSlot(): INTEGRATION_NOT_HEAD
IsHead(i) == entry[i] = "eligible" /\ \A j \in Earlier(i) : entry[j] \in {"none", "integrated"}

\* reserve_scheduler_batch and the dispatch of the reservation
Reserve(i) ==
  /\ desired = "running" /\ item[i] = "integration_ready" /\ res[i] = None /\ IsHead(i)
  /\ res' = [res EXCEPT ![i] = "reserved"] /\ item' = [item EXCEPT ![i] = "integrating"]
  /\ Publishes
  /\ UNCHANGED <<desired, cancel, entry, attempt, active, lock, prefix, target, facts, merging>>

Activate(i) ==
  /\ desired = "running" /\ res[i] = "reserved"
  /\ res' = [res EXCEPT ![i] = "active"] /\ Publishes
  /\ UNCHANGED <<desired, cancel, item, entry, attempt, active, lock, prefix, target, facts,
                 merging>>

\* The lane of the item and its lock are given back, and nothing is active.
GivesBack(i) ==
  /\ active' = None /\ lock' = IF lock # None /\ lock.by = i THEN None ELSE lock
  /\ res' = [res EXCEPT ![i] = None]

-----------------------------------------------------------------------------
(* One step of the active attempt (reconcileExact); "integrate" is offered *)
(* for a running run only.                                                 *)

Steps(i) == desired = "running" /\ active = i /\ call = None
Effect(i, name, state) == attempt' = [attempt EXCEPT ![i][name] = state]
OnlyAttempt == UNCHANGED <<desired, cancel, queue, facts, world>>

\* reserve(), reserve_integration_attempt: of a pristine entry, with the lock.
Begin(i) ==
  /\ desired = "running" /\ call = None /\ active = None /\ lock = None
  /\ res[i] = "active" /\ item[i] = "integrating"
  /\ target = prefix
  /\ attempt[i] = None /\ Len(prefix) + 1 = At(i)
  /\ active' = i /\ lock' = [by |-> i, state |-> "active"]
  /\ attempt' = [attempt EXCEPT ![i] =
       [expected |-> prefix, compose |-> "intended", prefix |-> "none", final |-> "none",
        land |-> "none", conflict |-> FALSE, landing |-> "not_started"]]
  /\ entry' = [entry EXCEPT ![i] = "composing"]
  /\ UNCHANGED <<desired, cancel, item, res, prefix, facts, world>>

MarkCompose(i) ==
  /\ Steps(i) /\ entry[i] = "composing" /\ attempt[i].compose = "intended"
  /\ Effect(i, "compose", "dispatching") /\ OnlyAttempt

\* compose(), record_git_composition
Compose(i) ==
  /\ Steps(i) /\ entry[i] = "composing" /\ attempt[i].compose = "dispatching"
  /\ target = attempt[i].expected
  /\ Effect(i, "compose", "reconciled")
  /\ entry' = [entry EXCEPT ![i] = "verifying_prefix"]
  /\ UNCHANGED <<desired, cancel, item, active, lock, res, prefix, facts, world>>

\* record_git_composition_conflict: the item goes back to F1.
ComposeConflicts(i) ==
  /\ Steps(i) /\ entry[i] = "composing" /\ attempt[i].compose = "dispatching"
  /\ target = attempt[i].expected
  /\ attempt' = [attempt EXCEPT ![i].compose = "failed", ![i].conflict = TRUE]
  /\ entry' = [entry EXCEPT ![i] = "invalidated"]
  /\ item' = [item EXCEPT ![i] = "active"]
  /\ GivesBack(i)
  /\ UNCHANGED <<desired, cancel, prefix, facts, world>>

Passed(i, phase) == attempt[i][phase] = "reconciled" /\ <<i, phase, "PASS">> \in facts
Validates(i, phase) == /\ Steps(i) /\ entry[i] = "verifying_prefix"
                       /\ phase = "final" => Passed(i, "prefix")

\* reconcileValidationPhase()
PutValidation(i, phase) ==
  /\ Validates(i, phase) /\ attempt[i][phase] = "none"
  /\ Effect(i, phase, "intended") /\ OnlyAttempt

MarkValidation(i, phase) ==
  /\ Validates(i, phase) /\ attempt[i][phase] = "intended"
  /\ Effect(i, phase, "dispatching") /\ OnlyAttempt

\* The observation is a durable fact before the effect tells of it.
Validate(i, phase, verdict) ==
  /\ Validates(i, phase) /\ attempt[i][phase] = "dispatching"
  /\ target = attempt[i].expected
  /\ \A f \in facts : <<f[1], f[2]>> # <<i, phase>>
  /\ facts' = facts \cup {<<i, phase, verdict>>}
  /\ UNCHANGED <<desired, cancel, queue, attempt, world>>

RecordValidation(i, phase) ==
  /\ Validates(i, phase) /\ attempt[i][phase] = "dispatching"
  /\ \E f \in facts : <<f[1], f[2]>> = <<i, phase>>
  /\ Effect(i, phase, "observed") /\ OnlyAttempt

ReconcileValidation(i, phase) ==
  /\ Validates(i, phase) /\ attempt[i][phase] = "observed"
  /\ Effect(i, phase, "reconciled") /\ OnlyAttempt

\* verify(), record_proposal_verification
Verify(i) ==
  /\ Steps(i) /\ entry[i] = "verifying_prefix"
  /\ Passed(i, "prefix") /\ Passed(i, "final") /\ target = attempt[i].expected
  /\ entry' = [entry EXCEPT ![i] = "landing"]
  /\ UNCHANGED <<desired, cancel, item, attempt, active, lock, res, prefix, facts, world>>

\* prepare_git_landing
PrepareLanding(i) ==
  /\ Steps(i) /\ entry[i] = "landing" /\ attempt[i].land = "none"
  /\ attempt' = [attempt EXCEPT ![i].land = "intended", ![i].landing = "intended"]
  /\ OnlyAttempt

\* mark_effect_dispatching, and retry_effect_dispatch of a landing that did not happen
MarkLanding(i) ==
  /\ Steps(i) /\ entry[i] = "landing" /\ attempt[i].land \in {"intended", "proven_absent"}
  /\ Effect(i, "land", "dispatching") /\ OnlyAttempt

\* classifyTarget()
Observation(i) == CASE target = attempt[i].expected -> "proven_absent"
                    [] target = Intended(i)          -> "applied_exact"
                    [] OTHER                         -> "conflict"

\* land(), under the lock of the common directory: the fast-forward is begun only
\* from the target that is expected.
StartLanding(i) ==
  /\ Steps(i) /\ entry[i] = "landing" /\ attempt[i].land = "dispatching"
  /\ IF Observation(i) = "proven_absent"
     THEN /\ merging' = i
          /\ call' = [item |-> i, step |-> "merging", seen |-> None, fresh |-> TRUE]
     ELSE /\ call' = [item |-> i, step |-> "record", seen |-> Observation(i), fresh |-> TRUE]
          /\ UNCHANGED merging
  /\ UNCHANGED <<desired, cancel, queue, attempt, facts, target>>

\* git merge --ff-only, which outlives the process that began it.
Merge ==
  /\ merging # None
  /\ target' = IF target = attempt[merging].expected THEN Intended(merging) ELSE target
  /\ merging' = None
  /\ UNCHANGED <<desired, cancel, queue, attempt, facts, call>>

\* The merge has ended: what it left is observed, or, unless it landed, it threw.
Observe ==
  /\ call # None /\ call.step = "merging" /\ merging = None
  /\ \/ call' = [call EXCEPT !.step = "record", !.seen = Observation(call.item)]
        /\ Observation(call.item) # "conflict"
     \/ call' = None /\ Observation(call.item) # "applied_exact"
  /\ UNCHANGED <<desired, cancel, queue, attempt, facts, target, merging>>

\* record_git_landing_reconciliation; a third commit blocks the item for good.
RecordLanding ==
  LET i == call.item
  IN /\ call # None /\ call.step = "record" /\ call' = None
     /\ IF ~call.fresh THEN UNCHANGED <<item, entry, attempt, active, lock, res>>
        ELSE \/ /\ call.seen = "applied_exact"
                /\ attempt' = [attempt EXCEPT ![i].land = "reconciled", ![i].landing = "reconciled"]
                /\ UNCHANGED <<item, entry, active, lock, res>>
             \/ /\ call.seen = "proven_absent"
                /\ attempt' = [attempt EXCEPT ![i].land = "proven_absent",
                                              ![i].landing = "observed"]
                /\ UNCHANGED <<item, entry, active, lock, res>>
             \/ /\ call.seen = "conflict"
                /\ attempt' = [attempt EXCEPT ![i].land = "failed", ![i].landing = "ambiguous"]
                /\ entry' = [entry EXCEPT ![i] = "blocked"]
                /\ item' = [item EXCEPT ![i] = "integration_ready"]
                /\ GivesBack(i)
     /\ UNCHANGED <<desired, cancel, prefix, facts, target, merging>>

\* Mistake: as in land(), the target is not looked at again.
LandedOnce(i) == attempt[i].landing = "reconciled"

StillLanded(i) == attempt[i].landing = "reconciled" /\ target = Intended(i)

\* accept(), accept_integration_receipt
Accept(i) ==
  /\ Steps(i) /\ StillLanded(i)
  /\ prefix' = Intended(i)
  /\ attempt' = [attempt EXCEPT ![i].landing = "landed"]
  /\ item' = [item EXCEPT ![i] = "complete"]
  /\ entry' = [j \in Members |-> IF j = i THEN "integrated"
                               ELSE IF entry[j] = "waiting" /\ At(j) = At(i) + 1 THEN "eligible"
                               ELSE entry[j]]
  /\ GivesBack(i)
  /\ UNCHANGED <<desired, cancel, facts, world>>

-----------------------------------------------------------------------------
(* The user, the owner and other writers of the target.                    *)

Pause == /\ desired = "running" /\ desired' = "paused" /\ Publishes
         /\ UNCHANGED <<cancel, queue, attempt, target, facts, merging>>
Resume == /\ desired = "paused" /\ desired' = "running" /\ Publishes
          /\ UNCHANGED <<cancel, queue, attempt, target, facts, merging>>

Queued == {i \in Members : entry[i] \notin {"none", "integrated"}}

\* What the audit refuses of the snapshot of a cancellation: an attempt that is still
\* active would have lost its lock, and a later entry would not be waiting.
MayBeFenced == active = None /\ \A i, j \in Queued : i = j

\* request_cancellation, of the run (fenceWorkItemForCancellation)
RequestCancellation ==
  /\ cancel = "none" /\ \E i \in Members : item[i] # "complete"
  /\ MayBeFenced
  /\ desired' = "cancelled" /\ cancel' = "open"
  /\ item' = [i \in Members |-> IF item[i] = "complete" THEN "complete" ELSE "blocked"]
  /\ entry' = [i \in Members |-> IF i \in Queued THEN "invalidated" ELSE entry[i]]
  /\ attempt' = [i \in Members |->
       IF attempt[i] = None THEN None
       ELSE [attempt[i] EXCEPT !.compose = IF @ = "failed" THEN "ambiguous" ELSE @,
                               !.land = IF @ = "failed" THEN "ambiguous" ELSE @]]
  /\ res' = [i \in Members |-> IF res[i] = None THEN None ELSE "release_requested"]
  /\ Publishes
  /\ UNCHANGED <<active, lock, prefix, target, facts, merging>>

\* record_cancellation: reconcileCancellation() explains no conflict.
CloseCancellation ==
  /\ cancel = "open"
  /\ \A i \in Members : attempt[i] # None =>
       "ambiguous" \notin {attempt[i].compose, attempt[i].land}
  /\ cancel' = "closed"
  /\ item' = [i \in Members |-> IF item[i] = "complete" THEN "complete" ELSE "cancelled"]
  /\ res' = [i \in Members |-> None]
  /\ Publishes
  /\ UNCHANGED <<desired, entry, attempt, active, lock, prefix, target, facts, merging>>

\* The owner dies with its call; a merge that it began goes on, and its successor
\* finds the rest in the snapshot.
Dies == /\ call # None /\ call' = None
        /\ UNCHANGED <<desired, cancel, queue, attempt, target, facts, merging>>

Stray == /\ target' = Foreign
         /\ UNCHANGED <<desired, cancel, queue, attempt, facts, merging, call>>

-----------------------------------------------------------------------------
Next ==
  \/ \E i \in Members :
       \/ Ready(i) \/ Reserve(i) \/ Activate(i) \/ Begin(i)
       \/ MarkCompose(i) \/ Compose(i) \/ ComposeConflicts(i)
       \/ \E phase \in Range(Phases) :
            \/ PutValidation(i, phase) \/ MarkValidation(i, phase)
            \/ \E verdict \in {"PASS", "FAIL"} : Validate(i, phase, verdict)
            \/ RecordValidation(i, phase) \/ ReconcileValidation(i, phase)
       \/ Verify(i) \/ PrepareLanding(i) \/ MarkLanding(i) \/ StartLanding(i) \/ Accept(i)
  \/ Merge \/ Observe \/ RecordLanding
  \/ Pause \/ Resume \/ RequestCancellation \/ CloseCancellation \/ Dies \/ Stray

Spec == Init /\ [][Next]_vars

-----------------------------------------------------------------------------
(* Properties.                                                             *)

TypeOK ==
  /\ desired \in {"running", "paused", "cancelled"} /\ cancel \in {"none", "open", "closed"}
  /\ item \in [Members -> {"active", "integration_ready", "integrating", "complete", "blocked",
                         "cancelled"}]
  /\ entry \in [Members -> {"none", "waiting", "eligible", "composing", "verifying_prefix",
                          "landing", "blocked", "invalidated", "integrated"}]
  /\ active \in Members \cup {None} /\ prefix \in Seq(Members)
  /\ target = Foreign \/ target \in Seq(Members)
  /\ merging \in Members \cup {None}

\* The accepted prefix is the train up to its head; what comes after the head waits.
TrainAgrees ==
  /\ IsPrefix(prefix, Order)
  /\ Range(prefix) = {i \in Members : entry[i] = "integrated"}
  /\ \A i \in Members :
       /\ entry[i] = "integrated" <=> item[i] = "complete"
       /\ entry[i] \notin {"none", "invalidated"} =>
            item[i] \in {"integration_ready", "integrating", "complete"}
       /\ entry[i] \notin {"none", "waiting"} =>
            \A j \in Earlier(i) : entry[j] \in {"none", "integrated"}
  /\ active # None => active \in Queued /\ \A j \in Earlier(active) : entry[j] = "integrated"

\* An attempt that is not over holds the lock and rests on the accepted prefix; one that is
\* over holds nothing; what lands has passed both validations.
AttemptAgrees(i) ==
  LET a == attempt[i]
      over == a.landing = "landed" \/ a.conflict \/ a.land \in {"failed", "ambiguous"}
              \/ (entry[i] = "invalidated" /\ active # i)
  IN attempt[i] # None =>
       /\ a.landing # "landed" => a.expected = prefix
       /\ IF over THEN lock = None \/ lock.by # i ELSE lock = [by |-> i, state |-> "active"]
       /\ a.land # "none" => Passed(i, "prefix") /\ Passed(i, "final")

\* Every snapshot that a command of the integration leads to passes the audit of trains and
\* integration attempts (validateRunSemantics).
TrainAudit == TypeOK /\ TrainAgrees /\ \A i \in Members : AttemptAgrees(i)

\* A closed cancellation left no lock, no reservation and no attempt.
TrainIsQuiet ==
  cancel = "closed" => active = None /\ lock = None /\ \A i \in Members : res[i] = None

\* The train keeps the promise of the V2 driver: items land one at a time, each once, on top
\* of the accepted ones, also when their owner died with a merge under way, and no operation
\* that is over moves the target (landOrReconcileBoundWorktreeV1, accept_integration_receipt).
Branch == INSTANCE TargetBranch
  WITH Items <- Members, commit <- target, chain <- prefix,
       state <- [i \in Members |->
         IF active = i THEN "open"
         ELSE IF entry[i] = "integrated" THEN "accepted"
         ELSE IF attempt[i] # None THEN "closed" ELSE "none"],
       status <- IF cancel = "none" THEN "active" ELSE "cancelling"
ImplementsTargetBranch == Branch!Spec
=============================================================================
