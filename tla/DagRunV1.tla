------------------------------- MODULE DagRunV1 -------------------------------
(***************************************************************************)
(* dag-runtime/reducer.ts, driven by lifecycle-runtime.ts and conductor.ts:*)
(* a V1 run.  Work items walk the lifecycle stages under reservations that *)
(* hold a lane, a mutex and units of a pool; a stage is an attempt, done   *)
(* by an owned worker or by a procedure; everything done to the world is   *)
(* an effect, recorded before it is dispatched and closed once its outcome *)
(* is known.  A command of the reducer is one action: the store publishes  *)
(* it against the revision it read (OwnerRecoveryV1).  Between two of them *)
(* there is a world that goes on: workers, procedures and calls that are   *)
(* under way, which end with the process that made them.                   *)
(*                                                                         *)
(* An attempt is <<item, stage, ordinal>>; an effect <<kind, attempt>>.    *)
(***************************************************************************)
EXTENDS Naturals, FiniteSets, Sequences, FiniteSetsExt

CONSTANTS
  Item, None,
  Chain,         \* the stages an item walks, of F0 ... F8; the last is F8
  Shared,        \* items that declare the same mutex group
  MaxLanes,      \* the plan's active nodes
  Capacity,      \* units of the resource pool; a reservation takes one
  Replacements,  \* how often a worker that failed may be replaced
  MaxEpoch,      \* bound: owners of the run, one after the other
  MaxReroutes    \* bound: attempts of one stage

ASSUME DagRunV1Assumption ==
  /\ IsFiniteSet(Item) /\ Shared \subseteq Item
  /\ Chain \in Seq({"F0", "F1", "F2", "F3", "F4", "F5", "F6", "F7", "F8"}) /\ Len(Chain) > 0
  /\ Chain[Len(Chain)] = "F8" /\ Chain[1] = "F1"
  /\ {MaxLanes, Capacity, Replacements, MaxReroutes} \subseteq Nat /\ MaxEpoch \in Nat \ {0}

\* Stages are walked in the order of their numbers.
ASSUME ChainAssumption ==
  \E number \in [1..Len(Chain) -> 0..8] : \A s \in 1..Len(Chain) :
    /\ Chain[s] = <<"F0", "F1", "F2", "F3", "F4", "F5", "F6", "F7", "F8">>[number[s] + 1]
    /\ \A t \in 1..Len(Chain) : s < t => number[s] < number[t]

\* None is no item, no generation, no reservation, no candidate and no result.
ASSUME NoneAssumption ==
  /\ None \notin Item \cup Nat
  /\ None \notin [stage : Nat, ord : Nat, gen : Nat, epoch : Nat,
                  state : {"reserved", "dispatch_intent", "active", "release_requested"}]
  /\ None \notin [gen : Nat, by : Item \X Nat \X Nat]
  /\ None \notin {"succeeded", "failed", "cancelled"}

VARIABLES
  desired,       \* what the user wants of the run
  cancel,        \* the cancellation: "none", "open", "closed"
  epoch,         \* of the owner
  item,          \* [desired, current, gen, cand], cand None or [gen, by]
  stage,         \* [state, tries, current, evidence, adopted] per item and stage
  res,           \* the live reservation: None or [stage, ord, state, gen, epoch]
  lanes, mutex, pool,
  att,           \* attempts: [state, gen, out, bound, result]
  eff,           \* effects: [state, gen, epoch, seen]
  worker,        \* the world: what became of each launched worker
  calls,         \* the world: calls under way, <<kind, attempt>>
  facts          \* attempts whose procedure has a durable observation

run == <<desired, cancel, epoch>>
accounts == <<lanes, mutex, pool>>
world == <<worker, calls, facts>>
vars == <<run, item, stage, res, accounts, att, eff, world>>

Step == 1..Len(Chain)
Owned(s) == Chain[s] \in {"F1", "F2", "F3", "F5", "F6"}
Codes(s) == Chain[s] \in {"F1", "F3"}
Evaluates(s) == Chain[s] = "F2"

Init ==
  /\ desired = "running" /\ cancel = "none" /\ epoch = 1
  /\ item = [i \in Item |->
       [desired |-> "run", current |-> "pending", gen |-> 0, cand |-> None]]
  /\ stage = [i \in Item |-> [s \in Step |->
       [state |-> "pending", tries |-> 0, current |-> FALSE, evidence |-> None,
        adopted |-> FALSE]]]
  /\ res = [i \in Item |-> None]
  /\ lanes = {} /\ mutex = None /\ pool = 0
  /\ att = << >> /\ eff = << >> /\ worker = << >>
  /\ calls = {} /\ facts = {}

-----------------------------------------------------------------------------
(* What the reducer asks of the state.                                     *)

Live == {i \in DOMAIN res : res[i] # None}
IsOpen(k) == k \in DOMAIN att
             /\ att[k].state \notin {"sealed", "failed", "cancelled"}
OpenAttempts == {k \in DOMAIN att : IsOpen(k)}
HasEffect(kind, k) == <<kind, k>> \in DOMAIN eff
EffectIn(kind, k, states) == HasEffect(kind, k) /\ eff[<<kind, k>>].state \in states
Settled(e) == eff[e].state \in {"reconciled", "proven_absent"}
EffectsOf(i) == {e \in DOMAIN eff : e[2][1] = i}
StageOf(k) == stage[k[1]][k[2]]

\* isExactOpenStageEffectBoundary()
AtBoundary(k) == StageOf(k).state = "active" /\ StageOf(k).current /\ IsOpen(k)
                 /\ StageOf(k).tries = k[3]

\* rederiveCurrent()
Current ==
  LET currents == {item[i].current : i \in Item}
  IN CASE desired = "paused"      -> "paused"
       [] desired = "cancelled"   -> IF currents = {"cancelled"} THEN "cancelled"
                                     ELSE "cancelling"
       [] OTHER -> IF "integration_ready" \in currents THEN "integration"
                   ELSE IF lanes # {} \/ "pending" \in currents THEN "active"
                   ELSE IF "blocked" \in currents THEN "blocked" ELSE "initializing"

Going == desired = "running" /\ Current \in {"active", "integration"} /\ cancel # "open"

\* What was dispatched keeps its owner.
RebindsIntended(e) == e[1] \in {"launch", "cancel", "cleanup"} /\ eff[e].state = "intended"

\* Effects that stay safe under another owner, because their key is opaque.
Rebinds(e) == e[1] \in {"launch", "cancel", "cleanup"}
              /\ eff[e].state \in {"intended", "dispatching", "ambiguous"}

Put(kind, k, gen) ==
  eff' = [e \in DOMAIN eff \cup {<<kind, k>>} |->
            IF e = <<kind, k>>
            THEN [state |-> "intended", gen |-> gen, epoch |-> epoch, seen |-> FALSE]
            ELSE eff[e]]
Effect(kind, k, state) == eff' = [eff EXCEPT ![<<kind, k>>].state = state]

-----------------------------------------------------------------------------
(* Reservations.                                                           *)

\* The mutex group is not looked at.
AdmitsWithoutMutex(i) ==
  /\ Cardinality(lanes \cup {i}) <= MaxLanes
  /\ pool + 1 <= Capacity

Admits(i) ==
  /\ Cardinality(lanes \cup {i}) <= MaxLanes
  /\ pool + 1 <= Capacity
  /\ i \in Shared => mutex = None

NextStage(i) == Min({s \in Step : stage[i][s].state # "passed"} \cup {Len(Chain)})

\* reserve_scheduler_batch, for an item that scheduler.ts found ready.
Reserve(i) ==
  LET s == NextStage(i)
  IN /\ desired = "running" /\ Current \in {"initializing", "active", "integration"}
     /\ item[i].desired = "run" /\ item[i].current \in {"pending", "active"}
     /\ res[i] = None /\ Admits(i)
     /\ stage[i][s].state \in {"pending", "invalidated"}
     /\ \A e \in EffectsOf(i) : Settled(e)
     /\ stage[i][s].tries < MaxReroutes
     /\ lanes' = lanes \cup {i}
     /\ mutex' = IF i \in Shared THEN i ELSE mutex
     /\ pool' = pool + 1
     /\ item' = [item EXCEPT ![i].current = "active"]
     /\ res' = [res EXCEPT ![i] =
          [stage |-> s, ord |-> stage[i][s].tries + 1, state |-> "reserved",
           gen |-> item[i].gen, epoch |-> epoch]]
     /\ UNCHANGED <<run, stage, att, eff, world>>

\* mark_scheduler_reservation_dispatch, record_scheduler_reservation_dispatch
Activate(i) ==
  /\ Going /\ res[i] # None
  /\ \/ res[i].state = "reserved" /\ res' = [res EXCEPT ![i].state = "dispatch_intent"]
     \/ res[i].state = "dispatch_intent" /\ res' = [res EXCEPT ![i].state = "active"]
  /\ UNCHANGED <<run, item, stage, accounts, att, eff, world>>

\* releaseSchedulerReservationAccounting(): the lane is kept.
Release(is) ==
  /\ res' = [i \in Item |-> IF i \in is THEN None ELSE res[i]]
  /\ mutex' = IF mutex \in is THEN None ELSE mutex
  /\ pool' = pool - Cardinality(is \cap Live)

Releasable(i) == \A e \in EffectsOf(i) : eff[e].gen = res[i].gen => Settled(e)

\* begin_stage_attempt
Begin(i) ==
  LET s == res[i].stage
      k == <<i, s, res[i].ord>>
  IN /\ res[i] # None /\ res[i].state = "active"
     /\ res[i].epoch = epoch /\ res[i].gen = item[i].gen
     /\ ~stage[i][s].current /\ stage[i][s].state # "passed"
     /\ res[i].ord = stage[i][s].tries + 1
     /\ Chain[s] # "F1" => item[i].cand # None
     /\ att' = [a \in DOMAIN att \cup {k} |->
          IF a = k THEN [state |-> IF Owned(s) THEN "dispatchable" ELSE "running",
                         gen |-> item[i].gen, out |-> None, bound |-> FALSE,
                         result |-> None]
          ELSE att[a]]
     /\ IF Owned(s) THEN Put("launch", k, item[i].gen) ELSE UNCHANGED eff
     /\ stage' = [stage EXCEPT ![i][s] =
          [@ EXCEPT !.state = "active", !.tries = res[i].ord, !.current = TRUE,
                    !.evidence = None]]
     /\ item' = [item EXCEPT ![i].current = "active"]
     /\ UNCHANGED <<run, res, accounts, world>>

-----------------------------------------------------------------------------
(* Owned workers.  The adapter starts one worker per launch key, however   *)
(* often it is asked.                                                      *)

\* mark_effect_dispatching of a launch, and the call that follows it.
Dispatch(k) ==
  /\ IsOpen(k) /\ att[k].state = "dispatchable" /\ AtBoundary(k)
  /\ EffectIn("launch", k, {"intended"}) /\ eff[<<"launch", k>>].epoch = epoch
  /\ desired = "running" /\ item[k[1]].desired = "run"
  /\ att' = [att EXCEPT ![k].state = "launching"]
  /\ Effect("launch", k, "dispatching")
  /\ calls' = calls \cup {<<"launch", k>>}
  /\ UNCHANGED <<run, item, stage, res, accounts, worker, facts>>

\* readyPackets(): a launch that was dispatched and never bound is made again.
Recover(k) ==
  /\ <<"launch", k>> \notin calls /\ k \in DOMAIN att /\ desired # "paused"
  /\ \/ att[k].state = "launching" /\ EffectIn("launch", k, {"dispatching"})
     \/ att[k].state = "cancelling" /\ EffectIn("launch", k, {"ambiguous"})
  /\ calls' = calls \cup {<<"launch", k>>}
  /\ UNCHANGED <<run, item, stage, res, accounts, att, eff, worker, facts>>

WorkerStarts(k) ==
  /\ <<"launch", k>> \in calls /\ k \notin DOMAIN worker
  /\ worker' = [a \in DOMAIN worker \cup {k} |-> IF a = k THEN "running" ELSE worker[a]]
  /\ UNCHANGED <<run, item, stage, res, accounts, att, eff, calls, facts>>

WorkerEnds(k, status) ==
  /\ k \in DOMAIN worker /\ worker[k] = "running"
  /\ worker' = [worker EXCEPT ![k] = status]
  /\ UNCHANGED <<run, item, stage, res, accounts, att, eff, calls, facts>>

\* bind_worker_attempt: of the attempt that was launched, or, once it is
\* fenced, only to give the cancellation a worker it can cancel.
Bind(k) ==
  /\ <<"launch", k>> \in calls /\ k \in DOMAIN worker
  /\ eff[<<"launch", k>>].epoch = epoch /\ ~att[k].bound
  /\ calls' = calls \ {<<"launch", k>>}
  /\ \/ /\ att[k].state = "launching" /\ EffectIn("launch", k, {"dispatching"})
        /\ item[k[1]].gen = att[k].gen
        /\ att' = [att EXCEPT ![k].state = "running", ![k].bound = TRUE]
        /\ Effect("launch", k, "reconciled")
     \/ /\ att[k].state = "cancelling" /\ EffectIn("launch", k, {"ambiguous"})
        /\ cancel = "open" /\ att[k].gen + 1 = item[k[1]].gen
        /\ att' = [att EXCEPT ![k].bound = TRUE]
        /\ eff' = [e \in DOMAIN eff \cup {<<"cancel", k>>} |->
             CASE e = <<"launch", k>> -> [eff[e] EXCEPT !.state = "reconciled"]
               [] e = <<"cancel", k>> ->
                    [state |-> "intended", gen |-> item[k[1]].gen, epoch |-> epoch,
                     seen |-> FALSE]
               [] OTHER -> eff[e]]
  /\ UNCHANGED <<run, item, stage, res, accounts, worker, facts>>

\* Whatever a worker delivers is adopted as long as its attempt has not ended.
AdoptsAnyOpen(k) == att[k].state \in {"running", "cancelling"} /\ att[k].result = None

Adopts(k) == /\ att[k].state = "running" /\ att[k].result = None
             /\ item[k[1]].gen = att[k].gen
             /\ StageOf(k).current /\ StageOf(k).tries = k[3]

\* record_worker_result
RecordResult(k) ==
  /\ k \in DOMAIN att /\ att[k].bound /\ Adopts(k)
  /\ worker[k] # "running"
  /\ att' = [att EXCEPT ![k].state = "result_observed", ![k].result = worker[k]]
  /\ UNCHANGED <<run, item, stage, res, accounts, eff, world>>

\* The prior evaluation is left in place.
ReroutedOnlyF3(stages) ==
  [s \in Step |-> IF Chain[s] = "F3"
     THEN [stages[s] EXCEPT !.state = "invalidated", !.current = FALSE, !.evidence = None]
     ELSE stages[s]]

Rerouted(stages) ==
  [s \in Step |-> IF Chain[s] \in {"F2", "F3"}
     THEN [stages[s] EXCEPT !.state = "invalidated", !.current = FALSE,
                            !.evidence = None, !.adopted = FALSE]
     ELSE stages[s]]

\* record_candidate: F1's, or the delta of F3, which takes the evaluation of
\* the prior candidate along (adoption) or sends the item back to F2.
RecordCandidate(k, kind) ==
  LET i == k[1]
      s == k[2]
      gen == IF item[i].cand = None /\ item[i].gen > 0 THEN item[i].gen ELSE item[i].gen + 1
  IN /\ IsOpen(k) /\ att[k].state = "result_observed" /\ att[k].result = "succeeded"
     /\ Codes(s) /\ att[k].out = None /\ AtBoundary(k) /\ ~HasEffect("procedure", k)
     /\ kind = "first" <=> Chain[s] = "F1"
     /\ item' = [item EXCEPT ![i] = [@ EXCEPT !.gen = gen, !.cand = [gen |-> gen, by |-> k],
                                              !.current = "active"]]
     /\ \/ /\ kind = "first"
           /\ att' = [att EXCEPT ![k].out = gen]
           /\ UNCHANGED <<stage, res, accounts>>
        \/ /\ kind \in {"adoption", "invalidation"}
           /\ item[i].cand # None
           /\ \A t \in Step : Evaluates(t) => stage[i][t].state = "passed"
           /\ IF kind = "adoption"
              THEN /\ stage' = [stage EXCEPT ![i] = [t \in Step |->
                        IF Evaluates(t) THEN [@[t] EXCEPT !.adopted = TRUE] ELSE @[t]]]
                   /\ att' = [att EXCEPT ![k].out = gen]
                   /\ UNCHANGED <<res, accounts>>
              ELSE /\ stage' = [stage EXCEPT ![i] = Rerouted(@)]
                   /\ att' = [att EXCEPT ![k].out = gen, ![k].state = "failed"]
                   /\ Releasable(i) /\ Release({i}) /\ UNCHANGED lanes
     /\ UNCHANGED <<run, eff, world>>

-----------------------------------------------------------------------------
(* The procedure that judges an attempt.                                   *)

\* What has to be there before reconcileEvidence() runs.
Judgeable(k) ==
  IF ~Owned(k[2]) THEN att[k].state = "running"
  ELSE /\ att[k].state = "result_observed"
       /\ Chain[k[2]] = "F1" /\ att[k].result = "succeeded" => att[k].out # None

\* put_effect_intent and mark_effect_dispatching of a run_procedure
PutProcedure(k) ==
  /\ IsOpen(k) /\ AtBoundary(k) /\ Judgeable(k) /\ ~HasEffect("procedure", k)
  /\ desired = "running" /\ item[k[1]].desired = "run"
  /\ Put("procedure", k, IF att[k].out # None THEN att[k].out ELSE att[k].gen)
  /\ UNCHANGED <<run, item, stage, res, accounts, att, world>>

MarkProcedure(k) ==
  /\ EffectIn("procedure", k, {"intended"}) /\ AtBoundary(k)
  /\ desired = "running" /\ item[k[1]].desired = "run"
  /\ Effect("procedure", k, "dispatching")
  /\ UNCHANGED <<run, item, stage, res, accounts, att, world>>

\* executeExact(), whose observation is a durable fact before it is recorded.
Execute(k) ==
  /\ EffectIn("procedure", k, {"dispatching"}) /\ k \notin facts
  /\ facts' = facts \cup {k}
  /\ UNCHANGED <<run, item, stage, res, accounts, att, eff, worker, calls>>

\* record_effect_execution
RecordExecution(k) ==
  /\ EffectIn("procedure", k, {"dispatching"}) /\ k \in facts
  /\ eff' = [eff EXCEPT ![<<"procedure", k>>] = [@ EXCEPT !.state = "observed", !.seen = TRUE]]
  /\ UNCHANGED <<run, item, stage, res, accounts, att, world>>

\* record_effect_observation of a procedure
RecordProcedure(k) ==
  /\ EffectIn("procedure", k, {"observed"})
  /\ Effect("procedure", k, "reconciled")
  /\ UNCHANGED <<run, item, stage, res, accounts, att, world>>

Verdicts(k) == IF Owned(k[2]) /\ att[k].result # "succeeded" THEN {"failed"}
               ELSE {"passed", "failed"}

\* validatePassedStage() lets an evaluation be adopted by an F3 that is under way or
\* has passed: once F3 took it along, no other verdict of F3 can be sealed.
MaySeal(k, verdict) ==
  Chain[k[2]] = "F3" /\ (\E t \in Step : stage[k[1]][t].adopted) => verdict = "passed"

\* seal_stage_attempt, seal_f8_integration_ready
Seal(k, verdict) ==
  LET i == k[1]
      s == k[2]
      last == verdict = "passed" /\ Chain[s] = "F8"
  IN /\ IsOpen(k) /\ AtBoundary(k) /\ Judgeable(k)
     /\ EffectIn("procedure", k, {"reconciled"})
     /\ verdict \in Verdicts(k) /\ MaySeal(k, verdict)
     /\ last => \A t \in Step \ {s} : stage[i][t].state = "passed"
     /\ last => \A e \in EffectsOf(i) : Settled(e)
     /\ att' = [att EXCEPT ![k].state = "sealed"]
     /\ stage' = [stage EXCEPT ![i][s] =
          [@ EXCEPT !.state = verdict,
                    !.evidence = IF att[k].out # None THEN att[k].out ELSE att[k].gen]]
     /\ item' = [item EXCEPT ![i].current =
          IF verdict = "failed" THEN "blocked" ELSE IF last THEN "integration_ready"
          ELSE "active"]
     /\ Releasable(i) /\ Release({i}) /\ UNCHANGED lanes
     /\ UNCHANGED <<run, eff, world>>

\* recoverableWorkerRetriesV1() and authorize_retry: a worker is replaced once
\* everything it did is closed and its worktree is cleaned up.
Retry(i) ==
  LET s == NextStage(i)
      k == <<i, s, stage[i][s].tries>>
  IN /\ Going /\ item[i].desired = "run" /\ stage[i][s].state = "failed"
     /\ res[i] = None
     /\ att[k].state = "sealed" /\ Owned(s) /\ att[k].result = "failed"
     /\ (IF att[k].out # None THEN att[k].out ELSE att[k].gen) = item[i].gen
     /\ k[3] - 1 < Replacements
     /\ \A e \in EffectsOf(i) : Settled(e)
     /\ EffectIn("cleanup", k, {"reconciled"})
     /\ stage' = [stage EXCEPT ![i][s] =
          [@ EXCEPT !.state = "pending", !.current = FALSE, !.evidence = None,
                    !.adopted = FALSE]]
     /\ item' = [item EXCEPT ![i].current = "active"]
     /\ UNCHANGED <<run, res, accounts, att, eff, world>>

-----------------------------------------------------------------------------
(* The worktree of an attempt that has ended.                              *)

\* put_effect_intent and mark_effect_dispatching of a cleanup_worktree;
\* reconcileCleanup() is not reached while a cancellation is open.  An item that
\* is ready for integration may have no effect that is not reconciled.
PutCleanup(k) ==
  /\ cancel # "open" /\ k \in DOMAIN att /\ ~IsOpen(k)
  /\ item[k[1]].current # "integration_ready"
  /\ att[k].bound /\ att[k].result # None /\ ~HasEffect("cleanup", k)
  /\ Put("cleanup", k, IF att[k].out # None THEN att[k].out ELSE att[k].gen)
  /\ UNCHANGED <<run, item, stage, res, accounts, att, world>>

MarkCleanup(k) ==
  /\ cancel # "open"
  /\ EffectIn("cleanup", k, {"intended"}) /\ eff[<<"cleanup", k>>].epoch = epoch
  /\ Effect("cleanup", k, "dispatching")
  /\ UNCHANGED <<run, item, stage, res, accounts, att, world>>

CallCleanup(k) ==
  /\ cancel # "open" /\ <<"cleanup", k>> \notin calls
  /\ EffectIn("cleanup", k, {"dispatching", "ambiguous"})
  /\ calls' = calls \cup {<<"cleanup", k>>}
  /\ UNCHANGED <<run, item, stage, res, accounts, att, eff, worker, facts>>

\* The call that is under way records its outcome in the run it finds.
RecordCleanup(k) ==
  /\ <<"cleanup", k>> \in calls
  /\ calls' = calls \ {<<"cleanup", k>>}
  /\ IF EffectIn("cleanup", k, {"dispatching", "ambiguous"})
     THEN Effect("cleanup", k, "reconciled") ELSE UNCHANGED eff
  /\ UNCHANGED <<run, item, stage, res, accounts, att, worker, facts>>

-----------------------------------------------------------------------------
(* Pause, cancellation, and a new owner.                                   *)

\* set_desired_run
Pause == /\ desired = "running" /\ desired' = "paused"
         /\ UNCHANGED <<cancel, epoch, item, stage, res, accounts, att, eff, world>>
Resume == /\ desired = "paused" /\ desired' = "running"
          /\ UNCHANGED <<cancel, epoch, item, stage, res, accounts, att, eff, world>>

\* fenceEffectForCancellation()
Fenced(e) ==
  [e EXCEPT !.state = CASE @ = "intended"                              -> "proven_absent"
                        [] @ \in {"dispatching", "observed", "ambiguous"} -> "ambiguous"
                        [] OTHER                                       -> @]

\* What validateRunSemantics() refuses of the snapshot of a cancellation: a launch
\* that is asked to stop and was never dispatched, and a procedure of which nobody
\* knows what it did.
MayBeFenced ==
  /\ \A k \in OpenAttempts : att[k].state # "dispatchable"
  /\ \A e \in DOMAIN eff : e[1] = "procedure" => eff[e].state # "dispatching"

\* request_cancellation, of the run: the items are fenced, and every bound
\* worker that has not ended gets an effect that cancels it.
RequestCancellation ==
  LET bound == {k \in OpenAttempts : Owned(k[2]) /\ att[k].bound}
  IN /\ desired \in {"running", "paused"} /\ cancel = "none" /\ MayBeFenced
     /\ desired' = "cancelled" /\ cancel' = "open"
     /\ item' = [i \in Item |->
          [desired |-> "cancel", current |-> "blocked", gen |-> item[i].gen + 1, cand |-> None]]
     /\ stage' = [i \in Item |-> [s \in Step |->
          [stage[i][s] EXCEPT
             !.state = IF @ \in {"active", "passed", "failed"} THEN "cancelled" ELSE @,
             !.current = FALSE, !.evidence = None, !.adopted = FALSE]]]
     /\ att' = [k \in DOMAIN att |->
          IF IsOpen(k) THEN [att[k] EXCEPT !.state = "cancelling"] ELSE att[k]]
     /\ eff' = [e \in DOMAIN eff \cup {<<"cancel", k>> : k \in bound} |->
          IF e \in DOMAIN eff THEN Fenced(eff[e])
          ELSE [state |-> "intended", gen |-> item[e[2][1]].gen + 1, epoch |-> epoch,
                seen |-> FALSE]]
     /\ res' = [i \in Item |->
          IF res[i] = None THEN None ELSE [res[i] EXCEPT !.state = "release_requested"]]
     /\ UNCHANGED <<epoch, accounts, world>>

\* mark_effect_dispatching of a cancel_worker
MarkCancel(k) ==
  /\ cancel = "open"
  /\ EffectIn("cancel", k, {"intended"}) /\ eff[<<"cancel", k>>].epoch = epoch
  /\ Effect("cancel", k, "dispatching")
  /\ UNCHANGED <<run, item, stage, res, accounts, att, world>>

\* cancelExact(): a worker that has ended already keeps its outcome.
CancelWorker(k) ==
  /\ EffectIn("cancel", k, {"dispatching"}) /\ worker[k] = "running"
  /\ worker' = [worker EXCEPT ![k] = "cancelled"]
  /\ UNCHANGED <<run, item, stage, res, accounts, att, eff, calls, facts>>

\* A worker that was asked to stop counts as one that has.
ClosedOnRequest(k) ==
  IF att[k].bound THEN EffectIn("cancel", k, {"dispatching", "reconciled"})
  ELSE EffectIn("launch", k, {"proven_absent"})

\* An attempt of a worker is closed by the terminal state of the worker it is
\* bound to, or because its launch was never dispatched.
WorkerIsClosed(k) ==
  IF att[k].bound
  THEN EffectIn("cancel", k, {"dispatching", "reconciled"}) /\ worker[k] # "running"
  ELSE EffectIn("launch", k, {"proven_absent"})

\* What reconcileCancellation() can itself say of an effect.
Explained(e) == Settled(e) \/ e[1] = "cancel" \/ (e[1] = "procedure" /\ eff[e].seen)

\* record_cancellation: a result other than "cancelled" is put into quarantine,
\* and the attempt keeps what it had.
CloseCancellation ==
  /\ cancel = "open"
  /\ \A k \in OpenAttempts : Owned(k[2]) => WorkerIsClosed(k)
  /\ \A e \in DOMAIN eff : Explained(e)
  /\ cancel' = "closed"
  /\ item' = [i \in Item |-> [item[i] EXCEPT !.current = "cancelled"]]
  /\ att' = [k \in DOMAIN att |->
       IF ~IsOpen(k) THEN att[k]
       ELSE [att[k] EXCEPT !.state = "cancelled",
               !.result = IF att[k].bound /\ worker[k] = "cancelled" THEN "cancelled" ELSE @]]
  /\ eff' = [e \in DOMAIN eff |->
       IF Settled(e) THEN eff[e] ELSE [eff[e] EXCEPT !.state = "reconciled"]]
  /\ Release(Item) /\ lanes' = {}
  /\ UNCHANGED <<desired, epoch, stage, world>>

\* The owner dies, with its calls, and a successor attaches (rebindOwnerAuthority()):
\* a procedure keeps the epoch it was recorded in.
Reattach ==
  /\ epoch < MaxEpoch
  /\ epoch' = epoch + 1
  /\ calls' = {}
  /\ res' = [i \in Item |-> IF res[i] = None THEN None ELSE [res[i] EXCEPT !.epoch = epoch + 1]]
  /\ eff' = [e \in DOMAIN eff |-> IF Rebinds(e) THEN [eff[e] EXCEPT !.epoch = epoch + 1] ELSE eff[e]]
  /\ UNCHANGED <<desired, cancel, item, stage, accounts, att, worker, facts>>

-----------------------------------------------------------------------------
Next ==
  \/ \E i \in Item : Reserve(i) \/ Activate(i) \/ Begin(i) \/ Retry(i)
  \/ \E k \in DOMAIN att :
       \/ Dispatch(k) \/ Recover(k) \/ WorkerStarts(k) \/ Bind(k)
       \/ \E status \in {"succeeded", "failed"} : WorkerEnds(k, status)
       \/ RecordResult(k)
       \/ \E kind \in {"first", "adoption", "invalidation"} : RecordCandidate(k, kind)
       \/ PutProcedure(k) \/ MarkProcedure(k) \/ Execute(k)
       \/ RecordExecution(k) \/ RecordProcedure(k)
       \/ \E verdict \in {"passed", "failed"} : Seal(k, verdict)
       \/ PutCleanup(k) \/ MarkCleanup(k) \/ CallCleanup(k) \/ RecordCleanup(k)
       \/ MarkCancel(k) \/ CancelWorker(k)
  \/ Pause \/ Resume \/ RequestCancellation \/ CloseCancellation \/ Reattach

Spec == Init /\ [][Next]_vars

\* An agent that has cancelled the run keeps invoking what the frontier offers;
\* the adapters answer.
AgentCloses ==
  \/ \E k \in DOMAIN att :
       Recover(k) \/ WorkerStarts(k) \/ Bind(k) \/ MarkCancel(k) \/ CancelWorker(k)
  \/ CloseCancellation
Fairness ==
  /\ WF_vars(AgentCloses)
  /\ WF_vars(\E k \in DOMAIN att : RecordCleanup(k))
FairSpec == Spec /\ Fairness

-----------------------------------------------------------------------------
(* Properties.                                                             *)

Attempts == Item \X Step \X (1..MaxReroutes)

TypeOK ==
  /\ desired \in {"running", "paused", "cancelled"}
  /\ cancel \in {"none", "open", "closed"} /\ epoch \in 1..MaxEpoch
  /\ lanes \subseteq Item /\ mutex \in Item \cup {None} /\ pool \in Nat
  /\ DOMAIN att \subseteq Attempts /\ DOMAIN worker \subseteq DOMAIN att
  /\ facts \subseteq DOMAIN att
  /\ \A c \in calls : c[2] \in DOMAIN att
  /\ \A e \in DOMAIN eff : e[2] \in DOMAIN att
       /\ eff[e].state \in {"intended", "dispatching", "observed", "ambiguous",
                            "proven_absent", "reconciled"}

\* A worker runs only for an open attempt whose reservation is live: nobody else
\* holds its lane, its unit of the pool and, if it has one, its mutex.  With the
\* mutex that is what keeps two workers from writing one footprint, and it makes
\* the replacement of a worker wait for the end of the one it replaces.
WorkersHoldTheirReservations ==
  /\ \A k \in DOMAIN worker : worker[k] = "running" =>
       /\ IsOpen(k) /\ res[k[1]] # None
       /\ res[k[1]].stage = k[2] /\ res[k[1]].ord = k[3]
       /\ k[1] \in Shared => mutex = k[1]
  /\ pool = Cardinality(Live) /\ pool <= Capacity
  /\ Live \subseteq lanes /\ Cardinality(lanes) <= MaxLanes

\* A cancellation that is closed left nothing behind: no worker runs, none can
\* still be started, every effect but a cleanup is settled and everything held is
\* given back (record_cancellation).
ClosedIsQuiet ==
  cancel = "closed" =>
    /\ \A k \in DOMAIN worker : worker[k] # "running"
    /\ \A c \in calls : c[1] # "launch"
    /\ \A e \in DOMAIN eff : e[1] = "cleanup" \/ Settled(e)
    /\ OpenAttempts = {} /\ Live = {} /\ lanes = {} /\ mutex = None /\ pool = 0

\* Once the items are fenced, nothing that arrives late gets in: no candidate, no
\* verdict, no result but that of a worker that was cancelled.
FencedStep ==
  cancel # "none" =>
    /\ \A i \in DOMAIN item : item'[i].cand = None /\ item'[i].gen = item[i].gen
    /\ \A i \in DOMAIN stage : \A s \in DOMAIN stage[i] : stage'[i][s].state # "passed"
    /\ \A k \in DOMAIN att : att'[k].result \in {att[k].result, "cancelled"}
FencedStaysFenced == [][FencedStep]_vars

\* An effect whose outcome reconcileCancellation() will never learn: a cleanup
\* whose call ended with its process.
Stranded(e) == e[1] = "cleanup" /\ eff[e].state = "ambiguous" /\ e \notin calls
AnyStranded == \E e \in DOMAIN eff : Stranded(e)

\* A cancellation closes, whatever workers and launches it found, unless it
\* stranded an effect (reconcileCancellation()).
CancellationClosesUnlessStranded == cancel = "open" ~> cancel = "closed" \/ AnyStranded

\* conductor.ts:521 offers to "Cancel the bound run and reconcile every exact
\* effect": a cancellation closes.
CancellationCloses == cancel = "open" ~> cancel = "closed"
=============================================================================
