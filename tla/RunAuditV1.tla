----------------------------- MODULE RunAuditV1 ------------------------------
(***************************************************************************)
(* run-state.ts: what validateRunSemantics() demands of every snapshot of  *)
(* a V1 run.  The reducer computes the state a command leads to and seals  *)
(* it (sealDagRunStateV1); a state that fails the audit is never published *)
(* and the command is refused, whatever the reducer's own checks said.  A  *)
(* command that a legal sequence reaches and the audit refuses can never   *)
(* be taken: where the code has such a one, the action of DagRunV1 has the *)
(* audit's condition as its guard (MayBeFenced, MaySeal, PutCleanup).      *)
(*                                                                         *)
(* The audit of hashes, references, times and authority is left out.       *)
(***************************************************************************)
EXTENDS DagRunV1

AttemptOf(i, s) == <<i, s, stage[i][s].tries>>
Output(k) == IF att[k].out # None THEN att[k].out ELSE att[k].gen
Before(i, s) == \A t \in 1..(s - 1) : stage[i][t].state = "passed"

\* A live reservation is of this owner, holds its lane and binds the generation of
\* its item: the one it was made for, the output of its own producer, or, until the
\* cancellation closes, one that was fenced.
ReservationAgrees(i) ==
  LET r == res[i]
      k == AttemptOf(i, r.stage)
  IN /\ i \in lanes /\ r.epoch = epoch
     /\ \/ r.gen = item[i].gen
        \/ r.state = "release_requested" /\ cancel = "open" /\ r.gen < item[i].gen
        \/ /\ Codes(r.stage) /\ stage[i][r.stage].current
           /\ att[k].gen = r.gen /\ att[k].out = item[i].gen
           /\ item[i].cand # None /\ item[i].cand.by = k

\* What was admitted keeps its lane, also while it is blocked.
LaneAgrees(i) ==
  \/ item[i].current \in {"active", "integration_ready"}
  \/ item[i].current = "blocked" /\ \E s \in Step : stage[i][s].tries > 0
  => i \in lanes

\* The attempt a stage rests on binds the item's generation.  F1 stays passed when F3
\* changes the candidate, and so does F2 if its evaluation was adopted.
GenerationAgrees(i, s) ==
  LET k == AttemptOf(i, s)
      passed == stage[i][s].state = "passed"
  IN IF passed /\ Chain[s] = "F1" THEN att[k].out # None /\ att[k].out <= item[i].gen
     ELSE IF passed /\ stage[i][s].adopted THEN att[k].gen + 1 = item[i].gen
     ELSE Output(k) = item[i].gen

\* The F3 that adopted an evaluation is under way or has passed.
TransitionIsExact(i, s) ==
  \E t \in Step : Chain[t] = "F3" /\ \E k \in DOMAIN att :
    /\ k[1] = i /\ k[2] = t
    /\ att[k].gen = stage[i][s].evidence /\ att[k].out = item[i].cand.gen
    /\ \/ att[k].state = "sealed" /\ stage[i][t].state = "passed"
       \/ att[k].state = "result_observed" /\ stage[i][t].state = "active"

PassedAgrees(i, s) ==
  LET k == AttemptOf(i, s)
      p == stage[i][s]
  IN /\ p.current /\ att[k].state = "sealed" /\ Before(i, s)
     /\ p.evidence = Output(k)
     /\ Owned(s) => att[k].bound /\ att[k].result = "succeeded"
     /\ item[i].cand # None
     /\ \/ p.evidence = item[i].cand.gen
        \/ Chain[s] = "F1"
        \/ Evaluates(s) /\ p.adopted /\ TransitionIsExact(i, s)

StageAgrees(i, s) ==
  LET p == stage[i][s]
      k == AttemptOf(i, s)
  IN /\ p.current => k \in DOMAIN att /\ GenerationAgrees(i, s)
     /\ p.state = "active" => p.current /\ item[i].current = "active" /\ Before(i, s)
     /\ p.adopted => Evaluates(s) /\ p.state = "passed"
     /\ p.state = "passed" => PassedAgrees(i, s)
     /\ p.state = "failed" => p.current /\ att[k].state = "sealed"

\* The candidate is the output of an F1 or F3 that has ended, is at its own stage, or
\* sent the item back to its evaluation.
CandidateAgrees(i) ==
  IF item[i].cand = None
  THEN item[i].gen = 0 \/ item[i].current \in {"blocked", "cancelled"}
  ELSE LET k == item[i].cand.by
       IN /\ item[i].cand.gen = item[i].gen /\ k[1] = i /\ Codes(k[2])
          /\ att[k].out = item[i].gen /\ att[k].result = "succeeded"
          /\ \/ att[k].state = "sealed"
             \/ att[k].state = "result_observed" /\ StageOf(k).state = "active"
                /\ StageOf(k).current /\ StageOf(k).tries = k[3]
             \/ att[k].state = "failed" /\ Chain[k[2]] = "F3"

ReadyAgrees(i) ==
  item[i].current = "integration_ready" =>
    /\ item[i].cand # None /\ \A s \in Step : stage[i][s].state = "passed"
    /\ \A e \in EffectsOf(i) : Settled(e)

\* An owned attempt is bound, or its launch is on the way, or it was cancelled first;
\* what is to be cancelled has been dispatched.
AttemptAgrees(k) ==
  /\ att[k].gen <= item[k[1]].gen
  /\ IF ~Owned(k[2]) THEN ~att[k].bound /\ att[k].result = None
     ELSE /\ \/ att[k].bound
             \/ att[k].state \in {"dispatchable", "launching"}
             \/ att[k].state \in {"cancelling", "cancelled"} /\ att[k].result = None
          /\ att[k].bound => EffectIn("launch", k, {"reconciled"})
          /\ att[k].state = "cancelling" => ~EffectIn("launch", k, {"proven_absent"})

EffectAgrees(e) ==
  LET k == e[2]
      pending == eff[e].state \in {"intended", "dispatching"}
  IN /\ eff[e].epoch <= epoch
     /\ pending /\ e[1] # "cleanup" => eff[e].gen = item[k[1]].gen
     /\ eff[e].state = "intended" /\ e[1] # "procedure" => eff[e].epoch = epoch
     /\ e[1] = "cleanup" => ~IsOpen(k) /\ att[k].bound /\ att[k].result # None
     /\ e[1] \in {"launch", "procedure"} /\ ~IsOpen(k) => ~pending
     /\ e[1] = "procedure" =>
          /\ eff[e].gen = Output(k)
          /\ eff[e].seen <=> eff[e].state \notin {"intended", "dispatching", "proven_absent"}

\* Every snapshot that a command leads to passes the audit (validateRunSemantics):
\* reservations, lanes, stages, verdicts, candidates, attempts and effects of one run
\* never disagree, so no command that the reducer accepts is refused by its seal but
\* those whose guards say so.
Audit ==
  /\ TypeOK
  /\ \A i \in Live : ReservationAgrees(i)
  /\ \A i \in Item : LaneAgrees(i) /\ CandidateAgrees(i) /\ ReadyAgrees(i)
  /\ \A i \in Item, s \in Step : StageAgrees(i, s)
  /\ \A k \in DOMAIN att : AttemptAgrees(k)
  /\ \A e \in DOMAIN eff : EffectAgrees(e)
=============================================================================
