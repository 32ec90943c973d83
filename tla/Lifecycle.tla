------------------------------ MODULE Lifecycle ------------------------------
(***************************************************************************)
(* The lifecycle F0..F8 of the items of one V2 run: runtime-v2/lifecycle.ts*)
(* and the service methods that drive it, with the checks() call of        *)
(* product.ts, which spans many store transactions and runs a command or   *)
(* producer between them.                                                  *)
(*                                                                         *)
(* A step is one store transaction, or the execution of a check.  Every    *)
(* other call is a single transaction and refuses to act on a revision it  *)
(* has not read (DagRun models that), so only checks(), which reads again  *)
(* before each of its transactions, can meet a lifecycle that moved on.    *)
(*                                                                         *)
(* The run is active until it is cancelled; pausing and replanning only    *)
(* withhold steps.                                                         *)
(***************************************************************************)
EXTENDS RetryRules, Functions

CONSTANTS
  Items,
  Checks,       \* the required checks of an item's plan entry, in plan order
  StageOf,      \* StageOf[k]: the stage that check k belongs to
  Candidates,   \* commits a worker may deliver
  Tree,         \* Tree[c]: the tree of candidate c
  Baseline,     \* the tree the run starts from
  Outcomes,     \* Outcomes[k]: the results check k may have
  WorkerId,     \* WorkerId[i][g]: the identity of the worker of generation g
  MaxGen        \* bound: generations of an item

Gens == 1..MaxGen
Dimensions == DOMAIN Limit
CheckSet == Range(Checks)

Replay == 7     \* the stage that repeats every check
Final == 8
Independent == {2, 5, 7}

\* A result: its disposition, the kind of its blocking finding if it has one,
\* the fingerprint of the failure, and the context that produced it.  A command
\* has a context of its own; a producer reports one.
Own == "own"
Nobody == "nobody"
Result(d, k, f, c) == [disposition |-> d, kind |-> k, fingerprint |-> f, context |-> c]
Pending == Result("none", "none", "none", Own)
Unavailable == Result("BLOCKED", "infrastructure", "execution-unavailable", Own)
Results == {Unavailable} \cup UNION {Outcomes[k] : k \in CheckSet}

\* parsePlanV2 asks for a required check at every stage; auditResultV2 lets no
\* executor report a passed check with a blocking finding; the identity of a
\* worker is made from the item and the generation it works on.
ASSUME LifecycleAssumption ==
  /\ StageOf \in [CheckSet -> 1..Replay]
  /\ \A s \in 1..Replay : \E k \in CheckSet : StageOf[k] = s
  /\ {"product", "test", "review", "hardening", "infrastructure", "integration"}
       \subseteq Dimensions
  /\ \A r \in Results : /\ r.disposition \in {"PASS", "FAIL", "BLOCKED"}
                        /\ r.kind \in {"none", "infrastructure", "product", "test", "review"}
                        /\ r.disposition = "PASS" => r.kind = "none"
                        /\ r.context # Nobody
  /\ \A i \in Items, g \in Gens : WorkerId[i][g] \notin {Own, Nobody}
  /\ \A i, j \in Items, g, h \in Gens : WorkerId[i][g] = WorkerId[j][h] => i = j /\ g = h
  /\ Baseline \notin Candidates /\ MaxGen \in Nat \ {0}

VARIABLES
  node,      \* status, generation, and the worker its reservation is bound to
  life,      \* node.lifecycle without its executions
  execs,     \* executions that count or still await their result
  past,      \* the contexts of the others, which are quarantined
  findings,  \* executions whose blocking finding has no disposition
  ledger,    \* repairs spent
  git,       \* the Git operation of the item's latest generation
  call       \* the checks() call in progress

vars == <<node, life, execs, past, findings, ledger, git, call>>

Slot == [check : CheckSet, stage : 1..Replay, round : Nat]
SlotOf(e) == [check |-> e.check, stage |-> e.stage, round |-> e.round]

Execution ==
  [check : CheckSet, stage : 1..Replay, round : Nat, gen : Gens, candidate : Candidates,
   status : {"intent", "observed", "quarantined"}, job : Results \cup {Pending},
   recorded : BOOLEAN, rejected : BOOLEAN]

\* Entries of a ledger: failed checks, candidates given up and landings closed.
Repairs ==
  [dim : Dimensions, stage : 0..Replay, procedure : CheckSet \cup {"candidate", "native-git"},
   fingerprint : {r.fingerprint : r \in Results}
                   \cup {"context-reused", "candidate-change", "operation-closed"},
   tree : {Tree[c] : c \in Candidates \cup {Baseline}}]

Workers == {WorkerId[i][g] : i \in Items, g \in Gens}

NodeType ==
  [status : {"pending", "active", "complete", "cancelled"}, gen : 1..MaxGen + 1,
   worker : {Nobody} \cup Workers]

LifeType ==
  [candidate : Candidates \cup {Baseline}, candidateReady : BOOLEAN, candidates : SUBSET Candidates,
   round : Nat, stage : 1..Final, passed : SUBSET (0..Final), ready : BOOLEAN, stop : BOOLEAN]

Idle == [item |-> Nobody]
CallType ==
  {Idle} \cup
  [item : Items, gen : 1..MaxGen + 1, stage : 1..Final, round : Nat, left : SUBSET CheckSet,
   step : {"prepare", "execute", "record"}, slot : SUBSET Slot]

TypeOK ==
  /\ node \in [Items -> NodeType]
  /\ life \in [Items -> LifeType]
  /\ execs \in [Items -> SUBSET Execution]
  /\ findings \in [Items -> SUBSET Slot]
  /\ ledger \in [Items -> Seq(Repairs)]
  /\ git \in [Items -> {"none", "open", "closed", "accepted"}]
  /\ call \in CallType

Init ==
  /\ node = [i \in Items |-> [status |-> "pending", gen |-> 1, worker |-> Nobody]]
  /\ life = [i \in Items |-> [candidate |-> Baseline, candidateReady |-> FALSE, candidates |-> {},
                              round |-> 0, stage |-> 1, passed |-> {0}, ready |-> FALSE,
                              stop |-> FALSE]]
  /\ execs = [i \in Items |-> {}]
  /\ past = [i \in Items |-> {}]
  /\ findings = [i \in Items |-> {}]
  /\ ledger = [i \in Items |-> <<>>]
  /\ git = [i \in Items |-> "none"]
  /\ call = Idle

-----------------------------------------------------------------------------
(* Helpers.  Each that a mistake in the code would change is preceded by   *)
(* the mistaken form.                                                      *)

\* stageChecksV2
StageChecks(s) == {k \in CheckSet : s = Replay \/ StageOf[k] = s}

\* currentExecutionV2
Current(i, e) ==
  /\ node[i].gen = e.gen /\ node[i].status # "cancelled"
  /\ node[i].worker = WorkerId[i][e.gen]
  /\ e.round <= life[i].round /\ e.candidate = life[i].candidate

Counts(i, e) == e.status = "observed" /\ Current(i, e)
Passes(e) == e.recorded /\ ~ e.rejected /\ e.job.disposition = "PASS"
Settled(i) == \A e \in execs[i] : e.recorded

\* assertStageV2
StageHolds(i, s) ==
  \A k \in StageChecks(s) :
    LET matches == {e \in execs[i] : e.stage = s /\ e.check = k /\ Counts(i, e)} IN
      Cardinality(matches) = 1 /\ \A e \in matches : Passes(e)

\* assertReadyV2
Verified(i) ==
  /\ life[i].candidateReady /\ life[i].ready /\ life[i].stage = Final /\ ~ life[i].stop
  /\ life[i].passed = 0..Final
  /\ findings[i] = {} /\ Settled(i)
  /\ \A s \in 1..Replay : StageHolds(i, s)

\* unresolvedGitV2
Unresolved(i) == git[i] = "open"

\* What is known of the contexts of every execution of the run.
Trace(i, e) == [context |-> IF e.recorded THEN e.job.context ELSE Own,
                independent |-> e.stage \in Independent, worker |-> WorkerId[i][e.gen]]
Others(i, e) ==
  past[i] \cup {Trace(i, x) : x \in execs[i] \ {e}}
    \cup UNION {past[j] \cup {Trace(j, x) : x \in execs[j]} : j \in Items \ {i}}

\* contextReusedV2: an independent check must not be made by a worker, nor in a
\* context that ever produced another result of the run.
ContextReused(i, e) ==
  /\ e.job.context # Own
  /\ \/ /\ e.stage \in Independent
        /\ \/ \E j \in Items : node[j].worker = e.job.context
           \/ \E t \in Others(i, e) \cup {Trace(i, e)} : t.worker = e.job.context
     \/ \E t \in Others(i, e) :
          t.context = e.job.context /\ (t.independent \/ e.stage \in Independent)

\* Mistake: an execution that still awaits its result is not quarantined.
WithoutRecorded(i, from) == {e \in execs[i] : ~ (e.recorded /\ e.stage >= from)}

\* Executions of these stages are quarantined.
Without(i, from) ==
  {IF e.stage >= from THEN [e EXCEPT !.status = "quarantined"] ELSE e :
     e \in {x \in execs[i] : ~ (x.recorded /\ x.stage >= from)}}
PastWith(i, from) ==
  past[i] \cup {Trace(i, e) : e \in {x \in execs[i] : x.recorded /\ x.stage >= from}}

\* invalidateLifecycleV2
Invalidated(l) == [l EXCEPT !.ready = FALSE, !.passed = {0}, !.stage = 1, !.round = @ + 1]

\* frameV2
Framed(l, c) == [l EXCEPT !.candidate = c, !.candidateReady = TRUE, !.candidates = @ \cup {c},
                          !.round = @ + 1, !.stage = 1, !.passed = {0}, !.ready = FALSE]

\* The item is stopped at a tree it had left.
Halted(l) == [l EXCEPT !.stop = TRUE, !.ready = FALSE, !.passed = @ \ {Final}]

\* The next generation starts without a worker and without a candidate.
Vacated(n) == [n EXCEPT !.gen = @ + 1, !.worker = Nobody]
Unframed(l) == [Invalidated(l) EXCEPT !.candidateReady = FALSE]
Fenced(n) == [n EXCEPT !.status = "cancelled", !.gen = @ + 1]

-----------------------------------------------------------------------------
(* The worker, its candidates and its replacement.                         *)

\* reserve() frames the item (F0) before anything can be authored.
Reserve(i) ==
  /\ node[i].status = "pending"
  /\ node' = [node EXCEPT ![i].status = "active"]
  /\ life' = [life EXCEPT ![i].round = 1]
  /\ UNCHANGED <<execs, past, findings, ledger, git, call>>

Bind(i) ==
  /\ node[i].status = "active" /\ node[i].worker = Nobody
  /\ ~ life[i].stop
  /\ node' = [node EXCEPT ![i].worker = WorkerId[i][node[i].gen]]
  /\ UNCHANGED <<life, execs, past, findings, ledger, git, call>>

CandidateRepair(i) == Repair("product", 1, "candidate", "candidate-change", Tree[life[i].candidate])

\* setCandidate(): a tree that was tried and left stops the item; any other
\* change of a candidate is paid for and discards all evidence.
SetCandidate(i, c) ==
  /\ node[i].status = "active" /\ node[i].worker # Nobody
  /\ ~ life[i].stop /\ ~ Unresolved(i)
  /\ ~ (life[i].candidateReady /\ life[i].candidate = c)
  /\ LET known == {Tree[x] : x \in life[i].candidates} IN
     IF Tree[c] # Tree[life[i].candidate] /\ Tree[c] \in known
       THEN /\ life' = [life EXCEPT ![i] = Halted(@)]
            /\ UNCHANGED <<execs, past, ledger>>
       ELSE IF life[i].candidateReady
       THEN /\ ~ Refuses(ledger[i], CandidateRepair(i))
            /\ ledger' = [ledger EXCEPT ![i] = Append(@, CandidateRepair(i))]
            /\ life' = [life EXCEPT ![i] = Framed(Invalidated(@), c)]
            /\ execs' = [execs EXCEPT ![i] = Without(i, 1)]
            /\ past' = [past EXCEPT ![i] = PastWith(i, 1)]
       ELSE /\ life' = [life EXCEPT ![i] = Framed(@, c)]
            /\ UNCHANGED <<execs, past, ledger>>
  /\ UNCHANGED <<node, findings, git, call>>

\* replaceWorker() and replace(), once the bound worker has settled.
Replace(i) ==
  /\ node[i].status = "active" /\ node[i].gen < MaxGen
  /\ node[i].worker # Nobody
  /\ ~ Unresolved(i) /\ Settled(i)
  /\ node' = [node EXCEPT ![i] = Vacated(@)]
  /\ life' = [life EXCEPT ![i] = Unframed(@)]
  /\ execs' = [execs EXCEPT ![i] = Without(i, 1)]
  /\ past' = [past EXCEPT ![i] = PastWith(i, 1)]
  /\ git' = [git EXCEPT ![i] = "none"]
  /\ UNCHANGED <<findings, ledger, call>>

\* cancel() fences every unfinished item of the run.
Cancel ==
  LET fenced == {i \in Items : node[i].status \in {"pending", "active"}} IN
  /\ fenced # {}
  /\ node' = [i \in Items |-> IF i \in fenced THEN Fenced(node[i]) ELSE node[i]]
  /\ life' = [i \in Items |-> IF i \in fenced /\ life[i].round > 0
                THEN Invalidated(life[i]) ELSE life[i]]
  /\ execs' = [i \in Items |-> IF i \in fenced THEN Without(i, 1) ELSE execs[i]]
  /\ past' = [i \in Items |-> IF i \in fenced THEN PastWith(i, 1) ELSE past[i]]
  /\ UNCHANGED <<findings, ledger, git, call>>

-----------------------------------------------------------------------------
(* The checks() call: prepare, execute and record each check of the stage, *)
(* then advance.  Other calls interleave with it; it may end at any point. *)

StartChecks(i) ==
  /\ call = Idle
  /\ node[i].status = "active" /\ ~ life[i].ready
  /\ call' = [item |-> i, gen |-> node[i].gen, stage |-> life[i].stage, round |-> life[i].round,
              left |-> StageChecks(life[i].stage), step |-> "prepare", slot |-> {}]
  /\ UNCHANGED <<node, life, execs, past, findings, ledger, git>>

\* Mistake: prepareCheck and advanceLifecycle take the attempt they find.
SameAttemptAny == node[call.item].gen = call.gen

\* The attempt the call was started for is still the one under way.
SameAttempt ==
  LET l == life[call.item] IN
    node[call.item].gen = call.gen /\ l.stage = call.stage /\ l.round = call.round

\* Producers know the workers there have been, and no others.
Deployed(w) ==
  \A j \in Items, g \in Gens : WorkerId[j][g] = w => g < node[j].gen \/ node[j].worker = w

InCall(step) == call # Idle /\ call.step = step
\* The execution the call is about to run or to record.
HandledByCall(i, e) == call # Idle /\ call.item = i /\ SlotOf(e) \in call.slot

\* The checks of a stage are made in plan order.
First(k, left) ==
  \E n \in DOMAIN Checks : Checks[n] = k /\ \A m \in 1..n - 1 : Checks[m] \notin left

\* prepareCheck() writes an execution down before it may run, or finds it there.
PrepareCheck ==
  /\ InCall("prepare")
  /\ \E k \in call.left :
       LET i == call.item
           l == life[i]
           there == {e \in execs[i] : e.stage = l.stage /\ e.check = k
                                      /\ e.status # "quarantined" /\ Current(i, e)}
           new == [check |-> k, stage |-> l.stage, round |-> l.round, gen |-> call.gen,
                   candidate |-> l.candidate, status |-> "intent", job |-> Pending,
                   recorded |-> FALSE, rejected |-> FALSE]
       IN
         /\ First(k, call.left)
         /\ SameAttempt
         /\ node[i].status = "active" /\ node[i].worker # Nobody
         /\ l.candidateReady /\ ~ l.stop
         /\ k \in StageChecks(l.stage)
         /\ \E e \in IF there = {} THEN {new} ELSE there :
              /\ execs' = [execs EXCEPT ![i] = @ \cup {e}]
              /\ call' = [call EXCEPT !.step = "execute", !.slot = {SlotOf(e)}]
  /\ UNCHANGED <<node, life, past, findings, ledger, git>>

\* The runner leaves a durable result; it launches nothing for an intent that
\* no longer is current.
ExecuteCheck ==
  /\ InCall("execute")
  /\ \E e \in execs[call.item] :
       /\ SlotOf(e) \in call.slot
       /\ IF e.job # Pending THEN UNCHANGED execs
          ELSE LET fenced == e.status # "intent" \/ node[call.item].gen # e.gen
                               \/ node[call.item].status # "active"
                   results == IF fenced THEN {Unavailable} ELSE
                                {r \in Outcomes[e.check] :
                                   /\ Deployed(r.context)
                                   /\ e.stage \in Independent
                                        => r.context # WorkerId[call.item][e.gen]}
               IN \E r \in results :
                    execs' = [execs EXCEPT ![call.item] = (@ \ {e}) \cup {[e EXCEPT !.job = r]}]
  /\ call' = [call EXCEPT !.step = "record"]
  /\ UNCHANGED <<node, life, past, findings, ledger, git>>

\* Mistake: a result counts, whatever became of its attempt meanwhile.
StaleNever(i, e) == FALSE

Stale(i, e) == e.status = "quarantined" \/ ~ Current(i, e)

\* recordResult(): a result counts only while its execution is current; a stale
\* one is retained, and the context it used with it.
Record(i, e) ==
  /\ e.job # Pending /\ ~ e.recorded
  /\ LET seen == [e EXCEPT !.recorded = TRUE, !.rejected = ContextReused(i, e)] IN
     IF Stale(i, e)
       THEN /\ execs' = [execs EXCEPT ![i] = @ \ {e}]
            /\ past' = [past EXCEPT ![i] = @ \cup {Trace(i, seen)}]
            /\ UNCHANGED findings
       ELSE /\ execs' = [execs EXCEPT ![i] = (@ \ {e}) \cup {[seen EXCEPT !.status = "observed"]}]
            /\ findings' = [findings EXCEPT ![i] =
                 IF e.job.kind = "none" THEN @ ELSE @ \cup {SlotOf(e)}]
            /\ UNCHANGED past
  /\ UNCHANGED <<node, life, ledger, git>>

RecordCheck ==
  /\ InCall("record")
  /\ \/ \E e \in execs[call.item] : SlotOf(e) \in call.slot /\ Record(call.item, e)
     \/ /\ \A e \in execs[call.item] : SlotOf(e) \in call.slot => e.recorded
        /\ UNCHANGED <<node, life, execs, past, findings, ledger, git>>
  /\ call' = [call EXCEPT !.step = "prepare", !.slot = {},
                          !.left = @ \ {f.check : f \in call.slot}]

StagePassed(l) == [l EXCEPT !.passed = @ \cup {l.stage}, !.stage = @ + 1]
MadeReady(l) == [l EXCEPT !.passed = @ \cup {Final}, !.ready = TRUE]

\* advanceLifecycle()
Advance ==
  /\ InCall("prepare") /\ call.left = {}
  /\ LET i == call.item
         l == life[i]
     IN
       /\ SameAttempt
       /\ node[i].status = "active" /\ ~ l.stop
       /\ findings[i] = {}
       /\ IF l.stage < Final
            THEN /\ StageHolds(i, l.stage)
                 /\ life' = [life EXCEPT ![i] = StagePassed(@)]
            ELSE /\ l.candidateReady /\ Settled(i)
                 /\ \A s \in 1..Replay : StageHolds(i, s)
                 /\ life' = [life EXCEPT ![i] = MadeReady(@)]
  /\ call' = Idle
  /\ UNCHANGED <<node, execs, past, findings, ledger, git>>

\* A step of the call is refused, the caller aborts it, or the process dies.
EndCall ==
  /\ call # Idle
  /\ call' = Idle
  /\ UNCHANGED <<node, life, execs, past, findings, ledger, git>>

\* dag_recover_execution and finalize(): what was interrupted, or fenced before it
\* was launched, gets a result that says so.
Recover(i, e) ==
  /\ e.job = Pending /\ ~ HandledByCall(i, e)
  /\ e.status = "quarantined" \/ Unavailable \in Outcomes[e.check]
  /\ execs' = [execs EXCEPT ![i] = (@ \ {e}) \cup {[e EXCEPT !.job = Unavailable]}]
  /\ UNCHANGED <<node, life, past, findings, ledger, git, call>>

RecordRecovered(i, e) ==
  /\ ~ HandledByCall(i, e)
  /\ Record(i, e)
  /\ UNCHANGED call

-----------------------------------------------------------------------------
(* Repairs.                                                                *)

Dimension(e) ==
  IF e.rejected \/ e.job.kind = "infrastructure" THEN "infrastructure"
  ELSE IF e.job.kind # "none" THEN e.job.kind
  ELSE IF e.stage = 3 THEN "test" ELSE IF e.stage = 5 THEN "review"
  ELSE IF e.stage = 6 THEN "hardening" ELSE "product"

Target(e) ==
  CASE Dimension(e) = "test" -> 3
    [] Dimension(e) = "review" -> 5
    [] Dimension(e) = "infrastructure" -> e.stage
    [] OTHER -> 1

BackTo(i, e) == IF Target(e) < life[i].stage THEN Target(e) ELSE life[i].stage

RepairFor(i, e) ==
  Repair(Dimension(e), StageOf[e.check], e.check,
         IF e.rejected THEN "context-reused" ELSE e.job.fingerprint, Tree[life[i].candidate])

\* Mistake: a refusal is reported to the caller and not kept.
StoppedForNow(l) == l

Stopped(l) == [l EXCEPT !.stop = TRUE]

\* Mistake: what was passed stays passed.
RegressedKeepingPassed(l, to) == [l EXCEPT !.ready = FALSE, !.round = @ + 1, !.stage = to]

Regressed(l, to) ==
  [l EXCEPT !.ready = FALSE, !.round = @ + 1, !.stage = to, !.passed = {s \in @ : s < to}]

\* retryCheck(): back to the stage the failure calls for, or a durable stop.
RetryCheck(i, e) ==
  /\ node[i].status = "active" /\ ~ Unresolved(i)
  /\ Counts(i, e) /\ ~ Passes(e)
  /\ Settled(i)
  /\ IF Refuses(ledger[i], RepairFor(i, e))
       THEN /\ life' = [life EXCEPT ![i] = Stopped(@)]
            /\ UNCHANGED <<execs, past, ledger>>
       ELSE LET to == BackTo(i, e) IN
            /\ ledger' = [ledger EXCEPT ![i] = Append(@, RepairFor(i, e))]
            /\ life' = [life EXCEPT ![i] = Regressed(@, to)]
            /\ execs' = [execs EXCEPT ![i] = Without(i, to)]
            /\ past' = [past EXCEPT ![i] = PastWith(i, to)]
  /\ UNCHANGED <<node, findings, git, call>>

DispositionFinding(i, f) ==
  /\ f \in findings[i]
  /\ findings' = [findings EXCEPT ![i] = @ \ {f}]
  /\ UNCHANGED <<node, life, execs, past, ledger, git, call>>

-----------------------------------------------------------------------------
(* Git, as far as the lifecycle is concerned.                              *)

GitOpen(i) ==
  /\ node[i].status = "active" /\ node[i].worker # Nobody
  /\ Verified(i) /\ git[i] = "none"
  /\ git' = [git EXCEPT ![i] = "open"]
  /\ UNCHANGED <<node, life, execs, past, findings, ledger, call>>

\* closeOperation() spends an integration repair, except to finish a cancellation.
GitClose(i) ==
  /\ git[i] = "open"
  /\ git' = [git EXCEPT ![i] = "closed"]
  /\ LET r == Repair("integration", 0, "native-git", "operation-closed", Tree[life[i].candidate]) IN
     IF node[i].status = "cancelled" THEN UNCHANGED ledger
     ELSE ~ Refuses(ledger[i], r) /\ ledger' = [ledger EXCEPT ![i] = Append(@, r)]
  /\ UNCHANGED <<node, life, execs, past, findings, call>>

Integrate(i) ==
  /\ node[i].status = "active" /\ git[i] = "open"
  /\ Verified(i)
  /\ git' = [git EXCEPT ![i] = "accepted"]
  /\ node' = [node EXCEPT ![i].status = "complete"]
  /\ UNCHANGED <<life, execs, past, findings, ledger, call>>

-----------------------------------------------------------------------------
CallStep == PrepareCheck \/ ExecuteCheck \/ RecordCheck \/ Advance

Next ==
  \/ \E i \in Items :
       \/ Reserve(i) \/ Bind(i) \/ Replace(i) \/ StartChecks(i)
       \/ \E c \in Candidates : SetCandidate(i, c)
       \/ \E e \in execs[i] : Recover(i, e) \/ RecordRecovered(i, e) \/ RetryCheck(i, e)
       \/ \E f \in findings[i] : DispositionFinding(i, f)
       \/ GitOpen(i) \/ GitClose(i) \/ Integrate(i)
  \/ Cancel \/ CallStep \/ EndCall

Spec == Init /\ [][Next]_vars

-----------------------------------------------------------------------------
(* Properties.                                                             *)

\* auditLifecycleV2 and auditSnapshotV2 reject a publication that breaks these,
\* after the work is done: no sequence of legal calls must get there.
PassedInOrder ==
  \A i \in Items :
    life[i].passed = (0..life[i].stage - 1) \cup (IF life[i].ready THEN {Final} ELSE {})

ExecutionsFit ==
  \A i \in Items : \A e \in execs[i] :
    e.check \in StageChecks(e.stage) /\ (e.status = "observed" => e.recorded)

PassedStagesHold ==
  \A i \in Items : \A s \in life[i].passed \ {0, Final} : StageHolds(i, s)

ReadyIsVerified == \A i \in Items : life[i].ready => Verified(i)

CeilingsHold ==
  \A i \in Items, d \in Dimensions :
    Cardinality({n \in DOMAIN ledger[i] : ledger[i][n].dim = d}) <= Limit[d]

AuditLifecycle ==
  /\ TypeOK /\ ExecutionsFit /\ PassedInOrder /\ PassedStagesHold
  /\ ReadyIsVerified /\ CeilingsHold

\* Nothing that counts was made for an earlier candidate, worker or generation.
LiveIsCurrent ==
  \A i \in Items : \A e \in execs[i] : e.status # "quarantined" => Current(i, e)

\* While an item is being landed, the evidence it lands on stays in force.
LandingStaysVerified ==
  \A i \in Items : git[i] = "open" /\ node[i].status = "active" => Verified(i)

\* An accepted independent result was made in a context of its own, which is no
\* worker's that is bound or has had work checked, in any item of the run.
Accepted(e) == e.recorded /\ ~ e.rejected /\ e.job.context # Own
IndependentContexts ==
  \A i \in Items : \A e \in execs[i] : Accepted(e) /\ e.stage \in Independent =>
    \A j \in Items :
      /\ node[j].worker # e.job.context
      /\ \A x \in execs[j] :
           /\ WorkerId[j][x.gen] # e.job.context
           /\ (i # j \/ x # e) /\ Accepted(x) => x.job.context # e.job.context

\* Evidence is in force: what counts was made for what is worked on, what an open landing
\* rests on still holds, and what is independent is so of everything else that counts.
EvidenceInForce == LiveIsCurrent /\ LandingStaysVerified /\ IndependentContexts

\* README.md:336-337 asks for contexts "distinct from implementation": none may
\* be that of a worker that ever implemented the item.
EvaluatorsDidNotImplement ==
  \A i \in Items : \A e \in execs[i] : Accepted(e) /\ e.stage \in Independent =>
    \A g \in 1..e.gen : e.job.context # WorkerId[i][g]

\* A checks() call that was overtaken by a repair, a new candidate or a
\* replacement neither prepares nor advances anything for the attempt it finds.
AttemptsDoNotMix ==
  [][ \A i \in Items :
        /\ \A e \in execs'[i] : SlotOf(e) \notin {SlotOf(x) : x \in execs[i]} =>
             call.item = i /\ e.gen = call.gen /\ e.stage = call.stage /\ e.round = call.round
        /\ ~ (life'[i].passed \subseteq life[i].passed) =>
             call.item = i /\ node[i].gen = call.gen /\ life[i].round = call.round ]_vars

-----------------------------------------------------------------------------
(* Refinement.                                                             *)

Coarse ==
  [i \in Items |->
    [cand |-> life[i].candidateReady, ready |-> life[i].ready, stop |-> life[i].stop,
     failed |-> \E e \in execs[i] : Counts(i, e) /\ ~ Passes(e),
     open |-> {IF e.status = "quarantined" THEN "stale" ELSE "current" :
                 e \in {x \in execs[i] : ~ x.recorded}},
     findings |-> IF findings[i] = {} THEN {} ELSE {"blocking"}]]

Abstract == INSTANCE ItemLife WITH life <- Coarse, Findings <- {"blocking"}

\* What DagRun assumes of the lifecycle of an item holds of the detailed one.
ItemLivesAsAssumed == Abstract!Spec

-----------------------------------------------------------------------------
(* Liveness.                                                               *)

\* The agent follows product.ts next(): it runs the checks of a stage and retries
\* what failed.  Every call ends, but from some time on none is cut short that
\* could go on.
FairSpec ==
  /\ Spec
  /\ WF_vars(CallStep) /\ WF_vars(EndCall)
  /\ <>[][EndCall => ~ ENABLED CallStep]_vars
  /\ \A i \in Items : /\ SF_vars(StartChecks(i))
                      /\ SF_vars(\E e \in execs[i] : RetryCheck(i, e))

\* Repairs end: an item with a candidate becomes ready, is stopped, or waits for
\* somebody to judge a finding, unless it is replaced or cancelled.
RepairsEnd ==
  \A i \in Items :
    life[i].candidateReady ~>
      \/ life[i].ready \/ life[i].stop \/ findings[i] # {}
      \/ ~ life[i].candidateReady \/ node[i].status # "active"
=============================================================================
