----------------------------- MODULE RunV1Proofs -----------------------------
(***************************************************************************)
(* What holds of a V1 run for any number of items, any chain of stages,    *)
(* any limits and any number of owners: who runs holds what was reserved   *)
(* for it, a cancellation that is closed left nothing behind, nothing late *)
(* gets past the fence of a cancellation, every snapshot that a command    *)
(* leads to passes the audit of its seal, and whoever writes a snapshot    *)
(* extends the newest one.                                                 *)
(***************************************************************************)
EXTENDS RunAuditV1, RunSnapshot, FiniteSetTheorems, TLAPS

ItemStates == {"pending", "active", "blocked", "integration_ready", "cancelled"}
StageStates == {"pending", "active", "passed", "failed", "cancelled", "invalidated"}
ResStates == {"reserved", "dispatch_intent", "active", "release_requested"}
AttStates == {"dispatchable", "launching", "running", "result_observed", "sealed", "failed",
              "cancelling", "cancelled"}
EffStates == {"intended", "dispatching", "observed", "ambiguous", "proven_absent", "reconciled"}
WorkerStates == {"running", "succeeded", "failed", "cancelled"}
Kinds == {"launch", "procedure", "cleanup", "cancel"}

Candidates == [gen : Nat, by : Attempts]
Items == [desired : {"run", "cancel"}, current : ItemStates, gen : Nat,
          cand : Candidates \cup {None}]
Stages == [state : StageStates, tries : 0..MaxReroutes, current : BOOLEAN,
           evidence : Nat \cup {None}, adopted : BOOLEAN]
Reservations == [stage : Step, ord : 1..MaxReroutes, state : ResStates, gen : Nat,
                 epoch : 1..MaxEpoch]
AttRecords == [state : AttStates, gen : Nat, out : Nat \cup {None}, bound : BOOLEAN,
               result : {"succeeded", "failed", "cancelled", None}]
EffRecords == [state : EffStates, gen : Nat, epoch : 1..MaxEpoch, seen : BOOLEAN]

RunTyped ==
  /\ desired \in {"running", "paused", "cancelled"}
  /\ cancel \in {"none", "open", "closed"} /\ epoch \in 1..MaxEpoch
ItemsTyped == item \in [Item -> Items] /\ stage \in [Item -> [Step -> Stages]]
AccountsTyped ==
  /\ res \in [Item -> Reservations \cup {None}]
  /\ lanes \subseteq Item /\ mutex \in Item \cup {None} /\ pool \in Nat
AttTyped == att \in [DOMAIN att -> AttRecords] /\ DOMAIN att \subseteq Attempts
EffTyped == eff \in [DOMAIN eff -> EffRecords] /\ DOMAIN eff \subseteq Kinds \X DOMAIN att
WorldTyped ==
  /\ worker \in [DOMAIN worker -> WorkerStates] /\ DOMAIN worker \subseteq DOMAIN att
  /\ calls \subseteq Kinds \X DOMAIN att /\ facts \subseteq DOMAIN att
TypeInv == RunTyped /\ ItemsTyped /\ AccountsTyped /\ AttTyped /\ EffTyped /\ WorldTyped

\* Attempts of a stage are numbered in their order, and an open one is that of the live
\* reservation: a second one would need another reservation.
Holds(k) == res[k[1]] # None /\ res[k[1]].stage = k[2] /\ res[k[1]].ord = k[3]
OpenHolds ==
  \A k \in DOMAIN att : k[3] <= stage[k[1]][k[2]].tries /\ (IsOpen(k) => Holds(k))

\* A launch that is under way belongs to an attempt that is open, bound to nobody and, even
\* when it was fenced, known to have been dispatched.
MayStart(k) ==
  /\ IsOpen(k) /\ ~att[k].bound
  /\ \/ att[k].state = "launching" /\ EffectIn("launch", k, {"dispatching"})
     \/ att[k].state = "cancelling" /\ EffectIn("launch", k, {"ambiguous"})
LaunchesAreKnown == \A k \in DOMAIN att : <<"launch", k>> \in calls => MayStart(k)

\* A worker was launched, for an attempt of a stage that is done by one; it runs no longer
\* than its attempt is open, and an attempt is bound only to a worker there is.
WorkerFits(k) ==
  /\ Owned(k[2]) /\ EffectIn("launch", k, {"dispatching", "ambiguous", "reconciled"})
  /\ worker[k] = "running" => IsOpen(k) /\ att[k].state # "result_observed"
AttemptFits(k) ==
  /\ HasEffect("launch", k) => Owned(k[2])
  /\ att[k].state \in {"dispatchable", "launching", "result_observed"} => Owned(k[2])
  /\ att[k].bound => k \in DOMAIN worker /\ EffectIn("launch", k, {"reconciled"})
WorkersFit ==
  /\ \A k \in DOMAIN worker : WorkerFits(k)
  /\ \A k \in DOMAIN att : AttemptFits(k)

\* Lanes, the mutex and the pool are those of the live reservations.
Accounted ==
  /\ pool = Cardinality(Live) /\ pool <= Capacity
  /\ Live \subseteq lanes /\ Cardinality(lanes) <= MaxLanes
  /\ \A i \in Live \cap Shared : mutex = i

\* Behind the fence of a cancellation nothing goes on ...
Fence ==
  /\ cancel # "none" <=> desired = "cancelled"
  /\ cancel # "none" =>
       /\ \A i \in Item : item[i].cand = None /\ \A s \in Step : stage[i][s].state # "passed"
       /\ \A k \in DOMAIN att : IsOpen(k) => att[k].state = "cancelling"
       /\ \A i \in Live : res[i].state = "release_requested"

\* ... and when it is closed nothing is left.
Closed ==
  cancel = "closed" =>
    /\ \A k \in DOMAIN att : ~IsOpen(k)
    /\ \A e \in DOMAIN eff : e[1] = "cleanup" \/ Settled(e)
    /\ Live = {} /\ lanes = {} /\ mutex = None

IInv == /\ TypeInv /\ OpenHolds /\ LaunchesAreKnown /\ WorkersFit /\ Accounted /\ Fence /\ Closed

-----------------------------------------------------------------------------
(* Facts about the operators.                                              *)

LEMMA ChainIsLong == Len(Chain) \in Nat \ {0} /\ Len(Chain) \in Step
BY DagRunV1Assumption DEF Step

LEMMA LimitsAreNumbers ==
  MaxLanes \in Nat /\ Capacity \in Nat /\ Replacements \in Nat /\ MaxReroutes \in Nat
BY DagRunV1Assumption

\* A set of numbers that is not empty has a least element: the intervals up to its elements
\* are well-founded by inclusion.
LEMMA LeastIsThere ==
  ASSUME NEW T, T \subseteq Nat \ {0}, T # {}
  PROVE  Min(T) \in T /\ \A y \in T : Min(T) <= y
<1>. DEFINE R == StrictSubsetOrdering(Nat)
            Z == FiniteSubsetsOf(Nat)
            F == {1..t : t \in T}
<1>1. IsWellFoundedOn(R, Z)
  BY FS_StrictSubsetOrderingWellFounded
<1>2. F \subseteq Z
  <2>1. SUFFICES ASSUME NEW t \in T PROVE 1..t \in Z
    OBVIOUS
  <2>2. IsFiniteSet(1..t)
    BY FS_Interval
  <2>. QED  BY <2>2 DEF FiniteSubsetsOf
<1>3. F # {}
  OBVIOUS
<1>4. PICK X \in F : \A Y \in F : ~(<<Y, X>> \in R)
  <2>. HIDE DEF R, Z, F
  <2>. QED  BY <1>1, <1>2, <1>3, WFMin
<1>5. PICK x \in T : X = 1..x
  OBVIOUS
<1>6. \A y \in T : x <= y
  <2>1. SUFFICES ASSUME NEW y \in T, y < x PROVE FALSE
    OBVIOUS
  <2>2. 1..y \in SUBSET Nat /\ 1..x \in SUBSET Nat /\ 1..y \subseteq 1..x
    BY <2>1
  <2>3. x \in 1..x /\ x \notin 1..y
    BY <2>1
  <2>4. <<1..y, 1..x>> \in R
    BY <2>2, <2>3 DEF StrictSubsetOrdering
  <2>. QED  BY <1>4, <1>5, <2>4
<1>. QED  BY <1>6 DEF Min

LEMMA NextStageIsAStage ==
  ASSUME NEW i \in Item
  PROVE  /\ NextStage(i) \in Step
         /\ \A t \in 1..(NextStage(i) - 1) : t \in Step /\ stage[i][t].state = "passed"
         /\ stage[i][NextStage(i)].state = "passed" => NextStage(i) = Len(Chain)
<1>. DEFINE T == {s \in Step : stage[i][s].state # "passed"} \cup {Len(Chain)}
<1>1. T \subseteq Step /\ T # {} /\ Step \subseteq Nat \ {0}
  BY ChainIsLong DEF Step
<1>3. NextStage(i) = Min(T)
  BY DEF NextStage
<1>2. Min(T) \in T /\ \A y \in T : Min(T) <= y
  <2>. HIDE DEF T
  <2>. QED  BY <1>1, LeastIsThere
<1>. HIDE DEF T
<1>4. NextStage(i) \in T /\ NextStage(i) \in Step /\ \A y \in T : NextStage(i) <= y
  BY <1>1, <1>2, <1>3
<1>5. ASSUME NEW t \in 1..(NextStage(i) - 1) PROVE t \in Step /\ stage[i][t].state = "passed"
  <2>1. t \in Step /\ ~(NextStage(i) <= t)
    BY <1>1, <1>4, <1>5 DEF Step
  <2>2. t \notin T
    BY <1>4, <2>1
  <2>. QED  BY <2>1, <2>2 DEF T
<1>. QED  BY <1>4, <1>5 DEF T

LEMMA ItemsAreFew ==
  ASSUME NEW A \in SUBSET Item, NEW B \in SUBSET Item
  PROVE  /\ IsFiniteSet(A) /\ Cardinality(A) \in Nat /\ Cardinality({}) = 0
         /\ A # {} => Cardinality(A) > 0
         /\ B \subseteq A => Cardinality(B) <= Cardinality(A)
         /\ \A i \in Item \ A : Cardinality(A \cup {i}) = Cardinality(A) + 1
         /\ Cardinality(A \ B) = Cardinality(A) - Cardinality(B \cap A)
<1>1. IsFiniteSet(A) /\ IsFiniteSet(B)
  BY DagRunV1Assumption, FS_Subset
<1>2. Cardinality(A) \in Nat /\ Cardinality({}) = 0 /\ (A # {} => Cardinality(A) > 0)
  BY <1>1, FS_CardinalityType, FS_EmptySet
<1>3. B \subseteq A => Cardinality(B) <= Cardinality(A)
  BY <1>1, FS_Subset
<1>4. ASSUME NEW i \in Item \ A PROVE Cardinality(A \cup {i}) = Cardinality(A) + 1
  BY <1>1, <1>4, FS_AddElement
<1>5. Cardinality(A \ B) = Cardinality(A) - Cardinality(B \cap A)
  <2>1. A \cap B = B \cap A
    OBVIOUS
  <2>. QED  BY <1>1, <2>1, FS_Difference
<1>. QED  BY <1>1, <1>2, <1>3, <1>4, <1>5

\* An attempt is known by its item, its stage and its number.
LEMMA AttemptParts ==
  ASSUME NEW k \in Attempts
  PROVE  k[1] \in Item /\ k[2] \in Step /\ k[3] \in 1..MaxReroutes /\ k = <<k[1], k[2], k[3]>>
BY DEF Attempts

LEMMA OneOpen ==
  ASSUME TypeInv, OpenHolds, NEW k \in DOMAIN att, NEW m \in DOMAIN att, IsOpen(k), IsOpen(m),
         k[1] = m[1]
  PROVE  k = m
BY AttemptParts DEF TypeInv, AttTyped, OpenHolds, Holds

\* What there is, is not None.
LEMMA SomethingIsNotNone ==
  /\ \A r \in Reservations : r # None
  /\ \A c \in Candidates : c # None
<1>1. ASSUME NEW r \in Reservations PROVE r # None
  <2>1. r.stage \in Nat /\ r.ord \in Nat /\ r.gen \in Nat /\ r.epoch \in Nat
    BY ChainIsLong DEF Reservations, Step
  <2>2. r \in [stage : Nat, ord : Nat, gen : Nat, epoch : Nat,
              state : {"reserved", "dispatch_intent", "active", "release_requested"}]
    BY <2>1 DEF Reservations, ResStates
  <2>. QED  BY <2>2, NoneAssumption
<1>2. ASSUME NEW c \in Candidates PROVE c # None
  <2>1. Attempts \subseteq Item \X Nat \X Nat
    BY ChainIsLong DEF Attempts, Step
  <2>2. c.gen \in Nat /\ c.by \in Attempts /\ c = [gen |-> c.gen, by |-> c.by]
    BY DEF Candidates
  <2>3. c \in [gen : Nat, by : Item \X Nat \X Nat]
    <3>. DEFINE B == Item \X Nat \X Nat
    <3>1. c.by \in B
      BY <2>1, <2>2
    <3>. HIDE DEF B
    <3>2. c \in [gen : Nat, by : B]
      BY <2>2, <3>1
    <3>. QED  BY <3>2 DEF B
  <2>. QED  BY <2>3, NoneAssumption
<1>. QED  BY <1>1, <1>2

LEMMA LiveTyped ==
  ASSUME TypeInv
  PROVE  /\ Live = {i \in Item : res[i] # None} /\ Live \in SUBSET Item
         /\ \A i \in Live : res[i] \in Reservations
BY DEF TypeInv, AccountsTyped, Live

LEMMA InitInv == Init => IInv
<1>. SUFFICES ASSUME Init PROVE IInv
  OBVIOUS
<1>. USE DEF Init
<1>1. RunTyped
  BY DagRunV1Assumption DEF RunTyped
<1>2. ItemsTyped
  BY DagRunV1Assumption DEF ItemsTyped, Items, ItemStates, Stages, StageStates
<1>3. AccountsTyped
  BY DEF AccountsTyped
<1>4. AttTyped /\ EffTyped /\ WorldTyped
  BY DEF AttTyped, EffTyped, WorldTyped
<1>5. DOMAIN att = {} /\ DOMAIN worker = {} /\ DOMAIN eff = {} /\ Live = {}
  BY DEF Live
<1>6. OpenHolds /\ LaunchesAreKnown /\ WorkersFit /\ Fence /\ Closed
  BY <1>5 DEF OpenHolds, LaunchesAreKnown, WorkersFit, Fence, Closed
<1>7. Accounted
  <2>1. Cardinality({}) = 0 /\ 0 <= Capacity /\ 0 <= MaxLanes
    BY FS_EmptySet, DagRunV1Assumption
  <2>. QED  BY <1>5, <2>1 DEF Accounted
<1>. QED  BY <1>1, <1>2, <1>3, <1>4, <1>6, <1>7 DEF IInv, TypeInv

-----------------------------------------------------------------------------
(* Steps that only move effects, and no launch.                            *)

LEMMA EffectMoves ==
  ASSUME EffTyped, NEW kind, NEW k, NEW new \in EffStates, HasEffect(kind, k),
         Effect(kind, k, new)
  PROVE  /\ eff' \in [DOMAIN eff' -> EffRecords] /\ DOMAIN eff' = DOMAIN eff
         /\ eff'[<<kind, k>>] = [eff[<<kind, k>>] EXCEPT !.state = new]
         /\ eff'[<<kind, k>>].state = new
         /\ \A e \in DOMAIN eff \ {<<kind, k>>} : eff'[e] = eff[e]
<1>. DEFINE c == <<kind, k>>
<1>1. eff' = [eff EXCEPT ![c] = [eff[c] EXCEPT !.state = new]] /\ c \in DOMAIN eff
  BY DEF Effect, HasEffect
<1>2. [eff[c] EXCEPT !.state = new] \in EffRecords
      /\ [eff[c] EXCEPT !.state = new].state = new
  BY <1>1 DEF EffTyped, EffRecords
<1>. HIDE DEF c
<1>3. eff' \in [DOMAIN eff -> EffRecords]
  BY <1>1, <1>2 DEF EffTyped
<1>4. /\ DOMAIN eff' = DOMAIN eff /\ eff'[c] = [eff[c] EXCEPT !.state = new]
      /\ eff'[c].state = new /\ \A e \in DOMAIN eff \ {c} : eff'[e] = eff[e]
  BY <1>1, <1>2 DEF EffTyped
<1>. QED  BY <1>3, <1>4 DEF c

LEMMA PutMakes ==
  ASSUME EffTyped, RunTyped, NEW kind, NEW k, NEW gen \in Nat, Put(kind, k, gen)
  PROVE  /\ eff' \in [DOMAIN eff' -> EffRecords]
         /\ DOMAIN eff' = DOMAIN eff \cup {<<kind, k>>}
         /\ eff'[<<kind, k>>] = [state |-> "intended", gen |-> gen, epoch |-> epoch, seen |-> FALSE]
         /\ \A e \in DOMAIN eff \ {<<kind, k>>} : eff'[e] = eff[e]
<1>. DEFINE c == <<kind, k>>
            r == [state |-> "intended", gen |-> gen, epoch |-> epoch, seen |-> FALSE]
<1>1. eff' = [e \in DOMAIN eff \cup {c} |-> IF e = c THEN r ELSE eff[e]]
  BY DEF Put
<1>2. r \in EffRecords
  BY DEF RunTyped, EffRecords, EffStates
<1>. HIDE DEF c, r
<1>3. /\ DOMAIN eff' = DOMAIN eff \cup {c} /\ eff'[c] = r
      /\ \A e \in DOMAIN eff \ {c} : eff'[e] = eff[e]
  BY <1>1
<1>4. eff' \in [DOMAIN eff' -> EffRecords]
  BY <1>1, <1>2 DEF EffTyped
<1>. QED  BY <1>3, <1>4 DEF c, r

\* Calls and facts may come and go, except that no launch is begun.
LEMMA EffectsKeep ==
  ASSUME IInv, UNCHANGED <<run, item, stage, res, accounts, att, worker>>,
         eff' \in [DOMAIN eff' -> EffRecords], DOMAIN eff' \subseteq Kinds \X DOMAIN att,
         calls' \subseteq Kinds \X DOMAIN att, facts' \subseteq DOMAIN att,
         \A k \in DOMAIN att :
            /\ <<"launch", k>> \in DOMAIN eff' <=> <<"launch", k>> \in DOMAIN eff
            /\ <<"launch", k>> \in DOMAIN eff => eff'[<<"launch", k>>] = eff[<<"launch", k>>]
            /\ <<"launch", k>> \in calls' => <<"launch", k>> \in calls,
         cancel = "closed" => \A e \in DOMAIN eff' : e[1] = "cleanup" \/ Settled(e)'
  PROVE  IInv'
<1>. USE DEF IInv
<1>0. /\ desired' = desired /\ cancel' = cancel /\ epoch' = epoch /\ item' = item /\ stage' = stage
      /\ res' = res /\ lanes' = lanes /\ mutex' = mutex /\ pool' = pool /\ att' = att
      /\ worker' = worker
  BY DEF run, accounts
<1>1. TypeInv'
  BY <1>0 DEF TypeInv, RunTyped, ItemsTyped, AccountsTyped, AttTyped, EffTyped, WorldTyped
<1>2. OpenHolds' /\ Accounted'
  BY <1>0 DEF OpenHolds, IsOpen, Holds, Accounted, Live
<1>3. \A k \in DOMAIN att, S \in SUBSET EffStates :
        EffectIn("launch", k, S)' <=> EffectIn("launch", k, S)
  BY DEF EffectIn, HasEffect
<1>3a. {"dispatching"} \in SUBSET EffStates /\ {"ambiguous"} \in SUBSET EffStates
       /\ {"reconciled"} \in SUBSET EffStates
       /\ {"dispatching", "ambiguous", "reconciled"} \in SUBSET EffStates
  BY DEF EffStates
<1>4. LaunchesAreKnown'
  <2>1. SUFFICES ASSUME NEW k \in DOMAIN att, <<"launch", k>> \in calls' PROVE MayStart(k)'
    BY <1>0 DEF LaunchesAreKnown
  <2>2. MayStart(k)
    BY <2>1 DEF LaunchesAreKnown
  <2>. QED  BY <1>0, <1>3, <1>3a, <2>2 DEF MayStart, IsOpen
<1>5. WorkersFit'
  <2>1. ASSUME NEW k \in DOMAIN worker PROVE WorkerFits(k)'
    <3>1. k \in DOMAIN att /\ WorkerFits(k)
      BY <2>1 DEF WorkersFit, TypeInv, WorldTyped
    <3>. QED  BY <1>0, <1>3, <1>3a, <3>1 DEF WorkerFits, IsOpen
  <2>2. ASSUME NEW k \in DOMAIN att PROVE AttemptFits(k)'
    <3>1. AttemptFits(k)
      BY <2>2 DEF WorkersFit
    <3>. QED  BY <1>0, <1>3, <1>3a, <3>1 DEF AttemptFits, HasEffect
  <2>. QED  BY <1>0, <2>1, <2>2 DEF WorkersFit
<1>6. Fence' /\ Closed'
  BY <1>0 DEF Fence, Closed, IsOpen, Live, Settled
<1>. QED  BY <1>1, <1>2, <1>4, <1>5, <1>6

\* What an effect of another kind than a launch does to the launches.
LEMMA OtherKindKeeps ==
  ASSUME IInv, UNCHANGED <<run, item, stage, res, accounts, att, worker>>,
         NEW kind \in Kinds \ {"launch"}, NEW m \in DOMAIN att,
         eff' \in [DOMAIN eff' -> EffRecords],
         DOMAIN eff' = DOMAIN eff \/ DOMAIN eff' = DOMAIN eff \cup {<<kind, m>>},
         \A e \in DOMAIN eff \ {<<kind, m>>} : eff'[e] = eff[e],
         calls' \subseteq calls \cup {<<kind, m>>}, facts' \subseteq DOMAIN att,
         kind = "cleanup" \/ cancel # "closed"
  PROVE  IInv'
<1>1. <<kind, m>> \in Kinds \X DOMAIN att /\ \A k : <<"launch", k>> # <<kind, m>>
  OBVIOUS
<1>2. DOMAIN eff' \subseteq Kinds \X DOMAIN att /\ calls' \subseteq Kinds \X DOMAIN att
  BY <1>1 DEF IInv, TypeInv, EffTyped, WorldTyped
<1>3. ASSUME cancel = "closed", NEW e \in DOMAIN eff' PROVE e[1] = "cleanup" \/ Settled(e)'
  <2>1. CASE e = <<kind, m>>
    BY <1>3, <2>1
  <2>2. CASE e # <<kind, m>>
    <3>1. e \in DOMAIN eff /\ eff'[e] = eff[e]
      BY <1>3, <2>2
    <3>. QED  BY <1>3, <3>1 DEF IInv, Closed, Settled
  <2>. QED  BY <2>1, <2>2
<1>. QED  BY <1>1, <1>2, <1>3, EffectsKeep

\* Procedures and cancellations cannot move once a cancellation is closed: all are settled.
LEMMA ClosedSettles ==
  ASSUME IInv, NEW kind, NEW k, kind # "cleanup", HasEffect(kind, k), ~Settled(<<kind, k>>)
  PROVE  cancel # "closed"
BY DEF IInv, Closed, HasEffect

LEMMA ProcedureKeeps ==
  ASSUME IInv, NEW k \in DOMAIN att,
         PutProcedure(k) \/ MarkProcedure(k) \/ Execute(k) \/ RecordExecution(k)
           \/ RecordProcedure(k)
  PROVE  IInv'
<1>. USE DEF IInv, TypeInv
<1>0. "procedure" \in Kinds \ {"launch"} /\ facts \subseteq DOMAIN att
      /\ {"dispatching", "reconciled", "observed"} \subseteq EffStates
  BY DEF Kinds, WorldTyped, EffStates
<1>1. CASE PutProcedure(k)
  <2>1. /\ cancel # "closed" /\ UNCHANGED <<run, item, stage, res, accounts, att, world>>
    BY <1>1 DEF PutProcedure, Closed
  <2>2. PICK gen \in Nat : Put("procedure", k, gen)
    BY <1>1, NoneAssumption DEF PutProcedure, AttTyped, AttRecords
  <2>. QED  BY <1>0, <2>1, <2>2, PutMakes, OtherKindKeeps DEF world
<1>2. CASE MarkProcedure(k)
  <2>1. /\ HasEffect("procedure", k) /\ ~Settled(<<"procedure", k>>)
        /\ Effect("procedure", k, "dispatching")
        /\ UNCHANGED <<run, item, stage, res, accounts, att, world>>
    BY <1>2 DEF MarkProcedure, EffectIn, Settled
  <2>. QED  BY <1>0, <2>1, EffectMoves, ClosedSettles, OtherKindKeeps DEF world
<1>3. CASE Execute(k)
  <2>1. /\ HasEffect("procedure", k) /\ ~Settled(<<"procedure", k>>)
        /\ facts' \subseteq DOMAIN att
        /\ UNCHANGED <<run, item, stage, res, accounts, att, eff, worker, calls>>
    BY <1>0, <1>3 DEF Execute, EffectIn, Settled
  <2>. QED  BY <1>0, <2>1, ClosedSettles, OtherKindKeeps DEF EffTyped
<1>4. CASE RecordExecution(k)
  <2>. DEFINE c == <<"procedure", k>>
              r == [eff[c] EXCEPT !.state = "observed", !.seen = TRUE]
  <2>1. /\ c \in DOMAIN eff /\ HasEffect("procedure", k) /\ ~Settled(c)
        /\ eff' = [eff EXCEPT ![c] = r]
        /\ UNCHANGED <<run, item, stage, res, accounts, att, world>>
    BY <1>4 DEF RecordExecution, EffectIn, HasEffect, Settled
  <2>2. r \in EffRecords
    BY <1>0, <2>1 DEF EffTyped, EffRecords
  <2>3. /\ eff' \in [DOMAIN eff' -> EffRecords] /\ DOMAIN eff' = DOMAIN eff
        /\ \A e \in DOMAIN eff \ {c} : eff'[e] = eff[e]
    <3>. HIDE DEF r, c
    <3>. QED  BY <2>1, <2>2 DEF EffTyped
  <2>. QED  BY <1>0, <2>1, <2>3, ClosedSettles, OtherKindKeeps DEF world
<1>5. CASE RecordProcedure(k)
  <2>1. /\ HasEffect("procedure", k) /\ ~Settled(<<"procedure", k>>)
        /\ Effect("procedure", k, "reconciled")
        /\ UNCHANGED <<run, item, stage, res, accounts, att, world>>
    BY <1>5 DEF RecordProcedure, EffectIn, Settled
  <2>. QED  BY <1>0, <2>1, EffectMoves, ClosedSettles, OtherKindKeeps DEF world
<1>. QED  BY <1>1, <1>2, <1>3, <1>4, <1>5

LEMMA CleanupKeeps ==
  ASSUME IInv, NEW k \in DOMAIN att,
         PutCleanup(k) \/ MarkCleanup(k) \/ CallCleanup(k) \/ RecordCleanup(k) \/ MarkCancel(k)
  PROVE  IInv'
<1>. USE DEF IInv, TypeInv
<1>0. {"cleanup", "cancel"} \subseteq Kinds \ {"launch"} /\ facts \subseteq DOMAIN att
      /\ {"dispatching", "reconciled"} \subseteq EffStates
      /\ eff \in [DOMAIN eff -> EffRecords]
  BY DEF Kinds, WorldTyped, EffStates, EffTyped
<1>1. CASE PutCleanup(k)
  <2>1. UNCHANGED <<run, item, stage, res, accounts, att, world>>
    BY <1>1 DEF PutCleanup
  <2>2. PICK gen \in Nat : Put("cleanup", k, gen)
    BY <1>1, NoneAssumption DEF PutCleanup, AttTyped, AttRecords
  <2>. QED  BY <1>0, <2>1, <2>2, PutMakes, OtherKindKeeps DEF world
<1>2. CASE MarkCleanup(k)
  <2>1. /\ HasEffect("cleanup", k) /\ Effect("cleanup", k, "dispatching")
        /\ UNCHANGED <<run, item, stage, res, accounts, att, world>>
    BY <1>2 DEF MarkCleanup, EffectIn
  <2>. QED  BY <1>0, <2>1, EffectMoves, OtherKindKeeps DEF world
<1>3. CASE CallCleanup(k)
  BY <1>0, <1>3, OtherKindKeeps DEF CallCleanup
<1>4. CASE RecordCleanup(k)
  <2>1. /\ calls' \subseteq calls
        /\ UNCHANGED <<run, item, stage, res, accounts, att, worker, facts>>
    BY <1>4 DEF RecordCleanup
  <2>2. CASE HasEffect("cleanup", k) /\ Effect("cleanup", k, "reconciled")
    BY <1>0, <2>1, <2>2, EffectMoves, OtherKindKeeps
  <2>3. CASE UNCHANGED eff
    BY <1>0, <2>1, <2>3, OtherKindKeeps
  <2>. QED  BY <1>4, <2>2, <2>3 DEF RecordCleanup, EffectIn
<1>5. CASE MarkCancel(k)
  <2>1. /\ HasEffect("cancel", k) /\ Effect("cancel", k, "dispatching") /\ cancel # "closed"
        /\ UNCHANGED <<run, item, stage, res, accounts, att, world>>
    BY <1>5 DEF MarkCancel, EffectIn
  <2>. QED  BY <1>0, <2>1, EffectMoves, OtherKindKeeps DEF world
<1>. QED  BY <1>1, <1>2, <1>3, <1>4, <1>5

-----------------------------------------------------------------------------
(* Steps of one attempt.                                                   *)

LEMMA AttMoves ==
  ASSUME AttTyped, NEW k \in DOMAIN att, NEW r \in AttRecords, att' = [att EXCEPT ![k] = r]
  PROVE  /\ AttTyped' /\ DOMAIN att' = DOMAIN att /\ att'[k] = r
         /\ \A m \in DOMAIN att \ {k} : att'[m] = att[m]
<1>1. att' \in [DOMAIN att -> AttRecords]
  BY DEF AttTyped
<1>2. /\ DOMAIN att' = DOMAIN att /\ att'[k] = r
      /\ \A m \in DOMAIN att \ {k} : att'[m] = att[m]
  BY DEF AttTyped
<1>. QED  BY <1>1, <1>2 DEF AttTyped

\* A step that touches one attempt, its worker and its launch leaves the others as they were.
LEMMA OneAttemptMoves ==
  ASSUME IInv, TypeInv', NEW k,
         DOMAIN att' = DOMAIN att \cup {k}, DOMAIN worker' \subseteq DOMAIN worker \cup {k},
         DOMAIN worker \subseteq DOMAIN worker',
         \A m \in DOMAIN att \ {k} : att'[m] = att[m],
         \A m \in DOMAIN worker \ {k} : worker'[m] = worker[m],
         \A m \in DOMAIN att \ {k} :
            /\ <<"launch", m>> \in DOMAIN eff' <=> <<"launch", m>> \in DOMAIN eff
            /\ <<"launch", m>> \in DOMAIN eff => eff'[<<"launch", m>>] = eff[<<"launch", m>>]
            /\ <<"launch", m>> \in calls' => <<"launch", m>> \in calls,
         <<"launch", k>> \in calls' => MayStart(k)',
         k \in DOMAIN worker' => WorkerFits(k)', AttemptFits(k)'
  PROVE  LaunchesAreKnown' /\ WorkersFit'
<1>1. \A m \in DOMAIN att \ {k} :
        /\ IsOpen(m)' <=> IsOpen(m)
        /\ \A S \in SUBSET EffStates : EffectIn("launch", m, S)' <=> EffectIn("launch", m, S)
        /\ HasEffect("launch", m)' <=> HasEffect("launch", m)
  BY DEF IsOpen, EffectIn, HasEffect
<1>2. {"dispatching"} \in SUBSET EffStates /\ {"ambiguous"} \in SUBSET EffStates
       /\ {"reconciled"} \in SUBSET EffStates
       /\ {"dispatching", "ambiguous", "reconciled"} \in SUBSET EffStates
  BY DEF EffStates
<1>3. LaunchesAreKnown'
  <2>1. SUFFICES ASSUME NEW m \in DOMAIN att, m # k, <<"launch", m>> \in calls' PROVE MayStart(m)'
    BY DEF LaunchesAreKnown
  <2>2. MayStart(m)
    BY <2>1 DEF IInv, LaunchesAreKnown
  <2>. QED  BY <1>1, <1>2, <2>1, <2>2 DEF MayStart
<1>4. ASSUME NEW m \in DOMAIN worker', m # k PROVE WorkerFits(m)'
  <2>1. m \in DOMAIN worker /\ m \in DOMAIN att /\ WorkerFits(m)
    BY <1>4 DEF IInv, WorkersFit, TypeInv, WorldTyped
  <2>. QED  BY <1>1, <1>2, <1>4, <2>1 DEF WorkerFits
<1>5. ASSUME NEW m \in DOMAIN att', m # k PROVE AttemptFits(m)'
  <2>1. m \in DOMAIN att /\ AttemptFits(m)
    BY <1>5 DEF IInv, WorkersFit
  <2>. QED  BY <1>1, <1>2, <1>5, <2>1 DEF AttemptFits
<1>. QED  BY <1>3, <1>4, <1>5 DEF WorkersFit

\* As long as reservations and stages stay and no attempt is opened, what else may change.
LEMMA FrameKeeps ==
  ASSUME IInv, UNCHANGED <<run, item, stage, res, accounts>>, DOMAIN att' = DOMAIN att,
         \A m \in DOMAIN att :
            IsOpen(m)' => IsOpen(m) /\ (cancel # "none" => att'[m].state = att[m].state),
         cancel = "closed" => eff' = eff
  PROVE  OpenHolds' /\ Accounted' /\ Fence' /\ Closed'
<1>. USE DEF IInv
<1>0. /\ desired' = desired /\ cancel' = cancel /\ item' = item /\ stage' = stage
      /\ res' = res /\ lanes' = lanes /\ mutex' = mutex /\ pool' = pool
  BY DEF run, accounts
<1>1. OpenHolds'
  BY <1>0 DEF OpenHolds, Holds
<1>2. Accounted'
  BY <1>0 DEF Accounted, Live
<1>3. Fence'
  BY <1>0 DEF Fence, Live
<1>4. Closed'
  BY <1>0 DEF Closed, Live, Settled
<1>. QED  BY <1>1, <1>2, <1>3, <1>4

LEMMA WorkerKeeps ==
  ASSUME IInv, NEW k \in DOMAIN att,
         \/ WorkerStarts(k) \/ CancelWorker(k)
         \/ \E status \in {"succeeded", "failed"} : WorkerEnds(k, status)
  PROVE  IInv'
<1>. USE DEF IInv, TypeInv
<1>1. /\ UNCHANGED <<run, item, stage, res, accounts, att, eff, calls, facts>>
      /\ DOMAIN worker \subseteq DOMAIN worker' /\ DOMAIN worker' \subseteq DOMAIN worker \cup {k}
      /\ \A m \in DOMAIN worker \ {k} : worker'[m] = worker[m]
      /\ worker' \in [DOMAIN worker' -> WorkerStates]
  <2>1. CASE WorkerStarts(k)
    BY <2>1 DEF WorkerStarts, WorldTyped, WorkerStates
  <2>2. CASE CancelWorker(k)
    BY <2>2 DEF CancelWorker, WorldTyped, WorkerStates
  <2>3. CASE \E status \in {"succeeded", "failed"} : WorkerEnds(k, status)
    BY <2>3 DEF WorkerEnds, WorldTyped, WorkerStates
  <2>. QED  BY <2>1, <2>2, <2>3
<1>2. TypeInv'
  BY <1>1 DEF RunTyped, ItemsTyped, AccountsTyped, AttTyped, EffTyped, WorldTyped, run, accounts
<1>3. AttemptFits(k)'
  <2>1. AttemptFits(k)
    BY DEF WorkersFit
  <2>. QED  BY <1>1, <2>1 DEF AttemptFits, HasEffect, EffectIn
<1>4. <<"launch", k>> \in calls' => MayStart(k)'
  <2>1. <<"launch", k>> \in calls => MayStart(k)
    BY DEF LaunchesAreKnown
  <2>. QED  BY <1>1, <2>1 DEF MayStart, IsOpen, EffectIn, HasEffect
<1>5. k \in DOMAIN worker' => WorkerFits(k)'
  <2>1. CASE WorkerStarts(k)
    <3>1. MayStart(k) /\ AttemptFits(k)
      BY <2>1 DEF WorkerStarts, LaunchesAreKnown, WorkersFit
    <3>2. IsOpen(k) /\ att[k].state # "result_observed" /\ Owned(k[2])
          /\ EffectIn("launch", k, {"dispatching", "ambiguous", "reconciled"})
      BY <3>1 DEF MayStart, AttemptFits, EffectIn
    <3>. QED  BY <1>1, <3>2 DEF WorkerFits, IsOpen, EffectIn, HasEffect
  <2>2. CASE ~WorkerStarts(k)
    <3>. SUFFICES ASSUME k \in DOMAIN worker' PROVE WorkerFits(k)'
      OBVIOUS
    <3>1. k \in DOMAIN worker /\ WorkerFits(k)
      <4>1. k \in DOMAIN worker
        BY <2>2 DEF CancelWorker, WorkerEnds
      <4>. QED  BY <4>1 DEF WorkersFit
    <3>2. worker'[k] # "running"
      BY <2>2, <3>1 DEF CancelWorker, WorkerEnds, WorldTyped
    <3>. QED  BY <1>1, <3>1, <3>2 DEF WorkerFits, IsOpen, EffectIn, HasEffect
  <2>. QED  BY <2>1, <2>2
<1>6. LaunchesAreKnown' /\ WorkersFit'
  BY <1>1, <1>2, <1>3, <1>4, <1>5, OneAttemptMoves
<1>7. OpenHolds' /\ Accounted' /\ Fence' /\ Closed'
  BY <1>1, FrameKeeps DEF IsOpen
<1>. QED  BY <1>2, <1>6, <1>7

LEMMA DispatchKeeps ==
  ASSUME IInv, NEW k \in DOMAIN att, Dispatch(k)
  PROVE  IInv'
<1>. USE DEF IInv, TypeInv
<1>. DEFINE r == [att[k] EXCEPT !.state = "launching"]
<1>1. /\ att' = [att EXCEPT ![k] = r] /\ Effect("launch", k, "dispatching")
      /\ calls' = calls \cup {<<"launch", k>>} /\ HasEffect("launch", k)
      /\ UNCHANGED <<run, item, stage, res, accounts, worker, facts>>
      /\ eff[<<"launch", k>>].state = "intended" /\ IsOpen(k) /\ att[k].state = "dispatchable"
      /\ cancel = "none"
  BY DEF Dispatch, EffectIn, Fence
<1>2. r \in AttRecords /\ r.state = "launching" /\ r.bound = att[k].bound
  BY DEF AttTyped, AttRecords, AttStates
<1>. HIDE DEF r
<1>3. /\ AttTyped' /\ DOMAIN att' = DOMAIN att /\ att'[k] = r
      /\ \A m \in DOMAIN att \ {k} : att'[m] = att[m]
  BY <1>1, <1>2, AttMoves
<1>4. "dispatching" \in EffStates /\ "launch" \in Kinds
  BY DEF EffStates, Kinds
<1>5. /\ eff' \in [DOMAIN eff' -> EffRecords] /\ DOMAIN eff' = DOMAIN eff
      /\ eff'[<<"launch", k>>].state = "dispatching"
      /\ \A e \in DOMAIN eff \ {<<"launch", k>>} : eff'[e] = eff[e]
  BY <1>1, <1>4, EffectMoves
<1>6. TypeInv'
  BY <1>1, <1>3, <1>4, <1>5
     DEF RunTyped, ItemsTyped, AccountsTyped, EffTyped, WorldTyped, run, accounts
<1>7. ~att[k].bound /\ Owned(k[2])
  BY <1>1 DEF WorkersFit, AttemptFits, EffectIn
<1>8. EffectIn("launch", k, {"dispatching"})' /\ IsOpen(k)' /\ HasEffect("launch", k)'
      /\ EffectIn("launch", k, {"dispatching", "ambiguous", "reconciled"})'
  BY <1>1, <1>2, <1>3, <1>5 DEF EffectIn, HasEffect, IsOpen
<1>9. MayStart(k)' /\ WorkerFits(k)' /\ AttemptFits(k)'
  BY <1>2, <1>3, <1>7, <1>8 DEF MayStart, WorkerFits, AttemptFits
<1>10. LaunchesAreKnown' /\ WorkersFit'
  BY <1>1, <1>3, <1>5, <1>6, <1>9, OneAttemptMoves
<1>11. OpenHolds' /\ Accounted' /\ Fence' /\ Closed'
  BY <1>1, <1>3, FrameKeeps DEF IsOpen
<1>. QED  BY <1>6, <1>10, <1>11

LEMMA RecoverKeeps ==
  ASSUME IInv, NEW k \in DOMAIN att, Recover(k)
  PROVE  IInv'
<1>. USE DEF IInv, TypeInv
<1>1. /\ UNCHANGED <<run, item, stage, res, accounts, att, eff, worker, facts>>
      /\ calls' = calls \cup {<<"launch", k>>} /\ MayStart(k)
  BY DEF Recover, MayStart, IsOpen, WorkersFit, AttemptFits, EffectIn
<1>2. TypeInv'
  BY <1>1 DEF RunTyped, ItemsTyped, AccountsTyped, AttTyped, EffTyped, WorldTyped, Kinds,
              run, accounts
<1>3. MayStart(k)' /\ AttemptFits(k)' /\ (k \in DOMAIN worker' => WorkerFits(k)')
  BY <1>1 DEF MayStart, WorkersFit, AttemptFits, WorkerFits, EffectIn, HasEffect, IsOpen
<1>4. LaunchesAreKnown' /\ WorkersFit'
  BY <1>1, <1>2, <1>3, OneAttemptMoves
<1>5. OpenHolds' /\ Accounted' /\ Fence' /\ Closed'
  BY <1>1, FrameKeeps DEF IsOpen
<1>. QED  BY <1>2, <1>4, <1>5

LEMMA BindKeeps ==
  ASSUME IInv, NEW k \in DOMAIN att, Bind(k)
  PROVE  IInv'
<1>. USE DEF IInv, TypeInv
<1>1. /\ calls' = calls \ {<<"launch", k>>} /\ k \in DOMAIN worker /\ ~att[k].bound
      /\ UNCHANGED <<run, item, stage, res, accounts, worker, facts>>
      /\ HasEffect("launch", k) /\ ~Settled(<<"launch", k>>) /\ IsOpen(k)
      /\ att[k].state \in {"launching", "cancelling"}
  BY DEF Bind, EffectIn, Settled, IsOpen
<1>2. Owned(k[2]) /\ cancel # "closed"
  BY <1>1, ClosedSettles DEF WorkersFit, WorkerFits
<1>3. PICK r \in AttRecords :
        /\ att' = [att EXCEPT ![k] = r] /\ r.bound
        /\ r.state = att[k].state \/ (r.state = "running" /\ cancel = "none")
        /\ r.state \in {"running", "cancelling"}
  <2>1. CASE att[k].state = "launching"
    <3>. DEFINE r == [att[k] EXCEPT !.state = "running", !.bound = TRUE]
    <3>1. att' = [att EXCEPT ![k] = r]
      BY <2>1 DEF Bind
    <3>2. r \in AttRecords /\ r.bound /\ r.state = "running"
      BY DEF AttTyped, AttRecords, AttStates
    <3>3. cancel = "none"
      BY <1>1, <2>1 DEF Fence
    <3>. QED  BY <3>1, <3>2, <3>3
  <2>2. CASE att[k].state = "cancelling"
    <3>. DEFINE r == [att[k] EXCEPT !.bound = TRUE]
    <3>1. att' = [att EXCEPT ![k] = r]
      BY <2>2 DEF Bind
    <3>2. r \in AttRecords /\ r.bound /\ r.state = att[k].state
      BY DEF AttTyped, AttRecords, AttStates
    <3>. QED  BY <2>2, <3>1, <3>2
  <2>. QED  BY <1>1, <2>1, <2>2
<1>4. /\ AttTyped' /\ DOMAIN att' = DOMAIN att /\ att'[k] = r
      /\ \A m \in DOMAIN att \ {k} : att'[m] = att[m]
  BY <1>3, AttMoves
<1>5. /\ eff' \in [DOMAIN eff' -> EffRecords] /\ DOMAIN eff' \subseteq Kinds \X DOMAIN att
      /\ <<"launch", k>> \in DOMAIN eff' /\ eff'[<<"launch", k>>].state = "reconciled"
      /\ \A m \in DOMAIN att \ {k} :
           /\ <<"launch", m>> \in DOMAIN eff' <=> <<"launch", m>> \in DOMAIN eff
           /\ <<"launch", m>> \in DOMAIN eff => eff'[<<"launch", m>>] = eff[<<"launch", m>>]
  <2>1. CASE att[k].state = "launching"
    <3>1. Effect("launch", k, "reconciled") /\ "reconciled" \in EffStates
      BY <2>1 DEF Bind, EffStates
    <3>2. /\ eff' \in [DOMAIN eff' -> EffRecords] /\ DOMAIN eff' = DOMAIN eff
          /\ eff'[<<"launch", k>>].state = "reconciled"
          /\ \A e \in DOMAIN eff \ {<<"launch", k>>} : eff'[e] = eff[e]
      BY <1>1, <3>1, EffectMoves
    <3>. QED  BY <1>1, <3>2 DEF EffTyped, HasEffect
  <2>2. CASE att[k].state = "cancelling"
    <3>. DEFINE l == <<"launch", k>>
                c == <<"cancel", k>>
                rl == [eff[l] EXCEPT !.state = "reconciled"]
                rc == [state |-> "intended", gen |-> item[k[1]].gen, epoch |-> epoch,
                       seen |-> FALSE]
    <3>1. eff' = [e \in DOMAIN eff \cup {c} |->
                    CASE e = l -> rl [] e = c -> rc [] OTHER -> eff[e]]
      BY <2>2 DEF Bind
    <3>2. rl \in EffRecords /\ rl.state = "reconciled" /\ l \in DOMAIN eff
      BY <1>1 DEF EffTyped, EffRecords, EffStates, HasEffect
    <3>3. item[k[1]].gen \in Nat
      BY AttemptParts DEF ItemsTyped, Items, AttTyped
    <3>4. rc \in EffRecords
      BY <3>3 DEF RunTyped, EffRecords, EffStates
    <3>5. l # c /\ c \in Kinds \X DOMAIN att /\ \A m : <<"launch", m>> # c
      BY DEF Kinds
    <3>6. \A m \in DOMAIN att \ {k} : <<"launch", m>> # l
      OBVIOUS
    <3>. HIDE DEF rl, rc, c
    <3>7. DOMAIN eff' = DOMAIN eff \cup {c} /\ eff'[l] = rl /\ eff'[c] = rc
          /\ \A e \in DOMAIN eff \ {l, c} : eff'[e] = eff[e]
      BY <3>1, <3>2, <3>5
    <3>8. eff' \in [DOMAIN eff' -> EffRecords]
      BY <3>1, <3>2, <3>4 DEF EffTyped
    <3>9. DOMAIN eff' \subseteq Kinds \X DOMAIN att
      BY <3>5, <3>7 DEF EffTyped
    <3>. QED  BY <3>2, <3>5, <3>6, <3>7, <3>8, <3>9
  <2>. QED  BY <1>1, <2>1, <2>2
<1>6. TypeInv'
  BY <1>1, <1>4, <1>5
     DEF RunTyped, ItemsTyped, AccountsTyped, EffTyped, WorldTyped, run, accounts
<1>7. HasEffect("launch", k)' /\ EffectIn("launch", k, {"reconciled"})' /\ IsOpen(k)'
      /\ EffectIn("launch", k, {"dispatching", "ambiguous", "reconciled"})'
  BY <1>3, <1>4, <1>5 DEF EffectIn, HasEffect, IsOpen
<1>8. WorkerFits(k)' /\ AttemptFits(k)' /\ <<"launch", k>> \notin calls'
  BY <1>1, <1>2, <1>3, <1>4, <1>7 DEF WorkerFits, AttemptFits
<1>9. LaunchesAreKnown' /\ WorkersFit'
  BY <1>1, <1>4, <1>5, <1>6, <1>8, OneAttemptMoves
<1>10. OpenHolds' /\ Accounted' /\ Fence' /\ Closed'
  BY <1>1, <1>2, <1>3, <1>4, FrameKeeps DEF IsOpen
<1>. QED  BY <1>6, <1>9, <1>10

LEMMA ResultKeeps ==
  ASSUME IInv, NEW k \in DOMAIN att, RecordResult(k)
  PROVE  IInv'
<1>. USE DEF IInv, TypeInv
<1>. DEFINE r == [att[k] EXCEPT !.state = "result_observed", !.result = worker[k]]
<1>1. /\ att' = [att EXCEPT ![k] = r] /\ att[k].bound /\ att[k].state = "running"
      /\ UNCHANGED <<run, item, stage, res, accounts, eff, world>>
      /\ worker[k] # "running" /\ k \in DOMAIN worker
  BY DEF RecordResult, Adopts, WorkersFit, AttemptFits
<1>2. /\ Owned(k[2]) /\ EffectIn("launch", k, {"reconciled"}) /\ IsOpen(k)
      /\ worker[k] \in {"succeeded", "failed", "cancelled"} /\ cancel = "none"
  BY <1>1 DEF WorkersFit, AttemptFits, WorkerFits, IsOpen, WorldTyped, WorkerStates, Fence
<1>3. r \in AttRecords /\ r.state = "result_observed" /\ r.bound
  BY <1>1, <1>2 DEF AttTyped, AttRecords, AttStates
<1>. HIDE DEF r
<1>4. /\ AttTyped' /\ DOMAIN att' = DOMAIN att /\ att'[k] = r
      /\ \A m \in DOMAIN att \ {k} : att'[m] = att[m]
  BY <1>1, <1>3, AttMoves
<1>5. TypeInv'
  BY <1>1, <1>4 DEF RunTyped, ItemsTyped, AccountsTyped, EffTyped, WorldTyped, run, accounts, world
<1>6. EffectIn("launch", k, {"reconciled"})' /\ IsOpen(k)' /\ HasEffect("launch", k)'
      /\ EffectIn("launch", k, {"dispatching", "ambiguous", "reconciled"})'
  BY <1>1, <1>2, <1>3, <1>4 DEF EffectIn, HasEffect, IsOpen
<1>7. WorkerFits(k)' /\ AttemptFits(k)' /\ <<"launch", k>> \notin calls'
  BY <1>1, <1>2, <1>3, <1>4, <1>6
     DEF WorkerFits, AttemptFits, LaunchesAreKnown, MayStart, world
<1>8. LaunchesAreKnown' /\ WorkersFit'
  BY <1>1, <1>4, <1>5, <1>7, OneAttemptMoves DEF world
<1>9. OpenHolds' /\ Accounted' /\ Fence' /\ Closed'
  BY <1>1, <1>2, <1>4, FrameKeeps DEF IsOpen
<1>. QED  BY <1>5, <1>8, <1>9

-----------------------------------------------------------------------------
(* Steps of a reservation and of what it is made for.                      *)

\* What is released gives back its mutex and its units of the pool.
LEMMA ReleaseFrees ==
  ASSUME IInv, NEW is \in SUBSET Item, Release(is), lanes' \subseteq Item
  PROVE  /\ AccountsTyped' /\ Live' = Live \ is
         /\ \A i \in Item \ is : res'[i] = res[i]
         /\ pool' = Cardinality(Live') /\ pool' <= Capacity
         /\ \A i \in Live' \cap Shared : mutex' = i
<1>. USE DEF IInv, TypeInv
<1>1. /\ res' = [i \in Item |-> IF i \in is THEN None ELSE res[i]]
      /\ mutex' = IF mutex \in is THEN None ELSE mutex
      /\ pool' = pool - Cardinality(is \cap Live)
  BY DEF Release
<1>2. Live \in SUBSET Item /\ Live = {i \in Item : res[i] # None}
  BY LiveTyped
<1>3. res' \in [Item -> Reservations \cup {None}] /\ \A i \in Item \ is : res'[i] = res[i]
  BY <1>1 DEF AccountsTyped
<1>4. Live' = Live \ is
  BY <1>1, <1>2 DEF Live
<1>5. Cardinality(Live \ is) = Cardinality(Live) - Cardinality(is \cap Live)
      /\ Cardinality(Live \ is) \in Nat /\ Cardinality(Live) \in Nat
      /\ Cardinality(Live \ is) <= Cardinality(Live)
  <2>1. Live \ is \in SUBSET Item
    BY <1>2
  <2>. QED  BY <1>2, <2>1, ItemsAreFew
<1>6. pool' = Cardinality(Live') /\ pool' <= Capacity /\ pool' \in Nat
  BY <1>1, <1>4, <1>5, DagRunV1Assumption DEF Accounted
<1>7. \A i \in Live' \cap Shared : mutex' = i
  BY <1>1, <1>4 DEF Accounted
<1>8. mutex' \in Item \cup {None}
  BY <1>1 DEF AccountsTyped
<1>. QED  BY <1>3, <1>4, <1>6, <1>7, <1>8 DEF AccountsTyped

\* A live reservation that is changed stays the live one.
LEMMA OneReservationMoves ==
  ASSUME IInv, NEW i \in Item, NEW r \in Reservations, res' = [res EXCEPT ![i] = r],
         i \in Live
  PROVE  /\ res' \in [Item -> Reservations \cup {None}] /\ Live' = Live /\ res'[i] = r
         /\ \A j \in Item \ {i} : res'[j] = res[j]
<1>1. res' \in [Item -> Reservations \cup {None}] /\ res'[i] = r
      /\ \A j \in Item \ {i} : res'[j] = res[j]
  BY DEF IInv, TypeInv, AccountsTyped
<1>2. r # None
  BY SomethingIsNotNone
<1>3. DOMAIN res' = Item /\ DOMAIN res = Item
  BY <1>1 DEF IInv, TypeInv, AccountsTyped
<1>. QED  BY <1>1, <1>2, <1>3 DEF Live

LEMMA ActivateKeeps ==
  ASSUME IInv, NEW i \in Item, Activate(i)
  PROVE  IInv'
<1>. USE DEF IInv, TypeInv
<1>1. /\ UNCHANGED <<run, item, stage, accounts, att, eff, world>> /\ res[i] # None
      /\ desired = "running"
  BY DEF Activate, Going
<1>2. i \in Live /\ res[i] \in Reservations
  BY <1>1, LiveTyped
<1>3. PICK s \in ResStates : res' = [res EXCEPT ![i].state = s]
  BY DEF Activate, ResStates
<1>. DEFINE r == [res[i] EXCEPT !.state = s]
<1>4. r \in Reservations /\ r.stage = res[i].stage /\ r.ord = res[i].ord
      /\ res' = [res EXCEPT ![i] = r]
  BY <1>2, <1>3 DEF Reservations
<1>. HIDE DEF r
<1>5. /\ res' \in [Item -> Reservations \cup {None}] /\ Live' = Live /\ res'[i] = r
      /\ \A j \in Item \ {i} : res'[j] = res[j]
  BY <1>2, <1>4, OneReservationMoves
<1>6. cancel = "none"
  BY <1>1 DEF Fence
<1>7. TypeInv'
  BY <1>1, <1>5 DEF RunTyped, ItemsTyped, AccountsTyped, AttTyped, EffTyped, WorldTyped,
                    run, accounts, world
<1>8. \A k \in DOMAIN att : Holds(k) => Holds(k)'
  <2>1. SUFFICES ASSUME NEW k \in DOMAIN att, Holds(k) PROVE Holds(k)'
    OBVIOUS
  <2>2. k[1] \in Item
    BY AttemptParts DEF AttTyped
  <2>3. r # None
    BY <1>4, SomethingIsNotNone
  <2>. QED  BY <1>2, <1>4, <1>5, <2>1, <2>2, <2>3 DEF Holds
<1>9. OpenHolds'
  BY <1>1, <1>8 DEF OpenHolds, IsOpen
<1>10. LaunchesAreKnown' /\ WorkersFit'
  BY <1>1 DEF LaunchesAreKnown, WorkersFit, MayStart, WorkerFits, AttemptFits, EffectIn, HasEffect,
              IsOpen, world
<1>11. Accounted'
  BY <1>1, <1>5 DEF Accounted, accounts
<1>12. Fence' /\ Closed'
  BY <1>1, <1>6 DEF Fence, Closed, run
<1>. QED  BY <1>7, <1>9, <1>10, <1>11, <1>12

LEMMA StageMoves ==
  ASSUME ItemsTyped, NEW i \in Item, NEW s \in Step, NEW r \in Stages,
         stage' = [stage EXCEPT ![i][s] = r]
  PROVE  /\ stage' \in [Item -> [Step -> Stages]] /\ stage'[i][s] = r
         /\ \A t \in Step \ {s} : stage'[i][t] = stage[i][t]
         /\ \A j \in Item \ {i} : stage'[j] = stage[j]
<1>. DEFINE f == [stage[i] EXCEPT ![s] = r]
<1>1. stage[i] \in [Step -> Stages]
  BY DEF ItemsTyped
<1>2. f \in [Step -> Stages] /\ f[s] = r /\ \A t \in Step \ {s} : f[t] = stage[i][t]
  BY <1>1
<1>3. stage' = [stage EXCEPT ![i] = f]
  BY DEF ItemsTyped
<1>. HIDE DEF f
<1>4. stage' \in [Item -> [Step -> Stages]] /\ stage'[i] = f
      /\ \A j \in Item \ {i} : stage'[j] = stage[j]
  BY <1>2, <1>3 DEF ItemsTyped
<1>. QED  BY <1>2, <1>4

LEMMA StageBegun ==
  ASSUME NEW q \in Stages, NEW n \in 1..MaxReroutes
  PROVE  LET p == [q EXCEPT !.state = "active", !.tries = n, !.current = TRUE, !.evidence = None]
         IN  p \in Stages /\ p.tries = n /\ p.state = "active"
<1>1. n \in 0..MaxReroutes
  BY LimitsAreNumbers
<1>. QED  BY <1>1 DEF Stages, StageStates

LEMMA StageToRepeat ==
  ASSUME NEW q \in Stages
  PROVE  LET p == [q EXCEPT !.state = "pending", !.current = FALSE, !.evidence = None,
                            !.adopted = FALSE]
         IN  p \in Stages /\ p.tries = q.tries /\ p.state = "pending"
BY DEF Stages, StageStates

LEMMA ItemMoves ==
  ASSUME ItemsTyped, NEW i \in Item, NEW c \in ItemStates, item' = [item EXCEPT ![i].current = c]
  PROVE  /\ item' \in [Item -> Items]
         /\ \A j \in Item : /\ item'[j].desired = item[j].desired /\ item'[j].gen = item[j].gen
                            /\ item'[j].cand = item[j].cand
<1>. DEFINE r == [item[i] EXCEPT !.current = c]
<1>1. item[i] \in Items /\ item' = [item EXCEPT ![i] = r]
  BY DEF ItemsTyped
<1>2. r \in Items /\ r.desired = item[i].desired /\ r.gen = item[i].gen /\ r.cand = item[i].cand
  BY <1>1 DEF Items
<1>. HIDE DEF r
<1>3. item' \in [Item -> Items] /\ item'[i] = r /\ \A j \in Item \ {i} : item'[j] = item[j]
  BY <1>1, <1>2 DEF ItemsTyped
<1>. QED  BY <1>2, <1>3

LEMMA ReserveKeeps ==
  ASSUME IInv, NEW i \in Item, Reserve(i)
  PROVE  IInv'
<1>. USE DEF IInv, TypeInv
<1>. DEFINE s == NextStage(i)
            r == [stage |-> s, ord |-> stage[i][s].tries + 1, state |-> "reserved",
                  gen |-> item[i].gen, epoch |-> epoch]
<1>1. /\ res[i] = None /\ Admits(i) /\ stage[i][s].tries < MaxReroutes /\ desired = "running"
      /\ lanes' = lanes \cup {i} /\ mutex' = IF i \in Shared THEN i ELSE mutex
      /\ pool' = pool + 1 /\ item' = [item EXCEPT ![i].current = "active"]
      /\ res' = [res EXCEPT ![i] = r]
      /\ UNCHANGED <<run, stage, att, eff, world>>
  BY DEF Reserve
<1>2. s \in Step
  BY NextStageIsAStage
<1>. HIDE DEF s
<1>3. r \in Reservations /\ r # None
  <2>1. stage[i][s].tries \in 0..MaxReroutes /\ item[i].gen \in Nat /\ epoch \in 1..MaxEpoch
    BY <1>2 DEF ItemsTyped, Items, Stages, RunTyped
  <2>2. stage[i][s].tries + 1 \in 1..MaxReroutes
    <3>1. stage[i][s].tries < MaxReroutes
      BY <1>1
    <3>. QED  BY <2>1, <3>1, LimitsAreNumbers
  <2>3. r \in Reservations
    BY <1>2, <2>1, <2>2 DEF Reservations, ResStates
  <2>. QED  BY <2>3, SomethingIsNotNone
<1>. HIDE DEF r
<1>4. /\ res' \in [Item -> Reservations \cup {None}] /\ res'[i] = r
      /\ \A j \in Item \ {i} : res'[j] = res[j]
  BY <1>1, <1>3 DEF AccountsTyped
<1>5. Live \in SUBSET Item /\ Live' = Live \cup {i} /\ i \in Item \ Live
  BY <1>1, <1>3, <1>4, LiveTyped DEF Live, AccountsTyped
<1>6. item' \in [Item -> Items] /\ \A j \in Item : item'[j].cand = item[j].cand
  BY <1>1, ItemMoves DEF ItemStates
<1>7. TypeInv'
  BY <1>1, <1>4, <1>6
     DEF RunTyped, ItemsTyped, AccountsTyped, AttTyped, EffTyped, WorldTyped, run, world
<1>8. OpenHolds'
  <2>1. SUFFICES ASSUME NEW k \in DOMAIN att, IsOpen(k) PROVE Holds(k)'
    BY <1>1 DEF OpenHolds, IsOpen
  <2>2. k[1] \in Item /\ Holds(k)
    BY <2>1, AttemptParts DEF AttTyped, OpenHolds
  <2>. QED  BY <1>1, <1>4, <2>2 DEF Holds
<1>9. LaunchesAreKnown' /\ WorkersFit'
  BY <1>1 DEF LaunchesAreKnown, WorkersFit, MayStart, WorkerFits, AttemptFits, EffectIn, HasEffect,
              IsOpen, world
<1>10. Accounted'
  <2>1. Cardinality(Live') = Cardinality(Live) + 1
    BY <1>5, ItemsAreFew
  <2>2. pool' = Cardinality(Live') /\ pool' <= Capacity
    BY <1>1, <2>1 DEF Admits, Accounted
  <2>3. Live' \subseteq lanes' /\ Cardinality(lanes') <= MaxLanes
    BY <1>1, <1>5 DEF Admits, Accounted
  <2>4. ASSUME NEW j \in Live' \cap Shared PROVE mutex' = j
    <3>1. CASE j = i
      BY <1>1, <2>4, <3>1
    <3>2. CASE j # i
      <4>1. j \in Live \cap Shared /\ j \in Item /\ mutex = j
        BY <1>5, <2>4, <3>2 DEF Accounted
      <4>2. i \notin Shared
        BY <1>1, <4>1, NoneAssumption DEF Admits
      <4>. QED  BY <1>1, <4>1, <4>2
    <3>. QED  BY <3>1, <3>2
  <2>. QED  BY <2>2, <2>3, <2>4 DEF Accounted
<1>11. Fence' /\ Closed'
  BY <1>1 DEF Fence, Closed, run
<1>. QED  BY <1>7, <1>8, <1>9, <1>10, <1>11

LEMMA BeginKeeps ==
  ASSUME IInv, NEW i \in Item, Begin(i)
  PROVE  IInv'
<1>. USE DEF IInv, TypeInv
<1>. SUFFICES ASSUME NEW s, s = res[i].stage, NEW k, k = <<i, s, res[i].ord>>
              PROVE  IInv'
  OBVIOUS
<1>. DEFINE a == [state |-> IF Owned(s) THEN "dispatchable" ELSE "running",
                  gen |-> item[i].gen, out |-> None, bound |-> FALSE, result |-> None]
            p == [stage[i][s] EXCEPT !.state = "active", !.tries = res[i].ord, !.current = TRUE,
                                     !.evidence = None]
<1>1. /\ res[i] # None /\ res[i].state = "active" /\ res[i].ord = stage[i][s].tries + 1
      /\ att' = [m \in DOMAIN att \cup {k} |-> IF m = k THEN a ELSE att[m]]
      /\ stage' = [stage EXCEPT ![i][s] = p]
      /\ item' = [item EXCEPT ![i].current = "active"]
      /\ UNCHANGED <<run, res, accounts, world>>
  BY DEF Begin
<1>2. IF Owned(s) THEN Put("launch", k, item[i].gen) ELSE UNCHANGED eff
  BY DEF Begin
<1>3. i \in Live /\ s \in Step /\ res[i].ord \in 1..MaxReroutes
  BY <1>1, LiveTyped DEF Reservations
<1>4. stage[i][s] \in Stages /\ item[i].gen \in Nat
  BY <1>3 DEF ItemsTyped, Items
<1>5. k \in Attempts /\ k[1] = i /\ k[2] = s /\ k[3] = res[i].ord /\ s = res[i].stage
  BY <1>3 DEF Attempts
<1>6. k \notin DOMAIN att /\ k \notin DOMAIN worker /\ \A kind : <<kind, k>> \notin DOMAIN eff
      /\ <<kind, k>> \notin calls
  <2>1. k \notin DOMAIN att
    BY <1>1, <1>4, <1>5 DEF OpenHolds, Stages
  <2>. QED  BY <2>1 DEF EffTyped, WorldTyped
<1>7. p \in Stages /\ p.tries = res[i].ord
  BY <1>3, <1>4, StageBegun
<1>8. a \in AttRecords /\ a.state = (IF Owned(s) THEN "dispatchable" ELSE "running")
      /\ a.bound = FALSE
  BY <1>4 DEF AttRecords, AttStates
<1>9. cancel = "none"
  BY <1>1, <1>3 DEF Fence
<1>. HIDE DEF a, p
<1>10. /\ DOMAIN att' = DOMAIN att \cup {k} /\ att'[k] = a
       /\ \A m \in DOMAIN att \ {k} : att'[m] = att[m]
  BY <1>1, <1>6
<1>11. AttTyped'
  BY <1>1, <1>5, <1>8 DEF AttTyped
<1>12. /\ stage' \in [Item -> [Step -> Stages]] /\ stage'[i][s] = p
       /\ \A t \in Step \ {s} : stage'[i][t] = stage[i][t]
       /\ \A j \in Item \ {i} : stage'[j] = stage[j]
  BY <1>1, <1>3, <1>7, StageMoves
<1>13. item' \in [Item -> Items]
  BY <1>1, ItemMoves DEF ItemStates
<1>14. /\ eff' \in [DOMAIN eff' -> EffRecords]
       /\ DOMAIN eff' = DOMAIN eff \cup (IF Owned(s) THEN {<<"launch", k>>} ELSE {})
       /\ \A e \in DOMAIN eff : eff'[e] = eff[e]
  <2>1. CASE Owned(s)
    <3>1. Put("launch", k, item[i].gen)
      BY <1>2, <2>1
    <3>2. /\ eff' \in [DOMAIN eff' -> EffRecords] /\ DOMAIN eff' = DOMAIN eff \cup {<<"launch", k>>}
          /\ \A e \in DOMAIN eff \ {<<"launch", k>>} : eff'[e] = eff[e]
      BY <1>4, <3>1, PutMakes
    <3>. QED  BY <1>6, <2>1, <3>2
  <2>2. CASE ~Owned(s)
    BY <1>2, <2>2 DEF EffTyped
  <2>. QED  BY <2>1, <2>2
<1>15. TypeInv'
  <2>1. DOMAIN eff' \subseteq Kinds \X DOMAIN att'
    BY <1>10, <1>14 DEF EffTyped, Kinds
  <2>2. RunTyped' /\ ItemsTyped' /\ AccountsTyped'
    BY <1>1, <1>12, <1>13 DEF RunTyped, ItemsTyped, AccountsTyped, run, accounts
  <2>3. WorldTyped'
    BY <1>1, <1>10 DEF WorldTyped, world
  <2>. QED  BY <1>11, <1>14, <2>1, <2>2, <2>3 DEF EffTyped
<1>16. OpenHolds'
  <2>1. SUFFICES ASSUME NEW m \in DOMAIN att'
                 PROVE  m[3] <= stage'[m[1]][m[2]].tries /\ (IsOpen(m)' => Holds(m)')
    BY DEF OpenHolds
  <2>2. CASE m = k
    BY <1>1, <1>5, <1>7, <1>12, <1>3, <2>2 DEF Holds
  <2>3. CASE m # k
    <3>1. m \in DOMAIN att /\ m[1] \in Item /\ m[2] \in Step /\ m[3] \in 1..MaxReroutes
      BY <1>10, <2>3, AttemptParts DEF AttTyped
    <3>2. m[3] <= stage[m[1]][m[2]].tries /\ (IsOpen(m) => Holds(m))
      BY <3>1 DEF OpenHolds
    <3>3. IsOpen(m)' => Holds(m)'
      BY <1>1, <1>10, <2>3, <3>1, <3>2 DEF IsOpen, Holds
    <3>4. CASE m[1] = i /\ m[2] = s
      BY <1>1, <1>3, <1>4, <1>7, <1>12, <3>1, <3>2, <3>3, <3>4 DEF Stages
    <3>5. CASE ~(m[1] = i /\ m[2] = s)
      BY <1>12, <3>1, <3>2, <3>3, <3>5
    <3>. QED  BY <3>4, <3>5
  <2>. QED  BY <2>2, <2>3
<1>17. AttemptFits(k)'
  <2>1. att'[k].state \in {"dispatchable", "launching", "result_observed"} => Owned(k[2])
    BY <1>5, <1>8, <1>10
  <2>2. HasEffect("launch", k)' => Owned(k[2])
    BY <1>5, <1>6, <1>14 DEF HasEffect
  <2>. QED  BY <1>8, <1>10, <2>1, <2>2 DEF AttemptFits
<1>18. LaunchesAreKnown' /\ WorkersFit'
  <2>1. \A m \in DOMAIN att \ {k} :
           /\ <<"launch", m>> \in DOMAIN eff' <=> <<"launch", m>> \in DOMAIN eff
           /\ <<"launch", m>> \in DOMAIN eff => eff'[<<"launch", m>>] = eff[<<"launch", m>>]
    BY <1>14
  <2>2. UNCHANGED <<worker, calls>>
    BY <1>1 DEF world
  <2>. QED  BY <1>6, <1>10, <1>14, <1>15, <1>17, <2>1, <2>2, OneAttemptMoves
<1>19. Accounted'
  BY <1>1 DEF Accounted, accounts, Live
<1>20. Fence' /\ Closed'
  BY <1>1, <1>9 DEF Fence, Closed, run
<1>. QED  BY <1>15, <1>16, <1>18, <1>19, <1>20

LEMMA RetryKeeps ==
  ASSUME IInv, NEW i \in Item, Retry(i)
  PROVE  IInv'
<1>. USE DEF IInv, TypeInv
<1>. DEFINE s == NextStage(i)
            p == [stage[i][s] EXCEPT !.state = "pending", !.current = FALSE, !.evidence = None,
                                     !.adopted = FALSE]
<1>1. /\ desired = "running" /\ stage' = [stage EXCEPT ![i][s] = p]
      /\ item' = [item EXCEPT ![i].current = "active"]
      /\ UNCHANGED <<run, res, accounts, att, eff, world>>
  BY DEF Retry, Going
<1>2. s \in Step
  BY NextStageIsAStage
<1>. HIDE DEF s
<1>3. p \in Stages /\ p.tries = stage[i][s].tries
  <2>1. stage[i][s] \in Stages
    BY <1>2 DEF ItemsTyped
  <2>. QED  BY <2>1, StageToRepeat
<1>. HIDE DEF p
<1>4. /\ stage' \in [Item -> [Step -> Stages]] /\ stage'[i][s] = p
      /\ \A t \in Step \ {s} : stage'[i][t] = stage[i][t]
      /\ \A j \in Item \ {i} : stage'[j] = stage[j]
  BY <1>1, <1>2, <1>3, StageMoves
<1>5. item' \in [Item -> Items]
  BY <1>1, ItemMoves DEF ItemStates
<1>6. TypeInv'
  BY <1>1, <1>4, <1>5
     DEF RunTyped, ItemsTyped, AccountsTyped, AttTyped, EffTyped, WorldTyped, run, accounts, world
<1>7. OpenHolds'
  <2>1. \A j \in Item, t \in Step : stage'[j][t].tries = stage[j][t].tries
    BY <1>3, <1>4
  <2>2. \A k \in DOMAIN att : k[1] \in Item /\ k[2] \in Step
    BY AttemptParts DEF AttTyped
  <2>. QED  BY <1>1, <2>1, <2>2 DEF OpenHolds, Holds, IsOpen
<1>8. LaunchesAreKnown' /\ WorkersFit'
  BY <1>1 DEF LaunchesAreKnown, WorkersFit, MayStart, WorkerFits, AttemptFits, EffectIn, HasEffect,
              IsOpen, world
<1>9. Accounted' /\ Fence' /\ Closed'
  BY <1>1 DEF Accounted, Live, accounts, Fence, Closed, run
<1>. QED  BY <1>6, <1>7, <1>8, <1>9

\* What an attempt delivered is recorded: nothing else of the attempt changes.
LEMMA OutputIsRecorded ==
  ASSUME IInv, NEW k \in DOMAIN att, NEW r \in AttRecords, att' = [att EXCEPT ![k] = r],
         r.state = att[k].state, r.bound = att[k].bound, cancel = "none",
         item' \in [Item -> Items], stage' \in [Item -> [Step -> Stages]],
         \A i \in Item, t \in Step : stage'[i][t].tries = stage[i][t].tries,
         UNCHANGED <<run, res, accounts, eff, world>>
  PROVE  IInv'
<1>. USE DEF IInv, TypeInv
<1>1. /\ AttTyped' /\ DOMAIN att' = DOMAIN att /\ att'[k] = r
      /\ \A m \in DOMAIN att \ {k} : att'[m] = att[m]
  BY AttMoves
<1>2. TypeInv'
  BY <1>1 DEF RunTyped, ItemsTyped, AccountsTyped, EffTyped, WorldTyped, run, accounts, world
<1>3. \A m \in DOMAIN att : IsOpen(m)' <=> IsOpen(m)
  BY <1>1 DEF IsOpen
<1>4. OpenHolds'
  <2>1. \A m \in DOMAIN att : m[1] \in Item /\ m[2] \in Step
    BY AttemptParts DEF AttTyped
  <2>. QED  BY <1>1, <1>3, <2>1 DEF OpenHolds, Holds
<1>5. WorkerFits(k) => WorkerFits(k)'
  BY <1>1, <1>3 DEF WorkerFits, EffectIn, HasEffect, world
<1>6. AttemptFits(k)'
  <2>1. AttemptFits(k)
    BY DEF WorkersFit
  <2>. QED  BY <1>1, <2>1 DEF AttemptFits, EffectIn, HasEffect, world
<1>7. MayStart(k) => MayStart(k)'
  BY <1>1, <1>3 DEF MayStart, EffectIn, HasEffect
<1>8. LaunchesAreKnown' /\ WorkersFit'
  <2>1. /\ <<"launch", k>> \in calls => MayStart(k)
        /\ k \in DOMAIN worker => WorkerFits(k)
    BY DEF LaunchesAreKnown, WorkersFit
  <2>. QED  BY <1>1, <1>2, <1>5, <1>6, <1>7, <2>1, OneAttemptMoves DEF world
<1>9. Accounted' /\ Fence' /\ Closed'
  BY DEF Accounted, Live, accounts, Fence, Closed, run
<1>. QED  BY <1>2, <1>4, <1>8, <1>9

\* An attempt that ends releases its reservation; its worker has ended before.
LEMMA EndOfAttempt ==
  ASSUME IInv, NEW k \in DOMAIN att, NEW r \in AttRecords, att' = [att EXCEPT ![k] = r],
         r.state \in {"sealed", "failed"}, r.bound = att[k].bound, cancel = "none", IsOpen(k),
         att[k].state = (IF Owned(k[2]) THEN "result_observed" ELSE "running"),
         item' \in [Item -> Items], stage' \in [Item -> [Step -> Stages]],
         \A i \in Item, t \in Step : stage'[i][t].tries = stage[i][t].tries,
         Release({k[1]}), UNCHANGED <<run, lanes, eff, world>>
  PROVE  IInv'
<1>. USE DEF IInv, TypeInv
<1>0. k[1] \in Item /\ {k[1]} \in SUBSET Item /\ lanes' \subseteq Item
  BY AttemptParts DEF AttTyped, AccountsTyped
<1>1. /\ AttTyped' /\ DOMAIN att' = DOMAIN att /\ att'[k] = r
      /\ \A m \in DOMAIN att \ {k} : att'[m] = att[m]
  BY AttMoves
<1>2. /\ AccountsTyped' /\ Live' = Live \ {k[1]}
      /\ \A i \in Item \ {k[1]} : res'[i] = res[i]
      /\ pool' = Cardinality(Live') /\ pool' <= Capacity
      /\ \A i \in Live' \cap Shared : mutex' = i
  BY <1>0, ReleaseFrees
<1>3. TypeInv'
  BY <1>1, <1>2 DEF RunTyped, ItemsTyped, EffTyped, WorldTyped, run, world
<1>4. ~IsOpen(k)' /\ \A m \in DOMAIN att \ {k} : IsOpen(m)' <=> IsOpen(m)
  BY <1>1 DEF IsOpen
<1>5. OpenHolds'
  <2>1. SUFFICES ASSUME NEW m \in DOMAIN att
                 PROVE  m[3] <= stage'[m[1]][m[2]].tries /\ (IsOpen(m)' => Holds(m)')
    BY <1>1 DEF OpenHolds
  <2>2. m[1] \in Item /\ m[2] \in Step
    BY AttemptParts DEF AttTyped
  <2>3. m[3] <= stage'[m[1]][m[2]].tries
    BY <2>2 DEF OpenHolds
  <2>4. ASSUME IsOpen(m)' PROVE Holds(m)'
    <3>1. m # k /\ IsOpen(m)
      BY <1>4, <2>4
    <3>2. m[1] # k[1]
      BY <3>1, OneOpen
    <3>3. Holds(m)
      BY <3>1 DEF OpenHolds
    <3>. QED  BY <1>2, <2>2, <3>2, <3>3 DEF Holds
  <2>. QED  BY <2>3, <2>4
<1>6. k \in DOMAIN worker => WorkerFits(k)'
  <2>1. SUFFICES ASSUME k \in DOMAIN worker PROVE WorkerFits(k)'
    OBVIOUS
  <2>2. WorkerFits(k)
    BY <2>1 DEF WorkersFit
  <2>. QED  BY <1>1, <2>2 DEF WorkerFits, EffectIn, HasEffect, world
<1>7. AttemptFits(k)'
  <2>1. AttemptFits(k)
    BY DEF WorkersFit
  <2>. QED  BY <1>1, <2>1 DEF AttemptFits, EffectIn, HasEffect, world
<1>8. <<"launch", k>> \notin calls
  BY DEF LaunchesAreKnown, MayStart
<1>9. LaunchesAreKnown' /\ WorkersFit'
  BY <1>1, <1>3, <1>6, <1>7, <1>8, OneAttemptMoves DEF world
<1>10. Accounted'
  BY <1>2 DEF Accounted
<1>11. Fence' /\ Closed'
  BY DEF Fence, Closed, run
<1>. QED  BY <1>3, <1>5, <1>9, <1>10, <1>11

LEMMA ReroutedStages ==
  ASSUME NEW f \in [Step -> Stages]
  PROVE  /\ Rerouted(f) \in [Step -> Stages]
         /\ \A t \in Step : Rerouted(f)[t].tries = f[t].tries
<1>1. ASSUME NEW t \in Step
      PROVE  /\ [f[t] EXCEPT !.state = "invalidated", !.current = FALSE, !.evidence = None,
                             !.adopted = FALSE] \in Stages
             /\ [f[t] EXCEPT !.state = "invalidated", !.current = FALSE, !.evidence = None,
                             !.adopted = FALSE].tries = f[t].tries
  BY DEF Stages, StageStates
<1>. QED  BY <1>1 DEF Rerouted

LEMMA AdoptedStages ==
  ASSUME NEW f \in [Step -> Stages]
  PROVE  LET g == [t \in Step |-> IF Evaluates(t) THEN [f[t] EXCEPT !.adopted = TRUE] ELSE f[t]]
         IN  g \in [Step -> Stages] /\ \A t \in Step : g[t].tries = f[t].tries
<1>1. ASSUME NEW t \in Step
      PROVE  /\ [f[t] EXCEPT !.adopted = TRUE] \in Stages
             /\ [f[t] EXCEPT !.adopted = TRUE].tries = f[t].tries
  BY DEF Stages
<1>. QED  BY <1>1

\* The stages of one item are replaced.
LEMMA StagesMove ==
  ASSUME ItemsTyped, NEW i \in Item, NEW f \in [Step -> Stages], stage' = [stage EXCEPT ![i] = f],
         \A t \in Step : f[t].tries = stage[i][t].tries
  PROVE  /\ stage' \in [Item -> [Step -> Stages]]
         /\ \A j \in Item, t \in Step : stage'[j][t].tries = stage[j][t].tries
<1>1. stage' \in [Item -> [Step -> Stages]] /\ stage'[i] = f
      /\ \A j \in Item \ {i} : stage'[j] = stage[j]
  BY DEF ItemsTyped
<1>. QED  BY <1>1

LEMMA CandidateKeeps ==
  ASSUME IInv, NEW k \in DOMAIN att, NEW kind \in {"first", "adoption", "invalidation"},
         RecordCandidate(k, kind)
  PROVE  IInv'
<1>. USE DEF IInv, TypeInv
<1>. DEFINE i == k[1]
            gen == IF item[i].cand = None /\ item[i].gen > 0 THEN item[i].gen ELSE item[i].gen + 1
            c == [gen |-> gen, by |-> k]
            q == [item[i] EXCEPT !.gen = gen, !.cand = c, !.current = "active"]
            r == [att[k] EXCEPT !.out = gen]
            z == [att[k] EXCEPT !.out = gen, !.state = "failed"]
<1>1. /\ IsOpen(k) /\ att[k].state = "result_observed" /\ Codes(k[2])
      /\ item' = [item EXCEPT ![i] = q] /\ UNCHANGED <<run, eff, world>>
  BY DEF RecordCandidate
<1>2. k \in Attempts /\ i \in Item /\ item[i] \in Items /\ stage[i] \in [Step -> Stages]
      /\ att[k] \in AttRecords
  BY AttemptParts DEF AttTyped, ItemsTyped
<1>3. gen \in Nat
  BY <1>2 DEF Items
<1>. HIDE DEF gen
<1>4. c \in Candidates
  BY <1>2, <1>3 DEF Candidates
<1>. HIDE DEF c
<1>5. q \in Items
  BY <1>2, <1>3, <1>4 DEF Items, ItemStates
<1>6. /\ r \in AttRecords /\ r.state = att[k].state /\ r.bound = att[k].bound
      /\ z \in AttRecords /\ z.state = "failed" /\ z.bound = att[k].bound
  BY <1>2, <1>3 DEF AttRecords, AttStates
<1>. HIDE DEF q
<1>7. item' \in [Item -> Items]
  BY <1>1, <1>2, <1>5 DEF ItemsTyped
<1>8. cancel = "none"
  BY <1>1 DEF Fence
<1>9. CASE kind = "first"
  <2>1. att' = [att EXCEPT ![k] = r] /\ UNCHANGED <<stage, res, accounts>>
    BY <1>9 DEF RecordCandidate, gen
  <2>2. stage' \in [Item -> [Step -> Stages]]
        /\ \A j \in Item, t \in Step : stage'[j][t].tries = stage[j][t].tries
    BY <2>1 DEF ItemsTyped
  <2>. HIDE DEF r
  <2>. QED  BY <1>1, <1>6, <1>7, <1>8, <2>1, <2>2, OutputIsRecorded
<1>10. CASE kind = "adoption"
  <2>. DEFINE g == [t \in Step |-> IF Evaluates(t) THEN [stage[i][t] EXCEPT !.adopted = TRUE]
                                   ELSE stage[i][t]]
  <2>1. /\ att' = [att EXCEPT ![k] = r] /\ stage' = [stage EXCEPT ![i] = g]
        /\ UNCHANGED <<res, accounts>>
    BY <1>10 DEF RecordCandidate, gen
  <2>2. g \in [Step -> Stages] /\ \A t \in Step : g[t].tries = stage[i][t].tries
    BY <1>2, AdoptedStages
  <2>. HIDE DEF g, r
  <2>3. stage' \in [Item -> [Step -> Stages]]
        /\ \A j \in Item, t \in Step : stage'[j][t].tries = stage[j][t].tries
    BY <1>2, <2>1, <2>2, StagesMove
  <2>. QED  BY <1>1, <1>6, <1>7, <1>8, <2>1, <2>3, OutputIsRecorded
<1>11. CASE kind = "invalidation"
  <2>1. /\ att' = [att EXCEPT ![k] = z] /\ stage' = [stage EXCEPT ![i] = Rerouted(stage[i])]
        /\ Release({i}) /\ UNCHANGED lanes
    BY <1>11 DEF RecordCandidate, gen
  <2>2. stage' \in [Item -> [Step -> Stages]]
        /\ \A j \in Item, t \in Step : stage'[j][t].tries = stage[j][t].tries
    BY <1>2, <2>1, ReroutedStages, StagesMove
  <2>3. Owned(k[2])
    BY <1>1 DEF Owned, Codes
  <2>. HIDE DEF z
  <2>. QED  BY <1>1, <1>6, <1>7, <1>8, <2>1, <2>2, <2>3, EndOfAttempt
<1>. QED  BY <1>9, <1>10, <1>11

LEMMA SealKeeps ==
  ASSUME IInv, NEW k \in DOMAIN att, NEW verdict \in {"passed", "failed"}, Seal(k, verdict)
  PROVE  IInv'
<1>. USE DEF IInv, TypeInv
<1>. DEFINE i == k[1]
            s == k[2]
            n == IF att[k].out # None THEN att[k].out ELSE att[k].gen
            p == [stage[i][s] EXCEPT !.state = verdict, !.evidence = n]
            r == [att[k] EXCEPT !.state = "sealed"]
<1>1. /\ IsOpen(k) /\ Judgeable(k) /\ att' = [att EXCEPT ![k] = r]
      /\ stage' = [stage EXCEPT ![i][s] = p]
      /\ Release({i}) /\ UNCHANGED <<run, lanes, eff, world>>
  BY DEF Seal
<1>2. PICK x \in ItemStates : item' = [item EXCEPT ![i].current = x]
  BY DEF Seal, ItemStates
<1>3. i \in Item /\ s \in Step /\ att[k] \in AttRecords /\ stage[i][s] \in Stages
  BY AttemptParts DEF AttTyped, ItemsTyped
<1>4. item' \in [Item -> Items]
  BY <1>2, <1>3, ItemMoves
<1>5. n \in Nat \cup {None}
  BY <1>3 DEF AttRecords
<1>. HIDE DEF n
<1>6. p \in Stages /\ p.tries = stage[i][s].tries
  BY <1>3, <1>5 DEF Stages, StageStates
<1>. HIDE DEF p
<1>7. stage' \in [Item -> [Step -> Stages]]
      /\ \A j \in Item, t \in Step : stage'[j][t].tries = stage[j][t].tries
  <2>1. /\ stage' \in [Item -> [Step -> Stages]] /\ stage'[i][s] = p
        /\ \A t \in Step \ {s} : stage'[i][t] = stage[i][t]
        /\ \A j \in Item \ {i} : stage'[j] = stage[j]
    BY <1>1, <1>3, <1>6, StageMoves
  <2>. QED  BY <1>6, <2>1
<1>8. r \in AttRecords /\ r.state = "sealed" /\ r.bound = att[k].bound
  BY <1>3 DEF AttRecords, AttStates
<1>. HIDE DEF r
<1>9. att[k].state = (IF Owned(k[2]) THEN "result_observed" ELSE "running")
  BY <1>1 DEF Judgeable
<1>10. cancel = "none"
  BY <1>1, <1>9 DEF Fence
<1>. QED  BY <1>1, <1>4, <1>7, <1>8, <1>9, <1>10, EndOfAttempt

-----------------------------------------------------------------------------
(* Pause, cancellation, and a new owner.                                   *)

LEMMA PauseKeeps ==
  ASSUME IInv, Pause \/ Resume \/ UNCHANGED vars
  PROVE  IInv'
<1>1. /\ UNCHANGED <<cancel, epoch, item, stage, res, accounts, att, eff, world>>
      /\ \/ desired = "running" /\ desired' = "paused"
         \/ desired = "paused" /\ desired' = "running"
         \/ desired' = desired
  BY DEF Pause, Resume, vars, run
<1>. USE DEF IInv, TypeInv
<1>2. TypeInv'
  BY <1>1 DEF RunTyped, ItemsTyped, AccountsTyped, AttTyped, EffTyped, WorldTyped, accounts, world
<1>3. OpenHolds' /\ Accounted'
  BY <1>1 DEF OpenHolds, Holds, IsOpen, Accounted, Live, accounts
<1>4. LaunchesAreKnown' /\ WorkersFit'
  BY <1>1 DEF LaunchesAreKnown, WorkersFit, MayStart, WorkerFits, AttemptFits, EffectIn, HasEffect,
              IsOpen, world
<1>5. Fence' /\ Closed'
  BY <1>1 DEF Fence, Closed, IsOpen, Settled, Live, accounts
<1>. QED  BY <1>2, <1>3, <1>4, <1>5

\* The fence keeps what is settled, and of everything else only that its outcome is open.
LEMMA FencedEffect ==
  ASSUME NEW e \in EffRecords
  PROVE  /\ Fenced(e) \in EffRecords
         /\ e.state = "reconciled" => Fenced(e).state = "reconciled"
         /\ e.state \in {"dispatching", "ambiguous"} => Fenced(e).state = "ambiguous"
<1>. DEFINE x == CASE e.state = "intended"                              -> "proven_absent"
                   [] e.state \in {"dispatching", "observed", "ambiguous"} -> "ambiguous"
                   [] OTHER                                             -> e.state
<1>1. Fenced(e) = [e EXCEPT !.state = x]
  BY DEF Fenced
<1>2. x \in EffStates
  BY DEF EffRecords, EffStates
<1>3. [e EXCEPT !.state = x] \in EffRecords /\ [e EXCEPT !.state = x].state = x
  <2>. HIDE DEF x
  <2>. QED  BY <1>2 DEF EffRecords
<1>4. /\ e.state = "reconciled" => x = "reconciled"
      /\ e.state \in {"dispatching", "ambiguous"} => x = "ambiguous"
  OBVIOUS
<1>. HIDE DEF x
<1>. QED  BY <1>1, <1>3, <1>4

LEMMA FencedStage ==
  ASSUME NEW q \in Stages
  PROVE  LET p == [q EXCEPT !.state = IF @ \in {"active", "passed", "failed"} THEN "cancelled"
                                      ELSE @,
                            !.current = FALSE, !.evidence = None, !.adopted = FALSE]
         IN  p \in Stages /\ p.tries = q.tries /\ p.state # "passed"
<1>. DEFINE x == IF q.state \in {"active", "passed", "failed"} THEN "cancelled" ELSE q.state
            p == [q EXCEPT !.state = x, !.current = FALSE, !.evidence = None, !.adopted = FALSE]
<1>1. x \in StageStates /\ x # "passed"
  BY DEF Stages, StageStates
<1>2. p \in Stages /\ p.tries = q.tries /\ p.state = x
  <2>. HIDE DEF x
  <2>. QED  BY <1>1 DEF Stages
<1>. QED  BY <1>1, <1>2

LEMMA RequestKeeps ==
  ASSUME IInv, RequestCancellation
  PROVE  IInv'
<1>. USE DEF IInv, TypeInv
<1>. DEFINE bound == {k \in OpenAttempts : Owned(k[2]) /\ att[k].bound}
            c(e) == [state |-> "intended", gen |-> item[e[2][1]].gen + 1, epoch |-> epoch,
                     seen |-> FALSE]
<1>1. /\ desired' = "cancelled" /\ cancel' = "open"
      /\ item' = [i \in Item |->
           [desired |-> "cancel", current |-> "blocked", gen |-> item[i].gen + 1, cand |-> None]]
      /\ UNCHANGED <<epoch, accounts, world>>
  BY DEF RequestCancellation
<1>2. /\ stage' \in [Item -> [Step -> Stages]]
      /\ \A i \in Item, s \in Step : /\ stage'[i][s].state # "passed"
                                     /\ stage'[i][s].tries = stage[i][s].tries
  <2>. DEFINE p(q) == [q EXCEPT
                !.state = IF @ \in {"active", "passed", "failed"} THEN "cancelled" ELSE @,
                !.current = FALSE, !.evidence = None, !.adopted = FALSE]
  <2>1. stage' = [i \in Item |-> [s \in Step |-> p(stage[i][s])]]
    BY DEF RequestCancellation
  <2>2. \A i \in Item, s \in Step : stage[i][s] \in Stages
    BY DEF ItemsTyped
  <2>3. \A q \in Stages : p(q) \in Stages /\ p(q).tries = q.tries /\ p(q).state # "passed"
    BY FencedStage
  <2>. HIDE DEF p
  <2>. QED  BY <2>1, <2>2, <2>3
<1>3. item' \in [Item -> Items] /\ \A i \in Item : item'[i].cand = None
  BY <1>1 DEF ItemsTyped, Items, ItemStates
<1>4. /\ AttTyped' /\ DOMAIN att' = DOMAIN att
      /\ \A k \in DOMAIN att : /\ att'[k].bound = att[k].bound
                               /\ IF IsOpen(k) THEN att'[k].state = "cancelling"
                                  ELSE att'[k] = att[k]
  <2>. DEFINE r(k) == [att[k] EXCEPT !.state = "cancelling"]
  <2>1. att' = [k \in DOMAIN att |-> IF IsOpen(k) THEN r(k) ELSE att[k]]
    BY DEF RequestCancellation
  <2>2. \A k \in DOMAIN att : r(k) \in AttRecords /\ r(k).state = "cancelling"
                              /\ r(k).bound = att[k].bound
    BY DEF AttTyped, AttRecords, AttStates
  <2>. HIDE DEF r
  <2>3. DOMAIN att' = DOMAIN att
        /\ \A k \in DOMAIN att : att'[k] = IF IsOpen(k) THEN r(k) ELSE att[k]
    BY <2>1
  <2>4. att' \in [DOMAIN att -> AttRecords]
    BY <2>1, <2>2 DEF AttTyped
  <2>. QED  BY <2>2, <2>3, <2>4 DEF AttTyped
<1>5. \A k \in DOMAIN att : IsOpen(k)' <=> IsOpen(k)
  BY <1>4 DEF IsOpen
<1>6. bound \subseteq DOMAIN att
  BY DEF OpenAttempts
<1>7. /\ EffTyped' /\ DOMAIN eff \subseteq DOMAIN eff'
      /\ \A e \in DOMAIN eff : eff'[e] = Fenced(eff[e])
      /\ \A k : <<"launch", k>> \in DOMAIN eff' <=> <<"launch", k>> \in DOMAIN eff
  <2>. DEFINE C == {<<"cancel", k>> : k \in bound}
  <2>1. eff' = [e \in DOMAIN eff \cup C |-> IF e \in DOMAIN eff THEN Fenced(eff[e]) ELSE c(e)]
    BY DEF RequestCancellation
  <2>2. \A e \in C : e \in Kinds \X DOMAIN att /\ e[2] \in DOMAIN att
    BY <1>6 DEF Kinds
  <2>3. \A e \in C : c(e) \in EffRecords
    <3>1. SUFFICES ASSUME NEW e \in C PROVE c(e) \in EffRecords
      OBVIOUS
    <3>2. e[2] \in DOMAIN att /\ e[2][1] \in Item
      BY <2>2, AttemptParts DEF AttTyped
    <3>3. item[e[2][1]].gen + 1 \in Nat
      BY <3>2 DEF ItemsTyped, Items
    <3>. QED  BY <3>3 DEF RunTyped, EffRecords, EffStates
  <2>4. \A k : <<"launch", k>> \notin C
    OBVIOUS
  <2>. HIDE DEF C, c
  <2>5. DOMAIN eff' = DOMAIN eff \cup C /\ \A e \in DOMAIN eff : eff'[e] = Fenced(eff[e])
    BY <2>1
  <2>6. \A e \in DOMAIN eff : Fenced(eff[e]) \in EffRecords
    BY FencedEffect DEF EffTyped
  <2>7. eff' \in [DOMAIN eff' -> EffRecords]
    BY <2>1, <2>3, <2>6
  <2>8. DOMAIN eff' \subseteq Kinds \X DOMAIN att'
    BY <1>4, <2>2, <2>5 DEF EffTyped
  <2>. QED  BY <2>4, <2>5, <2>7, <2>8 DEF EffTyped
<1>8. /\ \A k \in DOMAIN att :
           /\ EffectIn("launch", k, {"reconciled"}) => EffectIn("launch", k, {"reconciled"})'
           /\ EffectIn("launch", k, {"dispatching", "ambiguous"})
                => EffectIn("launch", k, {"ambiguous"})'
  <2>1. \A k \in DOMAIN att : <<"launch", k>> \in DOMAIN eff =>
          /\ eff[<<"launch", k>>] \in EffRecords
          /\ eff'[<<"launch", k>>] = Fenced(eff[<<"launch", k>>])
    BY <1>7 DEF EffTyped
  <2>. QED  BY <1>7, <2>1, FencedEffect DEF EffectIn, HasEffect
<1>9. /\ res' \in [Item -> Reservations \cup {None}] /\ Live' = Live
      /\ \A i \in Live : res'[i].state = "release_requested" /\ res'[i].stage = res[i].stage
                         /\ res'[i].ord = res[i].ord /\ res'[i] # None
  <2>. DEFINE r(i) == [res[i] EXCEPT !.state = "release_requested"]
  <2>1. res' = [i \in Item |-> IF res[i] = None THEN None ELSE r(i)]
    BY DEF RequestCancellation
  <2>2. Live = {i \in Item : res[i] # None} /\ \A i \in Live : res[i] \in Reservations
    BY LiveTyped
  <2>3. \A i \in Live : r(i) \in Reservations /\ r(i).state = "release_requested"
                        /\ r(i).stage = res[i].stage /\ r(i).ord = res[i].ord
    BY <2>2 DEF Reservations, ResStates
  <2>. HIDE DEF r
  <2>4. \A i \in Live : r(i) # None
    BY <2>3, SomethingIsNotNone
  <2>5. res' \in [Item -> Reservations \cup {None}]
    BY <2>1, <2>2, <2>3
  <2>6. DOMAIN res' = Item /\ \A i \in Item : res'[i] = IF i \in Live THEN r(i) ELSE None
    BY <2>1, <2>2
  <2>7. Live' = Live
    BY <2>2, <2>4, <2>6 DEF Live
  <2>. QED  BY <2>2, <2>3, <2>4, <2>5, <2>6, <2>7
<1>10. TypeInv'
  BY <1>1, <1>2, <1>3, <1>4, <1>7, <1>9
     DEF RunTyped, ItemsTyped, AccountsTyped, WorldTyped, accounts, world
<1>11. OpenHolds'
  <2>1. SUFFICES ASSUME NEW k \in DOMAIN att
                 PROVE  k[3] <= stage'[k[1]][k[2]].tries /\ (IsOpen(k)' => Holds(k)')
    BY <1>4 DEF OpenHolds
  <2>2. k[1] \in Item /\ k[2] \in Step
    BY AttemptParts DEF AttTyped
  <2>3. Holds(k) => k[1] \in Live
    BY <2>2, LiveTyped DEF Holds
  <2>. QED  BY <1>2, <1>5, <1>9, <2>2, <2>3 DEF OpenHolds, Holds
<1>12. LaunchesAreKnown'
  <2>1. SUFFICES ASSUME NEW k \in DOMAIN att, <<"launch", k>> \in calls PROVE MayStart(k)'
    BY <1>1, <1>4 DEF LaunchesAreKnown, world
  <2>2. IsOpen(k) /\ ~att[k].bound /\ EffectIn("launch", k, {"dispatching", "ambiguous"})
    BY <2>1 DEF LaunchesAreKnown, MayStart, EffectIn
  <2>3. IsOpen(k)' /\ ~att'[k].bound /\ att'[k].state = "cancelling"
        /\ EffectIn("launch", k, {"ambiguous"})'
    BY <1>4, <1>5, <1>8, <2>2
  <2>. QED  BY <2>3 DEF MayStart
<1>13. WorkersFit'
  <2>1. ASSUME NEW k \in DOMAIN worker PROVE WorkerFits(k)'
    <3>1. k \in DOMAIN att /\ WorkerFits(k)
      BY <2>1 DEF WorkersFit, WorldTyped
    <3>2. EffectIn("launch", k, {"dispatching", "ambiguous", "reconciled"})'
      BY <1>8, <3>1 DEF WorkerFits, EffectIn
    <3>3. worker' = worker
      BY <1>1 DEF world
    <3>. QED  BY <1>4, <1>5, <3>1, <3>2, <3>3 DEF WorkerFits
  <2>2. ASSUME NEW k \in DOMAIN att PROVE AttemptFits(k)'
    <3>1. AttemptFits(k)
      BY <2>2 DEF WorkersFit
    <3>2. HasEffect("launch", k)' => HasEffect("launch", k)
      BY <1>7 DEF HasEffect
    <3>3. att'[k].state \in {"dispatchable", "launching", "result_observed"}
            => att[k].state = att'[k].state
      BY <1>4
    <3>. QED  BY <1>1, <1>4, <1>8, <3>1, <3>2, <3>3 DEF AttemptFits, world
  <2>. QED  BY <1>1, <1>4, <2>1, <2>2 DEF WorkersFit, world
<1>14. Accounted'
  BY <1>1, <1>9 DEF Accounted, accounts
<1>15. Fence' /\ Closed'
  BY <1>1, <1>2, <1>3, <1>4, <1>5, <1>9 DEF Fence, Closed
<1>. QED  BY <1>10, <1>11, <1>12, <1>13, <1>14, <1>15

LEMMA CloseKeeps ==
  ASSUME IInv, CloseCancellation
  PROVE  IInv'
<1>. USE DEF IInv, TypeInv
<1>1. /\ cancel = "open" /\ cancel' = "closed" /\ lanes' = {} /\ Release(Item)
      /\ item' = [i \in Item |-> [item[i] EXCEPT !.current = "cancelled"]]
      /\ UNCHANGED <<desired, epoch, stage, world>>
      /\ \A k \in DOMAIN att : IsOpen(k) /\ Owned(k[2]) => WorkerIsClosed(k)
  BY DEF CloseCancellation, OpenAttempts
<1>2. item' \in [Item -> Items] /\ \A i \in Item : item'[i].cand = item[i].cand
  <2>1. \A i \in Item : /\ [item[i] EXCEPT !.current = "cancelled"] \in Items
                        /\ [item[i] EXCEPT !.current = "cancelled"].cand = item[i].cand
    BY DEF ItemsTyped, Items, ItemStates
  <2>. QED  BY <1>1, <2>1
<1>3. /\ AttTyped' /\ DOMAIN att' = DOMAIN att
      /\ \A k \in DOMAIN att : /\ att'[k].bound = att[k].bound
                               /\ IF IsOpen(k) THEN att'[k].state = "cancelled"
                                  ELSE att'[k] = att[k]
  <2>. DEFINE x(k) == IF att[k].bound /\ worker[k] = "cancelled" THEN "cancelled"
                      ELSE att[k].result
              r(k) == [att[k] EXCEPT !.state = "cancelled", !.result = x(k)]
  <2>1. att' = [k \in DOMAIN att |-> IF ~IsOpen(k) THEN att[k] ELSE r(k)]
    BY DEF CloseCancellation
  <2>2. \A k \in DOMAIN att : att[k] \in AttRecords
                              /\ x(k) \in {"succeeded", "failed", "cancelled", None}
    BY DEF AttTyped, AttRecords
  <2>. HIDE DEF x
  <2>3. \A k \in DOMAIN att : r(k) \in AttRecords /\ r(k).state = "cancelled"
                              /\ r(k).bound = att[k].bound
    BY <2>2 DEF AttRecords, AttStates
  <2>. HIDE DEF r
  <2>4. DOMAIN att' = DOMAIN att
        /\ \A k \in DOMAIN att : att'[k] = IF IsOpen(k) THEN r(k) ELSE att[k]
    BY <2>1
  <2>5. att' \in [DOMAIN att -> AttRecords]
    BY <2>1, <2>2, <2>3
  <2>. QED  BY <2>3, <2>4, <2>5 DEF AttTyped
<1>4. \A k \in DOMAIN att : ~IsOpen(k)'
  BY <1>3 DEF IsOpen
<1>5. /\ EffTyped' /\ DOMAIN eff' = DOMAIN eff
      /\ \A e \in DOMAIN eff : IF Settled(e) THEN eff'[e] = eff[e]
                               ELSE eff'[e].state = "reconciled"
  <2>. DEFINE r(e) == [eff[e] EXCEPT !.state = "reconciled"]
  <2>1. eff' = [e \in DOMAIN eff |-> IF Settled(e) THEN eff[e] ELSE r(e)]
    BY DEF CloseCancellation
  <2>2. \A e \in DOMAIN eff : eff[e] \in EffRecords /\ r(e) \in EffRecords
                              /\ r(e).state = "reconciled"
    BY DEF EffTyped, EffRecords, EffStates
  <2>. HIDE DEF r
  <2>3. eff' \in [DOMAIN eff -> EffRecords]
    BY <2>1, <2>2
  <2>4. DOMAIN eff' = DOMAIN eff
        /\ \A e \in DOMAIN eff : eff'[e] = IF Settled(e) THEN eff[e] ELSE r(e)
    BY <2>1
  <2>. QED  BY <1>3, <2>2, <2>3, <2>4 DEF EffTyped
<1>6. \A e \in DOMAIN eff' : Settled(e)'
  BY <1>5 DEF Settled
<1>7. /\ AccountsTyped' /\ Live' = {} /\ pool' = Cardinality(Live') /\ pool' <= Capacity
      /\ \A i \in Live' \cap Shared : mutex' = i
  <2>1. Item \in SUBSET Item /\ lanes' \subseteq Item /\ Live \subseteq Item
    BY <1>1, LiveTyped
  <2>. QED  BY <1>1, <2>1, ReleaseFrees
<1>8. mutex' = None
  BY <1>1 DEF Release, AccountsTyped
<1>9. TypeInv'
  BY <1>1, <1>2, <1>3, <1>5, <1>7 DEF RunTyped, ItemsTyped, WorldTyped, world
<1>10. OpenHolds'
  BY <1>1, <1>3, <1>4 DEF OpenHolds
<1>11. LaunchesAreKnown'
  <2>1. SUFFICES ASSUME NEW k \in DOMAIN att, <<"launch", k>> \in calls PROVE FALSE
    BY <1>1, <1>3 DEF LaunchesAreKnown, world
  <2>2. MayStart(k) /\ AttemptFits(k)
    BY <2>1 DEF LaunchesAreKnown, WorkersFit
  <2>3. WorkerIsClosed(k)
    BY <1>1, <2>2 DEF MayStart, AttemptFits, EffectIn
  <2>. QED  BY <2>2, <2>3 DEF MayStart, WorkerIsClosed, EffectIn
<1>12. WorkersFit'
  <2>1. \A k \in DOMAIN att : EffectIn("launch", k, {"dispatching", "ambiguous", "reconciled"})
                              => EffectIn("launch", k, {"reconciled"})'
    BY <1>5 DEF EffectIn, HasEffect, Settled
  <2>2. ASSUME NEW k \in DOMAIN worker PROVE WorkerFits(k)'
    <3>1. k \in DOMAIN att /\ WorkerFits(k)
      BY <2>2 DEF WorkersFit, WorldTyped
    <3>2. worker[k] # "running"
      <4>1. SUFFICES ASSUME worker[k] = "running" PROVE FALSE
        OBVIOUS
      <4>2. WorkerIsClosed(k)
        BY <1>1, <3>1, <4>1 DEF WorkerFits
      <4>. QED  BY <3>1, <4>1, <4>2 DEF WorkerIsClosed, WorkerFits, EffectIn
    <3>3. EffectIn("launch", k, {"dispatching", "ambiguous", "reconciled"})'
      BY <2>1, <3>1 DEF WorkerFits, EffectIn
    <3>. QED  BY <1>1, <3>1, <3>2, <3>3 DEF WorkerFits, world
  <2>3. ASSUME NEW k \in DOMAIN att PROVE AttemptFits(k)'
    <3>1. AttemptFits(k)
      BY <2>3 DEF WorkersFit
    <3>2. att'[k].state \notin {"dispatchable", "launching", "result_observed"}
      BY <1>3, <1>4, <2>3 DEF IsOpen
    <3>3. EffectIn("launch", k, {"reconciled"}) => EffectIn("launch", k, {"reconciled"})'
      BY <1>5 DEF EffectIn, HasEffect, Settled
    <3>. QED  BY <1>1, <1>3, <1>5, <3>1, <3>2, <3>3 DEF AttemptFits, HasEffect, world
  <2>. QED  BY <1>1, <1>3, <2>2, <2>3 DEF WorkersFit, world
<1>13. Accounted'
  <2>1. Cardinality({}) = 0 /\ MaxLanes \in Nat
    BY FS_EmptySet, LimitsAreNumbers
  <2>. QED  BY <1>1, <1>7, <2>1 DEF Accounted
<1>14. Fence' /\ Closed'
  BY <1>1, <1>2, <1>3, <1>4, <1>6, <1>7, <1>8 DEF Fence, Closed
<1>. QED  BY <1>9, <1>10, <1>11, <1>12, <1>13, <1>14

LEMMA ReattachKeeps ==
  ASSUME IInv, Reattach
  PROVE  IInv'
<1>. USE DEF IInv, TypeInv
<1>1. /\ epoch < MaxEpoch /\ epoch' = epoch + 1 /\ calls' = {}
      /\ UNCHANGED <<desired, cancel, item, stage, accounts, att, worker, facts>>
  BY DEF Reattach
<1>2. epoch + 1 \in 1..MaxEpoch
  BY <1>1, DagRunV1Assumption DEF RunTyped
<1>3. /\ res' \in [Item -> Reservations \cup {None}] /\ Live' = Live
      /\ \A i \in Live : res'[i].state = res[i].state /\ res'[i].stage = res[i].stage
                         /\ res'[i].ord = res[i].ord /\ res'[i] # None
  <2>. DEFINE r(i) == [res[i] EXCEPT !.epoch = epoch + 1]
  <2>1. res' = [i \in Item |-> IF res[i] = None THEN None ELSE r(i)]
    BY DEF Reattach
  <2>2. Live = {i \in Item : res[i] # None} /\ \A i \in Live : res[i] \in Reservations
    BY LiveTyped
  <2>3. \A i \in Live : r(i) \in Reservations /\ r(i).state = res[i].state
                        /\ r(i).stage = res[i].stage /\ r(i).ord = res[i].ord
    BY <1>2, <2>2 DEF Reservations
  <2>. HIDE DEF r
  <2>4. \A i \in Live : r(i) # None
    BY <2>3, SomethingIsNotNone
  <2>5. res' \in [Item -> Reservations \cup {None}]
    BY <2>1, <2>2, <2>3
  <2>6. DOMAIN res' = Item /\ \A i \in Item : res'[i] = IF i \in Live THEN r(i) ELSE None
    BY <2>1, <2>2
  <2>7. Live' = Live
    BY <2>2, <2>4, <2>6 DEF Live
  <2>. QED  BY <2>2, <2>3, <2>4, <2>5, <2>6, <2>7
<1>4. /\ EffTyped' /\ DOMAIN eff' = DOMAIN eff
      /\ \A e \in DOMAIN eff : eff'[e].state = eff[e].state
  <2>. DEFINE r(e) == [eff[e] EXCEPT !.epoch = epoch + 1]
  <2>1. eff' = [e \in DOMAIN eff |-> IF Rebinds(e) THEN r(e) ELSE eff[e]]
    BY DEF Reattach
  <2>2. \A e \in DOMAIN eff : eff[e] \in EffRecords /\ r(e) \in EffRecords
                              /\ r(e).state = eff[e].state
    BY <1>2 DEF EffTyped, EffRecords
  <2>. HIDE DEF r
  <2>3. eff' \in [DOMAIN eff -> EffRecords]
    BY <2>1, <2>2
  <2>4. DOMAIN eff' = DOMAIN eff
        /\ \A e \in DOMAIN eff : eff'[e] = IF Rebinds(e) THEN r(e) ELSE eff[e]
    BY <2>1
  <2>. QED  BY <1>1, <2>2, <2>3, <2>4 DEF EffTyped
<1>5. TypeInv'
  BY <1>1, <1>2, <1>3, <1>4
     DEF RunTyped, ItemsTyped, AccountsTyped, AttTyped, WorldTyped, accounts
<1>6. OpenHolds'
  <2>1. \A k \in DOMAIN att : k[1] \in Item
    BY AttemptParts DEF AttTyped
  <2>2. \A k \in DOMAIN att : Holds(k) => Holds(k)'
    BY <1>3, <2>1, LiveTyped DEF Holds
  <2>. QED  BY <1>1, <2>2 DEF OpenHolds, IsOpen
<1>7. LaunchesAreKnown'
  BY <1>1 DEF LaunchesAreKnown
<1>8. WorkersFit'
  <2>1. \A k, S : EffectIn("launch", k, S)' <=> EffectIn("launch", k, S)
    BY <1>4 DEF EffectIn, HasEffect
  <2>2. \A k : HasEffect("launch", k)' <=> HasEffect("launch", k)
    BY <1>4 DEF HasEffect
  <2>. QED  BY <1>1, <2>1, <2>2 DEF WorkersFit, WorkerFits, AttemptFits, IsOpen
<1>9. Accounted' /\ Fence'
  BY <1>1, <1>3 DEF Accounted, Fence, IsOpen, accounts
<1>10. Closed'
  BY <1>1, <1>3, <1>4 DEF Closed, IsOpen, Settled, accounts
<1>. QED  BY <1>5, <1>6, <1>7, <1>8, <1>9, <1>10

-----------------------------------------------------------------------------
(* The invariant, and what follows from it.                                *)

LEMMA StepKeepsInv == IInv /\ [Next]_vars => IInv'
<1>. SUFFICES ASSUME IInv, [Next]_vars PROVE IInv'
  OBVIOUS
<1>1. ASSUME NEW i \in Item, Reserve(i) \/ Activate(i) \/ Begin(i) \/ Retry(i) PROVE IInv'
  BY <1>1, ReserveKeeps, ActivateKeeps, BeginKeeps, RetryKeeps
<1>2. ASSUME NEW k \in DOMAIN att,
             \/ Dispatch(k) \/ Recover(k) \/ WorkerStarts(k) \/ Bind(k)
             \/ \E status \in {"succeeded", "failed"} : WorkerEnds(k, status)
             \/ RecordResult(k)
             \/ \E kind \in {"first", "adoption", "invalidation"} : RecordCandidate(k, kind)
             \/ PutProcedure(k) \/ MarkProcedure(k) \/ Execute(k)
             \/ RecordExecution(k) \/ RecordProcedure(k)
             \/ \E verdict \in {"passed", "failed"} : Seal(k, verdict)
             \/ PutCleanup(k) \/ MarkCleanup(k) \/ CallCleanup(k) \/ RecordCleanup(k)
             \/ MarkCancel(k) \/ CancelWorker(k)
      PROVE  IInv'
  BY <1>2, DispatchKeeps, RecoverKeeps, WorkerKeeps, BindKeeps, ResultKeeps, CandidateKeeps,
     ProcedureKeeps, SealKeeps, CleanupKeeps
<1>3. CASE Pause \/ Resume \/ RequestCancellation \/ CloseCancellation \/ Reattach \/ UNCHANGED vars
  BY <1>3, PauseKeeps, RequestKeeps, CloseKeeps, ReattachKeeps
<1>. QED  BY <1>1, <1>2, <1>3 DEF Next

\* However items, workers, procedures, a cancellation and owners come after each other:
\* attempts stay numbered and open only under their reservation, launches that are under way
\* belong to attempts nobody is bound to, lanes, the mutex and the pool are those of the live
\* reservations, and behind the fence of a cancellation nothing goes on (reducer.ts).
THEOREM RunInvariant == Spec => []IInv
<1>. QED  BY InitInv, StepKeepsInv, PTL DEF Spec

\* What a V1 run consists of has its types: effects and workers are those of attempts there are.
THEOREM RunIsTyped == Spec => []TypeOK
<1>1. IInv => TypeOK
  <2>. SUFFICES ASSUME IInv PROVE TypeOK
    OBVIOUS
  <2>. USE DEF IInv, TypeInv
  <2>1. \A e \in DOMAIN eff : e[2] \in DOMAIN att
           /\ eff[e].state \in {"intended", "dispatching", "observed", "ambiguous",
                                "proven_absent", "reconciled"}
    BY DEF EffTyped, EffRecords, EffStates
  <2>. QED  BY <2>1 DEF TypeOK, RunTyped, AccountsTyped, AttTyped, WorldTyped
<1>. QED  BY <1>1, RunInvariant, PTL

\* A worker runs only for an open attempt whose reservation is live and, if its item shares
\* one, holds its mutex; lanes and the pool are never overdrawn (reserve_scheduler_batch,
\* releaseSchedulerReservationAccounting(), however often a worker is replaced).
THEOREM WorkersRunUnderReservations == Spec => []WorkersHoldTheirReservations
<1>1. IInv => WorkersHoldTheirReservations
  <2>. SUFFICES ASSUME IInv PROVE WorkersHoldTheirReservations
    OBVIOUS
  <2>1. ASSUME NEW k \in DOMAIN worker, worker[k] = "running"
        PROVE  /\ IsOpen(k) /\ res[k[1]] # None
               /\ res[k[1]].stage = k[2] /\ res[k[1]].ord = k[3]
               /\ k[1] \in Shared => mutex = k[1]
    <3>1. k \in DOMAIN att /\ IsOpen(k) /\ k[1] \in Item
      BY <2>1, AttemptParts DEF IInv, TypeInv, AttTyped, WorldTyped, WorkersFit, WorkerFits
    <3>2. Holds(k)
      BY <3>1 DEF IInv, OpenHolds
    <3>3. k[1] \in Live
      BY <3>1, <3>2, LiveTyped DEF IInv, Holds
    <3>. QED  BY <3>1, <3>2, <3>3 DEF IInv, Holds, Accounted
  <2>. QED  BY <2>1 DEF IInv, Accounted, WorkersHoldTheirReservations
<1>. QED  BY <1>1, RunInvariant, PTL

\* A cancellation that is closed left no worker running and no launch under way that could
\* still start one; everything else is settled and given back (record_cancellation).
THEOREM ClosedCancellationIsQuiet == Spec => []ClosedIsQuiet
<1>1. IInv => ClosedIsQuiet
  <2>. SUFFICES ASSUME IInv, cancel = "closed" PROVE ClosedIsQuiet
    BY DEF ClosedIsQuiet
  <2>. USE DEF IInv, TypeInv
  <2>1. \A k \in DOMAIN att : ~IsOpen(k)
    BY DEF Closed
  <2>2. \A k \in DOMAIN worker : worker[k] # "running"
    BY <2>1 DEF WorkersFit, WorkerFits, WorldTyped
  <2>3. ASSUME NEW c \in calls PROVE c[1] # "launch"
    <3>1. c = <<c[1], c[2]>> /\ c[2] \in DOMAIN att
      BY <2>3 DEF WorldTyped
    <3>. QED  BY <2>1, <3>1 DEF LaunchesAreKnown, MayStart
  <2>4. \A e \in DOMAIN eff : e[1] = "cleanup" \/ Settled(e)
    BY DEF Closed
  <2>5. OpenAttempts = {} /\ Live = {} /\ lanes = {} /\ mutex = None
    BY <2>1 DEF OpenAttempts, Closed
  <2>6. pool = 0
    BY <2>5, FS_EmptySet DEF Accounted
  <2>. QED  BY <2>2, <2>3, <2>4, <2>5, <2>6 DEF ClosedIsQuiet
<1>. QED  BY <1>1, RunInvariant, PTL

\* What can still move an item or an attempt behind the fence.
LEMMA BehindTheFence ==
  ASSUME IInv, [Next]_vars, cancel # "none"
  PROVE  \/ CloseCancellation
         \/ \E k \in DOMAIN att : Bind(k)
         \/ UNCHANGED <<cancel, item, att>>
<1>1. desired = "cancelled"
  BY DEF IInv, Fence
<1>2. /\ \A k \in DOMAIN att : IsOpen(k) => att[k].state = "cancelling"
      /\ \A i \in Live : res[i].state = "release_requested"
  BY DEF IInv, Fence
<1>3. \A i \in Item : ~Reserve(i) /\ ~Activate(i) /\ ~Retry(i) /\ ~Begin(i)
  BY <1>1, <1>2, LiveTyped DEF Reserve, Activate, Retry, Begin, Going, IInv
<1>4. \A k \in DOMAIN att : ~Dispatch(k) /\ ~RecordResult(k)
  BY <1>1, <1>2 DEF Dispatch, RecordResult, Adopts, IsOpen
<1>5. \A k \in DOMAIN att, kind \in {"first", "adoption", "invalidation"} :
        ~RecordCandidate(k, kind)
  BY <1>2 DEF RecordCandidate
<1>6. \A k \in DOMAIN att, verdict \in {"passed", "failed"} : ~Seal(k, verdict)
  BY <1>2 DEF Seal, Judgeable
<1>7. ~RequestCancellation
  BY <1>1 DEF RequestCancellation
<1>8. \A k \in DOMAIN att, status \in {"succeeded", "failed"} :
        WorkerEnds(k, status) => UNCHANGED <<cancel, item, att>>
  BY DEF WorkerEnds, run
<1>9. \A k \in DOMAIN att :
        Recover(k) \/ WorkerStarts(k) \/ PutProcedure(k) \/ MarkProcedure(k) \/ Execute(k)
          \/ RecordExecution(k) \/ RecordProcedure(k) \/ PutCleanup(k) \/ MarkCleanup(k)
          \/ CallCleanup(k) \/ RecordCleanup(k) \/ MarkCancel(k) \/ CancelWorker(k)
        => UNCHANGED <<cancel, item, att>>
  BY DEF Recover, WorkerStarts, PutProcedure, MarkProcedure, Execute, RecordExecution,
         RecordProcedure, PutCleanup, MarkCleanup, CallCleanup, RecordCleanup, MarkCancel,
         CancelWorker, run
<1>10. Pause \/ Resume \/ Reattach \/ UNCHANGED vars => UNCHANGED <<cancel, item, att>>
  BY DEF Pause, Resume, Reattach, vars, run
<1>. QED  BY <1>3, <1>4, <1>5, <1>6, <1>7, <1>8, <1>9, <1>10 DEF Next

\* Once the items are fenced nothing that arrives late gets in: no candidate, no verdict, no
\* result but that of a worker that was cancelled (request_cancellation, record_candidate,
\* seal_stage_attempt, record_worker_result).
THEOREM NothingLateGetsIn == Spec => FencedStaysFenced
<1>1. IInv /\ IInv' /\ [Next]_vars => [FencedStep]_vars
  <2>. SUFFICES ASSUME IInv, IInv', [Next]_vars, cancel # "none"
                PROVE  /\ \A i \in Item : item'[i].cand = None /\ item'[i].gen = item[i].gen
                       /\ \A i \in Item, s \in Step : stage'[i][s].state # "passed"
                       /\ \A k \in DOMAIN att : att'[k].result \in {att[k].result, "cancelled"}
    BY DEF FencedStep, IInv, TypeInv, ItemsTyped
  <2>1. \/ CloseCancellation
        \/ \E k \in DOMAIN att : Bind(k)
        \/ UNCHANGED <<cancel, item, att>>
    BY BehindTheFence
  <2>2. cancel' # "none"
    BY <2>1 DEF CloseCancellation, Bind, run
  <2>3. /\ \A i \in Item : item'[i].cand = None
        /\ \A i \in Item, s \in Step : stage'[i][s].state # "passed"
    BY <2>2 DEF IInv, Fence
  <2>4. \A i \in Item : item'[i].gen = item[i].gen
    <3>1. CASE UNCHANGED item
      BY <3>1
    <3>2. CASE CloseCancellation
      <4>1. \A i \in Item : [item[i] EXCEPT !.current = "cancelled"].gen = item[i].gen
        BY DEF IInv, TypeInv, ItemsTyped, Items
      <4>. QED  BY <3>2, <4>1 DEF CloseCancellation
    <3>. QED  BY <2>1, <3>1, <3>2 DEF Bind
  <2>5. \A k \in DOMAIN att : att'[k].result \in {att[k].result, "cancelled"}
    <3>1. CASE CloseCancellation
      <4>1. ASSUME NEW k \in DOMAIN att
            PROVE  [att[k] EXCEPT !.state = "cancelled",
                      !.result = IF att[k].bound /\ worker[k] = "cancelled" THEN "cancelled"
                                 ELSE @].result
                   \in {att[k].result, "cancelled"}
        BY DEF IInv, TypeInv, AttTyped, AttRecords
      <4>. QED  BY <3>1, <4>1 DEF CloseCancellation
    <3>2. CASE \E k \in DOMAIN att : Bind(k)
      <4>1. PICK k \in DOMAIN att : Bind(k)
        BY <3>2
      <4>2. att' = [att EXCEPT ![k].bound = TRUE]
        BY <4>1 DEF Bind, IsOpen, IInv, Fence
      <4>. QED  BY <4>2 DEF IInv, TypeInv, AttTyped, AttRecords
    <3>3. CASE UNCHANGED att
      BY <3>3
    <3>. QED  BY <2>1, <3>1, <3>2, <3>3
  <2>. QED  BY <2>3, <2>4, <2>5
<1>. QED  BY <1>1, RunInvariant, PTL DEF Spec, FencedStaysFenced

-----------------------------------------------------------------------------
(* The audit: what it takes for the state of a run to pass it for good.     *)

\* An open attempt is the latest of its stage and of the generation it was reserved for.
Latest(k) == IsOpen(k) => k[3] = StageOf(k).tries /\ att[k].gen = res[k[1]].gen

\* What is known of an attempt nobody is bound to.
AttemptSound(k) ==
  /\ att[k].gen <= item[k[1]].gen
  /\ att[k].out # None => Codes(k[2]) /\ (cancel = "none" => item[k[1]].cand # None)
  /\ ~att[k].bound =>
       /\ att[k].result = None
       /\ Owned(k[2]) => att[k].state \in {"dispatchable", "launching", "cancelling", "cancelled"}
       /\ att[k].state = "cancelling" /\ Owned(k[2]) => EffectIn("launch", k, {"ambiguous"})
  /\ att[k].state = "launching" => EffectIn("launch", k, {"dispatching"})

\* A stage rests on an attempt from its begin until it is sent back, and then holds a lane.
StageSound(i, s) ==
  /\ StageAgrees(i, s)
  /\ stage[i][s].current <=> stage[i][s].state \in {"active", "passed", "failed"}
  /\ stage[i][s].tries > 0 /\ cancel # "closed" => i \in lanes

\* Stages are reserved and begun in their order.
InOrder(i) ==
  cancel = "none" =>
    /\ i \in Live /\ res[i].ord = stage[i][res[i].stage].tries + 1 => Before(i, res[i].stage)
    /\ \A s, t \in Step : s < t /\ stage[i][s].state # "passed" => ~stage[i][t].current

ItemSound(i) ==
  /\ CandidateAgrees(i)
  /\ item[i].cand # None => item[i].cand.by \in DOMAIN att
  /\ item[i].cand = None /\ cancel = "none" => item[i].gen = 0
  /\ item[i].current \in {"active", "integration_ready"} => i \in lanes
  /\ item[i].current = "integration_ready" => res[i] = None
  /\ cancel # "none" =>
       /\ item[i].current = IF cancel = "open" THEN "blocked" ELSE "cancelled"
       /\ \A s \in Step : ~stage[i][s].current

EffectSound(e) == EffectAgrees(e) /\ (e[1] = "cancel" => cancel # "none")

\* All that is known of an item: its reservation, its candidate, its stages, its attempts
\* and their effects.
AllOf(i) ==
  /\ i \in Live => ReservationAgrees(i)
  /\ InOrder(i) /\ ItemSound(i) /\ ReadyAgrees(i)
  /\ \A s \in Step : StageSound(i, s)
  /\ \A k \in DOMAIN att : k[1] = i => Latest(k) /\ AttemptSound(k)
  /\ \A e \in DOMAIN eff : e[2][1] = i => EffectSound(e)
Sound == \A i \in Item : AllOf(i)

LEMMA ChainIsOrdered ==
  /\ \A s \in Step : (Chain[s] = "F1" <=> s = 1) /\ (Chain[s] = "F8" <=> s = Len(Chain))
  /\ \A s, t \in Step : Chain[s] = Chain[t] => s = t
  /\ \A s, t \in Step : Chain[s] = "F3" /\ t < s => Chain[t] \in {"F1", "F2"}
  /\ \A s, t \in Step : Chain[s] = "F3" /\ Chain[t] = "F2" => t < s
  /\ 1 \in Step
<1>. DEFINE F == <<"F0", "F1", "F2", "F3", "F4", "F5", "F6", "F7", "F8">>
<1>1. PICK number \in [Step -> 0..8] : \A s \in Step :
         Chain[s] = F[number[s] + 1] /\ \A t \in Step : s < t => number[s] < number[t]
  BY ChainAssumption DEF Step
<1>2. \A n \in 0..8 : /\ F[n + 1] = "F1" <=> n = 1
                      /\ F[n + 1] = "F2" <=> n = 2
                      /\ F[n + 1] = "F3" <=> n = 3
                      /\ F[n + 1] = "F8" <=> n = 8
                      /\ n = 0 => F[n + 1] = "F0"
  <2>1. SUFFICES ASSUME NEW n \in 0..8
                 PROVE  /\ F[n + 1] = "F1" <=> n = 1
                        /\ F[n + 1] = "F2" <=> n = 2
                        /\ F[n + 1] = "F3" <=> n = 3
                        /\ F[n + 1] = "F8" <=> n = 8
                        /\ n = 0 => F[n + 1] = "F0"
    OBVIOUS
  <2>2. \/ n = 0 \/ n = 1 \/ n = 2 \/ n = 3 \/ n = 4 \/ n = 5 \/ n = 6 \/ n = 7 \/ n = 8
    OBVIOUS
  <2>. QED  BY <2>2
<1>3. \A n, m \in 0..8 : F[n + 1] = F[m + 1] => n = m
  <2>1. SUFFICES ASSUME NEW n \in 0..8, NEW m \in 0..8, F[n + 1] = F[m + 1] PROVE n = m
    OBVIOUS
  <2>2. /\ n = 0 \/ n = 1 \/ n = 2 \/ n = 3 \/ n = 4 \/ n = 5 \/ n = 6 \/ n = 7 \/ n = 8
        /\ m = 0 \/ m = 1 \/ m = 2 \/ m = 3 \/ m = 4 \/ m = 5 \/ m = 6 \/ m = 7 \/ m = 8
    OBVIOUS
  <2>. QED  BY <2>1, <2>2
<1>. HIDE DEF F
<1>4. Step \subseteq Nat \ {0} /\ 1 \in Step /\ Len(Chain) \in Step
      /\ \A s \in Step : 1 <= s /\ s <= Len(Chain)
  BY ChainIsLong DEF Step
<1>5. \A s \in Step : number[s] \in 0..8
  BY <1>1
<1>6. number[1] = 1 /\ number[Len(Chain)] = 8
  <2>1. Chain[1] = "F1" /\ Chain[Len(Chain)] = "F8"
    BY DagRunV1Assumption
  <2>. QED  BY <1>1, <1>2, <1>4, <1>5, <2>1
<1>7. \A s, t \in Step : s < t \/ t < s \/ s = t
  BY <1>4
<1>8. \A s, t \in Step : number[s] = number[t] => s = t
  BY <1>1, <1>5, <1>7
<1>9. \A s \in Step : number[s] # 0
  <2>1. \A s \in Step : s = 1 \/ 1 < s
    BY <1>4
  <2>. QED  BY <1>1, <1>4, <1>5, <1>6, <2>1
<1>10. \A s \in Step : Chain[s] = F[number[s] + 1]
  BY <1>1
<1>11. \A s \in Step : (Chain[s] = "F1" <=> s = 1) /\ (Chain[s] = "F8" <=> s = Len(Chain))
  BY <1>2, <1>4, <1>5, <1>6, <1>8, <1>10
<1>12. \A s, t \in Step : Chain[s] = Chain[t] => s = t
  BY <1>3, <1>5, <1>8, <1>10
<1>13. ASSUME NEW s \in Step, NEW t \in Step, Chain[s] = "F3", t < s
       PROVE  Chain[t] \in {"F1", "F2"}
  <2>1. number[s] = 3 /\ number[t] < number[s] /\ number[t] # 0
    BY <1>1, <1>2, <1>5, <1>9, <1>10, <1>13
  <2>2. number[t] = 1 \/ number[t] = 2
    BY <1>5, <2>1
  <2>. QED  BY <1>2, <1>5, <1>10, <2>2
<1>14. ASSUME NEW s \in Step, NEW t \in Step, Chain[s] = "F3", Chain[t] = "F2"
       PROVE  t < s
  <2>1. number[s] = 3 /\ number[t] = 2
    BY <1>2, <1>5, <1>10, <1>14
  <2>. QED  BY <1>1, <1>7, <2>1
<1>. QED  BY <1>4, <1>11, <1>12, <1>13, <1>14

LEMMA SoundPassesAudit == IInv /\ Sound => Audit
<1>. SUFFICES ASSUME IInv, Sound PROVE Audit
  OBVIOUS
<1>1. TypeOK
  <2>1. DOMAIN att \subseteq Attempts /\ \A e \in DOMAIN eff : e[2] \in DOMAIN att
    BY DEF IInv, TypeInv, AttTyped, EffTyped
  <2>2. \A e \in DOMAIN eff : eff[e].state \in EffStates
    BY DEF IInv, TypeInv, EffTyped, EffRecords
  <2>3. DOMAIN worker \subseteq DOMAIN att /\ facts \subseteq DOMAIN att
        /\ \A c \in calls : c[2] \in DOMAIN att
    BY DEF IInv, TypeInv, WorldTyped
  <2>. QED  BY <2>1, <2>2, <2>3
       DEF IInv, TypeInv, RunTyped, AccountsTyped, TypeOK, EffStates
<1>2. \A i \in Live : i \in Item
  BY LiveTyped DEF IInv
<1>3. \A i \in Live : ReservationAgrees(i)
  BY <1>2 DEF Sound, AllOf
<1>4. ASSUME NEW i \in Item PROVE LaneAgrees(i) /\ CandidateAgrees(i) /\ ReadyAgrees(i)
  <2>1. ItemSound(i) /\ ReadyAgrees(i) /\ \A s \in Step : StageSound(i, s)
    BY <1>4 DEF Sound, AllOf
  <2>2. item[i].current = "blocked" => cancel # "closed"
    BY <2>1 DEF ItemSound, IInv, TypeInv, RunTyped
  <2>3. LaneAgrees(i)
    BY <2>1, <2>2 DEF ItemSound, StageSound, LaneAgrees
  <2>. QED  BY <2>1, <2>3 DEF ItemSound
<1>5. \A i \in Item, s \in Step : StageAgrees(i, s)
  BY DEF Sound, AllOf, StageSound
<1>6. ASSUME NEW k \in DOMAIN att PROVE AttemptAgrees(k)
  <2>1. k[1] \in Item
    BY AttemptParts DEF IInv, TypeInv, AttTyped
  <2>2. AttemptSound(k) /\ AttemptFits(k)
    BY <2>1 DEF Sound, AllOf, IInv, WorkersFit
  <2>. QED  BY <2>2 DEF AttemptSound, AttemptFits, AttemptAgrees, EffectIn, HasEffect
<1>7. ASSUME NEW e \in DOMAIN eff PROVE EffectAgrees(e)
  <2>1. e[2] \in DOMAIN att
    BY DEF IInv, TypeInv, EffTyped
  <2>2. e[2][1] \in Item
    BY <2>1, AttemptParts DEF IInv, TypeInv, AttTyped
  <2>. QED  BY <2>2 DEF Sound, AllOf, EffectSound
<1>. QED  BY <1>1, <1>3, <1>4, <1>5, <1>6, <1>7 DEF Audit

LEMMA InitSound == Init => Sound
<1>. SUFFICES ASSUME Init, NEW i \in Item PROVE AllOf(i)
  BY DEF Sound
<1>. USE DEF Init
<1>1. DOMAIN att = {} /\ DOMAIN eff = {} /\ Live = {}
  BY DEF Live
<1>2. \A s \in Step : StageSound(i, s)
  BY DEF StageSound, StageAgrees
<1>. QED  BY <1>1, <1>2 DEF AllOf, InOrder, ItemSound, ReadyAgrees, CandidateAgrees

-----------------------------------------------------------------------------
(* What a step has to leave alone.                                         *)

\* Nothing that is known is forgotten, and nothing new comes up for the item.
KeepsNames(i) ==
  /\ DOMAIN att \subseteq DOMAIN att' /\ \A k \in DOMAIN att' : k[1] = i => k \in DOMAIN att
  /\ DOMAIN eff \subseteq DOMAIN eff'

\* An attempt that has ended, or that waits for its verdict, stays as it is.
QuietAttempt(k) ==
  /\ att'[k].gen = att[k].gen /\ att'[k].out = att[k].out
  /\ IsOpen(k)' <=> IsOpen(k)
  /\ ~IsOpen(k) \/ att[k].state = "result_observed" => att'[k] = att[k]

QuietItem(i) ==
  /\ cancel' = cancel /\ item'[i] = item[i] /\ stage'[i] = stage[i]
  /\ i \in lanes' <=> i \in lanes
  /\ i \in Live' <=> i \in Live
  /\ i \in Live =>
       /\ res'[i].stage = res[i].stage /\ res'[i].ord = res[i].ord /\ res'[i].gen = res[i].gen
       /\ res'[i].epoch = epoch'
       /\ res[i].state = "release_requested" => res'[i].state = "release_requested"
  /\ \A k \in DOMAIN att : k[1] = i => QuietAttempt(k)

\* All of an item but the attempts and the effects themselves.
FrameOf(i) ==
  /\ i \in Live => ReservationAgrees(i)
  /\ InOrder(i) /\ ItemSound(i)
  /\ \A s \in Step : StageSound(i, s)
  /\ \A k \in DOMAIN att : k[1] = i => Latest(k)

LEMMA QuietStep ==
  ASSUME IInv, TypeInv', NEW i \in Item, AllOf(i), KeepsNames(i), QuietItem(i)
  PROVE  FrameOf(i)'
<1>1. cancel' = cancel /\ item'[i] = item[i] /\ stage'[i] = stage[i]
      /\ (i \in lanes' <=> i \in lanes) /\ (i \in Live' <=> i \in Live)
  BY DEF QuietItem
<1>2. \A k \in DOMAIN att : k[1] = i => k \in DOMAIN att' /\ QuietAttempt(k)
  BY DEF QuietItem, KeepsNames
<1>3. \A s \in Step : /\ AttemptOf(i, s)' = AttemptOf(i, s) /\ AttemptOf(i, s)[1] = i
                      /\ Before(i, s)' <=> Before(i, s)
  BY <1>1 DEF AttemptOf, Before
<1>4. i \in Live => res'[i] # None /\ res[i].stage \in Step
  BY <1>1, LiveTyped DEF Live, IInv, Reservations
<1>5. i \in Live' => ReservationAgrees(i)'
  <2>1. SUFFICES ASSUME i \in Live PROVE ReservationAgrees(i)'
    BY <1>1
  <2>2. ReservationAgrees(i)
    BY <2>1 DEF AllOf
  <2>3. LET k == AttemptOf(i, res[i].stage)
        IN stage[i][res[i].stage].current =>
             k \in DOMAIN att /\ att'[k].gen = att[k].gen /\ att'[k].out = att[k].out
    BY <1>2, <1>3, <1>4, <2>1 DEF AllOf, StageSound, StageAgrees, QuietAttempt
  <2>4. AttemptOf(i, res[i].stage)' = AttemptOf(i, res[i].stage)
    BY <1>1, <2>1 DEF QuietItem, AttemptOf
  <2>. QED  BY <1>1, <2>1, <2>2, <2>3, <2>4 DEF ReservationAgrees, QuietItem
<1>6. InOrder(i)'
  <2>1. InOrder(i)
    BY DEF AllOf
  <2>. QED  BY <1>1, <2>1 DEF InOrder, QuietItem, Before
<1>7. ItemSound(i)'
  <2>1. ItemSound(i)
    BY DEF AllOf
  <2>2. CandidateAgrees(i)'
    <3>1. CASE item[i].cand = None
      BY <1>1, <2>1, <3>1 DEF ItemSound, CandidateAgrees
    <3>2. CASE item[i].cand # None
      <4>. DEFINE m == item[i].cand.by
      <4>1. m \in DOMAIN att /\ m[1] = i
        BY <2>1, <3>2 DEF ItemSound, CandidateAgrees
      <4>2. att[m].state \in {"sealed", "failed", "result_observed"}
        BY <2>1, <3>2 DEF ItemSound, CandidateAgrees
      <4>3. att'[m] = att[m]
        BY <1>2, <4>1, <4>2 DEF QuietAttempt, IsOpen
      <4>. QED  BY <1>1, <2>1, <3>2, <4>1, <4>3 DEF ItemSound, CandidateAgrees, StageOf
    <3>. QED  BY <3>1, <3>2
  <2>3. res'[i] = None <=> res[i] = None
    BY <1>1 DEF Live, IInv, TypeInv, AccountsTyped
  <2>4. item[i].cand # None => item[i].cand.by \in DOMAIN att'
    BY <2>1 DEF ItemSound, KeepsNames
  <2>5. /\ item[i].cand = None /\ cancel = "none" => item[i].gen = 0
        /\ item[i].current \in {"active", "integration_ready"} => i \in lanes
        /\ item[i].current = "integration_ready" => res[i] = None
        /\ cancel # "none" =>
             /\ item[i].current = IF cancel = "open" THEN "blocked" ELSE "cancelled"
             /\ \A s \in Step : ~stage[i][s].current
    BY <2>1 DEF ItemSound
  <2>. QED  BY <1>1, <2>2, <2>3, <2>4, <2>5 DEF ItemSound
<1>8. ASSUME NEW s \in Step PROVE StageSound(i, s)'
  <2>. DEFINE k == AttemptOf(i, s)
  <2>1. StageSound(i, s) /\ stage'[i][s] = stage[i][s] /\ AttemptOf(i, s)' = k /\ k[1] = i
    BY <1>1, <1>3 DEF AllOf
  <2>2. stage[i][s].current => k \in DOMAIN att /\ k \in DOMAIN att' /\ QuietAttempt(k)
    BY <1>2, <2>1 DEF StageSound, StageAgrees
  <2>3. stage[i][s].current /\ GenerationAgrees(i, s) => GenerationAgrees(i, s)'
    BY <1>1, <2>1, <2>2 DEF GenerationAgrees, Output, QuietAttempt
  <2>4. TransitionIsExact(i, s) => TransitionIsExact(i, s)'
    <3>1. SUFFICES ASSUME TransitionIsExact(i, s) PROVE TransitionIsExact(i, s)'
      OBVIOUS
    <3>2. PICK t \in Step : Chain[t] = "F3" /\ \E m \in DOMAIN att :
            /\ m[1] = i /\ m[2] = t
            /\ att[m].gen = stage[i][s].evidence /\ att[m].out = item[i].cand.gen
            /\ \/ att[m].state = "sealed" /\ stage[i][t].state = "passed"
               \/ att[m].state = "result_observed" /\ stage[i][t].state = "active"
      BY <3>1 DEF TransitionIsExact
    <3>3. PICK m \in DOMAIN att :
            /\ m[1] = i /\ m[2] = t
            /\ att[m].gen = stage[i][s].evidence /\ att[m].out = item[i].cand.gen
            /\ \/ att[m].state = "sealed" /\ stage[i][t].state = "passed"
               \/ att[m].state = "result_observed" /\ stage[i][t].state = "active"
      BY <3>2
    <3>4. m \in DOMAIN att' /\ att'[m] = att[m]
      BY <1>2, <3>3 DEF QuietAttempt, IsOpen
    <3>. QED  BY <1>1, <3>2, <3>3, <3>4 DEF TransitionIsExact
  <2>5. stage[i][s].state = "passed" => PassedAgrees(i, s)'
    <3>1. SUFFICES ASSUME stage[i][s].state = "passed" PROVE PassedAgrees(i, s)'
      OBVIOUS
    <3>2. PassedAgrees(i, s)
      BY <2>1, <3>1 DEF StageSound, StageAgrees
    <3>3. k \in DOMAIN att /\ att'[k] = att[k]
      BY <2>2, <3>2 DEF PassedAgrees, QuietAttempt, IsOpen
    <3>4. Output(AttemptOf(i, s))' = Output(k)
      BY <2>1, <3>3 DEF Output
    <3>. QED  BY <1>1, <1>3, <2>1, <2>4, <3>2, <3>3, <3>4 DEF PassedAgrees
  <2>6. StageAgrees(i, s)'
    <3>1. StageAgrees(i, s)
      BY <2>1 DEF StageSound
    <3>2. stage[i][s].current => (k \in DOMAIN att /\ GenerationAgrees(i, s))'
      BY <2>1, <2>2, <2>3, <3>1 DEF StageAgrees
    <3>3. stage[i][s].state = "failed" => att'[k].state = "sealed"
      BY <2>2, <3>1 DEF StageAgrees, QuietAttempt, IsOpen
    <3>. QED  BY <1>1, <1>3, <2>1, <2>5, <3>1, <3>2, <3>3 DEF StageAgrees
  <2>7. (stage[i][s].tries > 0 /\ cancel # "closed" => i \in lanes)'
    BY <1>1, <2>1 DEF StageSound
  <2>8. (stage[i][s].current <=> stage[i][s].state \in {"active", "passed", "failed"})'
    BY <2>1 DEF StageSound
  <2>. QED  BY <2>6, <2>7, <2>8 DEF StageSound
<1>9. ASSUME NEW k \in DOMAIN att', k[1] = i PROVE Latest(k)'
  <2>1. k \in DOMAIN att /\ QuietAttempt(k) /\ Latest(k)
    BY <1>2, <1>9 DEF KeepsNames, AllOf
  <2>2. IsOpen(k) => res[i] # None
    BY <1>9, <2>1 DEF IInv, OpenHolds, Holds
  <2>3. IsOpen(k) => i \in Live
    BY <2>2 DEF Live, IInv, TypeInv, AccountsTyped
  <2>. QED  BY <1>1, <1>9, <2>1, <2>3 DEF Latest, StageOf, QuietAttempt, QuietItem
<1>. QED  BY <1>5, <1>6, <1>7, <1>8, <1>9 DEF FrameOf

LEMMA StillAttempt ==
  ASSUME NEW k, AttemptSound(k), cancel' = cancel, att'[k] = att[k],
         item'[k[1]].gen = item[k[1]].gen, item'[k[1]].cand = item[k[1]].cand,
         HasEffect("launch", k) => HasEffect("launch", k)'
                                   /\ eff'[<<"launch", k>>] = eff[<<"launch", k>>]
  PROVE  AttemptSound(k)'
BY DEF AttemptSound, EffectIn, HasEffect

LEMMA StillEffect ==
  ASSUME NEW e, EffectSound(e), cancel' = cancel, epoch' = epoch,
         item'[e[2][1]].gen = item[e[2][1]].gen, e[2] \in DOMAIN att', QuietAttempt(e[2]),
         eff'[e] = eff[e]
  PROVE  EffectSound(e)'
BY DEF EffectSound, EffectAgrees, QuietAttempt, Output

\* Of an item whose attempts and effects nobody touches, everything stays known.
LEMMA OthersKeep ==
  ASSUME IInv, TypeInv', NEW i \in Item, AllOf(i), KeepsNames(i), QuietItem(i), epoch' = epoch,
         \A k \in DOMAIN att : k[1] = i => att'[k] = att[k],
         \A e \in DOMAIN eff' : e[2][1] = i => e \in DOMAIN eff /\ eff'[e] = eff[e]
  PROVE  AllOf(i)'
<1>1. FrameOf(i)'
  BY QuietStep
<1>2. cancel' = cancel /\ item'[i] = item[i] /\ stage'[i] = stage[i]
  BY DEF QuietItem
<1>3. ReadyAgrees(i)'
  <2>1. ReadyAgrees(i)
    BY DEF AllOf
  <2>2. \A e \in EffectsOf(i)' : e \in EffectsOf(i) /\ (Settled(e)' <=> Settled(e))
    BY DEF EffectsOf, Settled
  <2>. QED  BY <1>2, <2>1, <2>2 DEF ReadyAgrees
<1>4. ASSUME NEW k \in DOMAIN att', k[1] = i PROVE AttemptSound(k)'
  <2>1. k \in DOMAIN att /\ AttemptSound(k) /\ att'[k] = att[k]
    BY <1>4 DEF KeepsNames, AllOf
  <2>2. HasEffect("launch", k) => HasEffect("launch", k)'
                                  /\ eff'[<<"launch", k>>] = eff[<<"launch", k>>]
    BY <1>4 DEF HasEffect, KeepsNames
  <2>. QED  BY <1>2, <1>4, <2>1, <2>2, StillAttempt
<1>5. ASSUME NEW e \in DOMAIN eff', e[2][1] = i PROVE EffectSound(e)'
  <2>1. e \in DOMAIN eff /\ eff'[e] = eff[e] /\ EffectSound(e)
    BY <1>5 DEF AllOf
  <2>2. e[2] \in DOMAIN att
    BY <2>1 DEF IInv, TypeInv, EffTyped
  <2>3. e[2] \in DOMAIN att' /\ QuietAttempt(e[2])
    BY <1>5, <2>2 DEF KeepsNames, QuietItem
  <2>. QED  BY <1>2, <1>5, <2>1, <2>3, StillEffect
<1>. QED  BY <1>1, <1>3, <1>4, <1>5 DEF AllOf, FrameOf

\* A step that moves one attempt and its effects, and nothing of its item.
LEMMA OneMoves ==
  ASSUME IInv, TypeInv', Sound, NEW k \in DOMAIN att,
         UNCHANGED <<cancel, epoch, item, stage, res, accounts>>,
         DOMAIN att' = DOMAIN att, QuietAttempt(k),
         \A m \in DOMAIN att \ {k} : att'[m] = att[m],
         DOMAIN eff \subseteq DOMAIN eff',
         \A e \in DOMAIN eff' : e[2] # k => e \in DOMAIN eff /\ eff'[e] = eff[e],
         AttemptSound(k)', \A e \in DOMAIN eff' : e[2] = k => EffectSound(e)',
         item[k[1]].current # "integration_ready" \/ eff' = eff
  PROVE  Sound'
<1>0. /\ cancel' = cancel /\ epoch' = epoch /\ item' = item /\ stage' = stage /\ res' = res
      /\ lanes' = lanes /\ Live' = Live
  BY DEF accounts, Live
<1>1. \A m \in DOMAIN att : QuietAttempt(m)
  BY DEF QuietAttempt, IsOpen
<1>2. \A i \in Live : res[i].epoch = epoch
  BY LiveTyped DEF IInv, Sound, AllOf, ReservationAgrees
<1>3. SUFFICES ASSUME NEW i \in Item PROVE AllOf(i)'
  BY DEF Sound
<1>4. AllOf(i) /\ KeepsNames(i) /\ QuietItem(i)
  BY <1>0, <1>1, <1>2 DEF Sound, KeepsNames, QuietItem
<1>5. CASE k[1] # i
  BY <1>0, <1>4, <1>5, OthersKeep
<1>6. CASE k[1] = i
  <2>1. FrameOf(i)'
    BY <1>4, QuietStep
  <2>2. ReadyAgrees(i)'
    <3>1. ReadyAgrees(i)
      BY <1>4 DEF AllOf
    <3>2. CASE item[i].current # "integration_ready"
      BY <1>0, <3>2 DEF ReadyAgrees
    <3>3. CASE eff' = eff
      BY <1>0, <3>1, <3>3 DEF ReadyAgrees, EffectsOf, Settled
    <3>. QED  BY <1>6, <3>2, <3>3
  <2>3. ASSUME NEW m \in DOMAIN att', m[1] = i PROVE AttemptSound(m)'
    <3>1. CASE m # k
      <4>1. AttemptSound(m) /\ att'[m] = att[m]
        BY <1>4, <2>3, <3>1 DEF AllOf
      <4>2. HasEffect("launch", m) => HasEffect("launch", m)'
                                      /\ eff'[<<"launch", m>>] = eff[<<"launch", m>>]
        BY <3>1 DEF HasEffect
      <4>. QED  BY <1>0, <4>1, <4>2, StillAttempt
    <3>. QED  BY <3>1
  <2>4. ASSUME NEW e \in DOMAIN eff', e[2][1] = i PROVE EffectSound(e)'
    <3>1. CASE e[2] # k
      <4>1. e \in DOMAIN eff /\ eff'[e] = eff[e] /\ EffectSound(e)
        BY <1>4, <2>4, <3>1 DEF AllOf
      <4>2. e[2] \in DOMAIN att
        BY <4>1 DEF IInv, TypeInv, EffTyped
      <4>. QED  BY <1>0, <1>1, <4>1, <4>2, StillEffect
    <3>. QED  BY <3>1
  <2>. QED  BY <2>1, <2>2, <2>3, <2>4 DEF AllOf, FrameOf
<1>. QED  BY <1>5, <1>6

LEMMA OfAttempt ==
  ASSUME IInv, Sound, NEW k \in DOMAIN att
  PROVE  /\ k[1] \in Item /\ k[2] \in Step /\ k[3] \in 1..MaxReroutes /\ k = <<k[1], k[2], k[3]>>
         /\ att[k] \in AttRecords /\ item[k[1]] \in Items /\ StageOf(k) \in Stages
         /\ AllOf(k[1]) /\ AttemptSound(k) /\ Latest(k) /\ AttemptFits(k)
         /\ \A e \in DOMAIN eff : e[2] = k => EffectSound(e)
         /\ IsOpen(k) /\ att[k].state # "cancelling" => cancel = "none" /\ desired # "cancelled"
<1>1. k \in Attempts /\ att[k] \in AttRecords
  BY DEF IInv, TypeInv, AttTyped
<1>2. k[1] \in Item /\ k[2] \in Step /\ k[3] \in 1..MaxReroutes /\ k = <<k[1], k[2], k[3]>>
  BY <1>1, AttemptParts
<1>3. item[k[1]] \in Items /\ StageOf(k) \in Stages
  BY <1>2 DEF IInv, TypeInv, ItemsTyped, StageOf
<1>4. AllOf(k[1])
  BY <1>2 DEF Sound
<1>5. AttemptSound(k) /\ Latest(k) /\ \A e \in DOMAIN eff : e[2] = k => EffectSound(e)
  BY <1>4 DEF AllOf
<1>6. AttemptFits(k)
  BY DEF IInv, WorkersFit
<1>7. IsOpen(k) /\ att[k].state # "cancelling" => cancel = "none" /\ desired # "cancelled"
  BY DEF IInv, Fence
<1>. QED  BY <1>1, <1>2, <1>3, <1>4, <1>5, <1>6, <1>7

LEMMA ReadyIsDone ==
  ASSUME IInv, Sound, NEW k \in DOMAIN att, item[k[1]].current = "integration_ready"
  PROVE  ~IsOpen(k) /\ \A e \in DOMAIN eff : e[2] = k => Settled(e)
<1>1. AllOf(k[1])
  BY OfAttempt
<1>2. ~IsOpen(k)
  BY <1>1 DEF AllOf, ItemSound, IInv, OpenHolds, Holds
<1>3. \A e \in DOMAIN eff : e[2] = k => Settled(e)
  BY <1>1 DEF AllOf, ReadyAgrees, EffectsOf
<1>. QED  BY <1>2, <1>3

\* A step that moves one effect of an attempt, which is no launch.
LEMMA OneEffectMoves ==
  ASSUME IInv, TypeInv', Sound, NEW k \in DOMAIN att, NEW kind \in Kinds \ {"launch"},
         UNCHANGED <<run, item, stage, res, accounts, att>>,
         DOMAIN eff \subseteq DOMAIN eff',
         \A e \in DOMAIN eff' : e # <<kind, k>> => e \in DOMAIN eff /\ eff'[e] = eff[e],
         EffectSound(<<kind, k>>)',
         item[k[1]].current # "integration_ready" \/ eff' = eff
  PROVE  Sound'
<1>1. cancel' = cancel /\ epoch' = epoch /\ item' = item /\ att' = att
      /\ UNCHANGED <<cancel, epoch, item, stage, res, accounts>>
  BY DEF run
<1>2. QuietAttempt(k)
  BY <1>1 DEF QuietAttempt, IsOpen
<1>3. AttemptSound(k)'
  <2>1. HasEffect("launch", k) => HasEffect("launch", k)'
                                  /\ eff'[<<"launch", k>>] = eff[<<"launch", k>>]
    BY DEF HasEffect
  <2>. QED  BY <1>1, <2>1, OfAttempt, StillAttempt
<1>4. ASSUME NEW e \in DOMAIN eff', e[2] = k PROVE EffectSound(e)'
  <2>1. CASE e # <<kind, k>>
    <3>1. e \in DOMAIN eff /\ eff'[e] = eff[e] /\ EffectSound(e)
      BY <1>4, <2>1, OfAttempt
    <3>. QED  BY <1>1, <1>2, <1>4, <3>1, StillEffect
  <2>. QED  BY <2>1
<1>. QED  BY <1>1, <1>2, <1>3, <1>4, OneMoves

LEMMA ProcedureSounds ==
  ASSUME IInv, TypeInv', Sound, NEW k \in DOMAIN att,
         PutProcedure(k) \/ MarkProcedure(k) \/ RecordExecution(k) \/ RecordProcedure(k)
  PROVE  Sound'
<1>. DEFINE c == <<"procedure", k>>
<1>0. /\ UNCHANGED <<run, item, stage, res, accounts, att>>
      /\ cancel' = cancel /\ epoch' = epoch /\ item' = item /\ att' = att
  BY DEF run, PutProcedure, MarkProcedure, RecordExecution, RecordProcedure
<1>1. CASE PutProcedure(k)
  <2>1. /\ Put("procedure", k, Output(k)) /\ ~HasEffect("procedure", k) /\ IsOpen(k)
        /\ AtBoundary(k)
    BY <1>1 DEF PutProcedure, Output
  <2>2. Output(k) \in Nat
    BY OfAttempt DEF Output, AttRecords
  <2>3. /\ DOMAIN eff' = DOMAIN eff \cup {c}
        /\ eff'[c] = [state |-> "intended", gen |-> Output(k), epoch |-> epoch, seen |-> FALSE]
        /\ \A e \in DOMAIN eff \ {c} : eff'[e] = eff[e]
    BY <2>1, <2>2, PutMakes DEF IInv, TypeInv
  <2>4. Output(k) = item[k[1]].gen
    <3>1. StageAgrees(k[1], k[2]) /\ AttemptOf(k[1], k[2]) = k
      BY <2>1, OfAttempt DEF AllOf, StageSound, AtBoundary, StageOf, AttemptOf
    <3>. QED  BY <2>1, <3>1 DEF StageAgrees, GenerationAgrees, AtBoundary, StageOf
  <2>5. EffectSound(c)'
    <3>1. IsOpen(k)' /\ Output(k)' = Output(k)
      BY <1>0, <2>1 DEF IsOpen, Output
    <3>2. epoch \in Nat
      BY DEF IInv, TypeInv, RunTyped
    <3>. QED  BY <1>0, <2>3, <2>4, <3>1, <3>2 DEF EffectSound, EffectAgrees
  <2>6. item[k[1]].current # "integration_ready"
    BY <2>1, ReadyIsDone
  <2>. QED  BY <1>0, <2>3, <2>5, <2>6, OneEffectMoves DEF Kinds
<1>2. CASE MarkProcedure(k) \/ RecordExecution(k) \/ RecordProcedure(k)
  <2>. DEFINE r == eff[c]
  <2>1. /\ c \in DOMAIN eff /\ ~Settled(c) /\ r \in EffRecords /\ EffectSound(c)
    <3>1. c \in DOMAIN eff /\ ~Settled(c)
      BY <1>2 DEF MarkProcedure, RecordExecution, RecordProcedure, EffectIn, HasEffect, Settled
    <3>. QED  BY <3>1, OfAttempt DEF IInv, TypeInv, EffTyped
  <2>2. /\ DOMAIN eff' = DOMAIN eff /\ \A e \in DOMAIN eff \ {c} : eff'[e] = eff[e]
        /\ eff'[c].gen = r.gen /\ eff'[c].epoch = r.epoch
        /\ \/ r.state = "intended" /\ IsOpen(k) /\ eff'[c].state = "dispatching"
                /\ eff'[c].seen = r.seen
           \/ r.state = "dispatching" /\ eff'[c].state = "observed" /\ eff'[c].seen = TRUE
           \/ r.state = "observed" /\ eff'[c].state = "reconciled" /\ eff'[c].seen = r.seen
    <3>1. CASE MarkProcedure(k)
      <4>1. Effect("procedure", k, "dispatching") /\ r.state = "intended" /\ IsOpen(k)
        BY <3>1 DEF MarkProcedure, EffectIn, AtBoundary
      <4>2. /\ DOMAIN eff' = DOMAIN eff /\ eff'[c] = [r EXCEPT !.state = "dispatching"]
            /\ \A e \in DOMAIN eff \ {c} : eff'[e] = eff[e]
        BY <2>1, <4>1, EffectMoves DEF IInv, TypeInv, EffStates, HasEffect
      <4>. QED  BY <2>1, <4>1, <4>2 DEF EffRecords
    <3>2. CASE RecordExecution(k)
      <4>1. /\ eff' = [eff EXCEPT ![c] = [r EXCEPT !.state = "observed", !.seen = TRUE]]
            /\ r.state = "dispatching"
        BY <3>2 DEF RecordExecution, EffectIn
      <4>. HIDE DEF c
      <4>2. /\ DOMAIN eff' = DOMAIN eff /\ eff'[c] = [r EXCEPT !.state = "observed", !.seen = TRUE]
            /\ \A e \in DOMAIN eff \ {c} : eff'[e] = eff[e]
        BY <2>1, <4>1 DEF IInv, TypeInv, EffTyped
      <4>. QED  BY <2>1, <4>1, <4>2 DEF EffRecords
    <3>3. CASE RecordProcedure(k)
      <4>1. Effect("procedure", k, "reconciled") /\ r.state = "observed"
        BY <3>3 DEF RecordProcedure, EffectIn
      <4>2. /\ DOMAIN eff' = DOMAIN eff /\ eff'[c] = [r EXCEPT !.state = "reconciled"]
            /\ \A e \in DOMAIN eff \ {c} : eff'[e] = eff[e]
        BY <2>1, <4>1, EffectMoves DEF IInv, TypeInv, EffStates, HasEffect
      <4>. QED  BY <2>1, <4>1, <4>2 DEF EffRecords
    <3>. QED  BY <1>2, <3>1, <3>2, <3>3
  <2>3. EffectSound(c)'
    <3>1. (IsOpen(k)' <=> IsOpen(k)) /\ Output(k)' = Output(k)
      BY <1>0 DEF IsOpen, Output
    <3>2. EffectAgrees(c)
      BY <2>1 DEF EffectSound
    <3>. QED  BY <1>0, <2>2, <3>1, <3>2 DEF EffectSound, EffectAgrees
  <2>4. item[k[1]].current # "integration_ready"
    BY <2>1, ReadyIsDone
  <2>. QED  BY <1>0, <2>2, <2>3, <2>4, OneEffectMoves DEF Kinds
<1>. QED  BY <1>1, <1>2

LEMMA NothingMoves ==
  ASSUME IInv, TypeInv', Sound,
         UNCHANGED <<cancel, epoch, item, stage, res, accounts, att, eff>>
  PROVE  Sound'
<1>1. SUFFICES ASSUME NEW i \in Item PROVE AllOf(i)'
  BY DEF Sound
<1>2. \A j \in Live : res[j].epoch = epoch
  BY LiveTyped DEF IInv, Sound, AllOf, ReservationAgrees
<1>3. AllOf(i) /\ KeepsNames(i) /\ QuietItem(i)
  BY <1>2 DEF Sound, KeepsNames, QuietItem, QuietAttempt, IsOpen, Live, accounts
<1>. QED  BY <1>3, OthersKeep

LEMMA CleanupSounds ==
  ASSUME IInv, TypeInv', Sound, NEW k \in DOMAIN att,
         PutCleanup(k) \/ MarkCleanup(k) \/ RecordCleanup(k) \/ MarkCancel(k)
  PROVE  Sound'
<1>0. /\ UNCHANGED <<run, item, stage, res, accounts, att>>
      /\ cancel' = cancel /\ epoch' = epoch /\ item' = item /\ att' = att
  BY DEF run, PutCleanup, MarkCleanup, RecordCleanup, MarkCancel
<1>0a. IsOpen(k)' <=> IsOpen(k)
  BY <1>0 DEF IsOpen
<1>1. CASE PutCleanup(k)
  <2>. DEFINE c == <<"cleanup", k>>
  <2>1. /\ Put("cleanup", k, Output(k)) /\ item[k[1]].current # "integration_ready"
        /\ ~IsOpen(k) /\ att[k].bound /\ att[k].result # None
    BY <1>1 DEF PutCleanup, Output
  <2>2. Output(k) \in Nat
    BY OfAttempt DEF Output, AttRecords
  <2>3. /\ DOMAIN eff' = DOMAIN eff \cup {c}
        /\ eff'[c] = [state |-> "intended", gen |-> Output(k), epoch |-> epoch, seen |-> FALSE]
        /\ \A e \in DOMAIN eff \ {c} : eff'[e] = eff[e]
    BY <2>1, <2>2, PutMakes DEF IInv, TypeInv
  <2>4. EffectSound(c)'
    <3>1. epoch \in Nat
      BY DEF IInv, TypeInv, RunTyped
    <3>. QED  BY <1>0, <1>0a, <2>1, <2>3, <3>1 DEF EffectSound, EffectAgrees
  <2>. QED  BY <1>0, <2>1, <2>3, <2>4, OneEffectMoves DEF Kinds
<1>2. ASSUME NEW kind \in {"cleanup", "cancel"}, NEW new \in {"dispatching", "reconciled"},
             EffectIn(kind, k, {"intended"})
               \/ (new = "reconciled" /\ EffectIn(kind, k, {"dispatching", "ambiguous"})),
             Effect(kind, k, new)
      PROVE  Sound'
  <2>. DEFINE c == <<kind, k>>
  <2>1. c \in DOMAIN eff /\ ~Settled(c) /\ eff[c] \in EffRecords /\ EffectSound(c)
    <3>1. c \in DOMAIN eff /\ ~Settled(c)
      BY <1>2 DEF EffectIn, HasEffect, Settled
    <3>. QED  BY <3>1, OfAttempt DEF IInv, TypeInv, EffTyped
  <2>2. /\ DOMAIN eff' = DOMAIN eff /\ eff'[c] = [eff[c] EXCEPT !.state = new]
        /\ \A e \in DOMAIN eff \ {c} : eff'[e] = eff[e]
    <3>1. HasEffect(kind, k) /\ new \in EffStates /\ EffTyped
      BY <2>1 DEF HasEffect, EffStates, IInv, TypeInv
    <3>. QED  BY <1>2, <3>1, EffectMoves
  <2>3. eff'[c].state = new /\ eff'[c].gen = eff[c].gen /\ eff'[c].epoch = eff[c].epoch
    BY <2>1, <2>2 DEF EffRecords
  <2>4. new = "dispatching" => eff[c].state = "intended"
    BY <1>2 DEF EffectIn
  <2>5. EffectSound(c)'
    BY <1>0, <1>0a, <2>1, <2>3, <2>4 DEF EffectSound, EffectAgrees
  <2>6. item[k[1]].current # "integration_ready"
    BY <2>1, ReadyIsDone
  <2>. QED  BY <1>0, <2>2, <2>5, <2>6, OneEffectMoves DEF Kinds
<1>3. CASE MarkCleanup(k)
  BY <1>2, <1>3 DEF MarkCleanup
<1>4. CASE MarkCancel(k)
  BY <1>2, <1>4 DEF MarkCancel
<1>5. CASE RecordCleanup(k)
  <2>1. CASE EffectIn("cleanup", k, {"dispatching", "ambiguous"})
    BY <1>2, <1>5, <2>1 DEF RecordCleanup
  <2>2. CASE eff' = eff
    BY <1>0, <2>2, NothingMoves DEF run
  <2>. QED  BY <1>5, <2>1, <2>2 DEF RecordCleanup
<1>. QED  BY <1>1, <1>3, <1>4, <1>5

LEMMA WorldSounds ==
  ASSUME IInv, TypeInv', Sound,
         \/ Pause \/ Resume \/ UNCHANGED vars
         \/ \E k \in DOMAIN att :
              \/ Recover(k) \/ WorkerStarts(k) \/ Execute(k) \/ CallCleanup(k) \/ CancelWorker(k)
              \/ \E status \in {"succeeded", "failed"} : WorkerEnds(k, status)
  PROVE  Sound'
<1>1. UNCHANGED <<cancel, epoch, item, stage, res, accounts, att, eff>>
  BY DEF Pause, Resume, vars, run, Recover, WorkerStarts, Execute, CallCleanup, CancelWorker,
         WorkerEnds
<1>. QED  BY <1>1, NothingMoves

LEMMA DispatchSounds ==
  ASSUME IInv, TypeInv', Sound, NEW k \in DOMAIN att, Dispatch(k)
  PROVE  Sound'
<1>. DEFINE c == <<"launch", k>>
<1>1. /\ UNCHANGED <<cancel, epoch, item, stage, res, accounts>>
      /\ att' = [att EXCEPT ![k].state = "launching"] /\ att[k].state = "dispatchable" /\ IsOpen(k)
      /\ Effect("launch", k, "dispatching") /\ c \in DOMAIN eff /\ eff[c].state = "intended"
  BY DEF Dispatch, run, EffectIn, HasEffect
<1>2. att[k] \in AttRecords /\ AttTyped /\ EffTyped
  BY OfAttempt DEF IInv, TypeInv
<1>3. /\ DOMAIN att' = DOMAIN att /\ att'[k].state = "launching" /\ att'[k].gen = att[k].gen
      /\ att'[k].out = att[k].out /\ att'[k].bound = att[k].bound /\ att'[k].result = att[k].result
      /\ \A m \in DOMAIN att \ {k} : att'[m] = att[m]
  <2>. DEFINE r == [att[k] EXCEPT !.state = "launching"]
  <2>1. att' = [att EXCEPT ![k] = r] /\ r \in AttRecords
    BY <1>1, <1>2 DEF AttRecords, AttStates
  <2>2. /\ r.state = "launching" /\ r.gen = att[k].gen /\ r.out = att[k].out
        /\ r.bound = att[k].bound /\ r.result = att[k].result
    BY <1>2 DEF AttRecords
  <2>. HIDE DEF r
  <2>. QED  BY <1>2, <2>1, <2>2, AttMoves
<1>4. /\ DOMAIN eff' = DOMAIN eff /\ eff'[c] = [eff[c] EXCEPT !.state = "dispatching"]
      /\ \A e \in DOMAIN eff \ {c} : eff'[e] = eff[e]
  BY <1>1, <1>2, EffectMoves DEF EffStates, HasEffect
<1>5. eff'[c].state = "dispatching" /\ eff'[c].gen = eff[c].gen /\ eff'[c].epoch = eff[c].epoch
  BY <1>1, <1>2, <1>4 DEF EffTyped, EffRecords
<1>6. QuietAttempt(k) /\ IsOpen(k)'
  BY <1>1, <1>3 DEF QuietAttempt, IsOpen
<1>7. AttemptSound(k) /\ \A e \in DOMAIN eff : e[2] = k => EffectSound(e)
  BY OfAttempt
<1>8. AttemptSound(k)'
  BY <1>1, <1>3, <1>4, <1>5, <1>7 DEF AttemptSound, EffectIn, HasEffect
<1>9. ASSUME NEW e \in DOMAIN eff', e[2] = k PROVE EffectSound(e)'
  <2>1. e \in DOMAIN eff /\ EffectSound(e)
    BY <1>4, <1>7, <1>9
  <2>2. CASE e = c
    BY <1>1, <1>5, <1>6, <2>1, <2>2 DEF EffectSound, EffectAgrees
  <2>3. CASE e # c
    BY <1>1, <1>3, <1>4, <1>6, <1>9, <2>1, <2>3, StillEffect
  <2>. QED  BY <2>2, <2>3
<1>10. item[k[1]].current # "integration_ready"
  BY <1>1, ReadyIsDone
<1>. QED  BY <1>1, <1>3, <1>4, <1>6, <1>8, <1>9, <1>10, OneMoves

LEMMA BindSounds ==
  ASSUME IInv, TypeInv', Sound, NEW k \in DOMAIN att, Bind(k)
  PROVE  Sound'
<1>. DEFINE l == <<"launch", k>>
            c == <<"cancel", k>>
<1>1. /\ ~att[k].bound /\ IsOpen(k) /\ l \in DOMAIN eff /\ l # c
      /\ UNCHANGED <<cancel, epoch, item, stage, res, accounts>>
  BY DEF Bind, EffectIn, HasEffect, IsOpen, run
<1>2. att[k] \in AttRecords /\ eff[l] \in EffRecords /\ EffectSound(l) /\ AttemptSound(k)
      /\ \A e \in DOMAIN eff : e[2] = k => EffectSound(e)
  BY <1>1, OfAttempt DEF IInv, TypeInv, EffTyped
<1>3. PICK r \in AttRecords :
        /\ att' = [att EXCEPT ![k] = r] /\ r.bound /\ r.gen = att[k].gen /\ r.out = att[k].out
        /\ r.state \in {"running", "cancelling"} /\ att[k].state # "result_observed"
  <2>1. CASE att[k].state = "launching"
    <3>. DEFINE r == [att[k] EXCEPT !.state = "running", !.bound = TRUE]
    <3>1. att' = [att EXCEPT ![k] = r]
      BY <2>1 DEF Bind
    <3>2. r \in AttRecords /\ r.bound /\ r.state = "running"
          /\ r.gen = att[k].gen /\ r.out = att[k].out
      BY <1>2 DEF AttRecords, AttStates
    <3>. QED  BY <2>1, <3>1, <3>2
  <2>2. CASE att[k].state = "cancelling"
    <3>. DEFINE r == [att[k] EXCEPT !.bound = TRUE]
    <3>1. att' = [att EXCEPT ![k] = r]
      BY <2>2 DEF Bind
    <3>2. r \in AttRecords /\ r.bound /\ r.state = att[k].state
          /\ r.gen = att[k].gen /\ r.out = att[k].out
      BY <1>2 DEF AttRecords, AttStates
    <3>. QED  BY <2>2, <3>1, <3>2
  <2>. QED  BY <2>1, <2>2 DEF Bind
<1>4. /\ DOMAIN att' = DOMAIN att /\ att'[k] = r
      /\ \A m \in DOMAIN att \ {k} : att'[m] = att[m]
  BY <1>3, AttMoves DEF IInv, TypeInv
<1>5. QuietAttempt(k) /\ IsOpen(k)'
  BY <1>1, <1>3, <1>4 DEF QuietAttempt, IsOpen
<1>6. AttemptSound(k)'
  BY <1>1, <1>2, <1>3, <1>4 DEF AttemptSound
<1>7. /\ DOMAIN eff \subseteq DOMAIN eff' /\ DOMAIN eff' \subseteq DOMAIN eff \cup {c}
      /\ \A e \in DOMAIN eff \ {l, c} : eff'[e] = eff[e]
      /\ eff'[l].state = "reconciled" /\ eff'[l].epoch = eff[l].epoch
      /\ \/ c \in DOMAIN eff' => c \in DOMAIN eff /\ eff'[c] = eff[c]
         \/ /\ cancel = "open" /\ eff'[c].epoch = epoch /\ eff'[c].gen = item[k[1]].gen
            /\ c \in DOMAIN eff'
  <2>0. [eff[l] EXCEPT !.state = "reconciled"].state = "reconciled"
        /\ [eff[l] EXCEPT !.state = "reconciled"].epoch = eff[l].epoch
    BY <1>2 DEF EffRecords
  <2>1. CASE att[k].state = "launching"
    <3>1. Effect("launch", k, "reconciled") /\ "reconciled" \in EffStates
          /\ HasEffect("launch", k) /\ EffTyped
      BY <1>1, <2>1 DEF Bind, EffStates, HasEffect, IInv, TypeInv
    <3>2. /\ DOMAIN eff' = DOMAIN eff /\ eff'[l] = [eff[l] EXCEPT !.state = "reconciled"]
          /\ \A e \in DOMAIN eff \ {l} : eff'[e] = eff[e]
      BY <3>1, EffectMoves
    <3>. QED  BY <1>1, <2>0, <3>2
  <2>2. CASE att[k].state = "cancelling"
    <3>. DEFINE rl == [eff[l] EXCEPT !.state = "reconciled"]
                rc == [state |-> "intended", gen |-> item[k[1]].gen, epoch |-> epoch,
                       seen |-> FALSE]
    <3>1. cancel = "open" /\ eff' = [e \in DOMAIN eff \cup {c} |->
                    CASE e = l -> rl [] e = c -> rc [] OTHER -> eff[e]]
      BY <2>2 DEF Bind
    <3>2. rl.state = "reconciled" /\ rl.epoch = eff[l].epoch
          /\ rc.epoch = epoch /\ rc.gen = item[k[1]].gen
      BY <2>0
    <3>. HIDE DEF rl, rc, c
    <3>3. DOMAIN eff' = DOMAIN eff \cup {c} /\ eff'[l] = rl /\ eff'[c] = rc
          /\ \A e \in DOMAIN eff \ {l, c} : eff'[e] = eff[e]
      BY <1>1, <3>1
    <3>. QED  BY <3>1, <3>2, <3>3
  <2>. QED  BY <2>1, <2>2 DEF Bind
<1>8. ASSUME NEW e \in DOMAIN eff', e[2] = k PROVE EffectSound(e)'
  <2>1. CASE e = l
    BY <1>1, <1>2, <1>7, <2>1 DEF EffectSound, EffectAgrees
  <2>2. CASE e # l /\ e \in DOMAIN eff /\ eff'[e] = eff[e]
    BY <1>1, <1>2, <1>4, <1>5, <1>8, <2>2, StillEffect
  <2>3. CASE e = c /\ cancel = "open" /\ eff'[c].epoch = epoch /\ eff'[c].gen = item[k[1]].gen
    <3>1. epoch \in Nat
      BY DEF IInv, TypeInv, RunTyped
    <3>. QED  BY <1>1, <2>3, <3>1 DEF EffectSound, EffectAgrees
  <2>. QED  BY <1>7, <2>1, <2>2, <2>3
<1>9. item[k[1]].current # "integration_ready"
  BY <1>1, ReadyIsDone
<1>10. \A e \in DOMAIN eff' : e[2] # k => e \in DOMAIN eff /\ eff'[e] = eff[e]
  BY <1>7
<1>. QED  BY <1>1, <1>4, <1>5, <1>6, <1>7, <1>8, <1>9, <1>10, OneMoves

LEMMA ResultSounds ==
  ASSUME IInv, TypeInv', Sound, NEW k \in DOMAIN att, RecordResult(k)
  PROVE  Sound'
<1>. DEFINE r == [att[k] EXCEPT !.state = "result_observed", !.result = worker[k]]
<1>1. /\ att' = [att EXCEPT ![k] = r] /\ att[k].bound /\ att[k].state = "running"
      /\ UNCHANGED <<cancel, epoch, item, stage, res, accounts, eff>>
      /\ worker[k] # "running" /\ k \in DOMAIN worker
  BY DEF RecordResult, Adopts, IInv, WorkersFit, AttemptFits, run
<1>2. att[k] \in AttRecords /\ AttemptSound(k) /\ \A e \in DOMAIN eff : e[2] = k => EffectSound(e)
  BY OfAttempt
<1>3. r \in AttRecords /\ r.state = "result_observed" /\ r.bound /\ r.gen = att[k].gen
      /\ r.out = att[k].out
  BY <1>1, <1>2 DEF AttRecords, AttStates, IInv, TypeInv, WorldTyped, WorkerStates
<1>. HIDE DEF r
<1>4. /\ DOMAIN att' = DOMAIN att /\ att'[k] = r
      /\ \A m \in DOMAIN att \ {k} : att'[m] = att[m]
  BY <1>1, <1>3, AttMoves DEF IInv, TypeInv
<1>5. QuietAttempt(k)
  BY <1>1, <1>3, <1>4 DEF QuietAttempt, IsOpen
<1>6. AttemptSound(k)'
  BY <1>1, <1>2, <1>3, <1>4 DEF AttemptSound
<1>7. ASSUME NEW e \in DOMAIN eff', e[2] = k PROVE EffectSound(e)'
  BY <1>1, <1>2, <1>4, <1>5, <1>7, StillEffect
<1>. QED  BY <1>1, <1>4, <1>5, <1>6, <1>7, OneMoves

LEMMA ActivateSounds ==
  ASSUME IInv, TypeInv', Sound, NEW i \in Item, Activate(i)
  PROVE  Sound'
<1>1. /\ UNCHANGED <<cancel, epoch, item, stage, accounts, att, eff>> /\ res[i] # None
      /\ res[i].state # "release_requested"
  BY DEF Activate, run
<1>2. i \in Live /\ res[i] \in Reservations
  BY <1>1 DEF Live, IInv, TypeInv, AccountsTyped
<1>3. PICK r \in Reservations :
        /\ res' = [res EXCEPT ![i] = r]
        /\ r.stage = res[i].stage /\ r.ord = res[i].ord /\ r.gen = res[i].gen
        /\ r.epoch = res[i].epoch
  <2>1. CASE res' = [res EXCEPT ![i].state = "dispatch_intent"]
    <3>. DEFINE r == [res[i] EXCEPT !.state = "dispatch_intent"]
    <3>1. res' = [res EXCEPT ![i] = r]
      BY <2>1
    <3>2. /\ r \in Reservations /\ r.stage = res[i].stage /\ r.ord = res[i].ord
          /\ r.gen = res[i].gen /\ r.epoch = res[i].epoch
      BY <1>2 DEF Reservations, ResStates
    <3>. HIDE DEF r
    <3>. QED  BY <3>1, <3>2
  <2>2. CASE res' = [res EXCEPT ![i].state = "active"]
    <3>. DEFINE r == [res[i] EXCEPT !.state = "active"]
    <3>1. res' = [res EXCEPT ![i] = r]
      BY <2>2
    <3>2. /\ r \in Reservations /\ r.stage = res[i].stage /\ r.ord = res[i].ord
          /\ r.gen = res[i].gen /\ r.epoch = res[i].epoch
      BY <1>2 DEF Reservations, ResStates
    <3>. HIDE DEF r
    <3>. QED  BY <3>1, <3>2
  <2>. QED  BY <2>1, <2>2 DEF Activate
<1>4. /\ Live' = Live /\ res'[i] = r /\ \A j \in Item \ {i} : res'[j] = res[j]
  BY <1>2, <1>3, OneReservationMoves
<1>5. SUFFICES ASSUME NEW j \in Item PROVE AllOf(j)'
  BY DEF Sound
<1>6. AllOf(j) /\ KeepsNames(j)
  BY <1>1 DEF Sound, KeepsNames
<1>7. \A m \in Live : res[m].epoch = epoch
  BY LiveTyped DEF IInv, Sound, AllOf, ReservationAgrees
<1>8. QuietItem(j)
  BY <1>1, <1>2, <1>3, <1>4, <1>6, <1>7 DEF QuietItem, QuietAttempt, IsOpen, accounts
<1>. QED  BY <1>1, <1>6, <1>8, OthersKeep

LEMMA ReattachSounds ==
  ASSUME IInv, TypeInv', Sound, Reattach
  PROVE  Sound'
<1>1. UNCHANGED <<cancel, item, stage, lanes, att>> /\ epoch' = epoch + 1 /\ epoch \in Nat
  BY DEF Reattach, accounts, IInv, TypeInv, RunTyped
<1>2. /\ DOMAIN eff' = DOMAIN eff
      /\ \A e \in DOMAIN eff :
           /\ eff[e] \in EffRecords /\ eff'[e].state = eff[e].state /\ eff'[e].gen = eff[e].gen
           /\ eff'[e].seen = eff[e].seen
           /\ eff'[e].epoch = IF Rebinds(e) THEN epoch + 1 ELSE eff[e].epoch
  <2>1. eff' = [e \in DOMAIN eff |-> IF Rebinds(e) THEN [eff[e] EXCEPT !.epoch = epoch + 1]
                                     ELSE eff[e]]
    BY DEF Reattach
  <2>2. ASSUME NEW e \in DOMAIN eff
        PROVE  /\ eff[e] \in EffRecords /\ eff'[e].state = eff[e].state /\ eff'[e].gen = eff[e].gen
               /\ eff'[e].seen = eff[e].seen
               /\ eff'[e].epoch = IF Rebinds(e) THEN epoch + 1 ELSE eff[e].epoch
    <3>1. eff[e] \in EffRecords
      BY DEF IInv, TypeInv, EffTyped
    <3>2. eff'[e] = IF Rebinds(e) THEN [eff[e] EXCEPT !.epoch = epoch + 1] ELSE eff[e]
      BY <2>1
    <3>. QED  BY <3>1, <3>2 DEF EffRecords
  <2>. QED  BY <2>1, <2>2
<1>3. \A i \in Item : (res'[i] # None <=> res[i] # None) /\ (i \in Live' <=> i \in Live)
                      /\ (i \in Live => /\ res'[i].stage = res[i].stage
                                        /\ res'[i].ord = res[i].ord /\ res'[i].gen = res[i].gen
                                        /\ res'[i].state = res[i].state
                                        /\ res'[i].epoch = epoch')
  <2>1. SUFFICES ASSUME NEW i \in Item
                 PROVE  /\ res'[i] # None <=> res[i] # None
                        /\ i \in Live' <=> i \in Live
                        /\ i \in Live => /\ res'[i].stage = res[i].stage
                                         /\ res'[i].ord = res[i].ord /\ res'[i].gen = res[i].gen
                                         /\ res'[i].state = res[i].state
                                         /\ res'[i].epoch = epoch'
    OBVIOUS
  <2>2. res'[i] = IF res[i] = None THEN None ELSE [res[i] EXCEPT !.epoch = epoch + 1]
    BY DEF Reattach
  <2>3. (i \in Live <=> res[i] # None) /\ (i \in Live' <=> res'[i] # None)
    BY DEF Live, IInv, TypeInv, AccountsTyped
  <2>4. CASE res[i] = None
    BY <2>2, <2>3, <2>4
  <2>5. CASE res[i] # None
    <3>1. res[i] \in Reservations
      BY <2>5 DEF IInv, TypeInv, AccountsTyped
    <3>2. res'[i] = [res[i] EXCEPT !.epoch = epoch + 1] /\ epoch + 1 \in 1..MaxEpoch
      BY <2>2, <2>5 DEF Reattach, IInv, TypeInv, RunTyped
    <3>3. /\ res'[i] \in Reservations /\ res'[i].stage = res[i].stage /\ res'[i].ord = res[i].ord
          /\ res'[i].gen = res[i].gen /\ res'[i].state = res[i].state /\ res'[i].epoch = epoch + 1
      BY <3>1, <3>2 DEF Reservations
    <3>. QED  BY <1>1, <2>3, <2>5, <3>3, SomethingIsNotNone
  <2>. QED  BY <2>4, <2>5
<1>4. SUFFICES ASSUME NEW i \in Item PROVE AllOf(i)'
  BY DEF Sound
<1>5. AllOf(i) /\ KeepsNames(i) /\ QuietItem(i)
  BY <1>1, <1>2, <1>3 DEF Sound, KeepsNames, QuietItem, QuietAttempt, IsOpen
<1>6. FrameOf(i)'
  BY <1>5, QuietStep
<1>7. ReadyAgrees(i)'
  <2>1. ReadyAgrees(i)
    BY <1>5 DEF AllOf
  <2>2. \A e \in EffectsOf(i)' : e \in EffectsOf(i) /\ (Settled(e)' <=> Settled(e))
    BY <1>2 DEF EffectsOf, Settled
  <2>. QED  BY <1>1, <2>1, <2>2 DEF ReadyAgrees
<1>8. ASSUME NEW k \in DOMAIN att', k[1] = i PROVE AttemptSound(k)'
  <2>1. AttemptSound(k)
    BY <1>1, <1>5, <1>8 DEF AllOf
  <2>. QED  BY <1>1, <1>2, <2>1 DEF AttemptSound, EffectIn, HasEffect
<1>9. ASSUME NEW e \in DOMAIN eff', e[2][1] = i PROVE EffectSound(e)'
  <2>1. EffectSound(e) /\ e \in DOMAIN eff
    BY <1>2, <1>5, <1>9 DEF AllOf
  <2>2. (IsOpen(e[2])' <=> IsOpen(e[2])) /\ Output(e[2])' = Output(e[2])
    BY <1>1 DEF IsOpen, Output
  <2>3. Rebinds(e) <=> e[1] \in {"launch", "cancel", "cleanup"}
                       /\ eff[e].state \in {"intended", "dispatching", "ambiguous"}
    BY DEF Rebinds
  <2>4. e[1] \in Kinds /\ eff[e].epoch \in Nat
    BY <1>2, <2>1 DEF IInv, TypeInv, EffTyped, EffRecords
  <2>. QED  BY <1>1, <1>2, <2>1, <2>2, <2>3, <2>4 DEF EffectSound, EffectAgrees, Kinds
<1>. QED  BY <1>6, <1>7, <1>8, <1>9 DEF AllOf, FrameOf

-----------------------------------------------------------------------------
(* Steps that move an item.                                                *)

LEMMA OneItemMoves ==
  ASSUME IInv, TypeInv', Sound, NEW i \in Item, cancel' = cancel, epoch' = epoch,
         \A j \in Item \ {i} : /\ item'[j] = item[j] /\ stage'[j] = stage[j] /\ res'[j] = res[j]
                               /\ j \in lanes' <=> j \in lanes,
         DOMAIN att \subseteq DOMAIN att', DOMAIN eff \subseteq DOMAIN eff',
         \A k \in DOMAIN att' : k[1] # i => k \in DOMAIN att /\ att'[k] = att[k],
         \A e \in DOMAIN eff' : e[2][1] # i => e \in DOMAIN eff /\ eff'[e] = eff[e],
         AllOf(i)'
  PROVE  Sound'
<1>1. SUFFICES ASSUME NEW j \in Item \ {i} PROVE AllOf(j)'
  BY DEF Sound
<1>2. /\ item'[j] = item[j] /\ stage'[j] = stage[j] /\ res'[j] = res[j]
      /\ j \in lanes' <=> j \in lanes
  OBVIOUS
<1>3. \A m \in Live : res[m].epoch = epoch
  BY LiveTyped DEF IInv, Sound, AllOf, ReservationAgrees
<1>4. j \in Live' <=> j \in Live
  BY <1>2 DEF Live, IInv, TypeInv, AccountsTyped
<1>5. AllOf(j) /\ KeepsNames(j)
  BY DEF Sound, KeepsNames
<1>6. \A k \in DOMAIN att : k[1] = j => k \in DOMAIN att' /\ att'[k] = att[k] /\ QuietAttempt(k)
  BY DEF QuietAttempt, IsOpen
<1>7. QuietItem(j)
  BY <1>2, <1>3, <1>4, <1>6 DEF QuietItem
<1>8. \A e \in DOMAIN eff' : e[2][1] = j => e \in DOMAIN eff /\ eff'[e] = eff[e]
  OBVIOUS
<1>. QED  BY <1>5, <1>6, <1>7, <1>8, OthersKeep

LEMMA TransitionStays ==
  ASSUME NEW i \in Item, NEW s \in Step, TransitionIsExact(i, s),
         stage'[i][s].evidence = stage[i][s].evidence, item'[i].cand = item[i].cand,
         \A t \in Step : Chain[t] = "F3" /\ stage[i][t].state \in {"passed", "active"} =>
            stage'[i][t].state = stage[i][t].state,
         \A k \in DOMAIN att : k[1] = i /\ att[k].state \in {"sealed", "result_observed"} =>
            k \in DOMAIN att' /\ att'[k] = att[k]
  PROVE  TransitionIsExact(i, s)'
<1>1. PICK t \in Step : Chain[t] = "F3" /\ \E m \in DOMAIN att :
        /\ m[1] = i /\ m[2] = t
        /\ att[m].gen = stage[i][s].evidence /\ att[m].out = item[i].cand.gen
        /\ \/ att[m].state = "sealed" /\ stage[i][t].state = "passed"
           \/ att[m].state = "result_observed" /\ stage[i][t].state = "active"
  BY DEF TransitionIsExact
<1>2. PICK m \in DOMAIN att :
        /\ m[1] = i /\ m[2] = t
        /\ att[m].gen = stage[i][s].evidence /\ att[m].out = item[i].cand.gen
        /\ \/ att[m].state = "sealed" /\ stage[i][t].state = "passed"
           \/ att[m].state = "result_observed" /\ stage[i][t].state = "active"
  BY <1>1
<1>3. m \in DOMAIN att' /\ att'[m] = att[m] /\ stage'[i][t].state = stage[i][t].state
  BY <1>1, <1>2
<1>. QED  BY <1>1, <1>2, <1>3 DEF TransitionIsExact

LEMMA StageStays ==
  ASSUME NEW i \in Item, NEW s \in Step, StageSound(i, s), stage'[i][s] = stage[i][s],
         item'[i].gen = item[i].gen, item'[i].cand = item[i].cand,
         stage[i][s].current => /\ AttemptOf(i, s) \in DOMAIN att'
                                /\ att'[AttemptOf(i, s)] = att[AttemptOf(i, s)],
         stage[i][s].state = "active" => item'[i].current = "active",
         Before(i, s) => Before(i, s)',
         stage[i][s].adopted /\ TransitionIsExact(i, s) => TransitionIsExact(i, s)',
         stage[i][s].tries > 0 /\ cancel' # "closed" => i \in lanes'
  PROVE  StageSound(i, s)'
<1>. DEFINE k == AttemptOf(i, s)
<1>1. AttemptOf(i, s)' = k
  BY DEF AttemptOf
<1>2. stage[i][s].current => (k \in DOMAIN att' /\ GenerationAgrees(i, s)')
  <2>1. StageAgrees(i, s)
    BY DEF StageSound
  <2>. QED  BY <1>1, <2>1 DEF StageAgrees, GenerationAgrees, Output
<1>3. stage[i][s].state = "passed" => PassedAgrees(i, s)'
  <2>1. SUFFICES ASSUME stage[i][s].state = "passed" PROVE PassedAgrees(i, s)'
    OBVIOUS
  <2>2. PassedAgrees(i, s)
    BY <2>1 DEF StageSound, StageAgrees
  <2>3. att'[k] = att[k]
    BY <2>2 DEF PassedAgrees
  <2>4. Output(AttemptOf(i, s))' = Output(k)
    BY <1>1, <2>3 DEF Output
  <2>. QED  BY <1>1, <2>2, <2>3, <2>4 DEF PassedAgrees
<1>4. StageAgrees(i, s)'
  <2>1. StageAgrees(i, s)
    BY DEF StageSound
  <2>. QED  BY <1>1, <1>2, <1>3, <2>1 DEF StageAgrees
<1>5. (stage[i][s].tries > 0 /\ cancel # "closed" => i \in lanes)'
  OBVIOUS
<1>6. (stage[i][s].current <=> stage[i][s].state \in {"active", "passed", "failed"})'
  BY DEF StageSound
<1>. QED  BY <1>4, <1>5, <1>6 DEF StageSound

\* Of an item that has no open attempt a new stage may be reserved or begun, and a failed
\* one may be done again.
LEMMA UnattendedKeeps ==
  ASSUME IInv, TypeInv', NEW i \in Item, AllOf(i), NEW s \in Step, cancel = "none",
         cancel' = cancel,
         item'[i].gen = item[i].gen, item'[i].cand = item[i].cand, item'[i].current = "active",
         i \in lanes', DOMAIN att \subseteq DOMAIN att',
         \A k \in DOMAIN att : k[1] = i => ~IsOpen(k) /\ att'[k] = att[k],
         stage[i][s].state \notin {"passed", "active"},
         \A t \in Step \ {s} : stage'[i][t] = stage[i][t],
         epoch' = epoch, DOMAIN eff \subseteq DOMAIN eff', \A e \in DOMAIN eff : eff'[e] = eff[e]
  PROVE  /\ ItemSound(i)' /\ ReadyAgrees(i)' /\ \A t \in Step \ {s} : StageSound(i, t)'
         /\ \A k \in DOMAIN att : k[1] = i => Latest(k)' /\ AttemptSound(k)'
         /\ \A e \in DOMAIN eff : e[2][1] = i => EffectSound(e)'
<1>1. ItemSound(i) /\ \A t \in Step : StageSound(i, t)
  BY DEF AllOf
<1>2. CandidateAgrees(i)'
  <2>1. CASE item[i].cand = None
    BY <1>1, <2>1 DEF ItemSound, CandidateAgrees
  <2>2. CASE item[i].cand # None
    <3>. DEFINE m == item[i].cand.by
    <3>1. m \in DOMAIN att /\ m[1] = i
      BY <1>1, <2>2 DEF ItemSound, CandidateAgrees
    <3>2. att[m].state # "result_observed" /\ att'[m] = att[m]
      BY <3>1 DEF IsOpen
    <3>. QED  BY <1>1, <2>2, <3>1, <3>2 DEF ItemSound, CandidateAgrees
  <2>. QED  BY <2>1, <2>2
<1>3. item[i].cand # None => item[i].cand.by \in DOMAIN att'
  BY <1>1 DEF ItemSound
<1>4. item[i].cand = None => item[i].gen = 0
  BY <1>1 DEF ItemSound
<1>5. ItemSound(i)'
  BY <1>2, <1>3, <1>4 DEF ItemSound
<1>6. ReadyAgrees(i)'
  BY DEF ReadyAgrees
<1>7. ASSUME NEW t \in Step \ {s} PROVE StageSound(i, t)'
  <2>1. StageSound(i, t) /\ stage'[i][t] = stage[i][t]
    BY <1>1
  <2>2. stage[i][t].current => AttemptOf(i, t) \in DOMAIN att'
                               /\ att'[AttemptOf(i, t)] = att[AttemptOf(i, t)]
    BY <2>1 DEF StageSound, StageAgrees, AttemptOf
  <2>3. Before(i, t) => Before(i, t)'
    <3>1. SUFFICES ASSUME Before(i, t), NEW u \in 1..(t - 1) PROVE stage'[i][u].state = "passed"
      BY DEF Before
    <3>2. u \in Step /\ stage[i][u].state = "passed"
      BY <3>1, ChainIsLong DEF Before, Step
    <3>. QED  BY <3>2
  <2>4. TransitionIsExact(i, t) => TransitionIsExact(i, t)'
    <3>1. \A u \in Step : stage[i][u].state \in {"passed", "active"} =>
            stage'[i][u].state = stage[i][u].state
      OBVIOUS
    <3>2. \A k \in DOMAIN att : k[1] = i => k \in DOMAIN att' /\ att'[k] = att[k]
      OBVIOUS
    <3>. QED  BY <2>1, <3>1, <3>2, TransitionStays
  <2>. QED  BY <2>1, <2>2, <2>3, <2>4, StageStays
<1>8. ASSUME NEW k \in DOMAIN att, k[1] = i PROVE Latest(k)' /\ AttemptSound(k)'
  <2>1. AttemptSound(k) /\ ~IsOpen(k)'
    BY <1>8 DEF AllOf, IsOpen
  <2>2. HasEffect("launch", k) => HasEffect("launch", k)'
                                  /\ eff'[<<"launch", k>>] = eff[<<"launch", k>>]
    BY DEF HasEffect
  <2>3. AttemptSound(k)'
    BY <1>8, <2>1, <2>2, StillAttempt
  <2>. QED  BY <2>1, <2>3 DEF Latest
<1>9. ASSUME NEW e \in DOMAIN eff, e[2][1] = i PROVE EffectSound(e)'
  <2>1. EffectSound(e) /\ e[2] \in DOMAIN att
    BY <1>9 DEF AllOf, IInv, TypeInv, EffTyped
  <2>2. e[2] \in DOMAIN att' /\ QuietAttempt(e[2])
    BY <1>9, <2>1 DEF QuietAttempt, IsOpen
  <2>. QED  BY <1>9, <2>1, <2>2, StillEffect
<1>. QED  BY <1>5, <1>6, <1>7, <1>8, <1>9

LEMMA ReserveSounds ==
  ASSUME IInv, TypeInv', Sound, NEW i \in Item, Reserve(i)
  PROVE  Sound'
<1>0. SUFFICES ASSUME NEW s, s = NextStage(i) PROVE Sound'
  OBVIOUS
<1>1. /\ UNCHANGED <<cancel, epoch, stage, att, eff>> /\ desired = "running" /\ res[i] = None
      /\ lanes' = lanes \cup {i} /\ item' = [item EXCEPT ![i].current = "active"]
      /\ res' = [res EXCEPT ![i] =
           [stage |-> s, ord |-> stage[i][s].tries + 1, state |-> "reserved",
            gen |-> item[i].gen, epoch |-> epoch]]
      /\ stage[i][s].state \in {"pending", "invalidated"}
  BY <1>0 DEF Reserve, run
<1>2. s \in Step /\ \A t \in 1..(s - 1) : stage[i][t].state = "passed"
  BY <1>0, NextStageIsAStage
<1>3. cancel = "none"
  BY <1>1 DEF IInv, Fence
<1>4. /\ \A j \in Item \ {i} : item'[j] = item[j] /\ res'[j] = res[j]
      /\ item'[i].gen = item[i].gen /\ item'[i].cand = item[i].cand /\ item'[i].current = "active"
      /\ res'[i].stage = s /\ res'[i].epoch = epoch /\ res'[i].gen = item[i].gen
  <2>. DEFINE r == [stage |-> s, ord |-> stage[i][s].tries + 1, state |-> "reserved",
                    gen |-> item[i].gen, epoch |-> epoch]
              q == [item[i] EXCEPT !.current = "active"]
  <2>1. /\ res \in [Item -> Reservations \cup {None}] /\ item \in [Item -> Items]
        /\ item[i] \in Items
    BY DEF IInv, TypeInv, AccountsTyped, ItemsTyped
  <2>2. res' = [res EXCEPT ![i] = r] /\ item' = [item EXCEPT ![i] = q]
    BY <1>1
  <2>3. r.stage = s /\ r.epoch = epoch /\ r.gen = item[i].gen
        /\ q.gen = item[i].gen /\ q.cand = item[i].cand /\ q.current = "active"
    BY <2>1 DEF Items
  <2>. HIDE DEF r, q
  <2>. QED  BY <2>1, <2>2, <2>3
<1>5. AllOf(i)
  BY DEF Sound
<1>6. \A k \in DOMAIN att : k[1] = i => ~IsOpen(k) /\ att'[k] = att[k]
  BY <1>1 DEF IInv, OpenHolds, Holds
<1>7. /\ ItemSound(i)' /\ ReadyAgrees(i)' /\ \A t \in Step \ {s} : StageSound(i, t)'
      /\ \A k \in DOMAIN att : k[1] = i => Latest(k)' /\ AttemptSound(k)'
      /\ \A e \in DOMAIN eff : e[2][1] = i => EffectSound(e)'
  BY <1>1, <1>2, <1>3, <1>4, <1>5, <1>6, UnattendedKeeps
<1>8. StageSound(i, s)'
  <2>1. StageSound(i, s) /\ ~stage[i][s].current
    BY <1>1, <1>2, <1>5 DEF AllOf, StageSound
  <2>2. (Before(i, s) => Before(i, s)') /\ (TransitionIsExact(i, s) => TransitionIsExact(i, s)')
    BY <1>1, <1>4 DEF Before, TransitionIsExact
  <2>. QED  BY <1>1, <1>2, <1>4, <2>1, <2>2, StageStays
<1>9. InOrder(i)'
  <2>1. InOrder(i)
    BY <1>5 DEF AllOf
  <2>2. Before(i, s)'
    BY <1>1, <1>2 DEF Before
  <2>. QED  BY <1>1, <1>4, <2>1, <2>2 DEF InOrder
<1>10. ReservationAgrees(i)'
  BY <1>1, <1>4 DEF ReservationAgrees
<1>11. AllOf(i)'
  BY <1>1, <1>7, <1>8, <1>9, <1>10 DEF AllOf
<1>. QED  BY <1>1, <1>4, <1>11, OneItemMoves

LEMMA BeginSounds ==
  ASSUME IInv, TypeInv', Sound, NEW i \in Item, Begin(i)
  PROVE  Sound'
<1>0. SUFFICES ASSUME NEW s, s = res[i].stage, NEW k, k = <<i, s, res[i].ord>> PROVE Sound'
  OBVIOUS
<1>. DEFINE q == [state |-> IF Owned(s) THEN "dispatchable" ELSE "running",
                  gen |-> item[i].gen, out |-> None, bound |-> FALSE, result |-> None]
            p == [stage[i][s] EXCEPT !.state = "active", !.tries = res[i].ord,
                                     !.current = TRUE, !.evidence = None]
<1>1. /\ UNCHANGED <<cancel, epoch, res, lanes>> /\ res[i] # None
      /\ res[i].state = "active" /\ res[i].epoch = epoch /\ res[i].gen = item[i].gen
      /\ ~stage[i][s].current /\ stage[i][s].state # "passed"
      /\ res[i].ord = stage[i][s].tries + 1
      /\ att' = [a \in DOMAIN att \cup {k} |-> IF a = k THEN q ELSE att[a]]
      /\ IF Owned(s) THEN Put("launch", k, item[i].gen) ELSE UNCHANGED eff
      /\ stage' = [stage EXCEPT ![i][s] = p]
      /\ item' = [item EXCEPT ![i].current = "active"]
  BY <1>0 DEF Begin, run, accounts
<1>2. /\ i \in Live /\ i \in lanes /\ res[i] \in Reservations /\ s \in Step
      /\ res[i].ord \in 1..MaxReroutes /\ item[i] \in Items /\ stage[i][s] \in Stages
  BY <1>0, <1>1 DEF Live, IInv, TypeInv, AccountsTyped, ItemsTyped, Accounted, Reservations
<1>3. cancel = "none" /\ AllOf(i)
  BY <1>1, <1>2 DEF IInv, Fence, Sound
<1>4. /\ p.tries = res[i].ord /\ p.state = "active" /\ p.current = TRUE /\ p \in Stages
      /\ p.adopted = stage[i][s].adopted
  <2>1. ASSUME NEW r \in Stages, NEW n \in 1..MaxReroutes
        PROVE  LET x == [r EXCEPT !.state = "active", !.tries = n, !.current = TRUE,
                                  !.evidence = None]
               IN  x.current = TRUE /\ x.adopted = r.adopted
    BY DEF Stages
  <2>2. LET x == [stage[i][s] EXCEPT !.state = "active", !.tries = res[i].ord, !.current = TRUE,
                                     !.evidence = None]
        IN  x.current = TRUE /\ x.adopted = stage[i][s].adopted
    BY <1>2, <2>1
  <2>3. LET x == [stage[i][s] EXCEPT !.state = "active", !.tries = res[i].ord, !.current = TRUE,
                                     !.evidence = None]
        IN  x \in Stages /\ x.tries = res[i].ord /\ x.state = "active"
    BY <1>2, StageBegun
  <2>. QED  BY <2>2, <2>3
<1>5. /\ stage'[i][s] = p /\ \A t \in Step \ {s} : stage'[i][t] = stage[i][t]
      /\ \A j \in Item \ {i} : stage'[j] = stage[j]
  <2>1. ItemsTyped
    BY DEF IInv, TypeInv
  <2>. HIDE DEF p
  <2>. QED  BY <1>1, <1>2, <1>4, <2>1, StageMoves
<1>6. /\ \A j \in Item \ {i} : item'[j] = item[j]
      /\ item'[i].gen = item[i].gen /\ item'[i].cand = item[i].cand /\ item'[i].current = "active"
  BY <1>1, <1>2 DEF IInv, TypeInv, ItemsTyped, Items
<1>7. k[1] = i /\ k[2] = s /\ k[3] = res[i].ord /\ k \notin DOMAIN att
  BY <1>0, <1>1, <1>2 DEF IInv, OpenHolds, Stages
<1>8. /\ DOMAIN att' = DOMAIN att \cup {k} /\ att'[k] = q
      /\ \A m \in DOMAIN att : att'[m] = att[m]
  <2>. HIDE DEF q
  <2>. QED  BY <1>1, <1>7
<1>9. \A m \in DOMAIN att : m[1] = i => ~IsOpen(m) /\ att'[m] = att[m]
  <2>1. SUFFICES ASSUME NEW m \in DOMAIN att, m[1] = i, IsOpen(m) PROVE FALSE
    BY <1>8
  <2>2. m[2] = s /\ m[3] = res[i].ord /\ m[3] <= stage[i][s].tries
    BY <1>0, <2>1 DEF IInv, OpenHolds, Holds
  <2>. QED  BY <1>1, <1>2, <2>2 DEF Stages
<1>10. /\ DOMAIN eff \subseteq DOMAIN eff' /\ \A e \in DOMAIN eff : eff'[e] = eff[e]
       /\ \A e \in DOMAIN eff' \ DOMAIN eff :
            e = <<"launch", k>> /\ eff'[e].gen = item[i].gen /\ eff'[e].epoch = epoch
  <2>1. CASE Owned(s)
    <3>1. <<"launch", k>> \notin DOMAIN eff /\ item[i].gen \in Nat
      BY <1>2, <1>7 DEF IInv, TypeInv, EffTyped, Items
    <3>2. Put("launch", k, item[i].gen) /\ EffTyped /\ RunTyped
      BY <1>1, <2>1 DEF IInv, TypeInv
    <3>3. /\ DOMAIN eff' = DOMAIN eff \cup {<<"launch", k>>}
          /\ eff'[<<"launch", k>>] =
               [state |-> "intended", gen |-> item[i].gen, epoch |-> epoch, seen |-> FALSE]
          /\ \A e \in DOMAIN eff \ {<<"launch", k>>} : eff'[e] = eff[e]
      BY <3>1, <3>2, PutMakes
    <3>. QED  BY <3>1, <3>3
  <2>2. CASE ~Owned(s)
    BY <1>1, <2>2
  <2>. QED  BY <2>1, <2>2
<1>11. stage[i][s].state \notin {"passed", "active"} /\ ~stage[i][s].adopted
  BY <1>1, <1>2, <1>3 DEF AllOf, StageSound, StageAgrees
<1>12. Before(i, s) /\ Before(i, s)'
  <2>1. Before(i, s)
    BY <1>0, <1>1, <1>2, <1>3 DEF AllOf, InOrder
  <2>2. SUFFICES ASSUME NEW u \in 1..(s - 1) PROVE stage'[i][u].state = "passed"
    BY <2>1, <1>1 DEF Before
  <2>3. u \in Step \ {s} /\ stage[i][u].state = "passed"
    BY <1>2, <2>1, ChainIsLong DEF Before, Step
  <2>. QED  BY <1>5, <2>3
<1>. HIDE DEF p
<1>13. /\ ItemSound(i)' /\ ReadyAgrees(i)' /\ \A t \in Step \ {s} : StageSound(i, t)'
       /\ \A m \in DOMAIN att : m[1] = i => Latest(m)' /\ AttemptSound(m)'
       /\ \A e \in DOMAIN eff : e[2][1] = i => EffectSound(e)'
  BY <1>1, <1>2, <1>3, <1>5, <1>6, <1>8, <1>9, <1>10, <1>11, UnattendedKeeps
<1>14. IsOpen(k)' /\ Output(k)' = item[i].gen /\ AttemptOf(i, s)' = k
  BY <1>0, <1>4, <1>5, <1>8 DEF IsOpen, Output, AttemptOf
<1>15. StageSound(i, s)'
  <2>1. StageAgrees(i, s)'
    BY <1>4, <1>5, <1>6, <1>8, <1>11, <1>12, <1>14 DEF StageAgrees, GenerationAgrees
  <2>. QED  BY <1>1, <1>2, <1>4, <1>5, <2>1 DEF StageSound
<1>16. InOrder(i)'
  <2>1. InOrder(i)
    BY <1>3 DEF AllOf
  <2>2. ~(res[i].ord = stage'[i][s].tries + 1)
    BY <1>2, <1>4, <1>5
  <2>3. ASSUME NEW u \in Step, NEW t \in Step, u < t, stage'[i][u].state # "passed"
        PROVE  ~stage'[i][t].current
    <3>1. t # s
      <4>1. t = s => u \in 1..(s - 1)
        BY <1>2, <2>3 DEF Step
      <4>. QED  BY <1>12, <2>3, <4>1 DEF Before
    <3>2. stage[i][u].state # "passed"
      BY <1>5, <1>11, <2>3
    <3>. QED  BY <1>3, <1>5, <2>1, <2>3, <3>1, <3>2 DEF InOrder
  <2>. QED  BY <1>0, <1>1, <2>2, <2>3 DEF InOrder
<1>17. ReservationAgrees(i)'
  BY <1>1, <1>2, <1>6 DEF ReservationAgrees
<1>18. Latest(k)' /\ AttemptSound(k)'
  <2>1. Latest(k)'
    BY <1>1, <1>4, <1>5, <1>7, <1>8 DEF Latest, StageOf
  <2>2. item[i].gen \in Nat
    BY <1>2 DEF Items
  <2>. QED  BY <1>6, <1>7, <1>8, <2>1, <2>2 DEF AttemptSound
<1>19. \A e \in DOMAIN eff' \ DOMAIN eff : EffectSound(e)'
  <2>1. epoch \in Nat
    BY DEF IInv, TypeInv, RunTyped
  <2>. QED  BY <1>1, <1>6, <1>7, <1>10, <1>14, <2>1 DEF EffectSound, EffectAgrees
<1>20. AllOf(i)'
  BY <1>8, <1>13, <1>15, <1>16, <1>17, <1>18, <1>19 DEF AllOf
<1>21. \A m \in DOMAIN att' : m[1] # i => m \in DOMAIN att /\ att'[m] = att[m]
  BY <1>7, <1>8
<1>22. \A e \in DOMAIN eff' : e[2][1] # i => e \in DOMAIN eff /\ eff'[e] = eff[e]
  BY <1>7, <1>10
<1>. QED  BY <1>1, <1>5, <1>6, <1>8, <1>10, <1>20, <1>21, <1>22, OneItemMoves

LEMMA RetrySounds ==
  ASSUME IInv, TypeInv', Sound, NEW i \in Item, Retry(i)
  PROVE  Sound'
<1>0. SUFFICES ASSUME NEW s, s = NextStage(i) PROVE Sound'
  OBVIOUS
<1>. DEFINE p == [stage[i][s] EXCEPT !.state = "pending", !.current = FALSE, !.evidence = None,
                                     !.adopted = FALSE]
<1>1. /\ UNCHANGED <<cancel, epoch, res, lanes, att, eff>> /\ desired = "running"
      /\ res[i] = None /\ stage[i][s].state = "failed"
      /\ stage' = [stage EXCEPT ![i][s] = p]
      /\ item' = [item EXCEPT ![i].current = "active"]
  BY <1>0 DEF Retry, Going, run, accounts
<1>2. s \in Step /\ item[i] \in Items /\ stage[i][s] \in Stages
  BY <1>0, NextStageIsAStage DEF IInv, TypeInv, ItemsTyped
<1>3. cancel = "none" /\ AllOf(i)
  BY <1>1 DEF IInv, Fence, Sound
<1>4. p \in Stages /\ p.state = "pending" /\ p.current = FALSE /\ p.adopted = FALSE
  <2>1. ASSUME NEW r \in Stages
        PROVE  LET x == [r EXCEPT !.state = "pending", !.current = FALSE, !.evidence = None,
                                  !.adopted = FALSE]
               IN  x.current = FALSE /\ x.adopted = FALSE
    BY DEF Stages
  <2>2. LET x == [stage[i][s] EXCEPT !.state = "pending", !.current = FALSE, !.evidence = None,
                                     !.adopted = FALSE]
        IN  x.current = FALSE /\ x.adopted = FALSE
    BY <1>2, <2>1
  <2>3. LET x == [stage[i][s] EXCEPT !.state = "pending", !.current = FALSE, !.evidence = None,
                                     !.adopted = FALSE]
        IN  x \in Stages /\ x.state = "pending"
    BY <1>2, StageToRepeat
  <2>. QED  BY <2>2, <2>3
<1>. HIDE DEF p
<1>5. /\ stage'[i][s] = p /\ \A t \in Step \ {s} : stage'[i][t] = stage[i][t]
      /\ \A j \in Item \ {i} : stage'[j] = stage[j]
  BY <1>1, <1>2, <1>4, StageMoves DEF IInv, TypeInv
<1>6. /\ \A j \in Item \ {i} : item'[j] = item[j]
      /\ item'[i].gen = item[i].gen /\ item'[i].cand = item[i].cand /\ item'[i].current = "active"
  BY <1>1, <1>2 DEF IInv, TypeInv, ItemsTyped, Items
<1>7. \A k \in DOMAIN att : k[1] = i => ~IsOpen(k) /\ att'[k] = att[k]
  BY <1>1 DEF IInv, OpenHolds, Holds
<1>8. StageSound(i, s) /\ stage[i][s].current /\ i \in lanes
  <2>1. StageSound(i, s) /\ stage[i][s].current
    BY <1>1, <1>2, <1>3 DEF AllOf, StageSound
  <2>2. AttemptOf(i, s) \in DOMAIN att
    BY <2>1 DEF StageSound, StageAgrees
  <2>3. stage[i][s].tries > 0
    BY <2>2, AttemptParts DEF AttemptOf, IInv, TypeInv, AttTyped
  <2>. QED  BY <1>3, <2>1, <2>3 DEF StageSound
<1>9. /\ ItemSound(i)' /\ ReadyAgrees(i)' /\ \A t \in Step \ {s} : StageSound(i, t)'
      /\ \A k \in DOMAIN att : k[1] = i => Latest(k)' /\ AttemptSound(k)'
      /\ \A e \in DOMAIN eff : e[2][1] = i => EffectSound(e)'
  BY <1>1, <1>2, <1>3, <1>5, <1>6, <1>7, <1>8, UnattendedKeeps
<1>10. StageSound(i, s)'
  BY <1>1, <1>4, <1>5, <1>8 DEF StageSound, StageAgrees
<1>11. InOrder(i)' /\ ~(i \in Live')
  <2>1. InOrder(i)
    BY <1>3 DEF AllOf
  <2>2. i \notin Live'
    BY <1>1 DEF Live
  <2>3. ASSUME NEW u \in Step, NEW t \in Step, u < t, stage'[i][u].state # "passed"
        PROVE  ~stage'[i][t].current
    <3>1. stage[i][u].state # "passed"
      BY <1>1, <1>5, <2>3
    <3>2. ~stage[i][t].current
      BY <1>3, <2>1, <2>3, <3>1 DEF InOrder
    <3>. QED  BY <1>4, <1>5, <3>2
  <2>. QED  BY <2>2, <2>3 DEF InOrder
<1>12. AllOf(i)'
  BY <1>1, <1>9, <1>10, <1>11 DEF AllOf
<1>. QED  BY <1>1, <1>5, <1>6, <1>12, OneItemMoves

\* At most one stage of an item is under way: what comes before it has passed, and nothing
\* that comes after it has begun.
LEMMA OneStageIsActive ==
  ASSUME NEW i \in Item, AllOf(i), NEW s \in Step, cancel = "none", stage[i][s].state = "active"
  PROVE  /\ \A t \in Step : t < s => stage[i][t].state = "passed"
         /\ \A t \in Step : s < t => ~stage[i][t].current
         /\ \A t \in Step \ {s} : stage[i][t].state # "active"
<1>1. Before(i, s) /\ InOrder(i) /\ \A t \in Step : StageSound(i, t)
  BY DEF AllOf, StageSound, StageAgrees
<1>2. \A t \in Step : t < s => stage[i][t].state = "passed"
  BY <1>1 DEF Before, Step
<1>3. \A t \in Step : s < t => ~stage[i][t].current
  BY <1>1 DEF InOrder
<1>4. \A t \in Step \ {s} : t < s \/ s < t
  BY DEF Step
<1>. QED  BY <1>1, <1>2, <1>3, <1>4 DEF StageSound

LEMMA AtItsBoundary ==
  ASSUME IInv, Sound, NEW k \in DOMAIN att, AtBoundary(k),
         att[k].state \in {"running", "result_observed"}
  PROVE  /\ cancel = "none" /\ AttemptOf(k[1], k[2]) = k /\ k[1] \in lanes /\ k[1] \in Live
         /\ stage[k[1]][k[2]].state = "active" /\ ~stage[k[1]][k[2]].adopted
         /\ Before(k[1], k[2]) /\ Output(k) = item[k[1]].gen
         /\ \A t \in Step : t < k[2] => stage[k[1]][t].state = "passed"
         /\ \A t \in Step : k[2] < t => ~stage[k[1]][t].current
         /\ \A t \in Step \ {k[2]} : stage[k[1]][t].state # "active"
         /\ \A m \in DOMAIN att : m[1] = k[1] /\ m # k => ~IsOpen(m)
         /\ item[k[1]].cand = None => item[k[1]].gen = 0
         /\ res[k[1]].stage = k[2] /\ res[k[1]].ord = k[3] /\ res[k[1]].gen = att[k].gen
<1>. DEFINE i == k[1]
            s == k[2]
<1>1. i \in Item /\ s \in Step /\ k = <<i, s, k[3]>> /\ AllOf(i)
  BY OfAttempt
<1>2. stage[i][s].state = "active" /\ stage[i][s].current /\ stage[i][s].tries = k[3] /\ IsOpen(k)
  BY DEF AtBoundary, StageOf
<1>3. cancel = "none"
  BY <1>2, OfAttempt
<1>4. AttemptOf(i, s) = k
  BY <1>1, <1>2 DEF AttemptOf
<1>5. StageSound(i, s) /\ StageAgrees(i, s) /\ ItemSound(i)
  BY <1>1 DEF AllOf, StageSound
<1>6. Before(i, s) /\ Output(k) = item[i].gen /\ ~stage[i][s].adopted /\ item[i].current = "active"
  BY <1>2, <1>4, <1>5 DEF StageAgrees, GenerationAgrees
<1>7. i \in lanes
  BY <1>5, <1>6 DEF ItemSound
<1>8. res[i] # None /\ res[i].stage = s /\ res[i].ord = k[3]
  BY <1>2 DEF IInv, OpenHolds, Holds
<1>9. i \in Live
  BY <1>1, <1>8 DEF Live, IInv, TypeInv, AccountsTyped
<1>10. res[i].gen = att[k].gen
  BY <1>2, OfAttempt DEF Latest
<1>11. \A m \in DOMAIN att : m[1] = i /\ m # k => ~IsOpen(m)
  BY <1>2, OneOpen DEF IInv
<1>12. item[i].cand = None => item[i].gen = 0
  BY <1>3, <1>5 DEF ItemSound
<1>13. /\ \A t \in Step : t < s => stage[i][t].state = "passed"
       /\ \A t \in Step : s < t => ~stage[i][t].current
       /\ \A t \in Step \ {s} : stage[i][t].state # "active"
  BY <1>1, <1>2, <1>3, OneStageIsActive
<1>. QED  BY <1>2, <1>3, <1>4, <1>6, <1>7, <1>8, <1>9, <1>10, <1>11, <1>12, <1>13

LEMMA SealSounds ==
  ASSUME IInv, TypeInv', Sound, NEW k \in DOMAIN att, NEW verdict \in {"passed", "failed"},
         Seal(k, verdict)
  PROVE  Sound'
<1>. DEFINE i == k[1]
            s == k[2]
            last == verdict = "passed" /\ Chain[s] = "F8"
            n == Output(k)
            p == [stage[i][s] EXCEPT !.state = verdict, !.evidence = n]
            r == [att[k] EXCEPT !.state = "sealed"]
            x == CASE verdict = "failed" -> "blocked"
                   [] last               -> "integration_ready"
                   [] OTHER              -> "active"
<1>1. /\ IsOpen(k) /\ AtBoundary(k) /\ Judgeable(k) /\ att' = [att EXCEPT ![k] = r]
      /\ EffectIn("procedure", k, {"reconciled"})
      /\ verdict \in Verdicts(k) /\ MaySeal(k, verdict)
      /\ last => \A t \in Step \ {s} : stage[i][t].state = "passed"
      /\ last => \A e \in EffectsOf(i) : Settled(e)
      /\ stage' = [stage EXCEPT ![i][s] = p]
      /\ item' = [item EXCEPT ![i].current = x]
      /\ Release({i}) /\ UNCHANGED <<cancel, epoch, lanes, eff>>
  BY DEF Seal, run, Output
<1>2. /\ i \in Item /\ s \in Step /\ att[k] \in AttRecords /\ stage[i][s] \in Stages
      /\ item[i] \in Items /\ AllOf(i) /\ AttemptSound(k) /\ k[1] = i /\ k[2] = s
      /\ n \in Nat /\ k = <<i, s, k[3]>>
  BY OfAttempt DEF StageOf, Output, AttRecords
<1>3. att[k].state = (IF Owned(s) THEN "result_observed" ELSE "running")
  BY <1>1 DEF Judgeable
<1>4. /\ cancel = "none" /\ AttemptOf(i, s) = k /\ i \in lanes
      /\ stage[i][s].state = "active" /\ ~stage[i][s].adopted /\ Before(i, s)
      /\ n = item[i].gen
      /\ \A t \in Step : s < t => ~stage[i][t].current
      /\ \A t \in Step \ {s} : stage[i][t].state # "active"
      /\ \A m \in DOMAIN att : m[1] = i /\ m # k => ~IsOpen(m)
      /\ item[i].cand = None => item[i].gen = 0
  BY <1>1, <1>3, AtItsBoundary
<1>5. r \in AttRecords /\ r.state = "sealed" /\ r.gen = att[k].gen /\ r.out = att[k].out
      /\ r.bound = att[k].bound /\ r.result = att[k].result
  BY <1>2 DEF AttRecords, AttStates
<1>6. p \in Stages /\ p.state = verdict /\ p.evidence = n /\ p.tries = stage[i][s].tries
      /\ p.current = stage[i][s].current /\ p.adopted = stage[i][s].adopted
  BY <1>2 DEF Stages, StageStates
<1>7. x \in ItemStates /\ (x \in {"blocked", "active"} \/ (last /\ x = "integration_ready"))
      /\ (verdict = "passed" /\ ~last => x = "active")
  BY DEF ItemStates
<1>. HIDE DEF r, p, x, n
<1>8. /\ DOMAIN att' = DOMAIN att /\ att'[k] = r
      /\ \A m \in DOMAIN att \ {k} : att'[m] = att[m]
  BY <1>1, <1>5, AttMoves DEF IInv, TypeInv
<1>9. /\ stage'[i][s] = p /\ \A t \in Step \ {s} : stage'[i][t] = stage[i][t]
      /\ \A j \in Item \ {i} : stage'[j] = stage[j]
  <2>1. ItemsTyped /\ i \in Item /\ s \in Step /\ p \in Stages
    BY <1>2, <1>6 DEF IInv, TypeInv
  <2>2. stage' = [stage EXCEPT ![i][s] = p]
    BY <1>1
  <2>. HIDE DEF i, s
  <2>. QED  BY <2>1, <2>2, StageMoves
<1>10. /\ \A j \in Item \ {i} : item'[j] = item[j]
       /\ item'[i].gen = item[i].gen /\ item'[i].cand = item[i].cand /\ item'[i].current = x
  BY <1>1, <1>2 DEF IInv, TypeInv, ItemsTyped, Items
<1>11. res'[i] = None /\ \A j \in Item \ {i} : res'[j] = res[j]
  BY <1>1, <1>2 DEF Release
<1>. HIDE DEF last
<1>12. ASSUME verdict = "passed" PROVE item[i].cand # None /\ (Chain[s] = "F1" => att[k].out # None)
  <2>1. Owned(s) => att[k].result = "succeeded"
    BY <1>12, <1>1 DEF Verdicts
  <2>2. CASE Chain[s] = "F1"
    <3>1. att[k].out # None
      BY <1>1, <2>1, <2>2 DEF Judgeable, Owned
    <3>. QED  BY <1>2, <1>4, <3>1 DEF AttemptSound
  <2>3. CASE Chain[s] # "F1"
    <3>1. 1 \in Step /\ 1 \in 1..(s - 1)
      BY <1>2, <2>3, ChainIsOrdered DEF Step
    <3>2. stage[i][1].state = "passed"
      BY <1>4, <3>1 DEF Before
    <3>. QED  BY <1>2, <2>3, <3>1, <3>2 DEF AllOf, StageSound, StageAgrees, PassedAgrees
  <2>. QED  BY <2>2, <2>3
<1>13. CandidateAgrees(i)' /\ (item[i].cand # None => item[i].cand.by \in DOMAIN att)
  <2>1. CandidateAgrees(i) /\ (item[i].cand # None => item[i].cand.by \in DOMAIN att)
    BY <1>2 DEF AllOf, ItemSound
  <2>2. CASE item[i].cand = None
    BY <1>4, <1>10, <2>1, <2>2 DEF CandidateAgrees
  <2>3. CASE item[i].cand # None
    <3>. DEFINE m == item[i].cand.by
    <3>1. m \in DOMAIN att /\ m[1] = i
      BY <2>1, <2>3 DEF CandidateAgrees
    <3>2. CASE m = k
      BY <1>5, <1>8, <1>10, <2>1, <2>3, <3>2 DEF CandidateAgrees
    <3>3. CASE m # k
      <4>1. att'[m] = att[m] /\ att[m].state # "result_observed"
        BY <1>4, <1>8, <3>1, <3>3 DEF IsOpen
      <4>. QED  BY <1>10, <2>1, <2>3, <4>1 DEF CandidateAgrees
    <3>. QED  BY <3>2, <3>3
  <2>. QED  BY <2>2, <2>3
<1>14. ItemSound(i)'
  BY <1>1, <1>4, <1>8, <1>10, <1>11, <1>13 DEF ItemSound
<1>15. ReadyAgrees(i)'
  <2>1. SUFFICES ASSUME x = "integration_ready" PROVE ReadyAgrees(i)'
    BY <1>10 DEF ReadyAgrees
  <2>2. last /\ verdict = "passed"
    BY <1>7, <2>1 DEF last
  <2>3. \A t \in Step : stage'[i][t].state = "passed"
    BY <1>1, <1>6, <1>9, <2>2
  <2>4. \A e \in EffectsOf(i)' : Settled(e)'
    BY <1>1, <2>2 DEF EffectsOf, Settled
  <2>. QED  BY <1>10, <1>12, <2>2, <2>3, <2>4 DEF ReadyAgrees
<1>16. ASSUME NEW t \in Step, Before(i, t) PROVE Before(i, t)' \/ (s < t /\ verdict = "failed")
  <2>1. SUFFICES ASSUME ~(s < t /\ verdict = "failed"), NEW u \in 1..(t - 1)
                 PROVE  stage'[i][u].state = "passed"
    BY DEF Before
  <2>2. u \in Step /\ stage[i][u].state = "passed"
    BY <1>16, <2>1, ChainIsLong DEF Before, Step
  <2>3. u # s
    BY <1>4, <2>2
  <2>. QED  BY <1>9, <2>2, <2>3
<1>17. ASSUME NEW t \in Step \ {s} PROVE StageSound(i, t)'
  <2>1. StageSound(i, t) /\ stage'[i][t] = stage[i][t] /\ stage[i][t].state # "active"
    BY <1>2, <1>4, <1>9 DEF AllOf
  <2>2. AttemptOf(i, t) # k
    BY <1>2 DEF AttemptOf
  <2>3. stage[i][t].current => AttemptOf(i, t) \in DOMAIN att'
                               /\ att'[AttemptOf(i, t)] = att[AttemptOf(i, t)]
    BY <1>8, <2>1, <2>2 DEF StageSound, StageAgrees
  <2>4. CASE ~stage[i][t].current
    BY <1>1, <1>10, <2>1, <2>4 DEF StageSound, StageAgrees
  <2>5. CASE stage[i][t].current
    <3>1. Before(i, t) => Before(i, t)'
      BY <1>4, <1>16, <2>5
    <3>2. stage[i][t].adopted /\ TransitionIsExact(i, t) => TransitionIsExact(i, t)'
      <4>1. SUFFICES ASSUME stage[i][t].adopted, TransitionIsExact(i, t)
                     PROVE  TransitionIsExact(i, t)'
        OBVIOUS
      <4>2. PICK u \in Step : Chain[u] = "F3" /\ \E m \in DOMAIN att :
              /\ m[1] = i /\ m[2] = u
              /\ att[m].gen = stage[i][t].evidence /\ att[m].out = item[i].cand.gen
              /\ \/ att[m].state = "sealed" /\ stage[i][u].state = "passed"
                 \/ att[m].state = "result_observed" /\ stage[i][u].state = "active"
        BY <4>1 DEF TransitionIsExact
      <4>3. PICK m \in DOMAIN att :
              /\ m[1] = i /\ m[2] = u
              /\ att[m].gen = stage[i][t].evidence /\ att[m].out = item[i].cand.gen
              /\ \/ att[m].state = "sealed" /\ stage[i][u].state = "passed"
                 \/ att[m].state = "result_observed" /\ stage[i][u].state = "active"
        BY <4>2
      <4>4. CASE m = k
        <5>1. verdict = "passed" /\ u = s
          BY <1>1, <1>2, <4>1, <4>2, <4>3, <4>4 DEF MaySeal
        <5>2. /\ att'[k].state = "sealed" /\ stage'[i][s].state = "passed"
              /\ att'[k].gen = stage'[i][t].evidence /\ att'[k].out = item'[i].cand.gen
          BY <1>5, <1>6, <1>8, <1>9, <1>10, <2>1, <4>3, <4>4, <5>1
        <5>. QED  BY <1>2, <1>8, <4>2, <4>3, <4>4, <5>1, <5>2 DEF TransitionIsExact
      <4>5. CASE m # k
        <5>1. att'[m] = att[m] /\ att[m].state # "result_observed"
          BY <1>4, <1>8, <4>3, <4>5 DEF IsOpen
        <5>2. u # s
          BY <1>4, <4>3, <5>1
        <5>. QED  BY <1>8, <1>9, <1>10, <2>1, <4>2, <4>3, <5>1, <5>2 DEF TransitionIsExact
      <4>. QED  BY <4>4, <4>5
    <3>. QED  BY <1>1, <1>2, <1>4, <1>10, <2>1, <2>3, <3>1, <3>2, StageStays
  <2>. QED  BY <2>4, <2>5
<1>18. AttemptOf(i, s)' = k /\ Output(k)' = n /\ stage[i][s].current
  BY <1>2, <1>4, <1>5, <1>6, <1>8, <1>9 DEF AttemptOf, Output, n, AllOf, StageSound
<1>19. StageSound(i, s)'
  <2>1. Before(i, s)'
    BY <1>2, <1>4, <1>16 DEF Step
  <2>2. GenerationAgrees(i, s)'
    <3>1. verdict = "passed" /\ Chain[s] = "F1" => att[k].out # None /\ att[k].out = n
      BY <1>12 DEF n, Output
    <3>2. att'[k].out = att[k].out /\ item'[i].gen = n
      BY <1>4, <1>5, <1>8, <1>10
    <3>. QED  BY <1>2, <1>4, <1>6, <1>9, <1>18, <3>1, <3>2 DEF GenerationAgrees
  <2>3. verdict = "passed" => PassedAgrees(i, s)'
    <3>1. SUFFICES ASSUME verdict = "passed" PROVE PassedAgrees(i, s)'
      OBVIOUS
    <3>2. Owned(s) => att[k].bound /\ att[k].result = "succeeded"
      BY <1>1, <1>2, <1>3, <3>1 DEF Verdicts, AttemptSound
    <3>3. n = item[i].cand.gen
      BY <1>2, <1>4, <1>12, <3>1 DEF AllOf, ItemSound, CandidateAgrees
    <3>. QED  BY <1>5, <1>6, <1>8, <1>9, <1>10, <1>12, <1>18, <2>1, <3>1, <3>2, <3>3
         DEF PassedAgrees
  <2>4. StageAgrees(i, s)'
    BY <1>4, <1>5, <1>6, <1>8, <1>9, <1>18, <2>2, <2>3 DEF StageAgrees
  <2>. QED  BY <1>1, <1>4, <1>6, <1>9, <1>18, <2>4 DEF StageSound
<1>20. InOrder(i)' /\ ~(i \in Live')
  <2>1. InOrder(i)
    BY <1>2 DEF AllOf
  <2>2. i \notin Live'
    BY <1>11 DEF Live
  <2>3. ASSUME NEW u \in Step, NEW t \in Step, u < t, stage'[i][u].state # "passed"
        PROVE  ~stage'[i][t].current
    <3>1. stage[i][u].state # "passed"
      BY <1>4, <1>9, <2>3
    <3>2. ~stage[i][t].current
      BY <1>4, <2>1, <2>3, <3>1 DEF InOrder
    <3>. QED  BY <1>6, <1>9, <3>2
  <2>. QED  BY <2>2, <2>3 DEF InOrder
<1>21. ASSUME NEW m \in DOMAIN att', m[1] = i PROVE Latest(m)' /\ AttemptSound(m)'
  <2>1. m \in DOMAIN att /\ AttemptSound(m)
    BY <1>2, <1>8, <1>21 DEF AllOf
  <2>2. CASE m = k
    <3>1. ~IsOpen(k)'
      BY <1>5, <1>8 DEF IsOpen
    <3>2. ~Owned(s) \/ att[k].bound
      BY <1>2, <1>3 DEF AttemptSound
    <3>. QED  BY <1>1, <1>5, <1>8, <1>10, <1>21, <2>1, <2>2, <3>1, <3>2 DEF Latest, AttemptSound
  <2>3. CASE m # k
    <3>1. ~IsOpen(m)' /\ att'[m] = att[m]
      BY <1>4, <1>8, <1>21, <2>1, <2>3 DEF IsOpen
    <3>2. AttemptSound(m)'
      BY <1>1, <1>10, <1>21, <2>1, <3>1, StillAttempt DEF HasEffect
    <3>. QED  BY <3>1, <3>2 DEF Latest
  <2>. QED  BY <2>2, <2>3
<1>22. ASSUME NEW e \in DOMAIN eff', e[2][1] = i PROVE EffectSound(e)'
  <2>1. e \in DOMAIN eff /\ EffectSound(e) /\ e[2] \in DOMAIN att /\ eff' = eff
    BY <1>1, <1>2, <1>22 DEF AllOf, IInv, TypeInv, EffTyped
  <2>2. CASE e[2] = k
    <3>1. ~IsOpen(k)' /\ Output(k)' = Output(k) /\ e[1] # "cleanup"
      BY <1>1, <1>5, <1>8, <1>18, <2>1, <2>2 DEF IsOpen, n, EffectSound, EffectAgrees
    <3>2. e[1] = "procedure" => eff[e].state = "reconciled"
      <4>1. e = <<e[1], e[2]>>
        BY <2>1 DEF IInv, TypeInv, EffTyped
      <4>. QED  BY <1>1, <2>2, <4>1 DEF EffectIn
    <3>3. e[1] = "launch" => eff[e].state = "reconciled"
      <4>1. e = <<e[1], e[2]>>
        BY <2>1 DEF IInv, TypeInv, EffTyped
      <4>2. e[1] = "launch" => Owned(s) /\ att[k].bound
        BY <1>2, <1>3, <2>1, <2>2, <4>1, OfAttempt DEF AttemptFits, AttemptSound, HasEffect
      <4>. QED  BY <2>2, <4>1, <4>2, OfAttempt DEF AttemptFits, EffectIn
    <3>. QED  BY <1>1, <1>10, <2>1, <2>2, <3>1, <3>2, <3>3 DEF EffectSound, EffectAgrees
  <2>3. CASE e[2] # k
    <3>1. e[2] \in DOMAIN att' /\ QuietAttempt(e[2])
      BY <1>8, <2>1, <2>3 DEF QuietAttempt, IsOpen
    <3>. QED  BY <1>1, <1>10, <1>22, <2>1, <3>1, StillEffect
  <2>. QED  BY <2>2, <2>3
<1>23. AllOf(i)'
  BY <1>14, <1>15, <1>17, <1>19, <1>20, <1>21, <1>22 DEF AllOf
<1>24. \A m \in DOMAIN att' : m[1] # i => m \in DOMAIN att /\ att'[m] = att[m]
  BY <1>8
<1>. QED  BY <1>1, <1>2, <1>8, <1>9, <1>10, <1>11, <1>23, <1>24, OneItemMoves

\* What every kind of candidate has in common: a generation more, which is the output of the
\* attempt that delivers it.
Recorded(k) ==
  LET i == k[1]
  IN /\ UNCHANGED <<cancel, epoch, eff, lanes>>
     /\ \A j \in Item \ {i} : item'[j] = item[j]
     /\ item'[i].gen = item[i].gen + 1 /\ item'[i].current = "active"
     /\ item'[i].cand # None /\ item'[i].cand.gen = item[i].gen + 1 /\ item'[i].cand.by = k
     /\ DOMAIN att' = DOMAIN att /\ \A m \in DOMAIN att \ {k} : att'[m] = att[m]
     /\ att'[k].out = item[i].gen + 1 /\ att'[k].gen = att[k].gen /\ att'[k].bound
     /\ att'[k].result = "succeeded" /\ att'[k].state \in {"result_observed", "failed"}

LEMMA CandidateIsRecorded ==
  ASSUME IInv, TypeInv', Sound, NEW k \in DOMAIN att,
         NEW kind \in {"first", "adoption", "invalidation"}, RecordCandidate(k, kind)
  PROVE  /\ Recorded(k) /\ AtBoundary(k) /\ att[k].state = "result_observed" /\ IsOpen(k)
         /\ Codes(k[2]) /\ att[k].out = None /\ att[k].bound /\ ~HasEffect("procedure", k)
         /\ kind = "first" <=> Chain[k[2]] = "F1"
         /\ att'[k].state = IF kind = "invalidation" THEN "failed" ELSE "result_observed"
<1>. DEFINE i == k[1]
            gen == IF item[i].cand = None /\ item[i].gen > 0 THEN item[i].gen ELSE item[i].gen + 1
            c == [gen |-> gen, by |-> k]
            q == [item[i] EXCEPT !.gen = gen, !.cand = c, !.current = "active"]
            r == [att[k] EXCEPT !.out = gen]
            z == [att[k] EXCEPT !.out = gen, !.state = "failed"]
<1>1. /\ IsOpen(k) /\ att[k].state = "result_observed" /\ Codes(k[2]) /\ att[k].out = None
      /\ att[k].result = "succeeded" /\ AtBoundary(k) /\ ~HasEffect("procedure", k)
      /\ kind = "first" <=> Chain[k[2]] = "F1"
      /\ item' = [item EXCEPT ![i] = q] /\ UNCHANGED <<cancel, epoch, eff>>
      /\ att' = [att EXCEPT ![k] = IF kind = "invalidation" THEN z ELSE r] /\ lanes' = lanes
  BY DEF RecordCandidate, run, accounts
<1>2. /\ i \in Item /\ item[i] \in Items /\ att[k] \in AttRecords /\ k \in Attempts
      /\ AttemptSound(k) /\ AttemptFits(k)
  BY OfAttempt DEF IInv, TypeInv, AttTyped
<1>3. gen = item[i].gen + 1 /\ gen \in Nat
  BY <1>1, <1>2, AtItsBoundary DEF Items
<1>. HIDE DEF gen
<1>4. c \in Candidates /\ c # None /\ c.gen = gen /\ c.by = k
  <2>1. c \in Candidates /\ c.gen = gen /\ c.by = k
    BY <1>2, <1>3 DEF Candidates
  <2>. QED  BY <2>1, SomethingIsNotNone
<1>. HIDE DEF c
<1>5. q.gen = gen /\ q.cand = c /\ q.current = "active"
  BY <1>2 DEF Items
<1>6. /\ r \in AttRecords /\ r.state = att[k].state /\ r.bound = att[k].bound
      /\ r.out = gen /\ r.gen = att[k].gen /\ r.result = att[k].result
      /\ z \in AttRecords /\ z.state = "failed" /\ z.bound = att[k].bound
      /\ z.out = gen /\ z.gen = att[k].gen /\ z.result = att[k].result
  BY <1>2, <1>3 DEF AttRecords, AttStates
<1>. HIDE DEF q, r, z
<1>7. item'[i] = q /\ \A j \in Item \ {i} : item'[j] = item[j]
  BY <1>1, <1>2 DEF IInv, TypeInv, ItemsTyped
<1>8. att[k].bound
  BY <1>1, <1>2 DEF AttemptSound, AttemptFits
<1>. DEFINE x == IF kind = "invalidation" THEN z ELSE r
<1>9. /\ DOMAIN att' = DOMAIN att /\ att'[k] = x
      /\ \A m \in DOMAIN att \ {k} : att'[m] = att[m]
  <2>1. x \in AttRecords /\ att' = [att EXCEPT ![k] = x] /\ AttTyped
    BY <1>1, <1>6 DEF IInv, TypeInv
  <2>. HIDE DEF x
  <2>. QED  BY <2>1, AttMoves
<1>10. /\ x.out = gen /\ x.gen = att[k].gen /\ x.bound = att[k].bound /\ x.result = att[k].result
       /\ x.state = IF kind = "invalidation" THEN "failed" ELSE "result_observed"
  BY <1>1, <1>6
<1>. HIDE DEF x
<1>11. Recorded(k)
  BY <1>1, <1>3, <1>4, <1>5, <1>7, <1>8, <1>9, <1>10 DEF Recorded
<1>. QED  BY <1>1, <1>8, <1>9, <1>10, <1>11

LEMMA RecordedSounds ==
  ASSUME IInv, TypeInv', Sound, NEW k \in DOMAIN att, Recorded(k), AtBoundary(k),
         att[k].state = "result_observed", Codes(k[2]), att[k].bound, ~HasEffect("procedure", k)
  PROVE  /\ ReadyAgrees(k[1])'
         /\ \A m \in DOMAIN att' : m[1] = k[1] => AttemptSound(m)'
         /\ \A e \in DOMAIN eff' : e[2][1] = k[1] => EffectSound(e)'
         /\ k[1] \in lanes /\ item'[k[1]].cand # None /\ cancel' = "none"
<1>. DEFINE i == k[1]
<1>1. /\ i \in Item /\ AllOf(i) /\ AttemptSound(k) /\ AttemptFits(k) /\ item[i].gen \in Nat
      /\ att[k].gen \in Nat
  BY OfAttempt DEF Items, AttRecords
<1>2. /\ cancel = "none" /\ i \in lanes /\ IsOpen(k)
      /\ \A m \in DOMAIN att : m[1] = i /\ m # k => ~IsOpen(m)
  BY AtItsBoundary DEF AtBoundary
<1>3. /\ UNCHANGED <<cancel, epoch, eff, lanes>> /\ item'[i].gen = item[i].gen + 1
      /\ item'[i].current = "active" /\ item'[i].cand # None
      /\ DOMAIN att' = DOMAIN att /\ \A m \in DOMAIN att \ {k} : att'[m] = att[m]
      /\ att'[k].gen = att[k].gen /\ att'[k].bound
  BY DEF Recorded
<1>4. ReadyAgrees(i)'
  BY <1>3 DEF ReadyAgrees
<1>5. ASSUME NEW m \in DOMAIN att', m[1] = i PROVE AttemptSound(m)'
  <2>1. m \in DOMAIN att /\ AttemptSound(m) /\ att[m] \in AttRecords
    BY <1>1, <1>3, <1>5, OfAttempt
  <2>2. att[m].gen <= item[i].gen => att[m].gen <= item[i].gen + 1
    BY <1>1, <2>1 DEF AttRecords
  <2>3. CASE m = k
    <3>1. att'[k].state # "launching"
      BY DEF Recorded
    <3>. QED  BY <1>1, <1>2, <1>3, <1>5, <2>1, <2>2, <2>3, <3>1 DEF AttemptSound
  <2>4. CASE m # k
    <3>1. att'[m] = att[m]
      BY <1>3, <2>1, <2>4
    <3>. QED  BY <1>1, <1>2, <1>3, <1>5, <2>1, <2>2, <3>1 DEF AttemptSound, EffectIn, HasEffect
  <2>. QED  BY <2>3, <2>4
<1>6. ASSUME NEW e \in DOMAIN eff', e[2][1] = i PROVE EffectSound(e)'
  <2>1. e \in DOMAIN eff /\ EffectSound(e) /\ e[2] \in DOMAIN att /\ e = <<e[1], e[2]>>
        /\ e[1] \in Kinds /\ e[1] # "cancel"
    BY <1>1, <1>2, <1>3, <1>6 DEF AllOf, IInv, TypeInv, EffTyped, EffectSound
  <2>2. CASE e[2] = k
    <3>1. e[1] = "launch"
      BY <1>2, <2>1, <2>2 DEF Kinds, HasEffect, EffectSound, EffectAgrees
    <3>2. eff[e].state = "reconciled"
      BY <1>1, <2>1, <2>2, <3>1 DEF AttemptFits, EffectIn
    <3>. QED  BY <1>3, <2>1, <3>1, <3>2 DEF EffectSound, EffectAgrees
  <2>3. CASE e[2] # k
    <3>1. ~IsOpen(e[2]) /\ att'[e[2]] = att[e[2]]
      BY <1>2, <1>3, <1>6, <2>1, <2>3
    <3>2. ~IsOpen(e[2])' /\ Output(e[2])' = Output(e[2])
      BY <1>3, <3>1 DEF IsOpen, Output
    <3>. QED  BY <1>3, <2>1, <3>1, <3>2 DEF EffectSound, EffectAgrees, Kinds
  <2>. QED  BY <2>2, <2>3
<1>. QED  BY <1>2, <1>3, <1>4, <1>5, <1>6

\* A candidate of F1, and one that takes the evaluation along, leave the attempt waiting for
\* its verdict, under the reservation it was made with.
LEMMA CandidateAwaits ==
  ASSUME IInv, TypeInv', Sound, NEW k \in DOMAIN att, Recorded(k), AtBoundary(k), Codes(k[2]),
         att[k].state = "result_observed", att'[k].state = "result_observed", res' = res,
         stage'[k[1]][k[2]] = stage[k[1]][k[2]],
         \A t \in Step : /\ stage'[k[1]][t].tries = stage[k[1]][t].tries
                         /\ stage'[k[1]][t].state = stage[k[1]][t].state
                         /\ stage'[k[1]][t].current = stage[k[1]][t].current
  PROVE  /\ ReservationAgrees(k[1])' /\ ItemSound(k[1])' /\ InOrder(k[1])'
         /\ \A m \in DOMAIN att' : m[1] = k[1] => Latest(m)'
         /\ AttemptOf(k[1], k[2])' = k /\ StageSound(k[1], k[2])'
<1>. DEFINE i == k[1]
            s == k[2]
<1>1. /\ i \in Item /\ s \in Step /\ AllOf(i) /\ item[i].gen \in Nat /\ k = <<i, s, k[3]>>
      /\ StageSound(i, s)
  BY OfAttempt DEF Items, AllOf
<1>2. /\ cancel = "none" /\ i \in lanes /\ AttemptOf(i, s) = k /\ i \in Live
      /\ stage[i][s].state = "active" /\ stage[i][s].current /\ stage[i][s].tries = k[3]
      /\ ~stage[i][s].adopted /\ Before(i, s)
      /\ \A m \in DOMAIN att : m[1] = i /\ m # k => ~IsOpen(m)
      /\ res[i].stage = s /\ res[i].ord = k[3] /\ res[i].gen = att[k].gen
  BY AtItsBoundary DEF AtBoundary, StageOf
<1>3. /\ UNCHANGED <<cancel, epoch, eff, lanes>> /\ item'[i].gen = item[i].gen + 1
      /\ item'[i].current = "active" /\ item'[i].cand # None /\ item'[i].cand.by = k
      /\ item'[i].cand.gen = item[i].gen + 1
      /\ DOMAIN att' = DOMAIN att /\ \A m \in DOMAIN att \ {k} : att'[m] = att[m]
      /\ att'[k].gen = att[k].gen /\ att'[k].out = item[i].gen + 1 /\ att'[k].result = "succeeded"
  BY DEF Recorded
<1>4. AttemptOf(i, s)' = k
  BY <1>1, <1>2 DEF AttemptOf
<1>5. item[i].gen + 1 # None /\ item[i].gen + 1 \in Nat
  BY <1>1, NoneAssumption
<1>6. ReservationAgrees(i)'
  <2>1. res[i].epoch = epoch
    BY <1>1, <1>2 DEF AllOf, ReservationAgrees
  <2>. QED  BY <1>2, <1>3, <1>4, <2>1 DEF ReservationAgrees
<1>7. CandidateAgrees(i)'
  BY <1>2, <1>3 DEF CandidateAgrees, StageOf
<1>8. ItemSound(i)'
  BY <1>2, <1>3, <1>7 DEF ItemSound
<1>9. Before(i, s)'
  <2>1. SUFFICES ASSUME NEW u \in 1..(s - 1) PROVE stage'[i][u].state = "passed"
    BY DEF Before
  <2>2. u \in Step /\ stage[i][u].state = "passed"
    BY <1>1, <1>2, ChainIsLong DEF Before, Step
  <2>. QED  BY <2>2
<1>10. InOrder(i)'
  <2>1. InOrder(i)
    BY <1>1 DEF AllOf
  <2>2. \A u, t \in Step : u < t /\ stage'[i][u].state # "passed" => ~stage'[i][t].current
    BY <1>2, <2>1 DEF InOrder
  <2>. QED  BY <1>2, <1>3, <1>9, <2>2 DEF InOrder
<1>11. ASSUME NEW m \in DOMAIN att', m[1] = i PROVE Latest(m)'
  <2>1. CASE m = k
    BY <1>2, <1>3, <2>1 DEF Latest, StageOf
  <2>2. CASE m # k
    <3>1. ~IsOpen(m)'
      BY <1>2, <1>3, <1>11, <2>2 DEF IsOpen
    <3>. QED  BY <3>1 DEF Latest
  <2>. QED  BY <2>1, <2>2
<1>12. StageSound(i, s)'
  <2>1. Output(k)' = item'[i].gen
    BY <1>3, <1>5 DEF Output
  <2>2. GenerationAgrees(i, s)'
    BY <1>2, <1>4, <2>1 DEF GenerationAgrees
  <2>3. StageAgrees(i, s)'
    BY <1>2, <1>3, <1>4, <1>9, <2>2 DEF StageAgrees
  <2>. QED  BY <1>2, <1>3, <2>3 DEF StageSound
<1>. QED  BY <1>4, <1>6, <1>8, <1>10, <1>11, <1>12

\* A stage that has not begun agrees with every candidate.
LEMMA IdleStage ==
  ASSUME NEW i \in Item, NEW s \in Step, ~stage'[i][s].current,
         stage'[i][s].state \notin {"active", "passed", "failed"}, ~stage'[i][s].adopted,
         i \in lanes'
  PROVE  StageSound(i, s)'
BY DEF StageSound, StageAgrees

LEMMA FirstSounds ==
  ASSUME IInv, TypeInv', Sound, NEW k \in DOMAIN att, RecordCandidate(k, "first")
  PROVE  Sound'
<1>. DEFINE i == k[1]
            s == k[2]
<1>1. /\ Recorded(k) /\ AtBoundary(k) /\ att[k].state = "result_observed" /\ Codes(s)
      /\ att[k].bound /\ ~HasEffect("procedure", k) /\ Chain[s] = "F1"
      /\ att'[k].state = "result_observed"
  BY CandidateIsRecorded
<1>2. stage' = stage /\ res' = res
  BY DEF RecordCandidate
<1>3. i \in Item /\ s \in Step /\ AllOf(i) /\ s = 1
  BY <1>1, OfAttempt, ChainIsOrdered
<1>4. /\ ReservationAgrees(i)' /\ ItemSound(i)' /\ InOrder(i)'
      /\ \A m \in DOMAIN att' : m[1] = i => Latest(m)'
      /\ StageSound(i, s)'
  BY <1>1, <1>2, CandidateAwaits
<1>5. /\ ReadyAgrees(i)' /\ i \in lanes
      /\ \A m \in DOMAIN att' : m[1] = i => AttemptSound(m)'
      /\ \A e \in DOMAIN eff' : e[2][1] = i => EffectSound(e)'
  BY <1>1, RecordedSounds
<1>6. ASSUME NEW t \in Step \ {s} PROVE StageSound(i, t)'
  <2>1. ~stage[i][t].current /\ StageSound(i, t)
    BY <1>1, <1>3, AtItsBoundary DEF AllOf, Step
  <2>2. stage[i][t].state \notin {"active", "passed", "failed"} /\ ~stage[i][t].adopted
    BY <2>1 DEF StageSound, StageAgrees
  <2>. QED  BY <1>1, <1>2, <1>3, <1>5, <2>1, <2>2, IdleStage DEF Recorded
<1>7. AllOf(i)'
  BY <1>4, <1>5, <1>6 DEF AllOf
<1>. QED  BY <1>1, <1>2, <1>3, <1>7, OneItemMoves DEF Recorded

\* What F1 passed with stays what it was, whatever F3 makes of it.
LEMMA FirstStaysPassed ==
  ASSUME IInv, Sound, NEW k \in DOMAIN att, Recorded(k), AtBoundary(k),
         att[k].state = "result_observed", NEW s \in Step, Chain[s] = "F1", s # k[2],
         stage[k[1]][s].state = "passed", stage'[k[1]][s] = stage[k[1]][s]
  PROVE  StageSound(k[1], s)'
<1>1. SUFFICES ASSUME NEW i \in Item, i = k[1], NEW m, m = AttemptOf(i, s)
               PROVE  StageSound(i, s)'
  BY OfAttempt DEF Items
<1>2. /\ StageSound(i, s) /\ item[i].gen \in Nat /\ k[2] \in Step
      /\ stage[i][s].state = "passed" /\ stage'[i][s] = stage[i][s]
  BY <1>1, OfAttempt DEF AllOf, Items
<1>3. /\ PassedAgrees(i, s) /\ m \in DOMAIN att /\ GenerationAgrees(i, s)
      /\ ~stage[i][s].adopted
  BY <1>1, <1>2 DEF StageSound, StageAgrees, PassedAgrees, Evaluates
<1>4. m # k /\ AttemptOf(i, s)' = m /\ att[m] \in AttRecords
  BY <1>1, <1>2, <1>3 DEF AttemptOf, IInv, TypeInv, AttTyped
<1>5. /\ att'[m] = att[m] /\ m \in DOMAIN att' /\ item'[i].gen = item[i].gen + 1
      /\ item'[i].cand # None /\ lanes' = lanes /\ i \in lanes
  BY <1>1, <1>3, <1>4, AtItsBoundary DEF Recorded
<1>6. att[m].out \in Nat /\ att[m].out <= item[i].gen + 1 /\ att[m].out # None
  <2>1. att[m].out # None /\ att[m].out <= item[i].gen
    BY <1>1, <1>2, <1>3 DEF GenerationAgrees
  <2>. QED  BY <1>2, <1>4, <2>1 DEF AttRecords
<1>7. GenerationAgrees(i, s)'
  BY <1>2, <1>3, <1>4, <1>5, <1>6 DEF GenerationAgrees
<1>8. PassedAgrees(i, s)'
  <2>1. s = 1
    BY ChainIsOrdered
  <2>2. Before(i, s)'
    BY <2>1 DEF Before
  <2>3. Output(AttemptOf(i, s))' = Output(m)
    BY <1>4, <1>5 DEF Output
  <2>. QED  BY <1>1, <1>2, <1>3, <1>4, <1>5, <2>2, <2>3 DEF PassedAgrees
<1>9. StageAgrees(i, s)'
  BY <1>1, <1>2, <1>3, <1>4, <1>5, <1>7, <1>8 DEF StageAgrees, StageSound, PassedAgrees
<1>. QED  BY <1>2, <1>5, <1>9 DEF StageSound

LEMMA AdoptionSounds ==
  ASSUME IInv, TypeInv', Sound, NEW k \in DOMAIN att, RecordCandidate(k, "adoption")
  PROVE  Sound'
<1>. DEFINE i == k[1]
            s == k[2]
            g == [t \in Step |-> IF Evaluates(t) THEN [stage[i][t] EXCEPT !.adopted = TRUE]
                                 ELSE stage[i][t]]
<1>1. /\ Recorded(k) /\ AtBoundary(k) /\ att[k].state = "result_observed" /\ Codes(s)
      /\ att[k].bound /\ ~HasEffect("procedure", k) /\ Chain[s] = "F3" /\ att[k].out = None
      /\ att'[k].state = "result_observed"
  BY CandidateIsRecorded DEF Codes
<1>2. stage' = [stage EXCEPT ![i] = g] /\ res' = res
      /\ \A t \in Step : Evaluates(t) => stage[i][t].state = "passed"
  BY DEF RecordCandidate
<1>3. /\ i \in Item /\ s \in Step /\ AllOf(i) /\ att[k] \in AttRecords /\ item[i].gen \in Nat
      /\ stage[i] \in [Step -> Stages] /\ k = <<i, s, k[3]>>
  BY OfAttempt DEF Items, IInv, TypeInv, ItemsTyped
<1>4. \A t \in Step : /\ g[t].tries = stage[i][t].tries /\ g[t].state = stage[i][t].state
                      /\ g[t].current = stage[i][t].current
                      /\ g[t].evidence = stage[i][t].evidence
                      /\ IF Evaluates(t) THEN g[t].adopted = TRUE ELSE g[t] = stage[i][t]
  BY <1>3 DEF Stages
<1>. HIDE DEF g
<1>5. stage'[i] = g /\ \A j \in Item \ {i} : stage'[j] = stage[j]
  BY <1>2, <1>3 DEF IInv, TypeInv, ItemsTyped
<1>6. stage'[i][s] = stage[i][s]
  BY <1>1, <1>3, <1>4, <1>5 DEF Evaluates
<1>7. /\ ReservationAgrees(i)' /\ ItemSound(i)' /\ InOrder(i)'
      /\ \A m \in DOMAIN att' : m[1] = i => Latest(m)'
      /\ StageSound(i, s)'
  BY <1>1, <1>2, <1>4, <1>5, <1>6, CandidateAwaits
<1>8. /\ ReadyAgrees(i)' /\ i \in lanes
      /\ \A m \in DOMAIN att' : m[1] = i => AttemptSound(m)'
      /\ \A e \in DOMAIN eff' : e[2][1] = i => EffectSound(e)'
  BY <1>1, RecordedSounds
<1>9. /\ \A t \in Step : t < s => stage[i][t].state = "passed"
      /\ \A t \in Step : s < t => ~stage[i][t].current
      /\ stage[i][s].state = "active" /\ AttemptOf(i, s) = k /\ Output(k) = item[i].gen
      /\ \A t \in Step \ {s} : stage[i][t].state # "active"
      /\ \A m \in DOMAIN att : m[1] = i /\ m # k => ~IsOpen(m)
  BY <1>1, AtItsBoundary
<1>10. /\ DOMAIN att' = DOMAIN att /\ \A m \in DOMAIN att \ {k} : att'[m] = att[m]
       /\ att'[k].gen = att[k].gen /\ att'[k].out = item[i].gen + 1
       /\ item'[i].cand.gen = item[i].gen + 1 /\ item'[i].gen = item[i].gen + 1
       /\ item'[i].cand # None /\ lanes' = lanes
  BY <1>1 DEF Recorded
<1>11. ASSUME NEW t \in Step \ {s} PROVE StageSound(i, t)'
  <2>1. StageSound(i, t) /\ (t < s \/ s < t)
    BY <1>3 DEF AllOf, Step
  <2>2. CASE s < t
    <3>1. ~stage[i][t].current /\ ~Evaluates(t)
      BY <1>1, <1>3, <1>9, <2>2, ChainIsOrdered DEF Evaluates, Step
    <3>2. stage'[i][t] = stage[i][t]
      BY <1>4, <1>5, <3>1
    <3>3. stage[i][t].state \notin {"active", "passed", "failed"} /\ ~stage[i][t].adopted
      BY <2>1, <3>1 DEF StageSound, StageAgrees
    <3>. QED  BY <1>3, <1>8, <1>10, <3>1, <3>2, <3>3, IdleStage
  <2>3. CASE t < s /\ Chain[t] = "F1"
    <3>1. stage'[i][t] = stage[i][t] /\ stage[i][t].state = "passed"
      BY <1>4, <1>5, <1>9, <2>3 DEF Evaluates
    <3>. QED  BY <1>1, <2>3, <3>1, FirstStaysPassed
  <2>4. CASE t < s /\ Chain[t] = "F2"
    <3>. DEFINE m == AttemptOf(i, t)
    <3>1. stage[i][t].state = "passed" /\ Evaluates(t) /\ ~Codes(t) /\ stage'[i][t] = g[t]
      BY <1>5, <1>9, <2>4 DEF Evaluates, Codes
    <3>2. PassedAgrees(i, t) /\ GenerationAgrees(i, t) /\ m \in DOMAIN att
      BY <2>1, <3>1 DEF StageSound, StageAgrees, PassedAgrees
    <3>3. m # k /\ AttemptOf(i, t)' = m /\ m[1] = i /\ m[2] = t
      BY <1>3, <1>4, <3>1 DEF AttemptOf
    <3>4. att'[m] = att[m] /\ m \in DOMAIN att'
      BY <1>10, <3>2, <3>3
    <3>5. att[m].out = None /\ att[m].gen \in Nat /\ Output(m) = att[m].gen
      BY <3>1, <3>2, <3>3, OfAttempt DEF AttemptSound, Output, AttRecords
    <3>6. att[k].gen = item[i].gen
      BY <1>1, <1>9 DEF Output
    <3>7. ~stage[i][t].adopted
      <4>1. SUFFICES ASSUME stage[i][t].adopted PROVE FALSE
        OBVIOUS
      <4>2. att[m].gen + 1 = item[i].gen
        BY <2>4, <3>1, <3>2, <4>1 DEF GenerationAgrees
      <4>3. item[i].cand # None /\ item[i].cand.gen = item[i].gen
        BY <1>3, <3>2 DEF PassedAgrees, AllOf, ItemSound, CandidateAgrees
      <4>4. TransitionIsExact(i, t)
        BY <1>3, <2>4, <3>2, <3>5, <4>2, <4>3 DEF PassedAgrees
      <4>5. PICK u \in Step : Chain[u] = "F3" /\ \E x \in DOMAIN att :
              /\ x[1] = i /\ x[2] = u
              /\ att[x].gen = stage[i][t].evidence /\ att[x].out = item[i].cand.gen
              /\ \/ att[x].state = "sealed" /\ stage[i][u].state = "passed"
                 \/ att[x].state = "result_observed" /\ stage[i][u].state = "active"
        BY <4>4 DEF TransitionIsExact
      <4>6. PICK x \in DOMAIN att :
              /\ x[1] = i /\ x[2] = u
              /\ att[x].gen = stage[i][t].evidence /\ att[x].out = item[i].cand.gen
              /\ \/ att[x].state = "sealed" /\ stage[i][u].state = "passed"
                 \/ att[x].state = "result_observed" /\ stage[i][u].state = "active"
        BY <4>5
      <4>7. u = s
        BY <1>1, <1>3, <4>5, ChainIsOrdered
      <4>8. x = k
        BY <1>9, <4>6, <4>7 DEF IsOpen
      <4>. QED  BY <1>1, <1>3, <4>3, <4>6, <4>8, NoneAssumption
    <3>8. Output(m) = item[i].gen
      BY <2>4, <3>1, <3>2, <3>7 DEF GenerationAgrees
    <3>9. stage'[i][t].adopted /\ stage'[i][t].state = "passed"
          /\ stage'[i][t].current = stage[i][t].current
          /\ stage'[i][t].evidence = stage[i][t].evidence
      BY <1>4, <3>1
    <3>10. GenerationAgrees(i, t)'
      BY <1>10, <2>4, <3>3, <3>4, <3>5, <3>8, <3>9 DEF GenerationAgrees
    <3>11. TransitionIsExact(i, t)'
      <4>1. stage[i][t].evidence = item[i].gen
        BY <3>2, <3>8 DEF PassedAgrees
      <4>. QED  BY <1>1, <1>3, <1>6, <1>9, <1>10, <3>6, <3>9, <4>1 DEF TransitionIsExact
    <3>12. PassedAgrees(i, t)'
      <4>1. Before(i, t)'
        <5>1. SUFFICES ASSUME NEW u \in 1..(t - 1) PROVE stage'[i][u].state = "passed"
          BY DEF Before
        <5>2. u \in Step /\ stage[i][u].state = "passed"
          BY <3>2, ChainIsLong DEF PassedAgrees, Before, Step
        <5>. QED  BY <1>4, <1>5, <5>2
      <4>2. Output(AttemptOf(i, t))' = Output(m)
        BY <3>3, <3>4 DEF Output
      <4>. QED  BY <1>10, <3>1, <3>2, <3>3, <3>4, <3>9, <3>11, <4>1, <4>2 DEF PassedAgrees
    <3>13. StageAgrees(i, t)'
      BY <3>1, <3>2, <3>3, <3>4, <3>9, <3>10, <3>12 DEF StageAgrees, PassedAgrees
    <3>14. (stage[i][t].current <=> stage[i][t].state \in {"active", "passed", "failed"})'
      BY <2>1, <3>1, <3>9 DEF StageSound
    <3>. QED  BY <1>8, <1>10, <3>13, <3>14 DEF StageSound
  <2>. QED  BY <1>1, <1>3, <2>1, <2>2, <2>3, <2>4, ChainIsOrdered
<1>12. AllOf(i)'
  BY <1>7, <1>8, <1>11 DEF AllOf
<1>. QED  BY <1>1, <1>2, <1>3, <1>5, <1>12, OneItemMoves DEF Recorded

LEMMA InvalidationSounds ==
  ASSUME IInv, TypeInv', Sound, NEW k \in DOMAIN att, RecordCandidate(k, "invalidation")
  PROVE  Sound'
<1>. DEFINE i == k[1]
            s == k[2]
            g == Rerouted(stage[i])
<1>1. /\ Recorded(k) /\ AtBoundary(k) /\ att[k].state = "result_observed" /\ Codes(s)
      /\ att[k].bound /\ ~HasEffect("procedure", k) /\ Chain[s] = "F3"
      /\ att'[k].state = "failed"
  BY CandidateIsRecorded DEF Codes
<1>2. stage' = [stage EXCEPT ![i] = g] /\ Release({i})
  BY DEF RecordCandidate
<1>3. /\ i \in Item /\ s \in Step /\ AllOf(i) /\ stage[i] \in [Step -> Stages]
  BY OfAttempt DEF IInv, TypeInv, ItemsTyped
<1>4. \A t \in Step : IF Chain[t] \in {"F2", "F3"}
        THEN g[t].state = "invalidated" /\ g[t].current = FALSE /\ g[t].adopted = FALSE
        ELSE g[t] = stage[i][t]
  <2>1. ASSUME NEW r \in Stages
        PROVE  LET x == [r EXCEPT !.state = "invalidated", !.current = FALSE, !.evidence = None,
                                  !.adopted = FALSE]
               IN  x.state = "invalidated" /\ x.current = FALSE /\ x.adopted = FALSE
    BY DEF Stages
  <2>. QED  BY <1>3, <2>1 DEF Rerouted
<1>. HIDE DEF g
<1>5. stage'[i] = g /\ \A j \in Item \ {i} : stage'[j] = stage[j]
  BY <1>2, <1>3 DEF IInv, TypeInv, ItemsTyped
<1>6. res'[i] = None /\ \A j \in Item \ {i} : res'[j] = res[j]
  BY <1>2, <1>3 DEF Release
<1>7. /\ ReadyAgrees(i)' /\ i \in lanes /\ cancel' = "none"
      /\ \A m \in DOMAIN att' : m[1] = i => AttemptSound(m)'
      /\ \A e \in DOMAIN eff' : e[2][1] = i => EffectSound(e)'
  BY <1>1, RecordedSounds
<1>8. /\ \A t \in Step : t < s => stage[i][t].state = "passed"
      /\ \A t \in Step : s < t => ~stage[i][t].current
      /\ \A m \in DOMAIN att : m[1] = i /\ m # k => ~IsOpen(m)
  BY <1>1, AtItsBoundary
<1>9. /\ DOMAIN att' = DOMAIN att /\ \A m \in DOMAIN att \ {k} : att'[m] = att[m]
      /\ att'[k].out = item[i].gen + 1 /\ att'[k].result = "succeeded"
      /\ item'[i].cand.gen = item[i].gen + 1 /\ item'[i].gen = item[i].gen + 1
      /\ item'[i].cand # None /\ item'[i].cand.by = k /\ item'[i].current = "active"
      /\ lanes' = lanes
  BY <1>1 DEF Recorded
<1>10. ItemSound(i)'
  <2>1. CandidateAgrees(i)'
    BY <1>1, <1>9 DEF CandidateAgrees
  <2>. QED  BY <1>7, <1>9, <2>1 DEF ItemSound
<1>11. ASSUME NEW m \in DOMAIN att', m[1] = i PROVE Latest(m)'
  <2>1. ~IsOpen(m)'
    BY <1>1, <1>8, <1>9, <1>11 DEF IsOpen
  <2>. QED  BY <2>1 DEF Latest
<1>12. ASSUME NEW t \in Step PROVE StageSound(i, t)' /\ (t = 1 \/ ~stage'[i][t].current)
  <2>1. StageSound(i, t) /\ (t < s \/ s < t \/ t = s)
    BY <1>3 DEF AllOf, Step
  <2>2. CASE Chain[t] \in {"F2", "F3"}
    BY <1>3, <1>4, <1>5, <1>7, <1>9, <2>2, IdleStage
  <2>3. CASE s < t /\ Chain[t] \notin {"F2", "F3"}
    <3>1. ~stage[i][t].current /\ stage'[i][t] = stage[i][t]
      BY <1>4, <1>5, <1>8, <2>3
    <3>2. stage[i][t].state \notin {"active", "passed", "failed"} /\ ~stage[i][t].adopted
      BY <2>1, <3>1 DEF StageSound, StageAgrees
    <3>. QED  BY <1>3, <1>7, <1>9, <3>1, <3>2, IdleStage
  <2>4. CASE t < s /\ Chain[t] = "F1"
    <3>1. stage'[i][t] = stage[i][t] /\ stage[i][t].state = "passed" /\ t = 1
      BY <1>4, <1>5, <1>8, <2>4, ChainIsOrdered
    <3>2. t # s
      BY <1>1, <2>4
    <3>. QED  BY <1>1, <2>4, <3>1, <3>2, FirstStaysPassed
  <2>. QED  BY <1>1, <1>3, <2>1, <2>2, <2>3, <2>4, ChainIsOrdered
<1>13. InOrder(i)' /\ ~(i \in Live')
  <2>1. i \notin Live'
    BY <1>6 DEF Live
  <2>2. \A u, t \in Step : u < t => t # 1
    BY DEF Step
  <2>. QED  BY <1>12, <2>1, <2>2 DEF InOrder
<1>14. AllOf(i)'
  BY <1>7, <1>10, <1>11, <1>12, <1>13 DEF AllOf
<1>. QED  BY <1>1, <1>3, <1>5, <1>6, <1>14, OneItemMoves DEF Recorded

-----------------------------------------------------------------------------
(* The fence and the close leave the audit what it asks for.                *)

LEMMA FencedFields ==
  ASSUME NEW e \in EffRecords
  PROVE  /\ Fenced(e).gen = e.gen /\ Fenced(e).epoch = e.epoch /\ Fenced(e).seen = e.seen
         /\ Fenced(e).state \notin {"intended", "dispatching"}
         /\ e.state = "intended" => Fenced(e).state = "proven_absent"
         /\ e.state # "intended" => Fenced(e).state # "proven_absent"
                                    \/ e.state = "proven_absent"
<1>. DEFINE x == CASE e.state = "intended"                              -> "proven_absent"
                   [] e.state \in {"dispatching", "observed", "ambiguous"} -> "ambiguous"
                   [] OTHER                                             -> e.state
<1>1. Fenced(e) = [e EXCEPT !.state = x]
  BY DEF Fenced
<1>2. /\ x \notin {"intended", "dispatching"}
      /\ e.state = "intended" => x = "proven_absent"
      /\ e.state # "intended" => x # "proven_absent" \/ e.state = "proven_absent"
  BY DEF EffRecords, EffStates
<1>. HIDE DEF x
<1>3. [e EXCEPT !.state = x].gen = e.gen /\ [e EXCEPT !.state = x].epoch = e.epoch
      /\ [e EXCEPT !.state = x].seen = e.seen /\ [e EXCEPT !.state = x].state = x
  BY DEF EffRecords
<1>. QED  BY <1>1, <1>2, <1>3

LEMMA FencedIsIdle ==
  ASSUME NEW q \in Stages
  PROVE  LET p == [q EXCEPT !.state = IF @ \in {"active", "passed", "failed"} THEN "cancelled"
                                      ELSE @,
                            !.current = FALSE, !.evidence = None, !.adopted = FALSE]
         IN  /\ p.tries = q.tries /\ p.state \notin {"active", "passed", "failed"}
             /\ p.current = FALSE /\ p.adopted = FALSE
<1>. DEFINE x == IF q.state \in {"active", "passed", "failed"} THEN "cancelled" ELSE q.state
            p == [q EXCEPT !.state = x, !.current = FALSE, !.evidence = None, !.adopted = FALSE]
<1>1. x \notin {"active", "passed", "failed"}
  OBVIOUS
<1>2. p.tries = q.tries /\ p.state = x /\ p.current = FALSE /\ p.adopted = FALSE
  <2>. HIDE DEF x
  <2>. QED  BY DEF Stages
<1>. QED  BY <1>1, <1>2

\* What the fence does to each item, stage, reservation, attempt and effect.
LEMMA RequestMoves ==
  ASSUME IInv, RequestCancellation
  PROVE  /\ cancel = "none" /\ cancel' = "open" /\ epoch' = epoch /\ lanes' = lanes /\ MayBeFenced
         /\ \A i \in Item : item'[i].current = "blocked" /\ item'[i].gen = item[i].gen + 1
                            /\ item'[i].cand = None
         /\ \A i \in Item, s \in Step :
              /\ stage'[i][s].tries = stage[i][s].tries
              /\ stage'[i][s].state \notin {"active", "passed", "failed"}
              /\ ~stage'[i][s].current /\ ~stage'[i][s].adopted
         /\ Live' = Live
         /\ \A i \in Live : /\ res'[i].state = "release_requested" /\ res'[i].gen = res[i].gen
                            /\ res'[i].epoch = res[i].epoch
         /\ DOMAIN att' = DOMAIN att
         /\ \A k \in DOMAIN att :
              /\ att'[k].gen = att[k].gen /\ att'[k].out = att[k].out
              /\ att'[k].bound = att[k].bound /\ att'[k].result = att[k].result
              /\ att'[k].state = IF IsOpen(k) THEN "cancelling" ELSE att[k].state
         /\ \A e \in DOMAIN eff : e \in DOMAIN eff' /\ eff'[e] = Fenced(eff[e])
         /\ \A e \in DOMAIN eff' \ DOMAIN eff :
              /\ e[1] = "cancel" /\ e[2] \in DOMAIN att
              /\ eff'[e] = [state |-> "intended", gen |-> item[e[2][1]].gen + 1, epoch |-> epoch,
                            seen |-> FALSE]
<1>1. /\ cancel = "none" /\ cancel' = "open" /\ MayBeFenced
      /\ item' = [i \in Item |->
           [desired |-> "cancel", current |-> "blocked", gen |-> item[i].gen + 1, cand |-> None]]
      /\ UNCHANGED <<epoch, accounts, world>>
  BY Zenon DEF RequestCancellation
<1>2. \A i \in Item : item'[i].current = "blocked" /\ item'[i].gen = item[i].gen + 1
                      /\ item'[i].cand = None
  BY <1>1
<1>3. \A i \in Item, s \in Step :
        /\ stage'[i][s].tries = stage[i][s].tries
        /\ stage'[i][s].state \notin {"active", "passed", "failed"}
        /\ ~stage'[i][s].current /\ ~stage'[i][s].adopted
  <2>. DEFINE p(q) == [q EXCEPT
                !.state = IF @ \in {"active", "passed", "failed"} THEN "cancelled" ELSE @,
                !.current = FALSE, !.evidence = None, !.adopted = FALSE]
  <2>1. stage' = [i \in Item |-> [s \in Step |-> p(stage[i][s])]]
    BY Zenon DEF RequestCancellation
  <2>2. \A i \in Item, s \in Step : stage[i][s] \in Stages
    BY DEF IInv, TypeInv, ItemsTyped
  <2>3. \A q \in Stages : /\ p(q).tries = q.tries
                          /\ p(q).state \notin {"active", "passed", "failed"}
                          /\ ~p(q).current /\ ~p(q).adopted
    BY FencedIsIdle
  <2>. HIDE DEF p
  <2>. QED  BY <2>1, <2>2, <2>3
<1>4. /\ DOMAIN att' = DOMAIN att
      /\ \A k \in DOMAIN att :
           /\ att'[k].gen = att[k].gen /\ att'[k].out = att[k].out
           /\ att'[k].bound = att[k].bound /\ att'[k].result = att[k].result
           /\ att'[k].state = IF IsOpen(k) THEN "cancelling" ELSE att[k].state
  <2>. DEFINE r(k) == [att[k] EXCEPT !.state = "cancelling"]
  <2>1. att' = [k \in DOMAIN att |-> IF IsOpen(k) THEN r(k) ELSE att[k]]
    BY Zenon DEF RequestCancellation
  <2>2. \A k \in DOMAIN att :
          /\ r(k).state = "cancelling" /\ r(k).bound = att[k].bound
          /\ r(k).gen = att[k].gen /\ r(k).out = att[k].out /\ r(k).result = att[k].result
    BY DEF IInv, TypeInv, AttTyped, AttRecords
  <2>. HIDE DEF r
  <2>. QED  BY <2>1, <2>2
<1>5. /\ \A e \in DOMAIN eff : e \in DOMAIN eff' /\ eff'[e] = Fenced(eff[e])
      /\ \A e \in DOMAIN eff' \ DOMAIN eff :
           /\ e[1] = "cancel" /\ e[2] \in DOMAIN att
           /\ eff'[e] = [state |-> "intended", gen |-> item[e[2][1]].gen + 1, epoch |-> epoch,
                         seen |-> FALSE]
  <2>. DEFINE bound == {k \in OpenAttempts : Owned(k[2]) /\ att[k].bound}
              C == {<<"cancel", k>> : k \in bound}
              c(e) == [state |-> "intended", gen |-> item[e[2][1]].gen + 1, epoch |-> epoch,
                       seen |-> FALSE]
  <2>1. eff' = [e \in DOMAIN eff \cup C |-> IF e \in DOMAIN eff THEN Fenced(eff[e]) ELSE c(e)]
    BY Zenon DEF RequestCancellation
  <2>2. \A e \in C : e[1] = "cancel" /\ e[2] \in DOMAIN att
    BY DEF OpenAttempts
  <2>. HIDE DEF C, c
  <2>3. DOMAIN eff' = DOMAIN eff \cup C
        /\ \A e \in DOMAIN eff' : eff'[e] = IF e \in DOMAIN eff THEN Fenced(eff[e]) ELSE c(e)
    BY <2>1
  <2>. QED  BY <2>2, <2>3 DEF c
<1>6. /\ Live' = Live
      /\ \A i \in Live : /\ res'[i].state = "release_requested" /\ res'[i].gen = res[i].gen
                         /\ res'[i].epoch = res[i].epoch
  <2>. DEFINE r(i) == [res[i] EXCEPT !.state = "release_requested"]
  <2>1. res' = [i \in Item |-> IF res[i] = None THEN None ELSE r(i)]
    BY Zenon DEF RequestCancellation
  <2>2. Live = {i \in Item : res[i] # None} /\ \A i \in Live : res[i] \in Reservations
    BY LiveTyped DEF IInv
  <2>3. \A i \in Live : r(i) \in Reservations /\ r(i).state = "release_requested"
                        /\ r(i).gen = res[i].gen /\ r(i).epoch = res[i].epoch
    BY <2>2 DEF Reservations, ResStates
  <2>. HIDE DEF r
  <2>4. \A i \in Live : r(i) # None
    BY <2>3, SomethingIsNotNone
  <2>5. DOMAIN res' = Item /\ \A i \in Item : res'[i] = IF i \in Live THEN r(i) ELSE None
    BY <2>1, <2>2
  <2>6. Live' = Live
    BY <2>2, <2>4, <2>5 DEF Live
  <2>. QED  BY <2>2, <2>3, <2>5, <2>6
<1>7. lanes' = lanes /\ epoch' = epoch
  BY <1>1 DEF accounts
<1>. QED  BY <1>1, <1>2, <1>3, <1>4, <1>5, <1>6, <1>7

LEMMA RequestSounds ==
  ASSUME IInv, TypeInv', Sound, RequestCancellation
  PROVE  Sound'
<1>1. SUFFICES ASSUME NEW i \in Item PROVE AllOf(i)'
  BY DEF Sound
<1>2. /\ cancel = "none" /\ cancel' = "open" /\ epoch' = epoch /\ lanes' = lanes /\ MayBeFenced
      /\ item'[i].current = "blocked" /\ item'[i].gen = item[i].gen + 1 /\ item'[i].cand = None
      /\ Live' = Live /\ DOMAIN att' = DOMAIN att
      /\ AllOf(i) /\ item[i].gen \in Nat
  BY RequestMoves DEF Sound, IInv, TypeInv, ItemsTyped, Items
<1>3. ASSUME i \in Live' PROVE ReservationAgrees(i)'
  <2>1. ReservationAgrees(i) /\ res[i].gen \in Nat /\ res[i].stage \in Step
    BY <1>2, <1>3, LiveTyped DEF AllOf, Reservations, IInv
  <2>2. /\ res'[i].state = "release_requested" /\ res'[i].gen = res[i].gen
        /\ res'[i].epoch = res[i].epoch
    BY <1>2, <1>3, RequestMoves
  <2>3. SUFFICES ASSUME NEW m, m = AttemptOf(i, res[i].stage) PROVE res[i].gen <= item[i].gen
    BY <1>2, <2>1, <2>2 DEF ReservationAgrees
  <2>4. CASE Codes(res[i].stage) /\ stage[i][res[i].stage].current /\ att[m].gen = res[i].gen
    <3>1. m \in DOMAIN att /\ m[1] = i
      BY <1>2, <2>1, <2>3, <2>4 DEF AllOf, StageSound, StageAgrees, AttemptOf
    <3>. QED  BY <1>2, <2>4, <3>1 DEF AllOf, AttemptSound
  <2>. QED  BY <1>2, <2>1, <2>3, <2>4 DEF ReservationAgrees
<1>4. ItemSound(i)' /\ InOrder(i)' /\ ReadyAgrees(i)'
  <2>1. \A s \in Step : ~stage'[i][s].current
    BY RequestMoves
  <2>2. CandidateAgrees(i)'
    BY <1>2 DEF CandidateAgrees
  <2>. QED  BY <1>2, <2>1, <2>2 DEF ItemSound, InOrder, ReadyAgrees
<1>5. ASSUME NEW s \in Step PROVE StageSound(i, s)'
  <2>1. /\ stage'[i][s].tries = stage[i][s].tries
        /\ stage'[i][s].state \notin {"active", "passed", "failed"}
        /\ ~stage'[i][s].current /\ ~stage'[i][s].adopted
    BY RequestMoves
  <2>. QED  BY <1>2, <2>1 DEF AllOf, StageSound, StageAgrees
<1>6. ASSUME NEW k \in DOMAIN att', k[1] = i PROVE Latest(k)' /\ AttemptSound(k)'
  <2>1. /\ k \in DOMAIN att /\ att'[k].gen = att[k].gen /\ att'[k].out = att[k].out
        /\ att'[k].bound = att[k].bound /\ att'[k].result = att[k].result
        /\ att'[k].state = IF IsOpen(k) THEN "cancelling" ELSE att[k].state
    BY <1>2, <1>6, RequestMoves
  <2>2. Latest(k) /\ AttemptSound(k) /\ k[2] \in Step /\ att[k].gen \in Nat
        /\ (IsOpen(k) => k[1] \in Live)
    BY <1>2, <1>6, <2>1, OfAttempt, LiveTyped DEF AllOf, AttRecords, IInv, OpenHolds, Holds
  <2>3. IsOpen(k)' => IsOpen(k)
    BY <2>1 DEF IsOpen
  <2>4. Latest(k)'
    BY <1>6, <2>1, <2>2, <2>3, RequestMoves DEF Latest, StageOf
  <2>5. ASSUME ~att[k].bound, Owned(k[2]), IsOpen(k)
        PROVE  EffectIn("launch", k, {"ambiguous"})'
    <3>1. EffectIn("launch", k, {"dispatching", "ambiguous"})
      BY <1>2, <2>1, <2>2, <2>5 DEF AttemptSound, MayBeFenced, OpenAttempts, IsOpen, EffectIn
    <3>2. eff[<<"launch", k>>] \in EffRecords
      BY <3>1 DEF EffectIn, HasEffect, IInv, TypeInv, EffTyped
    <3>. QED  BY <3>1, <3>2, FencedEffect, RequestMoves DEF EffectIn, HasEffect
  <2>6. IsOpen(k) <=> att[k].state \notin {"sealed", "failed", "cancelled"}
    BY <2>1 DEF IsOpen
  <2>7. AttemptSound(k)'
    <3>1. att[k].gen <= item'[i].gen
      BY <1>2, <1>6, <2>2 DEF AttemptSound
    <3>. QED  BY <1>2, <1>6, <2>1, <2>2, <2>5, <2>6, <3>1 DEF AttemptSound
  <2>. QED  BY <2>4, <2>7
<1>7. ASSUME NEW e \in DOMAIN eff', e[2][1] = i PROVE EffectSound(e)'
  <2>1. CASE e \in DOMAIN eff
    <3>1. EffectSound(e) /\ eff[e] \in EffRecords /\ e[2] \in DOMAIN att
      BY <1>2, <1>7, <2>1 DEF AllOf, IInv, TypeInv, EffTyped
    <3>2. SUFFICES ASSUME NEW k \in DOMAIN att, k = e[2] PROVE EffectSound(e)'
      BY <3>1
    <3>3. /\ att'[k].gen = att[k].gen /\ att'[k].out = att[k].out
          /\ att'[k].bound = att[k].bound /\ att'[k].result = att[k].result
          /\ Output(k)' = Output(k)
      BY RequestMoves DEF Output
    <3>4. IsOpen(k)' <=> IsOpen(k)
      BY RequestMoves DEF IsOpen
    <3>5. eff'[e] = Fenced(eff[e])
      BY <2>1, RequestMoves
    <3>6. /\ eff'[e].gen = eff[e].gen /\ eff'[e].epoch = eff[e].epoch /\ eff'[e].seen = eff[e].seen
          /\ eff'[e].state \notin {"intended", "dispatching"}
          /\ eff[e].state = "intended" => eff'[e].state = "proven_absent"
          /\ eff[e].state # "intended" => eff'[e].state # "proven_absent"
                                          \/ eff[e].state = "proven_absent"
          /\ eff[e].state = "proven_absent" => eff'[e].state = "proven_absent"
      BY <3>1, <3>5, FencedFields DEF Fenced, EffRecords
    <3>7. e[1] = "procedure" => eff[e].state # "dispatching"
      BY <1>2, <2>1 DEF MayBeFenced
    <3>. QED  BY <1>2, <3>1, <3>2, <3>3, <3>4, <3>6, <3>7 DEF EffectSound, EffectAgrees
  <2>2. CASE e \notin DOMAIN eff
    <3>1. /\ e[1] = "cancel"
          /\ eff'[e] = [state |-> "intended", gen |-> item[e[2][1]].gen + 1, epoch |-> epoch,
                        seen |-> FALSE]
      BY <1>7, <2>2, RequestMoves
    <3>2. epoch \in Nat
      BY DEF IInv, TypeInv, RunTyped
    <3>. QED  BY <1>2, <1>7, <3>1, <3>2 DEF EffectSound, EffectAgrees
  <2>. QED  BY <2>1, <2>2
<1>. QED  BY <1>3, <1>4, <1>5, <1>6, <1>7 DEF AllOf

LEMMA CloseMoves ==
  ASSUME IInv, TypeInv', CloseCancellation
  PROVE  /\ cancel = "open" /\ cancel' = "closed" /\ epoch' = epoch /\ stage' = stage
         /\ Live' = {} /\ DOMAIN att' = DOMAIN att /\ DOMAIN eff' = DOMAIN eff
         /\ \A i \in Item : item'[i].current = "cancelled" /\ item'[i].gen = item[i].gen
                            /\ item'[i].cand = None
         /\ \A k \in DOMAIN att :
              /\ att'[k].gen = att[k].gen /\ att'[k].out = att[k].out
              /\ att'[k].bound = att[k].bound
              /\ IF IsOpen(k)
                 THEN att'[k].state = "cancelled"
                      /\ (~att[k].bound => att'[k].result = att[k].result)
                 ELSE att'[k] = att[k]
         /\ \A e \in DOMAIN eff :
              /\ Explained(e) /\ eff'[e].gen = eff[e].gen
              /\ eff'[e].epoch = eff[e].epoch /\ eff'[e].seen = eff[e].seen
              /\ eff'[e].state = IF Settled(e) THEN eff[e].state ELSE "reconciled"
<1>1. /\ cancel = "open" /\ cancel' = "closed" /\ Release(Item)
      /\ item' = [i \in Item |-> [item[i] EXCEPT !.current = "cancelled"]]
      /\ UNCHANGED <<epoch, stage>>
      /\ \A e \in DOMAIN eff : Explained(e)
  BY Zenon DEF CloseCancellation
<1>2. \A i \in Item : item'[i].current = "cancelled" /\ item'[i].gen = item[i].gen
                      /\ item'[i].cand = None
  <2>1. \A i \in Item : /\ [item[i] EXCEPT !.current = "cancelled"].current = "cancelled"
                        /\ [item[i] EXCEPT !.current = "cancelled"].gen = item[i].gen
                        /\ [item[i] EXCEPT !.current = "cancelled"].cand = item[i].cand
    BY DEF IInv, TypeInv, ItemsTyped, Items
  <2>2. \A i \in Item : item[i].cand = None
    BY <1>1 DEF IInv, Fence
  <2>. QED  BY <1>1, <2>1, <2>2
<1>3. /\ DOMAIN att' = DOMAIN att
      /\ \A k \in DOMAIN att :
           /\ att'[k].gen = att[k].gen /\ att'[k].out = att[k].out
           /\ att'[k].bound = att[k].bound
           /\ IF IsOpen(k)
              THEN att'[k].state = "cancelled" /\ (~att[k].bound => att'[k].result = att[k].result)
              ELSE att'[k] = att[k]
  <2>. DEFINE x(k) == IF att[k].bound /\ worker[k] = "cancelled" THEN "cancelled"
                      ELSE att[k].result
              r(k) == [att[k] EXCEPT !.state = "cancelled", !.result = x(k)]
  <2>1. att' = [k \in DOMAIN att |-> IF ~IsOpen(k) THEN att[k] ELSE r(k)]
    BY Zenon DEF CloseCancellation
  <2>2. \A k \in DOMAIN att : att[k] \in AttRecords /\ (~att[k].bound => x(k) = att[k].result)
    BY DEF IInv, TypeInv, AttTyped
  <2>. HIDE DEF x
  <2>3. \A k \in DOMAIN att : /\ r(k).state = "cancelled" /\ r(k).bound = att[k].bound
                              /\ r(k).gen = att[k].gen /\ r(k).out = att[k].out
                              /\ r(k).result = x(k)
    BY <2>2 DEF AttRecords
  <2>. HIDE DEF r
  <2>. QED  BY <2>1, <2>2, <2>3
<1>4. /\ DOMAIN eff' = DOMAIN eff
      /\ \A e \in DOMAIN eff :
           /\ eff'[e].gen = eff[e].gen /\ eff'[e].epoch = eff[e].epoch
           /\ eff'[e].seen = eff[e].seen
           /\ eff'[e].state = IF Settled(e) THEN eff[e].state ELSE "reconciled"
  <2>. DEFINE r(e) == [eff[e] EXCEPT !.state = "reconciled"]
  <2>1. eff' = [e \in DOMAIN eff |-> IF Settled(e) THEN eff[e] ELSE r(e)]
    BY Zenon DEF CloseCancellation
  <2>2. \A e \in DOMAIN eff : /\ r(e).state = "reconciled" /\ r(e).gen = eff[e].gen
                              /\ r(e).epoch = eff[e].epoch /\ r(e).seen = eff[e].seen
    BY DEF IInv, TypeInv, EffTyped, EffRecords
  <2>. HIDE DEF r
  <2>. QED  BY <2>1, <2>2
<1>5. Live' = {}
  <2>1. \A i \in Item : res'[i] = None
    BY <1>1 DEF Release, IInv, TypeInv, AccountsTyped
  <2>. QED  BY <2>1, LiveTyped DEF TypeInv, AccountsTyped, Live
<1>. QED  BY <1>1, <1>2, <1>3, <1>4, <1>5

LEMMA CloseSounds ==
  ASSUME IInv, TypeInv', Sound, CloseCancellation
  PROVE  Sound'
<1>1. SUFFICES ASSUME NEW i \in Item PROVE AllOf(i)'
  BY DEF Sound
<1>2. /\ cancel = "open" /\ cancel' = "closed" /\ epoch' = epoch /\ stage' = stage
      /\ Live' = {} /\ DOMAIN att' = DOMAIN att /\ DOMAIN eff' = DOMAIN eff
      /\ item'[i].current = "cancelled" /\ item'[i].gen = item[i].gen /\ item'[i].cand = None
      /\ AllOf(i)
  BY CloseMoves DEF Sound
<1>3. \A s \in Step : ~stage[i][s].current
  BY <1>2 DEF AllOf, ItemSound
<1>4. ItemSound(i)' /\ InOrder(i)' /\ ReadyAgrees(i)'
  <2>1. CandidateAgrees(i)'
    BY <1>2 DEF CandidateAgrees
  <2>. QED  BY <1>2, <1>3, <2>1 DEF ItemSound, InOrder, ReadyAgrees
<1>5. ASSUME NEW s \in Step PROVE StageSound(i, s)'
  BY <1>2, <1>3 DEF AllOf, StageSound, StageAgrees
<1>6. ASSUME NEW k \in DOMAIN att', k[1] = i
      PROVE  Latest(k)' /\ AttemptSound(k)' /\ ~IsOpen(k)'
  <2>1. /\ k \in DOMAIN att /\ att'[k].gen = att[k].gen /\ att'[k].out = att[k].out
        /\ att'[k].bound = att[k].bound
        /\ IF IsOpen(k)
           THEN att'[k].state = "cancelled" /\ (~att[k].bound => att'[k].result = att[k].result)
           ELSE att'[k] = att[k]
    BY <1>2, <1>6, CloseMoves
  <2>2. AttemptSound(k)
    BY <1>2, <1>6, <2>1 DEF AllOf
  <2>3. ~IsOpen(k)'
    BY <2>1 DEF IsOpen
  <2>4. att'[k].state \notin {"cancelling", "launching"}
    BY <1>6, <2>3 DEF IsOpen
  <2>5. AttemptSound(k)'
    BY <1>2, <1>6, <2>1, <2>2, <2>4 DEF AttemptSound
  <2>. QED  BY <2>3, <2>5 DEF Latest
<1>7. ASSUME NEW e \in DOMAIN eff', e[2][1] = i PROVE EffectSound(e)'
  <2>1. EffectSound(e) /\ e \in DOMAIN eff /\ e[2] \in DOMAIN att
    BY <1>2, <1>7 DEF AllOf, IInv, TypeInv, EffTyped
  <2>2. SUFFICES ASSUME NEW k \in DOMAIN att, k = e[2] PROVE EffectSound(e)'
    BY <2>1
  <2>3. /\ Output(k)' = Output(k) /\ att'[k].bound = att[k].bound
        /\ (~IsOpen(k) => att'[k].result = att[k].result)
    BY CloseMoves DEF Output
  <2>4. ~IsOpen(k)'
    BY <1>2, <1>6, <1>7, <2>2
  <2>5. /\ Explained(e) /\ eff'[e].gen = eff[e].gen
        /\ eff'[e].epoch = eff[e].epoch /\ eff'[e].seen = eff[e].seen
        /\ eff'[e].state = IF Settled(e) THEN eff[e].state ELSE "reconciled"
    BY <2>1, CloseMoves
  <2>. QED  BY <1>2, <2>1, <2>2, <2>3, <2>4, <2>5
            DEF EffectSound, EffectAgrees, Explained, Settled
<1>. QED  BY <1>2, <1>3, <1>4, <1>5, <1>6, <1>7 DEF AllOf

LEMMA StepKeepsSound == IInv /\ Sound /\ [Next]_vars => Sound'
<1>. SUFFICES ASSUME IInv, Sound, [Next]_vars PROVE Sound'
  OBVIOUS
<1>0. TypeInv'
  BY StepKeepsInv DEF IInv
<1>1. ASSUME NEW i \in Item, Reserve(i) \/ Activate(i) \/ Begin(i) \/ Retry(i) PROVE Sound'
  BY <1>0, <1>1, ReserveSounds, ActivateSounds, BeginSounds, RetrySounds
<1>2. ASSUME NEW k \in DOMAIN att,
             Dispatch(k) \/ Bind(k) \/ RecordResult(k)
               \/ PutProcedure(k) \/ MarkProcedure(k) \/ RecordExecution(k) \/ RecordProcedure(k)
               \/ PutCleanup(k) \/ MarkCleanup(k) \/ RecordCleanup(k) \/ MarkCancel(k)
      PROVE  Sound'
  BY <1>0, <1>2, DispatchSounds, BindSounds, ResultSounds, ProcedureSounds, CleanupSounds
<1>3. ASSUME NEW k \in DOMAIN att,
             \E kind \in {"first", "adoption", "invalidation"} : RecordCandidate(k, kind)
      PROVE  Sound'
  BY <1>0, <1>3, FirstSounds, AdoptionSounds, InvalidationSounds
<1>4. ASSUME NEW k \in DOMAIN att, \E verdict \in {"passed", "failed"} : Seal(k, verdict)
      PROVE  Sound'
  BY <1>0, <1>4, SealSounds
<1>5. ASSUME \/ Pause \/ Resume \/ UNCHANGED vars
             \/ \E k \in DOMAIN att :
                  \/ Recover(k) \/ WorkerStarts(k) \/ Execute(k) \/ CallCleanup(k)
                  \/ CancelWorker(k)
                  \/ \E status \in {"succeeded", "failed"} : WorkerEnds(k, status)
      PROVE  Sound'
  BY <1>0, <1>5, WorldSounds
<1>6. CASE RequestCancellation \/ CloseCancellation \/ Reattach
  BY <1>0, <1>6, RequestSounds, CloseSounds, ReattachSounds
<1>. QED  BY <1>1, <1>2, <1>3, <1>4, <1>5, <1>6 DEF Next

\* Whatever sequence of commands a run goes through, the snapshot each of them leads to passes
\* the audit of its seal: reservations, lanes, stages, verdicts, candidates, attempts and
\* effects agree (validateRunSemantics(), sealDagRunStateV1()), so no command is refused by the
\* seal but those whose guards say so.
THEOREM EverySnapshotPassesTheAudit == Spec => []Audit
<1>1. Spec => [](IInv /\ Sound)
  BY InitInv, InitSound, StepKeepsInv, StepKeepsSound, PTL DEF Spec
<1>. QED  BY <1>1, SoundPassesAudit, PTL
-----------------------------------------------------------------------------
(***************************************************************************)
(* The owners of the run: calls that write, recoveries and readers.        *)
(***************************************************************************)

Snapshots == [owner : Proc \cup {Nobody}, log : Seq(Proc)]
Proofs == [stale : Proc, at : Times]
HasOwner == state # Nobody /\ state.owner # Nobody

\* The steps of a call that writes, of those that hold the conductor lock, and of a recovery.
WriteSteps == {"loaded", "archived", "written", "releasing"}
CallSteps == {"preparing", "clearing", "entering", "publishing", "published", "held"}
Holding == {"published", "held"} \cup WriteSteps
Recovering == {"recovering", "intended", "cleared", "attaching", "settling", "unlocking"}
RecoverySteps == {"locking", "judged", "relocking"} \cup Recovering
Under(p) == pc[p] # "idle"

SnapshotTypes ==
  /\ state \in Snapshots \cup {Nobody} /\ archives \subseteq Snapshots
  /\ lock \in Proc \cup {Nobody} /\ recovery \in Proc \cup {Nobody}
  /\ intent \in Proofs \cup {Nobody} /\ dead \subseteq Proc
  /\ pc \in [Proc -> {"idle"} \cup CallSteps \cup WriteSteps \cup RecoverySteps]
  /\ DOMAIN op = Proc /\ DOMAIN mem = Proc /\ DOMAIN proof = Proc /\ DOMAIN judged = Proc

\* What a process p knows at the step that it has come to.
Knows(p) ==
  /\ Under(p) => p \notin dead
  /\ pc[p] \in CallSteps => op[p] \in {"initialize", "attach", "mutate"}
  /\ pc[p] \in WriteSteps => op[p] \in {"initialize", "attach", "mutate", "recover"}
  /\ pc[p] \in {"preparing", "clearing"} => op[p] = "initialize"
  /\ pc[p] \in RecoverySteps => op[p] = "recover"
  /\ Under(p) /\ op[p] = "mutate" => state # Nobody
  /\ Under(p) /\ op[p] = "recover" =>
       /\ HasOwner /\ proof[p] \in Proofs /\ proof[p].stale \in dead
       /\ mem[p] \in Snapshots /\ mem[p].owner = proof[p].stale

\* One recovery at a time gets past its lock: whoever put a dead one's lock aside left a mark.
RecoveryInv ==
  \A p \in Proc :
    /\ pc[p] = "judged" =>
         judged[p] \in dead /\ (recovery = judged[p] \/ <<"recovery", judged[p]>> \in quarantine)
    /\ Under(p) /\ op[p] = "recover" /\ pc[p] \in Recovering \cup WriteSteps => recovery = p

\* As long as the run has no owner, the conductor lock is what its holder thinks.
StartInv ==
  ~ HasOwner => \A p \in Proc :
    /\ pc[p] = "clearing" => /\ judged[p] \in dead
                             /\ \/ lock = judged[p]
                                \/ <<"initialization", judged[p]>> \in quarantine
    /\ pc[p] \in Holding => lock = p

\* Who writes has read the snapshot that is there, and may replace it.
MayWrite(p) ==
  /\ op[p] = "initialize" => state = Nobody
  /\ op[p] = "attach" => state # Nobody /\ state.owner = Nobody
  /\ op[p] = "mutate" => state # Nobody /\ state.owner = p
  /\ op[p] = "recover" => state # Nobody /\ state.owner \in dead

WritersInv ==
  \A p \in Proc :
    /\ pc[p] \in {"loaded", "archived"} => mem[p] = state /\ MayWrite(p)
    /\ pc[p] = "archived" => /\ Owner!Outcome(p) \in archives
                             /\ op[p] # "initialize" => mem[p] \in archives
    /\ pc[p] = "written" /\ op[p] # "initialize" =>
         /\ mem[p] \in Snapshots /\ mem[p] \in archives /\ state = Owner!Written(mem[p], p)

\* The snapshot has its archives.
ReaderInv ==
  /\ state # Nobody => Owner!Backed(state)
  /\ reader.at \in {"idle", "read", "done"} /\ reader.tries \in 0..3
  /\ DOMAIN reader = {"at", "raw", "tries"}
  /\ reader.at = "read" => reader.raw # Nobody /\ state # Nobody

OwnerInv == SnapshotTypes /\ (\A p \in Proc : Knows(p)) /\ RecoveryInv /\ StartInv /\ WritersInv
            /\ ReaderInv

LEMMA EntersKeep ==
  ASSUME OwnerInv, NEW p \in Proc, Owner!Prepare(p) \/ Owner!Enter(p) \/ Owner!Publish(p)
         \/ Owner!PublishFails(p) \/ Owner!Recheck(p)
  PROVE  OwnerInv'
<1>1. ReaderInv'
  BY DEF ReaderInv, Owner!Backed, OwnerInv, Owner!files, Owner!Prepare, Owner!Enter,
       Owner!Publish, Owner!PublishFails, Owner!Recheck, Owner!FoundDead
<1> USE NobodyAssumption DEF OwnerInv, SnapshotTypes, Knows, Owner!Go, Owner!Forget,
     Owner!files, Owner!locks, Owner!local, Under, CallSteps, WriteSteps, RecoverySteps,
     Recovering, Holding, Owner!Prepare, Owner!Enter, Owner!Publish, Owner!PublishFails,
     Owner!Recheck, Owner!FoundDead
<1>2. SnapshotTypes'
  BY DEF WritersInv, Snapshots, Proofs, Owner!Outcome, Owner!Written, Owner!Genesis
<1>3. ASSUME NEW q \in Proc PROVE Knows(q)'
  BY DEF WritersInv, MayWrite, HasOwner, Owner!Outcome, Owner!Written, Owner!Genesis,
       Snapshots, Proofs
<1>4. RecoveryInv'
  <2> SUFFICES ASSUME NEW q \in Proc PROVE RecoveryInv!(q)'
    BY DEF RecoveryInv
  <2> QED BY DEF RecoveryInv
<1>5. StartInv'
  BY DEF StartInv, WritersInv, MayWrite, HasOwner, Owner!Outcome, Owner!Written, Owner!Genesis
<1>6. WritersInv'
  <2> SUFFICES ASSUME NEW q \in Proc PROVE WritersInv!(q)'
    BY DEF WritersInv
  <2> QED BY DEF RecoveryInv, StartInv, WritersInv, MayWrite, HasOwner, Owner!Outcome,
       Owner!Written, Owner!Genesis
<1> QED BY <1>1, <1>2, <1>3, <1>4, <1>5, <1>6

LEMMA IntentKeeps ==
  ASSUME OwnerInv, NEW p \in Proc, Owner!ResumeIntent(p) \/ Owner!PublishIntent(p)
         \/ Owner!RemoveIntent(p) \/ Owner!UnlockRecovery(p)
  PROVE  OwnerInv'
<1>1. ReaderInv'
  BY DEF ReaderInv, Owner!Backed, OwnerInv, Owner!files, Owner!ResumeIntent,
       Owner!PublishIntent, Owner!RemoveIntent, Owner!UnlockRecovery, Owner!Stale
<1> USE NobodyAssumption DEF OwnerInv, SnapshotTypes, Knows, Owner!Go, Owner!Forget,
     Owner!files, Owner!locks, Owner!local, Under, CallSteps, WriteSteps, RecoverySteps,
     Recovering, Holding, Owner!ResumeIntent, Owner!PublishIntent, Owner!RemoveIntent,
     Owner!UnlockRecovery, Owner!Stale
<1>2. SnapshotTypes'
  BY DEF WritersInv, Snapshots, Proofs, Owner!Outcome, Owner!Written, Owner!Genesis
<1>3. ASSUME NEW q \in Proc PROVE Knows(q)'
  BY DEF WritersInv, MayWrite, HasOwner, Owner!Outcome, Owner!Written, Owner!Genesis,
       Snapshots, Proofs
<1>4. RecoveryInv'
  <2> SUFFICES ASSUME NEW q \in Proc PROVE RecoveryInv!(q)'
    BY DEF RecoveryInv
  <2> QED BY DEF RecoveryInv
<1>5. StartInv'
  BY DEF StartInv, WritersInv, MayWrite, HasOwner, Owner!Outcome, Owner!Written, Owner!Genesis
<1>6. WritersInv'
  <2> SUFFICES ASSUME NEW q \in Proc PROVE WritersInv!(q)'
    BY DEF WritersInv
  <2> QED BY DEF RecoveryInv, StartInv, WritersInv, MayWrite, HasOwner, Owner!Outcome,
       Owner!Written, Owner!Genesis
<1> QED BY <1>1, <1>2, <1>3, <1>4, <1>5, <1>6

LEMMA QuarantineKeeps ==
  ASSUME OwnerInv, NEW p \in Proc, Owner!QuarantineLock(p) \/ Owner!Replace(p)
  PROVE  OwnerInv'
<1>1. ReaderInv'
  BY DEF ReaderInv, Owner!Backed, OwnerInv, Owner!files, Owner!QuarantineLock, Owner!Replace,
       Owner!Stale, Owner!Stays, Owner!LockKind, Owner!FoundDead
<1> USE NobodyAssumption DEF OwnerInv, SnapshotTypes, Knows, Owner!Go, Owner!Forget,
     Owner!files, Owner!locks, Owner!local, Under, CallSteps, WriteSteps, RecoverySteps,
     Recovering, Holding, Owner!QuarantineLock, Owner!Replace, Owner!Stale, Owner!Stays,
     Owner!LockKind, Owner!FoundDead
<1>2. SnapshotTypes'
  BY DEF WritersInv, Snapshots, Proofs, Owner!Outcome, Owner!Written, Owner!Genesis
<1>3. ASSUME NEW q \in Proc PROVE Knows(q)'
  BY DEF WritersInv, MayWrite, HasOwner, Owner!Outcome, Owner!Written, Owner!Genesis,
       Snapshots, Proofs
<1>4. RecoveryInv'
  <2> SUFFICES ASSUME NEW q \in Proc PROVE RecoveryInv!(q)'
    BY DEF RecoveryInv
  <2> QED BY DEF RecoveryInv
<1>5. StartInv'
  BY DEF StartInv, WritersInv, MayWrite, HasOwner, Owner!Outcome, Owner!Written, Owner!Genesis
<1>6. WritersInv'
  <2> SUFFICES ASSUME NEW q \in Proc PROVE WritersInv!(q)'
    BY DEF WritersInv
  <2> QED BY DEF RecoveryInv, StartInv, WritersInv, MayWrite, HasOwner, Owner!Outcome,
       Owner!Written, Owner!Genesis
<1> QED BY <1>1, <1>2, <1>3, <1>4, <1>5, <1>6

LEMMA AttachKeeps ==
  ASSUME OwnerInv, NEW p \in Proc, Owner!Attach(p) \/ Owner!ReleaseReplacement(p)
  PROVE  OwnerInv'
<1>1. ReaderInv'
  BY DEF ReaderInv, Owner!Backed, OwnerInv, Owner!files, Owner!Attach,
       Owner!ReleaseReplacement, Owner!Attached
<1> USE NobodyAssumption DEF OwnerInv, SnapshotTypes, Knows, Owner!Go, Owner!Forget,
     Owner!files, Owner!locks, Owner!local, Under, CallSteps, WriteSteps, RecoverySteps,
     Recovering, Holding, Owner!Attach, Owner!ReleaseReplacement, Owner!Attached
<1>2. SnapshotTypes'
  BY DEF WritersInv, Snapshots, Proofs, Owner!Outcome, Owner!Written, Owner!Genesis
<1>3. ASSUME NEW q \in Proc PROVE Knows(q)'
  BY DEF WritersInv, MayWrite, HasOwner, Owner!Outcome, Owner!Written, Owner!Genesis,
       Snapshots, Proofs
<1>4. RecoveryInv'
  <2> SUFFICES ASSUME NEW q \in Proc PROVE RecoveryInv!(q)'
    BY DEF RecoveryInv
  <2> QED BY DEF RecoveryInv
<1>5. StartInv'
  BY DEF StartInv, WritersInv, MayWrite, HasOwner, Owner!Outcome, Owner!Written, Owner!Genesis
<1>6. WritersInv'
  <2> SUFFICES ASSUME NEW q \in Proc PROVE WritersInv!(q)'
    BY DEF WritersInv
  <2> QED BY DEF RecoveryInv, StartInv, WritersInv, MayWrite, HasOwner, Owner!Outcome,
       Owner!Written, Owner!Genesis
<1> QED BY <1>1, <1>2, <1>3, <1>4, <1>5, <1>6

LEMMA ReleasesKeep ==
  ASSUME OwnerInv, NEW p \in Proc, Owner!ClearInitializationLock(p) \/ Owner!Release(p)
  PROVE  OwnerInv'
<1>1. ReaderInv'
  BY DEF ReaderInv, Owner!Backed, OwnerInv, Owner!files, Owner!ClearInitializationLock,
       Owner!Release, Owner!SetAside
<1> USE NobodyAssumption DEF OwnerInv, SnapshotTypes, Knows, Owner!Go, Owner!Forget,
     Owner!files, Owner!locks, Owner!local, Under, CallSteps, WriteSteps, RecoverySteps,
     Recovering, Holding, Owner!ClearInitializationLock, Owner!Release, Owner!SetAside
<1>2. SnapshotTypes'
  BY DEF WritersInv, Snapshots, Proofs, Owner!Outcome, Owner!Written, Owner!Genesis
<1>3. ASSUME NEW q \in Proc PROVE Knows(q)'
  BY DEF WritersInv, MayWrite, HasOwner, Owner!Outcome, Owner!Written, Owner!Genesis,
       Snapshots, Proofs
<1>4. RecoveryInv'
  <2> SUFFICES ASSUME NEW q \in Proc PROVE RecoveryInv!(q)'
    BY DEF RecoveryInv
  <2> QED BY DEF RecoveryInv
<1>5. StartInv'
  BY DEF StartInv, WritersInv, MayWrite, HasOwner, Owner!Outcome, Owner!Written, Owner!Genesis
<1>6. WritersInv'
  <2> SUFFICES ASSUME NEW q \in Proc PROVE WritersInv!(q)'
    BY DEF WritersInv
  <2> QED BY DEF RecoveryInv, StartInv, WritersInv, MayWrite, HasOwner, Owner!Outcome,
       Owner!Written, Owner!Genesis
<1> QED BY <1>1, <1>2, <1>3, <1>4, <1>5, <1>6

LEMMA RecoveryLockKeeps ==
  ASSUME OwnerInv, NEW p \in Proc, Owner!LockRecovery(p) \/ Owner!ClearRecoveryLock(p)
         \/ Owner!RelockRecovery(p)
  PROVE  OwnerInv'
<1>1. ReaderInv'
  BY DEF ReaderInv, Owner!Backed, OwnerInv, Owner!files, Owner!LockRecovery,
       Owner!ClearRecoveryLock, Owner!RelockRecovery, Owner!FoundDead, Owner!SetAside
<1> USE NobodyAssumption DEF OwnerInv, SnapshotTypes, Knows, Owner!Go, Owner!Forget,
     Owner!files, Owner!locks, Owner!local, Under, CallSteps, WriteSteps, RecoverySteps,
     Recovering, Holding, Owner!LockRecovery, Owner!ClearRecoveryLock, Owner!RelockRecovery,
     Owner!FoundDead, Owner!SetAside
<1>2. SnapshotTypes'
  BY DEF WritersInv, Snapshots, Proofs, Owner!Outcome, Owner!Written, Owner!Genesis
<1>3. ASSUME NEW q \in Proc PROVE Knows(q)'
  BY DEF WritersInv, MayWrite, HasOwner, Owner!Outcome, Owner!Written, Owner!Genesis,
       Snapshots, Proofs
<1>4. RecoveryInv'
  <2> SUFFICES ASSUME NEW q \in Proc PROVE RecoveryInv!(q)'
    BY DEF RecoveryInv
  <2> QED BY DEF RecoveryInv
<1>5. StartInv'
  BY DEF StartInv, WritersInv, MayWrite, HasOwner, Owner!Outcome, Owner!Written, Owner!Genesis
<1>6. WritersInv'
  <2> SUFFICES ASSUME NEW q \in Proc PROVE WritersInv!(q)'
    BY DEF WritersInv
  <2> QED BY DEF RecoveryInv, StartInv, WritersInv, MayWrite, HasOwner, Owner!Outcome,
       Owner!Written, Owner!Genesis
<1> QED BY <1>1, <1>2, <1>3, <1>4, <1>5, <1>6

LEMMA LoadKeeps ==
  ASSUME OwnerInv, NEW p \in Proc, Owner!Load(p)
  PROVE  OwnerInv'
<1>1. ReaderInv'
  BY DEF ReaderInv, Owner!Backed, OwnerInv, Owner!files, Owner!Load, Owner!Accepts
<1> USE NobodyAssumption DEF OwnerInv, SnapshotTypes, Knows, Owner!Go, Owner!Forget,
     Owner!files, Owner!locks, Owner!local, Under, CallSteps, WriteSteps, RecoverySteps,
     Recovering, Holding, Owner!Load, Owner!Accepts
<1>2. SnapshotTypes'
  BY DEF WritersInv, Snapshots, Proofs, Owner!Outcome, Owner!Written, Owner!Genesis
<1>3. ASSUME NEW q \in Proc PROVE Knows(q)'
  BY DEF WritersInv, MayWrite, HasOwner, Owner!Outcome, Owner!Written, Owner!Genesis,
       Snapshots, Proofs
<1>4. RecoveryInv'
  <2> SUFFICES ASSUME NEW q \in Proc PROVE RecoveryInv!(q)'
    BY DEF RecoveryInv
  <2> QED BY DEF RecoveryInv
<1>5. StartInv'
  BY DEF StartInv, WritersInv, MayWrite, HasOwner, Owner!Outcome, Owner!Written, Owner!Genesis
<1>6. WritersInv'
  <2> SUFFICES ASSUME NEW q \in Proc PROVE WritersInv!(q)'
    BY DEF WritersInv
  <2>1. CASE q = p
    <3>1. pc'[p] \notin {"archived", "written"}
      OBVIOUS
    <3>2. ASSUME pc'[p] = "loaded" PROVE mem'[p] = state /\ MayWrite(p)
      <4>1. /\ mem'[p] = state /\ Owner!Accepts(p)
            /\ op[p] \in {"initialize", "attach", "mutate"}
            /\ op[p] = "mutate" => state # Nobody
        BY <3>2
      <4> HIDE DEF OwnerInv, SnapshotTypes, Knows, Owner!Load
      <4> QED BY <4>1 DEF MayWrite
    <3>3. MayWrite(p)' <=> MayWrite(p)
      BY DEF MayWrite
    <3> QED BY <2>1, <3>1, <3>2, <3>3 DEF WritersInv
  <2>2. CASE q # p
    BY <2>2 DEF WritersInv, MayWrite, Owner!Outcome, Owner!Written, Owner!Genesis
  <2> QED BY <2>1, <2>2
<1> QED BY <1>1, <1>2, <1>3, <1>4, <1>5, <1>6

LEMMA DiesKeeps ==
  ASSUME OwnerInv, NEW p \in Proc, Owner!Dies(p)
  PROVE  OwnerInv'
<1>1. ReaderInv'
  BY DEF ReaderInv, Owner!Backed, OwnerInv, Owner!files, Owner!Dies
<1> USE NobodyAssumption DEF OwnerInv, SnapshotTypes, Knows, Owner!Go, Owner!Forget,
     Owner!files, Owner!locks, Owner!local, Under, CallSteps, WriteSteps, RecoverySteps,
     Recovering, Holding, Owner!Dies
<1>2. SnapshotTypes'
  BY DEF WritersInv, Snapshots, Proofs, Owner!Outcome, Owner!Written, Owner!Genesis
<1>3. ASSUME NEW q \in Proc PROVE Knows(q)'
  BY DEF WritersInv, MayWrite, HasOwner, Owner!Outcome, Owner!Written, Owner!Genesis,
       Snapshots, Proofs
<1>4. RecoveryInv'
  <2> SUFFICES ASSUME NEW q \in Proc PROVE RecoveryInv!(q)'
    BY DEF RecoveryInv
  <2> QED BY DEF RecoveryInv
<1>5. StartInv'
  BY DEF StartInv, WritersInv, MayWrite, HasOwner, Owner!Outcome, Owner!Written, Owner!Genesis
<1>6. WritersInv'
  <2> SUFFICES ASSUME NEW q \in Proc PROVE WritersInv!(q)'
    BY DEF WritersInv
  <2> QED BY DEF RecoveryInv, StartInv, WritersInv, MayWrite, HasOwner, Owner!Outcome,
       Owner!Written, Owner!Genesis
<1> QED BY <1>1, <1>2, <1>3, <1>4, <1>5, <1>6

LEMMA CallsBeginKeep ==
  ASSUME OwnerInv, NEW p \in Proc,
         \/ \E c \in {"initialize", "attach", "mutate"} : Owner!Begin(p, c)
         \/ \E at \in Times : Owner!Prove(p, at)
  PROVE  OwnerInv'
<1>1. ReaderInv'
  BY DEF ReaderInv, Owner!Backed, OwnerInv, Owner!files, Owner!Begin, Owner!Prove,
       Owner!FoundDead
<1> USE NobodyAssumption DEF OwnerInv, SnapshotTypes, Knows, Owner!Go, Owner!Forget,
     Owner!files, Owner!locks, Owner!local, Under, CallSteps, WriteSteps, RecoverySteps,
     Recovering, Holding, Owner!Begin, Owner!Prove, Owner!FoundDead
<1>2. SnapshotTypes'
  BY DEF WritersInv, Snapshots, Proofs, Owner!Outcome, Owner!Written, Owner!Genesis
<1>3. ASSUME NEW q \in Proc PROVE Knows(q)'
  BY DEF WritersInv, MayWrite, HasOwner, Owner!Outcome, Owner!Written, Owner!Genesis,
       Snapshots, Proofs
<1>4. RecoveryInv'
  <2> SUFFICES ASSUME NEW q \in Proc PROVE RecoveryInv!(q)'
    BY DEF RecoveryInv
  <2> QED BY DEF RecoveryInv
<1>5. StartInv'
  BY DEF StartInv, WritersInv, MayWrite, HasOwner, Owner!Outcome, Owner!Written, Owner!Genesis
<1>6. WritersInv'
  <2> SUFFICES ASSUME NEW q \in Proc PROVE WritersInv!(q)'
    BY DEF WritersInv
  <2> QED BY DEF RecoveryInv, StartInv, WritersInv, MayWrite, HasOwner, Owner!Outcome,
       Owner!Written, Owner!Genesis
<1> QED BY <1>1, <1>2, <1>3, <1>4, <1>5, <1>6

LEMMA Results ==
  ASSUME OwnerInv, NEW p \in Proc, pc[p] \in {"loaded", "archived"}
  PROVE  /\ Owner!Outcome(p) \in Snapshots /\ Owner!Outcome(p) # Nobody
         /\ op[p] = "initialize" => state = Nobody /\ Owner!Outcome(p) = Owner!Genesis
         /\ op[p] # "initialize" =>
              /\ state \in Snapshots /\ mem[p] = state /\ Owner!Outcome(p) = Owner!Written(state, p)
              /\ Owner!Outcome(p).owner = p /\ Owner!Outcome(p).log = Append(state.log, p)
              /\ state.owner \in dead \cup {Nobody, p}
<1> USE DEF OwnerInv, SnapshotTypes, Knows, WritersInv, MayWrite, WriteSteps
<1>1. mem[p] = state /\ op[p] \in {"initialize", "attach", "mutate", "recover"}
  OBVIOUS
<1>2. CASE op[p] = "initialize"
  <2>1. Owner!Outcome(p) = Owner!Genesis /\ state = Nobody
    BY <1>1, <1>2 DEF Owner!Outcome
  <2>2. Owner!Genesis \in Snapshots
    BY NobodyAssumption DEF Owner!Genesis, Snapshots
  <2> HIDE DEF OwnerInv, SnapshotTypes, Knows, WritersInv, MayWrite
  <2>3. Owner!Genesis # Nobody
    BY <2>2, NobodyAssumption DEF Snapshots
  <2> QED BY <1>2, <2>1, <2>2, <2>3
<1>3. CASE op[p] # "initialize"
  <2>1. state \in Snapshots
    BY <1>1, <1>3
  <2>2. Owner!Outcome(p) = [owner |-> p, log |-> Append(state.log, p)]
    BY <1>1, <1>3 DEF Owner!Outcome, Owner!Written
  <2>3. Append(state.log, p) \in Seq(Proc)
    BY <2>1 DEF Snapshots
  <2>4. Owner!Outcome(p) \in Snapshots
    BY <2>2, <2>3 DEF Snapshots
  <2>5. state.owner \in dead \cup {Nobody, p}
    BY <1>1, <1>3
  <2> HIDE DEF OwnerInv, SnapshotTypes, Knows, WritersInv, MayWrite
  <2>6. Owner!Outcome(p) # Nobody
    BY <2>4, NobodyAssumption DEF Snapshots
  <2>7. Owner!Outcome(p).owner = p /\ Owner!Outcome(p).log = Append(state.log, p)
    BY <2>2
  <2>8. Owner!Outcome(p) = Owner!Written(state, p)
    BY <2>2 DEF Owner!Written
  <2> QED BY <1>1, <1>3, <2>1, <2>4, <2>5, <2>6, <2>7, <2>8
<1> QED BY <1>2, <1>3

LEMMA WritesAlone ==
  ASSUME OwnerInv, NEW p \in Proc, NEW q \in Proc, p # q,
         pc[p] \in {"loaded", "archived"}
  PROVE  /\ pc[q] \notin {"loaded", "archived"}
         /\ pc[q] = "written" => op[q] = "initialize" /\ state # Nobody
<1> USE DEF OwnerInv, SnapshotTypes, Knows, WritersInv, MayWrite, Snapshots, WriteSteps,
     CallSteps, RecoverySteps, Under, HasOwner
<1>1. pc[q] \notin {"loaded", "archived"}
  <2> SUFFICES ASSUME pc[q] \in {"loaded", "archived"} PROVE FALSE
    OBVIOUS
  <2>1. /\ op[p] \in {"initialize", "attach", "mutate", "recover"}
        /\ op[q] \in {"initialize", "attach", "mutate", "recover"}
        /\ p \notin dead /\ q \notin dead /\ MayWrite(p) /\ MayWrite(q)
    OBVIOUS
  <2>2. CASE ~ HasOwner
    BY <2>2, NobodyAssumption DEF StartInv, Holding
  <2>3. CASE HasOwner
    <3>1. op[p] = "recover" /\ op[q] = "recover"
      BY <2>1, <2>3
    <3>2. recovery = p /\ recovery = q
      <4> HIDE DEF SnapshotTypes, Knows, WritersInv, MayWrite, Snapshots, CallSteps,
               RecoverySteps, HasOwner
      <4> QED BY <3>1 DEF RecoveryInv
    <3> QED BY <3>2
  <2> QED BY <2>2, <2>3
<1>2. ASSUME pc[q] = "written" PROVE op[q] = "initialize" /\ state # Nobody
  <2>1. op[q] = "initialize"
    BY <1>2, NobodyAssumption DEF Owner!Written
  <2> QED BY <2>1, <1>2, NobodyAssumption DEF StartInv, Holding
<1> QED BY <1>1, <1>2

LEMMA ArchiveKeeps ==
  ASSUME OwnerInv, NEW p \in Proc, Owner!Archive(p)
  PROVE  OwnerInv'
<1> USE DEF OwnerInv, Owner!Archive, Owner!Go, Owner!locks, Owner!local
<1>0. pc[p] = "loaded" /\ UNCHANGED <<state, op, mem>>
  OBVIOUS
<1>r. /\ Owner!Outcome(p) \in Snapshots /\ Owner!Outcome(p)' = Owner!Outcome(p)
      /\ mem[p] = state /\ state \in Snapshots \cup {Nobody}
      /\ op[p] = "initialize" <=> state = Nobody
  <2>1. mem[p] = state /\ MayWrite(p) /\ state \in Snapshots \cup {Nobody}
    BY <1>0 DEF WritersInv, SnapshotTypes
  <2>2. op[p] \in {"initialize", "attach", "mutate", "recover"}
    BY <1>0 DEF Knows, WriteSteps
  <2> QED BY <2>1, <2>2, <1>0, Results DEF Owner!Outcome, MayWrite
<1> DEFINE Kept == archives \cup ({mem[p], Owner!Outcome(p)} \ {Nobody})
<1>a. archives' = Kept
  OBVIOUS
<1>1. SnapshotTypes'
  <2>1. archives' \subseteq Snapshots
    BY <1>r, <1>a DEF SnapshotTypes
  <2> QED BY <2>1 DEF SnapshotTypes, WriteSteps
<1>2. ASSUME NEW q \in Proc PROVE Knows(q)'
  BY DEF SnapshotTypes, Knows, HasOwner, Under, CallSteps, WriteSteps, RecoverySteps, Recovering
<1>3. RecoveryInv'
  <2> SUFFICES ASSUME NEW q \in Proc PROVE RecoveryInv!(q)'
    BY DEF RecoveryInv
  <2> QED BY DEF SnapshotTypes, RecoveryInv, Under, WriteSteps, Recovering
<1>4. StartInv'
  BY DEF SnapshotTypes, StartInv, HasOwner, Holding, WriteSteps
<1>5. WritersInv'
  <2> SUFFICES ASSUME NEW q \in Proc PROVE WritersInv!(q)'
    BY DEF WritersInv
  <2>1. archives \subseteq archives' /\ UNCHANGED <<dead, proof>>
    BY <1>a
  <2>2. CASE q = p
    <3>1. pc'[p] = "archived" /\ MayWrite(p)
      BY <1>0 DEF SnapshotTypes, WritersInv
    <3>2. MayWrite(p)'
      BY <3>1, <1>0 DEF MayWrite
    <3>3. Owner!Outcome(p)' \in archives' /\ (op'[p] # "initialize" => mem'[p] \in archives')
      BY <1>r, <1>a, <1>0, NobodyAssumption, Results DEF Snapshots
    <3> QED BY <2>2, <3>1, <3>2, <3>3, <1>r, <1>0
  <2>3. CASE q # p
    <3>1. pc'[q] = pc[q] /\ Owner!Outcome(q)' = Owner!Outcome(q) /\ MayWrite(q)' = MayWrite(q)
      BY <2>3, <1>0 DEF SnapshotTypes, Owner!Outcome, MayWrite
    <3> QED BY <3>1, <2>1, <1>0 DEF WritersInv
  <2> QED BY <2>2, <2>3
<1>6. ReaderInv'
  BY <1>a DEF ReaderInv, Owner!Backed
<1> QED BY <1>1, <1>2, <1>3, <1>4, <1>5, <1>6

LEMMA PruneKeeps ==
  ASSUME OwnerInv, NEW p \in Proc, Owner!Prune(p)
  PROVE  OwnerInv'
<1> USE DEF OwnerInv, Owner!Prune, Owner!Go, Owner!locks, Owner!local
<1>0. pc[p] = "written" /\ UNCHANGED <<state, op, mem, dead, proof>>
  OBVIOUS
<1>w. ASSUME op[p] # "initialize"
      PROVE  /\ mem[p] \in archives /\ mem[p] \in Snapshots /\ state = Owner!Written(mem[p], p)
             /\ Owner!Outcome(p) = state
             /\ archives' = archives \cap {mem[p], state}
             /\ state # Nobody /\ state.owner = p /\ p \notin dead /\ HasOwner
  <2>1. mem[p] \in archives /\ mem[p] \in Snapshots /\ state = Owner!Written(mem[p], p)
    BY <1>0, <1>w DEF WritersInv
  <2>2. Owner!Outcome(p) = state
    BY <1>w, <2>1 DEF Owner!Outcome
  <2>3. archives' = archives \cap {mem[p], state}
    BY <2>2, <1>w
  <2>4. state.owner = p
    BY <2>1 DEF Owner!Written
  <2>5. state # Nobody
    <3>1. Owner!Written(mem[p], p) \in Snapshots
      <4>1. Append(mem[p].log, p) \in Seq(Proc)
        BY <2>1 DEF Snapshots
      <4> QED BY <4>1 DEF Snapshots, Owner!Written
    <3> HIDE DEF OwnerInv
    <3> QED BY <3>1, <2>1, NobodyAssumption DEF Snapshots
  <2>6. p \notin dead
    BY <1>0 DEF Knows, Under
  <2> QED BY <2>1, <2>2, <2>3, <2>4, <2>5, <2>6, NobodyAssumption DEF HasOwner
<1>1. SnapshotTypes'
  BY DEF SnapshotTypes, WriteSteps
<1>2. ASSUME NEW q \in Proc PROVE Knows(q)'
  BY DEF SnapshotTypes, Knows, HasOwner, Under, CallSteps, WriteSteps, RecoverySteps, Recovering
<1>3. RecoveryInv'
  <2> SUFFICES ASSUME NEW q \in Proc PROVE RecoveryInv!(q)'
    BY DEF RecoveryInv
  <2> QED BY DEF SnapshotTypes, RecoveryInv, Under, WriteSteps, Recovering
<1>4. StartInv'
  BY DEF SnapshotTypes, StartInv, HasOwner, Holding, WriteSteps
<1>5. WritersInv'
  <2> SUFFICES ASSUME NEW q \in Proc PROVE WritersInv!(q)'
    BY DEF WritersInv
  <2>1. CASE q = p
    BY <2>1, <1>0 DEF SnapshotTypes
  <2>2. CASE q # p
    <3>1. pc'[q] = pc[q] /\ Owner!Outcome(q)' = Owner!Outcome(q) /\ MayWrite(q)' = MayWrite(q)
      BY <2>2, <1>0 DEF SnapshotTypes, Owner!Outcome, MayWrite
    <3>2. ASSUME op[p] # "initialize" PROVE pc[q] \notin {"loaded", "archived"}
      BY <3>2, <2>2, <1>0, WritesAlone
    <3>3. ASSUME op[p] # "initialize", pc[q] = "written" PROVE op[q] = "initialize"
      <4> SUFFICES ASSUME op[q] # "initialize" PROVE FALSE
        OBVIOUS
      <4>1. state = Owner!Written(mem[q], q)
        BY <3>3 DEF WritersInv
      <4> QED BY <4>1, <1>w, <3>3, <2>2 DEF Owner!Written
    <3>4. op[p] = "initialize" => archives' = archives
      OBVIOUS
    <3>5. op[q]' = op[q] /\ mem'[q] = mem[q]
      BY <1>0
    <3>6. CASE op[p] = "initialize"
      BY <3>1, <3>4, <3>5, <3>6, <1>0 DEF WritersInv
    <3>7. CASE op[p] # "initialize"
      BY <3>1, <3>2, <3>3, <3>5, <3>7, <1>0
    <3> QED BY <3>6, <3>7
  <2> QED BY <2>1, <2>2
<1>6. ReaderInv'
  <2>1. CASE op[p] = "initialize"
    BY <2>1 DEF ReaderInv, Owner!Backed
  <2>2. CASE op[p] # "initialize"
    <3>1. state \in archives'
      BY <1>w, <2>2 DEF ReaderInv, Owner!Backed
    <3>2. mem[p] \in archives' /\ mem[p].log = SubSeq(state.log, 1, Len(state.log) - 1)
      <4>1. mem[p].log \in Seq(Proc) /\ state.log = Append(mem[p].log, p)
        BY <1>w, <2>2 DEF Snapshots, Owner!Written
      <4> QED BY <4>1, <1>w, <2>2
    <3>3. Owner!Backed(state)'
      BY <3>1, <3>2, <1>0 DEF Owner!Backed
    <3> QED BY <3>3, <1>0 DEF ReaderInv
  <2> QED BY <2>1, <2>2
<1> QED BY <1>1, <1>2, <1>3, <1>4, <1>5, <1>6

LEMMA WriteKeeps ==
  ASSUME OwnerInv, NEW p \in Proc, Owner!Write(p)
  PROVE  OwnerInv'
<1> USE DEF OwnerInv, Owner!Write, Owner!Go, Owner!locks, Owner!local
<1>0. /\ pc[p] = "archived" /\ p \notin dead /\ UNCHANGED <<archives, lock, op, mem, dead, proof>>
      /\ state' = Owner!Outcome(p) /\ state' # Nobody /\ state' \in Snapshots
  BY Results
<1>a. /\ op[p] = "initialize" => state = Nobody /\ state' = Owner!Genesis /\ ~ HasOwner'
      /\ op[p] # "initialize" =>
           /\ state \in Snapshots /\ mem[p] = state /\ state' = Owner!Written(state, p)
           /\ HasOwner' /\ state'.owner = p
  BY <1>0, Results, NobodyAssumption DEF HasOwner, Owner!Genesis
<1>b. op[p] \in {"initialize", "attach", "mutate", "recover"} /\ mem[p] = state /\ MayWrite(p)
  BY <1>0 DEF Knows, WriteSteps, WritersInv
<1>c. HasOwner => HasOwner'
  BY <1>a DEF HasOwner
<1>1. SnapshotTypes'
  BY <1>0 DEF SnapshotTypes, WriteSteps
<1>2. ASSUME NEW q \in Proc PROVE Knows(q)'
  <2>1. Under(q)' = Under(q) /\ (q # p => pc'[q] = pc[q])
    BY <1>0 DEF SnapshotTypes, Under
  <2>2. CASE q = p
    <3>1. op[p] # "initialize" => HasOwner'
      BY <1>a
    <3> QED BY <2>2, <3>1, <1>0, <1>b DEF Knows, SnapshotTypes, Under, CallSteps, WriteSteps,
         RecoverySteps, Recovering
  <2>3. CASE q # p
    BY <2>1, <2>3, <1>0, <1>c DEF Knows
  <2> QED BY <2>2, <2>3
<1>3. RecoveryInv'
  <2> SUFFICES ASSUME NEW q \in Proc PROVE RecoveryInv!(q)'
    BY DEF RecoveryInv
  <2> QED BY DEF SnapshotTypes, RecoveryInv, Under, WriteSteps, Recovering
<1>4. StartInv'
  <2> SUFFICES ASSUME ~ HasOwner', ~ HasOwner PROVE StartInv'
    BY <1>c DEF StartInv
  <2> QED BY <1>0 DEF SnapshotTypes, StartInv, Holding, WriteSteps
<1>5. WritersInv'
  <2> SUFFICES ASSUME NEW q \in Proc PROVE WritersInv!(q)'
    BY DEF WritersInv
  <2>1. CASE q = p
    <3>1. pc'[p] = "written"
      BY DEF SnapshotTypes
    <3>2. op[p] # "initialize" => mem[p] \in Snapshots /\ mem[p] \in archives
                                 /\ state' = Owner!Written(mem[p], p)
      BY <1>0, <1>a DEF WritersInv
    <3> QED BY <2>1, <3>1, <3>2, <1>0
  <2>2. CASE q # p
    <3>1. pc'[q] = pc[q] /\ op'[q] = op[q]
      BY <2>2, <1>0 DEF SnapshotTypes
    <3>2. pc[q] \notin {"loaded", "archived"} /\ (pc[q] = "written" => op[q] = "initialize")
      BY <1>0, <2>2, WritesAlone
    <3> QED BY <3>1, <3>2
  <2> QED BY <2>1, <2>2
<1>6. ReaderInv'
  <2>1. Owner!Outcome(p) \in archives /\ (op[p] # "initialize" => mem[p] \in archives)
    BY <1>0 DEF WritersInv
  <2>2. CASE op[p] = "initialize"
    BY <1>0, <2>1, <2>2, <1>a DEF ReaderInv, Owner!Backed, Owner!Genesis
  <2>3. CASE op[p] # "initialize"
    <3>1. state.log = SubSeq(state'.log, 1, Len(state'.log) - 1)
      <4>1. state.log \in Seq(Proc) /\ state'.log = Append(state.log, p)
        BY <1>a, <2>3 DEF Snapshots, Owner!Written
      <4> QED BY <4>1
    <3>2. state \in archives' /\ state' \in archives'
      BY <1>0, <1>b, <2>1, <2>3
    <3>3. Owner!Backed(state)'
      BY <3>1, <3>2 DEF Owner!Backed
    <3> QED BY <3>3, <1>0 DEF ReaderInv
  <2> QED BY <2>2, <2>3
<1> QED BY <1>1, <1>2, <1>3, <1>4, <1>5, <1>6

LEMMA ReadersKeep ==
  ASSUME OwnerInv, Owner!ReadState \/ Owner!ReadArchives
  PROVE  OwnerInv'
<1> USE DEF OwnerInv, Owner!ReadState, Owner!ReadArchives, Owner!files, Owner!locks, Owner!local
<1>1. SnapshotTypes'
  BY DEF SnapshotTypes
<1>2. ASSUME NEW q \in Proc PROVE Knows(q)'
  BY DEF Knows, HasOwner, Under
<1>3. RecoveryInv' /\ StartInv'
  BY DEF RecoveryInv, StartInv, HasOwner, Under
<1>4. WritersInv'
  BY DEF WritersInv, MayWrite, Owner!Outcome
<1>5. ReaderInv'
  <2>0. UNCHANGED <<state, archives>>
    OBVIOUS
  <2>1. CASE Owner!ReadState
    BY <2>0, <2>1 DEF ReaderInv, Owner!Backed
  <2>2. CASE Owner!ReadArchives
    <3>1. reader.at = "read" /\ reader.raw # Nobody /\ reader.tries \in 0..3
      BY <2>2 DEF ReaderInv
    <3>2. CASE Owner!Backed(reader.raw)
      BY <2>0, <2>2, <3>1, <3>2 DEF ReaderInv, Owner!Backed
    <3>3. CASE ~ Owner!Backed(reader.raw)
      <4>1. state # reader.raw
        BY <3>1, <3>3 DEF ReaderInv
      <4> QED BY <2>0, <2>2, <3>1, <3>3, <4>1 DEF ReaderInv, Owner!Backed
    <3> QED BY <3>2, <3>3
  <2> QED BY <2>1, <2>2
<1> QED BY <1>1, <1>2, <1>3, <1>4, <1>5

LEMMA OwnerInitKeeps == Owner!Init => OwnerInv
BY NobodyAssumption DEF Owner!Init, OwnerInv, SnapshotTypes, Knows, RecoveryInv, StartInv,
     WritersInv, ReaderInv, Under, CallSteps, WriteSteps, RecoverySteps, Recovering, Holding

LEMMA OwnerStepKeeps == OwnerInv /\ [Owner!Next]_(Owner!vars) => OwnerInv'
<1> SUFFICES ASSUME OwnerInv, [Owner!Next]_(Owner!vars) PROVE OwnerInv'
  OBVIOUS
<1>1. CASE UNCHANGED Owner!vars
  BY <1>1 DEF OwnerInv, SnapshotTypes, Knows, RecoveryInv, StartInv, WritersInv, MayWrite,
       Owner!Outcome, ReaderInv, Owner!Backed, Under, HasOwner, Owner!vars
<1>2. CASE Owner!Next
  BY <1>2, EntersKeep, ReleasesKeep, RecoveryLockKeeps, IntentKeeps, QuarantineKeeps,
       AttachKeeps, LoadKeeps, ArchiveKeeps, WriteKeeps, PruneKeeps, CallsBeginKeep, DiesKeeps,
       ReadersKeep DEF Owner!Next, Owner!Call, Owner!Recover
<1> QED BY <1>1, <1>2

\* The inductive invariant of the owners: what a process has read is still so when it writes,
\* and the snapshot that is published has its archives (publishLock, archiveSnapshot).
THEOREM OwnershipInvariant == Owner!Spec => []OwnerInv
<1> QED BY OwnerInitKeeps, OwnerStepKeeps, PTL DEF Owner!Spec

LEMMA StepExtends ==
  ASSUME OwnerInv, [Owner!Next]_(Owner!vars), state' # state
  PROVE  \/ state = Nobody /\ state' = Owner!Genesis
         \/ /\ state # Nobody
            /\ \E p \in Proc : state' = Owner!Written(state, p)
            /\ state.owner \in dead \cup {Nobody, state'.owner}
<1>1. PICK p \in Proc : Owner!Write(p)
  BY DEF Owner!Next, Owner!vars, Owner!Call, Owner!Recover, Owner!Begin, Owner!Prove,
       Owner!Prepare, Owner!ClearInitializationLock, Owner!Enter, Owner!Publish,
       Owner!PublishFails, Owner!Recheck, Owner!Load, Owner!Archive, Owner!Prune,
       Owner!Release, Owner!LockRecovery, Owner!ClearRecoveryLock, Owner!RelockRecovery,
       Owner!ResumeIntent, Owner!PublishIntent, Owner!QuarantineLock, Owner!Replace,
       Owner!Attach, Owner!ReleaseReplacement, Owner!RemoveIntent, Owner!UnlockRecovery,
       Owner!Dies, Owner!ReadState, Owner!ReadArchives, Owner!files
<1>2. pc[p] = "archived" /\ state' = Owner!Outcome(p)
  BY <1>1 DEF Owner!Write, Owner!Go
<1>3. CASE op[p] = "initialize"
  BY <1>2, <1>3, Results
<1>4. CASE op[p] # "initialize"
  BY <1>2, <1>4, Results, NobodyAssumption DEF Snapshots
<1> QED BY <1>3, <1>4

\* Two processes never write from the same snapshot, every writer extends the newest one, and
\* a reader without a lock is not misled, for any number of processes that die anywhere
\* (withLock, reattachAfterDeadOwner and read of store.ts).
THEOREM SnapshotsStaySafe == Owner!Spec => SnapshotsAreSafe
<1>1. OwnerInv => Owner!TypeOK /\ Owner!ReadersAreNotMisled
  BY DEF OwnerInv, SnapshotTypes, Proofs, Owner!TypeOK, ReaderInv, Owner!ReadersAreNotMisled
<1>2. OwnerInv /\ [Owner!Next]_(Owner!vars) =>
        [state' # state =>
           \/ state = Nobody /\ state' = Owner!Genesis
           \/ /\ state # Nobody
              /\ \E p \in Proc : state' = Owner!Written(state, p)
              /\ state.owner \in dead \cup {Nobody, state'.owner}]_(Owner!vars)
  BY StepExtends
<1> QED BY <1>1, <1>2, OwnershipInvariant, PTL DEF Owner!Spec, Owner!EachWriteExtends,
     SnapshotsAreSafe
=============================================================================
