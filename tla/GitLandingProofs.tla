-------------------------- MODULE GitLandingProofs --------------------------
(***************************************************************************)
(* What the Git driver keeps for any number of items and of commands,      *)
(* whichever call ends, aborts or dies at whichever step: no publication   *)
(* that the audit refuses is reached, the records of lane, workspace and   *)
(* process are true, nobody's changes are overwritten, and the target      *)
(* branch moves as TargetBranch says.  Behind it the same for the train of *)
(* a V1 run, for any number of items.                                      *)
(***************************************************************************)
EXTENDS GitLanding, TrainV1, FiniteSetTheorems, TLAPS

InCall == call # Idle
UnderWay(j) == j \in {"intent", "launched"}
CheckUnderWay(o) == \E k \in 1..Commands : UnderWay(o.jobs[k])
Passed(o) == o.proposed /\ \A k \in 1..Commands : o.jobs[k] = "PASS"
IsOpen(o) == o.phase \notin {"none", "accepted", "closed"}

\* Operations are opened one after the other, each on what was accepted before it.
OpenedInv ==
  /\ OperationsJoin
  /\ \A i \in Items : op[i].phase # "none" => \E n \in 1..Len(opened) : opened[n] = i
  /\ \A n \in 1..Len(opened) : n < Len(opened) => Resolved(opened[n])
  /\ \A i \in Items : op[i].phase = "none" => op[i] = NoOperation
  /\ Chain \in Seq(Items)

\* The lane is claimed before the operation is published.
LaneInv ==
  /\ UnresolvedHoldsLane
  /\ InCall /\ At("publish") => /\ lane = Ours /\ status = "active" /\ op[Ours].phase = "none"
                                /\ \A j \in Items : ~ Unresolved(j)

\* One process of an operation is journaled at a time: a check while the workspace holds
\* the proposal and nothing restores it, a transition while it is neither here nor there, and
\* the merge when everything has passed and the workspace is back.
Journals(o) ==
  /\ CheckUnderWay(o) => o.phase = "composed" /\ o.space = "composed" /\ ~ o.closing
  /\ \A k, n \in 1..Commands : UnderWay(o.jobs[k]) /\ UnderWay(o.jobs[n]) => k = n
  /\ UnderWay(o.transition) => o.space \in {"switching", "restoring"}
  /\ UnderWay(o.landing) => o.phase = "landing"
  /\ o.landing # "none" => /\ Passed(o) /\ o.space = "restored"
                          /\ o.phase \notin {"none", "intent", "composed"}
  /\ o.phase \notin {"none", "intent", "blocked", "closed"} => o.proposed
  /\ o.phase \in {"validated", "landing", "landed", "accepted"} => Passed(o)
  /\ o.phase \in {"landing", "landed", "accepted", "closed"} => o.space = "restored"
  /\ o.phase \in {"landing", "landed", "accepted"} => o.landing # "none"
  /\ o.phase \in {"landed", "accepted"} => o.observation = "new-clean"
  /\ o.phase = "closed" => o.observation \in {"old-clean", "new-clean"}

JournalInv == \A i \in Items : Journals(op[i])

\* What a call c knows of its operation o, whether the workspace is owned, and of the commit
\* at the target, at the step that it has come to.
Fits(c, o, own, commit) ==
  /\ c.kind \in {"integrate", "close"} /\ c.step # "idle"
  /\ c.step \in {"publish", "claim", "current", "proceed", "materialize", "switch", "checks",
                 "check", "dispatch", "merge"} => c.kind = "integrate"
  /\ c.step = "claim" => o.phase \notin {"none", "accepted"}
  /\ c.step \in {"current", "proceed"} =>
       o.phase \in {"intent", "composed", "validated", "landed"}
  /\ c.step \in {"materialize", "switch", "checks", "check"} => o.phase = "composed"
  /\ c.step \in {"checks", "check"} => o.space = "composed"
  /\ c.step \in {"fence", "restoring", "restore", "repair", "checkout"} =>
       IsOpen(o) /\ (c.kind = "integrate" => o.phase = "validated")
  /\ c.step \in {"restoring", "restore", "repair", "checkout"} => o.closing
  /\ c.step \in {"repair", "checkout"} => o.space = "restoring"
  /\ c.step = "checkout" => ~ UnderWay(o.transition)
  /\ c.step = "dispatch" => o.phase = "validated" /\ o.space = "restored"
  /\ c.step = "merge" => o.phase = "landing"
  /\ c.step \in {"settle", "observe", "conclude"} =>
       /\ o.landing # "none" /\ IsOpen(o)
       /\ c.kind = "integrate" => o.phase \in {"validated", "landing", "landed"}
  /\ c.step \in {"observe", "conclude", "look", "close"} => ~ UnderWay(o.landing)
  /\ c.step \in {"look", "close"} => c.kind = "close" /\ IsOpen(o) /\ o.space = "restored"
  /\ c.step = "close" /\ c.seen = "old-clean" => commit \in {o.expected, Foreign}
  /\ c.step = "release" => o.phase \in {"accepted", "closed"}
  /\ c.step \notin {"publish", "claim", "fence", "release"} => own /\ IsOpen(o)

StepInv == InCall => Ours \in Items /\ Fits(call, op[Ours], owned[Ours], target.commit)

Journaled(o, kind, j) ==
  CASE kind = "merge" -> o.landing = j
    [] kind = "check" -> \E k \in 1..Commands : o.jobs[k] = j
    [] OTHER -> o.transition = j

\* A process belongs to an operation that is not resolved, is journaled there, and while it
\* has not left a receipt it is alone; a call waits for it unless it has been orphaned.
ChildInv == child # NoChild =>
  /\ child.item \in Items /\ child.kind \in Kinds /\ child.state # "gone"
  /\ receipt = "none" /\ owned[child.item] /\ IsOpen(op[child.item])
  /\ child.state \in {"running", "orphan"} => Journaled(op[child.item], child.kind, "launched")
  /\ child.state = "waiting" => \/ Journaled(op[child.item], child.kind, "intent")
                                \/ Journaled(op[child.item], child.kind, "launched")
  /\ child.state \in {"waiting", "running"} /\ InCall => Ours = child.item /\ At(child.kind)
  /\ child.kind = "merge" => work[child.item] = "candidate"

\* What a workspace may hold, by the phase that its journal is in.
Holds(o, w, own) ==
  /\ w = "altered" => o.space = "composed"
  /\ o.space \in {"original", "restored"} => w \in {"candidate", "edited"}
  /\ o.space \notin {"original", "restored"} => own

WorkInv ==
  /\ \A i \in Items : Holds(op[i], work[i], owned[i])
  /\ InCall /\ call.step \in {"dispatch", "merge"} => work[Ours] = "candidate"

IInv == TypeOK /\ OpenedInv /\ LaneInv /\ JournalInv /\ StepInv /\ ChildInv /\ WorkInv

\* Outside, the step changes nothing.
Stays == Chain' = Chain /\ \A i \in Items : Outward(i)' = Outward(i)

----------------------------------------------------------------------------
(* The order of the operations. *)

LastBefore(n) == {m \in 1..n - 1 : Accepted(m) /\ \A k \in m + 1..n - 1 : ~ Accepted(k)}

\* What was accepted before n is the same as long as those operations are.
LEMMA PrefixStays ==
  ASSUME NEW n \in Nat,
         \A m \in 1..n - 1 :
            /\ opened'[m] = opened[m]
            /\ op'[opened[m]].expected = op[opened[m]].expected
            /\ op'[opened[m]].phase = "accepted" <=> op[opened[m]].phase = "accepted"
  PROVE  Prefix(n)' = Prefix(n)
<1>1. \A m \in 1..n - 1 : Accepted(m)' <=> Accepted(m)
  BY DEF Accepted
<1>2. LastBefore(n)' = LastBefore(n)
  BY <1>1 DEF LastBefore
<1>3. Prefix(n) = IF LastBefore(n) = {} THEN <<>>
                  ELSE Append(op[opened[CHOOSE m \in LastBefore(n) : TRUE]].expected,
                              opened[CHOOSE m \in LastBefore(n) : TRUE])
  BY DEF Prefix, Proposal, LastBefore
<1>4. Prefix(n)' = IF LastBefore(n)' = {} THEN <<>>
                  ELSE Append(op'[opened'[CHOOSE m \in LastBefore(n)' : TRUE]].expected,
                              opened'[CHOOSE m \in LastBefore(n)' : TRUE])
  BY DEF Prefix, Proposal, LastBefore
<1>5. CASE LastBefore(n) = {}
  BY <1>2, <1>3, <1>4, <1>5
<1>6. CASE LastBefore(n) # {}
  <2>1. (CHOOSE m \in LastBefore(n) : TRUE) \in 1..n - 1
    BY <1>6 DEF LastBefore
  <2>. QED  BY <1>2, <1>3, <1>4, <1>6, <2>1
<1>. QED  BY <1>5, <1>6

\* An operation that is not accepted adds nothing, and one that is adds itself.
LEMMA PrefixPasses ==
  ASSUME NEW l \in Nat \ {0}
  PROVE  /\ ~ Accepted(l) => Prefix(l + 1) = Prefix(l)
         /\ (~ Accepted(l))' => Prefix(l + 1)' = Prefix(l)'
         /\ Accepted(l)' => Prefix(l + 1)' = Proposal(opened[l])'
<1>1. /\ l + 1 - 1 = l /\ 1..l = (1..l - 1) \cup {l} /\ l \in 1..l /\ l + 1..l = {}
      /\ \A m \in 1..l - 1 : m + 1..l = (m + 1..l - 1) \cup {l} /\ l \in m + 1..l
  OBVIOUS
<1>2. ASSUME ~ Accepted(l) PROVE Prefix(l + 1) = Prefix(l)
  <2>1. LastBefore(l + 1) = LastBefore(l)
    BY <1>1, <1>2 DEF LastBefore
  <2>. QED  BY <2>1 DEF Prefix, LastBefore
<1>3. ASSUME (~ Accepted(l))' PROVE Prefix(l + 1)' = Prefix(l)'
  <2>1. LastBefore(l + 1)' = LastBefore(l)'
    BY <1>1, <1>3 DEF LastBefore
  <2>. QED  BY <2>1 DEF Prefix, LastBefore
<1>4. ASSUME Accepted(l)' PROVE Prefix(l + 1)' = Proposal(opened[l])'
  <2>1. LastBefore(l + 1)' = {l}
    BY <1>1, <1>4 DEF LastBefore
  <2>2. (CHOOSE m \in {l} : TRUE) = l
    OBVIOUS
  <2>3. Prefix(l + 1)' = Append(op'[opened'[CHOOSE m \in {l} : TRUE]].expected,
                                opened'[CHOOSE m \in {l} : TRUE])
    BY <2>1 DEF Prefix, Proposal, LastBefore
  <2>. QED  BY <2>2, <2>3 DEF Proposal
<1>. QED  BY <1>2, <1>3, <1>4

\* Steps that neither open nor accept an operation leave the order as it is.
LEMMA OrderStays ==
  ASSUME TypeOK, OpenedInv, opened' = opened, op' \in [Items -> Operation],
         \A i \in Items : /\ op'[i].expected = op[i].expected
                          /\ op'[i].phase = "none" <=> op[i].phase = "none"
                          /\ op'[i].phase = "accepted" <=> op[i].phase = "accepted"
                          /\ op[i].phase = "closed" => op'[i].phase = "closed"
                          /\ op[i].phase = "none" => op'[i] = op[i]
  PROVE  OpenedInv' /\ Chain' = Chain
<1>1. opened \in Seq(Items) /\ Len(opened) \in Nat
  BY DEF TypeOK
<1>2. \A n \in 1..Len(opened) : opened[n] \in Items
  BY <1>1
<1>3. \A n \in 1..Len(opened) + 1 : Prefix(n)' = Prefix(n)
  <2>. SUFFICES ASSUME NEW n \in 1..Len(opened) + 1 PROVE Prefix(n)' = Prefix(n)
    OBVIOUS
  <2>1. n \in Nat /\ \A m \in 1..n - 1 : opened[m] \in Items
    BY <1>1, <1>2
  <2>. QED  BY <2>1, PrefixStays
<1>4. Chain' = Chain
  BY <1>1, <1>3 DEF Chain
<1>5. OperationsJoin'
  BY <1>1, <1>2, <1>3 DEF OpenedInv, OperationsJoin
<1>6. \A i \in Items : op'[i].phase # "none" => \E n \in 1..Len(opened') : opened'[n] = i
  BY DEF OpenedInv
<1>7. \A n \in 1..Len(opened) : n < Len(opened) => Resolved(opened[n])'
  BY <1>2 DEF OpenedInv, Resolved
<1>8. \A i \in Items : op'[i].phase = "none" => op'[i] = NoOperation
  BY DEF OpenedInv
<1>. QED  BY <1>4, <1>5, <1>6, <1>7, <1>8 DEF OpenedInv

\* The operation that is not resolved is the last, and was opened on what is accepted.
LEMMA OpenIsLast ==
  ASSUME TypeOK, OpenedInv, NEW i \in Items, Unresolved(i)
  PROVE  /\ Len(opened) \in Nat \ {0} /\ opened[Len(opened)] = i /\ op[i].expected = Chain
<1>1. opened \in Seq(Items) /\ Len(opened) \in Nat
  BY DEF TypeOK
<1>2. PICK n \in 1..Len(opened) : opened[n] = i
  BY DEF OpenedInv, Unresolved
<1>3. n = Len(opened)
  BY <1>1, <1>2 DEF OpenedInv, Unresolved
<1>4. op[i].expected = Prefix(n)
  BY <1>2 DEF OpenedInv, OperationsJoin
<1>5. ~ Accepted(n)
  BY <1>2 DEF Accepted, Unresolved, Resolved
<1>7. Prefix(n + 1) = Prefix(n)
  BY <1>1, <1>3, <1>5, PrefixPasses
<1>. QED  BY <1>1, <1>2, <1>3, <1>4, <1>7 DEF Chain

\* A new operation is opened on what is accepted, when every other is resolved.
LEMMA OrderOpened ==
  ASSUME TypeOK, OpenedInv, NEW i \in Items, op[i].phase = "none",
         \A j \in Items : ~ Unresolved(j),
         opened' = Append(opened, i), op' \in [Items -> Operation],
         op'[i].phase = "intent", op'[i].expected = Chain,
         \A j \in Items \ {i} : op'[j] = op[j]
  PROVE  OpenedInv' /\ Chain' = Chain
<1>1. /\ opened \in Seq(Items) /\ Len(opened) \in Nat /\ Len(opened') = Len(opened) + 1
      /\ opened'[Len(opened) + 1] = i
      /\ \A n \in 1..Len(opened) : opened'[n] = opened[n] /\ opened[n] \in Items
  BY DEF TypeOK
<1>2. \A n \in 1..Len(opened) : opened[n] # i
  BY DEF OpenedInv, OperationsJoin
<1>3. \A n \in 1..Len(opened) : op'[opened[n]] = op[opened[n]]
  BY <1>1, <1>2
<1>4. \A n \in 1..Len(opened) + 1 : Prefix(n)' = Prefix(n)
  <2>. SUFFICES ASSUME NEW n \in 1..Len(opened) + 1 PROVE Prefix(n)' = Prefix(n)
    OBVIOUS
  <2>1. n \in Nat /\ \A m \in 1..n - 1 : m \in 1..Len(opened)
    BY <1>1
  <2>. QED  BY <1>1, <1>3, <2>1, PrefixStays
<1>5. PICK l \in Nat \ {0} : l = Len(opened) + 1
  BY <1>1
<1>6. (~ Accepted(l))' /\ l + 1 = Len(opened') + 1
  BY <1>1, <1>5 DEF Accepted
<1>7. Prefix(l)' = Chain
  BY <1>4, <1>5, <1>1 DEF Chain
<1>8. Prefix(l + 1)' = Chain
  BY <1>6, <1>7, PrefixPasses
<1>9. Chain' = Prefix(l + 1)'
  <2>1. Len(opened') = l
    BY <1>1, <1>5
  <2>2. Len(opened') + 1 - 1 = l /\ l + 1 - 1 = l
    BY <2>1
  <2>3. LastBefore(Len(opened) + 1)' = LastBefore(l + 1)'
    BY <2>2 DEF LastBefore
  <2>4. Chain' = IF LastBefore(Len(opened) + 1)' = {} THEN <<>> ELSE
           Append(op'[opened'[CHOOSE m \in LastBefore(Len(opened) + 1)' : TRUE]].expected,
                  opened'[CHOOSE m \in LastBefore(Len(opened) + 1)' : TRUE])
    BY DEF Chain, Prefix, LastBefore, Proposal
  <2>5. Prefix(l + 1)' = IF LastBefore(l + 1)' = {} THEN <<>> ELSE
           Append(op'[opened'[CHOOSE m \in LastBefore(l + 1)' : TRUE]].expected,
                  opened'[CHOOSE m \in LastBefore(l + 1)' : TRUE])
    BY DEF Prefix, LastBefore, Proposal
  <2>. QED  BY <2>3, <2>4, <2>5
<1>10. Chain' = Chain
  BY <1>8, <1>9
<1>11. OperationsJoin'
  <2>. SUFFICES ASSUME NEW n \in 1..Len(opened')
                PROVE  /\ op'[opened'[n]].phase # "none" /\ op'[opened'[n]].expected = Prefix(n)'
                       /\ \A m \in 1..Len(opened') : opened'[m] = opened'[n] => m = n
    BY DEF OperationsJoin
  <2>1. CASE n = l
    BY <1>1, <1>2, <1>5, <1>7, <2>1
  <2>2. CASE n # l
    BY <1>1, <1>2, <1>3, <1>4, <1>5, <2>2 DEF OpenedInv, OperationsJoin
  <2>. QED  BY <2>1, <2>2
<1>12. \A j \in Items : op'[j].phase # "none" => \E n \in 1..Len(opened') : opened'[n] = j
  <2>. SUFFICES ASSUME NEW j \in Items, op'[j].phase # "none"
                PROVE  \E n \in 1..Len(opened') : opened'[n] = j
    OBVIOUS
  <2>1. CASE j = i
    BY <1>1, <2>1
  <2>2. CASE j # i
    <3>1. PICK n \in 1..Len(opened) : opened[n] = j
      BY <2>2 DEF OpenedInv
    <3>. QED  BY <1>1, <3>1
  <2>. QED  BY <2>1, <2>2
<1>13. \A n \in 1..Len(opened') :
         n < Len(opened') => op'[opened'[n]].phase \in {"accepted", "closed"}
  <2>1. \A n \in 1..Len(opened) : op[opened[n]].phase \in {"accepted", "closed"}
    BY <1>1 DEF OpenedInv, OperationsJoin, Resolved, Unresolved
  <2>. QED  BY <1>1, <1>3, <2>1
<1>14. \A j \in Items : op'[j].phase = "none" => op'[j] = NoOperation
  BY DEF OpenedInv
<1>15. Chain' \in Seq(Items)
  BY <1>10 DEF OpenedInv
<1>. QED  BY <1>10, <1>11, <1>12, <1>13, <1>14, <1>15
     DEF OpenedInv, Resolved

\* The last operation is accepted, and its proposal with it.
LEMMA OrderAccepted ==
  ASSUME TypeOK, OpenedInv, NEW i \in Items, Unresolved(i), opened' = opened,
         op' \in [Items -> Operation], op'[i].phase = "accepted",
         op'[i].expected = op[i].expected, \A j \in Items \ {i} : op'[j] = op[j]
  PROVE  OpenedInv' /\ Chain' = Append(Chain, i)
<1>1. /\ opened \in Seq(Items) /\ Len(opened) \in Nat \ {0} /\ opened[Len(opened)] = i
      /\ op[i].expected = Chain /\ \A n \in 1..Len(opened) : opened[n] \in Items
  BY OpenIsLast DEF TypeOK
<1>2. \A n \in 1..Len(opened) : n # Len(opened) => opened[n] # i
  BY <1>1 DEF OpenedInv, OperationsJoin
<1>3. \A n \in 1..Len(opened) : Prefix(n)' = Prefix(n)
  <2>. SUFFICES ASSUME NEW n \in 1..Len(opened) PROVE Prefix(n)' = Prefix(n)
    OBVIOUS
  <2>1. n \in Nat /\ \A m \in 1..n - 1 : m \in 1..Len(opened) /\ m # Len(opened)
    BY <1>1
  <2>2. \A m \in 1..n - 1 : op'[opened[m]] = op[opened[m]]
    BY <1>1, <1>2, <2>1
  <2>. QED  BY <2>1, <2>2, PrefixStays
<1>4. PICK l \in Nat \ {0} : l = Len(opened)
  BY <1>1
<1>5. Accepted(l)' /\ Proposal(opened[l])' = Append(Chain, i)
  BY <1>1, <1>4 DEF Accepted, Proposal
<1>6. Chain' = Append(Chain, i)
  BY <1>4, <1>5, PrefixPasses DEF Chain
<1>7. OperationsJoin'
  BY <1>1, <1>2, <1>3 DEF OpenedInv, OperationsJoin, Unresolved
<1>8. /\ \A j \in Items : op'[j].phase # "none" => \E n \in 1..Len(opened') : opened'[n] = j
      /\ \A j \in Items : op'[j].phase = "none" => op'[j] = NoOperation
  BY DEF OpenedInv, Unresolved
<1>9. \A n \in 1..Len(opened') :
         n < Len(opened') => op'[opened'[n]].phase \in {"accepted", "closed"}
  BY <1>1, <1>2 DEF OpenedInv, Resolved
<1>10. Chain' \in Seq(Items)
  BY <1>6 DEF OpenedInv
<1>. QED  BY <1>6, <1>7, <1>8, <1>9, <1>10 DEF OpenedInv, Resolved

----------------------------------------------------------------------------
(* What a step leaves alone. *)

Calls == [kind : {"none", "integrate", "close"}, item : Items \cup {Nobody},
          step : CallSteps, seen : Observations]

LEMMA InitInv == Init => IInv
<1>. SUFFICES ASSUME Init PROVE IInv
  OBVIOUS
<1>0. /\ Commands \in Nat \ {0} /\ Len(opened) = 0 /\ opened = <<>>
      /\ \A i \in Items : op[i] = NoOperation
      /\ child = NoChild /\ call = Idle
  BY LandingAssumption DEF Init
<1>1. NoOperation \in Operation
  BY DEF NoOperation, Operation, Phases, Journal, Observations
<1>2. TypeOK
  <2>1. op \in [Items -> Operation]
    BY <1>1 DEF Init
  <2>2. /\ target \in [commit : Seq(Items) \cup {Foreign}, clean : BOOLEAN]
        /\ child \in [kind : Kinds \cup {"none"}, item : Items \cup {Nobody},
                      state : {"gone", "waiting", "running", "orphan"}, done : BOOLEAN]
    BY DEF Init, NoChild
  <2>3. call \in Calls
    BY <1>0 DEF Idle, Calls, CallSteps, Observations
  <2>4. /\ opened \in Seq(Items) /\ owned \in [Items -> BOOLEAN] /\ work \in [Items -> Contents]
        /\ lane \in Items \cup {Nobody, Rival} /\ rival \in BOOLEAN
        /\ status \in {"active", "paused", "cancelling"}
        /\ receipt \in {"none", "unused", "failed", "ok"}
    <3>1. owned \in [Items -> BOOLEAN] /\ work \in [Items -> Contents]
      BY DEF Init, Contents
    <3>2. lane \in Items \cup {Nobody, Rival} /\ rival \in BOOLEAN
      BY DEF Init
    <3>3. opened \in Seq(Items)
      BY <1>0
    <3>4. status = "active" /\ receipt = "none"
      BY DEF Init
    <3>. QED  BY <3>1, <3>2, <3>3, <3>4
  <2>. QED  BY <2>1, <2>2, <2>3, <2>4 DEF TypeOK, Calls
<1>3. OpenedInv
  <2>1. Chain = <<>>
    BY <1>0 DEF Chain, Prefix
  <2>2. \A i \in Items : op[i].phase = "none"
    BY <1>0 DEF NoOperation
  <2>3. OperationsJoin /\ \A n \in 1..Len(opened) : n < Len(opened) => Resolved(opened[n])
    BY <1>0 DEF OperationsJoin
  <2>4. Chain \in Seq(Items)
    BY <2>1
  <2>. QED  BY <1>0, <2>2, <2>3, <2>4 DEF OpenedInv
<1>4. LaneInv
  BY <1>0 DEF LaneInv, UnresolvedHoldsLane, Unresolved, NoOperation, InCall
<1>5. JournalInv
  BY <1>0 DEF JournalInv, Journals, NoOperation, CheckUnderWay, UnderWay
<1>6. StepInv /\ ChildInv
  BY <1>0 DEF StepInv, ChildInv, InCall
<1>7. WorkInv
  BY <1>0 DEF Init, WorkInv, Holds, NoOperation, InCall
<1>. QED  BY <1>2, <1>3, <1>4, <1>5, <1>6, <1>7 DEF IInv

\* A step that only moves the call on, or takes or leaves the lane.
LEMMA CallMoves ==
  ASSUME IInv, UNCHANGED <<opened, op, owned, work, target, child, receipt>>,
         call' \in Calls, LaneInv', lane' \in Items \cup {Nobody, Rival},
         rival' \in BOOLEAN, status' \in {"active", "paused", "cancelling"},
         call' # Idle =>
           /\ call'.item \in Items
           /\ Fits(call', op[call'.item], owned[call'.item], target.commit)
           /\ call'.step \in {"dispatch", "merge"} => work[call'.item] = "candidate"
           /\ child.state \in {"waiting", "running"} =>
                call'.item = child.item /\ call'.step = child.kind
  PROVE  IInv'
<1>. USE DEF IInv
<1>1. TypeOK'
  BY DEF TypeOK, Calls
<1>2. OpenedInv'
  <2>1. op' = op /\ opened' = opened /\ op \in [Items -> Operation]
    BY DEF TypeOK
  <2>. QED  BY <2>1, OrderStays
<1>3. JournalInv' /\ StepInv'
  BY DEF JournalInv, StepInv, InCall, Ours
<1>4. ChildInv'
  BY DEF ChildInv, InCall, At, Ours
<1>5. WorkInv'
  BY DEF WorkInv, InCall, Ours
<1>. QED  BY <1>1, <1>2, <1>3, <1>4, <1>5

\* The claim of the lane.
LEMMA LaneClaimed ==
  ASSUME IInv, NEW i \in Items, Claimable(i) => lane' = i, ~ Claimable(i) => lane' = lane,
         op' = op
  PROVE  UnresolvedHoldsLane' /\ lane' \in Items \cup {Nobody, Rival}
<1>1. \A j \in Items : Unresolved(j) => lane = j /\ (Claimable(i) => j = i)
  BY LandingAssumption DEF IInv, LaneInv, UnresolvedHoldsLane, Claimable, Unresolved
<1>2. \A j \in Items : Unresolved(j) => lane' = j /\ \A k \in Items \ {j} : ~ Unresolved(k)
  BY <1>1 DEF IInv, LaneInv, UnresolvedHoldsLane
<1>. QED  BY <1>2 DEF UnresolvedHoldsLane, Unresolved, Resolved, IInv, TypeOK

----------------------------------------------------------------------------
(* The steps that move a call on. *)

\* A call goes to its next step.
LEMMA GoesTo ==
  ASSUME TypeOK, NEW s \in CallSteps, Goto(s)
  PROVE  /\ call' \in Calls /\ call'.step = s /\ call'.item = call.item
         /\ call'.kind = call.kind /\ call'.seen = call.seen
BY DEF TypeOK, Calls, Goto

\* A process is awaited by its call, if it has not been orphaned.
LEMMA Awaited ==
  ASSUME IInv, InCall, child # NoChild, ~ At(child.kind)
  PROVE  child.state = "orphan" /\ Journaled(op[child.item], child.kind, "launched")
BY DEF IInv, ChildInv, TypeOK

\* An operation that is not resolved is the only one that may have a process.
LEMMA ChildIsOurs ==
  ASSUME IInv, child # NoChild, NEW i \in Items, IsOpen(op[i])
  PROVE  child.item = i
<1>1. child.item \in Items /\ IsOpen(op[child.item])
  BY DEF IInv, ChildInv
<1>. QED  BY <1>1 DEF IInv, LaneInv, UnresolvedHoldsLane, Unresolved, Resolved, IsOpen

LEMMA LockIsFree ==
  ASSUME IInv, LockFree PROVE call = Idle /\ child.state \notin {"waiting", "running"}
BY DEF LockFree

\* A call that goes on, to a step that fits what it has found.
LEMMA GoesOn ==
  ASSUME IInv, InCall, child = NoChild \/ call.step \notin Kinds,
         UNCHANGED <<status, opened, op, lane, rival, owned, work, target, child, receipt>>,
         call' \in Calls, call'.item = call.item,
         call'.step \notin {"idle", "publish", "dispatch", "merge"},
         Fits(call', op[Ours], owned[Ours], target.commit)
  PROVE  IInv'
<1>1. child.state \notin {"waiting", "running"}
  BY Awaited DEF At, IInv, ChildInv, NoChild
<1>2. LaneInv'
  BY DEF IInv, LaneInv, InCall, At, UnresolvedHoldsLane, Unresolved, Resolved
<1>3. Ours \in Items
  BY DEF IInv, StepInv
<1>. QED  BY <1>1, <1>2, <1>3, CallMoves DEF IInv, TypeOK, Ours

LEMMA CheckCurrentKeeps == ASSUME IInv, CheckCurrent PROVE IInv'
<1>1. call.step = "current" /\ call' = [call EXCEPT !.step = "proceed"] /\ call \in Calls
  BY DEF IInv, CheckCurrent, At, Goto, TypeOK, Calls
<1>2. InCall /\ Fits(call, op[Ours], owned[Ours], target.commit)
  BY <1>1 DEF IInv, StepInv, InCall, Idle
<1>3. /\ call' \in Calls /\ call'.item = call.item /\ call'.kind = call.kind
      /\ call'.step = "proceed"
  BY <1>1 DEF Calls, CallSteps
<1>4. Fits(call', op[Ours], owned[Ours], target.commit)
  BY <1>1, <1>2, <1>3 DEF Fits
<1>. QED  BY <1>1, <1>2, <1>3, <1>4, GoesOn DEF CheckCurrent, Kinds, Transitions

LEMMA ProceedKeeps == ASSUME IInv, Proceed PROVE IInv'
<1>0. call.step = "proceed" /\ call \in Calls
  BY DEF IInv, Proceed, At, TypeOK, Calls
<1>1. InCall /\ Fits(call, op[Ours], owned[Ours], target.commit)
  BY <1>0 DEF IInv, StepInv, InCall, Idle
<1>2. PICK s \in {"materialize", "fence"} :
         /\ call' = [call EXCEPT !.step = s]
         /\ op[Ours].phase = IF s = "fence" THEN "validated" ELSE "composed"
  BY DEF Proceed, Goto
<1>3. /\ call' \in Calls /\ call'.item = call.item /\ call'.kind = call.kind
      /\ call'.step = s
  BY <1>0, <1>2 DEF Calls, CallSteps
<1>4. Fits(call', op[Ours], owned[Ours], target.commit)
  BY <1>0, <1>1, <1>2, <1>3 DEF Fits, IsOpen
<1>. QED  BY <1>0, <1>1, <1>3, <1>4, GoesOn DEF Proceed, Kinds, Transitions

LEMMA MergedKeeps == ASSUME IInv, Merged PROVE IInv'
<1>0. /\ call.step = "merge" /\ call \in Calls /\ child = NoChild
      /\ call' = [call EXCEPT !.step = "settle"]
  BY DEF IInv, Merged, At, Goto, TypeOK, Calls
<1>1. InCall /\ Fits(call, op[Ours], owned[Ours], target.commit) /\ Journals(op[Ours])
  BY <1>0 DEF IInv, StepInv, InCall, Idle, JournalInv
<1>3. /\ call' \in Calls /\ call'.item = call.item /\ call'.kind = call.kind
      /\ call'.step = "settle"
  BY <1>0 DEF Calls, CallSteps
<1>4. Fits(call', op[Ours], owned[Ours], target.commit)
  BY <1>0, <1>1, <1>3 DEF Fits, IsOpen, Journals
<1>. QED  BY <1>0, <1>1, <1>3, <1>4, GoesOn DEF Merged

\* What is observed may be out of date when it is believed; but that nothing has landed
\* stays so, as no merge is under way.
LEMMA ObserveKeeps == ASSUME IInv, Observe PROVE IInv'
<1>0. /\ call.step \in {"observe", "look"} /\ call \in Calls
      /\ call' = [call EXCEPT !.seen = Observation(Ours),
                              !.step = IF At("observe") THEN "conclude" ELSE "close"]
  BY DEF IInv, Observe, At, TypeOK, Calls
<1>1. InCall /\ Fits(call, op[Ours], owned[Ours], target.commit)
  BY <1>0 DEF IInv, StepInv, InCall, Idle
<1>2. /\ Observation(Ours) \in Observations
      /\ Observation(Ours) = "old-clean" => target.commit = op[Ours].expected
  BY DEF Observation, Observations
<1>3. /\ call' \in Calls /\ call'.item = call.item /\ call'.kind = call.kind
      /\ call'.seen = Observation(Ours)
      /\ call.step = "observe" => call'.step = "conclude"
      /\ call.step = "look" => call'.step = "close"
  BY <1>0, <1>2 DEF Calls, CallSteps, At
<1>4. Fits(call', op[Ours], owned[Ours], target.commit)
  BY <1>0, <1>1, <1>2, <1>3 DEF Fits
<1>. QED  BY <1>0, <1>1, <1>3, <1>4, GoesOn DEF Observe, Kinds, Transitions

LEMMA EndCallKeeps == ASSUME IInv, EndCall PROVE IInv'
<1>1. LaneInv'
  BY DEF EndCall, IInv, LaneInv, InCall, UnresolvedHoldsLane, Unresolved, Resolved
<1>2. call' = Idle /\ Idle \in Calls
  BY DEF EndCall, Idle, Calls, CallSteps, Observations
<1>. QED  BY <1>1, <1>2, CallMoves DEF EndCall, IInv, TypeOK

----------------------------------------------------------------------------
(* The calls that start, and their claims. *)

LEMMA OpenKeeps == ASSUME IInv, NEW i \in Items, OpenOperation(i) PROVE IInv'
<1>. DEFINE c == [kind |-> "integrate", item |-> i, step |-> "publish", seen |-> "none"]
<1>0. /\ call = Idle /\ child.state \notin {"waiting", "running"} /\ call' = c
      /\ op[i].phase = "none" /\ status = "active" /\ \A j \in Items : ~ Unresolved(j)
      /\ Claimable(i) /\ lane' = i
      /\ UNCHANGED <<status, opened, op, rival, owned, work, target, child, receipt>>
  BY DEF OpenOperation, LockFree, Current, ClaimLane
<1>1. c \in Calls
  BY DEF Calls, CallSteps, Observations
<1>2. UnresolvedHoldsLane' /\ lane' \in Items \cup {Nobody, Rival}
  BY <1>0, LaneClaimed
<1>3. LaneInv'
  BY <1>0, <1>2 DEF LaneInv, InCall, At, Ours, Unresolved, Resolved
<1>4. Fits(c, op[i], owned[i], target.commit)
  BY <1>0 DEF Fits
<1>. HIDE DEF c
<1>5. c.item = i /\ c.step = "publish"
  BY DEF c
<1>. QED  BY <1>0, <1>1, <1>2, <1>3, <1>4, <1>5, CallMoves DEF IInv, TypeOK

LEMMA ResumeKeeps == ASSUME IInv, NEW i \in Items, Resume(i) PROVE IInv'
<1>. DEFINE c == [kind |-> "integrate", item |-> i, seen |-> "none",
                  step |-> IF op[i].phase = "accepted" THEN "release" ELSE "claim"]
<1>0. /\ call = Idle /\ child.state \notin {"waiting", "running"} /\ call' = c
      /\ op[i].phase # "none"
      /\ UNCHANGED <<status, opened, op, lane, rival, owned, work, target, child, receipt>>
  BY DEF Resume, LockFree
<1>1. c \in Calls
  BY DEF Calls, CallSteps, Observations
<1>5. c.item = i /\ c.kind = "integrate" /\ c.seen = "none"
      /\ c.step = IF op[i].phase = "accepted" THEN "release" ELSE "claim"
  OBVIOUS
<1>. HIDE DEF c
<1>3. LaneInv'
  BY <1>0, <1>5 DEF IInv, LaneInv, InCall, At, UnresolvedHoldsLane, Unresolved, Resolved
<1>4. Fits(c, op[i], owned[i], target.commit)
  BY <1>0, <1>5 DEF Fits
<1>6. c.step \notin {"dispatch", "merge"}
  BY <1>5
<1>. QED  BY <1>0, <1>1, <1>3, <1>4, <1>5, <1>6, CallMoves DEF IInv, TypeOK

LEMMA StartCloseKeeps == ASSUME IInv, NEW i \in Items, StartClose(i) PROVE IInv'
<1>. DEFINE c == [kind |-> "close", item |-> i, seen |-> "none",
                  step |-> IF op[i].phase = "closed" THEN "release" ELSE "fence"]
<1>0. /\ call = Idle /\ child.state \notin {"waiting", "running"} /\ call' = c
      /\ op[i].phase \notin {"none", "accepted"} /\ Claimable(i) /\ lane' = i
      /\ UNCHANGED <<status, opened, op, rival, owned, work, target, child, receipt>>
  BY DEF StartClose, LockFree, ClaimLane
<1>1. c \in Calls
  BY DEF Calls, CallSteps, Observations
<1>5. c.item = i /\ c.kind = "close" /\ c.seen = "none"
      /\ c.step = IF op[i].phase = "closed" THEN "release" ELSE "fence"
  OBVIOUS
<1>. HIDE DEF c
<1>2. UnresolvedHoldsLane' /\ lane' \in Items \cup {Nobody, Rival}
  BY <1>0, LaneClaimed
<1>3. LaneInv'
  BY <1>0, <1>2, <1>5 DEF LaneInv, At
<1>4. Fits(c, op[i], owned[i], target.commit)
  BY <1>0, <1>5 DEF Fits, IsOpen
<1>6. c.step \notin {"dispatch", "merge"}
  BY <1>5
<1>. QED  BY <1>0, <1>1, <1>2, <1>3, <1>4, <1>5, <1>6, CallMoves DEF IInv, TypeOK

----------------------------------------------------------------------------
(* The ownership record. *)

LEMMA ClaimWorkspaceKeeps == ASSUME IInv, ClaimWorkspace PROVE IInv'
<1>. USE DEF IInv
<1>0. /\ call.step = "claim" /\ call \in Calls /\ InCall /\ Ours \in Items
      /\ owned' = [owned EXCEPT ![Ours] = TRUE]
      /\ lane' = (IF Claimable(Ours) THEN Ours ELSE lane)
      /\ UNCHANGED <<status, opened, op, rival, work, target, child, receipt>>
  BY DEF ClaimWorkspace, At, TypeOK, Calls, InCall, Idle, StepInv
<1>1. Fits(call, op[Ours], owned[Ours], target.commit)
  BY <1>0 DEF StepInv
<1>2. UnresolvedHoldsLane' /\ lane' \in Items \cup {Nobody, Rival}
  BY <1>0, LaneClaimed
<1>3. \/ call' = Idle
      \/ /\ op[Ours].phase \notin {"blocked", "closed"}
         /\ call' = [call EXCEPT !.step = IF op[Ours].landing = "none" THEN "current" ELSE "settle"]
  BY DEF ClaimWorkspace, Goto
<1>4. owned' \in [Items -> BOOLEAN] /\ owned'[Ours] /\ \A i \in Items : owned[i] => owned'[i]
  BY <1>0 DEF TypeOK
<1>5. call' = Idle \/
        /\ call' \in Calls /\ call'.item = Ours /\ call'.kind = call.kind
        /\ call'.step = (IF op[Ours].landing = "none" THEN "current" ELSE "settle")
  BY <1>0, <1>3 DEF Calls, CallSteps, Ours
<1>6. Journals(op[Ours]) /\ op[Ours].phase \in Phases
  BY <1>0 DEF JournalInv, TypeOK, Operation
<1>7. call' # Idle => Fits(call', op[Ours], owned'[Ours], target.commit)
  <2>. SUFFICES ASSUME call' # Idle PROVE Fits(call', op[Ours], owned'[Ours], target.commit)
    OBVIOUS
  <2>1. /\ call'.step = (IF op[Ours].landing = "none" THEN "current" ELSE "settle")
        /\ call'.kind = "integrate" /\ owned'[Ours] /\ IsOpen(op[Ours])
        /\ op[Ours].phase \in Phases \ {"none", "accepted", "blocked", "closed"}
    BY <1>0, <1>1, <1>3, <1>4, <1>5, <1>6 DEF Fits, IsOpen
  <2>2. CASE op[Ours].landing = "none"
    <3>1. op[Ours].phase \in {"intent", "composed", "validated", "landed"}
      BY <1>6, <2>1, <2>2 DEF Journals, Phases
    <3>. QED  BY <2>1, <2>2, <3>1 DEF Fits
  <2>3. CASE op[Ours].landing # "none"
    <3>1. op[Ours].phase \in {"validated", "landing", "landed"}
      BY <1>6, <2>1, <2>3 DEF Journals, Phases
    <3>. QED  BY <2>1, <2>3, <3>1 DEF Fits, IsOpen
  <2>. QED  BY <2>2, <2>3
<1>8. child.state \notin {"waiting", "running"}
  BY <1>0, Awaited DEF At, ChildInv, NoChild, Kinds, Transitions
<1>9. TypeOK'
  <2>1. call' \in Calls
    BY <1>5 DEF Idle, Calls, CallSteps, Observations
  <2>. QED  BY <1>0, <1>2, <1>4, <2>1 DEF TypeOK, Calls
<1>10. OpenedInv'
  <2>1. op' = op /\ opened' = opened /\ op \in [Items -> Operation]
    BY <1>0 DEF TypeOK
  <2>. QED  BY <2>1, OrderStays
<1>11. JournalInv'
  BY <1>0 DEF JournalInv
<1>12. LaneInv' /\ StepInv'
  BY <1>0, <1>2, <1>5, <1>7 DEF LaneInv, StepInv, InCall, At, Ours, Idle
<1>13. ChildInv'
  BY <1>0, <1>4, <1>8 DEF ChildInv
<1>14. WorkInv'
  <2>1. \A i \in Items : Holds(op[i], work[i], owned'[i])
    BY <1>4 DEF WorkInv, Holds
  <2>. QED  BY <1>0, <1>5, <2>1 DEF WorkInv, InCall, Idle
<1>. QED  BY <1>9, <1>10, <1>11, <1>12, <1>13, <1>14

LEMMA ReleaseKeeps == ASSUME IInv, Release PROVE IInv'
<1>. USE DEF IInv
<1>0. /\ call.step = "release" /\ InCall /\ Ours \in Items /\ call' = Idle
      /\ op[Ours].space = "restored" /\ op[Ours].phase \in {"accepted", "closed"}
      /\ owned' = [owned EXCEPT ![Ours] = FALSE]
      /\ UNCHANGED <<status, opened, op, lane, rival, work, target, child, receipt>>
  BY DEF Release, At, InCall, Idle, StepInv, Resolved
<1>1. owned' \in [Items -> BOOLEAN] /\ \A i \in Items \ {Ours} : owned'[i] = owned[i]
  BY <1>0 DEF TypeOK
<1>2. TypeOK'
  <2>1. Idle \in Calls
    BY DEF Idle, Calls, CallSteps, Observations
  <2>. QED  BY <1>0, <1>1, <2>1 DEF TypeOK, Calls
<1>3. OpenedInv'
  <2>1. op' = op /\ opened' = opened /\ op \in [Items -> Operation]
    BY <1>0 DEF TypeOK
  <2>. QED  BY <2>1, OrderStays
<1>4. JournalInv' /\ LaneInv' /\ StepInv'
  BY <1>0 DEF JournalInv, LaneInv, StepInv, InCall, UnresolvedHoldsLane, Unresolved, Resolved
<1>5. ChildInv'
  BY <1>0, <1>1 DEF ChildInv, IsOpen, InCall
<1>6. WorkInv'
  <2>1. \A i \in Items : Holds(op[i], work[i], owned'[i])
    BY <1>0, <1>1 DEF WorkInv, Holds
  <2>. QED  BY <1>0, <2>1 DEF WorkInv, InCall
<1>. QED  BY <1>2, <1>3, <1>4, <1>5, <1>6

----------------------------------------------------------------------------
(* The rest of the world. *)

\* Steps that touch neither the operations nor the call.
LEMMA WorldMoves ==
  ASSUME IInv, UNCHANGED <<opened, op, owned, call>>, TypeOK',
         UnresolvedHoldsLane', At("publish") => lane' = lane /\ status' = status,
         target'.commit \in {target.commit, Foreign}, ChildInv',
         \A i \in Items : work'[i] = work[i] \/ (call = Idle /\ Holds(op[i], work'[i], owned[i]))
  PROVE  IInv'
<1>. USE DEF IInv
<1>1. OpenedInv'
  <2>1. op' = op /\ opened' = opened /\ op \in [Items -> Operation]
    BY DEF TypeOK
  <2>. QED  BY <2>1, OrderStays
<1>2. JournalInv'
  BY DEF JournalInv
<1>3. LaneInv'
  BY DEF LaneInv, InCall, At, Ours, Unresolved, Resolved
<1>4. StepInv'
  <2>1. ASSUME InCall PROVE Fits(call, op[Ours], owned[Ours], target'.commit)
    BY <2>1 DEF StepInv, Fits
  <2>. QED  BY <2>1 DEF StepInv, InCall, Ours
<1>5. WorkInv'
  <2>1. \A i \in Items : Holds(op[i], work'[i], owned[i])
    BY DEF WorkInv
  <2>2. InCall => Ours \in Items
    BY DEF StepInv
  <2>. QED  BY <2>1, <2>2 DEF WorkInv, InCall, Ours
<1>. QED  BY <1>1, <1>2, <1>3, <1>4, <1>5

LEMMA ControlKeeps ==
  ASSUME IInv, NEW new \in {"active", "paused", "cancelling"}, Control(new) PROVE IInv'
<1>1. TypeOK' /\ UnresolvedHoldsLane' /\ ChildInv'
  BY DEF IInv, Control, TypeOK, LaneInv, UnresolvedHoldsLane, Unresolved, Resolved, ChildInv,
         InCall, Ours, At
<1>. QED  BY <1>1, WorldMoves DEF Control

LEMMA RivalLandsKeeps == ASSUME IInv, RivalLands PROVE IInv'
<1>0. /\ call = Idle /\ lane' = Rival /\ rival' = ~ rival
      /\ lane \in {Nobody, Rival} \/ (\E j \in Items : lane = j /\ Resolved(j))
      /\ UNCHANGED <<status, opened, op, owned, work, target, child, receipt, call>>
  BY DEF RivalLands, LockFree
<1>1. TypeOK'
  BY <1>0 DEF IInv, TypeOK
<1>2. \A i \in Items : ~ Unresolved(i)
  BY <1>0, LandingAssumption DEF IInv, LaneInv, UnresolvedHoldsLane, Unresolved
<1>3. UnresolvedHoldsLane'
  BY <1>0, <1>2 DEF UnresolvedHoldsLane, Unresolved, Resolved
<1>4. ChildInv'
  BY <1>0 DEF IInv, ChildInv, InCall
<1>5. ~ At("publish")
  BY <1>0 DEF At, Idle
<1>. QED  BY <1>0, <1>1, <1>3, <1>4, <1>5, WorldMoves

LEMMA StrayKeeps == ASSUME IInv, StrayCommit PROVE IInv'
<1>1. target' \in [commit : Seq(Items) \cup {Foreign}, clean : BOOLEAN] /\ target'.commit = Foreign
  BY DEF IInv, StrayCommit, TypeOK
<1>2. TypeOK' /\ UnresolvedHoldsLane' /\ ChildInv'
  BY <1>1 DEF IInv, StrayCommit, TypeOK, LaneInv, UnresolvedHoldsLane, Unresolved, Resolved,
              ChildInv, InCall, Ours, At
<1>. QED  BY <1>1, <1>2, WorldMoves DEF StrayCommit

LEMMA UserKeeps ==
  ASSUME IInv, UserCleans \/ (\E i \in Items : UserEdits(i)) PROVE IInv'
<1>0. /\ call = Idle /\ child = NoChild
      /\ UNCHANGED <<status, opened, op, lane, rival, owned, child, receipt, call>>
  BY DEF UserCleans, UserEdits, Quiescent
<1>1. target' \in [commit : Seq(Items) \cup {Foreign}, clean : BOOLEAN]
      /\ target'.commit = target.commit
  BY DEF IInv, UserCleans, UserEdits, TypeOK
<1>2. /\ work' \in [Items -> Contents]
      /\ \A i \in Items : work'[i] = work[i] \/ Holds(op[i], work'[i], owned[i])
  <2>1. CASE work' = work
    BY <2>1 DEF IInv, TypeOK
  <2>2. ASSUME NEW i \in Items, NEW w \in Contents, work' = [work EXCEPT ![i] = w],
               Holds(op[i], w, owned[i])
        PROVE  /\ work' \in [Items -> Contents]
               /\ \A j \in Items : work'[j] = work[j] \/ Holds(op[j], work'[j], owned[j])
    BY <2>2 DEF IInv, TypeOK
  <2>3. \A i \in Items : UserEdits(i) =>
          work' = [work EXCEPT ![i] = "edited"] /\ Holds(op[i], "edited", owned[i])
    BY DEF UserEdits, IInv, WorkInv, Holds
  <2>4. \A i \in Items :
          LET w == IF op[i].space = "composed" THEN "proposal" ELSE "candidate" IN
          Holds(op[i], w, owned[i])
    BY DEF IInv, WorkInv, Holds
  <2>. QED  BY <2>1, <2>2, <2>3, <2>4 DEF UserCleans, Contents
<1>3. TypeOK' /\ UnresolvedHoldsLane' /\ ChildInv'
  BY <1>0, <1>1, <1>2 DEF IInv, TypeOK, LaneInv, UnresolvedHoldsLane, Unresolved, Resolved, ChildInv
<1>4. ~ At("publish")
  BY <1>0 DEF At, Idle
<1>. QED  BY <1>0, <1>1, <1>2, <1>3, <1>4, WorldMoves

----------------------------------------------------------------------------
(* A step that changes one operation. *)

\* An operation that is open changes, and is not accepted by that.
LEMMA OperationMoves ==
  ASSUME IInv, NEW i \in Items, NEW n \in Operation, op' = [op EXCEPT ![i] = n],
         UNCHANGED <<opened, lane, status>>, IsOpen(op[i]), n.phase \notin {"none", "accepted"},
         n.expected = op[i].expected, Journals(n),
         call' = call \/ call' = Idle \/ call'.step # "publish"
  PROVE  /\ op' \in [Items -> Operation] /\ op'[i] = n /\ \A j \in Items \ {i} : op'[j] = op[j]
         /\ OpenedInv' /\ Chain' = Chain /\ LaneInv' /\ JournalInv'
         /\ IsOpen(n) => Stays
<1>. USE DEF IInv
<1>1. op' \in [Items -> Operation] /\ op'[i] = n /\ \A j \in Items \ {i} : op'[j] = op[j]
  BY DEF TypeOK
<1>2. OpenedInv' /\ Chain' = Chain
  <2>1. \A j \in Items : /\ op'[j].expected = op[j].expected
                         /\ op'[j].phase = "none" <=> op[j].phase = "none"
                         /\ op'[j].phase = "accepted" <=> op[j].phase = "accepted"
                         /\ op[j].phase = "closed" => op'[j].phase = "closed"
                         /\ op[j].phase = "none" => op'[j] = op[j]
    BY <1>1 DEF IsOpen
  <2>. QED  BY <1>1, <2>1, OrderStays
<1>3. JournalInv'
  BY <1>1 DEF JournalInv
<1>4. LaneInv'
  <2>1. \A j \in Items : Unresolved(j)' => Unresolved(j)
    BY <1>1 DEF Unresolved, Resolved, IsOpen
  <2>2. UnresolvedHoldsLane'
    BY <2>1 DEF LaneInv, UnresolvedHoldsLane
  <2>3. ~ (InCall /\ At("publish"))
    BY DEF LaneInv, Unresolved, Resolved, IsOpen
  <2>. QED  BY <2>2, <2>3 DEF LaneInv, InCall, At
<1>5. ASSUME IsOpen(n) PROVE Stays
  BY <1>1, <1>2, <1>5 DEF Stays, Outward, Resolved, IsOpen
<1>. QED  BY <1>1, <1>2, <1>3, <1>4, <1>5

\* A call changes its operation and goes on or ends, while no process is there, or one that
\* has been orphaned and stays journaled.
LEMMA OperationStep ==
  ASSUME IInv, InCall, Ours \in Items, NEW n \in Operation, op' = [op EXCEPT ![Ours] = n],
         UNCHANGED <<status, opened, lane, rival, work, target, child, receipt>>,
         owned' = owned \/ owned' = [owned EXCEPT ![Ours] = TRUE],
         IsOpen(op[Ours]), n.phase \notin {"none", "accepted"},
         n.expected = op[Ours].expected, Journals(n),
         child = NoChild \/ call.step \notin Kinds,
         child # NoChild => IsOpen(n) /\ Journaled(n, child.kind, "launched"),
         Holds(n, work[Ours], owned'[Ours]),
         \/ call' = Idle
         \/ /\ call' \in Calls /\ call'.item = call.item
            /\ call'.step \notin {"idle", "publish"}
            /\ call'.step \in {"dispatch", "merge"} => work[Ours] = "candidate"
            /\ Fits(call', n, owned'[Ours], target.commit)
  PROVE  IInv' /\ Chain' = Chain /\ (IsOpen(n) => Stays)
<1>. USE DEF IInv
<1>0. Idle \in Calls
  BY DEF Idle, Calls, CallSteps, Observations
<1>1. /\ op' \in [Items -> Operation] /\ op'[Ours] = n /\ \A j \in Items \ {Ours} : op'[j] = op[j]
      /\ OpenedInv' /\ Chain' = Chain /\ LaneInv' /\ JournalInv' /\ (IsOpen(n) => Stays)
  BY OperationMoves
<1>2. /\ owned' \in [Items -> BOOLEAN] /\ \A j \in Items : owned[j] => owned'[j]
      /\ \A j \in Items \ {Ours} : owned'[j] = owned[j]
  BY DEF TypeOK
<1>3. TypeOK'
  BY <1>0, <1>1, <1>2 DEF TypeOK, Calls
<1>4. StepInv'
  <2>1. ASSUME call' # Idle PROVE Fits(call', op'[call'.item], owned'[call'.item], target'.commit)
    BY <1>1, <2>1 DEF Ours
  <2>. QED  BY <2>1 DEF StepInv, InCall, Ours
<1>5. ChildInv'
  <2>. SUFFICES ASSUME child # NoChild PROVE ChildInv'
    BY DEF ChildInv
  <2>1. child.item = Ours /\ child.state = "orphan"
    BY ChildIsOurs, Awaited DEF At, ChildInv
  <2>. QED  BY <1>1, <1>2, <2>1 DEF ChildInv
<1>6. WorkInv'
  <2>1. \A j \in Items : Holds(op'[j], work[j], owned'[j])
    BY <1>1, <1>2 DEF WorkInv
  <2>. QED  BY <2>1 DEF WorkInv, InCall, Ours
<1>. QED  BY <1>1, <1>3, <1>4, <1>5, <1>6

\* A call journals the intent of a process and starts it.
LEMMA OperationStarts ==
  ASSUME IInv, InCall, Ours \in Items, NEW n \in Operation, op' = [op EXCEPT ![Ours] = n],
         NEW kind \in Kinds, Start(kind),
         UNCHANGED <<status, opened, lane, rival, owned, work, target>>,
         IsOpen(op[Ours]), IsOpen(n), n.phase # "accepted",
         n.expected = op[Ours].expected, Journals(n), owned[Ours],
         Journaled(n, kind, "intent"), kind = "merge" => work[Ours] = "candidate",
         Holds(n, work[Ours], owned[Ours]),
         Fits([call EXCEPT !.step = kind], n, owned[Ours], target.commit)
  PROVE  IInv' /\ Stays
<1>. USE DEF IInv
<1>0. /\ kind \in CallSteps \ {"publish", "dispatch", "idle"} /\ receipt' = "none"
      /\ call' = [call EXCEPT !.step = kind]
      /\ child' = [kind |-> kind, item |-> Ours, state |-> "waiting", done |-> FALSE]
      /\ call' \in Calls /\ call'.item = call.item /\ call'.step = kind
  BY GoesTo DEF Start, Kinds, Transitions, CallSteps, Ours, Goto
<1>1. /\ op' \in [Items -> Operation] /\ op'[Ours] = n /\ \A j \in Items \ {Ours} : op'[j] = op[j]
      /\ OpenedInv' /\ LaneInv' /\ JournalInv' /\ Stays
  BY <1>0, OperationMoves DEF IsOpen
<1>2. child' \in [kind : Kinds \cup {"none"}, item : Items \cup {Nobody},
                  state : {"gone", "waiting", "running", "orphan"}, done : BOOLEAN]
  BY <1>0
<1>3. TypeOK'
  BY <1>0, <1>1, <1>2 DEF TypeOK, Calls
<1>4. StepInv'
  <2>1. Fits(call', op'[call'.item], owned'[call'.item], target'.commit)
    BY <1>0, <1>1 DEF Ours
  <2>. QED  BY <1>0, <2>1 DEF StepInv, InCall, Ours
<1>5. ChildInv'
  <2>1. child'.kind = kind /\ child'.item = Ours /\ child'.state = "waiting"
    BY <1>0
  <2>. QED  BY <1>0, <1>1, <2>1 DEF ChildInv, Ours, At
<1>6. WorkInv'
  <2>1. \A j \in Items : Holds(op'[j], work[j], owned[j])
    BY <1>1 DEF WorkInv
  <2>. QED  BY <1>0, <2>1 DEF WorkInv, InCall, Ours, Kinds, Transitions
<1>. QED  BY <1>1, <1>3, <1>4, <1>5, <1>6

----------------------------------------------------------------------------
(* integrate(): the intent, the composition and the checks. *)

\* What holds of the operation at a call's step.
LEMMA AtStep ==
  ASSUME IInv, ~ At("idle")
  PROVE  /\ InCall /\ Ours \in Items /\ op[Ours] \in Operation /\ Journals(op[Ours])
         /\ Fits(call, op[Ours], owned[Ours], target.commit)
         /\ Holds(op[Ours], work[Ours], owned[Ours])
         /\ call \in Calls /\ Idle \in Calls
<1>1. InCall /\ call \in Calls
  BY DEF InCall, At, Idle, IInv, TypeOK, Calls
<1>2. Idle \in Calls
  BY DEF Idle, Calls, CallSteps, Observations
<1>. QED  BY <1>1, <1>2 DEF IInv, StepInv, JournalInv, WorkInv, TypeOK

\* An orphan is journaled as launched and has left no receipt.
LEMMA Orphaned ==
  ASSUME IInv, InCall, IsOpen(op[Ours]), Ours \in Items, child # NoChild, call.step \notin Kinds
  PROVE  /\ child.kind \in Kinds /\ receipt = "none"
         /\ Journaled(op[Ours], child.kind, "launched")
BY Awaited, ChildIsOurs DEF At, IInv, ChildInv

LEMMA PublishKeeps == ASSUME IInv, PublishIntent PROVE IInv' /\ Chain' = Chain
<1>. DEFINE n == [NoOperation EXCEPT !.phase = "intent", !.expected = Chain]
<1>. USE DEF IInv
<1>0. /\ call.step = "publish" /\ op' = [op EXCEPT ![Ours] = n] /\ opened' = Append(opened, Ours)
      /\ call' = [call EXCEPT !.step = "claim"]
      /\ UNCHANGED <<status, lane, rival, owned, work, target, child, receipt>>
  BY DEF PublishIntent, At, Set, Goto
<1>1. /\ InCall /\ Ours \in Items /\ Fits(call, op[Ours], owned[Ours], target.commit)
      /\ call \in Calls
  BY <1>0, AtStep DEF At
<1>2. /\ lane = Ours /\ op[Ours].phase = "none" /\ op[Ours] = NoOperation
      /\ \A j \in Items : ~ Unresolved(j)
  BY <1>0, <1>1 DEF LaneInv, At, OpenedInv
<1>3. NoOperation \in Operation
  BY LandingAssumption DEF NoOperation, Operation, Phases, Journal, Observations
<1>4. /\ n \in Operation /\ n.phase = "intent" /\ n.expected = Chain /\ n.space = "original"
      /\ Journals(n)
  <2>1. Chain \in Seq(Items)
    BY DEF OpenedInv
  <2>2. n \in Operation
    BY <1>3, <2>1 DEF Operation, Phases
  <2>. QED  BY <2>2 DEF NoOperation, Operation, Journals, CheckUnderWay, UnderWay
<1>. HIDE DEF n
<1>5. op' \in [Items -> Operation] /\ op'[Ours] = n /\ \A j \in Items \ {Ours} : op'[j] = op[j]
  BY <1>0, <1>1, <1>4 DEF TypeOK
<1>6. OpenedInv' /\ Chain' = Chain
  BY <1>0, <1>1, <1>2, <1>4, <1>5, OrderOpened
<1>7. /\ call' \in Calls /\ call'.item = call.item /\ call'.kind = call.kind
      /\ call'.step = "claim"
  BY <1>0, <1>1 DEF Calls, CallSteps
<1>8. TypeOK'
  <2>1. opened' \in Seq(Items)
    BY <1>0, <1>1 DEF TypeOK
  <2>. QED  BY <1>0, <1>5, <1>7, <2>1 DEF TypeOK, Calls
<1>9. LaneInv'
  <2>1. \A j \in Items : Unresolved(j)' => j = Ours
    BY <1>2, <1>5 DEF Unresolved, Resolved
  <2>. QED  BY <1>0, <1>2, <1>7, <2>1 DEF LaneInv, UnresolvedHoldsLane, At
<1>10. JournalInv'
  BY <1>4, <1>5 DEF JournalInv
<1>11. StepInv'
  <2>1. Fits(call', op'[call'.item], owned'[call'.item], target'.commit)
    BY <1>0, <1>1, <1>4, <1>5, <1>7 DEF Fits, Ours
  <2>. QED  BY <1>1, <1>7, <2>1 DEF StepInv, InCall, Ours
<1>12. ChildInv'
  <2>. SUFFICES ASSUME child # NoChild PROVE FALSE
    BY <1>0 DEF ChildInv
  <2>1. child.item \in Items /\ IsOpen(op[child.item])
    BY DEF ChildInv
  <2>. QED  BY <1>2, <2>1 DEF IsOpen, Unresolved, Resolved
<1>13. WorkInv'
  <2>1. \A j \in Items : Holds(op'[j], work[j], owned[j])
    BY <1>2, <1>4, <1>5 DEF WorkInv, Holds, NoOperation
  <2>. QED  BY <1>0, <1>7, <2>1 DEF WorkInv, InCall
<1>. QED  BY <1>6, <1>8, <1>9, <1>10, <1>11, <1>12, <1>13

LEMMA ComposeKeeps == ASSUME IInv, Compose PROVE IInv' /\ Stays
<1>. DEFINE o == op[Ours]
            n1 == [o EXCEPT !.phase = "composed", !.proposed = TRUE]
            n2 == [o EXCEPT !.phase = "blocked"]
<1>0. /\ call.step = "proceed" /\ o.phase = "intent"
      /\ UNCHANGED <<status, opened, lane, rival, owned, work, target, child, receipt>>
  BY DEF Compose, At
<1>1. /\ InCall /\ Ours \in Items /\ o \in Operation /\ Journals(o)
      /\ Fits(call, o, owned[Ours], target.commit) /\ Holds(o, work[Ours], owned[Ours])
      /\ call \in Calls
  BY <1>0, AtStep DEF At
<1>2. IsOpen(o) /\ owned[Ours]
  BY <1>0, <1>1 DEF Fits
<1>3. child # NoChild => Journaled(o, child.kind, "launched")
  BY <1>0, <1>1, <1>2, Orphaned DEF Kinds, Transitions
<1>4. PICK n : /\ op' = [op EXCEPT ![Ours] = n]
               /\ call' = Idle \/ (n.phase = "composed" /\ call' = call)
               /\ n = n1 \/ n = n2
  <2>1. n1.phase = "composed"
    BY <1>1 DEF Operation
  <2>2. \/ op' = [op EXCEPT ![Ours] = n1] /\ call' = call
        \/ op' = [op EXCEPT ![Ours] = n2] /\ call' = Idle
    BY DEF Compose, Set
  <2>. HIDE DEF o, n1, n2
  <2>. QED  BY <2>1, <2>2
<1>5. /\ n \in Operation /\ n.phase \in {"composed", "blocked"} /\ n.expected = o.expected
      /\ n.landing = o.landing /\ n.transition = o.transition /\ n.space = o.space
      /\ n.jobs = o.jobs /\ n.closing = o.closing
      /\ n.phase = "composed" => n.proposed
  BY <1>1, <1>4 DEF Operation, Phases
<1>. HIDE DEF o, n1, n2
<1>6. Journals(n)
  BY <1>0, <1>1, <1>5 DEF Journals, CheckUnderWay, UnderWay
<1>7. /\ IsOpen(n) /\ Holds(n, work[Ours], owned[Ours])
      /\ child # NoChild => Journaled(n, child.kind, "launched")
  BY <1>1, <1>3, <1>5 DEF IsOpen, Holds, Journaled
<1>8. call' = call => Fits(call, n, owned[Ours], target.commit)
  BY <1>0, <1>1, <1>2, <1>4, <1>5, <1>7 DEF Fits, Idle
<1>9. call.step \notin Kinds
  BY <1>0 DEF Kinds, Transitions
<1>. QED  BY <1>0, <1>1, <1>2, <1>4, <1>5, <1>6, <1>7, <1>8, <1>9, OperationStep DEF o

LEMMA ValidateKeeps == ASSUME IInv, Validate PROVE IInv' /\ Stays
<1>. DEFINE o == op[Ours]
            n == [o EXCEPT !.phase = "validated"]
<1>0. /\ call.step = "checks" /\ AllPass(Ours)
      /\ op' = [op EXCEPT ![Ours] = n] /\ Goto("proceed")
      /\ UNCHANGED <<status, opened, lane, rival, owned, work, target, child, receipt>>
  BY DEF Validate, At, Set
<1>1. /\ InCall /\ Ours \in Items /\ o \in Operation /\ Journals(o)
      /\ Fits(call, o, owned[Ours], target.commit) /\ Holds(o, work[Ours], owned[Ours])
      /\ call \in Calls
  BY <1>0, AtStep DEF At
<1>2. IsOpen(o) /\ owned[Ours] /\ o.phase = "composed" /\ Passed(o) /\ call.kind = "integrate"
  BY <1>0, <1>1 DEF Fits, AllPass, Passed
<1>3. child # NoChild => Journaled(o, child.kind, "launched")
  BY <1>0, <1>1, <1>2, Orphaned DEF Kinds, Transitions
<1>4. /\ call' \in Calls /\ call'.step = "proceed" /\ call'.item = call.item
      /\ call'.kind = call.kind
  BY <1>0, GoesTo DEF IInv, CallSteps
<1>5. /\ n \in Operation /\ n.phase = "validated" /\ n.expected = o.expected
      /\ n.landing = o.landing /\ n.transition = o.transition /\ n.space = o.space
      /\ n.jobs = o.jobs /\ n.closing = o.closing /\ n.proposed = o.proposed
  BY <1>1 DEF Operation, Phases
<1>. HIDE DEF o, n
<1>6. Journals(n)
  BY <1>1, <1>2, <1>5 DEF Journals, CheckUnderWay, UnderWay, Passed
<1>7. /\ IsOpen(n) /\ Holds(n, work[Ours], owned[Ours])
      /\ child # NoChild => Journaled(n, child.kind, "launched")
  BY <1>1, <1>3, <1>5 DEF IsOpen, Holds, Journaled
<1>8. Fits(call', n, owned[Ours], target.commit)
  BY <1>1, <1>2, <1>4, <1>5, <1>7 DEF Fits
<1>9. call.step \notin Kinds
  BY <1>0 DEF Kinds, Transitions
<1>. QED  BY <1>0, <1>1, <1>2, <1>4, <1>5, <1>6, <1>7, <1>8, <1>9, OperationStep DEF o

----------------------------------------------------------------------------
(* The workspace. *)

LEMMA SettleTransitionKeeps == ASSUME IInv, SettleTransition PROVE IInv' /\ Stays
<1>. DEFINE o == op[Ours]
            n == [o EXCEPT !.transition = SettledJournal(o.transition)]
<1>0. /\ call.step \in {"materialize", "restoring"} /\ UnderWay(o.transition)
      /\ ProvedExtinct(o.transition) /\ op' = [op EXCEPT ![Ours] = n] /\ call' = call
      /\ UNCHANGED <<status, opened, lane, rival, owned, work, target, child, receipt>>
  BY DEF SettleTransition, At, Set, UnderWay
<1>1. /\ InCall /\ Ours \in Items /\ o \in Operation /\ Journals(o)
      /\ Fits(call, o, owned[Ours], target.commit) /\ Holds(o, work[Ours], owned[Ours])
      /\ call \in Calls
  BY <1>0, AtStep DEF At
<1>2. IsOpen(o) /\ owned[Ours] /\ call.step \notin Kinds
  BY <1>0, <1>1 DEF Fits, Kinds, Transitions
<1>3. /\ n \in Operation /\ n.transition \in {"settled", "unlaunched"}
      /\ n.phase = o.phase /\ n.expected = o.expected /\ n.proposed = o.proposed
      /\ n.observation = o.observation
      /\ n.landing = o.landing /\ n.space = o.space /\ n.jobs = o.jobs /\ n.closing = o.closing
  BY <1>0, <1>1 DEF Operation, Journal, SettledJournal, UnderWay
<1>. HIDE DEF o, n
<1>4. child # NoChild => Journaled(n, child.kind, "launched")
  <2>. SUFFICES ASSUME child # NoChild PROVE Journaled(n, child.kind, "launched")
    OBVIOUS
  <2>1. receipt = "none" /\ Journaled(o, child.kind, "launched")
    BY <1>1, <1>2, Orphaned DEF o
  <2>. QED  BY <1>0, <1>3, <2>1 DEF Journaled, ProvedExtinct
<1>5. Journals(n)
  BY <1>1, <1>3 DEF Journals, CheckUnderWay, UnderWay, Passed
<1>6. /\ IsOpen(n) /\ n.phase \notin {"none", "accepted"} /\ Holds(n, work[Ours], owned[Ours])
  BY <1>1, <1>2, <1>3 DEF IsOpen, Holds
<1>7. Fits(call, n, owned[Ours], target.commit)
  BY <1>0, <1>1, <1>3, <1>6 DEF Fits
<1>8. call.step \notin {"idle", "publish", "dispatch", "merge"}
  BY <1>0
<1>. QED  BY <1>0, <1>1, <1>2, <1>3, <1>4, <1>5, <1>6, <1>7, <1>8, OperationStep DEF o

LEMMA MaterializedKeeps == ASSUME IInv, Materialized PROVE IInv' /\ Stays
<1>. DEFINE o == op[Ours]
            n == [o EXCEPT !.space = "composed"]
<1>0. /\ call.step = "materialize" /\ ~ UnderWay(o.transition) /\ ~ o.closing
      /\ work[Ours] = "proposal" /\ op' = [op EXCEPT ![Ours] = n] /\ Goto("checks")
      /\ UNCHANGED <<status, opened, lane, rival, owned, work, target, child, receipt>>
  BY DEF Materialized, At, Set, Quiet, UnderWay
<1>1. /\ InCall /\ Ours \in Items /\ o \in Operation /\ Journals(o)
      /\ Fits(call, o, owned[Ours], target.commit) /\ Holds(o, work[Ours], owned[Ours])
      /\ call \in Calls
  BY <1>0, AtStep DEF At
<1>2. /\ IsOpen(o) /\ owned[Ours] /\ call.step \notin Kinds /\ o.phase = "composed"
      /\ call.kind = "integrate"
  BY <1>0, <1>1 DEF Fits, Kinds, Transitions
<1>3. /\ n \in Operation /\ n.space = "composed"
      /\ n.phase = o.phase /\ n.expected = o.expected /\ n.proposed = o.proposed
      /\ n.observation = o.observation /\ n.transition = o.transition
      /\ n.landing = o.landing /\ n.jobs = o.jobs /\ n.closing = o.closing
  BY <1>1 DEF Operation
<1>4. /\ call' \in Calls /\ call'.step = "checks" /\ call'.item = call.item
      /\ call'.kind = call.kind
  BY <1>0, GoesTo DEF IInv, CallSteps
<1>. HIDE DEF o, n
<1>5. child # NoChild => Journaled(n, child.kind, "launched")
  BY <1>1, <1>2, <1>3, Orphaned DEF o, Journaled
<1>6. Journals(n)
  BY <1>0, <1>1, <1>2, <1>3 DEF Journals, CheckUnderWay, UnderWay, Passed
<1>7. /\ IsOpen(n) /\ n.phase \notin {"none", "accepted"} /\ Holds(n, work[Ours], owned[Ours])
  BY <1>0, <1>1, <1>2, <1>3 DEF IsOpen, Holds
<1>8. Fits(call', n, owned[Ours], target.commit)
  BY <1>1, <1>2, <1>3, <1>4, <1>7 DEF Fits
<1>. QED  BY <1>0, <1>1, <1>2, <1>3, <1>4, <1>5, <1>6, <1>7, <1>8, OperationStep DEF o

LEMMA TransitedKeeps == ASSUME IInv, Transited PROVE IInv' /\ Stays
<1>. DEFINE o == op[Ours]
            n == [o EXCEPT !.transition = SettledJournal(o.transition)]
            s == CASE At("switch") -> "materialize" [] At("repair") -> "checkout"
                   [] OTHER -> "restoring"
<1>0. /\ call.step \in {"switch", "repair", "restore"} /\ child = NoChild
      /\ op' = [op EXCEPT ![Ours] = n]
      /\ call' = Idle \/ Goto(s)
      /\ UNCHANGED <<status, opened, lane, rival, owned, work, target, child, receipt>>
  BY DEF Transited, At, Set, Transitions
<1>1. /\ InCall /\ Ours \in Items /\ o \in Operation /\ Journals(o)
      /\ Fits(call, o, owned[Ours], target.commit) /\ Holds(o, work[Ours], owned[Ours])
      /\ call \in Calls /\ Idle \in Calls
  BY <1>0, AtStep DEF At
<1>2. /\ IsOpen(o) /\ owned[Ours]
  BY <1>0, <1>1 DEF Fits
<1>3. /\ n \in Operation /\ ~ UnderWay(n.transition)
      /\ n.phase = o.phase /\ n.expected = o.expected /\ n.proposed = o.proposed
      /\ n.observation = o.observation
      /\ n.landing = o.landing /\ n.space = o.space /\ n.jobs = o.jobs /\ n.closing = o.closing
  BY <1>0, <1>1 DEF Operation, Journal, SettledJournal, UnderWay
<1>4. call' # Idle =>
         /\ call' \in Calls /\ call'.step = s /\ call'.item = call.item /\ call'.kind = call.kind
         /\ s \in {"materialize", "checkout", "restoring"}
         /\ s = "materialize" <=> call.step = "switch"
         /\ s = "checkout" <=> call.step = "repair"
  BY <1>0, GoesTo DEF IInv, CallSteps, At
<1>. HIDE DEF o, n, s
<1>5. Journals(n)
  BY <1>1, <1>3 DEF Journals, CheckUnderWay, UnderWay, Passed
<1>6. /\ IsOpen(n) /\ n.phase \notin {"none", "accepted"} /\ Holds(n, work[Ours], owned[Ours])
  BY <1>1, <1>2, <1>3 DEF IsOpen, Holds
<1>7. call' # Idle => Fits(call', n, owned[Ours], target.commit)
  BY <1>0, <1>1, <1>2, <1>3, <1>4, <1>6 DEF Fits
<1>. QED  BY <1>0, <1>1, <1>2, <1>3, <1>4, <1>5, <1>6, <1>7, OperationStep DEF o

LEMMA FenceKeeps == ASSUME IInv, FenceChecks PROVE IInv' /\ Stays
<1>. DEFINE o == op[Ours]
            n == [o EXCEPT !.closing = TRUE]
<1>0. /\ call.step = "fence" /\ ChecksSettled(Ours) /\ owned' = [owned EXCEPT ![Ours] = TRUE]
      /\ op' = [op EXCEPT ![Ours] = n] /\ Goto("restoring")
      /\ UNCHANGED <<status, opened, lane, rival, work, target, child, receipt>>
  BY DEF FenceChecks, At, Set
<1>1. /\ InCall /\ Ours \in Items /\ o \in Operation /\ Journals(o)
      /\ Fits(call, o, owned[Ours], target.commit) /\ Holds(o, work[Ours], owned[Ours])
      /\ call \in Calls
  BY <1>0, AtStep DEF At
<1>2. IsOpen(o) /\ call.step \notin Kinds /\ owned'[Ours]
  BY <1>0, <1>1 DEF Fits, Kinds, Transitions, IInv, TypeOK
<1>3. /\ n \in Operation /\ n.closing
      /\ n.phase = o.phase /\ n.expected = o.expected /\ n.proposed = o.proposed
      /\ n.observation = o.observation /\ n.transition = o.transition
      /\ n.landing = o.landing /\ n.jobs = o.jobs /\ n.space = o.space
  BY <1>1 DEF Operation
<1>4. /\ call' \in Calls /\ call'.step = "restoring" /\ call'.item = call.item
      /\ call'.kind = call.kind
  BY <1>0, GoesTo DEF IInv, CallSteps
<1>5. ~ CheckUnderWay(o)
  BY <1>0 DEF CheckUnderWay, ChecksSettled, UnderWay
<1>. HIDE DEF o, n
<1>6. child # NoChild => Journaled(n, child.kind, "launched")
  BY <1>1, <1>2, <1>3, Orphaned DEF o, Journaled
<1>7. Journals(n)
  BY <1>1, <1>3, <1>5 DEF Journals, CheckUnderWay, UnderWay, Passed
<1>8. /\ IsOpen(n) /\ n.phase \notin {"none", "accepted"} /\ Holds(n, work[Ours], owned'[Ours])
  BY <1>1, <1>2, <1>3 DEF IsOpen, Holds
<1>9. Fits(call', n, owned'[Ours], target.commit)
  BY <1>0, <1>1, <1>2, <1>3, <1>4, <1>8 DEF Fits
<1>. QED  BY <1>0, <1>1, <1>2, <1>3, <1>4, <1>6, <1>7, <1>8, <1>9, OperationStep DEF o

LEMMA RestoredKeeps == ASSUME IInv, Restored PROVE IInv' /\ Stays
<1>. DEFINE o == op[Ours]
            n == [o EXCEPT !.space = "restored"]
            s == IF call.kind = "integrate" THEN "dispatch"
                 ELSE IF o.landing = "none" THEN "look" ELSE "settle"
<1>0. /\ call.step = "restoring" /\ ~ UnderWay(o.transition) /\ work[Ours] = "candidate"
      /\ op' = [op EXCEPT ![Ours] = n] /\ Goto(s)
      /\ UNCHANGED <<status, opened, lane, rival, owned, work, target, child, receipt>>
  BY DEF Restored, At, Set, Quiet, UnderWay, BackAtCandidate, AfterRestore
<1>1. /\ InCall /\ Ours \in Items /\ o \in Operation /\ Journals(o)
      /\ Fits(call, o, owned[Ours], target.commit) /\ Holds(o, work[Ours], owned[Ours])
      /\ call \in Calls
  BY <1>0, AtStep DEF At
<1>2. IsOpen(o) /\ owned[Ours] /\ call.step \notin Kinds /\ o.closing
  BY <1>0, <1>1 DEF Fits, Kinds, Transitions
<1>3. /\ n \in Operation /\ n.space = "restored"
      /\ n.phase = o.phase /\ n.expected = o.expected /\ n.proposed = o.proposed
      /\ n.observation = o.observation /\ n.transition = o.transition
      /\ n.landing = o.landing /\ n.jobs = o.jobs /\ n.closing = o.closing
  BY <1>1 DEF Operation
<1>4. /\ call' \in Calls /\ call'.step = s /\ call'.item = call.item
      /\ call'.kind = call.kind /\ s \in {"dispatch", "look", "settle"}
      /\ s = "dispatch" <=> call.kind = "integrate"
      /\ s = "settle" => o.landing # "none"
      /\ s = "look" => o.landing = "none"
  BY <1>0, GoesTo DEF IInv, CallSteps
<1>. HIDE DEF o, n, s
<1>5. child # NoChild => Journaled(n, child.kind, "launched")
  BY <1>1, <1>2, <1>3, Orphaned DEF o, Journaled
<1>6. Journals(n)
  BY <1>0, <1>1, <1>2, <1>3 DEF Journals, CheckUnderWay, UnderWay, Passed
<1>7. /\ IsOpen(n) /\ n.phase \notin {"none", "accepted"} /\ Holds(n, work[Ours], owned[Ours])
  BY <1>0, <1>1, <1>2, <1>3 DEF IsOpen, Holds
<1>8. Fits(call', n, owned[Ours], target.commit)
  BY <1>0, <1>1, <1>2, <1>3, <1>4, <1>7 DEF Fits, UnderWay
<1>. QED  BY <1>0, <1>1, <1>2, <1>3, <1>4, <1>5, <1>6, <1>7, <1>8, OperationStep DEF o

\* A transition is journaled and started when nothing else of the operation is under way.
LEMMA TransitKeeps ==
  ASSUME IInv, NEW kind \in Transitions, NEW phase \in {"switching", "restoring"},
         Transit(kind, phase), ~ At("idle"), call.step \notin Kinds,
         IsOpen(op[Ours]), owned[Ours], ~ UnderWay(op[Ours].transition),
         ~ CheckUnderWay(op[Ours]),
         op[Ours].space # "restored", work[Ours] # "altered",
         phase = "switching" => op[Ours].phase = "composed" /\ kind = "switch",
         phase = "restoring" => kind # "switch" /\ op[Ours].closing,
         call.kind = "integrate" =>
           op[Ours].phase = IF phase = "switching" THEN "composed" ELSE "validated",
         kind = "switch" => call.kind = "integrate"
  PROVE  IInv' /\ Stays /\ child = NoChild
<1>. DEFINE o == op[Ours]
            n == [o EXCEPT !.space = phase, !.transition = "intent"]
            c == [call EXCEPT !.step = kind]
<1>0. /\ op' = [op EXCEPT ![Ours] = n] /\ Start(kind)
      /\ UNCHANGED <<status, opened, lane, rival, owned, work, target>>
  BY DEF Transit, Set
<1>1. /\ InCall /\ Ours \in Items /\ o \in Operation /\ Journals(o)
      /\ Fits(call, o, owned[Ours], target.commit) /\ Holds(o, work[Ours], owned[Ours])
      /\ call \in Calls
  BY AtStep
<1>2. /\ n \in Operation /\ n.space = phase /\ n.transition = "intent"
      /\ n.phase = o.phase /\ n.expected = o.expected /\ n.proposed = o.proposed
      /\ n.observation = o.observation
      /\ n.landing = o.landing /\ n.jobs = o.jobs /\ n.closing = o.closing
  BY <1>1 DEF Operation, Journal
<1>3. /\ kind \in Kinds /\ kind # "merge" /\ kind # "check" /\ kind \in CallSteps
  BY DEF Kinds, Transitions, CallSteps
<1>4. c.step = kind /\ c.kind = call.kind
  BY <1>1 DEF Calls
<1>5. o.landing = "none" /\ o.phase \notin {"landing", "landed", "accepted", "closed"}
  BY <1>1 DEF Journals
<1>. HIDE DEF o, n, c
<1>6. Journals(n)
  BY <1>1, <1>2, <1>5 DEF o, Journals, CheckUnderWay, UnderWay, Passed
<1>7. /\ IsOpen(n) /\ n.phase # "accepted" /\ Holds(n, work[Ours], owned[Ours])
      /\ Journaled(n, kind, "intent")
  BY <1>1, <1>2, <1>3 DEF IsOpen, Holds, Journaled, o
<1>8. Fits(c, n, owned[Ours], target.commit)
  BY <1>1, <1>2, <1>4, <1>5, <1>7 DEF Fits, Transitions, o
<1>9. child = NoChild
  <2>. SUFFICES ASSUME child # NoChild PROVE FALSE
    OBVIOUS
  <2>1. Journaled(o, child.kind, "launched")
    BY <1>1, Orphaned DEF o
  <2>. QED  BY <1>5, <2>1 DEF Journaled, UnderWay, CheckUnderWay, o
<1>. QED  BY <1>0, <1>1, <1>2, <1>3, <1>6, <1>7, <1>8, <1>9, OperationStarts DEF o, c

LEMMA MaterializeKeeps == ASSUME IInv, Materialize PROVE IInv' /\ Stays /\ child = NoChild
<1>0. /\ call.step = "materialize" /\ ~ UnderWay(op[Ours].transition)
      /\ op[Ours].space \in {"original", "switching"} /\ work[Ours] = "candidate"
      /\ Transit("switch", "switching")
  BY DEF Materialize, At, Quiet, UnderWay
<1>1. Journals(op[Ours]) /\ Fits(call, op[Ours], owned[Ours], target.commit)
  BY <1>0, AtStep DEF At
<1>2. /\ IsOpen(op[Ours]) /\ owned[Ours] /\ call.kind = "integrate"
      /\ op[Ours].phase = "composed"
  BY <1>0, <1>1 DEF Fits
<1>3. ~ CheckUnderWay(op[Ours])
  BY <1>0, <1>1 DEF Journals
<1>. QED  BY <1>0, <1>2, <1>3, TransitKeeps DEF At, Kinds, Transitions

LEMMA RestoringKeeps ==
  ASSUME IInv, Restore \/ Repair \/ Checkout
  PROVE  IInv' /\ Stays /\ child = NoChild
<1>0. /\ call.step \in {"restoring", "checkout"}
      /\ call.step = "restoring" => /\ ~ UnderWay(op[Ours].transition)
                                    /\ op[Ours].space # "restored"
                                    /\ work[Ours] = "proposal" \/ op[Ours].space # "composed"
      /\ Transit("restore", "restoring") \/ Transit("repair", "restoring")
  BY DEF Restore, Repair, Checkout, At, Quiet, UnderWay, PartialCheckout
<1>1. /\ Journals(op[Ours]) /\ Fits(call, op[Ours], owned[Ours], target.commit)
      /\ Holds(op[Ours], work[Ours], owned[Ours])
  BY <1>0, AtStep DEF At
<1>2. /\ IsOpen(op[Ours]) /\ owned[Ours] /\ op[Ours].closing
      /\ call.kind = "integrate" => op[Ours].phase = "validated"
      /\ ~ UnderWay(op[Ours].transition) /\ op[Ours].space # "restored"
  BY <1>0, <1>1 DEF Fits
<1>3. ~ CheckUnderWay(op[Ours])
  BY <1>1, <1>2 DEF Journals
<1>4. work[Ours] # "altered"
  BY <1>0, <1>1 DEF Fits, Holds
<1>. QED  BY <1>0, <1>2, <1>3, <1>4, TransitKeeps DEF At, Kinds, Transitions

----------------------------------------------------------------------------
(* The checks of the proposal. *)

LEMMA PrepareCheckKeeps ==
  ASSUME IInv, NEW k \in 1..Commands, PrepareCheck(k)
  PROVE  IInv' /\ Stays /\ child = NoChild
<1>. DEFINE o == op[Ours]
            n == [o EXCEPT !.jobs = [o.jobs EXCEPT ![k] = "intent"]]
            c == [call EXCEPT !.step = "check"]
<1>0. /\ call.step = "checks" /\ o.jobs[k] = "none" /\ CurrentCheck(Ours, k)
      /\ op' = [op EXCEPT ![Ours] = n] /\ Start("check")
      /\ UNCHANGED <<status, opened, lane, rival, owned, work, target>>
  BY DEF PrepareCheck, At, Set
<1>1. /\ InCall /\ Ours \in Items /\ o \in Operation /\ Journals(o)
      /\ Fits(call, o, owned[Ours], target.commit) /\ Holds(o, work[Ours], owned[Ours])
      /\ call \in Calls
  BY <1>0, AtStep DEF At
<1>2. /\ IsOpen(o) /\ owned[Ours] /\ o.phase = "composed" /\ o.space = "composed" /\ ~ o.closing
      /\ call.kind = "integrate" /\ o.landing = "none"
      /\ \A m \in (1..Commands) \ {k} : ~ UnderWay(o.jobs[m])
  BY <1>0, <1>1 DEF Fits, CurrentCheck, Journals, UnderWay
<1>3. /\ n \in Operation /\ n.jobs[k] = "intent" /\ n.space = o.space
      /\ n.phase = o.phase /\ n.expected = o.expected /\ n.proposed = o.proposed
      /\ n.observation = o.observation /\ n.transition = o.transition
      /\ n.landing = o.landing /\ n.closing = o.closing
      /\ \A m \in (1..Commands) \ {k} : n.jobs[m] = o.jobs[m]
  BY <1>1 DEF Operation
<1>4. c.step = "check" /\ c.kind = call.kind
  BY <1>1 DEF Calls
<1>. HIDE DEF o, n, c
<1>5. Journals(n)
  BY <1>1, <1>2, <1>3 DEF Journals, CheckUnderWay, UnderWay, Passed
<1>6. /\ IsOpen(n) /\ n.phase # "accepted" /\ Holds(n, work[Ours], owned[Ours])
      /\ Journaled(n, "check", "intent")
  BY <1>1, <1>2, <1>3 DEF IsOpen, Holds, Journaled
<1>7. Fits(c, n, owned[Ours], target.commit)
  BY <1>1, <1>2, <1>3, <1>4, <1>6 DEF Fits
<1>8. "check" \in Kinds
  BY DEF Kinds
<1>9. child = NoChild
  <2>. SUFFICES ASSUME child # NoChild PROVE FALSE
    OBVIOUS
  <2>1. Journaled(o, child.kind, "launched")
    BY <1>0, <1>1, <1>2, Orphaned DEF o, Kinds, Transitions
  <2>2. ~ UnderWay(o.transition)
    BY <1>1, <1>2 DEF Journals
  <2>. QED  BY <1>0, <1>2, <2>1, <2>2 DEF Journaled, UnderWay, o
<1>. QED  BY <1>0, <1>1, <1>2, <1>3, <1>5, <1>6, <1>7, <1>8, <1>9, OperationStarts DEF o, c

\* The journal of a check after it has ended.
LEMMA JobEnds ==
  ASSUME NEW o \in Operation, Journals(o), NEW k \in 1..Commands, UnderWay(o.jobs[k]),
         NEW r \in {"PASS", "BLOCKED"}, NEW n,
         n = [o EXCEPT !.jobs = [o.jobs EXCEPT ![k] = r]]
  PROVE  /\ n \in Operation /\ Journals(n) /\ IsOpen(o) /\ o.phase = "composed"
         /\ o.space = "composed"
         /\ n.phase = o.phase /\ n.expected = o.expected /\ n.proposed = o.proposed
         /\ n.observation = o.observation /\ n.transition = o.transition /\ n.space = o.space
         /\ n.landing = o.landing /\ n.closing = o.closing
<1>1. /\ n \in Operation /\ n.jobs[k] = r /\ n.space = o.space
      /\ n.phase = o.phase /\ n.expected = o.expected /\ n.proposed = o.proposed
      /\ n.observation = o.observation /\ n.transition = o.transition
      /\ n.landing = o.landing /\ n.closing = o.closing
      /\ \A m \in (1..Commands) \ {k} : n.jobs[m] = o.jobs[m]
  BY DEF Operation
<1>2. o.phase = "composed" /\ o.space = "composed" /\ ~ o.closing /\ o.landing = "none"
  BY DEF Journals, CheckUnderWay
<1>3. Journals(n)
  BY <1>1, <1>2 DEF Journals, CheckUnderWay, UnderWay, Passed
<1>. QED  BY <1>1, <1>2, <1>3 DEF IsOpen

LEMMA CheckedKeeps == ASSUME IInv, NEW k \in 1..Commands, Checked(k) PROVE IInv' /\ Stays
<1>. DEFINE o == op[Ours]
            n == [o EXCEPT !.jobs = [o.jobs EXCEPT ![k] = CheckResult]]
<1>0. /\ call.step = "check" /\ UnderWay(o.jobs[k]) /\ child = NoChild
      /\ op' = [op EXCEPT ![Ours] = n] /\ Goto("checks") /\ CheckResult \in {"PASS", "BLOCKED"}
      /\ UNCHANGED <<status, opened, lane, rival, owned, work, target, child, receipt>>
  BY DEF Checked, At, Set, UnderWay, CheckResult
<1>1. /\ InCall /\ Ours \in Items /\ o \in Operation /\ Journals(o)
      /\ Fits(call, o, owned[Ours], target.commit) /\ Holds(o, work[Ours], owned[Ours])
      /\ call \in Calls
  BY <1>0, AtStep DEF At
<1>. HIDE DEF o
<1>2. /\ n \in Operation /\ Journals(n) /\ IsOpen(o) /\ o.phase = "composed"
      /\ o.space = "composed"
      /\ n.phase = o.phase /\ n.expected = o.expected /\ n.proposed = o.proposed
      /\ n.observation = o.observation /\ n.transition = o.transition /\ n.space = o.space
      /\ n.landing = o.landing /\ n.closing = o.closing
  BY <1>0, <1>1, JobEnds
<1>3. owned[Ours] /\ call.kind = "integrate"
  BY <1>0, <1>1 DEF Fits
<1>4. /\ call' \in Calls /\ call'.step = "checks" /\ call'.item = call.item
      /\ call'.kind = call.kind
  BY <1>0, GoesTo DEF IInv, CallSteps
<1>. HIDE DEF n
<1>5. /\ IsOpen(n) /\ n.phase \notin {"none", "accepted"} /\ Holds(n, work[Ours], owned[Ours])
  BY <1>1, <1>2 DEF IsOpen, Holds
<1>6. Fits(call', n, owned[Ours], target.commit)
  BY <1>1, <1>2, <1>3, <1>4, <1>5 DEF Fits
<1>. QED  BY <1>0, <1>1, <1>2, <1>3, <1>4, <1>5, <1>6, OperationStep DEF o

LEMMA RecoverKeeps ==
  ASSUME IInv, NEW i \in Items, NEW k \in 1..Commands, RecoverCheck(i, k) PROVE IInv' /\ Stays
<1>. DEFINE o == op[i]
            n == [o EXCEPT !.jobs = [o.jobs EXCEPT ![k] = "BLOCKED"]]
<1>. USE DEF IInv
<1>0. /\ UnderWay(o.jobs[k]) /\ receipt # "none" /\ op' = [op EXCEPT ![i] = n]
      /\ UNCHANGED <<status, opened, lane, rival, owned, work, target, child, receipt, call>>
  BY DEF RecoverCheck, Set, UnderWay
<1>1. o \in Operation /\ Journals(o)
  BY DEF TypeOK, JournalInv
<1>. HIDE DEF o
<1>2. /\ n \in Operation /\ Journals(n) /\ IsOpen(o)
      /\ n.phase = o.phase /\ n.expected = o.expected /\ n.proposed = o.proposed
      /\ n.observation = o.observation /\ n.transition = o.transition /\ n.space = o.space
      /\ n.landing = o.landing /\ n.closing = o.closing
  BY <1>0, <1>1, JobEnds
<1>. HIDE DEF n
<1>3. /\ op' \in [Items -> Operation] /\ op'[i] = n /\ \A j \in Items \ {i} : op'[j] = op[j]
      /\ OpenedInv' /\ LaneInv' /\ JournalInv' /\ Stays
  BY <1>0, <1>1, <1>2, OperationMoves DEF o, IsOpen
<1>4. TypeOK'
  BY <1>0, <1>3 DEF TypeOK
<1>5. StepInv'
  <2>1. ASSUME InCall PROVE Fits(call, op'[Ours], owned[Ours], target.commit)
    <3>1. CASE Ours # i
      BY <1>3, <2>1, <3>1 DEF StepInv
    <3>2. CASE Ours = i
      BY <1>2, <1>3, <2>1, <3>2 DEF StepInv, Fits, IsOpen, o
    <3>. QED  BY <3>1, <3>2
  <2>. QED  BY <1>0, <2>1 DEF StepInv, InCall, Ours
<1>6. ChildInv'
  BY <1>0 DEF ChildInv
<1>7. WorkInv'
  <2>1. \A j \in Items : Holds(op'[j], work[j], owned[j])
    BY <1>2, <1>3 DEF WorkInv, Holds, o
  <2>. QED  BY <1>0, <2>1 DEF WorkInv, InCall, Ours
<1>. QED  BY <1>3, <1>4, <1>5, <1>6, <1>7

----------------------------------------------------------------------------
(* The merge. *)

LEMMA DispatchKeeps == ASSUME IInv, Dispatch PROVE IInv' /\ Stays /\ child = NoChild
<1>. DEFINE o == op[Ours]
            n == [o EXCEPT !.phase = "landing", !.dispatches = o.dispatches + 1,
                           !.landing = "intent"]
            c == [call EXCEPT !.step = "merge"]
<1>0. /\ call.step = "dispatch" /\ AllPass(Ours) /\ o.dispatches < 2
      /\ op' = [op EXCEPT ![Ours] = n] /\ Start("merge")
      /\ UNCHANGED <<status, opened, lane, rival, owned, work, target>>
  BY DEF Dispatch, At, Set, Redispatchable
<1>1. /\ InCall /\ Ours \in Items /\ o \in Operation /\ Journals(o)
      /\ Fits(call, o, owned[Ours], target.commit) /\ Holds(o, work[Ours], owned[Ours])
      /\ call \in Calls
  BY <1>0, AtStep DEF At
<1>2. /\ IsOpen(o) /\ owned[Ours] /\ o.phase = "validated" /\ o.space = "restored"
      /\ call.kind = "integrate" /\ Passed(o) /\ work[Ours] = "candidate"
  BY <1>0, <1>1 DEF Fits, AllPass, Passed, IInv, WorkInv
<1>3. /\ n \in Operation /\ n.phase = "landing" /\ n.landing = "intent" /\ n.space = o.space
      /\ n.expected = o.expected /\ n.proposed = o.proposed
      /\ n.observation = o.observation /\ n.transition = o.transition
      /\ n.jobs = o.jobs /\ n.closing = o.closing
  <2>1. o.dispatches + 1 \in 0..2
    BY <1>0, <1>1 DEF Operation
  <2>. QED  BY <1>1, <2>1 DEF Operation, Phases, Journal
<1>4. c.step = "merge" /\ c.kind = call.kind
  BY <1>1 DEF Calls
<1>. HIDE DEF o, n, c
<1>5. Journals(n)
  BY <1>1, <1>2, <1>3 DEF Journals, CheckUnderWay, UnderWay, Passed
<1>6. /\ IsOpen(n) /\ n.phase # "accepted" /\ Holds(n, work[Ours], owned[Ours])
      /\ Journaled(n, "merge", "intent")
  BY <1>1, <1>2, <1>3 DEF IsOpen, Holds, Journaled
<1>7. Fits(c, n, owned[Ours], target.commit)
  BY <1>1, <1>2, <1>3, <1>4, <1>6 DEF Fits
<1>8. "merge" \in Kinds
  BY DEF Kinds
<1>9. child = NoChild
  <2>. SUFFICES ASSUME child # NoChild PROVE FALSE
    OBVIOUS
  <2>1. Journaled(o, child.kind, "launched")
    BY <1>0, <1>1, <1>2, Orphaned DEF o, Kinds, Transitions
  <2>2. ~ UnderWay(o.transition) /\ ~ UnderWay(o.landing)
    BY <1>1, <1>2 DEF Journals
  <2>. QED  BY <1>2, <2>1, <2>2 DEF Journaled, UnderWay, Passed
<1>. QED  BY <1>0, <1>1, <1>2, <1>3, <1>5, <1>6, <1>7, <1>8, <1>9, OperationStarts DEF o, c

\* An operation whose merge was attempted has no other process, and once the merge is extinct
\* it has none.
LEMMA OnlyTheMerge ==
  ASSUME IInv, InCall, Ours \in Items, IsOpen(op[Ours]), call.step \notin Kinds,
         Journals(op[Ours]), op[Ours].landing # "none",
         ProvedExtinct(op[Ours].landing)
  PROVE  child = NoChild
<1>1. Passed(op[Ours]) /\ op[Ours].space = "restored"
  BY DEF Journals
<1>2. SUFFICES ASSUME child # NoChild PROVE FALSE
  OBVIOUS
<1>3. receipt = "none" /\ Journaled(op[Ours], child.kind, "launched")
  BY <1>2, Orphaned
<1>. QED  BY <1>1, <1>3 DEF Journaled, Passed, Journals, UnderWay, ProvedExtinct

LEMMA SettleLandingKeeps == ASSUME IInv, SettleLanding PROVE IInv' /\ Stays
<1>. DEFINE o == op[Ours]
            n == [o EXCEPT !.landing = SettledJournal(o.landing)]
<1>0. /\ call.step = "settle" /\ ProvedExtinct(o.landing)
      /\ op' = [op EXCEPT ![Ours] = n] /\ Goto("observe")
      /\ UNCHANGED <<status, opened, lane, rival, owned, work, target, child, receipt>>
  BY DEF SettleLanding, At, Set
<1>1. /\ InCall /\ Ours \in Items /\ o \in Operation /\ Journals(o)
      /\ Fits(call, o, owned[Ours], target.commit) /\ Holds(o, work[Ours], owned[Ours])
      /\ call \in Calls
  BY <1>0, AtStep DEF At
<1>2. /\ IsOpen(o) /\ owned[Ours] /\ call.step \notin Kinds /\ o.landing # "none"
  BY <1>0, <1>1 DEF Fits, Kinds, Transitions
<1>3. /\ n \in Operation /\ ~ UnderWay(n.landing) /\ n.landing # "none"
      /\ n.phase = o.phase /\ n.expected = o.expected /\ n.proposed = o.proposed
      /\ n.observation = o.observation /\ n.transition = o.transition
      /\ n.space = o.space /\ n.jobs = o.jobs /\ n.closing = o.closing
  BY <1>1, <1>2 DEF Operation, Journal, SettledJournal, UnderWay
<1>4. /\ call' \in Calls /\ call'.step = "observe" /\ call'.item = call.item
      /\ call'.kind = call.kind
  BY <1>0, GoesTo DEF IInv, CallSteps
<1>5. child = NoChild
  BY <1>0, <1>1, <1>2, OnlyTheMerge
<1>. HIDE DEF o, n
<1>6. Journals(n)
  BY <1>1, <1>2, <1>3 DEF Journals, CheckUnderWay, UnderWay, Passed
<1>7. /\ IsOpen(n) /\ n.phase \notin {"none", "accepted"} /\ Holds(n, work[Ours], owned[Ours])
  BY <1>1, <1>2, <1>3 DEF IsOpen, Holds
<1>8. Fits(call', n, owned[Ours], target.commit)
  BY <1>0, <1>1, <1>2, <1>3, <1>4, <1>7 DEF Fits
<1>. QED  BY <1>0, <1>1, <1>2, <1>3, <1>4, <1>5, <1>6, <1>7, <1>8, OperationStep DEF o

LEMMA ConcludeKeeps == ASSUME IInv, Conclude PROVE IInv' /\ Stays
<1>. DEFINE o == op[Ours]
            n == Concluded(o, call.seen)
            s == IF call.kind = "close" THEN "look" ELSE "current"
<1>0. /\ call.step = "conclude" /\ op' = [op EXCEPT ![Ours] = n]
      /\ \/ Goto(s) /\ (call.kind = "close" \/ n.phase # "blocked")
         \/ call' = Idle
      /\ UNCHANGED <<status, opened, lane, rival, owned, work, target, child, receipt>>
  BY DEF Conclude, At, Set
<1>1. /\ InCall /\ Ours \in Items /\ o \in Operation /\ Journals(o)
      /\ Fits(call, o, owned[Ours], target.commit) /\ Holds(o, work[Ours], owned[Ours])
      /\ call \in Calls
  BY <1>0, AtStep DEF At
<1>2. /\ IsOpen(o) /\ owned[Ours] /\ call.step \notin Kinds /\ o.landing # "none"
      /\ ~ UnderWay(o.landing) /\ call.seen \in Observations
  BY <1>0, <1>1 DEF Fits, Kinds, Transitions, Calls
<1>3. /\ n \in Operation /\ n.phase \in {"landed", "validated", "blocked"}
      /\ n.landing = o.landing /\ n.expected = o.expected /\ n.proposed = o.proposed
      /\ n.observation = call.seen /\ n.transition = o.transition
      /\ n.space = o.space /\ n.jobs = o.jobs /\ n.closing = o.closing
      /\ n.phase = "landed" => n.observation = "new-clean"
  <2>1. n \in Operation
    BY <1>1, <1>2 DEF Operation, Phases, Concluded
  <2>. QED  BY <1>1, <2>1 DEF Operation, Concluded
<1>4. call' # Idle =>
         /\ call' \in Calls /\ call'.step = s /\ call'.item = call.item /\ call'.kind = call.kind
         /\ s \in {"look", "current"}
         /\ s = "look" <=> call.kind = "close"
         /\ s = "current" => n.phase # "blocked"
  BY <1>0, GoesTo DEF IInv, CallSteps
<1>5. child = NoChild
  BY <1>1, <1>2, OnlyTheMerge DEF ProvedExtinct, UnderWay
<1>. HIDE DEF o, n, s
<1>6. Journals(n)
  BY <1>1, <1>2, <1>3 DEF Journals, CheckUnderWay, UnderWay, Passed
<1>7. /\ IsOpen(n) /\ n.phase \notin {"none", "accepted"} /\ Holds(n, work[Ours], owned[Ours])
  BY <1>1, <1>2, <1>3 DEF IsOpen, Holds
<1>8. call' # Idle => Fits(call', n, owned[Ours], target.commit)
  <2>1. n.space = "restored" /\ ~ UnderWay(n.landing)
    BY <1>1, <1>2, <1>3 DEF Journals
  <2>. QED  BY <1>0, <1>1, <1>2, <1>3, <1>4, <1>7, <2>1 DEF Fits
<1>. QED  BY <1>0, <1>1, <1>2, <1>3, <1>4, <1>5, <1>6, <1>7, <1>8, OperationStep DEF o

----------------------------------------------------------------------------
(* The end of an operation. *)

LEMMA CloseKeeps == ASSUME IInv, Close PROVE IInv' /\ Chain' = Chain /\ child = NoChild
<1>. DEFINE o == op[Ours]
            n == [o EXCEPT !.phase = "closed", !.observation = call.seen]
<1>0. /\ call.step = "close" /\ ChecksSettled(Ours) /\ call.seen \in {"old-clean", "new-clean"}
      /\ op' = [op EXCEPT ![Ours] = n] /\ Goto("release")
      /\ UNCHANGED <<status, opened, lane, rival, owned, work, target, child, receipt>>
  BY DEF Close, Closable, At, Set
<1>1. /\ InCall /\ Ours \in Items /\ o \in Operation /\ Journals(o)
      /\ Fits(call, o, owned[Ours], target.commit) /\ Holds(o, work[Ours], owned[Ours])
      /\ call \in Calls
  BY <1>0, AtStep DEF At
<1>2. /\ IsOpen(o) /\ owned[Ours] /\ call.step \notin Kinds /\ o.space = "restored"
      /\ ~ UnderWay(o.landing) /\ call.kind = "close"
  BY <1>0, <1>1 DEF Fits, Kinds, Transitions
<1>3. /\ n \in Operation /\ n.phase = "closed" /\ n.observation = call.seen
      /\ n.landing = o.landing /\ n.expected = o.expected /\ n.proposed = o.proposed
      /\ n.transition = o.transition
      /\ n.space = o.space /\ n.jobs = o.jobs /\ n.closing = o.closing
  BY <1>0, <1>1 DEF Operation, Phases, Calls
<1>4. /\ call' \in Calls /\ call'.step = "release" /\ call'.item = call.item
      /\ call'.kind = call.kind
  BY <1>0, GoesTo DEF IInv, CallSteps
<1>5. ~ CheckUnderWay(o)
  BY <1>0 DEF CheckUnderWay, ChecksSettled, UnderWay
<1>6. child = NoChild
  <2>. SUFFICES ASSUME child # NoChild PROVE FALSE
    OBVIOUS
  <2>1. Journaled(o, child.kind, "launched")
    BY <1>1, <1>2, Orphaned
  <2>2. ~ UnderWay(o.transition)
    BY <1>1, <1>2 DEF Journals
  <2>. QED  BY <1>2, <1>5, <2>1, <2>2 DEF Journaled, UnderWay, CheckUnderWay
<1>. HIDE DEF o, n
<1>7. Journals(n)
  BY <1>0, <1>1, <1>2, <1>3, <1>5 DEF Journals, CheckUnderWay, UnderWay, Passed
<1>8. /\ n.phase \notin {"none", "accepted"} /\ Holds(n, work[Ours], owned[Ours])
  BY <1>1, <1>2, <1>3 DEF Holds
<1>9. Fits(call', n, owned[Ours], target.commit)
  BY <1>1, <1>2, <1>3, <1>4 DEF Fits
<1>. QED  BY <1>0, <1>1, <1>2, <1>3, <1>4, <1>6, <1>7, <1>8, <1>9, OperationStep DEF o

LEMMA AcceptKeeps ==
  ASSUME IInv, Accept PROVE IInv' /\ Chain' = Append(Chain, Ours) /\ child = NoChild
<1>. DEFINE o == op[Ours]
            n == [o EXCEPT !.phase = "accepted"]
<1>. USE DEF IInv
<1>0. /\ call.step = "proceed" /\ o.phase = "landed" /\ AllPass(Ours)
      /\ op' = [op EXCEPT ![Ours] = n] /\ Goto("release")
      /\ UNCHANGED <<status, opened, lane, rival, owned, work, target, child, receipt>>
  BY DEF Accept, Acceptable, At, Set
<1>1. /\ InCall /\ Ours \in Items /\ o \in Operation /\ Journals(o)
      /\ Fits(call, o, owned[Ours], target.commit) /\ Holds(o, work[Ours], owned[Ours])
      /\ call \in Calls
  BY <1>0, AtStep DEF At
<1>2. /\ IsOpen(o) /\ call.step \notin Kinds /\ o.space = "restored" /\ Passed(o)
      /\ o.landing # "none" /\ ~ UnderWay(o.landing) /\ o.observation = "new-clean" /\ o.proposed
  BY <1>0, <1>1 DEF Journals, IsOpen, Kinds, Transitions
<1>3. /\ n \in Operation /\ n.phase = "accepted" /\ n.observation = o.observation
      /\ n.landing = o.landing /\ n.expected = o.expected /\ n.proposed = o.proposed
      /\ n.transition = o.transition
      /\ n.space = o.space /\ n.jobs = o.jobs /\ n.closing = o.closing
  BY <1>1 DEF Operation, Phases
<1>4. /\ call' \in Calls /\ call'.step = "release" /\ call'.item = call.item
      /\ call'.kind = call.kind
  BY <1>0, GoesTo DEF CallSteps
<1>5. child = NoChild
  BY <1>1, <1>2, OnlyTheMerge DEF ProvedExtinct, UnderWay
<1>6. op' \in [Items -> Operation] /\ op'[Ours] = n /\ \A j \in Items \ {Ours} : op'[j] = op[j]
  BY <1>0, <1>1, <1>3 DEF TypeOK
<1>7. Unresolved(Ours)
  BY <1>2 DEF Unresolved, Resolved, IsOpen
<1>. HIDE DEF o, n
<1>8. OpenedInv' /\ Chain' = Append(Chain, Ours)
  BY <1>0, <1>1, <1>3, <1>6, <1>7, OrderAccepted DEF o
<1>9. Journals(n) /\ Holds(n, work[Ours], owned[Ours])
  BY <1>1, <1>2, <1>3 DEF Journals, CheckUnderWay, UnderWay, Passed, Holds
<1>10. TypeOK'
  BY <1>0, <1>4, <1>6 DEF TypeOK, Calls
<1>11. LaneInv'
  <2>0. \A j \in Items \ {Ours} : ~ Unresolved(j)
    BY <1>1, <1>7 DEF LaneInv, UnresolvedHoldsLane
  <2>1. \A j \in Items : ~ Unresolved(j)'
    BY <1>3, <1>6, <2>0 DEF Unresolved, Resolved
  <2>. QED  BY <1>4, <2>1 DEF LaneInv, UnresolvedHoldsLane, At
<1>12. JournalInv'
  BY <1>6, <1>9 DEF JournalInv
<1>13. StepInv'
  <2>1. Fits(call', op'[call'.item], owned'[call'.item], target'.commit)
    BY <1>0, <1>1, <1>3, <1>4, <1>6 DEF Fits, Ours
  <2>. QED  BY <1>1, <1>4, <2>1 DEF StepInv, InCall, Ours
<1>14. ChildInv'
  BY <1>0, <1>5 DEF ChildInv
<1>15. WorkInv'
  <2>1. \A j \in Items : Holds(op'[j], work[j], owned[j])
    BY <1>6, <1>9 DEF WorkInv
  <2>. QED  BY <1>0, <1>4, <2>1 DEF WorkInv, InCall
<1>. QED  BY <1>5, <1>8, <1>10, <1>11, <1>12, <1>13, <1>14, <1>15

----------------------------------------------------------------------------
(* The process. *)

\* What the gate publishes of a process that is journaled as intended.
Named(o, kind) ==
  CASE kind = "merge" -> [o EXCEPT !.landing = "launched"]
    [] kind = "check" -> [o EXCEPT !.jobs =
         [k \in 1..Commands |-> IF o.jobs[k] = "intent" THEN "launched" ELSE o.jobs[k]]]
    [] OTHER -> [o EXCEPT !.transition = "launched"]

LEMMA NamedFits ==
  ASSUME NEW o \in Operation, Journals(o), NEW kind \in Kinds,
         Journaled(o, kind, "intent") \/ Journaled(o, kind, "launched")
  PROVE  /\ Named(o, kind) \in Operation /\ Journals(Named(o, kind))
         /\ Named(o, kind).phase = o.phase /\ Named(o, kind).expected = o.expected
         /\ Named(o, kind).space = o.space /\ Named(o, kind).closing = o.closing
         /\ Named(o, kind).landing = "none" <=> o.landing = "none"
         /\ Journaled(Named(o, kind), kind, "launched")
<1>. DEFINE n == Named(o, kind)
<1>1. CASE kind = "merge"
  <2>1. /\ n \in Operation /\ n.landing = "launched" /\ n.phase = o.phase
        /\ n.expected = o.expected /\ n.proposed = o.proposed /\ n.transition = o.transition
        /\ n.observation = o.observation /\ n.space = o.space /\ n.jobs = o.jobs
        /\ n.closing = o.closing
    BY <1>1 DEF Named, Operation, Journal
  <2>2. UnderWay(o.landing) /\ o.landing # "none"
    BY <1>1 DEF Journaled, UnderWay
  <2>. HIDE DEF n
  <2>3. Journals(n)
    BY <2>1, <2>2 DEF Journals, CheckUnderWay, UnderWay, Passed
  <2>. QED  BY <1>1, <2>1, <2>2, <2>3 DEF Journaled, n
<1>2. CASE kind = "check"
  <2>. DEFINE js == [k \in 1..Commands |->
                       IF o.jobs[k] = "intent" THEN "launched" ELSE o.jobs[k]]
  <2>0. /\ n = [o EXCEPT !.jobs = js]
        /\ js \in [1..Commands -> {"none", "intent", "launched", "PASS", "BLOCKED"}]
        /\ \A k \in 1..Commands : js[k] = IF o.jobs[k] = "intent" THEN "launched" ELSE o.jobs[k]
    <3>1. \A k \in 1..Commands : o.jobs[k] \in {"none", "intent", "launched", "PASS", "BLOCKED"}
      BY DEF Operation
    <3>. QED  BY <1>2, <3>1 DEF Named
  <2>. HIDE DEF js
  <2>1. /\ n \in Operation /\ n.landing = o.landing /\ n.phase = o.phase
        /\ n.expected = o.expected /\ n.proposed = o.proposed /\ n.transition = o.transition
        /\ n.observation = o.observation /\ n.space = o.space /\ n.closing = o.closing
        /\ \A k \in 1..Commands :
             n.jobs[k] = IF o.jobs[k] = "intent" THEN "launched" ELSE o.jobs[k]
    BY <2>0 DEF Operation
  <2>. HIDE DEF n
  <2>2. Journals(n)
    BY <2>1 DEF Journals, CheckUnderWay, UnderWay, Passed
  <2>. QED  BY <1>2, <2>1, <2>2 DEF Journaled, n
<1>3. CASE kind \notin {"merge", "check"}
  <2>1. /\ n \in Operation /\ n.landing = o.landing /\ n.phase = o.phase
        /\ n.expected = o.expected /\ n.proposed = o.proposed /\ n.transition = "launched"
        /\ n.observation = o.observation /\ n.space = o.space /\ n.jobs = o.jobs
        /\ n.closing = o.closing
    BY <1>3 DEF Named, Operation, Journal
  <2>2. UnderWay(o.transition)
    BY <1>3 DEF Journaled, UnderWay
  <2>. HIDE DEF n
  <2>3. Journals(n)
    BY <2>1, <2>2 DEF Journals, CheckUnderWay, UnderWay, Passed
  <2>. QED  BY <1>3, <2>1, <2>2, <2>3 DEF Journaled, n
<1>. QED  BY <1>1, <1>2, <1>3

LEMMA LaunchKeeps == ASSUME IInv, Launch \/ LaunchLost PROVE IInv' /\ Stays
<1>. DEFINE o == op[Ours]
            n == Named(o, child.kind)
<1>. USE DEF IInv
<1>0. /\ call.step \in Kinds /\ child.kind = call.step /\ child.state = "waiting"
      /\ op' = [op EXCEPT ![Ours] = n]
      /\ \/ child' = [child EXCEPT !.state = "running"] /\ call' = call
         \/ child' = child /\ call' = Idle
      /\ UNCHANGED <<status, opened, lane, rival, owned, work, target, receipt>>
  BY DEF Launch, LaunchLost, Identified, Set, Named
<1>1. /\ InCall /\ Ours \in Items /\ o \in Operation /\ Journals(o)
      /\ Fits(call, o, owned[Ours], target.commit) /\ Holds(o, work[Ours], owned[Ours])
      /\ call \in Calls /\ Idle \in Calls
  BY <1>0, AtStep DEF At, Kinds, Transitions
<1>2. child # NoChild
  BY <1>0 DEF NoChild
<1>3. /\ child.item = Ours /\ receipt = "none" /\ owned[Ours] /\ IsOpen(o)
      /\ Journaled(o, child.kind, "intent") \/ Journaled(o, child.kind, "launched")
      /\ child.kind = "merge" => work[Ours] = "candidate"
  BY <1>0, <1>1, <1>2 DEF ChildInv
<1>. HIDE DEF o, n
<1>4. /\ n \in Operation /\ Journals(n) /\ n.phase = o.phase /\ n.expected = o.expected
      /\ n.space = o.space /\ n.closing = o.closing /\ (n.landing = "none" <=> o.landing = "none")
      /\ Journaled(n, child.kind, "launched")
  BY <1>0, <1>1, <1>3, NamedFits DEF n
<1>5. /\ IsOpen(n) /\ n.phase \notin {"none", "accepted"} /\ Holds(n, work[Ours], owned[Ours])
  BY <1>1, <1>3, <1>4 DEF IsOpen, Holds
<1>6. /\ op' \in [Items -> Operation] /\ op'[Ours] = n /\ \A j \in Items \ {Ours} : op'[j] = op[j]
      /\ OpenedInv' /\ LaneInv' /\ JournalInv' /\ Stays
  BY <1>0, <1>1, <1>3, <1>4, <1>5, OperationMoves DEF o
<1>7. /\ child'.kind = child.kind /\ child'.item = Ours /\ child'.state \in {"running", "waiting"}
      /\ child' \in [kind : Kinds \cup {"none"}, item : Items \cup {Nobody},
                     state : {"gone", "waiting", "running", "orphan"}, done : BOOLEAN]
      /\ child' # NoChild
  BY <1>0, <1>1, <1>3 DEF TypeOK, NoChild
<1>8. TypeOK'
  BY <1>0, <1>1, <1>6, <1>7 DEF TypeOK, Calls
<1>9. StepInv'
  <2>1. ASSUME call' = call PROVE Fits(call, op'[Ours], owned[Ours], target.commit)
    BY <1>0, <1>1, <1>3, <1>4, <1>5, <1>6 DEF Fits, Kinds, Transitions
  <2>. QED  BY <1>0, <1>1, <2>1 DEF StepInv, InCall, Ours
<1>10. ChildInv'
  BY <1>0, <1>1, <1>3, <1>4, <1>5, <1>6, <1>7 DEF ChildInv, InCall, Ours, At
<1>11. WorkInv'
  <2>1. \A j \in Items : Holds(op'[j], work[j], owned[j])
    BY <1>5, <1>6 DEF WorkInv
  <2>. QED  BY <1>0, <2>1 DEF WorkInv, InCall, Ours
<1>. QED  BY <1>6, <1>8, <1>9, <1>10, <1>11

\* A step of the process, or its end.
LEMMA ProcessMoves ==
  ASSUME IInv, UNCHANGED <<status, opened, op, lane, rival, owned, call>>, TypeOK', ChildInv',
         \A i \in Items : Holds(op[i], work'[i], owned[i]),
         InCall /\ call.step \in {"dispatch", "merge"} => work'[Ours] = "candidate",
         InCall => Fits(call, op[Ours], owned[Ours], target'.commit)
  PROVE  IInv'
<1>. USE DEF IInv
<1>1. OpenedInv'
  <2>1. op' = op /\ opened' = opened /\ op \in [Items -> Operation]
    BY DEF TypeOK
  <2>. QED  BY <2>1, OrderStays
<1>2. JournalInv' /\ LaneInv'
  BY DEF JournalInv, LaneInv, InCall, At, Ours, UnresolvedHoldsLane, Unresolved, Resolved
<1>3. StepInv'
  BY DEF StepInv, InCall, Ours
<1>4. WorkInv'
  BY DEF WorkInv, InCall, Ours
<1>. QED  BY <1>1, <1>2, <1>3, <1>4

\* What a process that runs is about.
LEMMA Running ==
  ASSUME IInv, Alive
  PROVE  /\ child # NoChild /\ child.item \in Items /\ child.kind \in Kinds /\ receipt = "none"
         /\ IsOpen(op[child.item]) /\ owned[child.item] /\ Journals(op[child.item])
         /\ Journaled(op[child.item], child.kind, "launched")
         /\ Holds(op[child.item], work[child.item], owned[child.item])
<1>1. child # NoChild
  BY DEF Alive, NoChild
<1>. QED  BY <1>1 DEF IInv, ChildInv, Alive, JournalInv, WorkInv

\* The process changes its workspace, which it does only while the journal says so.
LEMMA ProcessWrites ==
  ASSUME IInv, Alive, NEW w \in Contents, ChildDoes(w), child.kind # "merge",
         child.kind # "check" => w # "altered",
         child' = child \/ Finished
  PROVE  IInv'
<1>. DEFINE o == op[child.item]
<1>. USE DEF IInv
<1>0. /\ work' = [work EXCEPT ![child.item] = w]
      /\ UNCHANGED <<status, opened, op, lane, rival, owned, target, receipt, call>>
  BY DEF ChildDoes
<1>1. /\ child # NoChild /\ child.item \in Items /\ child.kind \in Kinds /\ IsOpen(o)
      /\ owned[child.item] /\ Journals(o) /\ Journaled(o, child.kind, "launched")
  BY Running
<1>2. o.space \notin {"original", "restored"} /\ (w = "altered" => o.space = "composed")
  BY <1>1 DEF Journals, Journaled, UnderWay, CheckUnderWay, Kinds
<1>3. /\ child' \in [kind : Kinds \cup {"none"}, item : Items \cup {Nobody},
                     state : {"gone", "waiting", "running", "orphan"}, done : BOOLEAN]
      /\ child'.kind = child.kind /\ child'.item = child.item /\ child'.state = child.state
  BY DEF Finished, TypeOK
<1>4. TypeOK'
  BY <1>0, <1>3 DEF TypeOK
<1>5. work'[child.item] = w /\ \A i \in Items \ {child.item} : work'[i] = work[i]
  BY <1>0, <1>1 DEF TypeOK
<1>6. ChildInv'
  BY <1>0, <1>1, <1>3 DEF ChildInv, InCall, Ours, At
<1>7. \A i \in Items : Holds(op[i], work'[i], owned[i])
  BY <1>1, <1>2, <1>5 DEF WorkInv, Holds
<1>8. ASSUME InCall, call.step \in {"dispatch", "merge"} PROVE work'[Ours] = "candidate"
  <2>1. Ours \in Items /\ op[Ours].space = "restored"
    BY <1>8 DEF StepInv, Fits, JournalInv, Journals
  <2>2. Ours # child.item
    BY <1>2, <2>1
  <2>. QED  BY <1>5, <1>8, <2>1, <2>2 DEF WorkInv
<1>9. InCall => Fits(call, op[Ours], owned[Ours], target'.commit)
  BY <1>0 DEF StepInv
<1>. QED  BY <1>0, <1>4, <1>6, <1>7, <1>8, <1>9, ProcessMoves

LEMMA CheckoutKeeps == ASSUME IInv, CheckoutBegins \/ CheckoutFinishes PROVE IInv'
<1>1. Alive /\ child.kind \in Transitions
  BY DEF CheckoutBegins, CheckoutFinishes, Transitions
<1>2. PICK w \in Contents \ {"altered"} : ChildDoes(w) /\ (child' = child \/ Finished)
  BY DEF CheckoutBegins, CheckoutFinishes, Contents
<1>. QED  BY <1>1, <1>2, ProcessWrites DEF Transitions

LEMMA CheckWritesKeeps == ASSUME IInv, CheckEdits PROVE IInv'
<1>1. Alive /\ child.kind = "check" /\ child' = child
  BY DEF CheckEdits
<1>2. PICK w \in Contents : ChildDoes(w)
  BY DEF CheckEdits, Contents
<1>. QED  BY <1>1, <1>2, ProcessWrites

LEMMA CheckPassesKeeps == ASSUME IInv, CheckPasses PROVE IInv'
<1>. USE DEF IInv
<1>0. /\ child' = [child EXCEPT !.done = TRUE]
      /\ UNCHANGED <<status, opened, op, lane, rival, owned, work, target, receipt, call>>
  BY DEF CheckPasses, Finished
<1>1. child # NoChild
  BY DEF CheckPasses, Alive, NoChild
<1>2. /\ child' \in [kind : Kinds \cup {"none"}, item : Items \cup {Nobody},
                     state : {"gone", "waiting", "running", "orphan"}, done : BOOLEAN]
      /\ child'.kind = child.kind /\ child'.item = child.item /\ child'.state = child.state
  BY <1>0 DEF TypeOK
<1>3. TypeOK'
  BY <1>0, <1>2 DEF TypeOK
<1>4. ChildInv'
  BY <1>0, <1>1, <1>2 DEF ChildInv, InCall, Ours, At
<1>. QED  BY <1>0, <1>3, <1>4, ProcessMoves DEF WorkInv, StepInv

\* What the merge does to the target while a call is about to close its operation: nothing.
LEMMA MergeKeeps == ASSUME IInv, MergeBegins \/ MergeMoves PROVE IInv'
<1>. USE DEF IInv
<1>0. /\ Alive /\ child.kind = "merge"
      /\ child' = child \/ child' = [child EXCEPT !.done = TRUE]
      /\ target'.commit = target.commit \/ target'.commit = Proposal(child.item)
      /\ UNCHANGED <<status, opened, op, lane, rival, owned, work, receipt, call>>
  BY DEF MergeBegins, MergeMoves, Finished, TypeOK
<1>1. /\ child # NoChild /\ child.item \in Items /\ IsOpen(op[child.item])
      /\ op[child.item].landing = "launched" /\ op[child.item] \in Operation
  BY <1>0, Running DEF Journaled, TypeOK
<1>2. /\ child' \in [kind : Kinds \cup {"none"}, item : Items \cup {Nobody},
                     state : {"gone", "waiting", "running", "orphan"}, done : BOOLEAN]
      /\ child'.kind = child.kind /\ child'.item = child.item /\ child'.state = child.state
  BY <1>0 DEF TypeOK
<1>3. target' \in [commit : Seq(Items) \cup {Foreign}, clean : BOOLEAN]
  <2>1. Proposal(child.item) \in Seq(Items)
    BY <1>1 DEF Proposal, Operation
  <2>2. MergeBegins => target' \in [commit : Seq(Items) \cup {Foreign}, clean : BOOLEAN]
    BY DEF MergeBegins, TypeOK
  <2>3. MergeMoves => target' \in [commit : Seq(Items) \cup {Foreign}, clean : BOOLEAN]
    BY <2>1 DEF MergeMoves
  <2>. QED  BY <2>2, <2>3
<1>4. TypeOK'
  BY <1>0, <1>2, <1>3 DEF TypeOK
<1>5. ChildInv'
  BY <1>0, <1>1, <1>2 DEF ChildInv, InCall, Ours, At
<1>6. ASSUME InCall PROVE Fits(call, op[Ours], owned[Ours], target'.commit)
  <2>1. Fits(call, op[Ours], owned[Ours], target.commit) /\ Ours \in Items
    BY <1>6 DEF StepInv
  <2>2. call.step # "close"
    BY <1>1, <2>1, ChildIsOurs DEF Fits, UnderWay
  <2>. QED  BY <2>1, <2>2 DEF Fits
<1>. QED  BY <1>0, <1>4, <1>5, <1>6, ProcessMoves DEF WorkInv

LEMMA ProcessEndsKeeps ==
  ASSUME IInv, ChildEnds \/ KillSupervisor \/ OrphanEnds PROVE IInv'
<1>. USE DEF IInv
<1>0. /\ child' = NoChild \/ (child.state = "running" /\ child' = [child EXCEPT !.state = "orphan"]
                              /\ receipt' = receipt)
      /\ receipt' \in {"none", "unused", "failed", "ok"}
      /\ UNCHANGED <<status, opened, op, lane, rival, owned, work, target, call>>
  BY DEF ChildEnds, KillSupervisor, OrphanEnds, TypeOK
<1>1. CASE child' = NoChild
  <2>1. child' \in [kind : Kinds \cup {"none"}, item : Items \cup {Nobody},
                    state : {"gone", "waiting", "running", "orphan"}, done : BOOLEAN]
    BY <1>1 DEF NoChild
  <2>2. TypeOK'
    BY <1>0, <2>1 DEF TypeOK
  <2>3. ChildInv'
    BY <1>1 DEF ChildInv
  <2>. QED  BY <1>0, <2>2, <2>3, ProcessMoves DEF WorkInv, StepInv
<1>2. CASE child.state = "running" /\ child' = [child EXCEPT !.state = "orphan"]
           /\ receipt' = receipt
  <2>0. child # NoChild
    BY <1>2 DEF NoChild
  <2>1. /\ child' \in [kind : Kinds \cup {"none"}, item : Items \cup {Nobody},
                       state : {"gone", "waiting", "running", "orphan"}, done : BOOLEAN]
        /\ child'.kind = child.kind /\ child'.item = child.item /\ child'.state = "orphan"
    BY <1>2 DEF TypeOK
  <2>2. TypeOK'
    BY <1>0, <2>1 DEF TypeOK
  <2>3. ChildInv'
    BY <1>0, <1>2, <2>0, <2>1 DEF ChildInv
  <2>. QED  BY <1>0, <2>2, <2>3, ProcessMoves DEF WorkInv, StepInv
<1>. QED  BY <1>0, <1>1, <1>2

----------------------------------------------------------------------------
(* Every step. *)

\* The steps by which an operation is opened, lands, is accepted or closed.
Outer == PublishIntent \/ MergeMoves \/ Accept \/ Close

LEMMA NothingOpens ==
  ASSUME IInv, UNCHANGED <<opened, op>> PROVE Stays
<1>1. op' = op /\ opened' = opened /\ op \in [Items -> Operation]
  BY DEF IInv, TypeOK
<1>2. Chain' = Chain
  BY <1>1, OrderStays DEF IInv
<1>. QED  BY <1>1, <1>2 DEF Stays, Outward, Resolved

LEMMA CallStepKeeps == ASSUME IInv, CallStep PROVE IInv' /\ (~ Outer => Stays)
<1>1. CASE Integrate
  <2>1. CASE PublishIntent
    BY <2>1, PublishKeeps DEF Outer
  <2>2. CASE ClaimWorkspace
    BY <2>2, ClaimWorkspaceKeeps, NothingOpens DEF ClaimWorkspace
  <2>3. CASE CheckCurrent
    BY <2>3, CheckCurrentKeeps, NothingOpens DEF CheckCurrent
  <2>4. CASE Compose
    BY <2>4, ComposeKeeps
  <2>5. CASE Proceed
    BY <2>5, ProceedKeeps, NothingOpens DEF Proceed
  <2>6. CASE Materialized \/ Materialize
    BY <2>6, MaterializedKeeps, MaterializeKeeps
  <2>7. CASE \E k \in 1..Commands : PrepareCheck(k) \/ Checked(k)
    BY <2>7, PrepareCheckKeeps, CheckedKeeps
  <2>8. CASE Validate \/ Dispatch
    BY <2>8, ValidateKeeps, DispatchKeeps
  <2>9. CASE Merged
    BY <2>9, MergedKeeps, NothingOpens DEF Merged
  <2>10. CASE Accept
    BY <2>10, AcceptKeeps DEF Outer
  <2>. QED  BY <1>1, <2>1, <2>2, <2>3, <2>4, <2>5, <2>6, <2>7, <2>8, <2>9, <2>10 DEF Integrate
<1>2. CASE Shared
  <2>1. CASE SettleTransition \/ Transited
    BY <2>1, SettleTransitionKeeps, TransitedKeeps
  <2>2. CASE FenceChecks \/ Restored \/ Restore \/ Repair \/ Checkout
    BY <2>2, FenceKeeps, RestoredKeeps, RestoringKeeps
  <2>3. CASE Launch
    BY <2>3, LaunchKeeps
  <2>4. CASE SettleLanding \/ Conclude
    BY <2>4, SettleLandingKeeps, ConcludeKeeps
  <2>5. CASE Observe
    BY <2>5, ObserveKeeps, NothingOpens DEF Observe
  <2>6. CASE Release
    BY <2>6, ReleaseKeeps, NothingOpens DEF Release
  <2>. QED  BY <1>2, <2>1, <2>2, <2>3, <2>4, <2>5, <2>6 DEF Shared
<1>3. CASE Close
  BY <1>3, CloseKeeps DEF Outer
<1>. QED  BY <1>1, <1>2, <1>3 DEF CallStep

LEMMA StepKeeps == ASSUME IInv, Next PROVE IInv' /\ (~ Outer => Stays)
<1>1. CASE CallStep
  BY <1>1, CallStepKeeps
<1>2. CASE EndCall
  BY <1>2, EndCallKeeps, NothingOpens DEF EndCall
<1>3. CASE LaunchLost
  BY <1>3, LaunchKeeps
<1>4. CASE Progress \/ CheckEdits
  <2>1. IInv'
    BY <1>4, CheckoutKeeps, CheckPassesKeeps, CheckWritesKeeps, MergeKeeps DEF Progress
  <2>2. UNCHANGED <<opened, op>>
    BY <1>4 DEF Progress, CheckEdits, CheckoutBegins, CheckoutFinishes, ChildDoes, CheckPasses,
               MergeBegins, MergeMoves
  <2>. QED  BY <2>1, <2>2, NothingOpens
<1>5. CASE ChildEnds \/ KillSupervisor \/ OrphanEnds
  <2>1. UNCHANGED <<opened, op>>
    BY <1>5 DEF ChildEnds, KillSupervisor, OrphanEnds
  <2>. QED  BY <1>5, <2>1, ProcessEndsKeeps, NothingOpens
<1>6. CASE RivalLands
  BY <1>6, RivalLandsKeeps, NothingOpens DEF RivalLands
<1>7. CASE StrayCommit
  BY <1>7, StrayKeeps, NothingOpens DEF StrayCommit
<1>8. CASE UserCleans
  BY <1>8, UserKeeps, NothingOpens DEF UserCleans
<1>9. CASE \E new \in {"active", "paused", "cancelling"} : Control(new)
  BY <1>9, ControlKeeps, NothingOpens DEF Control
<1>10. ASSUME NEW i \in Items, OpenOperation(i) \/ Resume(i) \/ StartClose(i) \/ UserEdits(i)
       PROVE  IInv' /\ (~ Outer => Stays)
  <2>1. IInv'
    BY <1>10, OpenKeeps, ResumeKeeps, StartCloseKeeps, UserKeeps
  <2>2. UNCHANGED <<opened, op>>
    BY <1>10 DEF OpenOperation, Resume, StartClose, UserEdits
  <2>. QED  BY <2>1, <2>2, NothingOpens
<1>11. ASSUME NEW i \in Items, NEW k \in 1..Commands, RecoverCheck(i, k)
       PROVE  IInv' /\ (~ Outer => Stays)
  BY <1>11, RecoverKeeps
<1>. QED  BY <1>1, <1>2, <1>3, <1>4, <1>5, <1>6, <1>7, <1>8, <1>9, <1>10, <1>11 DEF Next

LEMMA StutterKeeps == ASSUME IInv, UNCHANGED vars PROVE IInv'
<1>1. TypeOK' /\ UnresolvedHoldsLane' /\ ChildInv'
  BY DEF vars, IInv, TypeOK, LaneInv, UnresolvedHoldsLane, Unresolved, Resolved, ChildInv, InCall,
         Ours, At
<1>. QED  BY <1>1, WorldMoves DEF vars

\* The records, the journals and the calls in progress fit together, for any items and any
\* number of commands, whatever ends or dies.
THEOREM LandingInvariant == Spec => []IInv
<1>1. IInv /\ [Next]_vars => IInv'
  BY StepKeeps, StutterKeeps
<1>. QED  BY InitInv, <1>1, PTL DEF Spec

\* Of the audit of git-state.ts: no publication that it refuses is ever made.
THEOREM AuditNeverRefuses == Spec => []AuditGit
<1>1. ASSUME IInv PROVE AuditGit
  <2>1. TypeOK /\ OperationsJoin
    BY <1>1 DEF IInv, OpenedInv
  <2>2. ASSUME NEW i \in Items PROVE Journals(op[i]) /\ op[i] \in Operation
    BY <1>1 DEF IInv, JournalInv, TypeOK
  <2>3. ASSUME NEW i \in Items
        PROVE  /\ op[i].phase \notin {"none", "intent", "blocked", "closed"} => op[i].proposed
               /\ op[i].phase \in {"landing", "landed", "accepted", "closed"} =>
                    op[i].space = "restored" /\ Quiet(i)
               /\ op[i].phase \in {"validated", "landing", "landed", "accepted"} =>
                    \A k \in 1..Commands : op[i].jobs[k] = "PASS"
    BY <2>2 DEF Journals, Quiet, UnderWay, Passed
  <2>4. ASSUME NEW i \in Items, op[i].phase \in {"landed", "accepted"}
        PROVE  op[i].landing \in {"settled", "unlaunched"} /\ op[i].observation = "new-clean"
    BY <2>2, <2>4 DEF Journals, UnderWay, Operation, Journal
  <2>5. ASSUME NEW i \in Items, op[i].phase = "closed"
        PROVE  /\ op[i].observation \in {"old-clean", "new-clean"}
               /\ op[i].landing \notin {"intent", "launched"}
               /\ \A k \in 1..Commands : op[i].jobs[k] \notin {"intent", "launched"}
    BY <2>2, <2>5 DEF Journals, UnderWay, CheckUnderWay
  <2>. QED  BY <2>1, <2>3, <2>4, <2>5 DEF AuditGit
<1>. QED  BY <1>1, LandingInvariant, PTL

\* The claim of the lane, the ownership of the workspaces and the extinction of what is
\* resolved are as recorded.
THEOREM RecordsStayTrue == Spec => []RecordsAreTrue
<1>1. ASSUME IInv PROVE RecordsAreTrue
  <2>1. UnresolvedHoldsLane
    BY <1>1 DEF IInv, LaneInv
  <2>2. ResolvedIsExtinct
    BY <1>1, LandingAssumption DEF IInv, ChildInv, ResolvedIsExtinct, Resolved, IsOpen, NoChild
  <2>3. OnlyOwnedIsSwitched
    BY <1>1 DEF IInv, WorkInv, Holds, OnlyOwnedIsSwitched, TypeOK
  <2>. QED  BY <2>1, <2>2, <2>3 DEF RecordsAreTrue
<1>. QED  BY <1>1, LandingInvariant, PTL

----------------------------------------------------------------------------
(* What a step may never do. *)

\* Only a process of an operation writes into a workspace, apart from its user.
LEMMA OnlyProcessesWrite ==
  ASSUME Next
  PROVE  \/ work' = work
         \/ CheckoutBegins \/ CheckoutFinishes \/ CheckEdits
         \/ UserCleans \/ (\E i \in Items : UserEdits(i))
<1>1. CallStep => work' = work
  BY DEF CallStep, Integrate, Shared, PublishIntent, ClaimWorkspace, CheckCurrent, Compose, Proceed,
         Materialized, Materialize, PrepareCheck, Checked, Validate, Dispatch, Merged, Accept,
         SettleTransition, Transited, FenceChecks, Restored, Restore, Repair, Checkout, Transit,
         Launch, Identified, SettleLanding, Observe, Conclude, Release, Close
<1>2. EndCall \/ LaunchLost \/ CheckPasses \/ MergeBegins \/ MergeMoves \/ ChildEnds
        \/ KillSupervisor \/ OrphanEnds \/ RivalLands \/ StrayCommit => work' = work
  BY DEF EndCall, LaunchLost, Identified, CheckPasses, MergeBegins, MergeMoves, ChildEnds,
         KillSupervisor, OrphanEnds, RivalLands, StrayCommit
<1>3. \A new : Control(new) => work' = work
  BY DEF Control
<1>4. \A i : OpenOperation(i) \/ Resume(i) \/ StartClose(i) => work' = work
  BY DEF OpenOperation, Resume, StartClose
<1>5. \A i, k : RecoverCheck(i, k) => work' = work
  BY DEF RecoverCheck
<1>. QED  BY <1>1, <1>2, <1>3, <1>4, <1>5 DEF Next, Progress

\* A checkout never runs over what a user or a check has changed: what looks like half a
\* checkout is repaired only where the journal proves that it is one.
THEOREM ChangesAreKept == Spec => ChangesSurvive
<1>. DEFINE Kept == \A i \in Items :
              work[i] \in {"edited", "altered"} /\ work'[i] # work[i] =>
                work'[i] \in {"edited", "altered"} \/ Quiescent
<1>1. ASSUME IInv, Next PROVE Kept
  <2>. SUFFICES ASSUME NEW i \in Items, work[i] \in {"edited", "altered"}, work'[i] # work[i],
                       ~ Quiescent
                PROVE  work'[i] \in {"edited", "altered"}
    OBVIOUS
  <2>1. work \in [Items -> Contents]
    BY <1>1 DEF IInv, TypeOK
  <2>2. CASE CheckoutBegins
    <3>1. Alive /\ child.item = i /\ child.kind = "repair" /\ work[i] = "altered"
      BY <2>1, <2>2 DEF CheckoutBegins, ChildDoes
    <3>2. op[i].space = "composed" /\ UnderWay(op[i].transition) /\ Journals(op[i])
      BY <1>1, <3>1, Running DEF Journaled, Holds, UnderWay
    <3>. QED  BY <3>2 DEF Journals
  <2>3. CASE CheckoutFinishes
    BY <2>1, <2>3 DEF CheckoutFinishes, ChildDoes
  <2>4. CASE CheckEdits
    BY <2>1, <2>4 DEF CheckEdits, ChildDoes
  <2>5. CASE UserCleans \/ (\E j \in Items : UserEdits(j))
    BY <2>5 DEF UserCleans, UserEdits
  <2>. QED  BY <1>1, <2>2, <2>3, <2>4, <2>5, OnlyProcessesWrite
<1>2. ASSUME UNCHANGED vars PROVE Kept
  BY <1>2 DEF vars
<1>3. IInv /\ [Next]_vars => [Kept]_vars
  BY <1>1, <1>2
<1>. QED  BY <1>3, LandingInvariant, PTL DEF Spec, ChangesSurvive

\* Only a merge and a stray commit move the target.
LEMMA OnlyMergesMove ==
  ASSUME IInv, Next
  PROVE  \/ target'.commit = target.commit
         \/ MergeMoves
         \/ StrayCommit
<1>0. target \in [commit : Seq(Items) \cup {Foreign}, clean : BOOLEAN]
  BY DEF IInv, TypeOK
<1>1. CallStep => target' = target
  BY DEF CallStep, Integrate, Shared, PublishIntent, ClaimWorkspace, CheckCurrent, Compose, Proceed,
         Materialized, Materialize, PrepareCheck, Checked, Validate, Dispatch, Merged, Accept,
         SettleTransition, Transited, FenceChecks, Restored, Restore, Repair, Checkout, Transit,
         Launch, Identified, SettleLanding, Observe, Conclude, Release, Close
<1>2. EndCall \/ LaunchLost \/ CheckPasses \/ CheckoutBegins \/ CheckoutFinishes \/ CheckEdits
        \/ ChildEnds \/ KillSupervisor \/ OrphanEnds \/ RivalLands => target' = target
  BY DEF EndCall, LaunchLost, Identified, CheckPasses, CheckoutBegins, CheckoutFinishes, CheckEdits,
         ChildDoes, ChildEnds, KillSupervisor, OrphanEnds, RivalLands
<1>3. MergeBegins \/ UserCleans => target'.commit = target.commit
  BY <1>0 DEF MergeBegins, UserCleans
<1>4. \A new : Control(new) => target' = target
  BY DEF Control
<1>5. \A i : OpenOperation(i) \/ Resume(i) \/ StartClose(i) \/ UserEdits(i) => target' = target
  BY DEF OpenOperation, Resume, StartClose, UserEdits
<1>6. \A i, k : RecoverCheck(i, k) => target' = target
  BY DEF RecoverCheck
<1>. QED  BY <1>1, <1>2, <1>3, <1>4, <1>5, <1>6 DEF Next, Progress

\* What a merge does, and of which operation.
LEMMA MergeLands ==
  ASSUME IInv, MergeMoves
  PROVE  /\ child.item \in Items /\ Unresolved(child.item) /\ lane = child.item
         /\ Passed(op[child.item]) /\ work[child.item] = "candidate"
         /\ op[child.item].expected = Chain /\ target.commit = Chain
         /\ target'.commit = Append(Chain, child.item)
         /\ UNCHANGED <<status, opened, op>>
<1>1. /\ Alive /\ child.kind = "merge" /\ target.commit = op[child.item].expected
      /\ target'.commit = Append(op[child.item].expected, child.item)
      /\ UNCHANGED <<status, opened, op>>
  BY DEF MergeMoves, Guarded, Proposal
<1>2. /\ child # NoChild /\ child.item \in Items /\ IsOpen(op[child.item])
      /\ Journals(op[child.item]) /\ op[child.item].landing = "launched"
  BY <1>1, Running DEF Journaled
<1>3. Unresolved(child.item)
  BY <1>2 DEF Unresolved, Resolved, IsOpen
<1>4. op[child.item].expected = Chain
  BY <1>2, <1>3, OpenIsLast DEF IInv
<1>5. lane = child.item /\ work[child.item] = "candidate" /\ Passed(op[child.item])
  BY <1>1, <1>2, <1>3 DEF IInv, LaneInv, UnresolvedHoldsLane, ChildInv, Journals
<1>. QED  BY <1>1, <1>2, <1>3, <1>4, <1>5

\* The target moves only to a proposal whose every command has passed, while the workspace is
\* back at its candidate and the lane is the operation's.
THEOREM LandsTheChecked == Spec => LandsWhatWasChecked
<1>. DEFINE Checks == target'.commit \notin {target.commit, Foreign} =>
              \E i \in Items :
                /\ target'.commit = Append(op[i].expected, i) /\ Unresolved(i) /\ lane = i
                /\ \A k \in 1..Commands : op[i].jobs[k] = "PASS"
                /\ work[i] = "candidate"
<1>1. ASSUME IInv, Next PROVE Checks
  <2>1. CASE MergeMoves
    BY <1>1, <2>1, MergeLands DEF Passed
  <2>2. CASE StrayCommit
    BY <1>1, <2>2 DEF StrayCommit, IInv, TypeOK
  <2>. QED  BY <1>1, <2>1, <2>2, OnlyMergesMove
<1>2. ASSUME UNCHANGED vars PROVE Checks
  BY <1>2 DEF vars
<1>3. IInv /\ [Next]_vars => [Checks]_vars
  BY <1>1, <1>2
<1>. QED  BY <1>3, LandingInvariant, PTL DEF Spec, LandsWhatWasChecked

\* A process is started when there is no other, an orphan of a call long dead included.
LEMMA StartsAlone ==
  ASSUME IInv, Next
  PROVE  child # NoChild /\ child' # NoChild =>
           /\ child'.kind = child.kind /\ child'.item = child.item
           /\ child'.state = "waiting" => child.state = "waiting"
<1>. DEFINE Same == /\ child'.kind = child.kind /\ child'.item = child.item
                    /\ child'.state = "waiting" => child.state = "waiting"
<1>. SUFFICES ASSUME child # NoChild, child' # NoChild PROVE Same
  OBVIOUS
<1>0. child \in [kind : Kinds \cup {"none"}, item : Items \cup {Nobody},
                 state : {"gone", "waiting", "running", "orphan"}, done : BOOLEAN]
  BY DEF IInv, TypeOK
<1>1. CASE CallStep
  <2>1. ~ (Materialize \/ Restore \/ Repair \/ Checkout \/ Dispatch
             \/ \E k \in 1..Commands : PrepareCheck(k))
    BY MaterializeKeeps, RestoringKeeps, DispatchKeeps, PrepareCheckKeeps
  <2>2. child' = child \/ Launch
    BY <1>1, <2>1 DEF CallStep, Integrate, Shared, PublishIntent, ClaimWorkspace, CheckCurrent,
         Compose, Proceed, Materialized, Checked, Validate, Merged, Accept, SettleTransition,
         Transited, FenceChecks, Restored, SettleLanding, Observe, Conclude, Release, Close
  <2>. QED  BY <1>0, <2>2 DEF Launch
<1>2. CASE EndCall \/ LaunchLost \/ Progress \/ CheckEdits
  BY <1>0, <1>2 DEF EndCall, LaunchLost, Progress, CheckEdits, CheckoutBegins, CheckoutFinishes,
     CheckPasses, MergeBegins, MergeMoves, Finished
<1>3. CASE ChildEnds \/ KillSupervisor \/ OrphanEnds
  BY <1>0, <1>3 DEF ChildEnds, KillSupervisor, OrphanEnds
<1>4. CASE RivalLands \/ StrayCommit \/ UserCleans \/ \E new : Control(new)
  BY <1>4 DEF RivalLands, StrayCommit, UserCleans, Control
<1>5. CASE \E i : OpenOperation(i) \/ Resume(i) \/ StartClose(i) \/ UserEdits(i)
                 \/ \E k : RecoverCheck(i, k)
  BY <1>5 DEF OpenOperation, Resume, StartClose, UserEdits, RecoverCheck
<1>. QED  BY <1>1, <1>2, <1>3, <1>4, <1>5 DEF Next

\* One process at a time: a checkout, check or merge is never started beside one of which
\* nothing proves that it is extinct, of whichever operation.
THEOREM OneProcessAtATime ==
  Spec => [][child # NoChild /\ child' # NoChild =>
               /\ child'.kind = child.kind /\ child'.item = child.item
               /\ child'.state = "waiting" => child.state = "waiting"]_vars
<1>. DEFINE Same == child # NoChild /\ child' # NoChild =>
                      /\ child'.kind = child.kind /\ child'.item = child.item
                      /\ child'.state = "waiting" => child.state = "waiting"
<1>1. IInv /\ [Next]_vars => [Same]_vars
  BY StartsAlone
<1>. QED  BY <1>1, LandingInvariant, PTL DEF Spec

----------------------------------------------------------------------------
(* The target branch. *)

Seen == IF status = "cancelling" THEN "cancelling" ELSE "active"

LEMMA BranchInit == Init => Branch!Init
<1>. SUFFICES ASSUME Init PROVE Branch!Init
  OBVIOUS
<1>1. Len(opened) = 0 /\ target.commit = <<>> /\ status = "active"
  BY DEF Init
<1>2. Chain = <<>>
  <2>1. 1..Len(opened) + 1 - 1 = {}
    BY <1>1
  <2>. QED  BY <2>1 DEF Chain, Prefix
<1>3. \A i \in Items : Outward(i) = "none"
  BY DEF Init, Outward, NoOperation
<1>. QED  BY <1>1, <1>2, <1>3 DEF Branch!Init

\* A step that is not seen.
LEMMA BranchStays ==
  ASSUME Stays, target'.commit = target.commit, Seen' = Seen
  PROVE  UNCHANGED Branch!vars
<1>1. [i \in Items |-> Outward(i)]' = [i \in Items |-> Outward(i)]
  BY DEF Stays
<1>. QED  BY <1>1 DEF Branch!vars, Stays, Seen

LEMMA BranchOpens == ASSUME IInv, PublishIntent PROVE \E i \in Items : Branch!Open(i)
<1>1. /\ call.step = "publish" /\ InCall /\ Ours \in Items
      /\ op' = [op EXCEPT ![Ours] = [NoOperation EXCEPT !.phase = "intent", !.expected = Chain]]
      /\ UNCHANGED <<status, target>>
  BY AtStep DEF PublishIntent, At, Set
<1>2. status = "active" /\ op[Ours].phase = "none" /\ \A j \in Items : ~ Unresolved(j)
  BY <1>1 DEF IInv, LaneInv, At
<1>3. /\ op'[Ours].phase = "intent" /\ \A j \in Items \ {Ours} : op'[j] = op[j]
  BY <1>1 DEF IInv, TypeOK, NoOperation
<1>4. /\ Outward(Ours) = "none" /\ \A j \in Items : Outward(j) # "open"
      /\ \A j \in Items : Outward(j)' = IF j = Ours THEN "open" ELSE Outward(j)
  BY <1>2, <1>3 DEF Outward, Unresolved, Resolved
<1>5. Chain' = Chain
  BY PublishKeeps
<1>6. [i \in Items |-> Outward(i)]' = [[i \in Items |-> Outward(i)] EXCEPT ![Ours] = "open"]
  BY <1>1, <1>4
<1>. QED  BY <1>1, <1>2, <1>4, <1>5, <1>6 DEF Branch!Open

LEMMA BranchLands == ASSUME IInv, MergeMoves PROVE \E i \in Items : Branch!Land(i)
<1>1. /\ child.item \in Items /\ Unresolved(child.item) /\ target.commit = Chain
      /\ target'.commit = Append(Chain, child.item) /\ UNCHANGED <<status, opened, op>>
  BY MergeLands
<1>2. Stays
  BY <1>1, NothingOpens
<1>3. [i \in Items |-> Outward(i)]' = [i \in Items |-> Outward(i)]
  BY <1>2 DEF Stays
<1>4. Outward(child.item) = "open"
  BY <1>1 DEF Outward, Unresolved, Resolved
<1>. QED  BY <1>1, <1>2, <1>3, <1>4 DEF Branch!Land, Stays

\* The operation of a call that ends it, and those of the others.
LEMMA Ends ==
  ASSUME IInv, Ours \in Items, IsOpen(op[Ours]), NEW phase \in {"accepted", "closed"},
         op' \in [Items -> Operation], op'[Ours].phase = phase,
         \A j \in Items \ {Ours} : op'[j] = op[j]
  PROVE  /\ Outward(Ours) = "open" /\ op[Ours].expected = Chain
         /\ [i \in Items |-> Outward(i)]' = [[i \in Items |-> Outward(i)] EXCEPT ![Ours] = phase]
<1>1. /\ Outward(Ours) = "open"
      /\ \A j \in Items : Outward(j)' = IF j = Ours THEN phase ELSE Outward(j)
  BY DEF Outward, Resolved, IsOpen
<1>2. Unresolved(Ours)
  BY DEF Unresolved, Resolved, IsOpen
<1>. QED  BY <1>1, <1>2, OpenIsLast DEF IInv

LEMMA BranchAccepts == ASSUME IInv, Accept PROVE \E i \in Items : Branch!Accept(i)
<1>1. /\ call.step = "proceed" /\ op[Ours].phase = "landed" /\ status = "active"
      /\ target.commit = Append(op[Ours].expected, Ours)
      /\ op' = [op EXCEPT ![Ours] = [op[Ours] EXCEPT !.phase = "accepted"]]
      /\ UNCHANGED <<status, target>>
  BY DEF Accept, Acceptable, Current, TargetAt, Proposal, At, Set
<1>2. Ours \in Items /\ IsOpen(op[Ours]) /\ op[Ours] \in Operation
  BY <1>1, AtStep DEF At, IsOpen
<1>3. /\ op' \in [Items -> Operation] /\ op'[Ours].phase = "accepted"
      /\ \A j \in Items \ {Ours} : op'[j] = op[j]
  <2>1. [op[Ours] EXCEPT !.phase = "accepted"] \in Operation
    BY <1>2 DEF Operation, Phases
  <2>2. [op[Ours] EXCEPT !.phase = "accepted"].phase = "accepted"
    BY <1>2 DEF Operation
  <2>. QED  BY <1>1, <1>2, <2>1, <2>2 DEF IInv, TypeOK
<1>4. Chain' = Append(Chain, Ours)
  BY AcceptKeeps
<1>5. /\ Outward(Ours) = "open" /\ op[Ours].expected = Chain
      /\ [i \in Items |-> Outward(i)]' = [[i \in Items |-> Outward(i)] EXCEPT ![Ours] = "accepted"]
  BY <1>2, <1>3, Ends
<1>. QED  BY <1>1, <1>2, <1>4, <1>5 DEF Branch!Accept

LEMMA BranchCloses == ASSUME IInv, Close PROVE \E i \in Items : Branch!Close(i)
<1>1. /\ call.step = "close"
      /\ call.seen = "old-clean" \/ (status = "cancelling" /\ call.seen = "new-clean")
      /\ op' = [op EXCEPT ![Ours] = [op[Ours] EXCEPT !.phase = "closed", !.observation = call.seen]]
      /\ UNCHANGED <<status, target>>
  BY DEF Close, Closable, At, Set
<1>2. /\ Ours \in Items /\ IsOpen(op[Ours]) /\ op[Ours] \in Operation /\ call \in Calls
      /\ call.seen = "old-clean" => target.commit \in {op[Ours].expected, Foreign}
  BY <1>1, AtStep DEF At, Fits
<1>3. /\ op' \in [Items -> Operation] /\ op'[Ours].phase = "closed"
      /\ \A j \in Items \ {Ours} : op'[j] = op[j]
  <2>1. [op[Ours] EXCEPT !.phase = "closed", !.observation = call.seen] \in Operation
    BY <1>2 DEF Operation, Phases, Calls
  <2>2. [op[Ours] EXCEPT !.phase = "closed", !.observation = call.seen].phase = "closed"
    BY <1>2 DEF Operation
  <2>. QED  BY <1>1, <1>2, <2>1, <2>2 DEF IInv, TypeOK
<1>4. Chain' = Chain
  BY CloseKeeps
<1>5. /\ Outward(Ours) = "open" /\ op[Ours].expected = Chain
      /\ [i \in Items |-> Outward(i)]' = [[i \in Items |-> Outward(i)] EXCEPT ![Ours] = "closed"]
  BY <1>2, <1>3, Ends
<1>6. Seen = "active" => target.commit # Append(Chain, Ours)
  <2>1. Chain \in Seq(Items) /\ Append(Chain, Ours) \in Seq(Items)
    BY <1>2 DEF IInv, OpenedInv
  <2>2. Len(Append(Chain, Ours)) # Len(Chain)
    BY <2>1
  <2>. QED  BY <1>1, <1>2, <1>5, <2>1, <2>2, LandingAssumption DEF Seen
<1>. QED  BY <1>1, <1>2, <1>4, <1>5, <1>6 DEF Branch!Close, Seen

\* A step that none of the operations sees moves the status or the target at most.
LEMMA BranchElsewhere ==
  ASSUME IInv, Next, ~ Outer PROVE [Branch!Next]_(Branch!vars)
<1>1. Stays
  BY StepKeeps
<1>2. [i \in Items |-> Outward(i)]' = [i \in Items |-> Outward(i)]
  BY <1>1 DEF Stays
<1>3. status' = status \/ \E new \in {"active", "paused", "cancelling"} : Control(new)
  <2>1. CallStep => status' = status
    BY DEF CallStep, Integrate, Shared, PublishIntent, ClaimWorkspace, CheckCurrent, Compose,
         Proceed, Materialized, Materialize, PrepareCheck, Checked, Validate, Dispatch, Merged,
         Accept, SettleTransition, Transited, FenceChecks, Restored, Restore, Repair, Checkout,
         Transit, Launch, Identified, SettleLanding, Observe, Conclude, Release, Close
  <2>2. EndCall \/ LaunchLost \/ CheckPasses \/ CheckoutBegins \/ CheckoutFinishes \/ CheckEdits
          \/ ChildEnds \/ KillSupervisor \/ OrphanEnds \/ RivalLands \/ MergeBegins \/ MergeMoves
          \/ StrayCommit \/ UserCleans => status' = status
    BY DEF EndCall, LaunchLost, Identified, CheckPasses, CheckoutBegins, CheckoutFinishes,
         CheckEdits, ChildDoes, ChildEnds, KillSupervisor, OrphanEnds, RivalLands, MergeBegins,
         MergeMoves, StrayCommit, UserCleans
  <2>3. \A i : OpenOperation(i) \/ Resume(i) \/ StartClose(i) \/ UserEdits(i) => status' = status
    BY DEF OpenOperation, Resume, StartClose, UserEdits
  <2>4. \A i, k : RecoverCheck(i, k) => status' = status
    BY DEF RecoverCheck
  <2>. QED  BY <2>1, <2>2, <2>3, <2>4 DEF Next, Progress
<1>4. CASE StrayCommit
  <2>1. target'.commit = Foreign /\ status' = status
    BY <1>4 DEF StrayCommit, IInv, TypeOK
  <2>2. Branch!Stray
    BY <1>1, <1>2, <2>1 DEF Branch!Stray, Stays
  <2>. QED  BY <2>2 DEF Branch!Next
<1>5. CASE target'.commit = target.commit
  <2>1. CASE Seen' = Seen
    BY <1>1, <1>5, <2>1, BranchStays
  <2>2. CASE Seen' # Seen
    <3>1. Seen' = "cancelling"
      BY <1>3, <2>2 DEF Control, Seen
    <3>2. Branch!Cancel
      BY <1>1, <1>2, <1>5, <3>1 DEF Branch!Cancel, Stays, Seen
    <3>. QED  BY <3>2 DEF Branch!Next
  <2>. QED  BY <2>1, <2>2
<1>. QED  BY <1>4, <1>5, OnlyMergesMove DEF Outer

\* The driver lands items on the target branch one at a time, each once and on top of the
\* accepted ones, and an operation that is over never moves it.
THEOREM LandingIsABranch == Spec => ImplementsTargetBranch
<1>1. IInv /\ Next => [Branch!Next]_(Branch!vars)
  BY BranchOpens, BranchLands, BranchAccepts, BranchCloses, BranchElsewhere DEF Outer, Branch!Next
<1>2. UNCHANGED vars => UNCHANGED Branch!vars
  <2>. SUFFICES ASSUME UNCHANGED vars PROVE UNCHANGED Branch!vars
    OBVIOUS
  <2>1. \A i : Outward(i)' = Outward(i)
    BY DEF vars, Outward, Resolved
  <2>2. Chain' = Chain
    BY DEF vars, Chain, Prefix, Accepted, Proposal
  <2>3. [i \in Items |-> Outward(i)]' = [i \in Items |-> Outward(i)]
    BY <2>1
  <2>. QED  BY <2>2, <2>3 DEF vars, Branch!vars
<1>. QED  BY <1>1, <1>2, BranchInit, LandingInvariant, PTL
     DEF Spec, ImplementsTargetBranch, Branch!Spec

-----------------------------------------------------------------------------
(* The train: its invariant.                                               *)

MemberStates == {"active", "integration_ready", "integrating", "complete", "blocked", "cancelled"}
EntryStates == {"none", "waiting", "eligible", "composing", "verifying_prefix", "landing",
                "blocked", "invalidated", "integrated"}
Worked == {"composing", "verifying_prefix", "landing"}

TrainTypes ==
  /\ want \in {"running", "paused", "cancelled"} /\ fence \in {"none", "open", "closed"}
  /\ member \in [Train!Members -> MemberStates] /\ entry \in [Train!Members -> EntryStates]
  /\ attempt \in [Train!Members -> TrainAttempts \cup {NoItem}]
  /\ active \in Train!Members \cup {NoItem} /\ merging \in Train!Members \cup {NoItem}
  /\ lease \in Leases \cup {NoItem} /\ slot \in [Train!Members -> Reserved \cup {NoItem}]
  /\ prefix \in Seq(Train!Members) /\ (tip = Elsewhere \/ tip \in Seq(Train!Members))
  /\ landing \in Landings \cup {NoItem}

LandedCount == Len(prefix)

\* The prefix is the train up to its head.
PrefixInv == LandedCount <= Len(Order) /\ \A k \in 1..LandedCount : prefix[k] = Order[k]

\* Where an item stands as long as the run is not cancelled.
Standing(i) ==
  /\ entry[i] = "waiting" => Train!At(i) > LandedCount + 1 /\ member[i] = "integration_ready"
  /\ entry[i] \notin {"none", "waiting", "integrated"} => Train!At(i) = LandedCount + 1
  /\ entry[i] = "none" => member[i] = "active"
  /\ entry[i] = "eligible" => member[i] \in {"integration_ready", "integrating"}
  /\ entry[i] \in Worked => member[i] = "integrating" /\ active = i
  /\ entry[i] = "blocked" => member[i] = "integration_ready"
  /\ entry[i] = "invalidated" => member[i] \in {"active", "integration_ready"}
  /\ slot[i] # NoItem => entry[i] \in {"eligible"} \cup Worked /\ member[i] = "integrating"

PlaceInv == \A i \in Train!Members :
  /\ entry[i] = "integrated" <=> Train!At(i) <= LandedCount
  /\ entry[i] = "integrated" <=> member[i] = "complete"
  /\ fence = "none" => Standing(i)
  /\ fence # "none" => entry[i] \in {"none", "invalidated", "integrated"}
  /\ fence = "closed" => slot[i] = NoItem

\* What an attempt is at each place.
MemberFits(i) ==
  LET a == attempt[i]
  IN /\ entry[i] \in {"none", "waiting", "eligible"} => a = NoItem
     /\ entry[i] \in Worked =>
          /\ a # NoItem /\ a.expected = prefix /\ ~ a.conflict
          /\ a.land \notin {"failed", "ambiguous"} /\ a.landing \notin {"ambiguous", "landed"}
          /\ entry[i] = "landing" => Train!Passed(i, "prefix") /\ Train!Passed(i, "final")
          /\ entry[i] # "landing" => a.land = "none"
     /\ entry[i] = "blocked" =>
          a # NoItem /\ a.expected = prefix /\ a.land = "failed" /\ a.landing # "landed"
     /\ entry[i] = "invalidated" /\ a # NoItem => a.expected = prefix /\ a.landing # "landed"
     /\ entry[i] = "integrated" => a # NoItem /\ a.landing = "landed"
          /\ Len(a.expected) < LandedCount
     /\ a # NoItem /\ a.land # "none" => Train!Passed(i, "prefix") /\ Train!Passed(i, "final")
AttemptInv == \A i \in Train!Members : MemberFits(i)

\* One attempt is active, and it has the lock.
ActiveInv ==
  /\ active # NoItem => /\ entry[active] \in Worked /\ fence = "none"
                        /\ lease = [by |-> active, state |-> "active"]
  /\ active = NoItem => lease = NoItem

\* The target is the accepted prefix, or that and what is landing, or not ours any more.
TargetInv ==
  \/ tip = Elsewhere \/ tip = prefix
  \/ active # NoItem /\ tip = Append(prefix, active)

\* A merge that goes on is that of the active attempt, or can no longer move the target.
MergeInv ==
  merging # NoItem =>
    /\ attempt[merging] # NoItem
    /\ active = merging => entry[merging] = "landing"
    /\ \/ active = merging \/ tip = Elsewhere
       \/ Len(attempt[merging].expected) < LandedCount

CallInv ==
  landing # NoItem =>
    /\ active = landing.item /\ entry[active] = "landing" /\ attempt[active].land = "dispatching"
    /\ landing.step = "record" => landing.seen \in {"proven_absent", "applied_exact", "conflict"}
    /\ landing.step = "record" /\ landing.seen = "conflict" => tip = Elsewhere

FenceInv ==
  /\ want = "cancelled" <=> fence # "none"
  /\ fence # "none" =>
       /\ active = NoItem
       /\ \A i, j \in Train!Members :
            entry[i] = "invalidated" /\ entry[j] = "invalidated" => i = j

TrainInv == TrainTypes /\ PrefixInv /\ PlaceInv /\ AttemptInv /\ ActiveInv /\ TargetInv
        /\ MergeInv /\ CallInv /\ FenceInv

-----------------------------------------------------------------------------
(* The steps of the train.                                                 *)

LEMMA PlacesAreNumbered ==
  /\ \A i \in Train!Members : Train!At(i) \in 1..Len(Order) /\ Order[Train!At(i)] = i
  /\ \A k \in 1..Len(Order) : Order[k] \in Train!Members /\ Train!At(Order[k]) = k
<1>1. ASSUME NEW i \in Train!Members PROVE Train!At(i) \in 1..Len(Order) /\ Order[Train!At(i)] = i
  <2>1. \E k \in DOMAIN Order : Order[k] = i
    BY DEF Train!Members, Train!Range
  <2> QED BY <2>1, TrainAssumption DEF Train!At
<1>2. ASSUME NEW k \in 1..Len(Order) PROVE Order[k] \in Train!Members /\ Train!At(Order[k]) = k
  <2>1. k \in DOMAIN Order /\ Order[k] \in Train!Members
    BY TrainAssumption DEF Train!Members, Train!Range
  <2> QED BY <2>1, <1>1, TrainAssumption
<1> QED BY <1>1, <1>2

LEMMA NoItemIsFresh ==
  /\ NoItem \notin Train!Members /\ NoItem \notin Reserved /\ NoItem \notin TrainAttempts
  /\ NoItem \notin Leases
  /\ NoItem \notin Landings /\ Elsewhere \notin Seq(Train!Members)
BY TrainAssumption DEF Train!Members

LEMMA ActiveWorks ==
  ASSUME TrainInv, NEW i \in Train!Members, active = i
  PROVE  /\ entry[i] \in Worked /\ fence = "none" /\ member[i] = "integrating"
         /\ Train!At(i) = LandedCount + 1 /\ lease = [by |-> i, state |-> "active"]
         /\ attempt[i] \in TrainAttempts /\ attempt[i].expected = prefix /\ ~ attempt[i].conflict
         /\ attempt[i].land \notin {"failed", "ambiguous"}
         /\ attempt[i].landing \notin {"ambiguous", "landed"}
         /\ entry[i] # "landing" => attempt[i].land = "none"
         /\ entry[i] = "landing" => Train!Passed(i, "prefix") /\ Train!Passed(i, "final")
BY NoItemIsFresh DEF TrainInv, TrainTypes, ActiveInv, PlaceInv, Standing, AttemptInv,
   MemberFits, Worked

LEMMA OtherPlace ==
  ASSUME NEW i \in Train!Members, NEW j \in Train!Members, i # j
  PROVE  Train!At(i) # Train!At(j)
BY PlacesAreNumbered

LEMMA LandedPassed ==
  ASSUME TrainInv, NEW i \in Train!Members, attempt[i] # NoItem, attempt[i].land # "none"
  PROVE  Train!Passed(i, "prefix") /\ Train!Passed(i, "final")
BY DEF TrainInv, AttemptInv, MemberFits

LEMMA LandingMarked ==
  ASSUME NEW a \in TrainAttempts
  PROVE  /\ [a EXCEPT !.land = "reconciled", !.landing = "reconciled"] \in TrainAttempts
         /\ [a EXCEPT !.land = "proven_absent", !.landing = "observed"] \in TrainAttempts
BY DEF TrainAttempts, Effects

LEMMA RealAttempt ==
  ASSUME NEW a \in TrainAttempts
  PROVE  a # NoItem
BY NoItemIsFresh

\* The head of the train is the only one that is worked on.
LEMMA OneHead ==
  ASSUME TrainInv, NEW i \in Train!Members, NEW j \in Train!Members,
           Train!At(i) = LandedCount + 1, fence = "none",
         Train!At(j) = LandedCount + 1
  PROVE  i = j
BY PlacesAreNumbered

LEMMA OneAttempt ==
  ASSUME TrainInv, NEW i \in Train!Members, active = i, landing = NoItem, Train!OnlyAttempt,
         NEW a \in TrainAttempts, attempt' = [attempt EXCEPT ![i] = a],
         a.expected = attempt[i].expected, ~ a.conflict,
         a.land \notin {"failed", "ambiguous"}, a.landing \notin {"ambiguous", "landed"},
         entry[i] # "landing" => a.land = "none",
         entry[i] = "landing" => a.prefix = attempt[i].prefix /\ a.final = attempt[i].final
  PROVE  TrainInv'
<1> USE DEF TrainInv, Train!OnlyAttempt, Train!queue, Train!world
<1>0. /\ entry[i] \in Worked /\ fence = "none" /\ attempt[i] \in TrainAttempts
      /\ attempt[i].expected = prefix
      /\ entry[i] = "landing" => Train!Passed(i, "prefix") /\ Train!Passed(i, "final")
  BY ActiveWorks
<1>a. /\ attempt'[i] = a /\ a # NoItem /\ \A j \in Train!Members \ {i} : attempt'[j] = attempt[j]
      /\ attempt' \in [Train!Members -> TrainAttempts \cup {NoItem}]
  BY NoItemIsFresh DEF TrainTypes
<1>1. TrainTypes'
  BY <1>a DEF TrainTypes
<1>2. PrefixInv' /\ ActiveInv' /\ TargetInv' /\ FenceInv' /\ CallInv'
  BY <1>0 DEF PrefixInv, ActiveInv, TargetInv, FenceInv, CallInv, LandedCount
<1>3. PlaceInv'
  BY DEF PlaceInv, Standing, LandedCount
<1>4. AttemptInv'
  <2> SUFFICES ASSUME NEW j \in Train!Members PROVE MemberFits(j)'
    BY DEF AttemptInv
  <2>1. CASE j = i
    <3>1. entry[i] = "landing" => Train!Passed(i, "prefix")' /\ Train!Passed(i, "final")'
      BY <1>0, <1>a DEF Train!Passed
    <3> QED BY <1>0, <1>a, <2>1, <3>1 DEF MemberFits, Worked
  <2>2. CASE j # i
    <3>1. Train!Passed(j, "prefix")' = Train!Passed(j, "prefix")
            /\ Train!Passed(j, "final")' = Train!Passed(j, "final")
      BY <1>a, <2>2 DEF Train!Passed
    <3> QED BY <1>a, <2>2, <3>1 DEF AttemptInv, MemberFits, LandedCount
  <2> QED BY <2>1, <2>2
<1>5. MergeInv'
  BY <1>a DEF MergeInv, LandedCount, TrainTypes
<1> QED BY <1>1, <1>2, <1>3, <1>4, <1>5

LEMMA TrainEffectKeeps ==
  ASSUME TrainInv, NEW i \in Train!Members, active = i, landing = NoItem, Train!OnlyAttempt,
         NEW name \in {"compose", "prefix", "final", "land"},
         NEW s \in Effects \ {"failed", "ambiguous"}, Train!Effect(i, name, s),
         entry[i] = "landing" <=> name = "land"
  PROVE  TrainInv'
<1> DEFINE a == [attempt[i] EXCEPT ![name] = s]
<1>0. attempt[i] \in TrainAttempts /\ attempt \in [Train!Members -> TrainAttempts \cup {NoItem}]
  BY ActiveWorks DEF TrainInv, TrainTypes
<1>1. a \in TrainAttempts /\ attempt' = [attempt EXCEPT ![i] = a]
  BY <1>0 DEF TrainAttempts, Train!Effect
<1>2. /\ a.expected = attempt[i].expected /\ a.conflict = attempt[i].conflict
      /\ a.landing = attempt[i].landing
      /\ name = "land" => a.land = s /\ a.prefix = attempt[i].prefix /\ a.final = attempt[i].final
      /\ name # "land" => a.land = attempt[i].land
  BY <1>0 DEF TrainAttempts
<1> HIDE DEF a
<1> QED BY <1>1, <1>2, ActiveWorks, OneAttempt

LEMMA TrainEffectsKeep ==
  ASSUME TrainInv, NEW i \in Train!Members,
         \/ Train!MarkCompose(i) \/ Train!MarkLanding(i)
         \/ \E phase \in {"prefix", "final"} :
              \/ Train!PutValidation(i, phase) \/ Train!MarkValidation(i, phase)
              \/ Train!RecordValidation(i, phase) \/ Train!ReconcileValidation(i, phase)
  PROVE  TrainInv'
<1>1. CASE Train!MarkCompose(i)
  BY <1>1, TrainEffectKeeps DEF Train!MarkCompose, Train!Steps, Effects
<1>2. CASE Train!MarkLanding(i)
  BY <1>2, TrainEffectKeeps DEF Train!MarkLanding, Train!Steps, Effects
<1>3. ASSUME NEW phase \in {"prefix", "final"},
             \/ Train!PutValidation(i, phase) \/ Train!MarkValidation(i, phase)
             \/ Train!RecordValidation(i, phase) \/ Train!ReconcileValidation(i, phase)
      PROVE  TrainInv'
  <2>1. \E s \in {"intended", "dispatching", "observed", "reconciled"} : Train!Effect(i, phase, s)
    BY <1>3 DEF Train!PutValidation, Train!MarkValidation, Train!RecordValidation,
       Train!ReconcileValidation
  <2>2. active = i /\ landing = NoItem /\ Train!OnlyAttempt /\ entry[i] = "verifying_prefix"
    BY <1>3 DEF Train!PutValidation, Train!MarkValidation, Train!RecordValidation,
       Train!ReconcileValidation, Train!Validates, Train!Steps
  <2> QED BY <2>1, <2>2, TrainEffectKeeps DEF Effects
<1> QED BY <1>1, <1>2, <1>3

LEMMA TrainPrepareLandingKeeps ==
  ASSUME TrainInv, NEW i \in Train!Members, Train!PrepareLanding(i)
  PROVE  TrainInv'
<1> DEFINE a == [attempt[i] EXCEPT !.land = "intended", !.landing = "intended"]
<1>0. /\ attempt[i] \in TrainAttempts
      /\ attempt \in [Train!Members -> TrainAttempts \cup {NoItem}]
      /\ active = i /\ landing = NoItem /\ entry[i] = "landing"
  BY ActiveWorks DEF TrainInv, TrainTypes, Train!PrepareLanding, Train!Steps
<1>1. a \in TrainAttempts /\ attempt' = [attempt EXCEPT ![i] = a]
  BY <1>0 DEF TrainAttempts, Effects, Train!PrepareLanding
<1>2. /\ a.expected = attempt[i].expected /\ a.conflict = attempt[i].conflict
      /\ a.landing = "intended" /\ a.land = "intended"
      /\ a.prefix = attempt[i].prefix /\ a.final = attempt[i].final
  BY <1>0 DEF TrainAttempts
<1> HIDE DEF a
<1> QED BY <1>0, <1>1, <1>2, ActiveWorks, OneAttempt DEF Train!PrepareLanding

LEMMA TrainReadyKeeps ==
  ASSUME TrainInv, NEW i \in Train!Members, Train!Ready(i)
  PROVE  TrainInv'
<1> USE NoItemIsFresh DEF TrainInv, TrainTypes, MemberStates, EntryStates, Worked, Effects,
     TrainAttempts, Leases, Reserved, Landings, LandedCount, Train!Ready, Train!world,
     Train!queue, Train!Publishes, Train!GivesBack, Train!Effect, Train!OnlyAttempt,
     Train!Steps, Train!Intended, Train!IsHead
<1>1. TrainTypes'
  OBVIOUS
<1>2. PrefixInv'
  BY DEF PrefixInv
<1>3. PlaceInv'
  <2> SUFFICES ASSUME NEW j \in Train!Members PROVE PlaceInv!(j)'
    BY DEF PlaceInv
  <2> QED BY PlacesAreNumbered DEF PlaceInv, Standing, ActiveInv, FenceInv, AttemptInv,
       MemberFits
<1>4. AttemptInv'
  <2> SUFFICES ASSUME NEW j \in Train!Members PROVE MemberFits(j)'
    BY DEF AttemptInv
  <2> QED BY PlacesAreNumbered DEF AttemptInv, MemberFits, Train!Passed, PlaceInv, Standing,
       ActiveInv, FenceInv
<1>5. ActiveInv'
  BY DEF ActiveInv, PlaceInv, Standing, FenceInv
<1>6. TargetInv'
  BY DEF TargetInv, ActiveInv, AttemptInv, MemberFits
<1>7. MergeInv'
  BY DEF MergeInv, ActiveInv, AttemptInv, MemberFits, TargetInv
<1>8. CallInv'
  BY DEF CallInv, ActiveInv, AttemptInv, MemberFits, TargetInv
<1>9. FenceInv'
  BY DEF FenceInv, ActiveInv, PlaceInv, Standing
<1> QED BY <1>1, <1>2, <1>3, <1>4, <1>5, <1>6, <1>7, <1>8, <1>9

LEMMA TrainReserveKeeps ==
  ASSUME TrainInv, NEW i \in Train!Members, Train!Reserve(i)
  PROVE  TrainInv'
<1> USE NoItemIsFresh DEF TrainInv, TrainTypes, MemberStates, EntryStates, Worked, Effects,
     TrainAttempts, Leases, Reserved, Landings, LandedCount, Train!Reserve, Train!world,
     Train!queue, Train!Publishes, Train!GivesBack, Train!Effect, Train!OnlyAttempt,
     Train!Steps, Train!Intended, Train!IsHead
<1>1. TrainTypes'
  OBVIOUS
<1>2. PrefixInv'
  BY DEF PrefixInv
<1>3. PlaceInv'
  <2> SUFFICES ASSUME NEW j \in Train!Members PROVE PlaceInv!(j)'
    BY DEF PlaceInv
  <2> QED BY PlacesAreNumbered DEF PlaceInv, Standing, ActiveInv, FenceInv, AttemptInv,
       MemberFits
<1>4. AttemptInv'
  <2> SUFFICES ASSUME NEW j \in Train!Members PROVE MemberFits(j)'
    BY DEF AttemptInv
  <2> QED BY PlacesAreNumbered DEF AttemptInv, MemberFits, Train!Passed, PlaceInv, Standing,
       ActiveInv, FenceInv
<1>5. ActiveInv'
  BY DEF ActiveInv, PlaceInv, Standing, FenceInv
<1>6. TargetInv'
  BY DEF TargetInv, ActiveInv, AttemptInv, MemberFits
<1>7. MergeInv'
  BY DEF MergeInv, ActiveInv, AttemptInv, MemberFits, TargetInv
<1>8. CallInv'
  BY DEF CallInv, ActiveInv, AttemptInv, MemberFits, TargetInv
<1>9. FenceInv'
  BY DEF FenceInv, ActiveInv, PlaceInv, Standing
<1> QED BY <1>1, <1>2, <1>3, <1>4, <1>5, <1>6, <1>7, <1>8, <1>9

LEMMA TrainActivateKeeps ==
  ASSUME TrainInv, NEW i \in Train!Members, Train!Activate(i)
  PROVE  TrainInv'
<1> USE NoItemIsFresh DEF TrainInv, TrainTypes, MemberStates, EntryStates, Worked, Effects,
     TrainAttempts, Leases, Reserved, Landings, LandedCount, Train!Activate, Train!world,
     Train!queue, Train!Publishes, Train!GivesBack, Train!Effect, Train!OnlyAttempt,
     Train!Steps, Train!Intended
<1>1. TrainTypes'
  OBVIOUS
<1>2. PrefixInv'
  BY DEF PrefixInv
<1>3. PlaceInv'
  <2> SUFFICES ASSUME NEW j \in Train!Members PROVE PlaceInv!(j)'
    BY DEF PlaceInv
  <2> QED BY PlacesAreNumbered DEF PlaceInv, Standing, ActiveInv, FenceInv, AttemptInv,
       MemberFits
<1>4. AttemptInv'
  <2> SUFFICES ASSUME NEW j \in Train!Members PROVE MemberFits(j)'
    BY DEF AttemptInv
  <2> QED BY PlacesAreNumbered DEF AttemptInv, MemberFits, Train!Passed, PlaceInv, Standing,
       ActiveInv, FenceInv
<1>5. ActiveInv'
  BY DEF ActiveInv, PlaceInv, Standing, FenceInv
<1>6. TargetInv'
  BY DEF TargetInv, ActiveInv, AttemptInv, MemberFits
<1>7. MergeInv'
  BY DEF MergeInv, ActiveInv, AttemptInv, MemberFits, TargetInv
<1>8. CallInv'
  BY DEF CallInv, ActiveInv, AttemptInv, MemberFits, TargetInv
<1>9. FenceInv'
  BY DEF FenceInv, ActiveInv, PlaceInv, Standing
<1> QED BY <1>1, <1>2, <1>3, <1>4, <1>5, <1>6, <1>7, <1>8, <1>9

LEMMA TrainValidateKeeps ==
  ASSUME TrainInv, NEW i \in Train!Members, NEW phase \in {"prefix", "final"},
           NEW verdict \in {"PASS", "FAIL"}, Train!Validate(i, phase, verdict)
  PROVE  TrainInv'
<1> USE NoItemIsFresh DEF TrainInv, TrainTypes, MemberStates, EntryStates, Worked, Effects,
     TrainAttempts, Leases, Reserved, Landings, LandedCount, Train!Validate, Train!Validates,
     Train!world, Train!queue, Train!Publishes, Train!GivesBack, Train!Effect,
     Train!OnlyAttempt, Train!Steps, Train!Intended
<1>1. TrainTypes'
  OBVIOUS
<1>2. PrefixInv'
  BY DEF PrefixInv
<1>3. PlaceInv'
  <2> SUFFICES ASSUME NEW j \in Train!Members PROVE PlaceInv!(j)'
    BY DEF PlaceInv
  <2> QED BY PlacesAreNumbered DEF PlaceInv, Standing, ActiveInv, FenceInv, AttemptInv,
       MemberFits
<1>4. AttemptInv'
  <2> SUFFICES ASSUME NEW j \in Train!Members PROVE MemberFits(j)'
    BY DEF AttemptInv
  <2> QED BY PlacesAreNumbered DEF AttemptInv, MemberFits, Train!Passed, PlaceInv, Standing,
       ActiveInv, FenceInv
<1>5. ActiveInv'
  BY DEF ActiveInv, PlaceInv, Standing, FenceInv
<1>6. TargetInv'
  BY DEF TargetInv, ActiveInv, AttemptInv, MemberFits
<1>7. MergeInv'
  BY DEF MergeInv, ActiveInv, AttemptInv, MemberFits, TargetInv
<1>8. CallInv'
  BY DEF CallInv, ActiveInv, AttemptInv, MemberFits, TargetInv
<1>9. FenceInv'
  BY DEF FenceInv, ActiveInv, PlaceInv, Standing
<1> QED BY <1>1, <1>2, <1>3, <1>4, <1>5, <1>6, <1>7, <1>8, <1>9

LEMMA TrainPauseKeeps ==
  ASSUME TrainInv, Train!Pause
  PROVE  TrainInv'
<1> USE NoItemIsFresh DEF TrainInv, TrainTypes, MemberStates, EntryStates, Worked, Effects,
     TrainAttempts, Leases, Reserved, Landings, LandedCount, Train!Pause, Train!world,
     Train!queue, Train!Publishes, Train!GivesBack, Train!Effect, Train!OnlyAttempt,
     Train!Steps, Train!Intended
<1>1. TrainTypes'
  OBVIOUS
<1>2. PrefixInv'
  BY DEF PrefixInv
<1>3. PlaceInv'
  <2> SUFFICES ASSUME NEW j \in Train!Members PROVE PlaceInv!(j)'
    BY DEF PlaceInv
  <2> QED BY PlacesAreNumbered DEF PlaceInv, Standing, ActiveInv, FenceInv, AttemptInv,
       MemberFits
<1>4. AttemptInv'
  <2> SUFFICES ASSUME NEW j \in Train!Members PROVE MemberFits(j)'
    BY DEF AttemptInv
  <2> QED BY PlacesAreNumbered DEF AttemptInv, MemberFits, Train!Passed, PlaceInv, Standing,
       ActiveInv, FenceInv
<1>5. ActiveInv'
  BY DEF ActiveInv, PlaceInv, Standing, FenceInv
<1>6. TargetInv'
  BY DEF TargetInv, ActiveInv, AttemptInv, MemberFits
<1>7. MergeInv'
  BY DEF MergeInv, ActiveInv, AttemptInv, MemberFits, TargetInv
<1>8. CallInv'
  BY DEF CallInv, ActiveInv, AttemptInv, MemberFits, TargetInv
<1>9. FenceInv'
  BY DEF FenceInv, ActiveInv, PlaceInv, Standing
<1> QED BY <1>1, <1>2, <1>3, <1>4, <1>5, <1>6, <1>7, <1>8, <1>9

LEMMA TrainResumeKeeps ==
  ASSUME TrainInv, Train!Resume
  PROVE  TrainInv'
<1> USE NoItemIsFresh DEF TrainInv, TrainTypes, MemberStates, EntryStates, Worked, Effects,
     TrainAttempts, Leases, Reserved, Landings, LandedCount, Train!Resume, Train!world,
     Train!queue, Train!Publishes, Train!GivesBack, Train!Effect, Train!OnlyAttempt,
     Train!Steps, Train!Intended
<1>1. TrainTypes'
  OBVIOUS
<1>2. PrefixInv'
  BY DEF PrefixInv
<1>3. PlaceInv'
  <2> SUFFICES ASSUME NEW j \in Train!Members PROVE PlaceInv!(j)'
    BY DEF PlaceInv
  <2> QED BY PlacesAreNumbered DEF PlaceInv, Standing, ActiveInv, FenceInv, AttemptInv,
       MemberFits
<1>4. AttemptInv'
  <2> SUFFICES ASSUME NEW j \in Train!Members PROVE MemberFits(j)'
    BY DEF AttemptInv
  <2> QED BY PlacesAreNumbered DEF AttemptInv, MemberFits, Train!Passed, PlaceInv, Standing,
       ActiveInv, FenceInv
<1>5. ActiveInv'
  BY DEF ActiveInv, PlaceInv, Standing, FenceInv
<1>6. TargetInv'
  BY DEF TargetInv, ActiveInv, AttemptInv, MemberFits
<1>7. MergeInv'
  BY DEF MergeInv, ActiveInv, AttemptInv, MemberFits, TargetInv
<1>8. CallInv'
  BY DEF CallInv, ActiveInv, AttemptInv, MemberFits, TargetInv
<1>9. FenceInv'
  BY DEF FenceInv, ActiveInv, PlaceInv, Standing
<1> QED BY <1>1, <1>2, <1>3, <1>4, <1>5, <1>6, <1>7, <1>8, <1>9

LEMMA TrainCloseCancellationKeeps ==
  ASSUME TrainInv, Train!CloseCancellation
  PROVE  TrainInv'
<1> USE NoItemIsFresh DEF TrainInv, TrainTypes, MemberStates, EntryStates, Worked, Effects,
     TrainAttempts, Leases, Reserved, Landings, LandedCount, Train!CloseCancellation,
     Train!world, Train!queue, Train!Publishes, Train!GivesBack, Train!Effect,
     Train!OnlyAttempt, Train!Steps, Train!Intended
<1>1. TrainTypes'
  OBVIOUS
<1>2. PrefixInv'
  BY DEF PrefixInv
<1>3. PlaceInv'
  <2> SUFFICES ASSUME NEW j \in Train!Members PROVE PlaceInv!(j)'
    BY DEF PlaceInv
  <2> QED BY PlacesAreNumbered DEF PlaceInv, Standing, ActiveInv, FenceInv, AttemptInv,
       MemberFits
<1>4. AttemptInv'
  <2> SUFFICES ASSUME NEW j \in Train!Members PROVE MemberFits(j)'
    BY DEF AttemptInv
  <2> QED BY PlacesAreNumbered DEF AttemptInv, MemberFits, Train!Passed, PlaceInv, Standing,
       ActiveInv, FenceInv
<1>5. ActiveInv'
  BY DEF ActiveInv, PlaceInv, Standing, FenceInv
<1>6. TargetInv'
  BY DEF TargetInv, ActiveInv, AttemptInv, MemberFits
<1>7. MergeInv'
  BY DEF MergeInv, ActiveInv, AttemptInv, MemberFits, TargetInv
<1>8. CallInv'
  BY DEF CallInv, ActiveInv, AttemptInv, MemberFits, TargetInv
<1>9. FenceInv'
  BY DEF FenceInv, ActiveInv, PlaceInv, Standing
<1> QED BY <1>1, <1>2, <1>3, <1>4, <1>5, <1>6, <1>7, <1>8, <1>9

LEMMA TrainDiesKeeps ==
  ASSUME TrainInv, Train!Dies
  PROVE  TrainInv'
<1> USE NoItemIsFresh DEF TrainInv, TrainTypes, MemberStates, EntryStates, Worked, Effects,
     TrainAttempts, Leases, Reserved, Landings, LandedCount, Train!Dies, Train!world,
     Train!queue, Train!Publishes, Train!GivesBack, Train!Effect, Train!OnlyAttempt,
     Train!Steps, Train!Intended
<1>1. TrainTypes'
  OBVIOUS
<1>2. PrefixInv'
  BY DEF PrefixInv
<1>3. PlaceInv'
  <2> SUFFICES ASSUME NEW j \in Train!Members PROVE PlaceInv!(j)'
    BY DEF PlaceInv
  <2> QED BY PlacesAreNumbered DEF PlaceInv, Standing, ActiveInv, FenceInv, AttemptInv,
       MemberFits
<1>4. AttemptInv'
  <2> SUFFICES ASSUME NEW j \in Train!Members PROVE MemberFits(j)'
    BY DEF AttemptInv
  <2> QED BY PlacesAreNumbered DEF AttemptInv, MemberFits, Train!Passed, PlaceInv, Standing,
       ActiveInv, FenceInv
<1>5. ActiveInv'
  BY DEF ActiveInv, PlaceInv, Standing, FenceInv
<1>6. TargetInv'
  BY DEF TargetInv, ActiveInv, AttemptInv, MemberFits
<1>7. MergeInv'
  BY DEF MergeInv, ActiveInv, AttemptInv, MemberFits, TargetInv
<1>8. CallInv'
  BY DEF CallInv, ActiveInv, AttemptInv, MemberFits, TargetInv
<1>9. FenceInv'
  BY DEF FenceInv, ActiveInv, PlaceInv, Standing
<1> QED BY <1>1, <1>2, <1>3, <1>4, <1>5, <1>6, <1>7, <1>8, <1>9

LEMMA TrainStrayKeeps ==
  ASSUME TrainInv, Train!Stray
  PROVE  TrainInv'
<1> USE NoItemIsFresh DEF TrainInv, TrainTypes, MemberStates, EntryStates, Worked, Effects,
     TrainAttempts, Leases, Reserved, Landings, LandedCount, Train!Stray, Train!world,
     Train!queue, Train!Publishes, Train!GivesBack, Train!Effect, Train!OnlyAttempt,
     Train!Steps, Train!Intended
<1>1. TrainTypes'
  OBVIOUS
<1>2. PrefixInv'
  BY DEF PrefixInv
<1>3. PlaceInv'
  <2> SUFFICES ASSUME NEW j \in Train!Members PROVE PlaceInv!(j)'
    BY DEF PlaceInv
  <2> QED BY PlacesAreNumbered DEF PlaceInv, Standing, ActiveInv, FenceInv, AttemptInv,
       MemberFits
<1>4. AttemptInv'
  <2> SUFFICES ASSUME NEW j \in Train!Members PROVE MemberFits(j)'
    BY DEF AttemptInv
  <2> QED BY PlacesAreNumbered DEF AttemptInv, MemberFits, Train!Passed, PlaceInv, Standing,
       ActiveInv, FenceInv
<1>5. ActiveInv'
  BY DEF ActiveInv, PlaceInv, Standing, FenceInv
<1>6. TargetInv'
  BY DEF TargetInv, ActiveInv, AttemptInv, MemberFits
<1>7. MergeInv'
  BY DEF MergeInv, ActiveInv, AttemptInv, MemberFits, TargetInv
<1>8. CallInv'
  BY DEF CallInv, ActiveInv, AttemptInv, MemberFits, TargetInv
<1>9. FenceInv'
  BY DEF FenceInv, ActiveInv, PlaceInv, Standing
<1> QED BY <1>1, <1>2, <1>3, <1>4, <1>5, <1>6, <1>7, <1>8, <1>9

LEMMA TrainBeginKeeps ==
  ASSUME TrainInv, NEW i \in Train!Members, Train!Begin(i)
  PROVE  TrainInv'
<1> USE NoItemIsFresh DEF TrainInv, TrainTypes, MemberStates, EntryStates, Worked, Effects,
     TrainAttempts, Leases, Reserved, Landings, LandedCount, Train!Begin, Train!world,
     Train!queue, Train!Publishes, Train!GivesBack, Train!Effect, Train!OnlyAttempt,
     Train!Steps, Train!Intended
<1> DEFINE a == [expected |-> prefix, compose |-> "intended", prefix |-> "none",
                 final |-> "none", land |-> "none", conflict |-> FALSE,
                 landing |-> "not_started"]
<1>a. /\ a \in TrainAttempts /\ attempt' = [attempt EXCEPT ![i] = a] /\ attempt'[i] = a
      /\ a # NoItem /\ a.expected = prefix /\ ~ a.conflict /\ a.land = "none"
      /\ a.landing = "not_started" /\ \A j \in Train!Members \ {i} : attempt'[j] = attempt[j]
  <2>1. a \in TrainAttempts /\ attempt' = [attempt EXCEPT ![i] = a]
    OBVIOUS
  <2>2. /\ a.expected = prefix /\ ~ a.conflict /\ a.land = "none" /\ a.landing = "not_started"
    OBVIOUS
  <2> HIDE DEF a, Train!Begin
  <2> QED BY <2>1, <2>2
<1> HIDE DEF a
<1>b. entry'[i] = "composing" /\ \A j \in Train!Members \ {i} : entry'[j] = entry[j]
  OBVIOUS
<1>1. TrainTypes'
  OBVIOUS
<1>2. PrefixInv'
  BY DEF PrefixInv
<1>3. PlaceInv'
  <2> SUFFICES ASSUME NEW j \in Train!Members PROVE PlaceInv!(j)'
    BY DEF PlaceInv
  <2> QED BY PlacesAreNumbered DEF PlaceInv, Standing, ActiveInv, FenceInv, AttemptInv,
       MemberFits
<1>4. AttemptInv'
  <2> SUFFICES ASSUME NEW j \in Train!Members PROVE MemberFits(j)'
    BY DEF AttemptInv
  <2>1. CASE j = i
    <3>1. UNCHANGED <<prefix, validated>>
      OBVIOUS
    <3> HIDE DEF Train!Begin, Train!Compose, Train!Verify, Train!ComposeConflicts
    <3> QED BY <1>a, <1>b, <2>1, <3>1 DEF MemberFits, Train!Passed
  <2>2. CASE j # i
    <3>1. attempt'[j] = attempt[j] /\ entry'[j] = entry[j] /\ UNCHANGED <<prefix, validated>>
      BY <2>2, <1>a, <1>b
    <3> HIDE DEF Train!Begin, Train!Compose, Train!Verify, Train!ComposeConflicts
    <3> QED BY <3>1 DEF AttemptInv, MemberFits, Train!Passed
  <2> QED BY <2>1, <2>2
<1>5. ActiveInv'
  BY DEF ActiveInv, PlaceInv, Standing, FenceInv
<1>6. TargetInv'
  BY DEF TargetInv, ActiveInv, AttemptInv, MemberFits
<1>7. MergeInv'
  BY DEF MergeInv, ActiveInv, AttemptInv, MemberFits, TargetInv
<1>8. CallInv'
  BY DEF CallInv, ActiveInv, AttemptInv, MemberFits, TargetInv
<1>9. FenceInv'
  BY DEF FenceInv, ActiveInv, PlaceInv, Standing
<1> QED BY <1>1, <1>2, <1>3, <1>4, <1>5, <1>6, <1>7, <1>8, <1>9

LEMMA TrainComposeKeeps ==
  ASSUME TrainInv, NEW i \in Train!Members, Train!Compose(i)
  PROVE  TrainInv'
<1> USE NoItemIsFresh DEF TrainInv, TrainTypes, MemberStates, EntryStates, Worked, Effects,
     TrainAttempts, Leases, Reserved, Landings, LandedCount, Train!Compose, Train!world,
     Train!queue, Train!Publishes, Train!GivesBack, Train!Effect, Train!OnlyAttempt,
     Train!Steps, Train!Intended
<1>a. /\ attempt[i] \in TrainAttempts /\ attempt[i].expected = prefix
      /\ entry[i] \in Worked
      /\ ~ attempt[i].conflict /\ attempt[i].land = "none"
      /\ attempt[i].landing \notin {"ambiguous", "landed"}
  BY ActiveWorks
<1>b. /\ attempt'[i] = [attempt[i] EXCEPT !.compose = "reconciled"]
      /\ attempt'[i] \in TrainAttempts
      /\ attempt'[i].expected = prefix /\ attempt'[i].land = "none"
      /\ attempt'[i].conflict = FALSE
      /\ attempt'[i].landing \notin {"ambiguous", "landed"}
      /\ attempt' \in [Train!Members -> TrainAttempts \cup {NoItem}]
      /\ entry'[i] = "verifying_prefix"
      /\ \A j \in Train!Members \ {i} : attempt'[j] = attempt[j] /\ entry'[j] = entry[j]
  BY <1>a
<1>1. TrainTypes'
  BY <1>b
<1>2. PrefixInv'
  BY DEF PrefixInv
<1>3. PlaceInv'
  <2> SUFFICES ASSUME NEW j \in Train!Members PROVE PlaceInv!(j)'
    BY DEF PlaceInv
  <2> QED BY PlacesAreNumbered DEF PlaceInv, Standing, ActiveInv, FenceInv, AttemptInv,
       MemberFits
<1>4. AttemptInv'
  <2> SUFFICES ASSUME NEW j \in Train!Members PROVE MemberFits(j)'
    BY DEF AttemptInv
  <2>1. CASE j = i
    <3>1. UNCHANGED <<prefix, validated>>
      OBVIOUS
    <3> HIDE DEF Train!Begin, Train!Compose, Train!Verify, Train!ComposeConflicts
    <3> QED BY <1>a, <1>b, <2>1, <3>1 DEF MemberFits, Train!Passed
  <2>2. CASE j # i
    <3>1. attempt'[j] = attempt[j] /\ entry'[j] = entry[j] /\ UNCHANGED <<prefix, validated>>
      BY <2>2, <1>a, <1>b
    <3> HIDE DEF Train!Begin, Train!Compose, Train!Verify, Train!ComposeConflicts
    <3> QED BY <3>1 DEF AttemptInv, MemberFits, Train!Passed
  <2> QED BY <2>1, <2>2
<1>5. ActiveInv'
  BY DEF ActiveInv, PlaceInv, Standing, FenceInv
<1>6. TargetInv'
  BY DEF TargetInv, ActiveInv, AttemptInv, MemberFits
<1>7. MergeInv'
  BY DEF MergeInv, ActiveInv, AttemptInv, MemberFits, TargetInv
<1>8. CallInv'
  BY DEF CallInv, ActiveInv, AttemptInv, MemberFits, TargetInv
<1>9. FenceInv'
  BY DEF FenceInv, ActiveInv, PlaceInv, Standing
<1> QED BY <1>1, <1>2, <1>3, <1>4, <1>5, <1>6, <1>7, <1>8, <1>9

LEMMA TrainComposeConflictsKeeps ==
  ASSUME TrainInv, NEW i \in Train!Members, Train!ComposeConflicts(i)
  PROVE  TrainInv'
<1> USE NoItemIsFresh DEF TrainInv, TrainTypes, MemberStates, EntryStates, Worked, Effects,
     TrainAttempts, Leases, Reserved, Landings, LandedCount, Train!ComposeConflicts,
     Train!world, Train!queue, Train!Publishes, Train!GivesBack, Train!Effect,
     Train!OnlyAttempt, Train!Steps, Train!Intended
<1>a. /\ attempt[i] \in TrainAttempts /\ attempt[i].expected = prefix
      /\ entry[i] \in Worked
      /\ ~ attempt[i].conflict /\ attempt[i].land = "none"
      /\ attempt[i].landing \notin {"ambiguous", "landed"}
  BY ActiveWorks
<1>b. /\ attempt'[i] = [attempt[i] EXCEPT !.compose = "failed", !.conflict = TRUE]
      /\ attempt'[i] \in TrainAttempts
      /\ attempt'[i].expected = prefix /\ attempt'[i].land = "none"
      /\ attempt'[i].conflict = TRUE
      /\ attempt'[i].landing \notin {"ambiguous", "landed"}
      /\ attempt' \in [Train!Members -> TrainAttempts \cup {NoItem}]
      /\ entry'[i] = "invalidated"
      /\ \A j \in Train!Members \ {i} : attempt'[j] = attempt[j] /\ entry'[j] = entry[j]
  BY <1>a
<1>1. TrainTypes'
  BY <1>b
<1>2. PrefixInv'
  BY DEF PrefixInv
<1>3. PlaceInv'
  <2> SUFFICES ASSUME NEW j \in Train!Members PROVE PlaceInv!(j)'
    BY DEF PlaceInv
  <2> QED BY PlacesAreNumbered DEF PlaceInv, Standing, ActiveInv, FenceInv, AttemptInv,
       MemberFits
<1>4. AttemptInv'
  <2> SUFFICES ASSUME NEW j \in Train!Members PROVE MemberFits(j)'
    BY DEF AttemptInv
  <2>1. CASE j = i
    <3>1. UNCHANGED <<prefix, validated>>
      OBVIOUS
    <3> HIDE DEF Train!Begin, Train!Compose, Train!Verify, Train!ComposeConflicts
    <3> QED BY <1>a, <1>b, <2>1, <3>1 DEF MemberFits, Train!Passed
  <2>2. CASE j # i
    <3>1. attempt'[j] = attempt[j] /\ entry'[j] = entry[j] /\ UNCHANGED <<prefix, validated>>
      BY <2>2, <1>a, <1>b
    <3> HIDE DEF Train!Begin, Train!Compose, Train!Verify, Train!ComposeConflicts
    <3> QED BY <3>1 DEF AttemptInv, MemberFits, Train!Passed
  <2> QED BY <2>1, <2>2
<1>5. ActiveInv'
  BY DEF ActiveInv, PlaceInv, Standing, FenceInv
<1>6. TargetInv'
  BY DEF TargetInv, ActiveInv, AttemptInv, MemberFits
<1>7. MergeInv'
  BY DEF MergeInv, ActiveInv, AttemptInv, MemberFits, TargetInv
<1>8. CallInv'
  BY DEF CallInv, ActiveInv, AttemptInv, MemberFits, TargetInv
<1>9. FenceInv'
  BY DEF FenceInv, ActiveInv, PlaceInv, Standing
<1> QED BY <1>1, <1>2, <1>3, <1>4, <1>5, <1>6, <1>7, <1>8, <1>9

LEMMA TrainVerifyKeeps ==
  ASSUME TrainInv, NEW i \in Train!Members, Train!Verify(i)
  PROVE  TrainInv'
<1> USE NoItemIsFresh DEF TrainInv, TrainTypes, MemberStates, EntryStates, Worked, Effects,
     TrainAttempts, Leases, Reserved, Landings, LandedCount, Train!Verify, Train!world,
     Train!queue, Train!Publishes, Train!GivesBack, Train!Effect, Train!OnlyAttempt,
     Train!Steps, Train!Intended
<1>a. /\ attempt[i] \in TrainAttempts /\ attempt[i].expected = prefix
      /\ ~ attempt[i].conflict /\ attempt[i].land = "none"
      /\ attempt[i].landing \notin {"ambiguous", "landed"}
      /\ Train!Passed(i, "prefix") /\ Train!Passed(i, "final")
  BY ActiveWorks
<1>b. entry'[i] = "landing" /\ attempt' = attempt
        /\ \A j \in Train!Members \ {i} : entry'[j] = entry[j]
  OBVIOUS
<1>1. TrainTypes'
  OBVIOUS
<1>2. PrefixInv'
  BY DEF PrefixInv
<1>3. PlaceInv'
  <2> SUFFICES ASSUME NEW j \in Train!Members PROVE PlaceInv!(j)'
    BY DEF PlaceInv
  <2> QED BY PlacesAreNumbered DEF PlaceInv, Standing, ActiveInv, FenceInv, AttemptInv,
       MemberFits
<1>4. AttemptInv'
  <2> SUFFICES ASSUME NEW j \in Train!Members PROVE MemberFits(j)'
    BY DEF AttemptInv
  <2>1. CASE j = i
    <3>1. UNCHANGED <<prefix, validated>>
      OBVIOUS
    <3> HIDE DEF Train!Begin, Train!Compose, Train!Verify, Train!ComposeConflicts
    <3> QED BY <1>a, <1>b, <2>1, <3>1 DEF MemberFits, Train!Passed
  <2>2. CASE j # i
    <3>1. attempt'[j] = attempt[j] /\ entry'[j] = entry[j] /\ UNCHANGED <<prefix, validated>>
      BY <2>2, <1>a, <1>b
    <3> HIDE DEF Train!Begin, Train!Compose, Train!Verify, Train!ComposeConflicts
    <3> QED BY <3>1 DEF AttemptInv, MemberFits, Train!Passed
  <2> QED BY <2>1, <2>2
<1>5. ActiveInv'
  BY DEF ActiveInv, PlaceInv, Standing, FenceInv
<1>6. TargetInv'
  BY DEF TargetInv, ActiveInv, AttemptInv, MemberFits
<1>7. MergeInv'
  BY DEF MergeInv, ActiveInv, AttemptInv, MemberFits, TargetInv
<1>8. CallInv'
  BY DEF CallInv, ActiveInv, AttemptInv, MemberFits, TargetInv
<1>9. FenceInv'
  BY DEF FenceInv, ActiveInv, PlaceInv, Standing
<1> QED BY <1>1, <1>2, <1>3, <1>4, <1>5, <1>6, <1>7, <1>8, <1>9

LEMMA TrainStartLandingKeeps ==
  ASSUME TrainInv, NEW i \in Train!Members, Train!StartLanding(i)
  PROVE  TrainInv'
<1> USE NoItemIsFresh DEF TrainInv, TrainTypes, MemberStates, EntryStates, Worked, Effects,
     TrainAttempts, Leases, Reserved, Landings, LandedCount, Train!StartLanding,
     Train!Observation, Train!world, Train!queue, Train!Publishes, Train!GivesBack,
     Train!Effect, Train!OnlyAttempt, Train!Steps, Train!Intended
<1>a. attempt[i] \in TrainAttempts /\ attempt[i].expected = prefix /\ entry[i] = "landing"
  BY ActiveWorks
<1>b. /\ merging' \in {merging, i}
      /\ landing' \in Landings /\ landing'.item = i /\ landing'.step \in {"merging", "record"}
      /\ landing'.step = "record" =>
           landing'.seen \in {"proven_absent", "applied_exact", "conflict"}
      /\ landing'.step = "record" /\ landing'.seen = "conflict" =>
           tip \notin {attempt[i].expected, Train!Intended(i)}
  <2>1. Train!Observation(i) \in {"proven_absent", "applied_exact", "conflict"}
    BY DEF Train!Observation
  <2>2. Train!Observation(i) = "conflict" => tip \notin {attempt[i].expected, Train!Intended(i)}
    BY DEF Train!Observation
  <2> HIDE DEF Train!Observation, Train!Intended
  <2>3. CASE Train!Observation(i) = "proven_absent"
    <3>1. landing' = [item |-> i, step |-> "merging", seen |-> NoItem, fresh |-> TRUE]
      BY <2>3
    <3> QED BY <2>3, <3>1
  <2>4. CASE Train!Observation(i) # "proven_absent"
    <3>1. landing' =
            [item |-> i, step |-> "record", seen |-> Train!Observation(i), fresh |-> TRUE]
      BY <2>4
    <3> QED BY <2>1, <2>2, <2>4, <3>1
  <2> QED BY <2>3, <2>4
<1> HIDE DEF Train!Observation
<1>1. TrainTypes'
  BY <1>b
<1>2. PrefixInv'
  BY DEF PrefixInv
<1>3. PlaceInv'
  <2> SUFFICES ASSUME NEW j \in Train!Members PROVE PlaceInv!(j)'
    BY DEF PlaceInv
  <2> QED BY PlacesAreNumbered DEF PlaceInv, Standing, ActiveInv, FenceInv, AttemptInv,
       MemberFits
<1>4. AttemptInv'
  <2> SUFFICES ASSUME NEW j \in Train!Members PROVE MemberFits(j)'
    BY DEF AttemptInv
  <2> QED BY PlacesAreNumbered DEF AttemptInv, MemberFits, Train!Passed, PlaceInv, Standing,
       ActiveInv, FenceInv
<1>5. ActiveInv'
  BY DEF ActiveInv, PlaceInv, Standing, FenceInv
<1>6. TargetInv'
  BY DEF TargetInv, ActiveInv, AttemptInv, MemberFits
<1>7. MergeInv'
  BY <1>a, <1>b DEF MergeInv
<1>8. CallInv'
  BY <1>a, <1>b DEF CallInv, TargetInv
<1>9. FenceInv'
  BY DEF FenceInv, ActiveInv, PlaceInv, Standing
<1> QED BY <1>1, <1>2, <1>3, <1>4, <1>5, <1>6, <1>7, <1>8, <1>9

LEMMA TrainMergeKeeps ==
  ASSUME TrainInv, Train!Merge
  PROVE  TrainInv'
<1> USE NoItemIsFresh DEF TrainInv, TrainTypes, MemberStates, EntryStates, Worked, Effects,
     TrainAttempts, Leases, Reserved, Landings, LandedCount, Train!Merge, Train!world,
     Train!queue, Train!Publishes, Train!GivesBack, Train!Effect, Train!OnlyAttempt,
     Train!Steps, Train!Intended
<1>a. attempt[merging] \in TrainAttempts /\ merging \in Train!Members
  BY DEF MergeInv
<1>b. Train!Intended(merging) \in Seq(Train!Members) /\ prefix \in Seq(Train!Members)
  BY <1>a
<1>c. \/ tip' = tip
      \/ active = merging /\ tip = prefix /\ tip' = Append(prefix, active)
  <2>1. CASE tip # attempt[merging].expected
    BY <2>1
  <2>2. CASE active = merging
    BY <1>a, <2>2, ActiveWorks
  <2>3. CASE tip = Elsewhere
    BY <2>3, <1>a
  <2>4. CASE Len(attempt[merging].expected) < LandedCount
    <3>1. \/ tip = Elsewhere \/ tip = prefix
          \/ active \in Train!Members /\ Len(tip) = Len(prefix) + 1
      BY <1>b DEF TargetInv
    <3> QED BY <3>1, <2>4, <1>a, <1>b
  <2> QED BY <2>1, <2>2, <2>3, <2>4 DEF MergeInv
<1>1. TrainTypes'
  BY <1>b
<1>2. PrefixInv'
  BY DEF PrefixInv
<1>3. PlaceInv'
  <2> SUFFICES ASSUME NEW j \in Train!Members PROVE PlaceInv!(j)'
    BY DEF PlaceInv
  <2> QED BY PlacesAreNumbered DEF PlaceInv, Standing, ActiveInv, FenceInv, AttemptInv,
       MemberFits
<1>4. AttemptInv'
  <2> SUFFICES ASSUME NEW j \in Train!Members PROVE MemberFits(j)'
    BY DEF AttemptInv
  <2> QED BY PlacesAreNumbered DEF AttemptInv, MemberFits, Train!Passed, PlaceInv, Standing,
       ActiveInv, FenceInv
<1>5. ActiveInv'
  BY DEF ActiveInv, PlaceInv, Standing, FenceInv
<1>6. TargetInv'
  BY <1>c DEF TargetInv
<1>7. MergeInv'
  BY DEF MergeInv, ActiveInv, AttemptInv, MemberFits, TargetInv
<1>8. CallInv'
  BY <1>c, <1>b DEF CallInv
<1>9. FenceInv'
  BY DEF FenceInv, ActiveInv, PlaceInv, Standing
<1> QED BY <1>1, <1>2, <1>3, <1>4, <1>5, <1>6, <1>7, <1>8, <1>9

LEMMA TrainObserveKeeps ==
  ASSUME TrainInv, Train!Observe
  PROVE  TrainInv'
<1> USE NoItemIsFresh DEF TrainInv, TrainTypes, MemberStates, EntryStates, Worked, Effects,
     TrainAttempts, Leases, Reserved, Landings, LandedCount, Train!Observe, Train!world,
     Train!queue, Train!Publishes, Train!GivesBack, Train!Effect, Train!OnlyAttempt,
     Train!Steps, Train!Intended
<1>a. Train!Observation(landing.item) \in {"proven_absent", "applied_exact", "conflict"}
  BY DEF Train!Observation
<1>1. TrainTypes'
  BY <1>a
<1>2. PrefixInv'
  BY DEF PrefixInv
<1>3. PlaceInv'
  <2> SUFFICES ASSUME NEW j \in Train!Members PROVE PlaceInv!(j)'
    BY DEF PlaceInv
  <2> QED BY PlacesAreNumbered DEF PlaceInv, Standing, ActiveInv, FenceInv, AttemptInv,
       MemberFits
<1>4. AttemptInv'
  <2> SUFFICES ASSUME NEW j \in Train!Members PROVE MemberFits(j)'
    BY DEF AttemptInv
  <2> QED BY PlacesAreNumbered DEF AttemptInv, MemberFits, Train!Passed, PlaceInv, Standing,
       ActiveInv, FenceInv
<1>5. ActiveInv'
  BY DEF ActiveInv, PlaceInv, Standing, FenceInv
<1>6. TargetInv'
  BY DEF TargetInv, ActiveInv, AttemptInv, MemberFits
<1>7. MergeInv'
  BY DEF MergeInv, ActiveInv, AttemptInv, MemberFits, TargetInv
<1>8. CallInv'
  BY <1>a DEF CallInv
<1>9. FenceInv'
  BY DEF FenceInv, ActiveInv, PlaceInv, Standing
<1> QED BY <1>1, <1>2, <1>3, <1>4, <1>5, <1>6, <1>7, <1>8, <1>9

LEMMA TrainRequestCancellationKeeps ==
  ASSUME TrainInv, Train!RequestCancellation
  PROVE  TrainInv'
<1> USE NoItemIsFresh DEF TrainInv, TrainTypes, MemberStates, EntryStates, Worked, Effects,
     TrainAttempts, Leases, Reserved, Landings, LandedCount, Train!RequestCancellation,
     Train!MayBeFenced, Train!world, Train!queue, Train!Publishes, Train!GivesBack,
     Train!Effect, Train!OnlyAttempt, Train!Steps, Train!Intended
<1>0. fence = "none" /\ active = NoItem
        /\ UNCHANGED <<prefix, validated, tip, merging, lease, active>>
  OBVIOUS
<1>a. ASSUME NEW j \in Train!Members
      PROVE  /\ attempt[j] = NoItem => attempt'[j] = NoItem
             /\ attempt[j] # NoItem =>
                  /\ attempt'[j] \in TrainAttempts
                  /\ attempt'[j].expected = attempt[j].expected
                  /\ attempt'[j].landing = attempt[j].landing
                  /\ attempt'[j].prefix = attempt[j].prefix
                  /\ attempt'[j].final = attempt[j].final
                  /\ attempt'[j].land = "none" <=> attempt[j].land = "none"
  <2>1. attempt[j] \in TrainAttempts \cup {NoItem}
    OBVIOUS
  <2>2. CASE attempt[j] = NoItem
    BY <2>2
  <2>3. CASE attempt[j] # NoItem
    <3>1. attempt'[j] = [attempt[j] EXCEPT !.compose = IF @ = "failed" THEN "ambiguous" ELSE @,
                                           !.land = IF @ = "failed" THEN "ambiguous" ELSE @]
      BY <2>3
    <3> HIDE DEF Train!RequestCancellation
    <3>2. attempt[j] \in TrainAttempts
      BY <2>1, <2>3
    <3>3. /\ attempt'[j].expected = attempt[j].expected
          /\ attempt'[j].landing = attempt[j].landing
          /\ attempt'[j].prefix = attempt[j].prefix /\ attempt'[j].final = attempt[j].final
          /\ attempt'[j].land =
               IF attempt[j].land = "failed" THEN "ambiguous" ELSE attempt[j].land
      BY <3>1, <3>2
    <3> QED BY <2>3, <3>1, <3>2, <3>3
  <2> QED BY <2>2, <2>3
<1>b. ASSUME NEW j \in Train!Members
      PROVE  /\ entry'[j] \in {"none", "invalidated", "integrated"}
             /\ entry'[j] = "integrated" <=> entry[j] = "integrated"
             /\ entry'[j] = "none" <=> entry[j] = "none"
             /\ entry'[j] = "invalidated" => j \in Train!Queued
  BY DEF Train!Queued
<1>c. attempt' \in [Train!Members -> TrainAttempts \cup {NoItem}]
  <2>1. attempt' = [j \in Train!Members |-> attempt'[j]]
    OBVIOUS
  <2>2. \A j \in Train!Members : attempt'[j] \in TrainAttempts \cup {NoItem}
    BY <1>a
  <2> HIDE DEF Train!RequestCancellation
  <2> QED BY <2>1, <2>2
<1>d. landing' = NoItem
  BY DEF CallInv
<1>1. TrainTypes'
  BY <1>b, <1>c, <1>d DEF Train!Queued
<1>2. PrefixInv'
  BY DEF PrefixInv
<1>3. PlaceInv'
  <2> SUFFICES ASSUME NEW j \in Train!Members PROVE PlaceInv!(j)'
    BY DEF PlaceInv
  <2>1. fence' = "open" /\ member'[j] = (IF member[j] = "complete" THEN "complete" ELSE "blocked")
    OBVIOUS
  <2> HIDE DEF Train!RequestCancellation
  <2> QED BY <1>0, <1>b, <2>1 DEF PlaceInv
<1>4. AttemptInv'
  <2> SUFFICES ASSUME NEW j \in Train!Members PROVE MemberFits(j)'
    BY DEF AttemptInv
  <2>0. MemberFits(j) /\ Standing(j)
    BY <1>0 DEF AttemptInv, PlaceInv
  <2>1. Train!Passed(j, "prefix") /\ Train!Passed(j, "final") /\ attempt[j] # NoItem =>
          Train!Passed(j, "prefix")' /\ Train!Passed(j, "final")'
    BY <1>0, <1>a DEF Train!Passed
  <2>2. entry[j] \notin Worked
    BY <1>0, <2>0 DEF Standing
  <2> HIDE DEF Train!RequestCancellation
  <2> QED BY <1>0, <1>a, <1>b, <2>0, <2>1, <2>2 DEF MemberFits
<1>5. ActiveInv'
  BY DEF ActiveInv, PlaceInv, Standing, FenceInv
<1>6. TargetInv'
  BY DEF TargetInv, ActiveInv, AttemptInv, MemberFits
<1>7. MergeInv'
  <2> SUFFICES ASSUME merging # NoItem PROVE MergeInv'
    BY <1>0 DEF MergeInv
  <2>1. merging \in Train!Members /\ attempt[merging] # NoItem
    BY DEF MergeInv
  <2> HIDE DEF Train!RequestCancellation
  <2> QED BY <1>0, <1>a, <2>1 DEF MergeInv
<1>8. CallInv'
  BY <1>d DEF CallInv
<1>9. FenceInv'
  <2>1. /\ \A k, j \in Train!Queued : k = j
        /\ want' = "cancelled" /\ fence' = "open"
    OBVIOUS
  <2> HIDE DEF Train!RequestCancellation
  <2> QED BY <1>0, <1>b, <2>1 DEF FenceInv
<1> QED BY <1>1, <1>2, <1>3, <1>4, <1>5, <1>6, <1>7, <1>8, <1>9

LEMMA TrainAcceptKeeps ==
  ASSUME TrainInv, NEW i \in Train!Members, Train!Accept(i)
  PROVE  TrainInv'
<1> USE NoItemIsFresh DEF TrainInv, TrainTypes, MemberStates, EntryStates, Worked, Effects,
     TrainAttempts, Leases, Reserved, Landings, LandedCount, Train!Accept, Train!StillLanded,
     Train!world, Train!queue, Train!Publishes, Train!GivesBack, Train!Effect,
     Train!OnlyAttempt, Train!Steps, Train!Intended
<1>a. /\ attempt[i] \in TrainAttempts /\ attempt[i].expected = prefix
      /\ entry[i] = "landing" => Train!Passed(i, "prefix") /\ Train!Passed(i, "final")
      /\ Train!At(i) = LandedCount + 1 /\ fence = "none" /\ entry[i] \in Worked
      /\ lease = [by |-> i, state |-> "active"] /\ active = i
  BY ActiveWorks
<1>b. /\ attempt'[i] = [attempt[i] EXCEPT !.landing = "landed"] /\ attempt'[i] \in TrainAttempts
      /\ attempt'[i].expected = prefix /\ attempt'[i].landing = "landed"
      /\ attempt'[i].land = attempt[i].land /\ attempt'[i].prefix = attempt[i].prefix
      /\ attempt'[i].final = attempt[i].final
      /\ attempt' \in [Train!Members -> TrainAttempts \cup {NoItem}]
      /\ \A j \in Train!Members \ {i} : attempt'[j] = attempt[j]
  BY <1>a
<1>c. /\ entry' \in [Train!Members -> EntryStates] /\ entry'[i] = "integrated"
      /\ \A j \in Train!Members \ {i} :
           entry'[j] = IF entry[j] = "waiting"
                /\ Train!At(j) = Train!At(i) + 1 THEN "eligible" ELSE entry[j]
  OBVIOUS
<1>d. /\ prefix' \in Seq(Train!Members) /\ Len(prefix') = Len(prefix) + 1
      /\ prefix'[Len(prefix) + 1] = i /\ \A k \in 1..Len(prefix) : prefix'[k] = prefix[k]
      /\ prefix' = Append(prefix, i) /\ tip = Append(prefix, i)
  BY <1>a
<1>e. active' = NoItem /\ lease' = NoItem /\ slot' = [slot EXCEPT ![i] = NoItem]
        /\ landing' = NoItem
  BY <1>a
<1>f. /\ member' = [member EXCEPT ![i] = "complete"]
      /\ UNCHANGED <<want, fence, validated, tip, merging>>
  OBVIOUS
<1>g. ASSUME NEW j \in Train!Members, j # i PROVE Train!At(j) # Train!At(i)
  BY <1>g, OtherPlace
<1>l. Len(prefix) \in Nat
  OBVIOUS
<1>h. attempt[i].land # "none" => Train!Passed(i, "prefix") /\ Train!Passed(i, "final")
  BY <1>a, LandedPassed
<1> HIDE DEF Train!Accept, Train!StillLanded, Train!Steps, Train!Intended, Train!GivesBack,
     Train!world, Train!queue
<1>1. TrainTypes'
  BY <1>b, <1>c, <1>d, <1>e, <1>f
<1>2. PrefixInv'
  BY <1>a, <1>d, PlacesAreNumbered DEF PrefixInv
<1>3. PlaceInv'
  <2> SUFFICES ASSUME NEW j \in Train!Members PROVE PlaceInv!(j)'
    BY DEF PlaceInv
  <2>1. CASE j = i
    <3>1. member'[i] = "complete" /\ entry'[i] = "integrated" /\ slot'[i] = NoItem
      BY <1>c, <1>e, <1>f
    <3>2. LandedCount' = LandedCount + 1 /\ LandedCount \in Nat
      BY <1>d
    <3> HIDE DEF LandedCount
    <3> QED BY <1>a, <1>f, <2>1, <3>1, <3>2 DEF PlaceInv, Standing
  <2>2. CASE j # i
    <3>1. /\ Train!At(j) # Train!At(i) /\ member'[j] = member[j] /\ slot'[j] = slot[j]
          /\ Train!At(j) \in Nat /\ LandedCount \in Nat /\ LandedCount' = LandedCount + 1
      BY <1>d, <1>e, <1>f, <1>g, <2>2, PlacesAreNumbered
    <3>2. entry'[j] = IF entry[j] = "waiting"
               /\ Train!At(j) = Train!At(i) + 1 THEN "eligible" ELSE entry[j]
      BY <1>c, <2>2
    <3>3. entry[j] \in {"none", "waiting", "integrated"}
      BY <1>a, <3>1 DEF PlaceInv, Standing
    <3> HIDE DEF LandedCount
    <3> QED BY <1>a, <1>e, <1>f, <2>2, <3>1, <3>2, <3>3 DEF PlaceInv, Standing
  <2> QED BY <2>1, <2>2
<1>4. AttemptInv'
  <2> SUFFICES ASSUME NEW j \in Train!Members PROVE MemberFits(j)'
    BY DEF AttemptInv
  <2>1. CASE j = i
    <3>1. Train!Passed(i, "prefix")' = Train!Passed(i, "prefix")
            /\ Train!Passed(i, "final")' = Train!Passed(i, "final")
      BY <1>b, <1>f DEF Train!Passed
    <3> HIDE DEF TrainInv, TrainTypes, MemberStates, EntryStates, Effects, TrainAttempts
    <3>2. attempt'[i] # NoItem /\ LandedCount' = Len(prefix) + 1
      BY <1>b, <1>d, RealAttempt
    <3>3. MemberFits(i)'
      BY <1>b, <1>c, <1>h, <1>l, <3>1, <3>2 DEF MemberFits
    <3> QED BY <2>1, <3>3
  <2>2. CASE j # i
    <3>1. attempt'[j] = attempt[j] /\ Train!Passed(j, "prefix")' = Train!Passed(j, "prefix")
          /\ Train!Passed(j, "final")' = Train!Passed(j, "final")
      BY <1>b, <1>f, <2>2 DEF Train!Passed
    <3>2. entry[j] \in {"none", "waiting", "integrated"}
      BY <1>a, <1>g, <2>2 DEF PlaceInv, Standing
    <3>3. entry'[j] = IF entry[j] = "waiting"
               /\ Train!At(j) = Train!At(i) + 1 THEN "eligible" ELSE entry[j]
      BY <1>c, <2>2
    <3>4. entry[j] = "integrated" => attempt[j] \in TrainAttempts
               /\ Len(attempt[j].expected) \in Nat
      BY DEF AttemptInv, MemberFits
    <3> QED BY <1>d, <3>1, <3>2, <3>3, <3>4 DEF AttemptInv, MemberFits
  <2> QED BY <2>1, <2>2
<1>5. ActiveInv'
  BY <1>e DEF ActiveInv
<1>6. TargetInv'
  BY <1>d, <1>f DEF TargetInv
<1>7. MergeInv'
  <2> SUFFICES ASSUME merging # NoItem PROVE MergeInv'
    BY <1>f DEF MergeInv
  <2>1. merging \in Train!Members /\ attempt[merging] \in TrainAttempts
    BY DEF MergeInv
  <2>2. attempt'[merging] \in TrainAttempts
          /\ attempt'[merging].expected = attempt[merging].expected
    BY <1>a, <1>b, <2>1
  <2>3. Len(attempt[merging].expected) \in Nat
    BY <2>1
  <2>4. \/ tip = Elsewhere \/ Len(attempt[merging].expected) < LandedCount'
    BY <1>a, <1>d, <2>3 DEF MergeInv
  <2> QED BY <1>e, <1>f, <2>1, <2>2, <2>4 DEF MergeInv
<1>8. CallInv'
  BY <1>e DEF CallInv
<1>9. FenceInv'
  BY <1>a, <1>f DEF FenceInv
<1> QED BY <1>1, <1>2, <1>3, <1>4, <1>5, <1>6, <1>7, <1>8, <1>9

LEMMA TrainRecordLandingKeeps ==
  ASSUME TrainInv, Train!RecordLanding
  PROVE  TrainInv'
<1>p. landing.item \in Train!Members
  BY DEF TrainInv, TrainTypes, Landings, Train!RecordLanding
<1> SUFFICES ASSUME NEW i \in Train!Members, i = landing.item PROVE TrainInv'
  BY <1>p
<1>0. /\ landing # NoItem /\ landing.step = "record" /\ landing' = NoItem
      /\ UNCHANGED <<want, fence, prefix, validated, tip, merging>>
  BY DEF Train!RecordLanding
<1>a. /\ i \in Train!Members /\ active = i /\ entry[i] = "landing"
      /\ attempt[i].land = "dispatching"
      /\ landing.seen = "conflict" => tip = Elsewhere
  BY <1>0 DEF TrainInv, TrainTypes, Landings, CallInv
<1>b. /\ attempt[i] \in TrainAttempts /\ attempt[i].expected = prefix /\ ~ attempt[i].conflict
      /\ attempt[i].landing \notin {"ambiguous", "landed"} /\ fence = "none"
      /\ Train!Passed(i, "prefix") /\ Train!Passed(i, "final") /\ Train!At(i) = LandedCount + 1
      /\ lease = [by |-> i, state |-> "active"] /\ entry[i] \in Worked
  BY <1>a, ActiveWorks
<1>1. CASE UNCHANGED <<member, entry, attempt, active, lease, slot>>
  BY <1>0, <1>1, NoItemIsFresh DEF TrainInv, TrainTypes, PrefixInv, PlaceInv, Standing,
     AttemptInv, MemberFits, Train!Passed, ActiveInv, TargetInv, MergeInv, CallInv, FenceInv,
     LandedCount
<1>2. ASSUME NEW a \in TrainAttempts, attempt' = [attempt EXCEPT ![i] = a], a.expected = prefix,
             a.prefix = attempt[i].prefix, a.final = attempt[i].final, a.landing # "landed",
             IF entry' = entry
             THEN /\ ~ a.conflict /\ a.land \notin {"failed", "ambiguous", "none"}
                  /\ a.landing # "ambiguous"
                  /\ UNCHANGED <<member, active, lease, slot>>
             ELSE /\ a.land = "failed" /\ tip = Elsewhere
                  /\ entry' = [entry EXCEPT ![i] = "blocked"]
                  /\ member' = [member EXCEPT ![i] = "integration_ready"]
                  /\ active' = NoItem /\ lease' = NoItem /\ slot' = [slot EXCEPT ![i] = NoItem]
      PROVE  TrainInv'
  <2>0. /\ TrainTypes /\ attempt'[i] = a /\ a # NoItem
        /\ \A j \in Train!Members \ {i} : attempt'[j] = attempt[j]
        /\ attempt' \in [Train!Members -> TrainAttempts \cup {NoItem}]
    BY <1>2, <1>a, NoItemIsFresh DEF TrainInv, TrainTypes
  <2>e. \/ UNCHANGED <<member, entry, active, lease, slot>>
        \/ /\ entry' = [entry EXCEPT ![i] = "blocked"] /\ active' = NoItem /\ lease' = NoItem
           /\ member' = [member EXCEPT ![i] = "integration_ready"]
           /\ slot' = [slot EXCEPT ![i] = NoItem] /\ tip = Elsewhere
    BY <1>2
  <2>1. TrainTypes'
    BY <1>0, <1>a, <2>0, <2>e DEF TrainTypes, MemberStates, EntryStates
  <2>2. PrefixInv' /\ TargetInv' /\ CallInv'
    BY <1>0, <2>e DEF TrainInv, PrefixInv, TargetInv, CallInv, LandedCount
  <2>3. PlaceInv'
    <3> SUFFICES ASSUME NEW j \in Train!Members PROVE PlaceInv!(j)'
      BY DEF PlaceInv
    <3>1. CASE j = i
      BY <1>0, <1>a, <1>b, <2>0, <2>e, <3>1 DEF TrainInv, PlaceInv, Standing, LandedCount,
         TrainTypes, Worked
    <3>2. CASE j # i
      <4>1. /\ member'[j] = member[j] /\ entry'[j] = entry[j] /\ slot'[j] = slot[j]
        BY <2>0, <2>e, <3>2 DEF TrainTypes
      <4>2. entry[j] \notin Worked
        BY <1>a, <1>b, <3>2 DEF TrainInv, PlaceInv, Standing
      <4> QED BY <1>0, <1>b, <4>1, <4>2 DEF TrainInv, PlaceInv, Standing, LandedCount
    <3> QED BY <3>1, <3>2
  <2>4. AttemptInv'
    <3> SUFFICES ASSUME NEW j \in Train!Members PROVE MemberFits(j)'
      BY DEF AttemptInv
    <3>1. CASE j = i
      <4>1. Train!Passed(i, "prefix")' /\ Train!Passed(i, "final")'
        BY <1>0, <1>2, <1>b, <2>0 DEF Train!Passed
      <4>2. CASE entry' = entry
        BY <1>0, <1>2, <1>a, <1>b, <2>0, <3>1, <4>1, <4>2 DEF MemberFits, Worked
      <4>3. CASE entry' # entry
        <5>1. entry'[i] = "blocked" /\ a.land = "failed"
          BY <1>2, <1>a, <2>0, <4>3 DEF TrainTypes
        <5> QED BY <1>0, <1>2, <2>0, <3>1, <4>1, <5>1 DEF MemberFits, Worked
      <4> QED BY <4>2, <4>3
    <3>2. CASE j # i
      <4>1. attempt'[j] = attempt[j] /\ entry'[j] = entry[j]
        BY <2>0, <2>e, <3>2 DEF TrainTypes
      <4> QED BY <1>0, <4>1 DEF TrainInv, AttemptInv, MemberFits, Train!Passed, LandedCount
    <3> QED BY <3>1, <3>2
  <2>5. ActiveInv' /\ FenceInv'
    BY <1>0, <1>b, <2>e DEF TrainInv, ActiveInv, FenceInv, TrainTypes
  <2>6. MergeInv'
    <3> SUFFICES ASSUME merging # NoItem PROVE MergeInv'
      BY <1>0 DEF MergeInv
    <3>1. merging \in Train!Members /\ attempt[merging] # NoItem
      BY DEF TrainInv, TrainTypes, MergeInv
    <3>2. attempt'[merging] # NoItem
      BY <2>0, <3>1
    <3>3. merging # i => attempt'[merging] = attempt[merging]
      BY <2>0, <3>1
    <3>4. active' = active \/ (active' = NoItem /\ tip = Elsewhere)
      BY <2>e, Zenon
    <3>5. active' = merging => active = merging /\ entry'[merging] = "landing"
      <4>1. active' = merging => active = merging /\ entry' = entry
        BY <2>e, <3>1, NoItemIsFresh
      <4> QED BY <4>1, <3>1 DEF TrainInv, MergeInv
    <3> QED BY <1>0, <1>a, <3>2, <3>3, <3>4, <3>5 DEF TrainInv, MergeInv, LandedCount
  <2> QED BY <2>1, <2>2, <2>3, <2>4, <2>5, <2>6 DEF TrainInv
<1>c. attempt \in [Train!Members -> TrainAttempts \cup {NoItem}]
  BY DEF TrainInv, TrainTypes
<1>3. CASE landing.seen = "applied_exact"
           /\ attempt' = [attempt EXCEPT ![i].land = "reconciled", ![i].landing = "reconciled"]
           /\ UNCHANGED <<member, entry, active, lease, slot>>
  <2> DEFINE a == [attempt[i] EXCEPT !.land = "reconciled", !.landing = "reconciled"]
  <2>0. a \in TrainAttempts
    BY <1>b, LandingMarked
  <2>1. attempt' = [attempt EXCEPT ![i] = a]
    BY <1>3, <1>c
  <2>2. /\ a.expected = prefix /\ a.prefix = attempt[i].prefix /\ a.final = attempt[i].final
        /\ ~ a.conflict /\ a.land = "reconciled" /\ a.landing = "reconciled"
    BY <1>b DEF TrainAttempts
  <2> HIDE DEF a
  <2> QED BY <1>2, <1>3, <2>0, <2>1, <2>2
<1>4. CASE landing.seen = "proven_absent"
           /\ attempt' = [attempt EXCEPT ![i].land = "proven_absent", ![i].landing = "observed"]
           /\ UNCHANGED <<member, entry, active, lease, slot>>
  <2> DEFINE a == [attempt[i] EXCEPT !.land = "proven_absent", !.landing = "observed"]
  <2>0. a \in TrainAttempts
    BY <1>b, LandingMarked
  <2>1. attempt' = [attempt EXCEPT ![i] = a]
    BY <1>4, <1>c
  <2>2. /\ a.expected = prefix /\ a.prefix = attempt[i].prefix /\ a.final = attempt[i].final
        /\ ~ a.conflict /\ a.land = "proven_absent" /\ a.landing = "observed"
    BY <1>b DEF TrainAttempts
  <2> HIDE DEF a
  <2> QED BY <1>2, <1>4, <2>0, <2>1, <2>2
<1>5. CASE landing.seen = "conflict"
           /\ attempt' = [attempt EXCEPT ![i].land = "failed", ![i].landing = "ambiguous"]
           /\ entry' = [entry EXCEPT ![i] = "blocked"]
           /\ member' = [member EXCEPT ![i] = "integration_ready"]
           /\ Train!GivesBack(i)
  <2> DEFINE a == [attempt[i] EXCEPT !.land = "failed", !.landing = "ambiguous"]
  <2>1. a \in TrainAttempts /\ attempt' = [attempt EXCEPT ![i] = a]
    BY <1>5, <1>a, <1>b, <1>c DEF TrainAttempts, Effects
  <2>2. /\ a.expected = prefix /\ a.prefix = attempt[i].prefix /\ a.final = attempt[i].final
        /\ a.land = "failed" /\ a.landing = "ambiguous"
    BY <1>b DEF TrainAttempts
  <2>3. active' = NoItem /\ lease' = NoItem /\ slot' = [slot EXCEPT ![i] = NoItem]
    BY <1>5, <1>b DEF Train!GivesBack
  <2>4. entry' # entry
    BY <1>5, <1>a DEF TrainInv, TrainTypes
  <2> HIDE DEF a
  <2> QED BY <1>2, <1>5, <1>a, <2>1, <2>2, <2>3, <2>4
<1> QED BY <1>1, <1>3, <1>4, <1>5 DEF Train!RecordLanding

LEMMA TrainInitKeeps == Train!Init => TrainInv
<1> SUFFICES ASSUME Train!Init PROVE TrainInv
  OBVIOUS
<1> USE DEF Train!Init
<1>1. TrainTypes /\ PrefixInv /\ ActiveInv /\ TargetInv /\ MergeInv /\ CallInv /\ FenceInv
  BY NoItemIsFresh DEF TrainTypes, PrefixInv, ActiveInv, TargetInv, MergeInv, CallInv,
     FenceInv, LandedCount, MemberStates, EntryStates
<1>2. PlaceInv
  BY PlacesAreNumbered DEF PlaceInv, Standing, LandedCount, Worked
<1>3. AttemptInv
  BY DEF AttemptInv, MemberFits, Worked
<1> QED BY <1>1, <1>2, <1>3 DEF TrainInv

LEMMA TrainStepKeeps == TrainInv /\ [Train!Next]_(Train!vars) => TrainInv'
<1> SUFFICES ASSUME TrainInv, [Train!Next]_(Train!vars) PROVE TrainInv'
  OBVIOUS
<1>1. CASE UNCHANGED Train!vars
  BY <1>1 DEF Train!vars, TrainInv, TrainTypes, PrefixInv, PlaceInv, Standing, AttemptInv,
     MemberFits, Train!Passed, ActiveInv, TargetInv, MergeInv, CallInv, FenceInv, LandedCount
<1>2. ASSUME NEW i \in Train!Members,
             \/ Train!Ready(i) \/ Train!Reserve(i) \/ Train!Activate(i) \/ Train!Begin(i)
             \/ Train!MarkCompose(i) \/ Train!Compose(i) \/ Train!ComposeConflicts(i)
             \/ \E phase \in Train!Range(Train!Phases) :
                  \/ Train!PutValidation(i, phase) \/ Train!MarkValidation(i, phase)
                  \/ \E verdict \in {"PASS", "FAIL"} : Train!Validate(i, phase, verdict)
                  \/ Train!RecordValidation(i, phase) \/ Train!ReconcileValidation(i, phase)
             \/ Train!Verify(i) \/ Train!PrepareLanding(i) \/ Train!MarkLanding(i)
             \/ Train!StartLanding(i) \/ Train!Accept(i)
      PROVE  TrainInv'
  <2>1. Train!Range(Train!Phases) = {"prefix", "final"}
    BY DEF Train!Range, Train!Phases
  <2>2. ASSUME NEW phase \in {"prefix", "final"}, NEW verdict \in {"PASS", "FAIL"},
               Train!Validate(i, phase, verdict)
        PROVE  TrainInv'
    BY <2>2, TrainValidateKeeps
  <2>3. CASE \/ Train!MarkCompose(i) \/ Train!MarkLanding(i)
             \/ \E phase \in {"prefix", "final"} :
                  \/ Train!PutValidation(i, phase) \/ Train!MarkValidation(i, phase)
                  \/ Train!RecordValidation(i, phase) \/ Train!ReconcileValidation(i, phase)
    BY <2>3, TrainEffectsKeep
  <2>4. CASE \/ Train!Ready(i) \/ Train!Reserve(i) \/ Train!Activate(i) \/ Train!Begin(i)
             \/ Train!Compose(i)
             \/ Train!ComposeConflicts(i) \/ Train!Verify(i) \/ Train!PrepareLanding(i)
             \/ Train!StartLanding(i)
             \/ Train!Accept(i)
    BY <2>4, TrainReadyKeeps, TrainReserveKeeps, TrainActivateKeeps, TrainBeginKeeps,
       TrainComposeKeeps, TrainComposeConflictsKeeps, TrainVerifyKeeps,
       TrainPrepareLandingKeeps, TrainStartLandingKeeps, TrainAcceptKeeps
  <2> QED BY <1>2, <2>1, <2>2, <2>3, <2>4
<1>3. CASE \/ Train!Merge \/ Train!Observe \/ Train!RecordLanding
           \/ Train!Pause \/ Train!Resume \/ Train!RequestCancellation
           \/ Train!CloseCancellation \/ Train!Dies \/ Train!Stray
  BY <1>3, TrainMergeKeeps, TrainObserveKeeps, TrainRecordLandingKeeps, TrainPauseKeeps,
     TrainResumeKeeps, TrainRequestCancellationKeeps, TrainCloseCancellationKeeps,
     TrainDiesKeeps, TrainStrayKeeps
<1> QED BY <1>1, <1>2, <1>3 DEF Train!Next

\* What makes the promise inductive: where each member stands against the accepted prefix, what
\* its attempt is there, who has the lock, and whom the target and a merge belong to.
THEOREM TrainInvariant == Train!Spec => []TrainInv
BY TrainInitKeeps, TrainStepKeeps, PTL DEF Train!Spec

LEMMA PrefixAgrees ==
  ASSUME TrainInv
  PROVE  Train!IsPrefix(prefix, Order)
           /\ Train!Range(prefix) = {i \in Train!Members : entry[i] = "integrated"}
<1>0. /\ prefix \in Seq(Train!Members) /\ Order \in Seq(Train!Members) /\ Len(prefix) \in Nat
      /\ Len(Order) \in Nat /\ Len(prefix) <= Len(Order)
      /\ \A k \in 1..Len(prefix) : prefix[k] = Order[k]
  BY TrainAssumption DEF TrainInv, TrainTypes, PrefixInv, LandedCount, Train!Members
<1>1. Train!IsPrefix(prefix, Order)
  <2>1. SubSeq(prefix, 1, Len(prefix)) = SubSeq(Order, 1, Len(prefix))
    BY <1>0
  <2> QED BY <1>0, <2>1 DEF Train!IsPrefix
<1>2. Train!Range(prefix) = {Order[k] : k \in 1..Len(prefix)}
  BY <1>0 DEF Train!Range
<1>3. \A i \in Train!Members : entry[i] = "integrated" <=> Train!At(i) <= Len(prefix)
  BY DEF TrainInv, PlaceInv, LandedCount
<1>4. ASSUME NEW i \in Train!Members, entry[i] = "integrated" PROVE i \in Train!Range(prefix)
  <2>1. Train!At(i) \in 1..Len(prefix) /\ Order[Train!At(i)] = i
    BY <1>0, <1>3, <1>4, PlacesAreNumbered
  <2> QED BY <1>2, <2>1
<1>5. ASSUME NEW k \in 1..Len(prefix) PROVE Order[k] \in Train!Members
        /\ entry[Order[k]] = "integrated"
  <2>1. k \in 1..Len(Order)
    BY <1>0
  <2>2. Order[k] \in Train!Members /\ Train!At(Order[k]) = k
    BY <2>1, PlacesAreNumbered
  <2> QED BY <1>0, <1>3, <2>2
<1>6. Train!Range(prefix) = {i \in Train!Members : entry[i] = "integrated"}
  BY <1>2, <1>4, <1>5
<1> QED BY <1>1, <1>6

LEMMA EarlierIsBefore ==
  ASSUME TrainInv, NEW i \in Train!Members, NEW j \in Train!Earlier(i)
  PROVE  j \in Train!Members /\ Train!At(j) \in Nat /\ Train!At(j) < Train!At(i)
<1>1. PICK k \in 1..(Train!At(i) - 1) : j = Order[k]
  BY DEF Train!Earlier
<1>2. k \in 1..Len(Order)
  BY PlacesAreNumbered, TrainAssumption
<1> QED BY <1>1, <1>2, PlacesAreNumbered, TrainAssumption

LEMMA EntriesAgree ==
  ASSUME TrainInv, NEW i \in Train!Members
  PROVE  /\ entry[i] = "integrated" <=> member[i] = "complete"
         /\ entry[i] \notin {"none", "invalidated"} =>
              member[i] \in {"integration_ready", "integrating", "complete"}
         /\ entry[i] \notin {"none", "waiting"} =>
              \A j \in Train!Earlier(i) : entry[j] \in {"none", "integrated"}
<1>0. /\ entry[i] = "integrated" <=> Train!At(i) <= LandedCount
      /\ entry[i] = "integrated" <=> member[i] = "complete"
      /\ fence = "none" => Standing(i)
      /\ fence # "none" => entry[i] \in {"none", "invalidated", "integrated"}
      /\ entry[i] \in EntryStates
  BY DEF TrainInv, PlaceInv, TrainTypes
<1>1. entry[i] \notin {"none", "invalidated"} =>
        member[i] \in {"integration_ready", "integrating", "complete"}
  BY <1>0 DEF Standing, EntryStates, Worked
<1>2. ASSUME entry[i] \notin {"none", "waiting"}, NEW j \in Train!Earlier(i)
      PROVE  entry[j] \in {"none", "integrated"}
  <2>0. j \in Train!Members /\ Train!At(j) \in Nat /\ Train!At(j) < Train!At(i)
          /\ LandedCount \in Nat /\ Train!At(i) \in Nat
    BY EarlierIsBefore, PlacesAreNumbered DEF TrainInv, TrainTypes, LandedCount
  <2>1. /\ entry[j] = "integrated" <=> Train!At(j) <= LandedCount
        /\ fence # "none" => entry[j] \in {"none", "invalidated", "integrated"}
        /\ entry[i] = "invalidated" /\ entry[j] = "invalidated" /\ fence # "none" => i = j
    BY <2>0 DEF TrainInv, PlaceInv, FenceInv
  <2>2. Train!At(i) <= LandedCount + 1 \/ fence # "none"
    BY <1>0, <1>2, <2>0 DEF Standing
  <2> QED BY <1>0, <1>2, <2>0, <2>1, <2>2
<1> QED BY <1>0, <1>1, <1>2

LEMMA AttemptsAgree ==
  ASSUME TrainInv, NEW i \in Train!Members
  PROVE  Train!AttemptAgrees(i)
<1> SUFFICES ASSUME attempt[i] # NoItem PROVE Train!AttemptAgrees(i)
  BY DEF Train!AttemptAgrees
<1>0. /\ MemberFits(i) /\ (fence = "none" => Standing(i)) /\ entry[i] \in EntryStates
      /\ fence # "none" => entry[i] \in {"none", "invalidated", "integrated"}
      /\ active \in Train!Members \cup {NoItem} /\ fence # "none" => active = NoItem
  BY DEF TrainInv, PlaceInv, AttemptInv, TrainTypes, FenceInv
<1>1. active # NoItem => lease = [by |-> active, state |-> "active"]
  BY DEF TrainInv, ActiveInv
<1>2. active = NoItem => lease = NoItem
  BY DEF TrainInv, ActiveInv
<1>3. active = i => entry[i] \in Worked /\ lease = [by |-> i, state |-> "active"]
  BY ActiveWorks
<1>4. active # i => lease = NoItem \/ lease.by # i
  BY <1>1, <1>2
<1>5. entry[i] \in Worked => active = i
  BY <1>0 DEF Standing, Worked
<1>6. entry[i] \in Worked \cup {"blocked", "invalidated", "integrated"}
  BY <1>0 DEF MemberFits, EntryStates, Worked
<1>7. attempt[i].land # "none" => Train!Passed(i, "prefix") /\ Train!Passed(i, "final")
  BY LandedPassed
<1>8. attempt[i].landing # "landed" => attempt[i].expected = prefix
  BY <1>0, <1>6 DEF MemberFits, Worked
<1>9. CASE entry[i] \in Worked
  BY <1>0, <1>3, <1>5, <1>7, <1>8, <1>9 DEF Train!AttemptAgrees, MemberFits, Worked
<1>10. CASE entry[i] \notin Worked
  BY <1>0, <1>3, <1>4, <1>6, <1>7, <1>8, <1>10 DEF Train!AttemptAgrees, MemberFits, Worked
<1> QED BY <1>9, <1>10

LEMMA AuditFollows == TrainInv => Train!TrainAudit /\ Train!TrainIsQuiet
<1> SUFFICES ASSUME TrainInv PROVE Train!TrainAudit /\ Train!TrainIsQuiet
  OBVIOUS
<1>1. Train!TypeOK
  BY DEF TrainInv, TrainTypes, Train!TypeOK, MemberStates, EntryStates
<1>2. ASSUME active # NoItem
      PROVE  active \in Train!Queued /\ \A j \in Train!Earlier(active) : entry[j] = "integrated"
  <2>1. active \in Train!Members /\ entry[active] \in Worked /\ Train!At(active) = LandedCount + 1
    BY <1>2, ActiveWorks DEF TrainInv, TrainTypes
  <2>2. ASSUME NEW j \in Train!Earlier(active) PROVE entry[j] = "integrated"
    <3>1. j \in Train!Members /\ Train!At(j) \in Nat /\ Train!At(j) < Train!At(active)
            /\ LandedCount \in Nat
      BY <2>1, EarlierIsBefore DEF TrainInv, TrainTypes, LandedCount
    <3>2. Train!At(j) <= LandedCount
      BY <2>1, <3>1
    <3> QED BY <3>1, <3>2 DEF TrainInv, PlaceInv
  <2> QED BY <2>1, <2>2 DEF Train!Queued, Worked
<1>3. Train!TrainAgrees
  BY <1>2, PrefixAgrees, EntriesAgree DEF Train!TrainAgrees
<1>4. Train!TrainIsQuiet
  BY DEF Train!TrainIsQuiet, TrainInv, FenceInv, ActiveInv, PlaceInv
<1> QED BY <1>1, <1>3, <1>4, AttemptsAgree DEF Train!TrainAudit

-----------------------------------------------------------------------------
(* The train as the target branch sees it.                                 *)

PlaceOf(i) == IF active = i THEN "open"
            ELSE IF entry[i] = "integrated" THEN "accepted"
            ELSE IF attempt[i] # NoItem THEN "closed" ELSE "none"
StatusOfRun == IF fence = "none" THEN "active" ELSE "cancelling"

LEMMA PlaceInitially == Train!Init => Train!Branch!Init
BY NoItemIsFresh DEF Train!Init, Train!Branch!Init

\* Steps that the branch does not see.
LEMMA PlaceStays ==
  ASSUME UNCHANGED <<tip, prefix, active>>, StatusOfRun' = StatusOfRun,
         \A i \in Train!Members : /\ entry'[i] = "integrated" <=> entry[i] = "integrated"
                                  /\ attempt'[i] = NoItem <=> attempt[i] = NoItem
  PROVE  UNCHANGED Train!Branch!vars
<1>0. ASSUME NEW i \in Train!Members PROVE PlaceOf(i)' = PlaceOf(i)
  BY DEF PlaceOf
<1>1. [i \in Train!Members |-> PlaceOf(i)]' = [i \in Train!Members |-> PlaceOf(i)]
  BY <1>0
<1> QED BY <1>1 DEF Train!Branch!vars, PlaceOf, StatusOfRun

LEMMA AttemptStays ==
  ASSUME TrainInv, NEW i \in Train!Members, attempt[i] # NoItem, NEW a \in TrainAttempts,
         attempt' = [attempt EXCEPT ![i] = a]
  PROVE  \A j \in Train!Members : attempt'[j] = NoItem <=> attempt[j] = NoItem
BY RealAttempt DEF TrainInv, TrainTypes

LEMMA EffectStays ==
  ASSUME TrainInv, NEW i \in Train!Members, active = i,
         NEW name \in {"compose", "prefix", "final", "land"}, NEW s \in Effects,
         Train!Effect(i, name, s)
  PROVE  \A j \in Train!Members : attempt'[j] = NoItem <=> attempt[j] = NoItem
<1> DEFINE a == [attempt[i] EXCEPT ![name] = s]
<1>0. attempt[i] \in TrainAttempts /\ attempt[i] # NoItem
  BY ActiveWorks, RealAttempt
<1>1. a \in TrainAttempts /\ attempt' = [attempt EXCEPT ![i] = a]
  BY <1>0 DEF TrainAttempts, Train!Effect
<1> HIDE DEF a
<1> QED BY <1>0, <1>1, AttemptStays

LEMMA EffectsAreUnseen ==
  ASSUME TrainInv, NEW i \in Train!Members,
         \/ Train!MarkCompose(i) \/ Train!MarkLanding(i)
         \/ \E phase \in {"prefix", "final"} :
              \/ Train!PutValidation(i, phase) \/ Train!MarkValidation(i, phase)
              \/ Train!RecordValidation(i, phase) \/ Train!ReconcileValidation(i, phase)
  PROVE  UNCHANGED Train!Branch!vars
<1>1. active = i /\ Train!OnlyAttempt
  BY DEF Train!MarkCompose, Train!MarkLanding, Train!PutValidation, Train!MarkValidation,
     Train!RecordValidation, Train!ReconcileValidation, Train!Validates, Train!Steps
<1>2. PICK name \in {"compose", "prefix", "final", "land"}, s \in Effects :
        Train!Effect(i, name, s)
  BY DEF Train!MarkCompose, Train!MarkLanding, Train!PutValidation, Train!MarkValidation,
     Train!RecordValidation, Train!ReconcileValidation, Effects
<1>3. \A j \in Train!Members : attempt'[j] = NoItem <=> attempt[j] = NoItem
  BY <1>1, <1>2, EffectStays
<1> QED BY <1>1, <1>3, PlaceStays DEF Train!OnlyAttempt, Train!queue, Train!world, StatusOfRun

LEMMA EntryStays ==
  ASSUME TrainInv, NEW i \in Train!Members, entry[i] # "integrated", NEW s \in EntryStates,
           s # "integrated",
         entry' = [entry EXCEPT ![i] = s]
  PROVE  \A j \in Train!Members : entry'[j] = "integrated" <=> entry[j] = "integrated"
BY DEF TrainInv, TrainTypes

LEMMA UnseenOfItem ==
  ASSUME TrainInv, NEW i \in Train!Members,
         \/ Train!Ready(i) \/ Train!Reserve(i) \/ Train!Activate(i) \/ Train!Compose(i)
         \/ Train!Verify(i) \/ Train!PrepareLanding(i)
         \/ Train!StartLanding(i)
         \/ \E phase \in {"prefix", "final"}, verdict \in {"PASS", "FAIL"} :
              Train!Validate(i, phase, verdict)
  PROVE  UNCHANGED Train!Branch!vars
<1>0. entry \in [Train!Members -> EntryStates]
        /\ attempt \in [Train!Members -> TrainAttempts \cup {NoItem}]
  BY DEF TrainInv, TrainTypes
<1>1. CASE Train!Ready(i)
  <2>1. \A j \in Train!Members : entry'[j] = "integrated" <=> entry[j] = "integrated"
    BY <1>0, <1>1 DEF Train!Ready
  <2> QED BY <1>1, <2>1, PlaceStays DEF Train!Ready, StatusOfRun
<1>2. CASE Train!Reserve(i) \/ Train!Activate(i)
  BY <1>2, PlaceStays DEF Train!Reserve, Train!Activate, StatusOfRun
<1>3. CASE Train!Compose(i)
  <2>1. active = i /\ Train!Effect(i, "compose", "reconciled")
    BY <1>3 DEF Train!Compose, Train!Steps
  <2>2. \A j \in Train!Members : attempt'[j] = NoItem <=> attempt[j] = NoItem
    BY <2>1, EffectStays DEF Effects
  <2>3. \A j \in Train!Members : entry'[j] = "integrated" <=> entry[j] = "integrated"
    <3>1. entry[i] = "composing" /\ entry' = [entry EXCEPT ![i] = "verifying_prefix"]
      BY <1>3 DEF Train!Compose
    <3> QED BY <1>0, <3>1
  <2> QED BY <1>3, <2>2, <2>3, PlaceStays DEF Train!Compose, Train!world, StatusOfRun
<1>4. CASE Train!Verify(i)
  <2>1. \A j \in Train!Members : entry'[j] = "integrated" <=> entry[j] = "integrated"
    <3>1. entry[i] = "verifying_prefix" /\ entry' = [entry EXCEPT ![i] = "landing"]
      BY <1>4 DEF Train!Verify
    <3> QED BY <1>0, <3>1
  <2> QED BY <1>4, <2>1, PlaceStays DEF Train!Verify, Train!world, StatusOfRun
<1>5. CASE Train!PrepareLanding(i)
  <2> DEFINE a == [attempt[i] EXCEPT !.land = "intended", !.landing = "intended"]
  <2>1. attempt[i] \in TrainAttempts /\ attempt[i] # NoItem
    BY <1>5, ActiveWorks, RealAttempt DEF Train!PrepareLanding, Train!Steps
  <2>2. a \in TrainAttempts /\ attempt' = [attempt EXCEPT ![i] = a]
    BY <1>0, <1>5, <2>1 DEF TrainAttempts, Effects, Train!PrepareLanding
  <2> HIDE DEF a
  <2>3. \A j \in Train!Members : attempt'[j] = NoItem <=> attempt[j] = NoItem
    BY <2>1, <2>2, AttemptStays
  <2> QED BY <1>5, <2>3, PlaceStays DEF Train!PrepareLanding, Train!OnlyAttempt, Train!queue,
       Train!world, StatusOfRun
<1>6. CASE Train!StartLanding(i)
  BY <1>6, PlaceStays DEF Train!StartLanding, Train!queue, StatusOfRun
<1>7. CASE \E phase \in {"prefix", "final"}, verdict \in {"PASS", "FAIL"} :
              Train!Validate(i, phase, verdict)
  BY <1>7, PlaceStays DEF Train!Validate, Train!queue, Train!world, StatusOfRun
<1> QED BY <1>1, <1>2, <1>3, <1>4, <1>5, <1>6, <1>7

LEMMA UnseenElsewhere ==
  ASSUME TrainInv, Train!Observe \/ Train!Pause \/ Train!Resume \/ Train!CloseCancellation
    \/ Train!Dies
  PROVE  UNCHANGED Train!Branch!vars
<1>1. UNCHANGED <<tip, prefix, active, entry, attempt>> /\ StatusOfRun' = StatusOfRun
  BY DEF Train!Observe, Train!Pause, Train!Resume, Train!CloseCancellation, Train!Dies,
     Train!queue, StatusOfRun
<1> QED BY <1>1, PlaceStays

\* An item opens an operation when it begins its attempt.
LEMMA BeginOpens ==
  ASSUME TrainInv, NEW i \in Train!Members, Train!Begin(i)
  PROVE  Train!Branch!Open(i)
<1>0. /\ entry \in [Train!Members -> EntryStates]
      /\ attempt \in [Train!Members -> TrainAttempts \cup {NoItem}]
      /\ (entry[i] = "integrated" <=> member[i] = "complete") /\ i # NoItem
  BY NoItemIsFresh DEF TrainInv, TrainTypes, PlaceInv
<1>1. /\ active = NoItem /\ active' = i /\ attempt[i] = NoItem /\ member[i] = "integrating"
      /\ want = "running" /\ UNCHANGED <<fence, prefix, tip>>
      /\ entry' = [entry EXCEPT ![i] = "composing"]
      /\ \A j \in Train!Members \ {i} : attempt'[j] = attempt[j]
  BY <1>0 DEF Train!Begin, Train!world
<1>2. fence = "none"
  BY <1>1 DEF TrainInv, FenceInv
<1>3. /\ PlaceOf(i) = "none" /\ PlaceOf(i)' = "open"
      /\ \A j \in Train!Members : PlaceOf(j) # "open" /\ (j # i => PlaceOf(j)' = PlaceOf(j))
  <2>1. ASSUME NEW j \in Train!Members, j # i PROVE PlaceOf(j)' = PlaceOf(j)
    BY <1>0, <1>1, <2>1, NoItemIsFresh DEF PlaceOf
  <2> QED BY <1>0, <1>1, <2>1, NoItemIsFresh DEF PlaceOf
<1>4. [j \in Train!Members |-> PlaceOf(j)]'
       = [[j \in Train!Members |-> PlaceOf(j)] EXCEPT ![i] = "open"]
  BY <1>3
<1> QED BY <1>1, <1>2, <1>3, <1>4 DEF Train!Branch!Open, PlaceOf

\* A merge lands the item of the active attempt, or leaves the target alone.
LEMMA TrainMergeLands ==
  ASSUME TrainInv, Train!Merge
  PROVE  UNCHANGED Train!Branch!vars \/ \E i \in Train!Members : Train!Branch!Land(i)
<1>0. /\ merging \in Train!Members /\ UNCHANGED <<fence, prefix, active, entry, attempt>>
      /\ tip' = IF tip = attempt[merging].expected THEN Train!Intended(merging) ELSE tip
      /\ attempt[merging] \in TrainAttempts
  BY DEF TrainInv, TrainTypes, Train!Merge, Train!queue, MergeInv
<1>1. CASE tip # attempt[merging].expected
  BY <1>0, <1>1, PlaceStays DEF StatusOfRun
<1>2. CASE tip = attempt[merging].expected
  <2>1. active = merging
    <3>1. /\ attempt[merging].expected \in Seq(Train!Members) /\ prefix \in Seq(Train!Members)
          /\ active # NoItem => active \in Train!Members
      BY <1>0 DEF TrainAttempts, TrainInv, TrainTypes
    <3>2. tip # Elsewhere
      BY <1>2, <3>1, NoItemIsFresh
    <3>3. ASSUME Len(attempt[merging].expected) < LandedCount PROVE FALSE
      <4>1. Len(tip) < Len(prefix) /\ Len(prefix) \in Nat
        BY <1>2, <3>1, <3>3 DEF LandedCount
      <4>2. active # NoItem => Len(Append(prefix, active)) = Len(prefix) + 1
        BY <3>1
      <4> QED BY <3>2, <4>1, <4>2 DEF TrainInv, TargetInv
    <3> QED BY <1>0, <3>2, <3>3 DEF TrainInv, MergeInv, Train!Merge
  <2>2. attempt[merging].expected = prefix
    BY <1>0, <2>1, ActiveWorks
  <2>3. tip = prefix /\ tip' = Append(prefix, merging)
    BY <1>0, <1>2, <2>2 DEF Train!Intended
  <2>4. [j \in Train!Members |-> PlaceOf(j)]' = [j \in Train!Members |-> PlaceOf(j)]
    BY <1>0 DEF PlaceOf
  <2>5. Train!Branch!Land(merging)
    BY <1>0, <2>1, <2>3, <2>4 DEF Train!Branch!Land, PlaceOf
  <2> QED BY <1>0, <2>5
<1> QED BY <1>1, <1>2

LEMMA AcceptAccepts ==
  ASSUME TrainInv, NEW i \in Train!Members, Train!Accept(i)
  PROVE  Train!Branch!Accept(i)
<1>0. /\ entry \in [Train!Members -> EntryStates]
      /\ attempt \in [Train!Members -> TrainAttempts \cup {NoItem}]
      /\ i # NoItem /\ active = i /\ attempt[i].expected = prefix /\ fence = "none"
  BY ActiveWorks, NoItemIsFresh DEF TrainInv, TrainTypes, Train!Accept, Train!Steps
<1>1. /\ active' = NoItem /\ tip = Append(prefix, i) /\ prefix' = Append(prefix, i)
      /\ UNCHANGED <<fence, tip>>
      /\ \A j \in Train!Members \ {i} : attempt'[j] = attempt[j]
      /\ \A j \in Train!Members : entry'[j] =
           IF j = i THEN "integrated"
           ELSE IF entry[j] = "waiting"
                /\ Train!At(j) = Train!At(i) + 1 THEN "eligible" ELSE entry[j]
  BY <1>0 DEF Train!Accept, Train!StillLanded, Train!Intended, Train!GivesBack, Train!world
<1>2. PlaceOf(i) = "open" /\ PlaceOf(i)' = "accepted"
  BY <1>0, <1>1 DEF PlaceOf
<1>3. ASSUME NEW j \in Train!Members, j # i PROVE PlaceOf(j)' = PlaceOf(j)
  <2>1. entry'[j] = "integrated" <=> entry[j] = "integrated"
    BY <1>1, <1>3
  <2> QED BY <1>0, <1>1, <1>3, <2>1, NoItemIsFresh DEF PlaceOf
<1>4. [j \in Train!Members |-> PlaceOf(j)]'
       = [[j \in Train!Members |-> PlaceOf(j)] EXCEPT ![i] = "accepted"]
  BY <1>2, <1>3
<1> QED BY <1>0, <1>1, <1>2, <1>4 DEF Train!Branch!Accept, PlaceOf

\* What ends an attempt without landing.
LEMMA ConflictCloses ==
  ASSUME TrainInv, NEW i \in Train!Members, active = i, active' = NoItem, NEW a \in TrainAttempts,
         attempt' = [attempt EXCEPT ![i] = a], NEW s \in {"invalidated", "blocked"},
         entry' = [entry EXCEPT ![i] = s], UNCHANGED <<fence, prefix, tip>>,
         tip # Append(prefix, i)
  PROVE  Train!Branch!Close(i)
<1>0. /\ entry \in [Train!Members -> EntryStates]
      /\ attempt \in [Train!Members -> TrainAttempts \cup {NoItem}]
      /\ i # NoItem /\ a # NoItem /\ fence = "none"
  BY ActiveWorks, NoItemIsFresh, RealAttempt DEF TrainInv, TrainTypes
<1>1. PlaceOf(i) = "open" /\ PlaceOf(i)' = "closed"
  BY <1>0 DEF PlaceOf
<1>2. ASSUME NEW j \in Train!Members, j # i PROVE PlaceOf(j)' = PlaceOf(j)
  BY <1>0, <1>2, NoItemIsFresh DEF PlaceOf
<1>3. [j \in Train!Members |-> PlaceOf(j)]'
       = [[j \in Train!Members |-> PlaceOf(j)] EXCEPT ![i] = "closed"]
  BY <1>1, <1>2
<1> QED BY <1>0, <1>1, <1>3 DEF Train!Branch!Close, PlaceOf

LEMMA CompositionCloses ==
  ASSUME TrainInv, NEW i \in Train!Members, Train!ComposeConflicts(i)
  PROVE  Train!Branch!Close(i)
<1> DEFINE a == [attempt[i] EXCEPT !.compose = "failed", !.conflict = TRUE]
<1>0. /\ active = i /\ attempt[i] \in TrainAttempts /\ attempt[i].expected = prefix
      /\ attempt \in [Train!Members -> TrainAttempts \cup {NoItem}]
      /\ prefix \in Seq(Train!Members)
  BY ActiveWorks DEF TrainInv, TrainTypes, Train!ComposeConflicts, Train!Steps
<1>1. a \in TrainAttempts
  BY <1>0 DEF TrainAttempts, Effects
<1>2. attempt' = [attempt EXCEPT ![i] = a]
  BY <1>0 DEF Train!ComposeConflicts
<1>3. /\ active' = NoItem /\ entry' = [entry EXCEPT ![i] = "invalidated"]
      /\ UNCHANGED <<fence, prefix, tip>> /\ tip = prefix
  BY <1>0 DEF Train!ComposeConflicts, Train!GivesBack, Train!world
<1>4. tip # Append(prefix, i)
  BY <1>0, <1>3
<1> HIDE DEF a
<1> QED BY <1>0, <1>1, <1>2, <1>3, <1>4, ConflictCloses

LEMMA RecordedLanding ==
  ASSUME TrainInv, Train!RecordLanding
  PROVE  UNCHANGED Train!Branch!vars \/ \E i \in Train!Members : Train!Branch!Close(i)
<1>p. landing.item \in Train!Members
  BY DEF TrainInv, TrainTypes, Landings, Train!RecordLanding
<1> SUFFICES ASSUME NEW i \in Train!Members, i = landing.item
             PROVE  UNCHANGED Train!Branch!vars \/ Train!Branch!Close(i)
  BY <1>p
<1>0. /\ active = i /\ attempt[i] \in TrainAttempts /\ attempt[i] # NoItem
      /\ attempt \in [Train!Members -> TrainAttempts \cup {NoItem}]
      /\ prefix \in Seq(Train!Members)
      /\ landing.seen = "conflict" => tip = Elsewhere
      /\ UNCHANGED <<fence, prefix, tip>>
  BY ActiveWorks, RealAttempt DEF TrainInv, TrainTypes, CallInv, Train!RecordLanding
<1>1. CASE UNCHANGED <<member, entry, attempt, active, lease, slot>>
  BY <1>0, <1>1, PlaceStays DEF StatusOfRun
<1>2. CASE attempt' = [attempt EXCEPT ![i].land = "reconciled", ![i].landing = "reconciled"]
           /\ UNCHANGED <<member, entry, active, lease, slot>>
  <2> DEFINE a == [attempt[i] EXCEPT !.land = "reconciled", !.landing = "reconciled"]
  <2>1. a \in TrainAttempts
    BY <1>0, LandingMarked
  <2>2. attempt' = [attempt EXCEPT ![i] = a]
    BY <1>0, <1>2
  <2> HIDE DEF a
  <2>3. \A j \in Train!Members : attempt'[j] = NoItem <=> attempt[j] = NoItem
    BY <1>0, <2>1, <2>2, AttemptStays
  <2> QED BY <1>0, <1>2, <2>3, PlaceStays DEF StatusOfRun
<1>3. CASE attempt' = [attempt EXCEPT ![i].land = "proven_absent", ![i].landing = "observed"]
           /\ UNCHANGED <<member, entry, active, lease, slot>>
  <2> DEFINE a == [attempt[i] EXCEPT !.land = "proven_absent", !.landing = "observed"]
  <2>1. a \in TrainAttempts
    BY <1>0, LandingMarked
  <2>2. attempt' = [attempt EXCEPT ![i] = a]
    BY <1>0, <1>3
  <2> HIDE DEF a
  <2>3. \A j \in Train!Members : attempt'[j] = NoItem <=> attempt[j] = NoItem
    BY <1>0, <2>1, <2>2, AttemptStays
  <2> QED BY <1>0, <1>3, <2>3, PlaceStays DEF StatusOfRun
<1>4. CASE /\ landing.seen = "conflict"
           /\ attempt' = [attempt EXCEPT ![i].land = "failed", ![i].landing = "ambiguous"]
           /\ entry' = [entry EXCEPT ![i] = "blocked"]
           /\ Train!GivesBack(i)
  <2> DEFINE a == [attempt[i] EXCEPT !.land = "failed", !.landing = "ambiguous"]
  <2>1. a \in TrainAttempts
    BY <1>0 DEF TrainAttempts, Effects
  <2>2. attempt' = [attempt EXCEPT ![i] = a]
    BY <1>0, <1>4
  <2>3. tip # Append(prefix, i) /\ active' = NoItem
    <3>1. Append(prefix, i) \in Seq(Train!Members)
      BY <1>0
    <3> QED BY <1>0, <1>4, <3>1, NoItemIsFresh DEF Train!GivesBack
  <2> HIDE DEF a
  <2> QED BY <1>0, <1>4, <2>1, <2>2, <2>3, ConflictCloses
<1> QED BY <1>1, <1>2, <1>3, <1>4 DEF Train!RecordLanding

LEMMA StatesMarked ==
  ASSUME NEW a \in TrainAttempts, NEW c \in Effects, NEW l \in Effects
  PROVE  [a EXCEPT !.compose = c, !.land = l] \in TrainAttempts
BY DEF TrainAttempts

LEMMA FenceCancels ==
  ASSUME TrainInv, Train!RequestCancellation
  PROVE  Train!Branch!Cancel
<1>0. /\ active = NoItem /\ UNCHANGED <<active, prefix, tip>> /\ fence' = "open"
      /\ entry \in [Train!Members -> EntryStates]
  BY DEF Train!RequestCancellation, Train!MayBeFenced, TrainInv, TrainTypes
<1>1. ASSUME NEW i \in Train!Members
      PROVE  /\ entry'[i] = "integrated" <=> entry[i] = "integrated"
             /\ attempt'[i] = NoItem <=> attempt[i] = NoItem
  <2>1. entry'[i] = IF i \in Train!Queued THEN "invalidated" ELSE entry[i]
    BY DEF Train!RequestCancellation
  <2>2. i \in Train!Queued => entry[i] # "integrated"
    BY DEF Train!Queued
  <2>3. attempt[i] = NoItem => attempt'[i] = NoItem
    BY DEF Train!RequestCancellation
  <2>4. attempt[i] # NoItem => attempt'[i] # NoItem
    <3>1. SUFFICES ASSUME attempt[i] # NoItem PROVE attempt'[i] # NoItem
      OBVIOUS
    <3> DEFINE c == IF attempt[i].compose = "failed" THEN "ambiguous" ELSE attempt[i].compose
               l == IF attempt[i].land = "failed" THEN "ambiguous" ELSE attempt[i].land
    <3>2. attempt[i] \in TrainAttempts
      BY <3>1 DEF TrainInv, TrainTypes
    <3>3. attempt'[i] = [attempt[i] EXCEPT !.compose = c, !.land = l]
      BY <3>1 DEF Train!RequestCancellation
    <3>4. c \in Effects /\ l \in Effects
      BY <3>2 DEF TrainAttempts, Effects
    <3> HIDE DEF c, l
    <3> QED BY <3>2, <3>3, <3>4, StatesMarked, RealAttempt
  <2> QED BY <2>1, <2>2, <2>3, <2>4
<1>2. [i \in Train!Members |-> PlaceOf(i)]' = [i \in Train!Members |-> PlaceOf(i)]
  BY <1>0, <1>1 DEF PlaceOf
<1> QED BY <1>0, <1>2 DEF Train!Branch!Cancel, PlaceOf

LEMMA StrayStrays ==
  ASSUME Train!Stray
  PROVE  Train!Branch!Stray
<1>0. tip' = Elsewhere /\ UNCHANGED <<active, fence, prefix, entry, attempt>>
  BY DEF Train!Stray, Train!queue
<1>1. [i \in Train!Members |-> PlaceOf(i)]' = [i \in Train!Members |-> PlaceOf(i)]
  BY <1>0 DEF PlaceOf
<1> QED BY <1>0, <1>1 DEF Train!Branch!Stray, PlaceOf

LEMMA StepOfBranch == TrainInv
  /\ [Train!Next]_(Train!vars) => [Train!Branch!Next]_(Train!Branch!vars)
<1> SUFFICES ASSUME TrainInv, [Train!Next]_(Train!vars) 
             PROVE  UNCHANGED Train!Branch!vars \/ Train!Branch!Next
  OBVIOUS
<1>1. CASE UNCHANGED Train!vars
  BY <1>1, PlaceStays DEF Train!vars, StatusOfRun
<1>2. ASSUME NEW i \in Train!Members,
             \/ Train!Ready(i) \/ Train!Reserve(i) \/ Train!Activate(i) \/ Train!Begin(i)
             \/ Train!MarkCompose(i) \/ Train!Compose(i) \/ Train!ComposeConflicts(i)
             \/ \E phase \in Train!Range(Train!Phases) :
                  \/ Train!PutValidation(i, phase) \/ Train!MarkValidation(i, phase)
                  \/ \E verdict \in {"PASS", "FAIL"} : Train!Validate(i, phase, verdict)
                  \/ Train!RecordValidation(i, phase) \/ Train!ReconcileValidation(i, phase)
             \/ Train!Verify(i) \/ Train!PrepareLanding(i) \/ Train!MarkLanding(i)
             \/ Train!StartLanding(i) \/ Train!Accept(i)
      PROVE  UNCHANGED Train!Branch!vars \/ Train!Branch!Next
  <2>1. Train!Range(Train!Phases) = {"prefix", "final"}
    BY DEF Train!Range, Train!Phases
  <2>2. CASE Train!Begin(i) \/ Train!Accept(i) \/ Train!ComposeConflicts(i)
    BY <2>2, BeginOpens, AcceptAccepts, CompositionCloses DEF Train!Branch!Next
  <2>3. CASE \/ Train!MarkCompose(i) \/ Train!MarkLanding(i)
             \/ \E phase \in {"prefix", "final"} :
                  \/ Train!PutValidation(i, phase) \/ Train!MarkValidation(i, phase)
                  \/ Train!RecordValidation(i, phase) \/ Train!ReconcileValidation(i, phase)
    BY <2>3, EffectsAreUnseen
  <2>4. CASE \/ Train!Ready(i) \/ Train!Reserve(i) \/ Train!Activate(i) \/ Train!Compose(i)
             \/ Train!Verify(i)
             \/ Train!PrepareLanding(i) \/ Train!StartLanding(i)
             \/ \E phase \in {"prefix", "final"}, verdict \in {"PASS", "FAIL"} :
                  Train!Validate(i, phase, verdict)
    BY <2>4, UnseenOfItem
  <2> QED BY <1>2, <2>1, <2>2, <2>3, <2>4
<1>3. CASE Train!Merge \/ Train!RecordLanding
  BY <1>3, TrainMergeLands, RecordedLanding DEF Train!Branch!Next
<1>4. CASE Train!Observe \/ Train!Pause \/ Train!Resume \/ Train!CloseCancellation \/ Train!Dies
  BY <1>4, UnseenElsewhere
<1>5. CASE Train!RequestCancellation \/ Train!Stray
  BY <1>5, FenceCancels, StrayStrays DEF Train!Branch!Next
<1> QED BY <1>1, <1>2, <1>3, <1>4, <1>5 DEF Train!Next

\* The train keeps its promise, however many members it has: it moves the target as
\* TargetBranch says, and each snapshot passes the audit of trains and integration attempts.
THEOREM TrainKeepsItsPromise == Train!Spec => TrainKeepsThePromise
<1>1. Train!Spec => []TrainInv
  BY TrainInvariant
<1>2. Train!Spec => Train!ImplementsTargetBranch
  BY <1>1, PlaceInitially, StepOfBranch, PTL
     DEF Train!Spec, Train!ImplementsTargetBranch, Train!Branch!Spec
<1> QED BY <1>1, <1>2, AuditFollows, PTL DEF TrainKeepsThePromise
=============================================================================
