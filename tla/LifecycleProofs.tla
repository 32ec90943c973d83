--------------------------- MODULE LifecycleProofs ---------------------------
(***************************************************************************)
(* What the lifecycle of items keeps for any plan, any number of items,    *)
(* candidates and generations and any producers of evidence: no step       *)
(* reaches a publication that the audit refuses, evidence that counts is   *)
(* current, independent contexts stay apart, checks() calls do not mix     *)
(* attempts, and items live as DagRun assumes.  And of the retry ledger,   *)
(* for any limits: no sequence of repairs gets past it.                    *)
(***************************************************************************)
EXTENDS Lifecycle, RepairBudget, FiniteSetTheorems, TLAPS

-----------------------------------------------------------------------------
(* Ledgers.                                                                *)

Of(h, d) == {k \in DOMAIN h : h[k].dim = d}
Within(h, limit) ==
  \A d \in DOMAIN limit : IsFiniteSet(Of(h, d)) /\ Cardinality(Of(h, d)) <= limit[d]

\* Appending to a ledger adds a place after all others.
LEMMA Appended ==
  ASSUME NEW S, NEW h \in Seq(S), NEW r \in S
  PROVE  /\ Append(h, r) \in Seq(S)
         /\ DOMAIN Append(h, r) = DOMAIN h \cup {Len(h) + 1}
         /\ Append(h, r)[Len(h) + 1] = r
         /\ \A k \in DOMAIN h : k \in Nat /\ k < Len(h) + 1 /\ Append(h, r)[k] = h[k]
         /\ Len(h) \in Nat
OBVIOUS

\* Appending a repair adds one to its dimension and nothing to the others.
LEMMA OneMore ==
  ASSUME NEW S, NEW h \in Seq(S), NEW r \in S, NEW d
  PROVE  Of(Append(h, r), d) = Of(h, d) \cup (IF r.dim = d THEN {Len(h) + 1} ELSE {})
BY Appended DEF Of

\* A repair that is not refused leaves the ledger within its ceilings.
LEMMA CeilingKept ==
  ASSUME NEW S, NEW h \in Seq(S), NEW r \in S, NEW limit, limit \in [DOMAIN limit -> Nat],
         Within(h, limit), r.dim \in DOMAIN limit,
         ~ (Cardinality(OfDimension(h, r)) >= limit[r.dim])
  PROVE  Within(Append(h, r), limit)
<1>1. SUFFICES ASSUME NEW d \in DOMAIN limit
               PROVE  /\ IsFiniteSet(Of(Append(h, r), d))
                       /\ Cardinality(Of(Append(h, r), d)) <= limit[d]
  BY DEF Within
<1>2. /\ IsFiniteSet(Of(h, d)) /\ Cardinality(Of(h, d)) <= limit[d]
      /\ limit[d] \in Nat /\ Cardinality(Of(h, d)) \in Nat
  BY FS_CardinalityType DEF Within
<1>3. CASE r.dim = d
  <2>1. ~ (Cardinality(Of(h, d)) >= limit[d])
    BY <1>3 DEF OfDimension, Of
  <2>2. Of(Append(h, r), d) = Of(h, d) \cup {Len(h) + 1}
    BY <1>3, OneMore
  <2>3. Len(h) + 1 \notin Of(h, d)
    BY Appended DEF Of
  <2>4. /\ IsFiniteSet(Of(h, d) \cup {Len(h) + 1})
        /\ Cardinality(Of(h, d) \cup {Len(h) + 1}) = Cardinality(Of(h, d)) + 1
    BY <1>2, <2>3, FS_AddElement
  <2>. QED  BY <1>2, <2>1, <2>2, <2>4
<1>4. CASE r.dim # d
  <2>1. Of(Append(h, r), d) = Of(h, d)
    BY <1>4, Appended DEF Of
  <2>. QED  BY <1>2, <2>1
<1>. QED  BY <1>3, <1>4

-----------------------------------------------------------------------------
(* The retry ledger alone.                                                 *)

Before(h, d, m) == {k \in Of(h, d) : k < m}

\* Of the repairs of a dimension before another, if there are any, one is the latest.
LatestExist(h) ==
  \A d : \A m \in 1..Len(h) + 1 :
    Before(h, d, m) # {} => \E k \in Before(h, d, m) : Latest(Before(h, d, m), k)

NoTreeReturns(h) ==
  \A d : \A j, k, m \in Of(h, d) : j < k /\ k < m => h[j].tree # h[m].tree
Alternate(h, d, j, k, m) ==
  /\ j < k /\ k < m /\ \A n \in Of(h, d) : j < n /\ n < m => n = k
  /\ h[j].fingerprint = h[m].fingerprint
NoAlternation(h) ==
  \A d : \A j, k, m \in Of(h, d) :
    Alternate(h, d, j, k, m) => h[k].fingerprint = h[j].fingerprint
FewTrees(h) ==
  \A r \in Ledger!Repairs :
    /\ IsFiniteSet(TreesOf(h, Counter(h, r)))
    /\ Cardinality(TreesOf(h, Counter(h, r))) <= 2

\* A repair that goes on with something new.
Progresses(h, r) ==
  /\ ~ StandsStill(h, OfDimension(h, r), r) /\ ~ Recurs(h, OfDimension(h, r), r)
  /\ ~ Oscillates(h, OfDimension(h, r), r) /\ ~ Persists(h, Counter(h, r))

LedgerInv ==
  /\ history \in Seq(Ledger!Repairs)
  /\ Within(history, Ceiling) /\ LatestExist(history)
  /\ NoTreeReturns(history) /\ NoAlternation(history) /\ FewTrees(history)

LEMMA LatestKept ==
  ASSUME NEW S, NEW h \in Seq(S), NEW r \in S, LatestExist(h)
  PROVE  LatestExist(Append(h, r))
<1>1. SUFFICES ASSUME NEW d, NEW m \in 1..Len(h) + 2,
                      Before(Append(h, r), d, m) # {}
               PROVE  \E k \in Before(Append(h, r), d, m) : Latest(Before(Append(h, r), d, m), k)
  BY Appended DEF LatestExist
<1>2. CASE m # Len(h) + 2
  <2>1. m \in 1..Len(h) + 1
    BY <1>2, Appended
  <2>2. Before(Append(h, r), d, m) = Before(h, d, m)
    BY <2>1, OneMore, Appended DEF Before
  <2>. QED  BY <1>1, <2>1, <2>2 DEF LatestExist
<1>3. CASE m = Len(h) + 2 /\ r.dim = d
  <2>1. Before(Append(h, r), d, m) = Of(h, d) \cup {Len(h) + 1}
    BY <1>3, OneMore, Appended DEF Before, Of
  <2>2. Latest(Of(h, d) \cup {Len(h) + 1}, Len(h) + 1)
    BY Appended DEF Latest, Of
  <2>. QED  BY <2>1, <2>2
<1>4. CASE m = Len(h) + 2 /\ r.dim # d
  <2>1. Before(Append(h, r), d, m) = Before(h, d, Len(h) + 1) /\ Len(h) + 1 \in 1..Len(h) + 1
    BY <1>4, OneMore, Appended DEF Before, Of
  <2>. QED  BY <1>1, <2>1 DEF LatestExist
<1>. QED  BY <1>2, <1>3, <1>4

LEMMA NoTreeReturnsKept ==
  ASSUME NEW S, NEW h \in Seq(S), NEW r \in S, LatestExist(h), NoTreeReturns(h), Progresses(h, r)
  PROVE  NoTreeReturns(Append(h, r))
<1>1. SUFFICES ASSUME NEW d, NEW j \in Of(Append(h, r), d),
                      NEW k \in Of(Append(h, r), d), NEW m \in Of(Append(h, r), d),
                      j < k, k < m, Append(h, r)[j].tree = Append(h, r)[m].tree
               PROVE  FALSE
  BY DEF NoTreeReturns
<1>2. /\ j \in Of(h, d) /\ k \in Of(h, d) /\ j \in Nat /\ k \in Nat
      /\ m \in Of(h, d) \/ (m = Len(h) + 1 /\ r.dim = d)
  BY <1>1, OneMore, Appended DEF Of
<1>3. CASE m \in Of(h, d)
  BY <1>1, <1>2, <1>3, Appended DEF NoTreeReturns, Of
<1>4. CASE m = Len(h) + 1 /\ r.dim = d
  <2>1. h[j].tree = r.tree /\ OfDimension(h, r) = Of(h, d)
    BY <1>1, <1>2, <1>4, Appended DEF Of, OfDimension
  <2>2. /\ Before(h, d, Len(h) + 1) = Of(h, d) /\ Of(h, d) # {}
        /\ Len(h) + 1 \in 1..Len(h) + 1
    BY <1>2, Appended DEF Before, Of
  <2>a. Before(h, d, Len(h) + 1) # {} =>
          \E x \in Before(h, d, Len(h) + 1) : Latest(Before(h, d, Len(h) + 1), x)
    BY <2>2 DEF LatestExist
  <2>3. PICK l \in Of(h, d) : Latest(Of(h, d), l)
    BY <2>2, <2>a
  <2>4. l \in Nat /\ j < l
    BY <1>1, <1>2, <2>3, Appended DEF Latest, Of
  <2>5. h[l].tree = r.tree
    BY <1>2, <2>1, <2>3 DEF Progresses, Recurs, TreesOf
  <2>6. \A x \in Of(h, d) : x \in Nat /\ ~ (j < x /\ x < l)
    BY <1>2, <2>1, <2>3, <2>5, Appended DEF NoTreeReturns, Of
  <2>7. LatestTwo(Of(h, d), j, l)
    <3>1. \A x \in Of(h, d) \ {l} : x <= j
      BY <1>2, <2>3, <2>4, <2>6 DEF Latest
    <3>. QED  BY <1>2, <2>3, <2>4, <3>1 DEF LatestTwo, Latest
  <2>8. StandsStill(h, OfDimension(h, r), r)
    BY <1>2, <2>1, <2>3, <2>5, <2>7 DEF StandsStill
  <2>. QED  BY <2>8 DEF Progresses
<1>. QED  BY <1>2, <1>3, <1>4

LEMMA NoAlternationKept ==
  ASSUME NEW S, NEW h \in Seq(S), NEW r \in S, NoAlternation(h), Progresses(h, r)
  PROVE  NoAlternation(Append(h, r))
<1>1. SUFFICES ASSUME NEW d, NEW j \in Of(Append(h, r), d),
                      NEW k \in Of(Append(h, r), d), NEW m \in Of(Append(h, r), d),
                      Alternate(Append(h, r), d, j, k, m)
               PROVE  Append(h, r)[k].fingerprint = Append(h, r)[j].fingerprint
  BY DEF NoAlternation
<1>2. /\ j \in Of(h, d) /\ k \in Of(h, d) /\ j \in Nat /\ k \in Nat /\ j < k /\ k < m
      /\ m \in Of(h, d) \/ (m = Len(h) + 1 /\ r.dim = d)
  BY <1>1, OneMore, Appended DEF Of, Alternate
<1>a. /\ Append(h, r)[j] = h[j] /\ Append(h, r)[k] = h[k]
      /\ \A n \in Of(h, d) : n \in Nat /\ (j < n /\ n < m => n = k)
  BY <1>1, <1>2, OneMore, Appended DEF Of, Alternate
<1>3. CASE m \in Of(h, d)
  <2>1. Append(h, r)[m] = h[m]
    BY <1>3, Appended DEF Of
  <2>2. Alternate(h, d, j, k, m)
    BY <1>1, <1>2, <1>a, <1>3, <2>1 DEF Alternate
  <2>3. h[k].fingerprint = h[j].fingerprint
    BY <1>2, <1>3, <2>2, Zenon DEF NoAlternation
  <2>. QED  BY <1>a, <2>3
<1>4. CASE m = Len(h) + 1 /\ r.dim = d
  <2>1. h[j].fingerprint = r.fingerprint /\ OfDimension(h, r) = Of(h, d)
    BY <1>1, <1>2, <1>a, <1>4, Appended DEF Of, OfDimension, Alternate
  <2>2. \A n \in Of(h, d) : n < m
    BY <1>4, Appended DEF Of
  <2>3. LatestTwo(Of(h, d), j, k)
    <3>1. \A n \in Of(h, d) : n <= k
      BY <1>2, <1>a, <2>2
    <3>2. \A n \in Of(h, d) \ {k} : n <= j
      BY <1>2, <1>a, <2>2
    <3>. QED  BY <1>2, <3>1, <3>2 DEF LatestTwo, Latest
  <2>. QED
    BY <1>2, <1>a, <2>1, <2>3 DEF Progresses, Oscillates
<1>. QED  BY <1>2, <1>3, <1>4

LEMMA FewTreesKept ==
  ASSUME NEW h \in Seq(Ledger!Repairs), NEW r \in Ledger!Repairs, FewTrees(h), Progresses(h, r)
  PROVE  FewTrees(Append(h, r))
<1>1. SUFFICES ASSUME NEW x \in Ledger!Repairs
               PROVE  /\ IsFiniteSet(TreesOf(Append(h, r), Counter(Append(h, r), x)))
                      /\ Cardinality(TreesOf(Append(h, r), Counter(Append(h, r), x))) <= 2
  BY DEF FewTrees
<1> DEFINE same == /\ r.dim = x.dim /\ r.stage = x.stage
                   /\ r.procedure = x.procedure /\ r.fingerprint = x.fingerprint
<1>2. CASE same
  <2>1. Counter(h, x) = Counter(h, r)
    BY <1>2 DEF Counter, OfDimension
  <2>2. Counter(Append(h, r), x) = Counter(h, x) \cup {Len(h) + 1}
    BY <1>2, Appended DEF Counter, OfDimension
  <2>3. TreesOf(Append(h, r), Counter(Append(h, r), x)) = TreesOf(h, Counter(h, r)) \cup {r.tree}
    BY <2>1, <2>2, Appended DEF TreesOf, Counter, OfDimension
  <2>4. ~ (Cardinality(TreesOf(h, Counter(h, r))) >= 2)
    BY DEF Progresses, Persists
  <2>5. IsFiniteSet(TreesOf(h, Counter(h, r)))
    BY DEF FewTrees
  <2>6. /\ IsFiniteSet(TreesOf(h, Counter(h, r)) \cup {r.tree})
        /\ Cardinality(TreesOf(h, Counter(h, r)) \cup {r.tree}) <= 2
    <3>. DEFINE old == TreesOf(h, Counter(h, r))
    <3>1. IsFiniteSet(old) /\ Cardinality(old) \in Nat /\ ~ (Cardinality(old) >= 2)
      BY <2>4, <2>5, FS_CardinalityType
    <3>. HIDE DEF old
    <3>2. /\ IsFiniteSet(old \cup {r.tree})
          /\ \/ Cardinality(old \cup {r.tree}) = Cardinality(old)
             \/ Cardinality(old \cup {r.tree}) = Cardinality(old) + 1
      BY <3>1, FS_AddElement
    <3>3. Cardinality(old \cup {r.tree}) <= 2
      BY <3>1, <3>2
    <3>. QED  BY <3>2, <3>3 DEF old
  <2>. QED  BY <2>3, <2>6
<1>3. CASE ~ same
  <2>1. Counter(Append(h, r), x) = Counter(h, x)
    BY <1>3, Appended DEF Counter, OfDimension
  <2>2. TreesOf(Append(h, r), Counter(Append(h, r), x)) = TreesOf(h, Counter(h, x))
    BY <2>1, Appended DEF TreesOf, Counter, OfDimension
  <2>. QED  BY <2>2 DEF FewTrees
<1>. QED  BY <1>2, <1>3

LEMMA SameCount == ASSUME NEW S PROVE Ledger!Cardinality(S) = Cardinality(S)
BY DEF Ledger!Cardinality, Cardinality

\* The rules do not depend on the limits, but for the ceiling.
LEMMA SameRules ==
  ASSUME NEW h, NEW r
  PROVE  /\ Ledger!Counter(h, r) = Counter(h, r)
         /\ \A s : Ledger!TreesOf(h, s) = TreesOf(h, s)
         /\ ~ Ledger!Refuses(h, r) =>
              Progresses(h, r) /\ ~ (Cardinality(OfDimension(h, r)) >= Ceiling[r.dim])
<1>1. /\ Ledger!OfDimension(h, r) = OfDimension(h, r) /\ Ledger!Counter(h, r) = Counter(h, r)
      /\ \A s : Ledger!TreesOf(h, s) = TreesOf(h, s)
  BY DEF Ledger!OfDimension, OfDimension, Ledger!Counter, Counter, Ledger!TreesOf, TreesOf
<1>2. \A s, j, k : Ledger!LatestTwo(s, j, k) <=> LatestTwo(s, j, k)
  BY DEF Ledger!LatestTwo, LatestTwo, Ledger!Latest, Latest
<1>3. \A s : /\ Ledger!Spent(s, r) <=> Cardinality(s) >= Ceiling[r.dim]
             /\ Ledger!StandsStill(h, s, r) <=> StandsStill(h, s, r)
             /\ Ledger!Oscillates(h, s, r) <=> Oscillates(h, s, r)
  BY <1>2, SameCount
     DEF Ledger!Spent, Ledger!StandsStill, StandsStill, Ledger!Oscillates, Oscillates
<1>4. \A s : Ledger!Recurs(h, s, r) <=> Recurs(h, s, r)
  BY <1>1 DEF Ledger!Recurs, Recurs, Ledger!Latest, Latest
<1>5. \A s : Ledger!Persists(h, s) <=> Persists(h, s)
  BY <1>1, SameCount DEF Ledger!Persists, Persists
<1>. QED
  BY <1>1, <1>3, <1>4, <1>5
     DEF Ledger!Refuses, Ledger!DimensionRefuses, Ledger!CounterRefuses, Progresses

\* Whatever repairs are asked for, in whatever order, an item gets no more than the limits
\* allow, no tree that was left comes back, no tree is repaired three times in a row, no two
\* failures alternate and none outlives two trees.
THEOREM RetriesStayBounded == Ledger!Spec => []RetriesAreBounded
<1>1. Ledger!Init => LedgerInv
  <2>1. SUFFICES ASSUME history = <<>> PROVE LedgerInv
    BY DEF Ledger!Init
  <2>2. history \in Seq(Ledger!Repairs) /\ DOMAIN history = {}
    BY <2>1
  <2>3. \A d : Of(history, d) = {}
    BY <2>2 DEF Of
  <2>4. \A r : TreesOf(history, Counter(history, r)) = {}
    BY <2>2 DEF TreesOf, Counter, OfDimension
  <2>5. Within(history, Ceiling)
    BY <2>3, FS_EmptySet, CeilingAssumption DEF Within
  <2>6. LatestExist(history) /\ NoTreeReturns(history) /\ NoAlternation(history)
    BY <2>3 DEF LatestExist, Before, NoTreeReturns, NoAlternation
  <2>7. FewTrees(history)
    BY <2>4, FS_EmptySet DEF FewTrees
  <2>. QED  BY <2>2, <2>5, <2>6, <2>7 DEF LedgerInv
<1>2. ASSUME LedgerInv, [Ledger!Next]_history
      PROVE  LedgerInv'
  <2>1. CASE UNCHANGED history
    BY <1>2, <2>1 DEF LedgerInv
  <2>2. CASE Ledger!Next
    <3>1. PICK r \in Ledger!Repairs :
            ~ Ledger!Refuses(history, r) /\ history' = Append(history, r)
      BY <2>2 DEF Ledger!Next, Ledger!Consume
    <3>2. r.dim \in DOMAIN Ceiling
      BY DEF Ledger!Repairs, Ledger!Dimensions
    <3>3. Progresses(history, r) /\ ~ (Cardinality(OfDimension(history, r)) >= Ceiling[r.dim])
      BY <3>1, SameRules
    <3>. QED
      BY <1>2, <3>1, <3>2, <3>3, CeilingAssumption, Appended, CeilingKept, LatestKept,
         NoTreeReturnsKept, NoAlternationKept, FewTreesKept DEF LedgerInv
  <2>. QED  BY <1>2, <2>1, <2>2
<1>3. LedgerInv => RetriesAreBounded
  <2>1. SUFFICES ASSUME LedgerInv PROVE Ledger!CeilingsHold /\ Ledger!NoProgressStops
    BY DEF RetriesAreBounded
  <2>2. \A d : Ledger!OfDim(d) = Of(history, d)
    BY DEF Ledger!OfDim, Of
  <2>3. Ledger!CeilingsHold
    BY <2>1, <2>2, SameCount
       DEF Ledger!CeilingsHold, LedgerInv, Within, Ledger!Dimensions
  <2>4. \A d : \A k \in Of(history, d) : history[k] \in Ledger!Repairs
    BY <2>1 DEF LedgerInv, Of
  <2>5. \A d : \A j, k, m \in Of(history, d) :
          j < k /\ k < m => history[j].tree # history[m].tree
    BY <2>1 DEF LedgerInv, NoTreeReturns
  <2>6. \A d : \A j, k, m \in Of(history, d) :
          /\ j < k /\ k < m /\ \A n \in Of(history, d) : j < n /\ n < m => n = k
          /\ history[j].fingerprint = history[m].fingerprint
          => history[k].fingerprint = history[j].fingerprint
    BY <2>1 DEF LedgerInv, NoAlternation, Alternate
  <2>7. \A d : \A k \in Of(history, d) :
          Ledger!Cardinality(Ledger!TreesOf(history, Ledger!Counter(history, history[k]))) <= 2
    BY <2>1, <2>4, SameRules, SameCount DEF LedgerInv, FewTrees
  <2>8. Ledger!NoProgressStops
    BY <2>2, <2>5, <2>6, <2>7 DEF Ledger!NoProgressStops
  <2>. QED  BY <2>3, <2>8
<1>. QED  BY <1>1, <1>2, <1>3, PTL DEF Ledger!Spec

-----------------------------------------------------------------------------
(* The inductive invariant of the lifecycle, item by item.                 *)

\* The checks of a stage have been shown to pass.
Shown(i, s) ==
  \A k \in StageChecks(s) : \E e \in execs[i] :
    e.stage = s /\ e.check = k /\ e.status = "observed" /\ Passes(e)

\* What an execution is tells how far it has come.
Fit(i) ==
  \A e \in execs[i] : /\ e.check \in StageChecks(e.stage)
                      /\ e.status = "observed" <=> e.recorded
                      /\ e.recorded => e.job # Pending
OnePerCheck(i) ==
  \A e, x \in execs[i] :
    e.status # "quarantined" /\ x.status # "quarantined" /\ e.stage = x.stage /\ e.check = x.check
      => e = x
Live(i) == \A e \in execs[i] : e.status # "quarantined" => Current(i, e)

\* Without a candidate there is nothing that counts; with one there is a worker.
Frame(i) ==
  /\ ~ life[i].candidateReady => /\ life[i].stage = 1 /\ ~ life[i].ready
                                 /\ \A e \in execs[i] : e.status = "quarantined"
  /\ life[i].candidateReady => /\ life[i].candidate \in Candidates /\ life[i].round > 0
                               /\ node[i].worker # Nobody /\ node[i].status # "pending"
Bound(i) ==
  node[i].status # "cancelled" =>
    node[i].gen \in Gens /\ node[i].worker \in {Nobody, WorkerId[i][node[i].gen]}

InOrder(i) ==
  life[i].passed = (0..life[i].stage - 1) \cup (IF life[i].ready THEN {Final} ELSE {})
Evidence(i) == \A s \in 1..life[i].stage - 1 : Shown(i, s)
Ready(i) ==
  life[i].ready => life[i].stage = Final /\ ~ life[i].stop /\ findings[i] = {} /\ Settled(i)
Landing(i) ==
  /\ git[i] = "open" /\ node[i].status = "active" => life[i].ready
  /\ node[i].status = "pending" => git[i] = "none"

ItemInv(i) ==
  /\ Fit(i) /\ OnePerCheck(i) /\ Live(i) /\ Frame(i) /\ Bound(i)
  /\ InOrder(i) /\ Evidence(i) /\ Ready(i) /\ Landing(i)

\* Nothing but the call in progress makes an item ready.
CallNotReady == call # Idle => ~ life[call.item].ready

LifeInv == TypeOK /\ CeilingsHold /\ CallNotReady /\ \A i \in Items : ItemInv(i)

-----------------------------------------------------------------------------
(* Operators.                                                              *)

LEMMA InvalidatedLife ==
  ASSUME NEW l \in LifeType
  PROVE  /\ Invalidated(l) \in LifeType
         /\ Invalidated(l).candidate = l.candidate
         /\ Invalidated(l).candidateReady = l.candidateReady
         /\ Invalidated(l).candidates = l.candidates /\ Invalidated(l).stop = l.stop
         /\ Invalidated(l).round = l.round + 1 /\ Invalidated(l).stage = 1
         /\ Invalidated(l).passed = {0} /\ ~ Invalidated(l).ready
<1>1. {0} \in SUBSET (0..Final) /\ l.round + 1 \in Nat /\ 1 \in 1..Final
  BY DEF LifeType, Final
<1>2. \A S \in SUBSET (0..Final), n \in Nat, s \in 1..Final :
        [l EXCEPT !.ready = FALSE, !.passed = S, !.stage = s, !.round = n] \in LifeType
  BY DEF LifeType
<1>3. Invalidated(l) \in LifeType
  BY <1>1, <1>2 DEF Invalidated
<1>. QED  BY <1>3 DEF Invalidated, LifeType

LEMMA FramedLife ==
  ASSUME NEW l \in LifeType, NEW c \in Candidates
  PROVE  /\ Framed(l, c) \in LifeType
         /\ Framed(l, c).candidate = c /\ Framed(l, c).candidateReady /\ Framed(l, c).stop = l.stop
         /\ Framed(l, c).round = l.round + 1 /\ Framed(l, c).stage = 1
         /\ Framed(l, c).passed = {0} /\ ~ Framed(l, c).ready
<1>1. /\ {0} \in SUBSET (0..Final) /\ l.round + 1 \in Nat /\ 1 \in 1..Final
      /\ l.candidates \cup {c} \in SUBSET Candidates
  BY DEF LifeType, Final
<1>2. \A S \in SUBSET (0..Final), n \in Nat, s \in 1..Final, C \in SUBSET Candidates :
        [l EXCEPT !.candidate = c, !.candidateReady = TRUE, !.candidates = C, !.round = n,
                  !.stage = s, !.passed = S, !.ready = FALSE] \in LifeType
  BY DEF LifeType
<1>3. Framed(l, c) \in LifeType
  BY <1>1, <1>2 DEF Framed
<1>. QED  BY <1>3 DEF Framed, LifeType

LEMMA RegressedLife ==
  ASSUME NEW l \in LifeType, NEW to \in 1..Final
  PROVE  /\ Regressed(l, to) \in LifeType
         /\ Regressed(l, to).candidate = l.candidate
         /\ Regressed(l, to).candidateReady = l.candidateReady
         /\ Regressed(l, to).stop = l.stop /\ Regressed(l, to).round = l.round + 1
         /\ Regressed(l, to).stage = to /\ Regressed(l, to).passed = {s \in l.passed : s < to}
         /\ ~ Regressed(l, to).ready
<1>1. {s \in l.passed : s < to} \in SUBSET (0..Final) /\ l.round + 1 \in Nat
  BY DEF LifeType
<1>. QED  BY <1>1 DEF Regressed, LifeType

LEMMA StoppedLife ==
  ASSUME NEW l \in LifeType
  PROVE  /\ Stopped(l) \in LifeType
         /\ Stopped(l).candidate = l.candidate /\ Stopped(l).candidateReady = l.candidateReady
         /\ Stopped(l).round = l.round /\ Stopped(l).stage = l.stage /\ Stopped(l).stop
         /\ Stopped(l).passed = l.passed /\ Stopped(l).ready = l.ready
BY DEF Stopped, LifeType

\* What Without leaves: the earlier stages as they are, of the later ones what is unrecorded,
\* quarantined.
LEMMA WithoutExecutions ==
  ASSUME TypeOK, NEW i \in Items, NEW from \in Nat
  PROVE  /\ Without(i, from) \in SUBSET Execution
         /\ \A e \in execs[i] : e.stage < from => e \in Without(i, from)
         /\ \A x \in Without(i, from) :
              \/ x \in execs[i] /\ x.stage < from
              \/ /\ x.status = "quarantined" /\ ~ x.recorded /\ x.stage >= from
                 /\ \E e \in execs[i] :
                      /\ ~ e.recorded /\ e.stage = x.stage /\ e.check = x.check /\ e.round = x.round
                      /\ e.gen = x.gen /\ e.job = x.job
<1>1. \A e \in execs[i] : e \in Execution
  BY DEF TypeOK
<1>2. \A e \in execs[i] : e.stage \in Nat
  BY <1>1 DEF Execution, Replay
<1>3. \A e \in execs[i] : e.stage < from => e \in Without(i, from)
  BY <1>2 DEF Without
<1>4. ASSUME NEW x \in Without(i, from)
      PROVE  \/ x \in execs[i] /\ x.stage < from
             \/ \E e \in execs[i] : e.stage >= from /\ ~ e.recorded
                                      /\ x = [e EXCEPT !.status = "quarantined"]
  BY <1>1, <1>2 DEF Without, Execution
<1>5. ASSUME NEW x, NEW e \in Execution, x = [e EXCEPT !.status = "quarantined"]
      PROVE  /\ x \in Execution /\ x.status = "quarantined" /\ x.recorded = e.recorded
             /\ x.stage = e.stage /\ x.check = e.check /\ x.round = e.round /\ x.gen = e.gen
             /\ x.job = e.job
  BY <1>5 DEF Execution
<1>6. ASSUME NEW x \in Without(i, from)
      PROVE  /\ x \in Execution
             /\ \/ x \in execs[i] /\ x.stage < from
                \/ /\ x.status = "quarantined" /\ ~ x.recorded /\ x.stage >= from
                   /\ \E e \in execs[i] :
                        /\ ~ e.recorded /\ e.stage = x.stage
                        /\ e.check = x.check /\ e.round = x.round
                        /\ e.gen = x.gen /\ e.job = x.job
  <2>1. CASE x \in execs[i] /\ x.stage < from
    BY <1>1, <2>1
  <2>2. CASE \E e \in execs[i] : e.stage >= from /\ ~ e.recorded
                                   /\ x = [e EXCEPT !.status = "quarantined"]
    <3>1. PICK e \in execs[i] : e.stage >= from /\ ~ e.recorded
                                  /\ x = [e EXCEPT !.status = "quarantined"]
      BY <2>2
    <3>. QED  BY <1>1, <1>5, <3>1
  <2>. QED  BY <1>4, <2>1, <2>2
<1>. QED  BY <1>3, <1>6

\* Of the executions of a check, at most one counts, so that a stage holds when each of its
\* checks is shown.
LEMMA HoldsWhenShown ==
  ASSUME NEW i \in Items, ItemInv(i), NEW s \in 1..Replay
  PROVE  StageHolds(i, s) <=> Shown(i, s)
<1>. DEFINE matches(k) == {e \in execs[i] : e.stage = s /\ e.check = k /\ Counts(i, e)}
<1>1. ASSUME StageHolds(i, s), NEW k \in StageChecks(s)
      PROVE  \E e \in execs[i] : e.stage = s /\ e.check = k /\ e.status = "observed" /\ Passes(e)
  <2>1. Cardinality(matches(k)) = 1 /\ \A e \in matches(k) : Passes(e)
    BY <1>1 DEF StageHolds
  <2>2. matches(k) # {}
    BY <2>1, FS_EmptySet
  <2>. QED  BY <2>1, <2>2 DEF Counts
<1>2. ASSUME Shown(i, s), NEW k \in StageChecks(s)
      PROVE  Cardinality(matches(k)) = 1 /\ \A e \in matches(k) : Passes(e)
  <2>1. PICK e \in execs[i] : e.stage = s /\ e.check = k /\ e.status = "observed" /\ Passes(e)
    BY <1>2 DEF Shown
  <2>2. Counts(i, e)
    BY <2>1 DEF Counts, ItemInv, Live
  <2>3. \A x \in matches(k) : x = e
    BY <2>1 DEF Counts, ItemInv, OnePerCheck
  <2>4. matches(k) = {e}
    BY <2>1, <2>2, <2>3
  <2>. QED  BY <2>1, <2>4, FS_Singleton
<1>. QED  BY <1>1, <1>2 DEF StageHolds, Shown

LEMMA HaltedLife ==
  ASSUME NEW l \in LifeType
  PROVE  /\ Halted(l) \in LifeType
         /\ Halted(l).candidate = l.candidate /\ Halted(l).candidateReady = l.candidateReady
         /\ Halted(l).round = l.round /\ Halted(l).stage = l.stage
         /\ Halted(l).passed = l.passed \ {Final} /\ ~ Halted(l).ready
<1>1. l.passed \ {Final} \in SUBSET (0..Final)
  BY DEF LifeType
<1>. QED  BY <1>1 DEF Halted, LifeType

LEMMA UnframedLife ==
  ASSUME NEW l \in LifeType
  PROVE  /\ Unframed(l) \in LifeType /\ ~ Unframed(l).candidateReady /\ Unframed(l).stage = 1
         /\ Unframed(l).passed = {0} /\ ~ Unframed(l).ready
<1>. DEFINE m == Invalidated(l)
<1>1. m \in LifeType /\ m.stage = 1 /\ m.passed = {0} /\ ~ m.ready
  BY InvalidatedLife
<1>2. Unframed(l) = [m EXCEPT !.candidateReady = FALSE]
  BY DEF Unframed
<1>. HIDE DEF m
<1>. QED  BY <1>1, <1>2 DEF LifeType

LEMMA MovedNode ==
  ASSUME NEW n \in NodeType
  PROVE  /\ Vacated(n).status = n.status /\ Vacated(n).gen = n.gen + 1
         /\ Vacated(n).worker = Nobody /\ Fenced(n).worker = n.worker
         /\ Fenced(n).status = "cancelled" /\ Fenced(n).gen = n.gen + 1
         /\ n.gen \in 1..MaxGen => Vacated(n) \in NodeType /\ Fenced(n) \in NodeType
<1>1. n.gen \in 1..MaxGen => n.gen + 1 \in 1..MaxGen + 1
  BY LifecycleAssumption
<1>. QED  BY <1>1 DEF Vacated, Fenced, NodeType

-----------------------------------------------------------------------------
(* What a step leaves alone keeps its part of the invariant.               *)

Same(j) == /\ node'[j] = node[j] /\ life'[j] = life[j] /\ execs'[j] = execs[j]
           /\ findings'[j] = findings[j] /\ git'[j] = git[j]

LEMMA Unmoved ==
  ASSUME NEW j \in Items, ItemInv(j), Same(j)
  PROVE  ItemInv(j)'
BY DEF Same, ItemInv, Fit, OnePerCheck, Live, Current, Frame, Bound, InOrder, Evidence, Shown,
       Passes, Ready, Settled, Landing

\* A step of one item.
LEMMA OfOneItem ==
  ASSUME LifeInv, NEW i \in Items, \A j \in Items \ {i} : Same(j),
         TypeOK', CeilingsHold', CallNotReady', ItemInv(i)'
  PROVE  LifeInv'
<1>1. \A j \in Items \ {i} : ItemInv(j)'
  BY Unmoved DEF LifeInv
<1>. QED  BY <1>1 DEF LifeInv

LEMMA LedgersFit ==
  ASSUME NEW h \in Seq(Repairs), NEW d
  PROVE  IsFiniteSet(Of(h, d))
<1>1. DOMAIN h = 1..Len(h) /\ Len(h) \in Nat
  OBVIOUS
<1>2. IsFiniteSet(1..Len(h))
  BY <1>1, FS_Interval
<1>3. Of(h, d) \in SUBSET (1..Len(h))
  BY <1>1 DEF Of
<1>. QED  BY <1>2, <1>3, FS_Subset

LEMMA CeilingsAreWithin ==
  ASSUME ledger \in [Items -> Seq(Repairs)]
  PROVE  CeilingsHold <=> \A i \in Items : Within(ledger[i], Limit)
BY LedgersFit DEF CeilingsHold, Within, Of, Dimensions

\* A repair that is admitted leaves the ledgers within their ceilings.
LEMMA Spends ==
  ASSUME ledger \in [Items -> Seq(Repairs)], CeilingsHold, NEW i \in Items, NEW r \in Repairs,
         ~ Refuses(ledger[i], r), ledger' = [ledger EXCEPT ![i] = Append(@, r)]
  PROVE  ledger' \in [Items -> Seq(Repairs)] /\ CeilingsHold'
<1>1. r.dim \in Dimensions
  BY DEF Repairs
<1>2. Append(ledger[i], r) \in Seq(Repairs)
  OBVIOUS
<1>3. \A j \in Items : ledger'[j] = IF j = i THEN Append(ledger[i], r) ELSE ledger[j]
  OBVIOUS
<1>4. ledger' \in [Items -> Seq(Repairs)]
  BY <1>2
<1>5. Within(Append(ledger[i], r), Limit)
  <2>1. ~ (Cardinality(OfDimension(ledger[i], r)) >= Limit[r.dim])
    BY DEF Refuses, DimensionRefuses, Spent
  <2>. QED  BY <1>1, <2>1, CeilingsAreWithin, CeilingKept, LimitAssumption DEF Dimensions
<1>6. \A j \in Items : Within(ledger'[j], Limit)
  BY <1>3, <1>5, CeilingsAreWithin
<1>7. CeilingsHold'
  BY <1>4, <1>6, LedgersFit DEF CeilingsHold, Within, Of, Dimensions
<1>. QED  BY <1>4, <1>7

\* Discarding all evidence leaves nothing that counts, and only results still to come.
LEMMA AllQuarantined ==
  ASSUME LifeInv, NEW i \in Items, execs'[i] = Without(i, 1)
  PROVE  /\ Fit(i)' /\ OnePerCheck(i)' /\ Live(i)' /\ Without(i, 1) \in SUBSET Execution
         /\ \A e \in execs'[i] : e.status = "quarantined" /\ ~ e.recorded
<1>1. /\ Without(i, 1) \in SUBSET Execution
      /\ \A x \in Without(i, 1) :
           \/ x \in execs[i] /\ x.stage < 1
           \/ /\ x.status = "quarantined" /\ ~ x.recorded
              /\ \E e \in execs[i] : e.stage = x.stage /\ e.check = x.check
  BY WithoutExecutions DEF LifeInv
<1>2. \A x \in execs[i] : ~ (x.stage < 1)
  <2>1. \A x \in execs[i] : x \in Execution
    BY DEF LifeInv, TypeOK
  <2>. QED  BY <2>1 DEF Execution, Replay
<1>3. \A x \in execs'[i] : /\ x.status = "quarantined" /\ ~ x.recorded
                           /\ \E e \in execs[i] : e.stage = x.stage /\ e.check = x.check
  BY <1>1, <1>2
<1>4. Fit(i)'
  BY <1>3 DEF Fit, LifeInv, ItemInv
<1>. QED  BY <1>1, <1>3, <1>4 DEF OnePerCheck, Live

\* An execution that has not been recorded takes its next form.
LEMMA Exchanged ==
  ASSUME LifeInv, NEW i \in Items, NEW e \in execs[i], NEW x \in Execution, ~ e.recorded,
         execs'[i] = (execs[i] \ {e}) \cup {x},
         x.stage = e.stage, x.check = e.check, x.round = e.round, x.gen = e.gen,
         x.candidate = e.candidate, x.status # "quarantined" => e.status # "quarantined",
         x.status = "observed" <=> x.recorded, x.recorded => x.job # Pending,
         node'[i] = node[i], life'[i] = life[i], git'[i] = git[i]
  PROVE  ItemInv(i)'
<1>. USE DEF LifeInv, ItemInv
<1>1. Fit(i)'
  BY DEF Fit
<1>2. OnePerCheck(i)'
  BY DEF OnePerCheck
<1>3. Live(i)'
  BY DEF Live, Current
<1>4. Frame(i)' /\ Bound(i)' /\ InOrder(i)'
  BY DEF Frame, Bound, InOrder
<1>5. ~ life[i].ready
  BY DEF Ready, Settled
<1>6. Ready(i)' /\ Landing(i)'
  BY <1>5 DEF Ready, Landing
<1>7. Evidence(i)'
  <2>1. ASSUME NEW s \in 1..life[i].stage - 1, NEW k \in StageChecks(s)
        PROVE  \E y \in execs'[i] : y.stage = s /\ y.check = k /\ y.status = "observed" /\ Passes(y)
    <3>1. PICK y \in execs[i] : y.stage = s /\ y.check = k /\ y.status = "observed" /\ Passes(y)
      BY <2>1 DEF Evidence, Shown
    <3>2. y # e
      BY <3>1 DEF Passes
    <3>. QED  BY <3>1, <3>2
  <2>. QED  BY <2>1 DEF Evidence, Shown
<1>. QED  BY <1>1, <1>2, <1>3, <1>4, <1>6, <1>7

\* What the type invariant says of one item.
LEMMA Typed ==
  ASSUME LifeInv, NEW i \in Items
  PROVE  /\ node[i] \in NodeType /\ life[i] \in LifeType /\ execs[i] \in SUBSET Execution
         /\ findings[i] \in SUBSET Slot /\ ItemInv(i)
BY DEF LifeInv, TypeOK, NodeType, LifeType

-----------------------------------------------------------------------------
(* The worker, its candidates and its replacement.                         *)

LEMMA ReserveStep == ASSUME LifeInv, NEW i \in Items, Reserve(i) PROVE LifeInv'
<1>1. /\ node' = [node EXCEPT ![i] = [node[i] EXCEPT !.status = "active"]]
      /\ life' = [life EXCEPT ![i] = [life[i] EXCEPT !.round = 1]]
      /\ UNCHANGED <<execs, findings, ledger, git, call>> /\ node[i].status = "pending"
  BY Typed DEF Reserve, LifeInv, TypeOK, NodeType, LifeType
<1>2. /\ [node[i] EXCEPT !.status = "active"] \in NodeType
      /\ [life[i] EXCEPT !.round = 1] \in LifeType
  BY Typed DEF NodeType, LifeType
<1>3. TypeOK'
  BY <1>1, <1>2 DEF LifeInv, TypeOK, NodeType, LifeType
<1>4. /\ node'[i].status = "active" /\ node'[i].gen = node[i].gen
      /\ node'[i].worker = node[i].worker
      /\ life'[i].candidateReady = life[i].candidateReady /\ life'[i].stage = life[i].stage
      /\ life'[i].ready = life[i].ready /\ life'[i].passed = life[i].passed
  BY <1>1, Typed DEF LifeInv, TypeOK, NodeType, LifeType
<1>5. ~ life[i].candidateReady /\ \A e \in execs[i] : e.status = "quarantined"
  BY <1>1, Typed DEF ItemInv, Frame
<1>6. ~ life[i].ready /\ life[i].stage = 1
  BY <1>5, Typed DEF ItemInv, Frame
<1>7. Fit(i)' /\ OnePerCheck(i)' /\ Live(i)' /\ Frame(i)' /\ Ready(i)'
  BY <1>1, <1>4, <1>5, <1>6, Typed DEF ItemInv, Fit, OnePerCheck, Live, Frame, Ready
<1>8. Bound(i)' /\ InOrder(i)' /\ Evidence(i)'
  BY <1>1, <1>4, <1>6, Typed DEF ItemInv, Bound, InOrder, Evidence
<1>9. Landing(i)'
  BY <1>1, <1>4, Typed DEF ItemInv, Landing
<1>10. \A j \in Items \ {i} : Same(j)
  BY <1>1 DEF Same, LifeInv, TypeOK
<1>11. CallNotReady' /\ CeilingsHold'
  <2>1. \A j \in Items : life'[j].ready = life[j].ready
    BY <1>4, <1>10 DEF Same
  <2>2. call # Idle => call.item \in Items
    BY DEF LifeInv, TypeOK, CallType
  <2>3. CallNotReady'
    BY <1>1, <2>1, <2>2 DEF LifeInv, CallNotReady
  <2>. QED  BY <1>1, <2>3 DEF LifeInv, CeilingsHold
<1>. QED  BY <1>3, <1>7, <1>8, <1>9, <1>10, <1>11, OfOneItem DEF ItemInv

LEMMA BindStep == ASSUME LifeInv, NEW i \in Items, Bind(i) PROVE LifeInv'
<1>1. /\ node' = [node EXCEPT ![i].worker = WorkerId[i][node[i].gen]]
      /\ UNCHANGED <<life, execs, findings, ledger, git, call>>
      /\ node[i].status = "active" /\ node[i].worker = Nobody
  BY DEF Bind
<1>2. node[i].gen \in Gens
  BY <1>1, Typed DEF ItemInv, Bound
<1>3. WorkerId[i][node[i].gen] \in {Nobody} \cup Workers
  BY <1>2 DEF Workers
<1>4. TypeOK'
  BY <1>1, <1>3, Typed DEF LifeInv, TypeOK, NodeType
<1>5. /\ node'[i].status = node[i].status /\ node'[i].gen = node[i].gen
      /\ node'[i].worker = WorkerId[i][node[i].gen]
  BY <1>1, Typed DEF LifeInv, TypeOK, NodeType
<1>6. ~ life[i].candidateReady
  BY <1>1, Typed DEF ItemInv, Frame
<1>7. ~ life[i].ready /\ life[i].stage = 1 /\ \A e \in execs[i] : e.status = "quarantined"
  BY <1>6, Typed DEF ItemInv, Frame
<1>8. Fit(i)' /\ OnePerCheck(i)' /\ Live(i)' /\ Frame(i)' /\ Ready(i)'
  BY <1>1, <1>6, <1>7, Typed DEF ItemInv, Fit, OnePerCheck, Live, Frame, Ready
<1>9. Bound(i)' /\ InOrder(i)' /\ Evidence(i)' /\ Landing(i)'
  BY <1>1, <1>2, <1>5, <1>7, Typed DEF ItemInv, Bound, InOrder, Evidence, Landing
<1>10. \A j \in Items \ {i} : Same(j)
  BY <1>1 DEF Same, LifeInv, TypeOK
<1>11. CallNotReady' /\ CeilingsHold'
  BY <1>1 DEF LifeInv, CallNotReady, CeilingsHold
<1>. QED  BY <1>4, <1>8, <1>9, <1>10, <1>11, OfOneItem DEF ItemInv

LEMMA ReplaceStep == ASSUME LifeInv, NEW i \in Items, Replace(i) PROVE LifeInv'
<1>1. /\ node' = [node EXCEPT ![i] = Vacated(node[i])]
      /\ life' = [life EXCEPT ![i] = Unframed(life[i])]
      /\ execs' = [execs EXCEPT ![i] = Without(i, 1)]
      /\ git' = [git EXCEPT ![i] = "none"]
      /\ UNCHANGED <<findings, ledger, call>>
      /\ node[i].status = "active" /\ node[i].gen < MaxGen
  BY DEF Replace
<1>2. /\ node'[i] = Vacated(node[i]) /\ life'[i] = Unframed(life[i])
      /\ execs'[i] = Without(i, 1) /\ git'[i] = "none" /\ findings'[i] = findings[i]
  BY <1>1 DEF LifeInv, TypeOK
<1>3. node[i].gen \in Nat /\ node[i].gen >= 1 /\ node[i].gen + 1 \in Gens
  BY <1>1, Typed, LifecycleAssumption DEF NodeType, Gens
<1>4. /\ Vacated(node[i]) \in NodeType /\ Vacated(node[i]).status = "active"
      /\ Vacated(node[i]).gen \in Gens /\ Vacated(node[i]).worker = Nobody
  BY <1>1, <1>3, Typed, MovedNode, LifecycleAssumption DEF Gens
<1>5. /\ Fit(i)' /\ OnePerCheck(i)' /\ Live(i)' /\ Without(i, 1) \in SUBSET Execution
      /\ \A e \in execs'[i] : e.status = "quarantined" /\ ~ e.recorded
  BY <1>2, AllQuarantined
<1>6. /\ Unframed(life[i]) \in LifeType /\ ~ Unframed(life[i]).candidateReady
      /\ Unframed(life[i]).stage = 1 /\ Unframed(life[i]).passed = {0} /\ ~ Unframed(life[i]).ready
  BY Typed, UnframedLife
<1>7. TypeOK'
  BY <1>1, <1>4, <1>5, <1>6 DEF LifeInv, TypeOK, NodeType, LifeType
<1>8. Frame(i)' /\ Ready(i)' /\ Landing(i)'
  BY <1>2, <1>4, <1>5, <1>6 DEF Frame, Ready, Landing
<1>9. Bound(i)' /\ InOrder(i)' /\ Evidence(i)'
  BY <1>2, <1>4, <1>6 DEF Bound, InOrder, Evidence
<1>10. \A j \in Items \ {i} : Same(j)
  BY <1>1 DEF Same, LifeInv, TypeOK
<1>11. CallNotReady' /\ CeilingsHold'
  <2>1. \A j \in Items : life'[j].ready => life[j].ready
    BY <1>1, <1>6 DEF LifeInv, TypeOK
  <2>2. call # Idle => call.item \in Items
    BY DEF LifeInv, TypeOK, CallType
  <2>. QED  BY <1>1, <2>1, <2>2 DEF LifeInv, CallNotReady, CeilingsHold
<1>. QED  BY <1>5, <1>7, <1>8, <1>9, <1>10, <1>11, OfOneItem DEF ItemInv

LEMMA CandidateRepairFits ==
  ASSUME LifeInv, NEW i \in Items
  PROVE  CandidateRepair(i) \in Repairs
<1>1. life[i].candidate \in Candidates \cup {Baseline}
  BY Typed DEF LifeType
<1>2. "product" \in Dimensions /\ 1 \in 0..Replay
  BY LifecycleAssumption DEF Replay
<1>. QED  BY <1>1, <1>2 DEF CandidateRepair, Repair, Repairs

LEMMA SetCandidateStep ==
  ASSUME LifeInv, NEW i \in Items, NEW c \in Candidates, SetCandidate(i, c)
  PROVE  LifeInv'
<1>1. /\ node[i].status = "active" /\ node[i].worker # Nobody /\ git[i] # "open"
      /\ UNCHANGED <<node, findings, git, call>>
  BY DEF SetCandidate, Unresolved
<1>2. \/ life' = [life EXCEPT ![i] = Halted(life[i])] /\ UNCHANGED <<execs, ledger>>
      \/ /\ life[i].candidateReady /\ ~ Refuses(ledger[i], CandidateRepair(i))
         /\ ledger' = [ledger EXCEPT ![i] = Append(@, CandidateRepair(i))]
         /\ life' = [life EXCEPT ![i] = Framed(Invalidated(life[i]), c)]
         /\ execs' = [execs EXCEPT ![i] = Without(i, 1)]
      \/ /\ ~ life[i].candidateReady
         /\ life' = [life EXCEPT ![i] = Framed(life[i], c)] /\ UNCHANGED <<execs, ledger>>
  BY DEF SetCandidate
<1>3. CASE life' = [life EXCEPT ![i] = Halted(life[i])] /\ UNCHANGED <<execs, ledger>>
  <2>1. /\ life'[i] = Halted(life[i]) /\ Halted(life[i]) \in LifeType
        /\ life'[i].candidate = life[i].candidate
        /\ life'[i].candidateReady = life[i].candidateReady
        /\ life'[i].round = life[i].round /\ life'[i].stage = life[i].stage
        /\ life'[i].passed = life[i].passed \ {Final} /\ ~ life'[i].ready
    BY <1>3, Typed, HaltedLife DEF LifeInv, TypeOK
  <2>2. TypeOK'
    BY <1>1, <1>3, <2>1 DEF LifeInv, TypeOK, LifeType
  <2>3. Fit(i)' /\ OnePerCheck(i)' /\ Live(i)' /\ Frame(i)' /\ Bound(i)'
    BY <1>1, <1>3, <2>1, Typed DEF ItemInv, Fit, OnePerCheck, Live, Current, Frame, Bound
  <2>4. Final \notin 0..life[i].stage - 1
    BY Typed DEF LifeType, Final
  <2>5. InOrder(i)'
    BY <2>1, <2>4, Typed DEF ItemInv, InOrder
  <2>6. Evidence(i)' /\ Ready(i)' /\ Landing(i)'
    BY <1>1, <1>3, <2>1, Typed DEF ItemInv, Evidence, Shown, Ready, Landing
  <2>7. CallNotReady' /\ CeilingsHold' /\ \A j \in Items \ {i} : Same(j)
    <3>1. \A j \in Items : life'[j].ready => life[j].ready
      BY <1>3, <2>1 DEF LifeInv, TypeOK
    <3>2. call # Idle => call.item \in Items
      BY DEF LifeInv, TypeOK, CallType
    <3>3. CallNotReady' /\ CeilingsHold'
      BY <1>1, <1>3, <3>1, <3>2 DEF LifeInv, CallNotReady, CeilingsHold
    <3>. QED  BY <1>1, <1>3, <3>3 DEF LifeInv, Same, TypeOK
  <2>. QED  BY <2>2, <2>3, <2>5, <2>6, <2>7, OfOneItem DEF ItemInv
<1>4. CASE /\ life[i].candidateReady /\ ~ Refuses(ledger[i], CandidateRepair(i))
           /\ ledger' = [ledger EXCEPT ![i] = Append(@, CandidateRepair(i))]
           /\ life' = [life EXCEPT ![i] = Framed(Invalidated(life[i]), c)]
           /\ execs' = [execs EXCEPT ![i] = Without(i, 1)]
  <2>. DEFINE l == Framed(Invalidated(life[i]), c)
  <2>1. /\ l \in LifeType /\ l.candidate = c /\ l.candidateReady /\ l.stage = 1
        /\ l.passed = {0} /\ ~ l.ready /\ l.round > 0
    <3>1. Invalidated(life[i]) \in LifeType /\ Invalidated(life[i]).round \in Nat
      BY Typed, InvalidatedLife DEF LifeType
    <3>. QED  BY <3>1, FramedLife
  <2>2. life' = [life EXCEPT ![i] = l] /\ life'[i] = l /\ execs'[i] = Without(i, 1)
    BY <1>4 DEF LifeInv, TypeOK
  <2>. HIDE DEF l
  <2>3. ledger' \in [Items -> Seq(Repairs)] /\ CeilingsHold'
    BY <1>4, CandidateRepairFits, Spends DEF LifeInv, TypeOK
  <2>4. /\ Fit(i)' /\ OnePerCheck(i)' /\ Live(i)' /\ Without(i, 1) \in SUBSET Execution
        /\ \A e \in execs'[i] : e.status = "quarantined" /\ ~ e.recorded
    BY <2>2, AllQuarantined
  <2>5. TypeOK'
    BY <1>1, <1>4, <2>1, <2>2, <2>3, <2>4 DEF LifeInv, TypeOK, LifeType
  <2>6. Frame(i)' /\ Bound(i)' /\ InOrder(i)'
    BY <1>1, <2>1, <2>2, Typed DEF ItemInv, Frame, Bound, InOrder
  <2>7. Evidence(i)' /\ Ready(i)' /\ Landing(i)'
    BY <1>1, <2>1, <2>2 DEF Evidence, Ready, Landing
  <2>8. CallNotReady' /\ \A j \in Items \ {i} : Same(j)
    <3>1. \A j \in Items : life'[j].ready => life[j].ready
      BY <2>1, <2>2 DEF LifeInv, TypeOK
    <3>2. call # Idle => call.item \in Items
      BY DEF LifeInv, TypeOK, CallType
    <3>3. CallNotReady'
      BY <1>1, <3>1, <3>2 DEF LifeInv, CallNotReady
    <3>. QED  BY <1>1, <2>2, <1>4, <3>3 DEF LifeInv, Same, TypeOK
  <2>. QED  BY <2>3, <2>4, <2>5, <2>6, <2>7, <2>8, OfOneItem DEF ItemInv
<1>5. CASE /\ ~ life[i].candidateReady
           /\ life' = [life EXCEPT ![i] = Framed(life[i], c)] /\ UNCHANGED <<execs, ledger>>
  <2>. DEFINE l == Framed(life[i], c)
  <2>1. /\ l \in LifeType /\ l.candidate = c /\ l.candidateReady /\ l.stage = 1
        /\ l.passed = {0} /\ ~ l.ready /\ l.round > 0
    <3>1. life[i].round \in Nat
      BY Typed DEF LifeType
    <3>. QED  BY <3>1, Typed, FramedLife
  <2>2. life' = [life EXCEPT ![i] = l] /\ life'[i] = l /\ execs'[i] = execs[i]
    BY <1>5 DEF LifeInv, TypeOK
  <2>. HIDE DEF l
  <2>3. \A e \in execs[i] : e.status = "quarantined"
    BY <1>5, Typed DEF ItemInv, Frame
  <2>4. TypeOK'
    BY <1>1, <1>5, <2>1, <2>2 DEF LifeInv, TypeOK, LifeType
  <2>5. Fit(i)' /\ OnePerCheck(i)' /\ Live(i)' /\ Frame(i)' /\ Bound(i)' /\ InOrder(i)'
    BY <1>1, <2>1, <2>2, <2>3, Typed DEF ItemInv, Fit, OnePerCheck, Live, Frame, Bound, InOrder
  <2>6. Evidence(i)' /\ Ready(i)' /\ Landing(i)'
    BY <1>1, <2>1, <2>2 DEF Evidence, Ready, Landing
  <2>7. CallNotReady' /\ CeilingsHold' /\ \A j \in Items \ {i} : Same(j)
    <3>1. \A j \in Items : life'[j].ready => life[j].ready
      BY <2>1, <2>2 DEF LifeInv, TypeOK
    <3>2. call # Idle => call.item \in Items
      BY DEF LifeInv, TypeOK, CallType
    <3>3. CallNotReady' /\ CeilingsHold'
      BY <1>1, <1>5, <3>1, <3>2 DEF LifeInv, CallNotReady, CeilingsHold
    <3>. QED  BY <1>1, <2>2, <1>5, <3>3 DEF LifeInv, Same, TypeOK
  <2>. QED  BY <2>4, <2>5, <2>6, <2>7, OfOneItem DEF ItemInv
<1>. QED  BY <1>2, <1>3, <1>4, <1>5

Kept(i) == /\ node'[i] \in NodeType /\ life'[i] \in LifeType /\ execs'[i] \in SUBSET Execution
           /\ life'[i].ready => life[i].ready
           /\ ItemInv(i)'

LEMMA CancelStep == ASSUME LifeInv, Cancel PROVE LifeInv'
<1>. DEFINE fenced == {i \in Items : node[i].status \in {"pending", "active"}}
            life2(i) == IF i \in fenced /\ life[i].round > 0 THEN Invalidated(life[i]) ELSE life[i]
<1>1. /\ node' = [i \in Items |-> IF i \in fenced THEN Fenced(node[i]) ELSE node[i]]
      /\ life' = [i \in Items |-> life2(i)]
      /\ execs' = [i \in Items |-> IF i \in fenced THEN Without(i, 1) ELSE execs[i]]
      /\ UNCHANGED <<findings, ledger, git, call>>
  BY DEF Cancel
<1>2. ASSUME NEW i \in Items, i \in fenced
      PROVE  Kept(i)
  <2>1. /\ node'[i] = Fenced(node[i]) /\ execs'[i] = Without(i, 1) /\ life'[i] = life2(i)
        /\ findings'[i] = findings[i] /\ git'[i] = git[i]
    BY <1>1, <1>2
  <2>2. node[i].gen \in 1..MaxGen
    BY <1>2, Typed DEF ItemInv, Bound, Gens
  <2>3. node'[i] \in NodeType /\ node'[i].status = "cancelled" /\ node'[i].worker = node[i].worker
    BY <2>1, <2>2, Typed, MovedNode
  <2>4. /\ Fit(i)' /\ OnePerCheck(i)' /\ Live(i)' /\ execs'[i] \in SUBSET Execution
        /\ \A e \in execs'[i] : e.status = "quarantined" /\ ~ e.recorded
    BY <2>1, AllQuarantined
  <2>5. /\ life'[i] \in LifeType /\ life'[i].candidate = life[i].candidate
        /\ life'[i].candidateReady = life[i].candidateReady
        /\ life'[i].stage = 1 /\ life'[i].passed = {0} /\ ~ life'[i].ready
        /\ life[i].round > 0 => life'[i].round > 0
    <3>. life[i].round \in Nat
      BY Typed DEF LifeType
    <3>1. CASE life[i].round > 0
      BY <1>2, <2>1, <3>1, Typed, InvalidatedLife
    <3>2. CASE ~ (life[i].round > 0)
      <4>1. life'[i] = life[i] /\ life[i].stage = 1 /\ ~ life[i].ready
        BY <2>1, <3>2, Typed DEF ItemInv, Frame
      <4>. QED  BY <4>1, Typed DEF ItemInv, InOrder
    <3>. QED  BY <3>1, <3>2
  <2>6. Frame(i)' /\ Bound(i)' /\ InOrder(i)'
    BY <2>1, <2>3, <2>4, <2>5, Typed DEF ItemInv, Frame, Bound, InOrder
  <2>7. Evidence(i)' /\ Ready(i)' /\ Landing(i)'
    BY <2>3, <2>5 DEF Evidence, Ready, Landing
  <2>8. ItemInv(i)'
    BY <2>4, <2>6, <2>7 DEF ItemInv
  <2>. QED  BY <2>3, <2>4, <2>5, <2>8 DEF Kept
<1>3. ASSUME NEW i \in Items, i \notin fenced
      PROVE  Same(i)
  BY <1>1, <1>3 DEF Same
<1>. HIDE DEF fenced
<1>4. \A i \in Items : Kept(i)
  <2>1. ASSUME NEW i \in Items, i \notin fenced
        PROVE  Kept(i)
    <3>1. Same(i) /\ ItemInv(i)'
      BY <1>3, <2>1, Typed, Unmoved
    <3>. QED  BY <3>1, Typed DEF Same, Kept
  <2>. QED  BY <1>2, <2>1
<1>5. /\ node' \in [Items -> NodeType] /\ life' \in [Items -> LifeType]
      /\ execs' \in [Items -> SUBSET Execution]
  <2>1. DOMAIN node' = Items /\ DOMAIN life' = Items /\ DOMAIN execs' = Items
    BY <1>1
  <2>2. node' = [i \in Items |-> node'[i]] /\ life' = [i \in Items |-> life'[i]]
        /\ execs' = [i \in Items |-> execs'[i]]
    BY <1>1
  <2>. QED  BY <1>4, <2>2 DEF Kept
<1>6. TypeOK'
  BY <1>1, <1>5 DEF LifeInv, TypeOK, NodeType, LifeType
<1>7. CallNotReady' /\ CeilingsHold'
  <2>1. call # Idle => call.item \in Items
    BY DEF LifeInv, TypeOK, CallType
  <2>2. CallNotReady'
    BY <1>1, <1>4, <2>1 DEF LifeInv, CallNotReady, Kept
  <2>. QED  BY <1>1, <2>2 DEF LifeInv, CeilingsHold
<1>. QED  BY <1>4, <1>6, <1>7 DEF LifeInv, Kept

-----------------------------------------------------------------------------
(* The checks() call.                                                      *)

\* The call in progress is of an item that it found not ready.
LEMMA TypedCall ==
  ASSUME LifeInv, call # Idle
  PROVE  /\ call.item \in Items /\ ~ life[call.item].ready
         /\ call \in [item : Items, gen : 1..MaxGen + 1, stage : 1..Final, round : Nat,
                      left : SUBSET CheckSet, step : {"prepare", "execute", "record"},
                      slot : SUBSET Slot]
BY DEF LifeInv, TypeOK, CallType, CallNotReady

LEMMA StartChecksStep == ASSUME LifeInv, NEW i \in Items, StartChecks(i) PROVE LifeInv'
<1>1. /\ ~ life[i].ready /\ UNCHANGED <<node, life, execs, findings, ledger, git>>
      /\ call' = [item |-> i, gen |-> node[i].gen, stage |-> life[i].stage,
                  round |-> life[i].round, left |-> StageChecks(life[i].stage),
                  step |-> "prepare", slot |-> {}]
  BY DEF StartChecks
<1>2. /\ node[i].gen \in 1..MaxGen + 1 /\ life[i].stage \in 1..Final /\ life[i].round \in Nat
      /\ StageChecks(life[i].stage) \in SUBSET CheckSet
  BY Typed DEF NodeType, LifeType, StageChecks
<1>3. call' \in CallType
  BY <1>1, <1>2 DEF CallType
<1>4. TypeOK'
  BY <1>1, <1>3 DEF LifeInv, TypeOK, CallType
<1>5. CallNotReady' /\ CeilingsHold'
  BY <1>1 DEF LifeInv, CallNotReady, CeilingsHold
<1>6. \A j \in Items : Same(j)
  BY <1>1 DEF Same
<1>. QED  BY <1>4, <1>5, <1>6, Unmoved DEF LifeInv

LEMMA EndCallStep == ASSUME LifeInv, EndCall PROVE LifeInv'
<1>1. call' = Idle /\ UNCHANGED <<node, life, execs, findings, ledger, git>>
  BY DEF EndCall
<1>2. TypeOK'
  BY <1>1 DEF LifeInv, TypeOK, CallType
<1>3. CallNotReady' /\ CeilingsHold'
  BY <1>1 DEF LifeInv, CallNotReady, CeilingsHold
<1>4. \A j \in Items : Same(j)
  BY <1>1 DEF Same
<1>. QED  BY <1>2, <1>3, <1>4, Unmoved DEF LifeInv

\* A step that changes executions and findings of one item, and the call.
LEMMA OnlyEvidence ==
  ASSUME LifeInv, NEW i \in Items, UNCHANGED <<node, life, ledger, git>>,
         execs'[i] \in SUBSET Execution, execs' = [execs EXCEPT ![i] = execs'[i]],
         findings'[i] \in SUBSET Slot, findings' = [findings EXCEPT ![i] = findings'[i]],
         call' \in CallType, call' # Idle => call # Idle /\ call'.item = call.item, ItemInv(i)'
  PROVE  LifeInv'
<1>1. TypeOK'
  BY DEF LifeInv, TypeOK, CallType
<1>2. CallNotReady' /\ CeilingsHold'
  BY DEF LifeInv, CallNotReady, CeilingsHold
<1>3. \A j \in Items \ {i} : Same(j)
  BY DEF Same, LifeInv, TypeOK
<1>. QED  BY <1>1, <1>2, <1>3, OfOneItem

\* An execution written down for the attempt under way.
LEMMA Prepared ==
  ASSUME LifeInv, NEW i \in Items, NEW x \in Execution, execs'[i] = execs[i] \cup {x},
         x.check \in StageChecks(x.stage), x.status = "intent", ~ x.recorded, Current(i, x),
         \A e \in execs[i] :
           e.status # "quarantined" => e.stage # x.stage \/ e.check # x.check,
         life[i].candidateReady, ~ life[i].ready,
         node'[i] = node[i], life'[i] = life[i], git'[i] = git[i], findings'[i] = findings[i]
  PROVE  ItemInv(i)'
<1>. USE DEF LifeInv, ItemInv
<1>1. Fit(i)' /\ OnePerCheck(i)' /\ Live(i)'
  BY DEF Fit, OnePerCheck, Live, Current
<1>2. Frame(i)' /\ Bound(i)' /\ InOrder(i)'
  BY DEF Frame, Bound, InOrder
<1>3. Evidence(i)' /\ Ready(i)' /\ Landing(i)'
  BY DEF Evidence, Shown, Ready, Landing
<1>. QED  BY <1>1, <1>2, <1>3

LEMMA PrepareCheckStep ==
  ASSUME LifeInv, PrepareCheck, NEW i \in Items, i = call.item
  PROVE  LifeInv'
<1>. DEFINE l == life[i]
            there(k) == {e \in execs[i] : e.stage = l.stage /\ e.check = k
                                            /\ e.status # "quarantined" /\ Current(i, e)}
            new(k) == [check |-> k, stage |-> l.stage, round |-> l.round, gen |-> call.gen,
                       candidate |-> l.candidate, status |-> "intent", job |-> Pending,
                       recorded |-> FALSE, rejected |-> FALSE]
<1>1. /\ call # Idle /\ SameAttempt /\ node[i].status = "active" /\ node[i].worker # Nobody
      /\ l.candidateReady /\ UNCHANGED <<node, life, findings, ledger, git>>
      /\ \E k \in StageChecks(l.stage) : \E e \in IF there(k) = {} THEN {new(k)} ELSE there(k) :
           /\ execs' = [execs EXCEPT ![i] = @ \cup {e}]
           /\ call' = [call EXCEPT !.step = "execute", !.slot = {SlotOf(e)}]
  BY DEF PrepareCheck, InCall
<1>2. PICK k \in StageChecks(l.stage) :
        \E e \in IF there(k) = {} THEN {new(k)} ELSE there(k) :
          /\ execs' = [execs EXCEPT ![i] = @ \cup {e}]
          /\ call' = [call EXCEPT !.step = "execute", !.slot = {SlotOf(e)}]
  BY <1>1
<1>3. /\ i \in Items /\ ~ l.ready /\ l \in LifeType /\ node[i] \in NodeType /\ ItemInv(i)
      /\ execs[i] \in SUBSET Execution /\ findings[i] \in SUBSET Slot
  BY <1>1, TypedCall, Typed
<1>4. /\ l.stage \in 1..Replay /\ k \in CheckSet /\ l.round \in Nat /\ l.candidate \in Candidates
      /\ call.gen = node[i].gen /\ node[i].gen \in Gens
      /\ node[i].worker = WorkerId[i][node[i].gen]
  <2>1. l.stage = Replay \/ l.stage = StageOf[k]
    BY DEF StageChecks
  <2>2. Replay \in 1..Replay /\ k \in CheckSet /\ StageOf[k] \in 1..Replay
    BY LifecycleAssumption DEF StageChecks, Replay
  <2>. QED  BY <1>1, <1>3, <2>1, <2>2 DEF ItemInv, Frame, Bound, SameAttempt, LifeType
<1>5. new(k) \in Execution /\ new(k).check \in StageChecks(new(k).stage)
  BY <1>4 DEF Execution
<1>6. Current(i, new(k))
  BY <1>1, <1>3, <1>4 DEF Current, LifeType
<1>7. /\ new(k).status = "intent" /\ ~ new(k).recorded
      /\ new(k).stage = l.stage /\ new(k).check = k
  OBVIOUS
<1>8. \A e \in Execution : SlotOf(e) \in Slot
  BY DEF Execution, SlotOf, Slot
<1>. HIDE DEF new, l
<1>9. ASSUME NEW e \in Execution, call' = [call EXCEPT !.step = "execute", !.slot = {SlotOf(e)}]
      PROVE  call' \in CallType /\ call'.item = call.item
  BY <1>1, <1>8, <1>9, TypedCall DEF CallType
<1>10. CASE there(k) # {}
  <2>1. PICK e \in there(k) :
          /\ execs' = [execs EXCEPT ![i] = @ \cup {e}]
          /\ call' = [call EXCEPT !.step = "execute", !.slot = {SlotOf(e)}]
    BY <1>2, <1>10
  <2>2. e \in execs[i] /\ e \in Execution
    BY <1>3, <2>1
  <2>3. execs'[i] = execs[i] /\ execs' = execs
    <3>1. execs[i] \cup {e} = execs[i]
      BY <2>2
    <3>2. execs' = [execs EXCEPT ![i] = execs[i]]
      BY <2>1, <3>1
    <3>. QED  BY <3>2 DEF LifeInv, TypeOK
  <2>4. ItemInv(i)'
    BY <1>1, <1>3, <2>3, Unmoved DEF Same
  <2>. QED  BY <1>1, <1>3, <1>9, <2>1, <2>2, <2>3, <2>4, OnlyEvidence DEF LifeInv, TypeOK
<1>11. CASE there(k) = {}
  <2>1. /\ execs' = [execs EXCEPT ![i] = @ \cup {new(k)}]
        /\ call' = [call EXCEPT !.step = "execute", !.slot = {SlotOf(new(k))}]
    BY <1>2, <1>11
  <2>2. execs'[i] = execs[i] \cup {new(k)} /\ execs' = [execs EXCEPT ![i] = execs'[i]]
    BY <1>3, <2>1 DEF LifeInv, TypeOK
  <2>3. \A e \in execs[i] : e.status # "quarantined" => e.stage # l.stage \/ e.check # k
    BY <1>3, <1>11 DEF ItemInv, Live
  <2>4. ItemInv(i)'
    BY <1>1, <1>3, <1>5, <1>6, <1>7, <2>2, <2>3, Prepared DEF l
  <2>5. execs'[i] \in SUBSET Execution
    BY <1>3, <1>5, <2>2
  <2>6. findings'[i] = findings[i] /\ findings' = [findings EXCEPT ![i] = findings'[i]]
    BY <1>1, <1>3 DEF LifeInv, TypeOK
  <2>. QED  BY <1>1, <1>3, <1>5, <1>9, <2>1, <2>2, <2>4, <2>5, <2>6, OnlyEvidence
<1>. QED  BY <1>10, <1>11

\* An execution that has no result yet is given one.
LEMMA GivenJob ==
  ASSUME LifeInv, NEW i \in Items, NEW e \in execs[i], NEW r \in Results, e.job = Pending,
         execs' = [execs EXCEPT ![i] = (@ \ {e}) \cup {[e EXCEPT !.job = r]}],
         UNCHANGED <<node, life, findings, ledger, git>>,
         call' \in CallType, call' # Idle => call # Idle /\ call'.item = call.item
  PROVE  LifeInv'
<1>. DEFINE x == [e EXCEPT !.job = r]
<1>1. /\ execs[i] \in SUBSET Execution /\ findings[i] \in SUBSET Slot /\ e \in Execution
      /\ ItemInv(i)
  BY Typed
<1>2. /\ x \in Execution /\ x.stage = e.stage /\ x.check = e.check /\ x.round = e.round
      /\ x.gen = e.gen /\ x.candidate = e.candidate /\ x.status = e.status
      /\ x.recorded = e.recorded
  BY <1>1 DEF Execution
<1>3. ~ e.recorded /\ (e.status = "observed" <=> e.recorded)
  BY <1>1 DEF ItemInv, Fit
<1>4. execs' = [execs EXCEPT ![i] = (execs[i] \ {e}) \cup {x}]
  OBVIOUS
<1>. HIDE DEF x
<1>5. execs'[i] = (execs[i] \ {e}) \cup {x} /\ execs' = [execs EXCEPT ![i] = execs'[i]]
  BY <1>4 DEF LifeInv, TypeOK
<1>6. ItemInv(i)'
  BY <1>2, <1>3, <1>5, Exchanged
<1>7. execs'[i] \in SUBSET Execution
  BY <1>1, <1>2, <1>5
<1>8. findings'[i] = findings[i] /\ findings' = [findings EXCEPT ![i] = findings'[i]]
  BY DEF LifeInv, TypeOK
<1>. QED  BY <1>1, <1>5, <1>6, <1>7, <1>8, OnlyEvidence

LEMMA ExecuteCheckStep ==
  ASSUME LifeInv, ExecuteCheck, NEW i \in Items, i = call.item
  PROVE  LifeInv'
<1>1. /\ call # Idle /\ UNCHANGED <<node, life, findings, ledger, git>>
      /\ call' = [call EXCEPT !.step = "record"]
  BY DEF ExecuteCheck, InCall
<1>2. /\ node[i] \in NodeType /\ ItemInv(i) /\ execs[i] \in SUBSET Execution
      /\ findings[i] \in SUBSET Slot
  BY Typed
<1>3. call' \in CallType /\ call'.item = call.item
  BY <1>1, TypedCall DEF CallType
<1>4. \/ execs' = execs
      \/ \E e \in execs[i], r \in Results :
           e.job = Pending /\ execs' = [execs EXCEPT ![i] = (@ \ {e}) \cup {[e EXCEPT !.job = r]}]
  <2>1. PICK e \in execs[i] :
          \/ execs' = execs
          \/ /\ e.job = Pending
             /\ \E r \in Outcomes[e.check] \cup {Unavailable} :
                  execs' = [execs EXCEPT ![i] = (@ \ {e}) \cup {[e EXCEPT !.job = r]}]
    BY DEF ExecuteCheck
  <2>2. e.check \in CheckSet
    BY <1>2, <2>1 DEF Execution
  <2>3. \A r \in Outcomes[e.check] \cup {Unavailable} : r \in Results
    BY <2>2 DEF Results
  <2>4. CASE execs' = execs
    BY <2>4
  <2>5. CASE /\ e.job = Pending
             /\ \E r \in Outcomes[e.check] \cup {Unavailable} :
                  execs' = [execs EXCEPT ![i] = (@ \ {e}) \cup {[e EXCEPT !.job = r]}]
    <3>1. PICK r \in Outcomes[e.check] \cup {Unavailable} :
            execs' = [execs EXCEPT ![i] = (@ \ {e}) \cup {[e EXCEPT !.job = r]}]
      BY <2>5
    <3>2. r \in Results
      BY <2>3
    <3>. QED  BY <2>5, <3>1, <3>2
  <2>. QED  BY <2>1, <2>4, <2>5
<1>5. CASE execs' = execs
  <2>1. ItemInv(i)'
    BY <1>1, <1>2, <1>5, Unmoved DEF Same
  <2>. QED  BY <1>1, <1>2, <1>3, <1>5, <2>1, OnlyEvidence DEF LifeInv, TypeOK
<1>6. ASSUME NEW e \in execs[i], NEW r \in Results, e.job = Pending,
             execs' = [execs EXCEPT ![i] = (@ \ {e}) \cup {[e EXCEPT !.job = r]}]
      PROVE  LifeInv'
  BY <1>1, <1>3, <1>6, GivenJob
<1>. QED  BY <1>4, <1>5, <1>6

LEMMA RecoverStep ==
  ASSUME LifeInv, NEW i \in Items, NEW e \in execs[i], Recover(i, e)
  PROVE  LifeInv'
<1>1. /\ e.job = Pending /\ UNCHANGED <<node, life, findings, ledger, git, call>>
      /\ execs' = [execs EXCEPT ![i] = (@ \ {e}) \cup {[e EXCEPT !.job = Unavailable]}]
  BY DEF Recover
<1>2. call' \in CallType
  BY <1>1 DEF LifeInv, TypeOK, CallType
<1>3. Unavailable \in Results
  BY DEF Results
<1>. QED  BY <1>1, <1>2, <1>3, GivenJob

\* What is not current was quarantined, so that a stale result counted for nothing.
LEMMA StaleIsQuarantined ==
  ASSUME LifeInv, NEW i \in Items, NEW e \in execs[i]
  PROVE  Stale(i, e) <=> e.status = "quarantined"
BY Typed DEF Stale, ItemInv, Live

\* A result that is retained without counting.
LEMMA Retained ==
  ASSUME LifeInv, NEW i \in Items, NEW e \in execs[i], ~ e.recorded,
         execs'[i] = execs[i] \ {e}, node'[i] = node[i], life'[i] = life[i], git'[i] = git[i],
         findings'[i] = findings[i]
  PROVE  ItemInv(i)'
<1>. USE DEF LifeInv, ItemInv
<1>1. Fit(i)' /\ OnePerCheck(i)' /\ Live(i)'
  BY DEF Fit, OnePerCheck, Live, Current
<1>2. Frame(i)' /\ Bound(i)' /\ InOrder(i)'
  BY DEF Frame, Bound, InOrder
<1>3. Ready(i)' /\ Landing(i)'
  BY DEF Ready, Settled, Landing
<1>4. Evidence(i)'
  <2>1. ASSUME NEW s \in 1..life[i].stage - 1, NEW k \in StageChecks(s)
        PROVE  \E y \in execs'[i] : y.stage = s /\ y.check = k /\ y.status = "observed" /\ Passes(y)
    <3>1. PICK y \in execs[i] : y.stage = s /\ y.check = k /\ y.status = "observed" /\ Passes(y)
      BY <2>1 DEF Evidence, Shown
    <3>2. y # e
      BY <3>1 DEF Passes
    <3>. QED  BY <3>1, <3>2
  <2>. QED  BY <2>1 DEF Evidence, Shown
<1>. QED  BY <1>1, <1>2, <1>3, <1>4

LEMMA RecordStep ==
  ASSUME LifeInv, NEW i \in Items, NEW e \in execs[i], Record(i, e),
         call' \in CallType, call' # Idle => call # Idle /\ call'.item = call.item
  PROVE  LifeInv'
<1>. DEFINE seen == [e EXCEPT !.recorded = TRUE, !.rejected = ContextReused(i, e)]
            x == [seen EXCEPT !.status = "observed"]
<1>1. /\ e.job # Pending /\ ~ e.recorded /\ UNCHANGED <<node, life, ledger, git>>
  BY DEF Record
<1>2. /\ execs[i] \in SUBSET Execution /\ findings[i] \in SUBSET Slot /\ e \in Execution
  BY Typed
<1>3. CASE Stale(i, e)
  <2>1. execs' = [execs EXCEPT ![i] = @ \ {e}] /\ UNCHANGED findings
    BY <1>3 DEF Record
  <2>2. execs'[i] = execs[i] \ {e} /\ execs' = [execs EXCEPT ![i] = execs'[i]]
    BY <2>1 DEF LifeInv, TypeOK
  <2>3. findings'[i] = findings[i] /\ findings' = [findings EXCEPT ![i] = findings'[i]]
    BY <2>1 DEF LifeInv, TypeOK
  <2>4. ItemInv(i)'
    BY <1>1, <2>2, <2>3, Retained
  <2>5. execs'[i] \in SUBSET Execution
    BY <1>2, <2>2
  <2>. QED  BY <1>1, <1>2, <2>2, <2>3, <2>4, <2>5, OnlyEvidence
<1>4. CASE ~ Stale(i, e)
  <2>1. /\ execs' = [execs EXCEPT ![i] = (@ \ {e}) \cup {x}]
        /\ findings' = [findings EXCEPT ![i] =
                          IF e.job.kind = "none" THEN @ ELSE @ \cup {SlotOf(e)}]
    BY <1>4 DEF Record
  <2>2. ContextReused(i, e) \in BOOLEAN
    BY DEF ContextReused
  <2>3. /\ x \in Execution /\ x.stage = e.stage /\ x.check = e.check /\ x.round = e.round
        /\ x.gen = e.gen /\ x.candidate = e.candidate /\ x.status = "observed"
        /\ x.recorded /\ x.job = e.job
    BY <1>2, <2>2 DEF Execution
  <2>. HIDE DEF x
  <2>4. e.status # "quarantined"
    BY <1>4, StaleIsQuarantined
  <2>5. execs'[i] = (execs[i] \ {e}) \cup {x} /\ execs' = [execs EXCEPT ![i] = execs'[i]]
    BY <2>1 DEF LifeInv, TypeOK
  <2>6. SlotOf(e) \in Slot
    BY <1>2 DEF Execution, SlotOf, Slot
  <2>7. findings'[i] \in SUBSET Slot /\ findings' = [findings EXCEPT ![i] = findings'[i]]
    BY <1>2, <2>1, <2>6 DEF LifeInv, TypeOK
  <2>8. ItemInv(i)'
    BY <1>1, <2>3, <2>4, <2>5, Exchanged
  <2>9. execs'[i] \in SUBSET Execution
    BY <1>2, <2>3, <2>5
  <2>. QED  BY <1>1, <2>5, <2>7, <2>8, <2>9, OnlyEvidence
<1>. QED  BY <1>3, <1>4

LEMMA RecordCheckStep ==
  ASSUME LifeInv, RecordCheck, NEW i \in Items, i = call.item
  PROVE  LifeInv'
<1>1. /\ call # Idle
      /\ call' = [call EXCEPT !.step = "prepare", !.slot = {},
                              !.left = @ \ {f.check : f \in call.slot}]
      /\ \/ \E e \in execs[i] : Record(i, e)
         \/ UNCHANGED <<node, life, execs, findings, ledger, git>>
  BY DEF RecordCheck, InCall
<1>2. call' \in CallType /\ call'.item = call.item
  <2>1. call.left \ {f.check : f \in call.slot} \in SUBSET CheckSet
    BY <1>1, TypedCall
  <2>2. call' = [call EXCEPT !.step = "prepare", !.slot = {},
                             !.left = call.left \ {f.check : f \in call.slot}]
    BY <1>1
  <2>3. \A S \in SUBSET CheckSet :
          /\ [call EXCEPT !.step = "prepare", !.slot = {}, !.left = S] \in CallType
          /\ [call EXCEPT !.step = "prepare", !.slot = {}, !.left = S].item = call.item
    BY <1>1, TypedCall DEF CallType
  <2>. QED  BY <2>1, <2>2, <2>3
<1>3. CASE \E e \in execs[i] : Record(i, e)
  BY <1>1, <1>2, <1>3, RecordStep
<1>4. CASE UNCHANGED <<node, life, execs, findings, ledger, git>>
  <2>1. ItemInv(i)'
    BY <1>4, Typed, Unmoved DEF Same
  <2>. QED  BY <1>1, <1>2, <1>4, <2>1, Typed, OnlyEvidence DEF LifeInv, TypeOK
<1>. QED  BY <1>1, <1>3, <1>4

LEMMA RecordRecoveredStep ==
  ASSUME LifeInv, NEW i \in Items, NEW e \in execs[i], RecordRecovered(i, e)
  PROVE  LifeInv'
<1>1. Record(i, e) /\ UNCHANGED call
  BY DEF RecordRecovered
<1>2. call' \in CallType
  BY <1>1 DEF LifeInv, TypeOK, CallType
<1>. QED  BY <1>1, <1>2, RecordStep

LEMMA StagePassedLife ==
  ASSUME NEW l \in LifeType, l.stage < Final
  PROVE  /\ StagePassed(l) \in LifeType
         /\ StagePassed(l).candidate = l.candidate
         /\ StagePassed(l).candidateReady = l.candidateReady
         /\ StagePassed(l).round = l.round /\ StagePassed(l).stop = l.stop
         /\ StagePassed(l).stage = l.stage + 1
         /\ StagePassed(l).passed = l.passed \cup {l.stage}
         /\ StagePassed(l).ready = l.ready
<1>1. l.passed \cup {l.stage} \in SUBSET (0..Final) /\ l.stage + 1 \in 1..Final
  BY DEF LifeType, Final
<1>. QED  BY <1>1 DEF StagePassed, LifeType

LEMMA MadeReadyLife ==
  ASSUME NEW l \in LifeType
  PROVE  /\ MadeReady(l) \in LifeType
         /\ MadeReady(l).candidate = l.candidate
         /\ MadeReady(l).candidateReady = l.candidateReady
         /\ MadeReady(l).round = l.round /\ MadeReady(l).stop = l.stop
         /\ MadeReady(l).stage = l.stage
         /\ MadeReady(l).passed = l.passed \cup {Final}
         /\ MadeReady(l).ready
<1>1. l.passed \cup {Final} \in SUBSET (0..Final)
  BY DEF LifeType, Final
<1>. QED  BY <1>1 DEF MadeReady, LifeType

\* A stage that is shown has something that counts, which takes a candidate.
LEMMA ShownIsFramed ==
  ASSUME LifeInv, NEW i \in Items, NEW s \in 1..Replay, Shown(i, s)
  PROVE  life[i].candidateReady
<1>1. PICK k \in CheckSet : StageOf[k] = s
  BY LifecycleAssumption
<1>2. \E e \in execs[i] : e.status = "observed"
  BY <1>1 DEF Shown, StageChecks
<1>. QED  BY <1>2, Typed DEF ItemInv, Frame

LEMMA AdvanceStep ==
  ASSUME LifeInv, Advance, NEW i \in Items, i = call.item
  PROVE  LifeInv'
<1>1. /\ call # Idle /\ node[i].status = "active" /\ ~ life[i].stop /\ findings[i] = {}
      /\ call' = Idle /\ UNCHANGED <<node, execs, findings, ledger, git>>
  BY DEF Advance, InCall
<1>2. ~ life[i].ready /\ life[i] \in LifeType /\ ItemInv(i)
  BY <1>1, TypedCall, Typed
<1>3. CeilingsHold' /\ CallNotReady'
  BY <1>1 DEF LifeInv, CeilingsHold, CallNotReady
<1>4. CASE life[i].stage < Final
  <2>1. StageHolds(i, life[i].stage) /\ life' = [life EXCEPT ![i] = StagePassed(life[i])]
    BY <1>4 DEF Advance
  <2>2. life[i].stage \in 1..Replay
    BY <1>2, <1>4 DEF LifeType, Final, Replay
  <2>3. Shown(i, life[i].stage)
    BY <1>2, <2>1, <2>2, HoldsWhenShown
  <2>4. /\ life'[i] = StagePassed(life[i]) /\ life'[i] \in LifeType
        /\ life'[i].candidate = life[i].candidate
        /\ life'[i].candidateReady = life[i].candidateReady /\ life'[i].round = life[i].round
        /\ life'[i].stage = life[i].stage + 1
        /\ life'[i].passed = life[i].passed \cup {life[i].stage}
        /\ ~ life'[i].ready
    BY <1>2, <1>4, <2>1, StagePassedLife DEF LifeInv, TypeOK
  <2>5. life[i].candidateReady
    BY <2>2, <2>3, ShownIsFramed
  <2>6. TypeOK'
    BY <1>1, <2>1, <2>4 DEF LifeInv, TypeOK, CallType
  <2>7. Fit(i)' /\ OnePerCheck(i)' /\ Live(i)' /\ Frame(i)' /\ Bound(i)'
    BY <1>1, <1>2, <2>4, <2>5 DEF ItemInv, Fit, OnePerCheck, Live, Current, Frame, Bound
  <2>8. InOrder(i)'
    BY <1>2, <2>2, <2>4 DEF ItemInv, InOrder, Replay
  <2>9. Evidence(i)'
    <3>1. ASSUME NEW s \in 1..life'[i].stage - 1
          PROVE  Shown(i, s)
      <4>1. s \in 1..life[i].stage - 1 \/ s = life[i].stage
        BY <2>2, <2>4 DEF Replay
      <4>. QED  BY <1>2, <2>3, <4>1 DEF ItemInv, Evidence
    <3>. QED  BY <1>1, <3>1 DEF Evidence, Shown, Passes
  <2>10. Ready(i)' /\ Landing(i)'
    BY <1>1, <1>2, <2>4 DEF ItemInv, Ready, Landing
  <2>11. \A j \in Items \ {i} : Same(j)
    BY <1>1, <2>1 DEF Same, LifeInv, TypeOK
  <2>. QED  BY <1>3, <2>6, <2>7, <2>8, <2>9, <2>10, <2>11, OfOneItem DEF ItemInv
<1>5. CASE ~ (life[i].stage < Final)
  <2>1. Settled(i) /\ life[i].candidateReady /\ life' = [life EXCEPT ![i] = MadeReady(life[i])]
    BY <1>5 DEF Advance
  <2>2. life[i].stage = Final
    BY <1>2, <1>5 DEF LifeType, Final
  <2>3. /\ life'[i] = MadeReady(life[i]) /\ life'[i] \in LifeType
        /\ life'[i].candidate = life[i].candidate
        /\ life'[i].candidateReady = life[i].candidateReady /\ life'[i].round = life[i].round
        /\ life'[i].stop = life[i].stop /\ life'[i].stage = life[i].stage
        /\ life'[i].passed = life[i].passed \cup {Final}
        /\ life'[i].ready
    BY <1>2, <2>1, MadeReadyLife DEF LifeInv, TypeOK
  <2>4. TypeOK'
    BY <1>1, <2>1, <2>3 DEF LifeInv, TypeOK, CallType
  <2>5. Fit(i)' /\ OnePerCheck(i)' /\ Live(i)' /\ Frame(i)' /\ Bound(i)'
    BY <1>1, <1>2, <2>1, <2>3 DEF ItemInv, Fit, OnePerCheck, Live, Current, Frame, Bound
  <2>6. InOrder(i)'
    BY <1>2, <2>2, <2>3 DEF ItemInv, InOrder
  <2>7. Evidence(i)'
    BY <1>1, <1>2, <2>3 DEF ItemInv, Evidence, Shown, Passes
  <2>8. Ready(i)' /\ Landing(i)'
    BY <1>1, <1>2, <2>1, <2>2, <2>3 DEF ItemInv, Ready, Landing, Settled
  <2>9. \A j \in Items \ {i} : Same(j)
    BY <1>1, <2>1 DEF Same, LifeInv, TypeOK
  <2>. QED  BY <1>3, <2>4, <2>5, <2>6, <2>7, <2>8, <2>9, OfOneItem DEF ItemInv
<1>. QED  BY <1>4, <1>5

-----------------------------------------------------------------------------
(* Repairs and Git.                                                        *)

\* What a failed check is charged with is an entry of a ledger.
LEMMA RepairForFits ==
  ASSUME LifeInv, NEW i \in Items, NEW e \in execs[i], e.status = "observed"
  PROVE  RepairFor(i, e) \in Repairs /\ Target(e) \in 1..Final
<1>1. /\ e \in Execution /\ life[i] \in LifeType /\ e.job # Pending
  BY Typed DEF ItemInv, Fit
<1>2. /\ e.check \in CheckSet /\ e.stage \in 1..Replay /\ e.job \in Results
  BY <1>1 DEF Execution
<1>3. e.job.kind \in {"none", "infrastructure", "product", "test", "review"}
  BY <1>2, LifecycleAssumption
<1>4. Dimension(e) \in Dimensions
  BY <1>3, LifecycleAssumption DEF Dimension
<1>5. StageOf[e.check] \in 0..Replay
  BY <1>2, LifecycleAssumption DEF Replay
<1>6. Tree[life[i].candidate] \in {Tree[c] : c \in Candidates \cup {Baseline}}
  BY <1>1 DEF LifeType
<1>7. RepairFor(i, e) \in Repairs
  BY <1>2, <1>4, <1>5, <1>6 DEF RepairFor, Repair, Repairs
<1>8. Target(e) \in 1..Final
  BY <1>2 DEF Target, Final, Replay
<1>. QED  BY <1>7, <1>8

\* A ready item has nothing that counts and failed.
LEMMA FailureIsNotReady ==
  ASSUME LifeInv, NEW i \in Items, NEW e \in execs[i], e.status = "observed", ~ Passes(e)
  PROVE  ~ life[i].ready
<1>1. ItemInv(i) /\ e \in Execution
  BY Typed
<1>2. e.stage \in 1..Replay /\ e.check \in StageChecks(e.stage)
  BY <1>1 DEF ItemInv, Fit, Execution
<1>3. ASSUME life[i].ready
      PROVE  FALSE
  <2>1. e.stage \in 1..life[i].stage - 1
    BY <1>1, <1>2, <1>3 DEF ItemInv, Ready, Final, Replay
  <2>2. PICK y \in execs[i] :
          y.stage = e.stage /\ y.check = e.check /\ y.status = "observed" /\ Passes(y)
    BY <1>1, <1>2, <2>1 DEF ItemInv, Evidence, Shown
  <2>3. y = e
    BY <1>1, <2>2 DEF ItemInv, OnePerCheck
  <2>. QED  BY <2>2, <2>3
<1>. QED  BY <1>3

LEMMA RetryCheckStep ==
  ASSUME LifeInv, NEW i \in Items, NEW e \in execs[i], RetryCheck(i, e)
  PROVE  LifeInv'
<1>1. /\ git[i] # "open" /\ e.status = "observed" /\ ~ Passes(e) /\ node[i].status = "active"
      /\ UNCHANGED <<node, findings, git, call>>
  BY DEF RetryCheck, Unresolved, Counts
<1>2. /\ ~ life[i].ready /\ life[i] \in LifeType /\ ItemInv(i)
      /\ RepairFor(i, e) \in Repairs /\ Target(e) \in 1..Final
  BY <1>1, Typed, FailureIsNotReady, RepairForFits
<1>3. life[i].candidateReady
  BY <1>1, <1>2 DEF ItemInv, Frame
<1>4. CASE Refuses(ledger[i], RepairFor(i, e))
  <2>1. life' = [life EXCEPT ![i] = Stopped(life[i])] /\ UNCHANGED <<execs, ledger>>
    BY <1>4 DEF RetryCheck
  <2>2. /\ life'[i] = Stopped(life[i]) /\ life'[i] \in LifeType
        /\ life'[i].candidate = life[i].candidate
        /\ life'[i].candidateReady = life[i].candidateReady
        /\ life'[i].round = life[i].round /\ life'[i].stage = life[i].stage
        /\ life'[i].passed = life[i].passed /\ life'[i].ready = life[i].ready
    BY <1>2, <2>1, StoppedLife DEF LifeInv, TypeOK
  <2>3. TypeOK'
    BY <1>1, <2>1, <2>2 DEF LifeInv, TypeOK, LifeType
  <2>4. Fit(i)' /\ OnePerCheck(i)' /\ Live(i)' /\ Frame(i)' /\ Bound(i)' /\ InOrder(i)'
    BY <1>1, <1>2, <2>1, <2>2
    DEF ItemInv, Fit, OnePerCheck, Live, Current, Frame, Bound, InOrder
  <2>5. Evidence(i)' /\ Ready(i)' /\ Landing(i)'
    BY <1>1, <1>2, <2>1, <2>2 DEF ItemInv, Evidence, Shown, Passes, Ready, Landing
  <2>6. \A j \in Items : life'[j].ready => life[j].ready
    BY <2>1, <2>2 DEF LifeInv, TypeOK
  <2>7. CallNotReady' /\ CeilingsHold'
    BY <1>1, <2>1, <2>6, TypedCall DEF LifeInv, CallNotReady, CeilingsHold
  <2>8. \A j \in Items \ {i} : Same(j)
    BY <1>1, <2>1 DEF Same, LifeInv, TypeOK
  <2>. QED  BY <2>3, <2>4, <2>5, <2>7, <2>8, OfOneItem DEF ItemInv
<1>5. CASE ~ Refuses(ledger[i], RepairFor(i, e))
  <2>. DEFINE to == BackTo(i, e)
  <2>1. /\ ledger' = [ledger EXCEPT ![i] = Append(@, RepairFor(i, e))]
        /\ life' = [life EXCEPT ![i] = Regressed(life[i], to)]
        /\ execs' = [execs EXCEPT ![i] = Without(i, to)]
    BY <1>5 DEF RetryCheck
  <2>2. to \in 1..Final /\ to <= life[i].stage /\ to \in Nat
    BY <1>2 DEF BackTo, LifeType, Final
  <2>3. \A n \in 1..Final : [life EXCEPT ![i] = Regressed(life[i], n)][i] = Regressed(life[i], n)
    BY DEF LifeInv, TypeOK
  <2>. HIDE DEF to
  <2>4. PICK n \in 1..Final : n = to
    BY <2>2
  <2>5. /\ life'[i] = Regressed(life[i], n) /\ life'[i] \in LifeType
        /\ life'[i].candidate = life[i].candidate
        /\ life'[i].candidateReady = life[i].candidateReady
        /\ life'[i].round = life[i].round + 1 /\ life'[i].stage = n
        /\ life'[i].passed = {s \in life[i].passed : s < n} /\ ~ life'[i].ready
    BY <1>2, <2>1, <2>3, <2>4, RegressedLife
  <2>6. ledger' \in [Items -> Seq(Repairs)] /\ CeilingsHold'
    BY <1>2, <1>5, <2>1, Spends DEF LifeInv, TypeOK
  <2>7. /\ Without(i, n) \in SUBSET Execution
        /\ \A x \in execs[i] : x.stage < n => x \in Without(i, n)
        /\ \A x \in Without(i, n) :
             \/ x \in execs[i] /\ x.stage < n
             \/ /\ x.status = "quarantined" /\ ~ x.recorded
                /\ \E y \in execs[i] : y.stage = x.stage /\ y.check = x.check
    BY <2>2, <2>4, WithoutExecutions DEF LifeInv
  <2>8. execs' = [execs EXCEPT ![i] = Without(i, n)] /\ execs'[i] = Without(i, n)
    BY <2>1, <2>4 DEF LifeInv, TypeOK
  <2>9. TypeOK'
    BY <1>1, <2>1, <2>5, <2>6, <2>7, <2>8 DEF LifeInv, TypeOK, LifeType
  <2>10. Fit(i)' /\ OnePerCheck(i)'
    BY <1>2, <2>7, <2>8 DEF ItemInv, Fit, OnePerCheck
  <2>11. \A x \in execs[i] : x.round \in Nat /\ life[i].round \in Nat
    BY <1>2, Typed DEF Execution, LifeType
  <2>12. Live(i)'
    BY <1>1, <1>2, <2>5, <2>7, <2>8, <2>11 DEF ItemInv, Live, Current
  <2>13. life'[i].round > 0
    BY <1>2, <2>5 DEF LifeType
  <2>14. Frame(i)' /\ Bound(i)'
    BY <1>1, <1>2, <1>3, <2>5, <2>13 DEF ItemInv, Frame, Bound
  <2>15. InOrder(i)'
    BY <1>2, <2>2, <2>4, <2>5 DEF ItemInv, InOrder, LifeType, Final
  <2>16. Evidence(i)'
    <3>1. ASSUME NEW s \in 1..n - 1, NEW k \in StageChecks(s)
          PROVE  \E y \in execs'[i] :
                   y.stage = s /\ y.check = k /\ y.status = "observed" /\ Passes(y)
      <4>1. s \in 1..life[i].stage - 1 /\ s < n
        BY <1>2, <2>2, <2>4 DEF LifeType, Final
      <4>2. PICK y \in execs[i] : y.stage = s /\ y.check = k /\ y.status = "observed" /\ Passes(y)
        BY <1>2, <3>1, <4>1 DEF ItemInv, Evidence, Shown
      <4>. QED  BY <2>7, <2>8, <4>1, <4>2
    <3>. QED  BY <2>5, <3>1 DEF Evidence, Shown
  <2>17. Ready(i)' /\ Landing(i)'
    BY <1>1, <2>5 DEF Ready, Landing
  <2>18. \A j \in Items : life'[j].ready => life[j].ready
    BY <2>1, <2>5 DEF LifeInv, TypeOK
  <2>19. CallNotReady'
    BY <1>1, <2>18, TypedCall DEF LifeInv, CallNotReady
  <2>20. \A j \in Items \ {i} : Same(j)
    BY <1>1, <2>1 DEF Same, LifeInv, TypeOK
  <2>21. ItemInv(i)'
    BY <2>10, <2>12, <2>14, <2>15, <2>16, <2>17 DEF ItemInv
  <2>. QED  BY <2>6, <2>9, <2>19, <2>20, <2>21, OfOneItem
<1>. QED  BY <1>4, <1>5

LEMMA DispositionFindingStep ==
  ASSUME LifeInv, NEW i \in Items, NEW f \in findings[i], DispositionFinding(i, f)
  PROVE  LifeInv'
<1>1. /\ UNCHANGED <<node, life, execs, ledger, git, call>>
      /\ findings' = [findings EXCEPT ![i] = findings[i] \ {f}]
  BY DEF DispositionFinding
<1>2. ItemInv(i) /\ findings[i] \in SUBSET Slot
  BY Typed
<1>3. findings'[i] = findings[i] \ {f} /\ TypeOK'
  BY <1>1, <1>2 DEF LifeInv, TypeOK
<1>4. Fit(i)' /\ OnePerCheck(i)' /\ Live(i)' /\ Frame(i)' /\ Bound(i)' /\ InOrder(i)'
  BY <1>1, <1>2 DEF ItemInv, Fit, OnePerCheck, Live, Current, Frame, Bound, InOrder
<1>5. Evidence(i)' /\ Landing(i)'
  BY <1>1, <1>2 DEF ItemInv, Evidence, Shown, Passes, Landing
<1>6. Ready(i)'
  BY <1>1, <1>2 DEF ItemInv, Ready, Settled
<1>7. CallNotReady' /\ CeilingsHold' /\ \A j \in Items \ {i} : Same(j)
  <2>1. CallNotReady' /\ CeilingsHold'
    BY <1>1 DEF LifeInv, CallNotReady, CeilingsHold
  <2>. QED  BY <1>1, <2>1 DEF Same, LifeInv, TypeOK
<1>8. ItemInv(i)'
  BY <1>4, <1>5, <1>6 DEF ItemInv
<1>. QED  BY <1>3, <1>7, <1>8, OfOneItem

\* What Git does to an item leaves its evidence alone.
LEMMA OnlyGit ==
  ASSUME LifeInv, NEW i \in Items, UNCHANGED <<life, execs, findings, call>>,
         node' = [node EXCEPT ![i] = node'[i]], node'[i] \in NodeType,
         node'[i].gen = node[i].gen, node'[i].worker = node[i].worker,
         node[i].status = "cancelled" <=> node'[i].status = "cancelled",
         node'[i].status # "pending",
         git' = [git EXCEPT ![i] = git'[i]], git'[i] \in {"none", "open", "closed", "accepted"},
         git'[i] = "open" => life[i].ready,
         ledger' \in [Items -> Seq(Repairs)], CeilingsHold'
  PROVE  LifeInv'
<1>1. ItemInv(i)
  BY Typed
<1>2. TypeOK'
  BY DEF LifeInv, TypeOK, NodeType
<1>3. Fit(i)' /\ OnePerCheck(i)' /\ Live(i)'
  BY <1>1 DEF ItemInv, Fit, OnePerCheck, Live, Current
<1>4. Frame(i)' /\ Bound(i)' /\ InOrder(i)'
  BY <1>1 DEF ItemInv, Frame, Bound, InOrder
<1>5. Evidence(i)' /\ Ready(i)' /\ Landing(i)'
  BY <1>1 DEF ItemInv, Evidence, Shown, Passes, Ready, Settled, Landing
<1>6. CallNotReady'
  BY DEF LifeInv, CallNotReady
<1>7. \A j \in Items \ {i} : Same(j)
  BY DEF Same, LifeInv, TypeOK
<1>8. ItemInv(i)'
  BY <1>3, <1>4, <1>5 DEF ItemInv
<1>. QED  BY <1>2, <1>6, <1>7, <1>8, OfOneItem

LEMMA GitOpenStep == ASSUME LifeInv, NEW i \in Items, GitOpen(i) PROVE LifeInv'
<1>1. /\ node[i].status = "active" /\ life[i].ready
      /\ git' = [git EXCEPT ![i] = "open"]
      /\ UNCHANGED <<node, life, execs, findings, ledger, call>>
  BY DEF GitOpen, Verified
<1>2. git'[i] = "open" /\ git' = [git EXCEPT ![i] = git'[i]]
  BY <1>1 DEF LifeInv, TypeOK
<1>3. node' = [node EXCEPT ![i] = node'[i]] /\ node'[i] = node[i] /\ node[i] \in NodeType
  BY <1>1, Typed DEF LifeInv, TypeOK
<1>4. ledger' \in [Items -> Seq(Repairs)] /\ CeilingsHold'
  BY <1>1 DEF LifeInv, TypeOK, CeilingsHold
<1>. QED  BY <1>1, <1>2, <1>3, <1>4, OnlyGit

LEMMA GitCloseStep == ASSUME LifeInv, NEW i \in Items, GitClose(i) PROVE LifeInv'
<1>. DEFINE r == Repair("integration", 0, "native-git", "operation-closed", Tree[life[i].candidate])
<1>1. /\ git[i] = "open" /\ git' = [git EXCEPT ![i] = "closed"]
      /\ UNCHANGED <<node, life, execs, findings, call>>
      /\ \/ UNCHANGED ledger
         \/ ~ Refuses(ledger[i], r) /\ ledger' = [ledger EXCEPT ![i] = Append(@, r)]
  BY DEF GitClose
<1>2. git'[i] = "closed" /\ git' = [git EXCEPT ![i] = git'[i]]
  BY <1>1 DEF LifeInv, TypeOK
<1>3. node' = [node EXCEPT ![i] = node'[i]] /\ node'[i] = node[i] /\ node[i] \in NodeType
  BY <1>1, Typed DEF LifeInv, TypeOK
<1>4. node[i].status # "pending"
  BY <1>1, Typed DEF ItemInv, Landing
<1>5. r \in Repairs
  <2>1. Tree[life[i].candidate] \in {Tree[c] : c \in Candidates \cup {Baseline}}
    BY Typed DEF LifeType
  <2>2. "integration" \in Dimensions /\ 0 \in 0..Replay
    BY LifecycleAssumption DEF Replay
  <2>. QED  BY <2>1, <2>2 DEF Repair, Repairs
<1>. HIDE DEF r
<1>6. ledger' \in [Items -> Seq(Repairs)] /\ CeilingsHold'
  <2>1. CASE UNCHANGED ledger
    BY <2>1 DEF LifeInv, TypeOK, CeilingsHold
  <2>2. CASE ~ Refuses(ledger[i], r) /\ ledger' = [ledger EXCEPT ![i] = Append(@, r)]
    BY <1>5, <2>2, Spends DEF LifeInv, TypeOK
  <2>. QED  BY <1>1, <2>1, <2>2
<1>. QED  BY <1>1, <1>2, <1>3, <1>4, <1>6, OnlyGit

LEMMA IntegrateStep == ASSUME LifeInv, NEW i \in Items, Integrate(i) PROVE LifeInv'
<1>. DEFINE n == [node[i] EXCEPT !.status = "complete"]
<1>1. /\ node[i].status = "active" /\ git' = [git EXCEPT ![i] = "accepted"]
      /\ node' = [node EXCEPT ![i] = n]
      /\ UNCHANGED <<life, execs, findings, ledger, call>>
  BY DEF Integrate
<1>2. git'[i] = "accepted" /\ git' = [git EXCEPT ![i] = git'[i]]
  BY <1>1 DEF LifeInv, TypeOK
<1>3. /\ n \in NodeType /\ n.status = "complete" /\ n.gen = node[i].gen
      /\ n.worker = node[i].worker
  BY Typed DEF NodeType
<1>. HIDE DEF n
<1>4. node' = [node EXCEPT ![i] = node'[i]] /\ node'[i] = n
  BY <1>1 DEF LifeInv, TypeOK
<1>5. ledger' \in [Items -> Seq(Repairs)] /\ CeilingsHold'
  BY <1>1 DEF LifeInv, TypeOK, CeilingsHold
<1>. QED  BY <1>1, <1>2, <1>3, <1>4, <1>5, OnlyGit

-----------------------------------------------------------------------------
(* The invariant holds, and with it what the audits ask for.               *)

LEMMA Initially == Init => LifeInv
<1>. SUFFICES ASSUME Init PROVE LifeInv
  OBVIOUS
<1>1. /\ \A i \in Items : /\ node[i].status = "pending" /\ node[i].gen = 1
                          /\ node[i].worker = Nobody /\ execs[i] = {} /\ ledger[i] = <<>>
                          /\ life[i].candidate = Baseline /\ ~ life[i].candidateReady
                          /\ life[i].round = 0 /\ life[i].stage = 1 /\ life[i].passed = {0}
                          /\ ~ life[i].ready /\ findings[i] = {} /\ git[i] = "none"
      /\ call = Idle
  BY DEF Init
<1>2. TypeOK
  BY LifecycleAssumption DEF Init, TypeOK, NodeType, LifeType, CallType, Final
<1>3. CallNotReady
  BY <1>1 DEF CallNotReady
<1>4. CeilingsHold
  <2>1. ASSUME NEW i \in Items, NEW d \in Dimensions
        PROVE  Cardinality({n \in DOMAIN ledger[i] : ledger[i][n].dim = d}) <= Limit[d]
    <3>1. {n \in DOMAIN ledger[i] : ledger[i][n].dim = d} = {}
      BY <1>1
    <3>2. Limit[d] \in Nat
      BY LimitAssumption DEF Dimensions
    <3>. QED  BY <3>1, <3>2, FS_EmptySet
  <2>. QED  BY <2>1 DEF CeilingsHold
<1>5. ASSUME NEW i \in Items
      PROVE  ItemInv(i)
  <2>1. Fit(i) /\ OnePerCheck(i) /\ Live(i) /\ Frame(i)
    BY <1>1 DEF Fit, OnePerCheck, Live, Frame
  <2>2. Bound(i) /\ InOrder(i) /\ Evidence(i) /\ Ready(i) /\ Landing(i)
    BY <1>1, LifecycleAssumption DEF Bound, Gens, InOrder, Evidence, Ready, Landing
  <2>. QED  BY <2>1, <2>2 DEF ItemInv
<1>. QED  BY <1>2, <1>3, <1>4, <1>5 DEF LifeInv

LEMMA Inductive == LifeInv /\ [Next]_vars => LifeInv'
<1>. SUFFICES ASSUME LifeInv, [Next]_vars PROVE LifeInv'
  OBVIOUS
<1>1. ASSUME NEW i \in Items, Reserve(i) PROVE LifeInv'
  BY <1>1, ReserveStep
<1>2. ASSUME NEW i \in Items, Bind(i) PROVE LifeInv'
  BY <1>2, BindStep
<1>3. ASSUME NEW i \in Items, Replace(i) PROVE LifeInv'
  BY <1>3, ReplaceStep
<1>4. ASSUME NEW i \in Items, StartChecks(i) PROVE LifeInv'
  BY <1>4, StartChecksStep
<1>5. ASSUME NEW i \in Items, NEW c \in Candidates, SetCandidate(i, c) PROVE LifeInv'
  BY <1>5, SetCandidateStep
<1>6. ASSUME NEW i \in Items, NEW e \in execs[i], Recover(i, e) PROVE LifeInv'
  BY <1>6, RecoverStep
<1>7. ASSUME NEW i \in Items, NEW e \in execs[i], RecordRecovered(i, e) PROVE LifeInv'
  BY <1>7, RecordRecoveredStep
<1>8. ASSUME NEW i \in Items, NEW e \in execs[i], RetryCheck(i, e) PROVE LifeInv'
  BY <1>8, RetryCheckStep
<1>9. ASSUME NEW i \in Items, NEW f \in findings[i], DispositionFinding(i, f) PROVE LifeInv'
  BY <1>9, DispositionFindingStep
<1>10. ASSUME NEW i \in Items, GitOpen(i) \/ GitClose(i) \/ Integrate(i) PROVE LifeInv'
  BY <1>10, GitOpenStep, GitCloseStep, IntegrateStep
<1>11. CASE Cancel
  BY <1>11, CancelStep
<1>12. CASE CallStep
  <2>1. call.item \in Items
    BY <1>12, TypedCall DEF CallStep, PrepareCheck, ExecuteCheck, RecordCheck, Advance, InCall
  <2>. QED  BY <1>12, <2>1, PrepareCheckStep, ExecuteCheckStep, RecordCheckStep, AdvanceStep
            DEF CallStep
<1>13. CASE EndCall
  BY <1>13, EndCallStep
<1>14. CASE UNCHANGED vars
  <2>1. \A j \in Items : Same(j)
    BY <1>14 DEF vars, Same
  <2>. QED  BY <1>14, <2>1, Unmoved DEF vars, LifeInv, TypeOK, CeilingsHold, CallNotReady
<1>. QED  BY <1>1, <1>2, <1>3, <1>4, <1>5, <1>6, <1>7, <1>8, <1>9, <1>10, <1>11, <1>12, <1>13,
             <1>14 DEF Next

THEOREM LifeInvariant == Spec => []LifeInv
BY Initially, Inductive, PTL DEF Spec

LEMMA AuditFollows == LifeInv => AuditLifecycle /\ LiveIsCurrent /\ LandingStaysVerified
<1>. SUFFICES ASSUME LifeInv PROVE AuditLifecycle /\ LiveIsCurrent /\ LandingStaysVerified
  OBVIOUS
<1>1. \A i \in Items, s \in 1..Replay : StageHolds(i, s) <=> Shown(i, s)
  BY Typed, HoldsWhenShown
<1>2. ExecutionsFit /\ PassedInOrder
  BY Typed DEF ExecutionsFit, PassedInOrder, ItemInv, Fit, InOrder
<1>3. PassedStagesHold
  <2>1. ASSUME NEW i \in Items, NEW s \in life[i].passed \ {0, Final}
        PROVE  StageHolds(i, s)
    <3>1. s \in 1..life[i].stage - 1 /\ s \in 1..Replay
      BY Typed DEF ItemInv, InOrder, LifeType, Final, Replay
    <3>. QED  BY <1>1, <3>1, Typed DEF ItemInv, Evidence
  <2>. QED  BY <2>1 DEF PassedStagesHold
<1>4. ReadyIsVerified
  <2>1. ASSUME NEW i \in Items, life[i].ready
        PROVE  Verified(i)
    <3>1. /\ life[i].stage = Final /\ ~ life[i].stop /\ findings[i] = {} /\ Settled(i)
          /\ life[i].candidateReady
      BY <2>1, Typed DEF ItemInv, Ready, Frame
    <3>2. life[i].passed = 0..Final
      BY <2>1, <3>1, Typed DEF ItemInv, InOrder, Final
    <3>3. \A s \in 1..Replay : StageHolds(i, s)
      BY <1>1, <3>1, Typed DEF ItemInv, Evidence, Final, Replay
    <3>. QED  BY <2>1, <3>1, <3>2, <3>3 DEF Verified
  <2>. QED  BY <2>1 DEF ReadyIsVerified
<1>5. LandingStaysVerified
  BY <1>4, Typed DEF LandingStaysVerified, ReadyIsVerified, ItemInv, Landing
<1>6. LiveIsCurrent
  BY Typed DEF LiveIsCurrent, ItemInv, Live
<1>. QED  BY <1>2, <1>3, <1>4, <1>5, <1>6 DEF AuditLifecycle, LifeInv

\* No sequence of legal calls reaches a state that auditLifecycleV2 refuses.
THEOREM LifecyclesPassAudit == Spec => []AuditLifecycle
BY LifeInvariant, AuditFollows, PTL

-----------------------------------------------------------------------------
(* Attempts do not mix.                                                    *)

\* A step that writes no execution down and passes no stage of an item.
Kin(i) == \A e \in execs'[i] : SlotOf(e) \in {SlotOf(x) : x \in execs[i]}
Less(i) == life'[i].passed \subseteq life[i].passed

LEMMA StillApart ==
  ASSUME NEW i, execs'[i] \subseteq execs[i], life'[i] = life[i]
  PROVE  Kin(i) /\ Less(i)
BY DEF Kin, Less

LEMMA WithoutKin ==
  ASSUME LifeInv, NEW i \in Items, NEW from \in Nat, execs'[i] = Without(i, from)
  PROVE  Kin(i)
<1>1. \A x \in Without(i, from) :
        \/ x \in execs[i]
        \/ \E e \in execs[i] : e.stage = x.stage /\ e.check = x.check /\ e.round = x.round
  BY WithoutExecutions DEF LifeInv
<1>. QED  BY <1>1 DEF Kin, SlotOf

LEMMA ExchangedKin ==
  ASSUME NEW i \in Items, NEW e \in execs[i], NEW x, execs'[i] = (execs[i] \ {e}) \cup {x},
         x.stage = e.stage, x.check = e.check, x.round = e.round
  PROVE  Kin(i)
BY DEF Kin, SlotOf

\* Every item has passed F0.
LEMMA FirstIsPassed ==
  ASSUME LifeInv, NEW i \in Items
  PROVE  0 \in life[i].passed
<1>1. life[i].stage \in 1..Final /\ InOrder(i)
  BY Typed DEF LifeType, ItemInv
<1>. QED  BY <1>1 DEF InOrder, Final

LEMMA OtherStepsApart ==
  ASSUME LifeInv, NEW i \in Items, [Next]_vars
  PROVE  \/ Kin(i) /\ Less(i)
         \/ PrepareCheck \/ Advance
<1>. DEFINE Goal == Kin(i) /\ Less(i)
<1>. USE DEF LifeInv, TypeOK
<1>1. ASSUME NEW j \in Items, Reserve(j) PROVE Goal
  <2>1. UNCHANGED execs /\ life' = [life EXCEPT ![j].round = 1]
    BY <1>1 DEF Reserve
  <2>. QED  BY <2>1 DEF Kin, Less
<1>2. ASSUME NEW j \in Items, Bind(j) \/ StartChecks(j) \/ GitOpen(j) \/ GitClose(j) \/ Integrate(j)
      PROVE  Goal
  <2>1. UNCHANGED <<execs, life>>
    BY <1>2 DEF Bind, StartChecks, GitOpen, GitClose, Integrate
  <2>. QED  BY <2>1, StillApart
<1>3. ASSUME NEW j \in Items, Replace(j) PROVE Goal
  <2>1. /\ execs' = [execs EXCEPT ![j] = Without(j, 1)]
        /\ life' = [life EXCEPT ![j] = Unframed(life[j])]
    BY <1>3 DEF Replace
  <2>2. CASE i # j
    BY <2>1, <2>2, StillApart
  <2>3. CASE i = j
    <3>1. execs'[i] = Without(i, 1) /\ life'[i].passed = {0}
      BY <2>1, <2>3, Typed, UnframedLife
    <3>. QED  BY <3>1, WithoutKin, FirstIsPassed DEF Less
  <2>. QED  BY <2>2, <2>3
<1>4. ASSUME NEW j \in Items, NEW c \in Candidates, SetCandidate(j, c) PROVE Goal
  <2>1. \/ life' = [life EXCEPT ![j] = Halted(life[j])] /\ UNCHANGED execs
        \/ /\ life' = [life EXCEPT ![j] = Framed(Invalidated(life[j]), c)]
           /\ execs' = [execs EXCEPT ![j] = Without(j, 1)]
        \/ life' = [life EXCEPT ![j] = Framed(life[j], c)] /\ UNCHANGED execs
    BY <1>4 DEF SetCandidate
  <2>2. CASE i # j
    BY <2>1, <2>2, StillApart
  <2>3. CASE i = j
    <3>1. /\ Halted(life[j]).passed \subseteq life[j].passed
          /\ Framed(Invalidated(life[j]), c).passed = {0} /\ Framed(life[j], c).passed = {0}
      BY Typed, HaltedLife, FramedLife, InvalidatedLife
    <3>2. Less(i)
      BY <2>1, <2>3, <3>1, FirstIsPassed DEF Less
    <3>3. Kin(i)
      <4>1. CASE UNCHANGED execs
        BY <4>1 DEF Kin
      <4>2. CASE execs' = [execs EXCEPT ![j] = Without(j, 1)]
        BY <2>3, <4>2, WithoutKin
      <4>. QED  BY <2>1, <4>1, <4>2
    <3>. QED  BY <3>2, <3>3
  <2>. QED  BY <2>2, <2>3
<1>5. ASSUME NEW j \in Items, NEW e \in execs[j], Recover(j, e) PROVE Goal
  <2>. DEFINE x == [e EXCEPT !.job = Unavailable]
  <2>1. UNCHANGED life /\ execs' = [execs EXCEPT ![j] = (execs[j] \ {e}) \cup {x}]
    BY <1>5 DEF Recover
  <2>2. x.stage = e.stage /\ x.check = e.check /\ x.round = e.round
    BY Typed DEF Execution
  <2>. HIDE DEF x
  <2>. QED  BY <2>1, <2>2, StillApart, ExchangedKin DEF Less
<1>6. ASSUME NEW j \in Items, NEW e \in execs[j], Record(j, e) PROVE Goal
  <2>. DEFINE x == [[e EXCEPT !.recorded = TRUE, !.rejected = ContextReused(j, e)]
                      EXCEPT !.status = "observed"]
  <2>1. /\ UNCHANGED life
        /\ \/ execs' = [execs EXCEPT ![j] = @ \ {e}]
           \/ execs' = [execs EXCEPT ![j] = (execs[j] \ {e}) \cup {x}]
    BY <1>6 DEF Record
  <2>2. x.stage = e.stage /\ x.check = e.check /\ x.round = e.round
    <3>1. e \in Execution
      BY Typed
    <3>. QED  BY <3>1 DEF Execution
  <2>. HIDE DEF x
  <2>3. CASE execs' = [execs EXCEPT ![j] = @ \ {e}]
    BY <2>1, <2>3, StillApart
  <2>4. CASE execs' = [execs EXCEPT ![j] = (execs[j] \ {e}) \cup {x}]
    BY <2>1, <2>2, <2>4, StillApart, ExchangedKin DEF Less
  <2>. QED  BY <2>1, <2>3, <2>4
<1>7. ASSUME NEW j \in Items, NEW e \in execs[j], RetryCheck(j, e) PROVE Goal
  <2>1. e.status = "observed"
    BY <1>7 DEF RetryCheck, Counts
  <2>2. Target(e) \in 1..Final /\ life[j].stage \in 1..Final
    BY <2>1, RepairForFits, Typed DEF LifeType
  <2>3. BackTo(j, e) \in 1..Final /\ BackTo(j, e) \in Nat
    BY <2>2 DEF BackTo, Final
  <2>4. \/ life' = [life EXCEPT ![j] = Stopped(life[j])] /\ UNCHANGED execs
        \/ /\ life' = [life EXCEPT ![j] = Regressed(life[j], BackTo(j, e))]
           /\ execs' = [execs EXCEPT ![j] = Without(j, BackTo(j, e))]
    BY <1>7 DEF RetryCheck
  <2>5. CASE i # j
    BY <2>4, <2>5, StillApart
  <2>6. CASE i = j
    <3>1. /\ Stopped(life[j]).passed = life[j].passed
          /\ Regressed(life[j], BackTo(j, e)).passed = {s \in life[j].passed : s < BackTo(j, e)}
      <4>1. life[j] \in LifeType
        BY Typed
      <4>2. Stopped(life[j]).passed = life[j].passed
        BY <4>1, StoppedLife
      <4>3. Regressed(life[j], BackTo(j, e)).passed = {s \in life[j].passed : s < BackTo(j, e)}
        BY <2>3, <4>1, RegressedLife
      <4>. QED  BY <4>2, <4>3
    <3>2. Less(i)
      BY <2>4, <2>6, <3>1 DEF Less
    <3>3. Kin(i)
      <4>1. CASE UNCHANGED execs
        BY <4>1 DEF Kin
      <4>2. CASE execs' = [execs EXCEPT ![j] = Without(j, BackTo(j, e))]
        BY <2>3, <2>6, <4>2, WithoutKin
      <4>. QED  BY <2>4, <4>1, <4>2
    <3>. QED  BY <3>2, <3>3
  <2>. QED  BY <2>5, <2>6
<1>8. ASSUME NEW j \in Items, NEW f \in findings[j], DispositionFinding(j, f) PROVE Goal
  BY <1>8, StillApart DEF DispositionFinding
<1>9. CASE Cancel
  <2>1. /\ execs'[i] = execs[i] \/ execs'[i] = Without(i, 1)
        /\ life'[i] = life[i] \/ life'[i] = Invalidated(life[i])
    BY <1>9 DEF Cancel
  <2>2. Less(i)
    BY <2>1, Typed, InvalidatedLife, FirstIsPassed DEF Less
  <2>3. Kin(i)
    <3>1. CASE execs'[i] = execs[i]
      BY <3>1 DEF Kin
    <3>. QED  BY <2>1, <3>1, WithoutKin
  <2>. QED  BY <2>2, <2>3
<1>10. CASE ExecuteCheck
  <2>1. call.item \in Items
    BY <1>10, TypedCall DEF ExecuteCheck, InCall
  <2>2. PICK j \in Items : j = call.item
    BY <2>1
  <2>3. UNCHANGED life
    BY <1>10 DEF ExecuteCheck
  <2>4. PICK e \in execs[j] :
          \/ UNCHANGED execs
          \/ \E r : execs' = [execs EXCEPT ![j] = (execs[j] \ {e}) \cup {[e EXCEPT !.job = r]}]
    <3>1. \E e \in execs[call.item] :
            \/ UNCHANGED execs
            \/ \E r : execs' =
                 [execs EXCEPT ![call.item] = (@ \ {e}) \cup {[e EXCEPT !.job = r]}]
      BY <1>10 DEF ExecuteCheck
    <3>. QED  BY <2>2, <3>1
  <2>5. CASE UNCHANGED execs
    BY <2>3, <2>5, StillApart
  <2>6. ASSUME NEW r, execs' = [execs EXCEPT ![j] = (execs[j] \ {e}) \cup {[e EXCEPT !.job = r]}]
        PROVE  Goal
    <3>. DEFINE x == [e EXCEPT !.job = r]
    <3>1. x.stage = e.stage /\ x.check = e.check /\ x.round = e.round
      <4>1. e \in Execution
        BY Typed
      <4>. QED  BY <4>1 DEF Execution
    <3>2. execs' = [execs EXCEPT ![j] = (execs[j] \ {e}) \cup {x}]
      BY <2>6
    <3>. HIDE DEF x
    <3>. QED  BY <2>3, <3>1, <3>2, StillApart, ExchangedKin DEF Less
  <2>. QED  BY <2>4, <2>5, <2>6
<1>11. CASE RecordCheck
  <2>1. call.item \in Items
    BY <1>11, TypedCall DEF RecordCheck, InCall
  <2>2. PICK j \in Items : j = call.item
    BY <2>1
  <2>3. (\E e \in execs[j] : Record(j, e)) \/ UNCHANGED <<life, execs>>
    BY <1>11, <2>2 DEF RecordCheck
  <2>. QED  BY <1>6, <2>3, StillApart
<1>12. CASE EndCall \/ UNCHANGED vars
  BY <1>12, StillApart DEF EndCall, vars
<1>13. ASSUME NEW j \in Items, NEW e \in execs[j], RecordRecovered(j, e) PROVE Goal
  BY <1>6, <1>13 DEF RecordRecovered
<1>. QED  BY <1>1, <1>2, <1>3, <1>4, <1>5, <1>7, <1>8, <1>9, <1>10, <1>11, <1>12, <1>13
          DEF Next, CallStep

\* A new execution is for the attempt the call was started for, and so is a stage that passes.
LEMMA CallsKeepTheirAttempt ==
  ASSUME LifeInv, NEW i \in Items, PrepareCheck \/ Advance
  PROVE  /\ \A e \in execs'[i] : SlotOf(e) \notin {SlotOf(x) : x \in execs[i]} =>
              call.item = i /\ e.gen = call.gen /\ e.stage = call.stage /\ e.round = call.round
         /\ ~ Less(i) => call.item = i /\ node[i].gen = call.gen /\ life[i].round = call.round
<1>. USE DEF LifeInv, TypeOK
<1>1. call # Idle /\ call.item \in Items /\ SameAttempt
  BY TypedCall DEF PrepareCheck, Advance, InCall
<1>2. CASE PrepareCheck
  <2>1. PICK j \in Items : j = call.item
    BY <1>1
  <2>2. UNCHANGED life
    BY <1>2 DEF PrepareCheck
  <2>3. PICK e : /\ execs' = [execs EXCEPT ![j] = @ \cup {e}]
                 /\ \/ e \in execs[j]
                    \/ e.gen = call.gen /\ e.stage = life[j].stage /\ e.round = life[j].round
    <3>. DEFINE l == life[call.item]
                new(k) == [check |-> k, stage |-> l.stage, round |-> l.round, gen |-> call.gen,
                           candidate |-> l.candidate, status |-> "intent", job |-> Pending,
                           recorded |-> FALSE, rejected |-> FALSE]
                there(k) == {e \in execs[call.item] :
                               e.stage = l.stage /\ e.check = k
                                 /\ e.status # "quarantined" /\ Current(call.item, e)}
    <3>1. PICK k \in call.left : \E e \in IF there(k) = {} THEN {new(k)} ELSE there(k) :
            execs' = [execs EXCEPT ![call.item] = @ \cup {e}]
      BY <1>2 DEF PrepareCheck
    <3>2. PICK e \in IF there(k) = {} THEN {new(k)} ELSE there(k) :
            execs' = [execs EXCEPT ![call.item] = @ \cup {e}]
      BY <3>1
    <3>3. \/ e \in execs[j]
          \/ e.gen = call.gen /\ e.stage = life[j].stage /\ e.round = life[j].round
      BY <2>1, <3>2
    <3>4. execs' = [execs EXCEPT ![j] = execs[j] \cup {e}]
      BY <2>1, <3>2
    <3>. QED  BY <3>3, <3>4
  <2>4. life[j].stage = call.stage /\ life[j].round = call.round
    BY <1>1, <2>1 DEF SameAttempt
  <2>5. Less(i)
    BY <2>2 DEF Less
  <2>6. CASE i # j
    BY <2>3, <2>5, <2>6
  <2>7. CASE i = j
    <3>1. execs'[i] = execs[i] \cup {e}
      BY <2>3, <2>7
    <3>. QED  BY <2>1, <2>3, <2>4, <2>5, <2>7, <3>1
  <2>. QED  BY <2>6, <2>7
<1>3. CASE Advance
  <2>1. PICK j \in Items : j = call.item
    BY <1>1
  <2>2. UNCHANGED execs /\ (i # j => life'[i] = life[i])
    BY <1>3, <2>1 DEF Advance
  <2>. QED  BY <1>1, <2>1, <2>2 DEF SameAttempt, Less
<1>. QED  BY <1>2, <1>3

\* A checks() call overtaken by a repair, a candidate or a replacement neither prepares nor
\* advances anything for the attempt it finds.
THEOREM CallsDoNotMixAttempts == Spec => AttemptsDoNotMix
<1>. DEFINE Apart ==
       \A i \in Items :
         /\ \A e \in execs'[i] : SlotOf(e) \notin {SlotOf(x) : x \in execs[i]} =>
              call.item = i /\ e.gen = call.gen /\ e.stage = call.stage /\ e.round = call.round
         /\ ~ (life'[i].passed \subseteq life[i].passed) =>
              call.item = i /\ node[i].gen = call.gen /\ life[i].round = call.round
<1>1. ASSUME LifeInv, [Next]_vars
      PROVE  Apart
  BY <1>1, OtherStepsApart, CallsKeepTheirAttempt DEF Kin, Less
<1>2. LifeInv /\ [Next]_vars => [Apart]_vars
  BY <1>1
<1>. HIDE DEF Apart
<1>3. Spec => [][Apart]_vars
  BY <1>2, LifeInvariant, PTL DEF Spec
<1>. QED  BY <1>3 DEF AttemptsDoNotMix, Apart

-----------------------------------------------------------------------------
(* Independent contexts.                                                   *)

Known == \A i \in Items : \A e \in execs[i] : Deployed(e.job.context)

Apart(i, e) ==
  \A j \in Items :
    /\ node[j].worker # e.job.context
    /\ \A x \in execs[j] :
         /\ WorkerId[j][x.gen] # e.job.context
         /\ (i # j \/ x # e) /\ Accepted(x) => x.job.context # e.job.context

\* Executions of one item that are, for the contexts they used, executions there were.
Inherits(j) ==
  \A x \in execs'[j] : \E e \in execs[j] :
    /\ x.gen = e.gen /\ x.stage = e.stage
    /\ x = e \/ ~ x.recorded
    /\ x.job = e.job \/ Deployed(x.job.context)

LEMMA ResultContexts ==
  ASSUME NEW r \in Results \cup {Pending}
  PROVE  r.context # Nobody
<1>1. Pending.context = Own /\ Own # Nobody
  BY DEF Pending, Result, Own, Nobody
<1>. QED  BY <1>1, LifecycleAssumption

\* What a worker is known by stays known: its generation passes, but is not forgotten.
LEMMA StaysDeployed ==
  ASSUME LifeInv, NEW w, Deployed(w),
         \A j \in Items :
           \/ node'[j].gen = node[j].gen /\ node'[j].worker = node[j].worker
           \/ node'[j].gen = node[j].gen /\ node[j].worker = Nobody
           \/ node'[j].gen = node[j].gen + 1 /\ node[j].status # "cancelled"
  PROVE  Deployed(w)'
<1>1. SUFFICES ASSUME NEW j \in Items, NEW g \in Gens, WorkerId[j][g] = w
               PROVE  g < node'[j].gen \/ node'[j].worker = w
  BY DEF Deployed
<1>2. g < node[j].gen \/ node[j].worker = w
  BY <1>1 DEF Deployed
<1>3. node[j].gen \in Nat /\ g \in Nat
  BY Typed, LifecycleAssumption DEF NodeType, Gens
<1>4. CASE node'[j].gen = node[j].gen /\ node[j].worker = Nobody
  BY <1>1, <1>2, <1>4, LifecycleAssumption
<1>5. CASE node'[j].gen = node[j].gen + 1 /\ node[j].status # "cancelled"
  <2>1. CASE g < node[j].gen
    BY <1>3, <1>5, <2>1
  <2>2. CASE node[j].worker = w
    <3>1. node[j].gen \in Gens /\ node[j].worker \in {Nobody, WorkerId[j][node[j].gen]}
      BY <1>5, Typed DEF ItemInv, Bound
    <3>2. w # Nobody
      BY <1>1, LifecycleAssumption
    <3>3. g = node[j].gen
      BY <1>1, <2>2, <3>1, <3>2, LifecycleAssumption
    <3>. QED  BY <1>3, <1>5, <3>3
  <2>. QED  BY <1>2, <2>1, <2>2
<1>. QED  BY <1>2, <1>4, <1>5

\* How a step may change nodes.
NodesMove ==
  \A j \in Items :
    \/ node'[j].gen = node[j].gen /\ node'[j].worker = node[j].worker
    \/ /\ node'[j].gen = node[j].gen /\ node[j].worker = Nobody
       /\ node'[j].worker = WorkerId[j][node[j].gen] /\ node[j].gen \in Gens
    \/ /\ node'[j].gen = node[j].gen + 1 /\ node[j].status # "cancelled"
       /\ node'[j].worker \in {Nobody, node[j].worker}

IndependentInv == Known /\ IndependentContexts

\* A step that records nothing keeps contexts apart.
LEMMA InheritedApart ==
  ASSUME LifeInv, TypeOK', IndependentInv, NodesMove, \A j \in Items : Inherits(j)
  PROVE  IndependentInv'
<1>. USE DEF IndependentInv
<1>1. ASSUME NEW w, Deployed(w)
      PROVE  Deployed(w)'
  BY <1>1, StaysDeployed DEF NodesMove
<1>2. Known'
  <2>1. ASSUME NEW j \in Items, NEW x \in execs'[j]
        PROVE  Deployed(x.job.context)'
    <3>1. Deployed(x.job.context)
      BY <2>1 DEF Inherits, Known
    <3>. QED  BY <1>1, <3>1
  <2>. QED  BY <2>1 DEF Known
<1>3. ASSUME NEW i \in Items, NEW e \in execs'[i], Accepted(e), e.stage \in Independent,
             NEW j \in Items
      PROVE  /\ node'[j].worker # e.job.context
             /\ \A x \in execs'[j] :
                  /\ WorkerId[j][x.gen] # e.job.context
                  /\ (i # j \/ x # e) /\ Accepted(x) => x.job.context # e.job.context
  <2>1. e \in execs[i]
    BY <1>3 DEF Inherits, Accepted
  <2>2. Apart(i, e)
    BY <1>3, <2>1 DEF IndependentContexts, Apart
  <2>3. e.job.context # Nobody /\ Deployed(e.job.context)
    <3>1. e.job \in Results \cup {Pending}
      BY <2>1, Typed DEF Execution
    <3>. QED  BY <2>1, <3>1, ResultContexts DEF Known
  <2>4. node'[j].worker # e.job.context
    <3>1. CASE node'[j].worker \in {Nobody, node[j].worker}
      BY <2>2, <2>3, <3>1 DEF Apart
    <3>2. CASE /\ node[j].worker = Nobody /\ node'[j].worker = WorkerId[j][node[j].gen]
               /\ node[j].gen \in Gens
      <4>1. ASSUME node'[j].worker = e.job.context
            PROVE  FALSE
        <5>1. node[j].gen < node[j].gen \/ node[j].worker = e.job.context
          BY <2>3, <3>2, <4>1 DEF Deployed
        <5>2. node[j].gen \in Nat
          BY <3>2 DEF Gens
        <5>. QED  BY <2>3, <3>2, <5>1, <5>2
      <4>. QED  BY <4>1
    <3>. QED  BY <3>1, <3>2 DEF NodesMove
  <2>5. ASSUME NEW x \in execs'[j]
        PROVE  /\ WorkerId[j][x.gen] # e.job.context
               /\ (i # j \/ x # e) /\ Accepted(x) => x.job.context # e.job.context
    <3>1. PICK y \in execs[j] : x.gen = y.gen /\ (x = y \/ ~ x.recorded)
      BY <2>5 DEF Inherits
    <3>. QED  BY <2>2, <3>1 DEF Apart, Accepted
  <2>. QED  BY <2>4, <2>5
<1>4. IndependentContexts'
  BY <1>3 DEF IndependentContexts, Accepted
<1>. QED  BY <1>2, <1>4

LEMMA NodesMoveSo == ASSUME LifeInv, [Next]_vars PROVE NodesMove
<1>. USE DEF LifeInv, TypeOK, NodeType
<1>. SUFFICES ASSUME NEW j \in Items
              PROVE  \/ node'[j].gen = node[j].gen /\ node'[j].worker = node[j].worker
                     \/ /\ node'[j].gen = node[j].gen /\ node[j].worker = Nobody
                        /\ node'[j].worker = WorkerId[j][node[j].gen] /\ node[j].gen \in Gens
                     \/ /\ node'[j].gen = node[j].gen + 1 /\ node[j].status # "cancelled"
                        /\ node'[j].worker \in {Nobody, node[j].worker}
  BY DEF NodesMove
<1>. DEFINE Goal == \/ node'[j].gen = node[j].gen /\ node'[j].worker = node[j].worker
                    \/ /\ node'[j].gen = node[j].gen /\ node[j].worker = Nobody
                       /\ node'[j].worker = WorkerId[j][node[j].gen] /\ node[j].gen \in Gens
                    \/ /\ node'[j].gen = node[j].gen + 1 /\ node[j].status # "cancelled"
                       /\ node'[j].worker \in {Nobody, node[j].worker}
<1>1. ASSUME NEW i \in Items, Reserve(i) \/ Integrate(i) PROVE Goal
  <2>1. \A s : /\ [node EXCEPT ![i].status = s][j].gen = node[j].gen
               /\ [node EXCEPT ![i].status = s][j].worker = node[j].worker
    OBVIOUS
  <2>. QED  BY <1>1, <2>1 DEF Reserve, Integrate
<1>2. ASSUME NEW i \in Items, Bind(i) PROVE Goal
  <2>1. /\ node' = [node EXCEPT ![i].worker = WorkerId[i][node[i].gen]]
        /\ node[i].status = "active" /\ node[i].worker = Nobody
    BY <1>2 DEF Bind
  <2>2. node[i].gen \in Gens
    BY <2>1, Typed DEF ItemInv, Bound
  <2>. QED  BY <2>1, <2>2
<1>3. ASSUME NEW i \in Items, Replace(i) PROVE Goal
  <2>1. node' = [node EXCEPT ![i] = Vacated(node[i])] /\ node[i].status = "active"
    BY <1>3 DEF Replace
  <2>2. Vacated(node[i]).gen = node[i].gen + 1 /\ Vacated(node[i]).worker = Nobody
    BY Typed, MovedNode
  <2>. QED  BY <2>1, <2>2
<1>4. ASSUME Cancel PROVE Goal
  <2>1. \/ node'[j] = node[j]
        \/ node'[j] = Fenced(node[j]) /\ node[j].status \in {"pending", "active"}
    BY <1>4 DEF Cancel
  <2>2. Fenced(node[j]).gen = node[j].gen + 1 /\ Fenced(node[j]).worker = node[j].worker
    BY Typed, MovedNode
  <2>. QED  BY <2>1, <2>2
<1>5. ASSUME UNCHANGED node PROVE Goal
  BY <1>5
<1>. HIDE DEF Goal
<1>6. ASSUME CallStep \/ EndCall \/ UNCHANGED vars PROVE Goal
  BY <1>5, <1>6
  DEF CallStep, PrepareCheck, ExecuteCheck, RecordCheck, Record, Advance, EndCall, vars
<1>7. ASSUME NEW i \in Items, NEW c \in Candidates, SetCandidate(i, c) PROVE Goal
  BY <1>5, <1>7 DEF SetCandidate
<1>8. ASSUME NEW i \in Items, NEW e \in execs[i],
             Recover(i, e) \/ RecordRecovered(i, e) \/ RetryCheck(i, e)
      PROVE  Goal
  BY <1>5, <1>8 DEF Recover, RecordRecovered, Record, RetryCheck
<1>9. ASSUME NEW i \in Items, NEW f \in findings[i], DispositionFinding(i, f) PROVE Goal
  BY <1>5, <1>9 DEF DispositionFinding
<1>10. ASSUME NEW i \in Items, StartChecks(i) \/ GitOpen(i) \/ GitClose(i) PROVE Goal
  BY <1>5, <1>10 DEF StartChecks, GitOpen, GitClose
<1>11. Goal
  BY <1>1, <1>2, <1>3, <1>4, <1>6, <1>7, <1>8, <1>9, <1>10 DEF Next
<1>. QED  BY <1>11 DEF Goal

LEMMA FewerInherit ==
  ASSUME NEW j, execs'[j] \subseteq execs[j]
  PROVE  Inherits(j)
BY DEF Inherits

LEMMA WithoutInherits ==
  ASSUME LifeInv, NEW j \in Items, NEW from \in Nat, execs'[j] = Without(j, from)
  PROVE  Inherits(j)
<1>1. \A x \in Without(j, from) :
        \/ x \in execs[j]
        \/ /\ ~ x.recorded
           /\ \E e \in execs[j] : e.stage = x.stage /\ e.gen = x.gen /\ e.job = x.job
  BY WithoutExecutions DEF LifeInv
<1>. QED  BY <1>1 DEF Inherits

\* A context that is no worker's is known to everybody.
LEMMA OwnIsDeployed == Deployed(Own) /\ Pending.context = Own /\ Unavailable.context = Own
<1>1. Deployed(Own)
  BY LifecycleAssumption DEF Deployed
<1>. QED  BY <1>1 DEF Pending, Unavailable, Result

LEMMA GivenJobInherits ==
  ASSUME LifeInv, NEW i \in Items, NEW e \in execs[i], NEW r, e.job = Pending,
         Deployed(r.context), NEW j \in Items,
         execs' = [execs EXCEPT ![i] = (@ \ {e}) \cup {[e EXCEPT !.job = r]}]
  PROVE  Inherits(j)
<1>. DEFINE x == [e EXCEPT !.job = r]
<1>1. e \in Execution /\ ~ e.recorded
  BY Typed DEF ItemInv, Fit
<1>2. x.gen = e.gen /\ x.stage = e.stage /\ ~ x.recorded /\ x.job = r
  BY <1>1 DEF Execution
<1>3. execs' = [execs EXCEPT ![i] = (execs[i] \ {e}) \cup {x}]
  OBVIOUS
<1>. HIDE DEF x
<1>4. CASE i # j
  BY <1>3, <1>4, FewerInherit DEF LifeInv, TypeOK
<1>5. CASE i = j
  <2>1. execs'[j] = (execs[j] \ {e}) \cup {x}
    BY <1>3, <1>5 DEF LifeInv, TypeOK
  <2>. QED  BY <1>2, <1>5, <2>1 DEF Inherits
<1>. QED  BY <1>4, <1>5

LEMMA StepsInherit ==
  ASSUME LifeInv, [Next]_vars
  PROVE  \/ \A j \in Items : Inherits(j)
         \/ PrepareCheck
         \/ \E i \in Items : \E e \in execs[i] : Record(i, e)
<1>. DEFINE Goal == \A j \in Items : Inherits(j)
            Recorded == \E i \in Items : \E e \in execs[i] : Record(i, e)
<1>. USE DEF LifeInv, TypeOK
<1>1. ASSUME UNCHANGED execs PROVE Goal
  BY <1>1, FewerInherit
<1>2. ASSUME NEW i \in Items, NEW n \in Nat, execs' = [execs EXCEPT ![i] = Without(i, n)]
      PROVE  Goal
  <2>1. \A j \in Items : execs'[j] = IF j = i THEN Without(i, n) ELSE execs[j]
    BY <1>2
  <2>. QED  BY <2>1, FewerInherit, WithoutInherits
<1>3. ASSUME NEW i \in Items, Replace(i) PROVE Goal
  BY <1>2, <1>3 DEF Replace
<1>4. ASSUME NEW i \in Items, NEW c \in Candidates, SetCandidate(i, c) PROVE Goal
  <2>1. UNCHANGED execs \/ execs' = [execs EXCEPT ![i] = Without(i, 1)]
    BY <1>4 DEF SetCandidate
  <2>. QED  BY <1>1, <1>2, <2>1
<1>5. ASSUME NEW i \in Items, NEW e \in execs[i], RetryCheck(i, e) PROVE Goal
  <2>1. e.status = "observed"
    BY <1>5 DEF RetryCheck, Counts
  <2>2. Target(e) \in 1..Final /\ life[i].stage \in 1..Final
    BY <2>1, RepairForFits, Typed DEF LifeType
  <2>3. BackTo(i, e) \in Nat
    BY <2>2 DEF BackTo, Final
  <2>4. UNCHANGED execs \/ execs' = [execs EXCEPT ![i] = Without(i, BackTo(i, e))]
    BY <1>5 DEF RetryCheck
  <2>. QED  BY <1>1, <1>2, <2>3, <2>4
<1>6. ASSUME Cancel PROVE Goal
  <2>1. \A j \in Items : execs'[j] = execs[j] \/ execs'[j] = Without(j, 1)
    BY <1>6 DEF Cancel
  <2>. QED  BY <2>1, FewerInherit, WithoutInherits
<1>7. ASSUME NEW i \in Items, NEW e \in execs[i], Recover(i, e) PROVE Goal
  BY <1>7, GivenJobInherits, OwnIsDeployed DEF Recover
<1>8. ASSUME ExecuteCheck PROVE Goal
  <2>1. PICK e \in execs[call.item] :
          \/ UNCHANGED execs
          \/ /\ e.job = Pending
             /\ \E r : /\ r = Unavailable \/ Deployed(r.context)
                       /\ execs' = [execs EXCEPT ![call.item] =
                                      (@ \ {e}) \cup {[e EXCEPT !.job = r]}]
    BY <1>8 DEF ExecuteCheck
  <2>2. PICK i \in Items : i = call.item
    BY <1>8, TypedCall DEF ExecuteCheck, InCall
  <2>3. CASE UNCHANGED execs
    BY <1>1, <2>3
  <2>4. ASSUME e.job = Pending,
               NEW r, r = Unavailable \/ Deployed(r.context),
               execs' = [execs EXCEPT ![i] = (@ \ {e}) \cup {[e EXCEPT !.job = r]}]
        PROVE  Goal
    <3>1. Deployed(r.context)
      BY <2>4, OwnIsDeployed
    <3>2. e \in execs[i]
      BY <2>2
    <3>. QED  BY <2>4, <3>1, <3>2, GivenJobInherits
  <2>. QED  BY <2>1, <2>2, <2>3, <2>4
<1>9. ASSUME RecordCheck PROVE Goal \/ Recorded
  <2>1. PICK i \in Items : i = call.item
    BY <1>9, TypedCall DEF RecordCheck, InCall
  <2>2. UNCHANGED execs \/ Recorded
    BY <1>9, <2>1 DEF RecordCheck
  <2>. QED  BY <1>1, <2>2
<1>10. ASSUME NEW i \in Items, NEW e \in execs[i], RecordRecovered(i, e) PROVE Recorded
  BY <1>10 DEF RecordRecovered
<1>11. ASSUME Advance \/ EndCall \/ UNCHANGED vars PROVE Goal
  BY <1>1, <1>11 DEF Advance, EndCall, vars
<1>12. ASSUME NEW i \in Items, NEW f \in findings[i], DispositionFinding(i, f) PROVE Goal
  BY <1>1, <1>12 DEF DispositionFinding
<1>13. ASSUME NEW i \in Items,
              Reserve(i) \/ Bind(i) \/ StartChecks(i) \/ GitOpen(i) \/ GitClose(i) \/ Integrate(i)
       PROVE  Goal
  BY <1>1, <1>13 DEF Reserve, Bind, StartChecks, GitOpen, GitClose, Integrate
<1>. HIDE DEF Goal, Recorded
<1>14. Goal \/ Recorded \/ PrepareCheck
  BY <1>3, <1>4, <1>5, <1>6, <1>7, <1>8, <1>9, <1>10, <1>11, <1>12, <1>13 DEF Next, CallStep
<1>. QED  BY <1>14 DEF Goal, Recorded

\* A new execution is for the worker that is bound, whose context nobody has been given.
LEMMA PreparedApart ==
  ASSUME LifeInv, IndependentInv, PrepareCheck
  PROVE  IndependentInv'
<1>1. call # Idle /\ SameAttempt /\ UNCHANGED node
      /\ node[call.item].status = "active" /\ node[call.item].worker # Nobody
  BY DEF PrepareCheck, InCall
<1>2. PICK i \in Items : i = call.item
  BY <1>1, TypedCall
<1>3. PICK e : /\ execs' = [execs EXCEPT ![i] = execs[i] \cup {e}]
               /\ \/ e \in execs[i]
                  \/ e.gen = call.gen /\ e.job = Pending /\ ~ e.recorded
  <2>. DEFINE l == life[call.item]
              new(k) == [check |-> k, stage |-> l.stage, round |-> l.round, gen |-> call.gen,
                         candidate |-> l.candidate, status |-> "intent", job |-> Pending,
                         recorded |-> FALSE, rejected |-> FALSE]
              there(k) == {e \in execs[call.item] :
                             e.stage = l.stage /\ e.check = k
                               /\ e.status # "quarantined" /\ Current(call.item, e)}
  <2>1. PICK k \in call.left : \E e \in IF there(k) = {} THEN {new(k)} ELSE there(k) :
          execs' = [execs EXCEPT ![call.item] = @ \cup {e}]
    BY DEF PrepareCheck
  <2>2. PICK e \in IF there(k) = {} THEN {new(k)} ELSE there(k) :
          execs' = [execs EXCEPT ![call.item] = @ \cup {e}]
    BY <2>1
  <2>3. \/ e \in execs[i]
        \/ e.gen = call.gen /\ e.job = Pending /\ ~ e.recorded
    BY <1>2, <2>2
  <2>4. execs' = [execs EXCEPT ![i] = execs[i] \cup {e}]
    BY <1>2, <2>2
  <2>. QED  BY <2>3, <2>4
<1>4. \A j \in Items : \A x \in execs'[j] : x \in execs[j] \/ (j = i /\ x = e)
  BY <1>3 DEF LifeInv, TypeOK
<1>5. WorkerId[i][call.gen] = node[i].worker
  BY <1>1, <1>2, Typed DEF SameAttempt, ItemInv, Bound
<1>6. Known'
  <2>1. ASSUME NEW j \in Items, NEW x \in execs'[j]
        PROVE  Deployed(x.job.context)'
    <3>1. Deployed(x.job.context)
      BY <1>3, <1>4, <2>1, OwnIsDeployed DEF IndependentInv, Known
    <3>. QED  BY <1>1, <3>1 DEF Deployed
  <2>. QED  BY <2>1 DEF Known
<1>7. ASSUME NEW k \in Items, NEW y \in execs'[k], Accepted(y), y.stage \in Independent,
             NEW j \in Items
      PROVE  /\ node'[j].worker # y.job.context
             /\ \A x \in execs'[j] :
                  /\ WorkerId[j][x.gen] # y.job.context
                  /\ (k # j \/ x # y) /\ Accepted(x) => x.job.context # y.job.context
  <2>1. y \in execs[k]
    BY <1>3, <1>4, <1>7 DEF Accepted
  <2>2. Apart(k, y)
    BY <1>7, <2>1 DEF IndependentInv, IndependentContexts, Apart
  <2>3. ASSUME NEW x \in execs'[j]
        PROVE  /\ WorkerId[j][x.gen] # y.job.context
               /\ (k # j \/ x # y) /\ Accepted(x) => x.job.context # y.job.context
    <3>1. CASE x \in execs[j]
      BY <2>2, <3>1 DEF Apart
    <3>2. CASE j = i /\ x = e /\ e \notin execs[i]
      BY <1>3, <1>5, <2>2, <3>2 DEF Apart, Accepted
    <3>. QED  BY <1>4, <2>3, <3>1, <3>2
  <2>. QED  BY <1>1, <2>2, <2>3 DEF Apart
<1>8. IndependentContexts'
  BY <1>7 DEF IndependentContexts, Accepted
<1>. QED  BY <1>6, <1>8 DEF IndependentInv

\* A result that counts was made in a context nothing else of the run has used.
LEMMA RecordedApart ==
  ASSUME LifeInv, IndependentInv, NEW i \in Items, NEW e \in execs[i], Record(i, e)
  PROVE  IndependentInv'
<1>. DEFINE seen == [e EXCEPT !.recorded = TRUE, !.rejected = ContextReused(i, e)]
            x == [seen EXCEPT !.status = "observed"]
<1>1. /\ ~ e.recorded /\ UNCHANGED node
      /\ \/ execs' = [execs EXCEPT ![i] = @ \ {e}]
         \/ execs' = [execs EXCEPT ![i] = (execs[i] \ {e}) \cup {x}]
  BY DEF Record
<1>2. /\ x.gen = e.gen /\ x.stage = e.stage /\ x.job = e.job
      /\ x.rejected = ContextReused(i, e)
  <2>1. e \in Execution
    BY Typed
  <2>. QED  BY <2>1 DEF Execution
<1>. HIDE DEF x
<1>3. \A j \in Items : \A y \in execs'[j] :
         (y \in execs[j] /\ (i # j \/ y # e)) \/ (j = i /\ y = x)
  BY <1>1 DEF LifeInv, TypeOK
<1>4. Known'
  <2>1. ASSUME NEW j \in Items, NEW y \in execs'[j]
        PROVE  Deployed(y.job.context)'
    <3>1. Deployed(y.job.context)
      BY <1>2, <1>3, <2>1 DEF IndependentInv, Known
    <3>. QED  BY <1>1, <3>1 DEF Deployed
  <2>. QED  BY <2>1 DEF Known
<1>5. ASSUME NEW j \in Items, NEW y \in execs[j], i # j \/ y # e
      PROVE  Trace(j, y) \in Others(i, e)
  BY <1>5 DEF Others
<1>6. \A j \in Items : \A y \in execs[j] :
        /\ Trace(j, y).worker = WorkerId[j][y.gen]
        /\ Accepted(y) => Trace(j, y).context = y.job.context
        /\ Trace(j, y).independent <=> y.stage \in Independent
  BY DEF Trace, Accepted
<1>7. ASSUME ~ ContextReused(i, e), e.job.context # Own, NEW j \in Items
      PROVE  /\ e.stage \in Independent => node[j].worker # e.job.context
             /\ \A y \in execs[j] :
                  /\ e.stage \in Independent => WorkerId[j][y.gen] # e.job.context
                  /\ (i # j \/ y # e) /\ Accepted(y)
                       /\ (e.stage \in Independent \/ y.stage \in Independent)
                         => y.job.context # e.job.context
  <2>1. e.stage \in Independent => node[j].worker # e.job.context
    BY <1>7 DEF ContextReused
  <2>2. ASSUME NEW y \in execs[j], e.stage \in Independent
        PROVE  WorkerId[j][y.gen] # e.job.context
    <3>1. Trace(j, y) \in Others(i, e) \cup {Trace(i, e)}
      BY <1>5
    <3>2. Trace(j, y).worker # e.job.context
      BY <1>7, <2>2, <3>1 DEF ContextReused
    <3>. QED  BY <1>6, <3>2
  <2>3. ASSUME NEW y \in execs[j], i # j \/ y # e, Accepted(y),
               e.stage \in Independent \/ y.stage \in Independent
        PROVE  y.job.context # e.job.context
    <3>1. Trace(j, y) \in Others(i, e)
      BY <1>5, <2>3
    <3>2. ~ (/\ Trace(j, y).context = e.job.context
             /\ Trace(j, y).independent \/ e.stage \in Independent)
      BY <1>7, <3>1 DEF ContextReused
    <3>. QED  BY <1>6, <2>3, <3>2
  <2>. QED  BY <2>1, <2>2, <2>3
<1>8. Accepted(x) => ~ ContextReused(i, e) /\ e.job.context # Own
  BY <1>2 DEF Accepted
<1>9. ASSUME NEW k \in Items, NEW y \in execs'[k], Accepted(y), y.stage \in Independent,
             NEW j \in Items
      PROVE  /\ node'[j].worker # y.job.context
             /\ \A z \in execs'[j] :
                  /\ WorkerId[j][z.gen] # y.job.context
                  /\ (k # j \/ z # y) /\ Accepted(z) => z.job.context # y.job.context
  <2>1. CASE y \in execs[k] /\ (i # k \/ y # e)
    <3>1. Apart(k, y)
      BY <1>9, <2>1 DEF IndependentInv, IndependentContexts, Apart
    <3>2. ASSUME NEW z \in execs'[j]
          PROVE  /\ WorkerId[j][z.gen] # y.job.context
                 /\ (k # j \/ z # y) /\ Accepted(z) => z.job.context # y.job.context
      <4>1. CASE z \in execs[j]
        BY <3>1, <4>1 DEF Apart
      <4>2. CASE j = i /\ z = x
        <5>1. WorkerId[j][z.gen] # y.job.context
          BY <1>2, <3>1, <4>2 DEF Apart
        <5>2. Accepted(x) => e.job.context # y.job.context
          BY <1>7, <1>8, <1>9, <2>1
        <5>. QED  BY <1>2, <4>2, <5>1, <5>2
      <4>. QED  BY <1>3, <3>2, <4>1, <4>2
    <3>. QED  BY <1>1, <3>1, <3>2 DEF Apart
  <2>2. CASE k = i /\ y = x
    <3>1. ~ ContextReused(i, e) /\ e.job.context # Own /\ e.stage \in Independent
      BY <1>2, <1>8, <1>9, <2>2
    <3>2. /\ node[j].worker # e.job.context
          /\ \A z \in execs[j] :
               /\ WorkerId[j][z.gen] # e.job.context
               /\ (i # j \/ z # e) /\ Accepted(z) => z.job.context # e.job.context
      BY <1>7, <3>1
    <3>3. ASSUME NEW z \in execs'[j]
          PROVE  /\ WorkerId[j][z.gen] # y.job.context
                 /\ (k # j \/ z # y) /\ Accepted(z) => z.job.context # y.job.context
      <4>1. CASE z \in execs[j] /\ (i # j \/ z # e)
        BY <1>2, <2>2, <3>2, <4>1
      <4>2. CASE j = i /\ z = x
        <5>1. WorkerId[i][e.gen] # e.job.context
          BY <3>2, <4>2
        <5>. QED  BY <1>2, <2>2, <4>2, <5>1
      <4>. QED  BY <1>3, <3>3, <4>1, <4>2
    <3>. QED  BY <1>1, <1>2, <2>2, <3>2, <3>3
  <2>. QED  BY <1>3, <1>9, <2>1, <2>2
<1>10. IndependentContexts'
  BY <1>9 DEF IndependentContexts, Accepted
<1>. QED  BY <1>4, <1>10 DEF IndependentInv

\* An accepted independent result is made in a context of its own, which is no worker's that is
\* bound or has had work checked, in any item of the run.
THEOREM AcceptedContextsAreTheirOwn == Spec => []IndependentContexts
<1>1. Init => IndependentInv
  BY DEF Init, IndependentInv, Known, IndependentContexts
<1>2. LifeInv /\ LifeInv' /\ IndependentInv /\ [Next]_vars => IndependentInv'
  <2>. SUFFICES ASSUME LifeInv, LifeInv', IndependentInv, [Next]_vars
                PROVE  IndependentInv'
    OBVIOUS
  <2>1. CASE \A j \in Items : Inherits(j)
    BY <2>1, NodesMoveSo, InheritedApart DEF LifeInv
  <2>2. CASE PrepareCheck
    BY <2>2, PreparedApart
  <2>3. CASE \E i \in Items : \E e \in execs[i] : Record(i, e)
    BY <2>3, RecordedApart
  <2>. QED  BY <2>1, <2>2, <2>3, StepsInherit
<1>3. IndependentInv => IndependentContexts
  BY DEF IndependentInv
<1>. QED  BY <1>1, <1>2, <1>3, LifeInvariant, PTL DEF Spec

\* What counts was made for the candidate, worker and generation under way; while an item is
\* being landed, the evidence it lands on stays in force; and contexts are independent.
THEOREM EvidenceStaysInForce == Spec => []EvidenceInForce
BY LifeInvariant, AuditFollows, AcceptedContextsAreTheirOwn, PTL DEF EvidenceInForce

-----------------------------------------------------------------------------
(* Items live as DagRun assumes.                                           *)

Cells == [cand : BOOLEAN, ready : BOOLEAN, stop : BOOLEAN, failed : BOOLEAN,
          open : SUBSET {"stale", "current"}, findings : SUBSET {"blocking"}]

FailureCounts(i) == \E e \in execs[i] : e.status = "observed" /\ ~ Passes(e)
StaleAwaited(i) == \E e \in execs[i] : ~ e.recorded /\ e.status = "quarantined"
CurrentAwaited(i) == \E e \in execs[i] : ~ e.recorded /\ e.status # "quarantined"

\* The abstract item, field by field.
View(i) ==
  /\ Coarse[i] \in Cells
  /\ Coarse[i].cand = life[i].candidateReady
  /\ Coarse[i].ready = life[i].ready
  /\ Coarse[i].stop = life[i].stop
  /\ Coarse[i].failed <=> FailureCounts(i)
  /\ "stale" \in Coarse[i].open <=> StaleAwaited(i)
  /\ "current" \in Coarse[i].open <=> CurrentAwaited(i)
  /\ "blocking" \in Coarse[i].findings <=> findings[i] # {}

Views == \A i \in Items : View(i)

LEMMA Viewed == LifeInv => Views
<1>. SUFFICES ASSUME LifeInv, NEW i \in Items PROVE View(i)
  BY DEF Views
<1>. DEFINE failed == \E e \in execs[i] : Counts(i, e) /\ ~ Passes(e)
            open == {IF e.status = "quarantined" THEN "stale" ELSE "current" :
                       e \in {x \in execs[i] : ~ x.recorded}}
            found == IF findings[i] = {} THEN {} ELSE {"blocking"}
<1>1. Coarse[i] = [cand |-> life[i].candidateReady, ready |-> life[i].ready,
                   stop |-> life[i].stop, failed |-> failed, open |-> open, findings |-> found]
  BY DEF Coarse
<1>2. failed \in BOOLEAN /\ (failed <=> FailureCounts(i))
  BY Typed DEF Counts, FailureCounts, ItemInv, Live
<1>3. /\ open \in SUBSET {"stale", "current"}
      /\ "stale" \in open <=> StaleAwaited(i)
      /\ "current" \in open <=> CurrentAwaited(i)
  BY DEF StaleAwaited, CurrentAwaited
<1>4. found \in SUBSET {"blocking"} /\ ("blocking" \in found <=> findings[i] # {})
  OBVIOUS
<1>5. /\ life[i].candidateReady \in BOOLEAN /\ life[i].ready \in BOOLEAN
      /\ life[i].stop \in BOOLEAN
  BY Typed DEF LifeType
<1>. HIDE DEF failed, open, found
<1>6. Coarse[i] \in Cells
  BY <1>1, <1>2, <1>3, <1>4, <1>5 DEF Cells
<1>7. /\ Coarse[i].cand = life[i].candidateReady /\ Coarse[i].ready = life[i].ready
      /\ Coarse[i].stop = life[i].stop /\ Coarse[i].failed = failed /\ Coarse[i].open = open
      /\ Coarse[i].findings = found
  BY <1>1
<1>. QED  BY <1>2, <1>3, <1>4, <1>6, <1>7 DEF View

LEMMA ViewedNext == LifeInv' => Views'
BY Viewed, PTL

\* The steps of the abstract item, field by field.
LEMMA ToSame ==
  ASSUME NEW l \in Cells, NEW m \in Cells, m.cand = l.cand, m.ready = l.ready, m.stop = l.stop,
         m.failed = l.failed, m.open = l.open, m.findings = l.findings
  PROVE  m \in Abstract!Successors(l)
<1>1. m = l
  BY DEF Cells
<1>. QED  BY <1>1 DEF Abstract!Successors

LEMMA ToDiscarded ==
  ASSUME NEW l \in Cells, NEW m \in Cells, m.cand = l.cand, ~ m.ready, m.stop = l.stop,
         ~ m.failed, m.open = IF l.open = {} THEN {} ELSE {"stale"}, m.findings = l.findings
  PROVE  m \in Abstract!Successors(l)
<1>1. m = Abstract!Discarded(l)
  BY DEF Cells, Abstract!Discarded
<1>. QED  BY <1>1 DEF Abstract!Successors

LEMMA ToWithdrawn ==
  ASSUME NEW l \in Cells, NEW m \in Cells, ~ m.cand, ~ m.ready, m.stop = l.stop,
         ~ m.failed, l.open = {}, m.open = {}, m.findings = l.findings
  PROVE  m \in Abstract!Successors(l)
<1>1. m = [Abstract!Discarded(l) EXCEPT !.cand = FALSE]
  BY DEF Cells, Abstract!Discarded
<1>2. m \in Abstract!Withdrawn(l)
  BY <1>1 DEF Abstract!Withdrawn
<1>. QED  BY <1>2 DEF Abstract!Successors

LEMMA ToDelivered ==
  ASSUME NEW l \in Cells, NEW m \in Cells, m.cand, ~ m.ready, m.stop = l.stop, ~ l.stop,
         ~ m.failed, m.open = IF l.open = {} THEN {} ELSE {"stale"}, m.findings = l.findings
  PROVE  m \in Abstract!Successors(l)
<1>1. m = [Abstract!Discarded(l) EXCEPT !.cand = TRUE]
  BY DEF Cells, Abstract!Discarded
<1>2. m \in Abstract!Delivered(l)
  BY <1>1 DEF Abstract!Delivered
<1>. QED  BY <1>2 DEF Abstract!Successors

LEMMA ToStopped ==
  ASSUME NEW l \in Cells, NEW m \in Cells, m.cand = l.cand, ~ m.ready, m.stop,
         m.failed = l.failed, m.open = l.open, m.findings = l.findings
  PROVE  m \in Abstract!Successors(l)
<1>1. m = Abstract!Stopped(l)
  BY DEF Cells, Abstract!Stopped
<1>. QED  BY <1>1 DEF Abstract!Successors

LEMMA ToPrepared ==
  ASSUME NEW l \in Cells, NEW m \in Cells, m.cand = l.cand, m.ready = l.ready, m.stop = l.stop,
         l.cand, ~ l.stop, ~ l.ready,
         m.failed = l.failed, m.open = l.open \cup {"current"}, m.findings = l.findings
  PROVE  m \in Abstract!Successors(l)
<1>1. m = [l EXCEPT !.open = l.open \cup {"current"}]
  BY DEF Cells
<1>2. m \in Abstract!Prepared(l)
  BY <1>1 DEF Abstract!Prepared
<1>. QED  BY <1>2 DEF Abstract!Successors

LEMMA ToArrived ==
  ASSUME NEW l \in Cells, NEW m \in Cells, m.cand = l.cand, m.ready = l.ready, m.stop = l.stop,
         NEW kind \in l.open, m.open \in {l.open, l.open \ {kind}},
         m.failed = l.failed, m.findings = l.findings
  PROVE  m \in Abstract!Successors(l)
<1>1. m = [l EXCEPT !.open = l.open \ {kind}] \/ m = l
  BY DEF Cells
<1>2. m \in Abstract!Arrived(l)
  BY <1>1 DEF Abstract!Arrived
<1>. QED  BY <1>2 DEF Abstract!Successors, Abstract!Observed

LEMMA ToFailing ==
  ASSUME NEW l \in Cells, NEW m \in Cells, m.cand = l.cand, m.ready = l.ready, m.stop = l.stop,
         "current" \in l.open, m.open \in {l.open, l.open \ {"current"}}, m.failed,
         NEW found \in SUBSET {"blocking"}, m.findings = l.findings \cup found
  PROVE  m \in Abstract!Successors(l)
<1>1. m = [l EXCEPT !.open = m.open, !.failed = TRUE, !.findings = l.findings \cup found]
  BY DEF Cells
<1>2. m = Abstract!Failing(l, m.open, found)
  BY <1>1 DEF Abstract!Failing
<1>3. m \in Abstract!Observed(l)
  BY <1>2 DEF Abstract!Observed
<1>. QED  BY <1>3 DEF Abstract!Successors

LEMMA ToRepaired ==
  ASSUME NEW l \in Cells, NEW m \in Cells, m.cand = l.cand, ~ m.ready, m.stop = l.stop,
         l.failed, ~ m.failed, l.open = {}, m.open = {}, m.findings = l.findings
  PROVE  m \in Abstract!Successors(l)
<1>1. m = [l EXCEPT !.failed = FALSE, !.ready = FALSE]
  BY DEF Cells
<1>2. m \in Abstract!Repaired(l)
  BY <1>1 DEF Abstract!Repaired
<1>. QED  BY <1>2 DEF Abstract!Successors

LEMMA ToJudged ==
  ASSUME NEW l \in Cells, NEW m \in Cells, m.cand = l.cand, m.ready = l.ready, m.stop = l.stop,
         m.failed = l.failed, m.open = l.open, "blocking" \in l.findings,
         m.findings \in {l.findings, {}}
  PROVE  m \in Abstract!Successors(l)
<1>1. CASE m.findings = l.findings
  BY <1>1, ToSame
<1>2. CASE m.findings = {}
  <2>1. l.findings \ {"blocking"} = {}
    BY DEF Cells
  <2>2. m = [l EXCEPT !.findings = l.findings \ {"blocking"}]
    BY <1>2, <2>1 DEF Cells
  <2>3. m \in Abstract!Judged(l)
    BY <2>2 DEF Abstract!Judged
  <2>. QED  BY <2>3 DEF Abstract!Successors
<1>. QED  BY <1>1, <1>2

LEMMA ToAccepted ==
  ASSUME NEW l \in Cells, NEW m \in Cells, m.cand = l.cand, m.ready, m.stop = l.stop,
         l.cand, ~ l.stop, ~ l.failed, l.findings = {}, l.open = {},
         m.failed = l.failed, m.open = l.open, m.findings = l.findings
  PROVE  m \in Abstract!Successors(l)
<1>1. m = [l EXCEPT !.ready = TRUE]
  BY DEF Cells
<1>2. m \in Abstract!Accepted(l)
  BY <1>1 DEF Abstract!Accepted
<1>. QED  BY <1>2 DEF Abstract!Successors

-----------------------------------------------------------------------------
(* Each step of the service is a step of the abstract items.               *)

Lives(i) == Coarse'[i] \in Abstract!Successors(Coarse[i])

LEMMA Pictured ==
  ASSUME LifeInv, LifeInv', NEW i \in Items
  PROVE  /\ View(i) /\ View(i)' /\ Coarse[i] \in Cells /\ Coarse'[i] \in Cells
         /\ Coarse'[i].cand = life'[i].candidateReady /\ Coarse'[i].ready = life'[i].ready
         /\ Coarse'[i].stop = life'[i].stop
BY Viewed, ViewedNext DEF Views, View

\* Sets of kinds are equal when they agree on the kinds there are.
LEMMA SameKinds ==
  ASSUME NEW l \in Cells, NEW m \in Cells
  PROVE  /\ ("stale" \in m.open <=> "stale" \in l.open)
              /\ ("current" \in m.open <=> "current" \in l.open) => m.open = l.open
         /\ ("blocking" \in m.findings <=> "blocking" \in l.findings) => m.findings = l.findings
BY DEF Cells

\* An item of which a step changes nothing that shows.
LEMMA AsItWas ==
  ASSUME LifeInv, LifeInv', NEW i \in Items,
         life'[i].candidateReady = life[i].candidateReady, life'[i].ready = life[i].ready,
         life'[i].stop = life[i].stop, findings'[i] = findings[i],
         FailureCounts(i)' <=> FailureCounts(i), StaleAwaited(i)' <=> StaleAwaited(i),
         CurrentAwaited(i)' <=> CurrentAwaited(i)
  PROVE  Lives(i)
<1>. DEFINE l == Coarse[i]
            m == Coarse'[i]
<1>1. /\ m.cand = l.cand /\ m.ready = l.ready /\ m.stop = l.stop
      /\ "stale" \in m.open <=> "stale" \in l.open
      /\ "current" \in m.open <=> "current" \in l.open
      /\ "blocking" \in m.findings <=> "blocking" \in l.findings
      /\ m.failed <=> l.failed
  BY Pictured DEF View
<1>2. l \in Cells /\ m \in Cells
  BY Pictured
<1>. HIDE DEF l, m
<1>3. m.open = l.open /\ m.findings = l.findings
  BY <1>1, <1>2, SameKinds
<1>4. m.failed = l.failed
  BY <1>1, <1>2 DEF Cells
<1>5. m \in Abstract!Successors(l)
  BY <1>1, <1>2, <1>3, <1>4, ToSame
<1>. QED  BY <1>5 DEF Lives, l, m

LEMMA Unseen ==
  ASSUME LifeInv, LifeInv', NEW i \in Items,
         life'[i].candidateReady = life[i].candidateReady, life'[i].ready = life[i].ready,
         life'[i].stop = life[i].stop, execs'[i] = execs[i], findings'[i] = findings[i]
  PROVE  Lives(i)
<1>1. /\ FailureCounts(i)' <=> FailureCounts(i)
      /\ StaleAwaited(i)' <=> StaleAwaited(i)
      /\ CurrentAwaited(i)' <=> CurrentAwaited(i)
  BY DEF FailureCounts, StaleAwaited, CurrentAwaited, Passes
<1>. QED  BY <1>1, AsItWas

\* An item whose evidence is discarded.
LEMMA Dropped ==
  ASSUME LifeInv, LifeInv', NEW i \in Items, execs'[i] = Without(i, 1), ~ life'[i].ready,
         findings'[i] = findings[i], life'[i].stop = life[i].stop,
         \/ life'[i].candidateReady = life[i].candidateReady
         \/ ~ life'[i].candidateReady /\ Settled(i)
         \/ life'[i].candidateReady /\ ~ life[i].stop
  PROVE  Lives(i)
<1>. DEFINE l == Coarse[i]
            m == Coarse'[i]
<1>1. /\ \A e \in execs'[i] : e.status = "quarantined" /\ ~ e.recorded
      /\ execs'[i] = {} <=> Settled(i)
  <2>1. \A e \in execs'[i] : e.status = "quarantined" /\ ~ e.recorded
    BY AllQuarantined
  <2>2. ASSUME NEW e \in execs'[i]
        PROVE  \E y \in execs[i] : ~ y.recorded
    <3>1. \/ e \in execs[i]
          \/ \E y \in execs[i] : ~ y.recorded
      BY <2>2, WithoutExecutions DEF LifeInv
    <3>. QED  BY <2>1, <2>2, <3>1
  <2>3. ASSUME NEW y \in execs[i], ~ y.recorded
        PROVE  execs'[i] # {}
    <3>1. y.stage >= 1
      BY Typed DEF Execution, Replay
    <3>2. [y EXCEPT !.status = "quarantined"] \in Without(i, 1)
      BY <2>3, <3>1 DEF Without
    <3>. QED  BY <3>2
  <2>. QED  BY <2>1, <2>2, <2>3 DEF Settled
<1>2. /\ m.cand = life'[i].candidateReady /\ ~ m.ready /\ m.stop = l.stop
      /\ ~ m.failed
      /\ "stale" \in m.open <=> ~ Settled(i)
      /\ "current" \notin m.open
      /\ "blocking" \in m.findings <=> "blocking" \in l.findings
  BY <1>1, Pictured DEF View, FailureCounts, StaleAwaited, CurrentAwaited
<1>3. /\ l.open = {} <=> Settled(i)
      /\ l.cand = life[i].candidateReady /\ l.stop = life[i].stop
  BY Pictured DEF View, StaleAwaited, CurrentAwaited, Settled, Cells
<1>4. l \in Cells /\ m \in Cells
  BY Pictured
<1>. HIDE DEF l, m
<1>5. m.findings = l.findings
  BY <1>2, <1>4, SameKinds
<1>6. m.open = IF l.open = {} THEN {} ELSE {"stale"}
  BY <1>2, <1>3, <1>4 DEF Cells
<1>7. m \in Abstract!Successors(l)
  <2>1. CASE life'[i].candidateReady = life[i].candidateReady
    BY <1>2, <1>3, <1>4, <1>5, <1>6, <2>1, ToDiscarded
  <2>2. CASE ~ life'[i].candidateReady /\ Settled(i)
    BY <1>2, <1>3, <1>4, <1>5, <1>6, <2>2, ToWithdrawn
  <2>3. CASE life'[i].candidateReady /\ ~ life[i].stop
    BY <1>2, <1>3, <1>4, <1>5, <1>6, <2>3, ToDelivered
  <2>. QED  BY <2>1, <2>2, <2>3
<1>. QED  BY <1>7 DEF Lives, l, m

\* A stop: what failed is kept, and so is what is awaited.
LEMMA StoppedLives ==
  ASSUME LifeInv, LifeInv', NEW i \in Items, execs'[i] = execs[i], findings'[i] = findings[i],
         life'[i].candidateReady = life[i].candidateReady, ~ life'[i].ready, life'[i].stop
  PROVE  Lives(i)
<1>. DEFINE l == Coarse[i]
            m == Coarse'[i]
<1>1. /\ m.cand = l.cand /\ ~ m.ready /\ m.stop
      /\ "stale" \in m.open <=> "stale" \in l.open
      /\ "current" \in m.open <=> "current" \in l.open
      /\ "blocking" \in m.findings <=> "blocking" \in l.findings
      /\ m.failed <=> l.failed
  BY Pictured DEF View, FailureCounts, StaleAwaited, CurrentAwaited, Passes
<1>2. l \in Cells /\ m \in Cells
  BY Pictured
<1>. HIDE DEF l, m
<1>3. m.open = l.open /\ m.findings = l.findings
  BY <1>1, <1>2, SameKinds
<1>4. m.failed = l.failed
  BY <1>1, <1>2 DEF Cells
<1>5. m \in Abstract!Successors(l)
  BY <1>1, <1>2, <1>3, <1>4, ToStopped
<1>. QED  BY <1>5 DEF Lives, l, m

\* The first candidate of a generation: nothing counts yet.
LEMMA FirstDelivered ==
  ASSUME LifeInv, LifeInv', NEW i \in Items, execs'[i] = execs[i], findings'[i] = findings[i],
         ~ life[i].candidateReady, life'[i].candidateReady, ~ life'[i].ready,
         ~ life[i].stop, ~ life'[i].stop
  PROVE  Lives(i)
<1>. DEFINE l == Coarse[i]
            m == Coarse'[i]
<1>1. \A e \in execs[i] : e.status = "quarantined"
  BY Typed DEF ItemInv, Frame
<1>2. /\ m.cand /\ ~ m.ready /\ ~ m.stop /\ m.stop = l.stop /\ ~ l.stop /\ ~ m.failed
      /\ "stale" \in m.open <=> "stale" \in l.open
      /\ "current" \notin m.open /\ "current" \notin l.open
      /\ "blocking" \in m.findings <=> "blocking" \in l.findings
  <2>1. m.cand /\ ~ m.ready /\ ~ m.stop /\ ~ l.stop
    BY Pictured DEF View
  <2>2. m.stop = l.stop
    BY <2>1, Pictured DEF Cells
  <2>. QED  BY <1>1, <2>1, <2>2, Pictured DEF View, FailureCounts, StaleAwaited, CurrentAwaited
<1>3. l \in Cells /\ m \in Cells
  BY Pictured
<1>. HIDE DEF l, m
<1>4. m.findings = l.findings
  BY <1>2, <1>3, SameKinds
<1>5. m.open = IF l.open = {} THEN {} ELSE {"stale"}
  BY <1>2, <1>3 DEF Cells
<1>6. m \in Abstract!Successors(l)
  BY <1>2, <1>3, <1>4, <1>5, ToDelivered
<1>. QED  BY <1>6 DEF Lives, l, m

LEMMA PreparedLives ==
  ASSUME LifeInv, LifeInv', NEW i \in Items, NEW x, execs'[i] = execs[i] \cup {x},
         x.status = "intent", ~ x.recorded, life'[i] = life[i], findings'[i] = findings[i],
         life[i].candidateReady, ~ life[i].stop, ~ life[i].ready
  PROVE  Lives(i)
<1>. DEFINE l == Coarse[i]
            m == Coarse'[i]
<1>1. /\ m.cand = l.cand /\ m.ready = l.ready /\ m.stop = l.stop
      /\ l.cand /\ ~ l.stop /\ ~ l.ready
      /\ "stale" \in m.open <=> "stale" \in l.open
      /\ "current" \in m.open
      /\ "blocking" \in m.findings <=> "blocking" \in l.findings
      /\ m.failed <=> l.failed
  BY Pictured DEF View, FailureCounts, StaleAwaited, CurrentAwaited, Passes
<1>2. l \in Cells /\ m \in Cells
  BY Pictured
<1>. HIDE DEF l, m
<1>3. m.findings = l.findings /\ m.open = l.open \cup {"current"}
  BY <1>1, <1>2 DEF Cells
<1>4. m.failed = l.failed
  BY <1>1, <1>2 DEF Cells
<1>5. m \in Abstract!Successors(l)
  BY <1>1, <1>2, <1>3, <1>4, ToPrepared
<1>. QED  BY <1>5 DEF Lives, l, m

LEMMA GivenJobLives ==
  ASSUME LifeInv, LifeInv', NEW i \in Items, NEW e \in execs[i], NEW r, e.job = Pending,
         execs' = [execs EXCEPT ![i] = (@ \ {e}) \cup {[e EXCEPT !.job = r]}],
         life'[i] = life[i], findings'[i] = findings[i]
  PROVE  Lives(i)
<1>. DEFINE x == [e EXCEPT !.job = r]
<1>1. e \in Execution /\ ~ e.recorded /\ e.status # "observed"
  BY Typed DEF ItemInv, Fit
<1>2. x.status = e.status /\ ~ x.recorded
  BY <1>1 DEF Execution
<1>3. execs' = [execs EXCEPT ![i] = (execs[i] \ {e}) \cup {x}]
  OBVIOUS
<1>. HIDE DEF x
<1>4. execs'[i] = (execs[i] \ {e}) \cup {x}
  BY <1>3 DEF LifeInv, TypeOK
<1>5. FailureCounts(i)' <=> FailureCounts(i)
  BY <1>1, <1>2, <1>4 DEF FailureCounts, Passes
<1>6. /\ StaleAwaited(i)' <=> StaleAwaited(i)
      /\ CurrentAwaited(i)' <=> CurrentAwaited(i)
  BY <1>1, <1>2, <1>4 DEF StaleAwaited, CurrentAwaited
<1>. QED  BY <1>5, <1>6, AsItWas

LEMMA RecordLives ==
  ASSUME LifeInv, LifeInv', NEW i \in Items, NEW e \in execs[i], Record(i, e)
  PROVE  Lives(i)
<1>. DEFINE seen == [e EXCEPT !.recorded = TRUE, !.rejected = ContextReused(i, e)]
            x == [seen EXCEPT !.status = "observed"]
            l == Coarse[i]
            m == Coarse'[i]
<1>1. /\ e.job # Pending /\ ~ e.recorded /\ UNCHANGED <<node, life>>
      /\ e \in Execution /\ e.status # "observed"
  BY Typed DEF Record, ItemInv, Fit
<1>2. l \in Cells /\ m \in Cells
  BY Pictured
<1>3. CASE Stale(i, e)
  <2>1. execs'[i] = execs[i] \ {e} /\ findings'[i] = findings[i]
    BY <1>3 DEF Record, LifeInv, TypeOK
  <2>2. e.status = "quarantined"
    BY <1>3, StaleIsQuarantined
  <2>3. /\ m.cand = l.cand /\ m.ready = l.ready /\ m.stop = l.stop
        /\ "blocking" \in m.findings <=> "blocking" \in l.findings
    BY <1>1, <2>1, Pictured DEF View
  <2>4. FailureCounts(i)' <=> FailureCounts(i)
    BY <1>1, <2>1 DEF FailureCounts, Passes
  <2>5. /\ StaleAwaited(i) /\ (CurrentAwaited(i)' <=> CurrentAwaited(i))
    BY <1>1, <2>1, <2>2 DEF StaleAwaited, CurrentAwaited
  <2>6. /\ "stale" \in l.open
        /\ "current" \in m.open <=> "current" \in l.open
        /\ m.failed <=> l.failed
    BY <2>4, <2>5, Pictured DEF View
  <2>. HIDE DEF l, m
  <2>7. m.open \in {l.open, l.open \ {"stale"}} /\ m.findings = l.findings
    BY <1>2, <2>3, <2>6 DEF Cells
  <2>8. m.failed = l.failed
    BY <1>2, <2>6 DEF Cells
  <2>9. m \in Abstract!Successors(l)
    BY <1>2, <2>3, <2>6, <2>7, <2>8, ToArrived
  <2>. QED  BY <2>9 DEF Lives, l, m
<1>4. CASE ~ Stale(i, e)
  <2>1. /\ execs' = [execs EXCEPT ![i] = (execs[i] \ {e}) \cup {x}]
        /\ findings' = [findings EXCEPT ![i] =
             IF e.job.kind = "none" THEN @ ELSE @ \cup {SlotOf(e)}]
    BY <1>4 DEF Record
  <2>2. x.status = "observed" /\ x.recorded /\ x.job = e.job
    BY <1>1 DEF Execution
  <2>. HIDE DEF x
  <2>3. /\ execs'[i] = (execs[i] \ {e}) \cup {x}
        /\ findings'[i] = IF e.job.kind = "none" THEN findings[i]
                          ELSE findings[i] \cup {SlotOf(e)}
    BY <2>1 DEF LifeInv, TypeOK
  <2>4. e.status # "quarantined"
    BY <1>4, StaleIsQuarantined
  <2>5. /\ CurrentAwaited(i) /\ (StaleAwaited(i)' <=> StaleAwaited(i))
    BY <1>1, <2>2, <2>3, <2>4 DEF StaleAwaited, CurrentAwaited
  <2>6. /\ m.cand = l.cand /\ m.ready = l.ready /\ m.stop = l.stop
        /\ "current" \in l.open
        /\ "stale" \in m.open <=> "stale" \in l.open
    BY <1>1, <2>5, Pictured DEF View
  <2>7. m.open \in {l.open, l.open \ {"current"}}
    BY <1>2, <2>6 DEF Cells
  <2>8. CASE Passes(x)
    <3>1. e.job.kind = "none"
      <4>1. e.job \in Results /\ e.job.disposition = "PASS"
        BY <1>1, <2>2, <2>8 DEF Execution, Passes
      <4>. QED  BY <4>1, LifecycleAssumption
    <3>2. FailureCounts(i)' <=> FailureCounts(i)
      BY <1>1, <2>3, <2>8 DEF FailureCounts, Passes
    <3>3. /\ m.failed <=> l.failed
          /\ "blocking" \in m.findings <=> "blocking" \in l.findings
      BY <2>3, <3>1, <3>2, Pictured DEF View
    <3>. HIDE DEF l, m
    <3>4. m.failed = l.failed /\ m.findings = l.findings
      BY <1>2, <3>3 DEF Cells
    <3>5. m \in Abstract!Successors(l)
      BY <1>2, <2>6, <2>7, <3>4, ToArrived
    <3>. QED  BY <3>5 DEF Lives, l, m
  <2>9. CASE ~ Passes(x)
    <3>1. FailureCounts(i)'
      BY <2>2, <2>3, <2>9 DEF FailureCounts, Passes
    <3>2. /\ m.failed
          /\ "blocking" \in m.findings <=> findings'[i] # {}
          /\ "blocking" \in l.findings <=> findings[i] # {}
      BY <3>1, Pictured DEF View
    <3>3. /\ e.job.kind = "none" => findings'[i] = findings[i]
          /\ e.job.kind # "none" => findings'[i] # {}
      BY <2>3
    <3>. HIDE DEF l, m
    <3>4. PICK found \in SUBSET {"blocking"} : m.findings = l.findings \cup found
      <4>1. CASE e.job.kind = "none"
        <5>1. m.findings = l.findings \cup {}
          BY <1>2, <3>2, <3>3, <4>1 DEF Cells
        <5>. QED  BY <5>1
      <4>2. CASE e.job.kind # "none"
        <5>1. m.findings = l.findings \cup {"blocking"}
          BY <1>2, <3>2, <3>3, <4>2 DEF Cells
        <5>. QED  BY <5>1
      <4>. QED  BY <4>1, <4>2
    <3>5. m.failed = TRUE
      BY <1>2, <3>2 DEF Cells
    <3>6. m \in Abstract!Successors(l)
      BY <1>2, <2>6, <2>7, <3>4, <3>5, ToFailing
    <3>. QED  BY <3>6 DEF Lives, l, m
  <2>. QED  BY <2>8, <2>9
<1>. QED  BY <1>3, <1>4

\* A failure that counts belongs to the stage under way or a later one.
LEMMA FailuresAreLate ==
  ASSUME LifeInv, NEW i \in Items, NEW e \in execs[i], e.status = "observed", ~ Passes(e)
  PROVE  e.stage \in 1..Replay /\ ~ (e.stage < life[i].stage)
<1>1. ItemInv(i) /\ e \in Execution /\ life[i].stage \in 1..Final
  BY Typed DEF LifeType
<1>2. e.stage \in 1..Replay /\ e.check \in StageChecks(e.stage)
  BY <1>1 DEF ItemInv, Fit, Execution
<1>3. ASSUME e.stage < life[i].stage
      PROVE  FALSE
  <2>1. e.stage \in 1..life[i].stage - 1
    BY <1>1, <1>2, <1>3 DEF Final, Replay
  <2>2. PICK y \in execs[i] :
          y.stage = e.stage /\ y.check = e.check /\ y.status = "observed" /\ Passes(y)
    BY <1>1, <1>2, <2>1 DEF ItemInv, Evidence, Shown
  <2>3. y = e
    BY <1>1, <2>2 DEF ItemInv, OnePerCheck
  <2>. QED  BY <2>2, <2>3
<1>. QED  BY <1>2, <1>3

LEMMA AdvanceLives ==
  ASSUME LifeInv, LifeInv', Advance, NEW i \in Items, i = call.item
  PROVE  Lives(i)
<1>1. /\ node[i].status = "active" /\ ~ life[i].stop /\ findings[i] = {}
      /\ UNCHANGED <<execs, findings>> /\ life[i] \in LifeType
  BY Typed DEF Advance
<1>2. CASE life[i].stage < Final
  <2>1. life' = [life EXCEPT ![i] = StagePassed(life[i])]
    BY <1>2 DEF Advance
  <2>2. /\ life'[i].candidateReady = life[i].candidateReady /\ life'[i].ready = life[i].ready
        /\ life'[i].stop = life[i].stop
    BY <1>1, <1>2, <2>1, StagePassedLife DEF LifeInv, TypeOK
  <2>. QED  BY <1>1, <2>2, Unseen
<1>3. CASE ~ (life[i].stage < Final)
  <2>. DEFINE l == Coarse[i]
              m == Coarse'[i]
  <2>1. life' = [life EXCEPT ![i] = MadeReady(life[i])] /\ Settled(i) /\ life[i].candidateReady
    BY <1>3 DEF Advance
  <2>2. /\ life'[i].candidateReady = life[i].candidateReady /\ life'[i].ready
        /\ life'[i].stop = life[i].stop
    BY <1>1, <2>1, MadeReadyLife DEF LifeInv, TypeOK
  <2>3. ~ FailureCounts(i)
    <3>1. ASSUME FailureCounts(i)
          PROVE  FALSE
      <4>1. PICK e \in execs[i] : e.status = "observed" /\ ~ Passes(e)
        BY <3>1 DEF FailureCounts
      <4>. QED  BY <1>1, <1>3, <4>1, FailuresAreLate DEF LifeType, Final, Replay
    <3>. QED  BY <3>1
  <2>4. ~ FailureCounts(i)'
    BY <1>1, <2>3 DEF FailureCounts, Passes
  <2>5. ~ StaleAwaited(i) /\ ~ CurrentAwaited(i) /\ ~ StaleAwaited(i)' /\ ~ CurrentAwaited(i)'
    BY <1>1, <2>1 DEF Settled, StaleAwaited, CurrentAwaited
  <2>6. /\ m.cand = l.cand /\ m.ready /\ m.stop = l.stop /\ l.cand /\ ~ l.stop
        /\ ~ l.failed /\ ~ m.failed
        /\ "stale" \notin m.open /\ "current" \notin m.open
        /\ "stale" \notin l.open /\ "current" \notin l.open
        /\ "blocking" \notin m.findings /\ "blocking" \notin l.findings
    BY <1>1, <2>1, <2>2, <2>3, <2>4, <2>5, Pictured DEF View
  <2>7. l \in Cells /\ m \in Cells
    BY Pictured
  <2>. HIDE DEF l, m
  <2>8. l.open = {} /\ m.open = {} /\ l.findings = {} /\ m.findings = {}
    BY <2>6, <2>7 DEF Cells
  <2>9. m.failed = l.failed
    BY <2>6, <2>7 DEF Cells
  <2>10. m \in Abstract!Successors(l)
    BY <2>6, <2>7, <2>8, <2>9, ToAccepted
  <2>. QED  BY <2>10 DEF Lives, l, m
<1>. QED  BY <1>2, <1>3

LEMMA RetryCheckLives ==
  ASSUME LifeInv, LifeInv', NEW i \in Items, NEW e \in execs[i], RetryCheck(i, e)
  PROVE  Lives(i)
<1>1. /\ e.status = "observed" /\ ~ Passes(e) /\ Settled(i) /\ UNCHANGED findings
      /\ life[i] \in LifeType /\ ~ life[i].ready /\ Target(e) \in 1..Final
  BY Typed, FailureIsNotReady, RepairForFits DEF RetryCheck, Counts
<1>2. CASE Refuses(ledger[i], RepairFor(i, e))
  <2>1. life' = [life EXCEPT ![i] = Stopped(life[i])] /\ UNCHANGED execs
    BY <1>2 DEF RetryCheck
  <2>2. /\ life'[i].candidateReady = life[i].candidateReady /\ ~ life'[i].ready /\ life'[i].stop
    BY <1>1, <2>1, StoppedLife DEF LifeInv, TypeOK
  <2>. QED  BY <1>1, <2>1, <2>2, StoppedLives
<1>3. CASE ~ Refuses(ledger[i], RepairFor(i, e))
  <2>. DEFINE to == BackTo(i, e)
              l == Coarse[i]
              m == Coarse'[i]
  <2>1. /\ life' = [life EXCEPT ![i] = Regressed(life[i], to)]
        /\ execs' = [execs EXCEPT ![i] = Without(i, to)]
    BY <1>3 DEF RetryCheck
  <2>2. to \in 1..Final /\ to <= life[i].stage /\ to \in Nat
    BY <1>1 DEF BackTo, LifeType, Final
  <2>. HIDE DEF to
  <2>3. /\ life'[i].candidateReady = life[i].candidateReady /\ ~ life'[i].ready
        /\ life'[i].stop = life[i].stop
    BY <1>1, <2>1, <2>2, RegressedLife DEF LifeInv, TypeOK
  <2>4. \A x \in execs'[i] : x \in execs[i] /\ x.stage < to
    <3>1. execs'[i] = Without(i, to)
      BY <2>1 DEF LifeInv, TypeOK
    <3>2. \A x \in Without(i, to) :
            \/ x \in execs[i] /\ x.stage < to
            \/ \E y \in execs[i] : ~ y.recorded
      BY <2>2, WithoutExecutions DEF LifeInv
    <3>. QED  BY <1>1, <3>1, <3>2 DEF Settled
  <2>5. ASSUME NEW x \in execs'[i], x.status = "observed"
        PROVE  Passes(x)
    <3>1. x \in execs[i] /\ x.stage < to
      BY <2>4, <2>5
    <3>2. CASE ~ Passes(x)
      <4>1. x.stage \in 1..Replay /\ ~ (x.stage < life[i].stage)
        BY <2>5, <3>1, <3>2, FailuresAreLate
      <4>. QED  BY <1>1, <2>2, <3>1, <4>1 DEF LifeType, Replay, Final
    <3>. QED  BY <3>2
  <2>6. FailureCounts(i) /\ ~ FailureCounts(i)'
    BY <1>1, <2>5 DEF FailureCounts, Passes
  <2>7. ~ StaleAwaited(i) /\ ~ CurrentAwaited(i) /\ ~ StaleAwaited(i)' /\ ~ CurrentAwaited(i)'
    BY <1>1, <2>4 DEF Settled, StaleAwaited, CurrentAwaited
  <2>8. /\ m.cand = l.cand /\ ~ m.ready /\ m.stop = l.stop /\ l.failed /\ ~ m.failed
        /\ "stale" \notin m.open /\ "current" \notin m.open
        /\ "stale" \notin l.open /\ "current" \notin l.open
        /\ "blocking" \in m.findings <=> "blocking" \in l.findings
    BY <1>1, <2>3, <2>6, <2>7, Pictured DEF View
  <2>9. l \in Cells /\ m \in Cells
    BY Pictured
  <2>. HIDE DEF l, m
  <2>10. l.open = {} /\ m.open = {} /\ m.findings = l.findings
    BY <2>8, <2>9 DEF Cells
  <2>11. m \in Abstract!Successors(l)
    BY <2>8, <2>9, <2>10, ToRepaired
  <2>. QED  BY <2>11 DEF Lives, l, m
<1>. QED  BY <1>2, <1>3

LEMMA DispositionLives ==
  ASSUME LifeInv, LifeInv', NEW i \in Items, NEW f \in findings[i], DispositionFinding(i, f)
  PROVE  Lives(i)
<1>. DEFINE l == Coarse[i]
            m == Coarse'[i]
<1>1. UNCHANGED <<life, execs>> /\ findings[i] # {}
  BY DEF DispositionFinding
<1>2. /\ FailureCounts(i)' <=> FailureCounts(i)
      /\ StaleAwaited(i)' <=> StaleAwaited(i)
      /\ CurrentAwaited(i)' <=> CurrentAwaited(i)
  BY <1>1 DEF FailureCounts, StaleAwaited, CurrentAwaited, Passes
<1>3. /\ m.cand = l.cand /\ m.ready = l.ready /\ m.stop = l.stop
      /\ "stale" \in m.open <=> "stale" \in l.open
      /\ "current" \in m.open <=> "current" \in l.open
      /\ m.failed <=> l.failed
      /\ "blocking" \in l.findings
  BY <1>1, <1>2, Pictured DEF View
<1>4. l \in Cells /\ m \in Cells
  BY Pictured
<1>. HIDE DEF l, m
<1>5. m.open = l.open
  BY <1>3, <1>4, SameKinds
<1>6. m.failed = l.failed
  BY <1>3, <1>4 DEF Cells
<1>7. m.findings \in {l.findings, {}}
  BY <1>3, <1>4 DEF Cells
<1>8. m \in Abstract!Successors(l)
  BY <1>3, <1>4, <1>5, <1>6, <1>7, ToJudged
<1>. QED  BY <1>8 DEF Lives, l, m

\* A step of the service changes no more than one item, but for a cancellation.
Touches(i) ==
  \A j \in Items \ {i} :
    life'[j] = life[j] /\ execs'[j] = execs[j] /\ findings'[j] = findings[j]

LEMMA EachLives ==
  ASSUME LifeInv, LifeInv', NEW i \in Items, Touches(i), Lives(i)
  PROVE  \A j \in Items : Lives(j)
<1>1. ASSUME NEW j \in Items, j # i
      PROVE  Lives(j)
  <2>1. life'[j] = life[j] /\ execs'[j] = execs[j] /\ findings'[j] = findings[j]
    BY <1>1 DEF Touches
  <2>. QED  BY <2>1, Unseen
<1>. QED  BY <1>1

LEMMA AllLive ==
  ASSUME LifeInv, LifeInv', [Next]_vars
  PROVE  \A j \in Items : Lives(j)
<1>. DEFINE Goal == \A j \in Items : Lives(j)
<1>0. ASSUME UNCHANGED <<life, execs, findings>> PROVE Goal
  BY <1>0, Unseen
<1>1. ASSUME NEW i \in Items, Reserve(i) PROVE Goal
  <2>1. life' = [life EXCEPT ![i] = [life[i] EXCEPT !.round = 1]] /\ UNCHANGED <<execs, findings>>
    BY <1>1 DEF Reserve
  <2>2. \A j \in Items : /\ life'[j].candidateReady = life[j].candidateReady
                         /\ life'[j].ready = life[j].ready /\ life'[j].stop = life[j].stop
    BY <2>1 DEF LifeInv, TypeOK
  <2>. QED  BY <2>1, <2>2, Unseen
<1>2. ASSUME NEW i \in Items,
             Bind(i) \/ StartChecks(i) \/ GitOpen(i) \/ GitClose(i) \/ Integrate(i)
      PROVE  Goal
  BY <1>0, <1>2 DEF Bind, StartChecks, GitOpen, GitClose, Integrate
<1>3. ASSUME NEW i \in Items, Replace(i) PROVE Goal
  <2>1. /\ life' = [life EXCEPT ![i] = Unframed(life[i])] /\ Settled(i)
        /\ execs' = [execs EXCEPT ![i] = Without(i, 1)] /\ UNCHANGED findings
    BY <1>3 DEF Replace
  <2>2. ~ Unframed(life[i]).candidateReady /\ ~ Unframed(life[i]).ready
    BY Typed, UnframedLife
  <2>3. Unframed(life[i]).stop = life[i].stop
    <3>. DEFINE n == Invalidated(life[i])
    <3>1. n \in LifeType /\ n.stop = life[i].stop
      BY Typed, InvalidatedLife
    <3>2. Unframed(life[i]) = [n EXCEPT !.candidateReady = FALSE]
      BY DEF Unframed
    <3>. HIDE DEF n
    <3>. QED  BY <3>1, <3>2 DEF LifeType
  <2>4. life'[i] = Unframed(life[i]) /\ execs'[i] = Without(i, 1) /\ Touches(i)
    BY <2>1 DEF LifeInv, TypeOK, Touches
  <2>5. Lives(i)
    BY <2>1, <2>2, <2>3, <2>4, Dropped
  <2>. QED  BY <2>4, <2>5, EachLives
<1>4. ASSUME NEW i \in Items, NEW c \in Candidates, SetCandidate(i, c) PROVE Goal
  <2>1. /\ UNCHANGED findings /\ ~ life[i].stop
        /\ \/ life' = [life EXCEPT ![i] = Halted(life[i])] /\ UNCHANGED execs
           \/ /\ life[i].candidateReady
              /\ life' = [life EXCEPT ![i] = Framed(Invalidated(life[i]), c)]
              /\ execs' = [execs EXCEPT ![i] = Without(i, 1)]
           \/ /\ ~ life[i].candidateReady /\ UNCHANGED execs
              /\ life' = [life EXCEPT ![i] = Framed(life[i], c)]
    BY <1>4 DEF SetCandidate
  <2>2. Touches(i)
    BY <2>1 DEF LifeInv, TypeOK, Touches
  <2>3. /\ Halted(life[i]).candidateReady = life[i].candidateReady
        /\ ~ Halted(life[i]).ready /\ Halted(life[i]).stop
    BY Typed, HaltedLife DEF Halted, LifeType
  <2>4. /\ Framed(life[i], c).candidateReady /\ ~ Framed(life[i], c).ready
        /\ Framed(life[i], c).stop = life[i].stop
        /\ Framed(Invalidated(life[i]), c).candidateReady
        /\ ~ Framed(Invalidated(life[i]), c).ready
        /\ Framed(Invalidated(life[i]), c).stop = life[i].stop
    BY Typed, FramedLife, InvalidatedLife
  <2>5. CASE life' = [life EXCEPT ![i] = Halted(life[i])] /\ UNCHANGED execs
    <3>1. life'[i] = Halted(life[i])
      BY <2>5 DEF LifeInv, TypeOK
    <3>2. Lives(i)
      BY <2>1, <2>3, <2>5, <3>1, StoppedLives
    <3>. QED  BY <2>2, <3>2, EachLives
  <2>6. CASE /\ life[i].candidateReady
             /\ life' = [life EXCEPT ![i] = Framed(Invalidated(life[i]), c)]
             /\ execs' = [execs EXCEPT ![i] = Without(i, 1)]
    <3>1. life'[i] = Framed(Invalidated(life[i]), c) /\ execs'[i] = Without(i, 1)
      BY <2>6 DEF LifeInv, TypeOK
    <3>2. Lives(i)
      BY <2>1, <2>4, <3>1, Dropped
    <3>. QED  BY <2>2, <3>2, EachLives
  <2>7. CASE /\ ~ life[i].candidateReady /\ UNCHANGED execs
             /\ life' = [life EXCEPT ![i] = Framed(life[i], c)]
    <3>1. life'[i] = Framed(life[i], c)
      BY <2>7 DEF LifeInv, TypeOK
    <3>2. Lives(i)
      BY <2>1, <2>4, <2>7, <3>1, FirstDelivered
    <3>. QED  BY <2>2, <3>2, EachLives
  <2>. QED  BY <2>1, <2>5, <2>6, <2>7
<1>5. ASSUME NEW i \in Items, NEW e \in execs[i], Recover(i, e) PROVE Goal
  <2>1. /\ UNCHANGED <<life, findings>> /\ e.job = Pending
        /\ execs' = [execs EXCEPT ![i] = (@ \ {e}) \cup {[e EXCEPT !.job = Unavailable]}]
    BY <1>5 DEF Recover
  <2>2. Lives(i)
    BY <2>1, GivenJobLives
  <2>3. Touches(i)
    BY <2>1 DEF LifeInv, TypeOK, Touches
  <2>. QED  BY <2>2, <2>3, EachLives
<1>6. ASSUME NEW i \in Items, NEW e \in execs[i], Record(i, e) PROVE Goal
  <2>1. Lives(i)
    BY <1>6, RecordLives
  <2>2. Touches(i)
    BY <1>6 DEF Record, LifeInv, TypeOK, Touches
  <2>. QED  BY <2>1, <2>2, EachLives
<1>7. ASSUME NEW i \in Items, NEW e \in execs[i], RecordRecovered(i, e) PROVE Goal
  BY <1>6, <1>7 DEF RecordRecovered
<1>8. ASSUME NEW i \in Items, NEW e \in execs[i], RetryCheck(i, e) PROVE Goal
  <2>1. Lives(i)
    BY <1>8, RetryCheckLives
  <2>2. Touches(i)
    BY <1>8 DEF RetryCheck, LifeInv, TypeOK, Touches
  <2>. QED  BY <2>1, <2>2, EachLives
<1>9. ASSUME NEW i \in Items, NEW f \in findings[i], DispositionFinding(i, f) PROVE Goal
  <2>1. Lives(i)
    BY <1>9, DispositionLives
  <2>2. Touches(i)
    BY <1>9 DEF DispositionFinding, LifeInv, TypeOK, Touches
  <2>. QED  BY <2>1, <2>2, EachLives
<1>10. ASSUME Cancel PROVE Goal
  <2>. SUFFICES ASSUME NEW j \in Items PROVE Lives(j)
    OBVIOUS
  <2>1. /\ UNCHANGED findings
        /\ \/ life'[j] = life[j] /\ execs'[j] = execs[j]
           \/ /\ execs'[j] = Without(j, 1)
              /\ \/ life'[j] = Invalidated(life[j])
                 \/ life'[j] = life[j] /\ ~ (life[j].round > 0)
    BY <1>10 DEF Cancel
  <2>2. /\ Invalidated(life[j]).candidateReady = life[j].candidateReady
        /\ Invalidated(life[j]).stop = life[j].stop /\ ~ Invalidated(life[j]).ready
    BY Typed, InvalidatedLife
  <2>3. ~ (life[j].round > 0) => ~ life[j].ready
    BY Typed DEF ItemInv, Frame
  <2>4. CASE life'[j] = life[j] /\ execs'[j] = execs[j]
    BY <2>1, <2>4, Unseen
  <2>5. CASE execs'[j] = Without(j, 1) /\ life'[j] = Invalidated(life[j])
    BY <2>1, <2>2, <2>5, Dropped
  <2>6. CASE execs'[j] = Without(j, 1) /\ life'[j] = life[j] /\ ~ (life[j].round > 0)
    BY <2>1, <2>3, <2>6, Dropped
  <2>. QED  BY <2>1, <2>4, <2>5, <2>6
<1>11. ASSUME PrepareCheck PROVE Goal
  <2>1. PICK i \in Items : i = call.item
    BY <1>11, TypedCall DEF PrepareCheck, InCall
  <2>2. /\ UNCHANGED <<life, findings>> /\ life[call.item].candidateReady
        /\ ~ life[call.item].stop /\ ~ life[call.item].ready
    BY <1>11, TypedCall DEF PrepareCheck, InCall
  <2>. DEFINE l == life[call.item]
              new(k) == [check |-> k, stage |-> l.stage, round |-> l.round, gen |-> call.gen,
                         candidate |-> l.candidate, status |-> "intent", job |-> Pending,
                         recorded |-> FALSE, rejected |-> FALSE]
              there(k) == {e \in execs[call.item] :
                             e.stage = l.stage /\ e.check = k
                               /\ e.status # "quarantined" /\ Current(call.item, e)}
  <2>3. PICK k \in call.left : \E e \in IF there(k) = {} THEN {new(k)} ELSE there(k) :
          execs' = [execs EXCEPT ![call.item] = @ \cup {e}]
    BY <1>11 DEF PrepareCheck
  <2>4. PICK e \in IF there(k) = {} THEN {new(k)} ELSE there(k) :
          execs' = [execs EXCEPT ![call.item] = @ \cup {e}]
    BY <2>3
  <2>5. e \in execs[i] \/ (e.status = "intent" /\ ~ e.recorded)
    BY <2>1, <2>4
  <2>6. execs' = [execs EXCEPT ![i] = execs[i] \cup {e}]
    BY <2>1, <2>4
  <2>. HIDE DEF l, new, there
  <2>7. execs'[i] = execs[i] \cup {e} /\ Touches(i)
    BY <2>2, <2>6 DEF LifeInv, TypeOK, Touches
  <2>8. Lives(i)
    <3>1. CASE e \in execs[i]
      <4>1. execs'[i] = execs[i]
        BY <2>7, <3>1
      <4>. QED  BY <2>2, <4>1, Unseen
    <3>2. CASE e.status = "intent" /\ ~ e.recorded
      BY <2>1, <2>2, <2>7, <3>2, PreparedLives
    <3>. QED  BY <2>5, <3>1, <3>2
  <2>. QED  BY <2>7, <2>8, EachLives
<1>12. ASSUME ExecuteCheck PROVE Goal
  <2>1. PICK i \in Items : i = call.item
    BY <1>12, TypedCall DEF ExecuteCheck, InCall
  <2>2. PICK e \in execs[call.item] :
          \/ UNCHANGED execs
          \/ /\ e.job = Pending
             /\ \E r : execs' = [execs EXCEPT ![call.item] =
                                   (@ \ {e}) \cup {[e EXCEPT !.job = r]}]
    BY <1>12 DEF ExecuteCheck
  <2>3. UNCHANGED <<life, findings>>
    BY <1>12 DEF ExecuteCheck
  <2>4. CASE UNCHANGED execs
    BY <1>0, <2>3, <2>4
  <2>5. ASSUME e.job = Pending, NEW r,
               execs' = [execs EXCEPT ![i] = (@ \ {e}) \cup {[e EXCEPT !.job = r]}]
        PROVE  Goal
    <3>1. e \in execs[i]
      BY <2>1
    <3>2. Lives(i)
      BY <2>3, <2>5, <3>1, GivenJobLives
    <3>3. Touches(i)
      BY <2>3, <2>5 DEF LifeInv, TypeOK, Touches
    <3>. QED  BY <3>2, <3>3, EachLives
  <2>. QED  BY <2>1, <2>2, <2>4, <2>5
<1>13. ASSUME RecordCheck PROVE Goal
  <2>1. PICK i \in Items : i = call.item
    BY <1>13, TypedCall DEF RecordCheck, InCall
  <2>2. (\E e \in execs[i] : Record(i, e)) \/ UNCHANGED <<life, execs, findings>>
    BY <1>13, <2>1 DEF RecordCheck
  <2>. QED  BY <1>0, <1>6, <2>2
<1>14. ASSUME Advance PROVE Goal
  <2>1. PICK i \in Items : i = call.item
    BY <1>14, TypedCall DEF Advance, InCall
  <2>2. Lives(i)
    BY <1>14, <2>1, AdvanceLives
  <2>3. Touches(i)
    BY <1>14, <2>1 DEF Advance, LifeInv, TypeOK, Touches
  <2>. QED  BY <2>2, <2>3, EachLives
<1>15. ASSUME EndCall \/ UNCHANGED vars PROVE Goal
  BY <1>0, <1>15 DEF EndCall, vars
<1>. HIDE DEF Goal
<1>16. Goal
  BY <1>1, <1>2, <1>3, <1>4, <1>5, <1>7, <1>8, <1>9, <1>10, <1>11, <1>12, <1>13, <1>14, <1>15
  DEF Next, CallStep
<1>. QED  BY <1>16 DEF Goal

\* What DagRun assumes of the lifecycle of an item holds of the detailed one.
THEOREM LifecyclesLiveAsAssumed == Spec => ItemLivesAsAssumed
<1>1. Init => Abstract!Init
  <2>. SUFFICES ASSUME Init PROVE Abstract!Init
    OBVIOUS
  <2>1. ASSUME NEW i \in Items
        PROVE  Coarse[i] = Abstract!Unworked
    <3>. DEFINE failed == \E e \in execs[i] : Counts(i, e) /\ ~ Passes(e)
                open == {IF e.status = "quarantined" THEN "stale" ELSE "current" :
                           e \in {x \in execs[i] : ~ x.recorded}}
                found == IF findings[i] = {} THEN {} ELSE {"blocking"}
    <3>1. Coarse[i] = [cand |-> life[i].candidateReady, ready |-> life[i].ready,
                       stop |-> life[i].stop, failed |-> failed, open |-> open,
                       findings |-> found]
      BY DEF Coarse
    <3>2. execs[i] = {} /\ findings[i] = {} /\ life[i].candidateReady = FALSE
          /\ life[i].ready = FALSE /\ life[i].stop = FALSE
      BY DEF Init
    <3>3. failed = FALSE /\ open = {} /\ found = {}
      BY <3>2
    <3>. HIDE DEF failed, open, found
    <3>. QED  BY <3>1, <3>2, <3>3 DEF Abstract!Unworked
  <2>2. Coarse = [i \in Items |-> Coarse[i]]
    BY DEF Coarse
  <2>. QED  BY <2>1, <2>2 DEF Abstract!Init
<1>2. LifeInv /\ LifeInv' /\ [Next]_vars => [Abstract!Next]_Coarse
  <2>. SUFFICES ASSUME LifeInv, LifeInv', [Next]_vars
                PROVE  Abstract!Next
    OBVIOUS
  <2>1. DOMAIN Coarse' = Items
    BY DEF Coarse
  <2>. QED  BY <2>1, AllLive DEF Lives, Abstract!Next
<1>. QED  BY <1>1, <1>2, LifeInvariant, PTL DEF Spec, ItemLivesAsAssumed, Abstract!Spec
=============================================================================
