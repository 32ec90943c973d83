--------------------------- MODULE StoreV2Proofs ---------------------------
(***************************************************************************)
(* What StoreV2 guarantees for any set of processes and any number of      *)
(* publications: its safety invariants, that no step takes back a promised *)
(* update, and that it implements SnapshotRegister.                        *)
(***************************************************************************)
EXTENDS StoreV2, TLAPS

\* The flock and the program counters agree: one transaction is in flight at
\* a time, and it is the holder's.
LockHeldInside == \A p \in Procs : pc[p] # "idle" <=> lock = p

\* What the transaction in flight knows of the file at each of its phases.
CopiesAgree ==
  \A p \in Procs :
    /\ pc[p] \in {"loaded", "renamed"} => mem[p] = visible
    /\ pc[p] = "ready" => mem[p] = visible /\ visible = durable
    /\ pc[p] = "tempSynced" => /\ visible = durable
                               /\ Extends(mem[p], visible)
                               /\ Len(mem[p]) = Len(visible) + 1

IInv == /\ TypeOK
        /\ LockHeldInside
        /\ CopiesAgree
        /\ OneUpdateInDoubt
        /\ AckedIsDurable
        /\ RevisionIdentifiesSnapshot

-----------------------------------------------------------------------------
\* Extends is a preorder on snapshots.
LEMMA ExtendsReflexive == \A s \in Snapshots : Extends(s, s)
BY DEF Extends, Snapshots

LEMMA ExtendsTransitive ==
  ASSUME NEW a \in Snapshots, NEW b \in Snapshots, NEW c \in Snapshots,
         Extends(a, b), Extends(b, c)
  PROVE  Extends(a, c)
BY DEF Extends, Snapshots

\* A longer snapshot that is longer by at most one update is the same snapshot
\* or is it with one update appended.
LEMMA OneLonger ==
  ASSUME NEW s \in Snapshots, NEW t \in Snapshots,
         Extends(t, s), Len(t) <= Len(s) + 1
  PROVE  t = s \/ \E w \in Procs : t = Append(s, w)
<1>1. CASE Len(t) = Len(s)
  BY <1>1 DEF Extends, Snapshots
<1>2. CASE Len(t) = Len(s) + 1
  <2>1. t[Len(t)] \in Procs
    BY <1>2 DEF Snapshots
  <2>2. t = Append(s, t[Len(t)])
    BY <1>2, <2>1 DEF Extends, Snapshots
  <2>. QED  BY <2>1, <2>2
<1>. QED
  BY <1>1, <1>2 DEF Extends, Snapshots

LEMMA AppendExtends ==
  ASSUME NEW s \in Snapshots, NEW w \in Procs
  PROVE  /\ Append(s, w) \in Snapshots
         /\ Extends(Append(s, w), s)
         /\ Len(Append(s, w)) = Len(s) + 1
BY DEF Extends, Snapshots

-----------------------------------------------------------------------------
LEMMA InitIInv == Init => IInv
BY StoreAssumption
   DEF Init, IInv, TypeOK, LockHeldInside, CopiesAgree, OneUpdateInDoubt,
       AckedIsDurable, RevisionIdentifiesSnapshot, Extends, Snapshots, Phases

LEMMA NextIInv == IInv /\ [Next]_vars => IInv'
<1>. SUFFICES ASSUME IInv, [Next]_vars PROVE IInv'
  OBVIOUS
<1>. USE StoreAssumption, ExtendsReflexive DEF IInv, TypeOK, LockHeldInside
<1>1. ASSUME NEW p \in Procs, Read(p) PROVE IInv'
  BY <1>1 DEF Read, CopiesAgree, OneUpdateInDoubt, AckedIsDurable,
              RevisionIdentifiesSnapshot
<1>2. ASSUME NEW p \in Procs, Lock(p) PROVE IInv'
  BY <1>2 DEF Lock, Go, Phases, CopiesAgree, OneUpdateInDoubt, AckedIsDurable,
              RevisionIdentifiesSnapshot
<1>3. ASSUME NEW p \in Procs, Load(p) PROVE IInv'
  BY <1>3 DEF Load, Go, Phases, CopiesAgree, OneUpdateInDoubt, AckedIsDurable,
              RevisionIdentifiesSnapshot
<1>4. ASSUME NEW p \in Procs, SyncLoaded(p) PROVE IInv'
  <2>1. Extends(visible, acked)
    BY ExtendsTransitive DEF OneUpdateInDoubt, AckedIsDurable
  <2>2. TypeOK' /\ LockHeldInside' /\ CopiesAgree'
    BY <1>4 DEF SyncLoaded, Go, Phases, CopiesAgree
  <2>3. OneUpdateInDoubt' /\ AckedIsDurable' /\ RevisionIdentifiesSnapshot'
    BY <1>4, <2>1 DEF SyncLoaded, OneUpdateInDoubt, AckedIsDurable,
                      RevisionIdentifiesSnapshot, Snapshots
  <2>. QED  BY <2>2, <2>3
<1>5. ASSUME NEW p \in Procs, WriteTemp(p) PROVE IInv'
  <2>1. /\ Append(mem[p], p) \in Snapshots
        /\ Extends(Append(mem[p], p), mem[p])
        /\ Len(Append(mem[p], p)) = Len(mem[p]) + 1
    BY AppendExtends
  <2>2. TypeOK' /\ LockHeldInside'
    BY <1>5, <2>1 DEF WriteTemp, Go, Phases
  <2>3. CopiesAgree'
    BY <1>5, <2>1 DEF WriteTemp, Go, CopiesAgree, Phases
  <2>4. OneUpdateInDoubt' /\ AckedIsDurable' /\ RevisionIdentifiesSnapshot'
    BY <1>5 DEF WriteTemp, OneUpdateInDoubt, AckedIsDurable,
                RevisionIdentifiesSnapshot
  <2>. QED  BY <2>2, <2>3, <2>4
<1>6. ASSUME NEW p \in Procs, Rename(p) PROVE IInv'
  <2>1. /\ visible = durable
        /\ Extends(mem[p], visible)
        /\ Len(mem[p]) = Len(visible) + 1
    BY <1>6 DEF Rename, Go, CopiesAgree
  <2>2. TypeOK' /\ LockHeldInside' /\ CopiesAgree'
    BY <1>6 DEF Rename, Go, Phases, CopiesAgree
  <2>3. OneUpdateInDoubt' /\ AckedIsDurable'
    BY <1>6, <2>1 DEF Rename, OneUpdateInDoubt, AckedIsDurable, Snapshots
  <2>4. RevisionIdentifiesSnapshot'
    BY <1>6, <2>1, ExtendsTransitive DEF Rename, RevisionIdentifiesSnapshot
  <2>. QED  BY <2>2, <2>3, <2>4
<1>7. ASSUME NEW p \in Procs, SyncPublished(p) PROVE IInv'
  <2>1. Extends(visible, acked)
    BY ExtendsTransitive DEF OneUpdateInDoubt, AckedIsDurable
  <2>2. TypeOK' /\ LockHeldInside' /\ CopiesAgree'
    BY <1>7 DEF SyncPublished, Go, Phases, CopiesAgree
  <2>3. OneUpdateInDoubt' /\ AckedIsDurable' /\ RevisionIdentifiesSnapshot'
    BY <1>7, <2>1 DEF SyncPublished, OneUpdateInDoubt, AckedIsDurable,
                      RevisionIdentifiesSnapshot, Snapshots
  <2>. QED  BY <2>2, <2>3
<1>8. ASSUME NEW p \in Procs, Return(p) PROVE IInv'
  <2>1. mem[p] = durable
    BY <1>8 DEF Return, Go, CopiesAgree
  <2>2. TypeOK' /\ LockHeldInside' /\ CopiesAgree'
    BY <1>8 DEF Return, Go, Release, Phases, CopiesAgree
  <2>3. OneUpdateInDoubt' /\ AckedIsDurable' /\ RevisionIdentifiesSnapshot'
    BY <1>8, <2>1 DEF Return, OneUpdateInDoubt, AckedIsDurable,
                      RevisionIdentifiesSnapshot
  <2>. QED  BY <2>2, <2>3
<1>9. ASSUME NEW p \in Procs, Throw(p) PROVE IInv'
  BY <1>9 DEF Throw, Release, Phases, CopiesAgree, OneUpdateInDoubt,
              AckedIsDurable, RevisionIdentifiesSnapshot
<1>10. ASSUME NEW p \in Procs, ProcessDies(p) PROVE IInv'
  <2>1. TypeOK' /\ LockHeldInside' /\ CopiesAgree'
    BY <1>10 DEF ProcessDies, Phases, CopiesAgree, Snapshots
  <2>2. OneUpdateInDoubt' /\ AckedIsDurable' /\ RevisionIdentifiesSnapshot'
    BY <1>10 DEF ProcessDies, OneUpdateInDoubt, AckedIsDurable,
                 RevisionIdentifiesSnapshot, Extends, Snapshots
  <2>. QED  BY <2>1, <2>2
<1>11. ASSUME Writeback PROVE IInv'
  <2>1. Extends(visible, acked)
    BY ExtendsTransitive DEF OneUpdateInDoubt, AckedIsDurable
  <2>. QED
    BY <1>11, <2>1 DEF Writeback, CopiesAgree, OneUpdateInDoubt,
                       AckedIsDurable, RevisionIdentifiesSnapshot, Snapshots
<1>12. ASSUME PowerLoss PROVE IInv'
  BY <1>12 DEF PowerLoss, Phases, CopiesAgree, OneUpdateInDoubt,
               AckedIsDurable, RevisionIdentifiesSnapshot, Extends, Snapshots
<1>13. CASE UNCHANGED vars
  BY <1>13 DEF vars, CopiesAgree, OneUpdateInDoubt, AckedIsDurable,
               RevisionIdentifiesSnapshot
<1>. QED
  BY <1>1, <1>2, <1>3, <1>4, <1>5, <1>6, <1>7, <1>8, <1>9, <1>10, <1>11,
     <1>12, <1>13 DEF Next, Step

LEMMA Invariance == Spec => []IInv
<1>. QED  BY InitIInv, NextIInv, PTL DEF Spec

\* Every variable keeps its type (store.ts transaction and publish).
THEOREM TypeCorrect == Spec => []TypeOK
<1>. QED  BY Invariance, PTL DEF IInv

\* A returned transaction never speaks of state a power loss can take back,
\* whichever writer died where before it (store.ts:127-136).
THEOREM AckedIsAlwaysDurable == Spec => []AckedIsDurable
<1>. QED  BY Invariance, PTL DEF IInv

\* At any time at most one update is visible without being durable.
THEOREM AtMostOneUpdateInDoubt == Spec => []OneUpdateInDoubt
<1>. QED  BY Invariance, PTL DEF IInv

\* A snapshot a live process read is a prefix of the current one, so that equal
\* revisions are equal snapshots.
THEOREM RevisionsIdentifySnapshots == Spec => []RevisionIdentifiesSnapshot
<1>. QED  BY Invariance, PTL DEF IInv

-----------------------------------------------------------------------------
\* The only steps that touch the durable version commit the one update in
\* doubt, or nothing.
LEMMA DurableStep ==
  ASSUME IInv, [Next]_vars
  PROVE  durable' = durable \/ \E w \in Procs : durable' = Append(durable, w)
<1>1. durable' = durable \/ durable' = visible
  BY DEF Next, Step, Read, Lock, Load, SyncLoaded, WriteTemp, Rename,
         SyncPublished, Return, Throw, ProcessDies, Writeback, PowerLoss, vars
<1>2. visible = durable \/ \E w \in Procs : visible = Append(durable, w)
  BY OneLonger DEF IInv, TypeOK, OneUpdateInDoubt
<1>. QED  BY <1>1, <1>2

\* No step, power loss included, removes or reorders a durable update.
THEOREM DurableNeverShrinks == Spec => DurableOnlyGrows
<1>1. IInv /\ [Next]_vars => [Extends(durable', durable)]_vars
  BY DurableStep, AppendExtends, ExtendsReflexive DEF IInv, TypeOK
<1>. QED  BY <1>1, Invariance, PTL DEF Spec, DurableOnlyGrows

\* StoreV2 implements SnapshotRegister: callers may reason about one log of
\* whole updates and forget locks, files and crashes.
THEOREM Implements == Spec => ImplementsRegister
<1>1. Init => Register!Init
  BY DEF Init, Register!Init
<1>2. IInv /\ [Next]_vars => [Register!Next]_(Register!rvars)
  <2>. SUFFICES ASSUME IInv, [Next]_vars
                PROVE  Register!Next \/ UNCHANGED <<durable, acked>>
    BY DEF Register!rvars
  <2>1. durable' = durable \/ \E w \in Procs : durable' = Append(durable, w)
    BY DurableStep
  <2>2. CASE \E p \in Procs : Return(p)
    BY <2>2 DEF Return, Go, IInv, CopiesAgree, Register!Next, Register!Promise
  <2>3. CASE ~ \E p \in Procs : Return(p)
    <3>1. acked' = acked
      BY <2>3 DEF Next, Step, Read, Lock, Load, SyncLoaded, WriteTemp, Rename,
                  SyncPublished, Throw, ProcessDies, Writeback, PowerLoss, vars
    <3>. QED  BY <3>1, <2>1 DEF Register!Next, Register!Commit
  <2>. QED  BY <2>2, <2>3
<1>. QED
  BY <1>1, <1>2, Invariance, PTL
     DEF Spec, ImplementsRegister, Register!Spec
=============================================================================
