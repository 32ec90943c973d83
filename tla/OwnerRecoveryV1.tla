--------------------------- MODULE OwnerRecoveryV1 ---------------------------
(***************************************************************************)
(* dag-runtime/store.ts, with the callers in conductor.ts: the snapshot    *)
(* store of a V1 run.  A run has one owner, named in the snapshot; every   *)
(* mutation holds the conductor lock, a directory renamed into place.      *)
(* When the owner dies another process takes the run over: it holds a      *)
(* second directory lock, publishes an intent, puts the dead owner's lock  *)
(* into quarantine, publishes a replacement, and attaches itself.          *)
(*                                                                         *)
(* A lock's identity is its process: a process that restarts is a new one. *)
(* The content of a snapshot is its owner and the sequence of its writers. *)
(***************************************************************************)
EXTENDS Naturals, Sequences

CONSTANTS
  Proc,          \* processes: the first owners and those that may follow them
  None,
  Starters,      \* processes of the session that starts the run
  Times,         \* what a caller may give as the time it saw the owner dead
  MaxRevision    \* bound: an owner's own mutations are cut off at this revision

VARIABLES
  state,         \* run-state.json: None or [owner, log]
  archives,      \* snapshots/
  lock,          \* conductor.lock: the process its metadata names
  recovery,      \* lock-recovery.lock
  intent,        \* owner-recovery-intent.json: None or [stale, at]
  quarantine,    \* quarantined-locks/: pairs <<kind, process>>
  dead,          \* processes that no longer exist
  pc, op,        \* where each process is, and in which call
  mem,           \* the snapshot it read
  proof,         \* the death it proves: None or [stale, at]
  judged,        \* the holder of a lock it found dead
  reader         \* read() without a lock: [at, raw, tries]

vars == <<state, archives, lock, recovery, intent, quarantine, dead, pc, op,
          mem, proof, judged, reader>>

Genesis == [owner |-> None, log |-> << >>]
Written(s, p) == [owner |-> p, log |-> Append(s.log, p)]

Init ==
  /\ state = None /\ archives = {} /\ lock = None /\ recovery = None
  /\ intent = None /\ quarantine = {} /\ dead = {}
  /\ pc = [p \in Proc |-> "idle"] /\ op = [p \in Proc |-> None]
  /\ mem = [p \in Proc |-> None] /\ proof = [p \in Proc |-> None]
  /\ judged = [p \in Proc |-> None]
  /\ reader = [at |-> "idle", raw |-> None, tries |-> 0]

locks == <<lock, recovery, intent, quarantine>>
files == <<state, archives>>
local == <<op, mem, proof>>

Go(p, from, to) == pc[p] = from /\ p \notin dead /\ pc' = [pc EXCEPT ![p] = to]
\* The call ends and forgets what it read.
Forget(p) == /\ op' = [op EXCEPT ![p] = None]
             /\ mem' = [mem EXCEPT ![p] = None]
             /\ proof' = [proof EXCEPT ![p] = None]
             /\ judged' = [judged EXCEPT ![p] = None]

\* A process that cannot be observed counts as dead.
FoundDeadIfUnknown(q) == q # None

\* processIdentityDisposition(): only a process that is missing, or whose number
\* another process has by now, is dead.
FoundDead(q) == q \in dead

-----------------------------------------------------------------------------
(* withLock(): initialize and mutate.                                      *)

\* The calls conductor.ts makes: a starter initializes and attaches, and only
\* a process that the snapshot names as the owner mutates.
Begin(p, call) ==
  /\ Go(p, "idle", IF call = "initialize" THEN "preparing" ELSE "entering")
  /\ \/ call = "initialize" /\ p \in Starters /\ state \in {None, Genesis}
     \/ call = "attach" /\ p \in Starters /\ state = Genesis
     \/ call = "mutate" /\ state # None /\ state.owner = p
  /\ op' = [op EXCEPT ![p] = call]
  /\ UNCHANGED <<files, locks, dead, mem, proof, judged, reader>>

\* prepareInitializationLock(): nothing to clear, a dead starter's lock, or a
\* live one's, which ends the call.
Prepare(p) ==
  /\ pc[p] = "preparing"
  /\ \/ lock = None /\ Go(p, "preparing", "entering") /\ UNCHANGED <<local, judged>>
     \/ /\ FoundDead(lock) /\ Go(p, "preparing", "clearing")
        /\ judged' = [judged EXCEPT ![p] = lock] /\ UNCHANGED local
     \/ lock # None /\ ~FoundDead(lock) /\ Go(p, "preparing", "idle") /\ Forget(p)
  /\ UNCHANGED <<files, locks, dead, reader>>

\* The lock is renamed to a path that carries the identity of the holder
\* judged dead: the rename fails when another process was there first.
SetAside(kind, p) == <<kind, judged[p]>> \notin quarantine

ClearInitializationLock(p) ==
  /\ pc[p] = "clearing"
  /\ IF SetAside("initialization", p) /\ lock # None
     THEN /\ Go(p, "clearing", "entering")
          /\ lock' = None
          /\ quarantine' = quarantine \cup {<<"initialization", judged[p]>>}
          /\ judged' = [judged EXCEPT ![p] = None]
          /\ UNCHANGED local
     ELSE Go(p, "clearing", "idle") /\ Forget(p) /\ UNCHANGED <<lock, quarantine>>
  /\ UNCHANGED <<files, recovery, intent, dead, reader>>

\* publishLock() looks for a recovery before it publishes.
Enter(p) ==
  /\ pc[p] = "entering"
  /\ IF recovery = None /\ intent = None
     THEN Go(p, "entering", "publishing") /\ UNCHANGED <<local, judged>>
     ELSE Go(p, "entering", "idle") /\ Forget(p)
  /\ UNCHANGED <<files, locks, dead, reader>>

\* publishDirectoryLock() renames a prepared directory; it fails on one that
\* exists.
Publish(p) ==
  /\ Go(p, "publishing", "published")
  /\ lock = None /\ lock' = p
  /\ UNCHANGED <<files, recovery, intent, quarantine, dead, local, judged, reader>>

\* The lock is held by another, or the run was initialized meanwhile.
PublishFails(p) ==
  /\ Go(p, "publishing", "idle") /\ lock # None
  /\ Forget(p)
  /\ UNCHANGED <<files, locks, dead, reader>>

\* publishLock() looks again: a recovery that started since has priority.
Recheck(p) ==
  /\ pc[p] = "published"
  /\ Go(p, "published", IF recovery = None /\ intent = None THEN "held" ELSE "releasing")
  /\ UNCHANGED <<files, locks, dead, local, judged, reader>>

\* What mutate() and initialize() read under the lock, and what they refuse.
Accepts(p) ==
  CASE op[p] = "initialize" -> state = None
    [] op[p] = "attach"     -> state # None /\ state.owner = None
    [] op[p] = "mutate"     -> state.owner = p /\ Len(state.log) < MaxRevision

Load(p) ==
  /\ pc[p] = "held"
  /\ Go(p, "held", IF Accepts(p) THEN "loaded" ELSE "releasing")
  /\ mem' = [mem EXCEPT ![p] = state]
  /\ UNCHANGED <<files, locks, dead, op, proof, judged, reader>>

Outcome(p) == IF op[p] = "initialize" THEN Genesis ELSE Written(mem[p], p)

\* archiveSnapshot() of both, before the state file names the new one.
Archive(p) ==
  /\ Go(p, "loaded", "archived")
  /\ archives' = archives \cup ({mem[p], Outcome(p)} \ {None})
  /\ UNCHANGED <<state, locks, dead, local, judged, reader>>

\* writeSnapshot(): a temporary file, renamed over the state file.
Write(p) ==
  /\ Go(p, "archived", "written")
  /\ state' = Outcome(p)
  /\ UNCHANGED <<archives, locks, dead, local, judged, reader>>

\* Only the new snapshot stays.
PruneAll(p) ==
  /\ Go(p, "written", "releasing")
  /\ archives' = archives \cap {Outcome(p)}
  /\ UNCHANGED <<state, locks, dead, local, judged, reader>>

\* pruneSnapshotArchives(): the new snapshot and its predecessor stay.
Prune(p) ==
  /\ Go(p, "written", "releasing")
  /\ archives' = IF op[p] = "initialize" THEN archives
                 ELSE archives \cap {mem[p], Outcome(p)}
  /\ UNCHANGED <<state, locks, dead, local, judged, reader>>

\* releaseDirectoryLock(): only a lock that is still one's own.
Release(p) ==
  /\ op[p] # "recover"
  /\ Go(p, "releasing", "idle")
  /\ lock' = IF lock = p THEN None ELSE lock
  /\ Forget(p)
  /\ UNCHANGED <<files, recovery, intent, quarantine, dead, reader>>
-----------------------------------------------------------------------------
(* reattachAfterDeadOwner().                                               *)

\* conductor.ts proves the death of the owner it reads in the snapshot, and
\* binds its attachment to that snapshot.
Prove(p, at) ==
  /\ Go(p, "idle", "locking")
  /\ state # None /\ state.owner \notin {None, p} /\ FoundDead(state.owner)
  /\ op' = [op EXCEPT ![p] = "recover"]
  /\ mem' = [mem EXCEPT ![p] = state]
  /\ proof' = [proof EXCEPT ![p] = [stale |-> state.owner, at |-> at]]
  /\ UNCHANGED <<files, locks, dead, judged, reader>>

\* acquireRecoveryLock(): published, or held by a process found dead or alive.
LockRecovery(p) ==
  /\ pc[p] = "locking"
  /\ \/ /\ recovery = None /\ Go(p, "locking", "recovering") /\ recovery' = p
        /\ UNCHANGED <<local, judged>>
     \/ /\ FoundDead(recovery) /\ Go(p, "locking", "judged")
        /\ judged' = [judged EXCEPT ![p] = recovery]
        /\ UNCHANGED <<local, recovery>>
     \/ /\ recovery # None /\ ~FoundDead(recovery) /\ Go(p, "locking", "idle")
        /\ Forget(p) /\ UNCHANGED recovery
  /\ UNCHANGED <<files, lock, intent, quarantine, dead, reader>>

\* The dead process's recovery lock goes into quarantine; the next attempt to
\* publish is the last.
ClearRecoveryLock(p) ==
  /\ pc[p] = "judged"
  /\ IF SetAside("recovery", p) /\ recovery # None
     THEN /\ Go(p, "judged", "relocking")
          /\ recovery' = None
          /\ quarantine' = quarantine \cup {<<"recovery", judged[p]>>}
          /\ judged' = [judged EXCEPT ![p] = None] /\ UNCHANGED local
     ELSE Go(p, "judged", "idle") /\ Forget(p) /\ UNCHANGED <<recovery, quarantine>>
  /\ UNCHANGED <<files, lock, intent, dead, reader>>

RelockRecovery(p) ==
  /\ pc[p] = "relocking"
  /\ IF recovery = None
     THEN Go(p, "relocking", "recovering") /\ recovery' = p /\ UNCHANGED <<local, judged>>
     ELSE Go(p, "relocking", "idle") /\ Forget(p) /\ UNCHANGED recovery
  /\ UNCHANGED <<files, lock, intent, quarantine, dead, reader>>

Stale(p) == proof[p].stale

\* An intent of the same observation is resumed.  Another one is removed,
\* unless its owner is still the run's.
ResumeIntent(p) ==
  /\ pc[p] = "recovering" /\ intent # None
  /\ \/ intent = proof[p] /\ Go(p, "recovering", "intended") /\ UNCHANGED intent
     \/ /\ intent # proof[p] /\ state.owner = intent.stale
        /\ Go(p, "recovering", "unlocking") /\ UNCHANGED intent
     \/ /\ intent # proof[p] /\ state.owner # intent.stale
        /\ p \notin dead /\ intent' = None /\ UNCHANGED pc
  /\ UNCHANGED <<files, lock, recovery, quarantine, dead, local, judged, reader>>

\* The proof must name both the visible lock, if there is one, and the owner.
PublishIntent(p) ==
  /\ pc[p] = "recovering" /\ intent = None
  /\ IF lock \in {None, Stale(p)} /\ state.owner = Stale(p)
     THEN Go(p, "recovering", "intended") /\ intent' = proof[p]
     ELSE Go(p, "recovering", "unlocking") /\ UNCHANGED intent
  /\ UNCHANGED <<files, lock, recovery, quarantine, dead, local, judged, reader>>

LockKind(p) == IF lock = Stale(p) THEN "stale" ELSE "replacement"

\* Only the dead owner's own lock can be put aside.
StaysStrict(p) == lock \notin {None, Stale(p)}

\* A lock that must stay where it is: its holder lives, or its place in the
\* quarantine is taken.
Stays(p) == lock # None /\ (~FoundDead(lock) \/ <<LockKind(p), lock>> \in quarantine)

\* The stale lock, or the lock of a successor that died before it attached, is
\* put aside; a live holder ends the recovery.
QuarantineLock(p) ==
  /\ pc[p] = "intended"
  /\ LET missing == lock \notin {None, Stale(p)} /\ <<"stale", Stale(p)>> \notin quarantine
     IN IF state.owner # Stale(p) \/ ~FoundDead(Stale(p)) \/ Stays(p)
        THEN Go(p, "intended", "unlocking") /\ UNCHANGED <<lock, quarantine>>
        ELSE /\ Go(p, "intended", IF missing THEN "unlocking" ELSE "cleared")
             /\ lock' = None
             /\ quarantine' = quarantine
                  \cup (IF lock = None THEN {} ELSE {<<LockKind(p), lock>>})
                  \cup (IF missing THEN {} ELSE {<<"stale", Stale(p)>>})
  /\ UNCHANGED <<files, recovery, intent, dead, local, judged, reader>>

\* publishLock(newLock, true) does not look for a recovery: it is the recovery.
Replace(p) ==
  /\ pc[p] = "cleared"
  /\ IF lock = None
     THEN Go(p, "cleared", "attaching") /\ lock' = p
     ELSE Go(p, "cleared", "unlocking") /\ UNCHANGED lock
  /\ UNCHANGED <<files, recovery, intent, quarantine, dead, local, judged, reader>>

\* The reducer takes the attachment only at the snapshot it was made for.
Attach(p) ==
  /\ pc[p] = "attaching"
  /\ Go(p, "attaching", IF state = mem[p] THEN "loaded" ELSE "releasing")
  /\ UNCHANGED <<files, locks, dead, local, judged, reader>>

Attached(p) == state # None /\ state.owner = p

\* finally: the replacement lock, the intent if the owner was replaced, and
\* the recovery lock, in this order.
ReleaseReplacement(p) ==
  /\ op[p] = "recover"
  /\ Go(p, "releasing", IF Attached(p) THEN "settling" ELSE "unlocking")
  /\ lock' = IF lock = p THEN None ELSE lock
  /\ UNCHANGED <<files, recovery, intent, quarantine, dead, local, judged, reader>>

RemoveIntent(p) ==
  /\ Go(p, "settling", "unlocking")
  /\ intent' = None
  /\ UNCHANGED <<files, lock, recovery, quarantine, dead, local, judged, reader>>

UnlockRecovery(p) ==
  /\ Go(p, "unlocking", "idle")
  /\ recovery' = IF recovery = p THEN None ELSE recovery
  /\ Forget(p)
  /\ UNCHANGED <<files, lock, intent, quarantine, dead, reader>>

-----------------------------------------------------------------------------
(* read(), with no lock held.                                              *)

\* The archive of the snapshot that was read, and that of its predecessor.
Backed(raw) ==
  /\ raw \in archives
  /\ raw.log # << >> =>
       \E s \in archives : s.log = SubSeq(raw.log, 1, Len(raw.log) - 1)

ReadState ==
  /\ reader.at \in {"idle", "done"} /\ state # None
  /\ reader' = [at |-> "read", raw |-> state, tries |-> 0]
  /\ UNCHANGED <<files, locks, dead, pc, local, judged>>

\* A snapshot without its archives is corrupt if the state file still holds
\* it; if not, the reader starts again, three times at most.
ReadArchives ==
  /\ reader.at = "read"
  /\ reader' =
       CASE Backed(reader.raw) -> [at |-> "done", raw |-> None, tries |-> 0]
         [] ~Backed(reader.raw) /\ state # reader.raw /\ reader.tries < 3 ->
              [reader EXCEPT !.raw = state, !.tries = @ + 1]
         [] ~Backed(reader.raw) /\ state # reader.raw /\ reader.tries = 3 ->
              [at |-> "done", raw |-> None, tries |-> 0]
         [] OTHER -> [reader EXCEPT !.at = "corrupt"]
  /\ UNCHANGED <<files, locks, dead, pc, local, judged>>

-----------------------------------------------------------------------------
Dies(p) ==
  /\ p \notin dead
  /\ dead' = dead \cup {p}
  /\ pc' = [pc EXCEPT ![p] = "idle"]
  /\ Forget(p)
  /\ UNCHANGED <<files, locks, reader>>

Call(p) ==
  \/ Prepare(p) \/ ClearInitializationLock(p) \/ Enter(p) \/ Publish(p)
  \/ PublishFails(p) \/ Recheck(p) \/ Load(p) \/ Archive(p) \/ Write(p)
  \/ Prune(p) \/ Release(p)
Recover(p) ==
  \/ LockRecovery(p) \/ ClearRecoveryLock(p) \/ RelockRecovery(p)
  \/ ResumeIntent(p) \/ PublishIntent(p) \/ QuarantineLock(p) \/ Replace(p)
  \/ Attach(p) \/ ReleaseReplacement(p) \/ RemoveIntent(p) \/ UnlockRecovery(p)

Next ==
  \/ \E p \in Proc :
       \/ \E call \in {"initialize", "attach", "mutate"} : Begin(p, call)
       \/ \E at \in Times : Prove(p, at)
       \/ Call(p) \/ Recover(p) \/ Dies(p)
  \/ ReadState \/ ReadArchives

Spec == Init /\ [][Next]_vars

\* A call that began runs to its end, and the sessions that are left keep
\* asking for the run of a dead owner.
FairSpec ==
  /\ Spec
  /\ \A p \in Proc : /\ WF_vars(Call(p) \/ Recover(p))
                     /\ WF_vars(\E at \in Times : Prove(p, at))
-----------------------------------------------------------------------------
TypeOK ==
  /\ lock \in Proc \cup {None} /\ recovery \in Proc \cup {None}
  /\ intent \in [stale : Proc, at : Times] \cup {None}
  /\ dead \subseteq Proc

\* Every published snapshot is the one before it and one more entry, and names
\* another owner only if the one before had none or it is dead: two processes
\* never write from the same snapshot, whoever is thought dead.
EachWriteExtends ==
  [][state' # state =>
       \/ state = None /\ state' = Genesis
       \/ /\ state # None
          /\ \E p \in Proc : state' = Written(state, p)
          /\ state.owner \in dead \cup {None, state'.owner}]_vars

\* A reader that holds no lock never takes a run for corrupt because it was
\* written to while it read.
ReadersAreNotMisled == reader.at # "corrupt"

OwnerDead == state # None /\ state.owner \in dead

\* The run of a dead owner gets a live one as long as a process is left,
\* whoever else dies during the recovery and wherever.
DeadOwnerIsReplaced ==
  OwnerDead ~> (~OwnerDead \/ dead = Proc)
=============================================================================
