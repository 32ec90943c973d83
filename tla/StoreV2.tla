------------------------------- MODULE StoreV2 -------------------------------
(***************************************************************************)
(* runtime-v2/store.ts: the single-file snapshot store every V2 component  *)
(* publishes through.  A transaction takes an exclusive flock without      *)
(* waiting, loads state.json, makes what it loaded durable, runs the       *)
(* caller's update, and publishes by writing and syncing a temporary file, *)
(* renaming it over state.json and syncing the directories.                *)
(*                                                                         *)
(* The contents of the snapshot are abstracted to the sequence of updates  *)
(* it holds, one entry per publication named by its writer, so that the    *)
(* snapshot's revision counter is the length of the sequence.  The file    *)
(* system keeps two versions of the name state.json: the one every open    *)
(* sees, and the one a power loss would leave.                             *)
(***************************************************************************)
EXTENDS Naturals, Sequences

CONSTANTS
  Procs,        \* processes that use the store
  NoProc,       \* the lock is free
  MaxRevision   \* bound: publications are cut off at this revision

ASSUME StoreAssumption == NoProc \notin Procs /\ MaxRevision \in Nat

VARIABLES
  visible,   \* contents of state.json as any process would read it now
  durable,   \* contents of state.json after a power loss now
  lock,      \* holder of the flock on writer.lock
  pc,        \* where each process is inside transaction()
  mem,       \* the snapshot object of each process's transaction
  view,      \* what each process's last read() returned
  acked      \* the longest snapshot a returned transaction was based on

vars == <<visible, durable, lock, pc, mem, view, acked>>

Snapshots == Seq(Procs)

\* The places at which a transaction can be interrupted.  They are the
\* failpoints of the code, with "ready" while the caller's update runs.
Phases == {"idle", "locked", "loaded", "ready", "tempSynced", "renamed"}

TypeOK ==
  /\ visible \in Snapshots
  /\ durable \in Snapshots
  /\ lock \in Procs \cup {NoProc}
  /\ pc \in [Procs -> Phases]
  /\ mem \in [Procs -> Snapshots]
  /\ view \in [Procs -> Snapshots]
  /\ acked \in Snapshots

Revision(s) == Len(s)

\* t holds every update s holds, in the same order.
Extends(t, s) == /\ Len(s) <= Len(t)
                 /\ \A i \in 1..Len(s) : s[i] = t[i]

Init ==
  /\ visible = << >>
  /\ durable = << >>
  /\ lock = NoProc
  /\ pc = [p \in Procs |-> "idle"]
  /\ mem = [p \in Procs |-> << >>]
  /\ view = [p \in Procs |-> << >>]
  /\ acked = << >>

Go(p, from, to) == pc[p] = from /\ pc' = [pc EXCEPT ![p] = to]

\* lock.close() in the finally block: closing the descriptor drops the flock.
Release(p) == lock' = NoProc

-----------------------------------------------------------------------------
(* Mistakes an edit of store.ts could make; the runs show that the         *)
(* properties below notice each of them.                                   *)

\* The flock is shared instead of exclusive.
LockShared(p) ==
  /\ Go(p, "idle", "locked")
  /\ lock' = p
  /\ UNCHANGED <<visible, durable, mem, view, acked>>

\* A missing state.json is loaded as something other than the empty snapshot.
LoadMissingAsGarbage(p) ==
  /\ Go(p, "locked", "loaded")
  /\ mem' = [mem EXCEPT ![p] = IF visible = << >> THEN <<NoProc>> ELSE visible]
  /\ UNCHANGED <<visible, durable, lock, view, acked>>

\* The directory is synced only after a publication of one's own.
SyncLoadedSkipped(p) ==
  /\ Go(p, "loaded", "ready")
  /\ UNCHANGED <<visible, durable, lock, mem, view, acked>>

\* Only the file is synced after the rename, not its directory.
SyncPublishedSkipped(p) ==
  /\ Go(p, "renamed", "ready")
  /\ UNCHANGED <<visible, durable, lock, mem, view, acked>>

\* An exception leaves the lock's descriptor open.
ThrowWithoutClose(p) ==
  /\ pc[p] # "idle"
  /\ pc' = [pc EXCEPT ![p] = "idle"]
  /\ UNCHANGED <<visible, durable, lock, mem, view, acked>>

-----------------------------------------------------------------------------
(* read(): no lock is taken; the rename makes it see one whole version.    *)
Read(p) ==
  /\ pc[p] = "idle"
  /\ view' = [view EXCEPT ![p] = visible]
  /\ UNCHANGED <<visible, durable, lock, pc, mem, acked>>

\* flock --exclusive --nonblock: STORE_BUSY changes nothing and is not a step.
Lock(p) ==
  /\ Go(p, "idle", "locked")
  /\ lock = NoProc
  /\ lock' = p
  /\ UNCHANGED <<visible, durable, mem, view, acked>>

Load(p) ==
  /\ Go(p, "locked", "loaded")
  /\ mem' = [mem EXCEPT ![p] = visible]
  /\ UNCHANGED <<visible, durable, lock, view, acked>>

\* anchor.sync() before the update: an earlier writer may have died between
\* its rename and its directory sync.
SyncLoaded(p) ==
  /\ Go(p, "loaded", "ready")
  /\ durable' = visible
  /\ UNCHANGED <<visible, lock, mem, view, acked>>

\* publish(): revision++ on the in-memory snapshot, temporary file written and
\* synced.  An update may publish several times in one transaction.
WriteTemp(p) ==
  /\ Go(p, "ready", "tempSynced")
  /\ Revision(mem[p]) < MaxRevision
  /\ mem' = [mem EXCEPT ![p] = Append(@, p)]
  /\ UNCHANGED <<visible, durable, lock, view, acked>>

Rename(p) ==
  /\ Go(p, "tempSynced", "renamed")
  /\ visible' = mem[p]
  /\ UNCHANGED <<durable, lock, mem, view, acked>>

SyncPublished(p) ==
  /\ Go(p, "renamed", "ready")
  /\ durable' = visible
  /\ UNCHANGED <<visible, lock, mem, view, acked>>

\* The update returned, whether or not it published: the caller is told.
Return(p) ==
  /\ Go(p, "ready", "idle")
  /\ Release(p)
  /\ acked' = mem[p]
  /\ UNCHANGED <<visible, durable, mem, view>>

\* The update, an audit, an identity check or a file operation throws: the
\* finally blocks unlink an unrenamed temporary file and drop the lock.  What
\* was renamed stays renamed although the caller sees an error.
Throw(p) ==
  /\ pc[p] # "idle"
  /\ pc' = [pc EXCEPT ![p] = "idle"]
  /\ Release(p)
  /\ UNCHANGED <<visible, durable, mem, view, acked>>

-----------------------------------------------------------------------------
(* The environment.                                                        *)

\* The process dies; the kernel drops its flock, the page cache survives.  The
\* process that takes its place has read nothing yet.
ProcessDies(p) ==
  /\ pc' = [pc EXCEPT ![p] = "idle"]
  /\ lock' = IF lock = p THEN NoProc ELSE lock
  /\ view' = [view EXCEPT ![p] = << >>]
  /\ UNCHANGED <<visible, durable, mem, acked>>

\* The kernel writes the directory back on its own.
Writeback ==
  /\ durable' = visible
  /\ UNCHANGED <<visible, lock, pc, mem, view, acked>>

PowerLoss ==
  /\ visible' = durable
  /\ pc' = [p \in Procs |-> "idle"]
  /\ lock' = NoProc
  /\ view' = [p \in Procs |-> << >>]
  /\ UNCHANGED <<durable, mem, acked>>

Step(p) ==
  \/ Load(p) \/ SyncLoaded(p) \/ WriteTemp(p) \/ Rename(p)
  \/ SyncPublished(p) \/ Return(p)

Next ==
  \/ \E p \in Procs : Read(p) \/ Lock(p) \/ Step(p) \/ Throw(p) \/ ProcessDies(p)
  \/ Writeback
  \/ PowerLoss

Spec == Init /\ [][Next]_vars

\* A process that is not killed runs its transaction on: every await inside
\* transaction() is a file operation that completes, and the caller's update
\* returns after finitely many publications (here at most MaxRevision).
FairSpec == Spec /\ \A p \in Procs : WF_vars(Step(p))

-----------------------------------------------------------------------------
(* Properties.                                                             *)

\* Whatever a returned transaction was based on survives a power loss, also
\* when the transaction published nothing and merely replayed an update whose
\* writer died between rename and directory sync (store.ts:127-129).
AckedIsDurable == Extends(durable, acked)

\* At most one update is ever in doubt: a writer only renames over a version
\* that is already durable.
OneUpdateInDoubt == /\ Extends(visible, durable)
                    /\ Len(visible) <= Len(durable) + 1

\* A revision number identifies the snapshot a living process read, so that
\* comparing revisions (service.ts cas) compares contents.
RevisionIdentifiesSnapshot ==
  \A p \in Procs : Extends(visible, view[p])

\* No step, power loss included, takes back a promised update.
DurableOnlyGrows == [][Extends(durable', durable)]_vars

\* The lock is not leaked: whoever takes it gives it back, whatever its update,
\* an audit or a file operation throws, so that STORE_BUSY is never permanent.
TransactionsEnd == []<>(lock = NoProc)

Register == INSTANCE SnapshotRegister
              WITH Writers <- Procs, log <- durable, promised <- acked

\* The store implements the crash-free register.
ImplementsRegister == Register!Spec
=============================================================================
