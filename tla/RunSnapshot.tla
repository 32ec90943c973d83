----------------------------- MODULE RunSnapshot -----------------------------
(***************************************************************************)
(* The one snapshot of a V1 run, whoever owns the run, and what those who  *)
(* write and read it may rely on.                                          *)
(***************************************************************************)
EXTENDS Sequences

CONSTANTS Nobody, Proc, Starters, Times, MaxRevision

\* Nobody stands for no process and for no snapshot.
ASSUME NobodyAssumption ==
  Nobody \notin Proc /\ Nobody \notin [owner : Proc \cup {Nobody}, log : Seq(Proc)]

VARIABLES state, archives, lock, recovery, intent, quarantine, dead, pc, op, mem, proof, judged,
          reader

Owner == INSTANCE OwnerRecoveryV1 WITH None <- Nobody

\* Whoever writes extends the newest snapshot, and whoever reads without a lock gets one that
\* was published and the archives it names.
SnapshotsAreSafe ==
  Owner!EachWriteExtends /\ [](Owner!TypeOK /\ Owner!ReadersAreNotMisled)
=============================================================================
