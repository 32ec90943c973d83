------------------------------ MODULE FileLock ------------------------------
(***************************************************************************)
(* The locks of this repository are directories.  A process prepares a     *)
(* claim, a directory that holds its identity (token, pid, start of the    *)
(* process), and renames it to the path of the lock: the rename fails as   *)
(* long as a directory with something in it stands there.  The lock of a   *)
(* process that died is recovered by renaming it away.                     *)
(*                                                                         *)
(* Three protocols do so, and `kind' says which one this lock follows:     *)
(*   "model"    project-model/persistence.ts: recovery has a lock of its   *)
(*              own; what was retired is removed; who cannot get in waits; *)
(*   "session"  worker-runtime/core.mjs: the same, but what was retired is *)
(*              kept under the name of its token, and nobody waits;        *)
(*   "plan"     planning/store.ts: no recovery lock, one attempt to        *)
(*              recover, and the lock is removed in place.                 *)
(*                                                                         *)
(* A process stands for the claims it makes: sameOwner() distinguishes two *)
(* claims of one process, but only those of a dead one are ever recovered, *)
(* and a dead process has no second claim at the same path.  Sizes of      *)
(* delays, the deadline and the number of passes are left out: whoever may *)
(* try again may also give up.                                             *)
(***************************************************************************)
EXTENDS Naturals, FiniteSets

CONSTANTS Proc,       \* the processes that ever use the lock
          Nobody,     \* the content of a path where nothing is
          Empty,      \* a directory whose owner file is already removed
          Kinds,      \* the protocols looked at
          MaxDeaths   \* bound: how many processes die in the end

ASSUME LockAssumption ==
    /\ Nobody \notin Proc /\ Empty \notin Proc /\ Nobody # Empty
    /\ Kinds \subseteq {"model", "session", "plan"}
    /\ MaxDeaths \in Nat

VARIABLES kind,   \* the protocol of this lock
          path,   \* what stands at the path of the lock and of the recovery lock
          tombs,  \* names under which a retired directory still stands
          pc,     \* the next step of every process
          seen,   \* the owner a process has read and acts upon
          again,  \* a recoverer that has released the recovery lock tries again
          dead    \* the processes that are no more

lockVars == <<kind, path, tombs, pc, seen, again, dead>>

Paths == {"lock", "recovery"}

\* Steps of acquire, of the recovery of a recovery lock, of the recovery of a
\* lock, and of release, in the order of the source.
Steps == {"out", "findRecoverer", "judgeRecoverer", "rereadRecoverer", "retireRecoverer",
          "forgetRecoverer", "claim", "claimAgain", "findOwner", "judgeOwner", "claimRecovery",
          "rereadOwner", "retireOwner", "forgetOwner", "checkRecovery", "dropRecovery",
          "inside", "checkOwn", "dropOwn", "unlinkOwn", "rmdirOwn"}

\* A process at one of these steps has taken the recovery lock.
Recovering == {"rereadOwner", "retireOwner", "forgetOwner", "checkRecovery", "dropRecovery"}

\* A process at one of these steps may do what the lock protects.
Holding == {"inside"}

TypeOK ==
    /\ kind \in Kinds
    /\ path \in [Paths -> Proc \cup {Nobody, Empty}]
    /\ tombs \subseteq Paths \X Proc
    /\ pc \in [Proc -> Steps]
    /\ seen \in [Proc -> Proc \cup {Nobody}]
    /\ again \in [Proc -> BOOLEAN]
    /\ dead \subseteq Proc

\* Earlier processes may have died inside or while recovering one that had; what
\* they left is where they left it.
Init ==
    /\ kind \in Kinds
    /\ tombs = {}
    /\ seen = [p \in Proc |-> Nobody]
    /\ again = [p \in Proc |-> FALSE]
    /\ \E w, r \in Proc \cup {Nobody} :
          /\ r # Nobody => w # Nobody /\ r # w /\ kind # "plan"
          /\ path = [d \in Paths |-> IF d = "lock" THEN w ELSE r]
          /\ dead = {w, r} \ {Nobody}
          /\ pc = [p \in Proc |-> CASE p = w -> "inside"
                                    [] p = r -> "rereadOwner"
                                    [] OTHER -> "out"]

----------------------------------------------------------------------------
Waits == kind = "model"          \* loops until its deadline instead of throwing
First == IF kind = "plan" THEN "claim" ELSE "findRecoverer"

\* At these steps a process acts upon the owner it has read, at these it knows what
\* it does once it has given back the recovery lock; later it knows neither.
Acting == {"judgeRecoverer", "rereadRecoverer", "retireRecoverer", "forgetRecoverer",
           "judgeOwner", "claimRecovery", "rereadOwner", "retireOwner", "forgetOwner"}
Returning == {"forgetOwner", "checkRecovery", "dropRecovery"}

Move(p, step, owner, retry) ==
    /\ pc' = [pc EXCEPT ![p] = step]
    /\ seen' = [seen EXCEPT ![p] = IF step \in Acting THEN owner ELSE Nobody]
    /\ again' = [again EXCEPT ![p] = retry /\ step \in Returning]

Goto(p, step) == Move(p, step, seen[p], again[p])
Free(d) == path[d] \in {Nobody, Empty}

\* The next pass of acquire: its loop goes on, or its passes or time are used up.
NextPass(p) == \/ Goto(p, First)
               \/ Goto(p, "out")

\* The lock is not to be had now: a waiter tries again, the others throw.
TurnedAway(p) == IF Waits THEN NextPass(p) ELSE Goto(p, "out")

\* rename(): whatever stands at d goes to the name of the owner that was read.
MoveAway(p, d) ==
    /\ path' = [path EXCEPT ![d] = Nobody]
    /\ tombs' = tombs \cup {<<d, seen[p]>>}

----------------------------------------------------------------------------
(* Acquire. *)

Begin(p) ==
    /\ pc[p] = "out"
    /\ Goto(p, First)
    /\ UNCHANGED <<kind, path, tombs, dead>>

\* The recovery lock of a dead recoverer is looked for first.
FindRecoverer(p) ==
    /\ pc[p] = "findRecoverer"
    /\ IF path["recovery"] = Nobody
       THEN Goto(p, "claim")
       ELSE Move(p, "judgeRecoverer", path["recovery"], FALSE)
    /\ UNCHANGED <<kind, path, tombs, dead>>

\* Mistake: whoever holds the recovery lock is taken to be alive.
JudgeRecovererAlive(p) ==
    /\ pc[p] = "judgeRecoverer"
    /\ Goto(p, IF Waits THEN "claim" ELSE "out")
    /\ UNCHANGED <<kind, path, tombs, dead>>

JudgeRecoverer(p) ==
    /\ pc[p] = "judgeRecoverer"
    /\ CASE seen[p] \in dead -> Goto(p, "rereadRecoverer")
         [] seen[p] \notin dead /\ Waits -> Goto(p, "claim")
         [] OTHER -> Goto(p, "out")
    /\ UNCHANGED <<kind, path, tombs, dead>>

RereadRecoverer(p) ==
    /\ pc[p] = "rereadRecoverer"
    /\ CASE path["recovery"] = seen[p] -> Goto(p, "retireRecoverer")
         [] path["recovery"] # seen[p] /\ Waits -> Goto(p, "claim")
         [] OTHER -> Goto(p, "out")
    /\ UNCHANGED <<kind, path, tombs, dead>>

\* Nothing keeps another process from retiring the same lock, and from taking it,
\* before this rename.  If the name of the tomb is taken, the rename throws.
RetireRecoverer(p) ==
    /\ pc[p] = "retireRecoverer"
    /\ \/ /\ path["recovery"] # Nobody
          /\ <<"recovery", seen[p]>> \notin tombs
          /\ MoveAway(p, "recovery")
          /\ Goto(p, IF kind = "model" THEN "forgetRecoverer" ELSE "claim")
       \/ /\ path["recovery"] = Nobody
          /\ Goto(p, "claim")
          /\ UNCHANGED <<path, tombs>>
       \/ /\ path["recovery"] # Nobody
          /\ <<"recovery", seen[p]>> \in tombs
          /\ Goto(p, "out")
          /\ UNCHANGED <<path, tombs>>
    /\ UNCHANGED <<kind, dead>>

\* Only the protocol of the project model removes what it has retired.
ForgetRecoverer(p) ==
    /\ pc[p] = "forgetRecoverer"
    /\ tombs' = tombs \ {<<"recovery", seen[p]>>}
    /\ Goto(p, "claim")
    /\ UNCHANGED <<kind, path, dead>>

\* The claim replaces nothing or an empty directory.
Claim(p) ==
    /\ pc[p] \in {"claim", "claimAgain"}
    /\ IF Free("lock")
       THEN /\ path' = [path EXCEPT !["lock"] = p]
            /\ Goto(p, "inside")
       ELSE /\ Goto(p, IF pc[p] = "claim" THEN "findOwner" ELSE "out")
            /\ UNCHANGED path
    /\ UNCHANGED <<kind, tombs, dead>>

----------------------------------------------------------------------------
(* Recovery of the lock of a dead owner. *)

FindOwner(p) ==
    /\ pc[p] = "findOwner"
    /\ CASE path["lock"] \in Proc ->
              Move(p, "judgeOwner", path["lock"], FALSE)
         [] path["lock"] \notin Proc /\ kind = "plan" -> Goto(p, "out")
         [] OTHER -> NextPass(p)
    /\ UNCHANGED <<kind, path, tombs, dead>>

JudgeOwner(p) ==
    /\ pc[p] = "judgeOwner"
    /\ CASE seen[p] \in dead -> Goto(p, IF kind = "plan" THEN "retireOwner" ELSE "claimRecovery")
         [] OTHER -> TurnedAway(p)
    /\ UNCHANGED <<kind, path, tombs, dead>>

ClaimRecovery(p) ==
    /\ pc[p] = "claimRecovery"
    /\ IF path["recovery"] = Nobody
       THEN /\ path' = [path EXCEPT !["recovery"] = p]
            /\ Goto(p, "rereadOwner")
       ELSE /\ TurnedAway(p)
            /\ UNCHANGED path
    /\ UNCHANGED <<kind, tombs, dead>>

\* Mistake: what was read before the recovery lock was taken is not read again.
RereadOwnerTrusting(p) ==
    /\ pc[p] = "rereadOwner"
    /\ Goto(p, "retireOwner")
    /\ UNCHANGED <<kind, path, tombs, dead>>

\* The owner is read again under the recovery lock: somebody else may have
\* recovered the lock in the meantime.
RereadOwner(p) ==
    /\ pc[p] = "rereadOwner"
    /\ IF path["lock"] = seen[p]
       THEN Goto(p, "retireOwner")
       ELSE Move(p, "checkRecovery", Nobody, Waits)
    /\ UNCHANGED <<kind, path, tombs, dead>>

\* For a plan this is rename(lockPath, abandoned), whose name is new each time.
RetireOwner(p) ==
    /\ pc[p] = "retireOwner"
    /\ \/ /\ kind = "plan"
          /\ path' = [path EXCEPT !["lock"] = Nobody]
          /\ Goto(p, "claimAgain")
          /\ UNCHANGED tombs
       \/ /\ kind # "plan"
          /\ path["lock"] # Nobody
          /\ <<"lock", seen[p]>> \notin tombs
          /\ MoveAway(p, "lock")
          /\ Move(p, IF kind = "model" THEN "forgetOwner" ELSE "checkRecovery", seen[p], TRUE)
       \/ /\ kind # "plan"
          /\ \/ path["lock"] = Nobody
             \/ <<"lock", seen[p]>> \in tombs
          /\ Move(p, "checkRecovery", Nobody, Waits /\ path["lock"] = Nobody)
          /\ UNCHANGED <<path, tombs>>
    /\ UNCHANGED <<kind, dead>>

ForgetOwner(p) ==
    /\ pc[p] = "forgetOwner"
    /\ tombs' = tombs \ {<<"lock", seen[p]>>}
    /\ Goto(p, "checkRecovery")
    /\ UNCHANGED <<kind, path, dead>>

\* The recovery lock is released like any lock: by its owner only.
CheckRecovery(p) ==
    /\ pc[p] = "checkRecovery"
    /\ Goto(p, IF path["recovery"] = p THEN "dropRecovery" ELSE "out")
    /\ UNCHANGED <<kind, path, tombs, dead>>

DropRecovery(p) ==
    /\ pc[p] = "dropRecovery"
    /\ path' = [path EXCEPT !["recovery"] = Nobody]
    /\ IF again[p] /\ path["recovery"] # Nobody THEN NextPass(p) ELSE Goto(p, "out")
    /\ UNCHANGED <<kind, tombs, dead>>

----------------------------------------------------------------------------
(* Release.  Two protocols check that the lock is still theirs and rename  *)
(* it; the third removes whatever stands at the path, its contents first.  *)

Leave(p) ==
    /\ pc[p] = "inside"
    /\ Goto(p, IF kind = "plan" THEN "unlinkOwn" ELSE "checkOwn")
    /\ UNCHANGED <<kind, path, tombs, dead>>

CheckOwn(p) ==
    /\ pc[p] = "checkOwn"
    /\ Goto(p, IF path["lock"] = p THEN "dropOwn" ELSE "out")
    /\ UNCHANGED <<kind, path, tombs, dead>>

DropOwn(p) ==
    /\ pc[p] = "dropOwn"
    /\ path' = [path EXCEPT !["lock"] = Nobody]
    /\ Goto(p, "out")
    /\ UNCHANGED <<kind, tombs, dead>>

UnlinkOwn(p) ==
    /\ pc[p] = "unlinkOwn"
    /\ path' = [path EXCEPT !["lock"] = IF @ = Nobody THEN Nobody ELSE Empty]
    /\ Goto(p, "rmdirOwn")
    /\ UNCHANGED <<kind, tombs, dead>>

\* A directory that somebody claimed after it had become empty stays.
RmdirOwn(p) ==
    /\ pc[p] = "rmdirOwn"
    /\ path' = [path EXCEPT !["lock"] = IF @ = Empty THEN Nobody ELSE @]
    /\ Goto(p, "out")
    /\ UNCHANGED <<kind, tombs, dead>>

----------------------------------------------------------------------------
\* A process dies between two of its steps and leaves everything where it is.
Dies(p) ==
    /\ pc[p] # "out"
    /\ Cardinality(dead) < MaxDeaths
    /\ dead' = dead \cup {p}
    /\ seen' = [seen EXCEPT ![p] = Nobody]
    /\ again' = [again EXCEPT ![p] = FALSE]
    /\ UNCHANGED <<kind, path, tombs, pc>>

\* Everything but what is done under the lock.
LockStep(p) ==
    \/ Begin(p) \/ FindRecoverer(p) \/ JudgeRecoverer(p) \/ RereadRecoverer(p)
    \/ RetireRecoverer(p) \/ ForgetRecoverer(p) \/ Claim(p)
    \/ FindOwner(p) \/ JudgeOwner(p) \/ ClaimRecovery(p) \/ RereadOwner(p)
    \/ RetireOwner(p) \/ ForgetOwner(p) \/ CheckRecovery(p) \/ DropRecovery(p)
    \/ CheckOwn(p) \/ DropOwn(p) \/ UnlinkOwn(p) \/ RmdirOwn(p)

LockNext ==
    \E p \in Proc \ dead : LockStep(p) \/ Leave(p) \/ Dies(p)

LockSpec == Init /\ [][LockNext]_lockVars

\* A process that lives goes on, and asks for the lock again and again.
FairLockSpec ==
    /\ LockSpec
    /\ \A p \in Proc : WF_lockVars(p \notin dead /\ (LockStep(p) \/ Leave(p)))

----------------------------------------------------------------------------
(* What the lock is for. *)

Inside == {p \in Proc \ dead : pc[p] \in Holding}
Exclusive == \A p, q \in Inside : p = q

\* The lock of a dead owner is recovered while nobody else has started to: no other
\* process was ever retired while it lived.
Sound ==
    CASE kind = "session" -> TRUE
      [] kind = "model" -> \A p \in dead : pc[p] \notin Recovering
      [] OTHER -> dead = {}

\* Two processes are never inside at the same time.  The worker session's lock
\* promises so whoever dies when; the project model's unless a recoverer dies
\* holding the recovery lock; the planning store's unless somebody dies at all.
LockIsExclusive == Sound => Exclusive

\* A lock does not stay with a dead owner as long as somebody asks for it, even if
\* recoverers die as well.
DeadLockGoes == path["lock"] \in dead ~> path["lock"] \notin dead
=============================================================================
