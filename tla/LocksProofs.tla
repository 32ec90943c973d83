----------------------------- MODULE LocksProofs -----------------------------
(***************************************************************************)
(* What the locks keep and what is kept under them, for any number of      *)
(* processes, deaths, revisions and files: each of the three protocols     *)
(* excludes as far as it can, the planning store's history is the past of  *)
(* its head, and the generated files follow the project model.             *)
(***************************************************************************)
EXTENDS PlanningStore, ModelStore, TLAPS

Alive == Proc \ dead

\* What stands at the recovery lock has an owner, and only a recoverer of the project
\* model's lock forgets what it has retired.
PathsAgree ==
    /\ path["recovery"] # Empty
    /\ \A p \in Proc : pc[p] = "forgetOwner" => kind = "model"

\* Past the judgement the owner that is acted upon is a dead one.
JudgedIsDead ==
    \A p \in Alive :
       pc[p] \in {"rereadRecoverer", "retireRecoverer", "claimRecovery", "rereadOwner",
                  "retireOwner"} => seen[p] \in dead

\* From its claim until it lets go, the lock is that of the claimant.
HoldersOwn ==
    \A p \in Alive :
       pc[p] \in {"inside", "checkOwn", "dropOwn", "unlinkOwn"} => path["lock"] = p

\* Who is about to retire the lock of a dead owner still finds it there, or finds
\* the name taken under which it would be retired.
RetiredIsSeen ==
    \A p \in Alive :
       pc[p] = "retireOwner" =>
          \/ path["lock"] = seen[p]
          \/ kind = "session" /\ <<"lock", seen[p]>> \in tombs

\* The recovery lock of the project model is that of the one who recovers, and
\* nobody takes it away.
OneRecovers ==
    kind = "model" =>
       /\ path["recovery"] \in Proc => pc[path["recovery"]] \in Recovering
       /\ \A p \in Alive : pc[p] \in Recovering => path["recovery"] = p
       /\ \A p \in Alive : pc[p] # "retireRecoverer"

LockInv == /\ TypeOK /\ PathsAgree /\ JudgedIsDead
           /\ Sound => HoldersOwn /\ RetiredIsSeen /\ OneRecovers

----------------------------------------------------------------------------
(* The lock. *)

\* At first those who live are outside.
LEMMA InitLockInv == Init => LockInv /\ \A p \in Alive : pc[p] = "out"
<1>. SUFFICES ASSUME Init PROVE LockInv /\ \A p \in Alive : pc[p] = "out"
  OBVIOUS
<1>1. PICK w, r \in Proc \cup {Nobody} :
         /\ r # Nobody => w # Nobody /\ r # w /\ kind # "plan"
         /\ path = [d \in Paths |-> IF d = "lock" THEN w ELSE r]
         /\ dead = {w, r} \ {Nobody}
         /\ pc = [p \in Proc |-> CASE p = w -> "inside"
                                   [] p = r -> "rereadOwner"
                                   [] OTHER -> "out"]
  BY DEF Init
<1>2. \A p \in Proc :
         /\ p = w => pc[p] = "inside"
         /\ p = r => pc[p] = "rereadOwner"
         /\ p # w /\ p # r => pc[p] = "out"
  <2>. TAKE p \in Proc
  <2>1. CASE p = w
    BY <1>1, <2>1, LockAssumption
  <2>2. CASE p # w /\ p = r
    BY <1>1, <2>2, LockAssumption
  <2>3. CASE p # w /\ p # r
    BY <1>1, <2>3
  <2>. QED  BY <2>1, <2>2, <2>3
<1>3. TypeOK
  <2>1. pc \in [Proc -> Steps]
    BY <1>1 DEF Steps
  <2>. QED  BY <1>1, <2>1, LockAssumption DEF Init, TypeOK, Paths
<1>4. \A p \in Alive : pc[p] = "out"
  BY <1>1, <1>2, LockAssumption DEF Alive
<1>5. path["recovery"] = r /\ r # Empty
  BY <1>1, LockAssumption DEF Paths
<1>6. path["recovery"] \in Proc => pc[path["recovery"]] \in Recovering
  BY <1>1, <1>2, <1>5, LockAssumption DEF Recovering
<1>7. PathsAgree
  <2>1. \A p \in Proc : pc[p] # "forgetOwner"
    BY <1>2
  <2>. QED  BY <2>1, <1>5 DEF PathsAgree
<1>8. JudgedIsDead /\ HoldersOwn /\ RetiredIsSeen
  BY <1>4 DEF JudgedIsDead, HoldersOwn, RetiredIsSeen
<1>9. OneRecovers
  BY <1>4, <1>6 DEF OneRecovers, Recovering
<1>. QED  BY <1>3, <1>4, <1>7, <1>8, <1>9 DEF LockInv

\* A move changes the step of one process and what it has read, nothing else.
LEMMA MoveEffect ==
  ASSUME TypeOK, NEW p \in Proc, NEW step \in Steps, NEW owner \in Proc \cup {Nobody},
         NEW retry \in BOOLEAN, Move(p, step, owner, retry)
  PROVE  /\ pc' \in [Proc -> Steps] /\ seen' \in [Proc -> Proc \cup {Nobody}]
         /\ again' \in [Proc -> BOOLEAN]
         /\ pc'[p] = step /\ (step \in Acting => seen'[p] = owner)
         /\ \A q \in Proc : q # p => pc'[q] = pc[q] /\ seen'[q] = seen[q]
BY DEF Move, TypeOK

\* What the rest of the lock's proof needs to know of a step of p.
Moved(p) ==
    /\ pc' \in [Proc -> Steps] /\ seen' \in [Proc -> Proc \cup {Nobody}]
    /\ again' \in [Proc -> BOOLEAN]
    /\ \A q \in Proc : q # p => pc'[q] = pc[q] /\ seen'[q] = seen[q]
    /\ kind' = kind

LEMMA MoveIsMoved ==
  ASSUME TypeOK, NEW p \in Proc, kind' = kind
  PROVE  /\ \A s \in Steps : Goto(p, s) =>
               Moved(p) /\ pc'[p] = s /\ (s \in Acting => seen'[p] = seen[p])
         /\ \A s \in Steps, o \in Proc \cup {Nobody}, b \in BOOLEAN : Move(p, s, o, b) =>
               Moved(p) /\ pc'[p] = s /\ (s \in Acting => seen'[p] = o)
<1>1. seen[p] \in Proc \cup {Nobody} /\ again[p] \in BOOLEAN
  BY DEF TypeOK
<1>. QED  BY <1>1, MoveEffect DEF Goto, Moved

\* Steps at which the owner that was read must be a dead one.
Judged == {"rereadRecoverer", "retireRecoverer", "claimRecovery", "rereadOwner", "retireOwner"}

\* Steps at which a process has the lock and has not let go of it.
Owning == {"inside", "checkOwn", "dropOwn", "unlinkOwn"}

\* Whatever was sound after a step was sound before: the dead stay dead, where they died.
LEMMA SoundIsOlder ==
  ASSUME TypeOK, NEW p \in Alive, kind' = kind, dead \subseteq dead',
         \A q \in Proc : q # p => pc'[q] = pc[q], Sound'
  PROVE  Sound
<1>1. \A q \in dead : q \in Proc /\ q # p
  BY DEF TypeOK, Alive
<1>. QED  BY <1>1 DEF Sound

\* A step that moves p and touches no path: what p is now to know is all there is to show.
LEMMA OnlyMoves ==
  ASSUME LockInv, NEW p \in Alive, Moved(p), UNCHANGED <<path, tombs, dead>>,
         pc'[p] = "forgetOwner" => kind = "model",
         pc'[p] \in Judged => seen'[p] \in dead,
         Sound /\ pc'[p] \in Owning => path["lock"] = p,
         Sound /\ pc'[p] = "retireOwner" => path["lock"] = seen'[p],
         Sound /\ kind = "model" =>
            /\ pc'[p] \in Recovering <=> path["recovery"] = p
            /\ pc'[p] # "retireRecoverer"
  PROVE  LockInv'
<1>. USE DEF LockInv
<1>1. TypeOK'
  BY DEF TypeOK, Moved
<1>2. PathsAgree'
  BY DEF PathsAgree, Moved, Alive
<1>3. JudgedIsDead'
  BY DEF JudgedIsDead, Moved, Alive, Judged
<1>4. Sound' => Sound
  BY SoundIsOlder DEF Moved
<1>5. ASSUME Sound' PROVE HoldersOwn' /\ RetiredIsSeen' /\ OneRecovers'
  <2>. Sound /\ HoldersOwn /\ RetiredIsSeen /\ OneRecovers
    BY <1>4, <1>5
  <2>1. HoldersOwn'
    BY DEF HoldersOwn, Moved, Alive, Owning
  <2>2. RetiredIsSeen'
    BY DEF RetiredIsSeen, Moved, Alive
  <2>3. OneRecovers'
    BY DEF OneRecovers, Moved, Alive
  <2>. QED  BY <2>1, <2>2, <2>3
<1>. QED  BY <1>1, <1>2, <1>3, <1>5

\* What the invariant says of one process that lives.
LEMMA KnownOf ==
  ASSUME LockInv, NEW p \in Alive
  PROVE  /\ p \in Proc /\ p \notin dead /\ dead \subseteq Proc
         /\ pc[p] \in Judged => seen[p] \in dead
         /\ Sound /\ pc[p] \in Owning => path["lock"] = p
         /\ Sound /\ kind = "model" =>
               /\ pc[p] \in Recovering <=> path["recovery"] = p
               /\ pc[p] # "retireRecoverer"
BY DEF LockInv, Alive, JudgedIsDead, Judged, HoldersOwn, Owning, OneRecovers, TypeOK

\* Under the project model's lock no recoverer is a dead one as long as that is sound.
LEMMA RecovererLives ==
  ASSUME LockInv, Sound, kind = "model"
  PROVE  path["recovery"] \notin dead
BY DEF LockInv, OneRecovers, Sound, TypeOK

LEMMA MovesKeepLockInv ==
  ASSUME LockInv, NEW p \in Alive,
         \/ Begin(p) \/ FindRecoverer(p) \/ JudgeRecoverer(p) \/ RereadRecoverer(p)
         \/ FindOwner(p) \/ JudgeOwner(p) \/ RereadOwner(p) \/ CheckRecovery(p)
         \/ CheckOwn(p) \/ Leave(p)
  PROVE  LockInv'
<1>. TypeOK /\ p \in Proc /\ kind' = kind /\ UNCHANGED <<path, tombs, dead>>
  BY KnownOf DEF LockInv, Begin, FindRecoverer, JudgeRecoverer, RereadRecoverer, FindOwner,
                 JudgeOwner, RereadOwner, CheckRecovery, CheckOwn, Leave
<1>1. CASE Begin(p)
  <2>1. Moved(p) /\ pc'[p] \in {"claim", "findRecoverer"}
    BY <1>1, MoveIsMoved DEF Begin, First, Steps
  <2>. QED  BY <1>1, <2>1, KnownOf, OnlyMoves DEF Begin, Judged, Owning, Recovering
<1>2. CASE FindRecoverer(p)
  <2>1. path["recovery"] # Nobody => path["recovery"] \in Proc
    BY DEF LockInv, TypeOK, PathsAgree, Paths
  <2>2. Moved(p) /\ pc'[p] \in {"claim", "judgeRecoverer"}
    BY <1>2, <2>1, MoveIsMoved DEF FindRecoverer, Steps
  <2>. QED  BY <1>2, <2>2, KnownOf, OnlyMoves DEF FindRecoverer, Judged, Owning, Recovering
<1>3. CASE JudgeRecoverer(p)
  <2>1. /\ Moved(p) /\ pc'[p] \in {"claim", "rereadRecoverer", "out"}
        /\ pc'[p] = "rereadRecoverer" => seen[p] \in dead /\ seen'[p] = seen[p]
    BY <1>3, MoveIsMoved DEF JudgeRecoverer, Steps, Acting
  <2>. QED  BY <1>3, <2>1, KnownOf, OnlyMoves DEF JudgeRecoverer, Judged, Owning, Recovering
<1>4. CASE RereadRecoverer(p)
  <2>1. /\ Moved(p) /\ pc'[p] \in {"claim", "retireRecoverer", "out"}
        /\ pc'[p] = "retireRecoverer" => path["recovery"] = seen[p] /\ seen'[p] = seen[p]
    BY <1>4, MoveIsMoved DEF RereadRecoverer, Steps, Acting
  <2>2. seen[p] \in dead
    BY <1>4, KnownOf DEF RereadRecoverer, Judged
  <2>. QED  BY <1>4, <2>1, <2>2, KnownOf, RecovererLives, OnlyMoves
            DEF RereadRecoverer, Judged, Owning, Recovering
<1>5. CASE FindOwner(p)
  <2>1. Moved(p) /\ pc'[p] \in {"judgeOwner", "claim", "findRecoverer", "out"}
    BY <1>5, MoveIsMoved DEF FindOwner, NextPass, First, Steps
  <2>. QED  BY <1>5, <2>1, KnownOf, OnlyMoves DEF FindOwner, Judged, Owning, Recovering
<1>6. CASE JudgeOwner(p)
  <2>1. /\ Moved(p)
        /\ pc'[p] \in {"retireOwner", "claimRecovery", "claim", "findRecoverer", "out"}
        /\ pc'[p] \in Judged => seen[p] \in dead /\ seen'[p] = seen[p]
        /\ pc'[p] = "retireOwner" => kind = "plan"
    BY <1>6, MoveIsMoved DEF JudgeOwner, TurnedAway, NextPass, First, Steps, Acting, Judged
  <2>2. kind = "plan" /\ Sound => dead = {}
    BY DEF Sound
  <2>. QED  BY <1>6, <2>1, <2>2, KnownOf, OnlyMoves DEF JudgeOwner, Judged, Owning, Recovering
<1>7. CASE RereadOwner(p)
  <2>1. /\ Moved(p) /\ pc'[p] \in {"retireOwner", "checkRecovery"}
        /\ pc'[p] = "retireOwner" => path["lock"] = seen[p] /\ seen'[p] = seen[p]
    BY <1>7, MoveIsMoved DEF RereadOwner, Waits, Steps, Acting
  <2>. QED  BY <1>7, <2>1, KnownOf, OnlyMoves DEF RereadOwner, Judged, Owning, Recovering
<1>8. CASE CheckRecovery(p)
  <2>1. Moved(p) /\ pc'[p] = IF path["recovery"] = p THEN "dropRecovery" ELSE "out"
    BY <1>8, MoveIsMoved DEF CheckRecovery, Steps
  <2>. QED  BY <1>8, <2>1, KnownOf, OnlyMoves DEF CheckRecovery, Judged, Owning, Recovering
<1>9. CASE CheckOwn(p)
  <2>1. Moved(p) /\ pc'[p] = IF path["lock"] = p THEN "dropOwn" ELSE "out"
    BY <1>9, MoveIsMoved DEF CheckOwn, Steps
  <2>. QED  BY <1>9, <2>1, KnownOf, OnlyMoves DEF CheckOwn, Judged, Owning, Recovering
<1>10. CASE Leave(p)
  <2>1. Moved(p) /\ pc'[p] \in {"unlinkOwn", "checkOwn"}
    BY <1>10, MoveIsMoved DEF Leave, Steps
  <2>. QED  BY <1>10, <2>1, KnownOf, OnlyMoves DEF Leave, Judged, Owning, Recovering
<1>. QED  BY <1>1, <1>2, <1>3, <1>4, <1>5, <1>6, <1>7, <1>8, <1>9, <1>10

\* The same for a step that changes a path or a tomb: what is sound is left to be shown.
LEMMA TouchesPaths ==
  ASSUME LockInv, NEW p \in Alive, Moved(p), dead' = dead,
         path' \in [Paths -> Proc \cup {Nobody, Empty}], path'["recovery"] # Empty,
         tombs' \subseteq Paths \X Proc,
         pc'[p] = "forgetOwner" => kind = "model",
         pc'[p] \in Judged => seen'[p] \in dead,
         Sound => HoldersOwn' /\ RetiredIsSeen' /\ OneRecovers'
  PROVE  LockInv'
<1>. USE DEF LockInv
<1>1. TypeOK'
  BY DEF TypeOK, Moved
<1>2. PathsAgree'
  BY DEF PathsAgree, Moved, Alive
<1>3. JudgedIsDead'
  BY DEF JudgedIsDead, Moved, Alive, Judged
<1>4. Sound' => Sound
  BY SoundIsOlder DEF Moved
<1>. QED  BY <1>1, <1>2, <1>3, <1>4

\* If nobody else is concerned and the lock's path is not touched.
LEMMA LockUntouched ==
  ASSUME LockInv, Sound, NEW p \in Alive, Moved(p), dead' = dead, path'["lock"] = path["lock"],
         pc'[p] \notin Owning \cup {"retireOwner"},
         kind = "session" => \A q \in Proc : <<"lock", q>> \in tombs => <<"lock", q>> \in tombs'
  PROVE  HoldersOwn' /\ RetiredIsSeen'
<1>1. HoldersOwn'
  BY DEF LockInv, HoldersOwn, Moved, Alive, Owning
<1>2. \A q \in Alive : pc[q] = "retireOwner" => seen[q] \in Proc
  BY DEF LockInv, JudgedIsDead, TypeOK
<1>3. RetiredIsSeen'
  BY <1>2 DEF LockInv, RetiredIsSeen, Moved, Alive
<1>. QED  BY <1>1, <1>3

\* Who holds the lock is the only one to, and nobody is about to retire it.
LEMMA OwnerIsAlone ==
  ASSUME LockInv, Sound, NEW p \in Alive, path["lock"] \in {p, Nobody, Empty}
  PROVE  /\ \A q \in Alive : q # p => pc[q] \notin Owning
         /\ \A q \in Alive : pc[q] = "retireOwner" =>
               kind = "session" /\ <<"lock", seen[q]>> \in tombs
<1>1. \A q \in Alive : pc[q] \in Owning => path["lock"] = q
  BY DEF LockInv, HoldersOwn, Owning
<1>2. \A q \in Alive : pc[q] = "retireOwner" => seen[q] \in dead
  BY DEF LockInv, JudgedIsDead
<1>4. \A q \in Alive : pc[q] = "retireOwner" =>
         path["lock"] = seen[q] \/ (kind = "session" /\ <<"lock", seen[q]>> \in tombs)
  BY DEF LockInv, RetiredIsSeen
<1>3. \A q \in dead \cup Alive : q \in Proc /\ q # Nobody /\ q # Empty
  BY LockAssumption DEF LockInv, TypeOK, Alive
<1>. QED  BY <1>1, <1>2, <1>3, <1>4 DEF Alive

\* So the lock's path may be given a new content by its owner.
LEMMA OwnerMayChange ==
  ASSUME LockInv, Sound, NEW p \in Alive, Moved(p), dead' = dead, tombs' = tombs,
         path["lock"] \in {p, Nobody, Empty}, pc'[p] # "retireOwner",
         pc'[p] \in Owning => path'["lock"] = p
  PROVE  HoldersOwn' /\ RetiredIsSeen'
<1>1. HoldersOwn'
  BY OwnerIsAlone DEF HoldersOwn, Moved, Alive, Owning
<1>2. RetiredIsSeen'
  BY OwnerIsAlone DEF RetiredIsSeen, Moved, Alive
<1>. QED  BY <1>1, <1>2

\* A process that does not recover, before or after, and leaves the recovery lock alone.
LEMMA RecoveryUntouched ==
  ASSUME LockInv, Sound, NEW p \in Alive, Moved(p), dead' = dead,
         path'["recovery"] = path["recovery"],
         pc[p] \in Recovering <=> pc'[p] \in Recovering, pc'[p] # "retireRecoverer"
  PROVE  OneRecovers'
BY DEF LockInv, OneRecovers, Moved, Alive

LEMMA ReleaseKeepsLockInv ==
  ASSUME LockInv, NEW p \in Alive, DropOwn(p) \/ UnlinkOwn(p) \/ RmdirOwn(p) \/ Claim(p)
  PROVE  LockInv'
<1>. /\ TypeOK /\ p \in Proc /\ UNCHANGED <<kind, tombs, dead>>
     /\ path \in [Paths -> Proc \cup {Nobody, Empty}] /\ path["recovery"] # Empty
     /\ tombs \subseteq Paths \X Proc
  BY KnownOf DEF LockInv, TypeOK, PathsAgree, DropOwn, UnlinkOwn, RmdirOwn, Claim
<1>1. CASE DropOwn(p)
  <2>1. Moved(p) /\ pc'[p] = "out"
    BY <1>1, MoveIsMoved DEF DropOwn, Steps
  <2>2. /\ path' \in [Paths -> Proc \cup {Nobody, Empty}]
        /\ path'["recovery"] = path["recovery"]
    BY <1>1 DEF DropOwn, Paths
  <2>3. ASSUME Sound PROVE HoldersOwn' /\ RetiredIsSeen' /\ OneRecovers'
    <3>1. path["lock"] = p
      BY <1>1, <2>3, KnownOf DEF DropOwn, Owning
    <3>2. HoldersOwn' /\ RetiredIsSeen'
      BY <2>1, <2>3, <3>1, OwnerMayChange DEF Owning
    <3>3. OneRecovers'
      BY <1>1, <2>1, <2>2, <2>3, RecoveryUntouched DEF DropOwn, Recovering
    <3>. QED  BY <3>2, <3>3
  <2>. QED  BY <2>1, <2>2, <2>3, TouchesPaths DEF Judged
<1>2. CASE UnlinkOwn(p)
  <2>1. Moved(p) /\ pc'[p] = "rmdirOwn"
    BY <1>2, MoveIsMoved DEF UnlinkOwn, Steps
  <2>2. /\ path' \in [Paths -> Proc \cup {Nobody, Empty}]
        /\ path'["recovery"] = path["recovery"]
    BY <1>2 DEF UnlinkOwn, Paths
  <2>3. ASSUME Sound PROVE HoldersOwn' /\ RetiredIsSeen' /\ OneRecovers'
    <3>1. path["lock"] = p
      BY <1>2, <2>3, KnownOf DEF UnlinkOwn, Owning
    <3>2. HoldersOwn' /\ RetiredIsSeen'
      BY <2>1, <2>3, <3>1, OwnerMayChange DEF Owning
    <3>3. OneRecovers'
      BY <1>2, <2>1, <2>2, <2>3, RecoveryUntouched DEF UnlinkOwn, Recovering
    <3>. QED  BY <3>2, <3>3
  <2>. QED  BY <2>1, <2>2, <2>3, TouchesPaths DEF Judged
<1>3. CASE RmdirOwn(p)
  <2>1. Moved(p) /\ pc'[p] = "out"
    BY <1>3, MoveIsMoved DEF RmdirOwn, Steps
  <2>2. /\ path' \in [Paths -> Proc \cup {Nobody, Empty}]
        /\ path'["recovery"] = path["recovery"]
        /\ path["lock"] # Empty => path'["lock"] = path["lock"]
    BY <1>3 DEF RmdirOwn, Paths
  <2>3. ASSUME Sound PROVE HoldersOwn' /\ RetiredIsSeen' /\ OneRecovers'
    <3>1. HoldersOwn' /\ RetiredIsSeen'
      BY <2>1, <2>2, <2>3, OwnerMayChange, LockUntouched DEF Owning
    <3>2. OneRecovers'
      BY <1>3, <2>1, <2>2, <2>3, RecoveryUntouched DEF RmdirOwn, Recovering
    <3>. QED  BY <3>1, <3>2
  <2>. QED  BY <2>1, <2>2, <2>3, TouchesPaths DEF Judged
<1>4. CASE Claim(p)
  <2>1. CASE Free("lock")
    <3>1. Moved(p) /\ pc'[p] = "inside"
      BY <1>4, <2>1, MoveIsMoved DEF Claim, Steps
    <3>2. /\ path' \in [Paths -> Proc \cup {Nobody, Empty}]
          /\ path'["recovery"] = path["recovery"] /\ path'["lock"] = p
      BY <1>4, <2>1 DEF Claim, Paths
    <3>3. ASSUME Sound PROVE HoldersOwn' /\ RetiredIsSeen' /\ OneRecovers'
      <4>1. HoldersOwn' /\ RetiredIsSeen'
        BY <2>1, <3>1, <3>2, <3>3, OwnerMayChange DEF Free
      <4>2. OneRecovers'
        BY <1>4, <3>1, <3>2, <3>3, RecoveryUntouched DEF Claim, Recovering
      <4>. QED  BY <4>1, <4>2
    <3>. QED  BY <3>1, <3>2, <3>3, TouchesPaths DEF Judged
  <2>2. CASE ~ Free("lock")
    <3>1. Moved(p) /\ pc'[p] \in {"findOwner", "out"}
      BY <1>4, <2>2, MoveIsMoved DEF Claim, Steps
    <3>. QED  BY <1>4, <2>2, <3>1, KnownOf, OnlyMoves DEF Claim, Judged, Owning, Recovering
  <2>. QED  BY <2>1, <2>2
<1>. QED  BY <1>1, <1>2, <1>3, <1>4

LEMMA RecoveryKeepsLockInv ==
  ASSUME LockInv, NEW p \in Alive,
         \/ RetireRecoverer(p) \/ ForgetRecoverer(p) \/ ClaimRecovery(p)
         \/ RetireOwner(p) \/ ForgetOwner(p) \/ DropRecovery(p)
  PROVE  LockInv'
<1>. /\ TypeOK /\ p \in Proc /\ UNCHANGED <<kind, dead>>
     /\ path \in [Paths -> Proc \cup {Nobody, Empty}] /\ path["recovery"] # Empty
     /\ tombs \subseteq Paths \X Proc /\ dead \subseteq Proc
  BY KnownOf DEF LockInv, TypeOK, PathsAgree, RetireRecoverer, ForgetRecoverer, ClaimRecovery,
                 RetireOwner, ForgetOwner, DropRecovery
<1>1. CASE RetireRecoverer(p)
  <2>1. /\ Moved(p) /\ pc'[p] \in {"forgetRecoverer", "claim", "out"}
        /\ path'["lock"] = path["lock"]
    BY <1>1, MoveIsMoved DEF RetireRecoverer, MoveAway, Steps, Paths
  <2>2. seen[p] \in dead
    BY <1>1, KnownOf DEF RetireRecoverer, Judged
  <2>3. /\ path' \in [Paths -> Proc \cup {Nobody, Empty}] /\ path'["recovery"] # Empty
        /\ tombs \subseteq tombs' /\ tombs' \subseteq Paths \X Proc
    BY <1>1, <2>2, LockAssumption DEF RetireRecoverer, MoveAway, Paths
  <2>4. ASSUME Sound PROVE HoldersOwn' /\ RetiredIsSeen' /\ OneRecovers'
    <3>1. kind # "model"
      BY <1>1, <2>4, KnownOf DEF RetireRecoverer
    <3>. QED  BY <2>1, <2>3, <2>4, <3>1, LockUntouched DEF OneRecovers, Owning
  <2>. QED  BY <2>1, <2>3, <2>4, TouchesPaths DEF Judged
<1>2. CASE ForgetRecoverer(p)
  <2>1. Moved(p) /\ pc'[p] = "claim"
    BY <1>2, MoveIsMoved DEF ForgetRecoverer, Steps
  <2>2. /\ UNCHANGED path /\ tombs' \subseteq tombs
        /\ \A q \in Proc : <<"lock", q>> \in tombs => <<"lock", q>> \in tombs'
    BY <1>2 DEF ForgetRecoverer
  <2>3. ASSUME Sound PROVE HoldersOwn' /\ RetiredIsSeen' /\ OneRecovers'
    BY <1>2, <2>1, <2>2, <2>3, LockUntouched, RecoveryUntouched
    DEF ForgetRecoverer, Owning, Recovering
  <2>. QED  BY <2>1, <2>2, <2>3, TouchesPaths DEF Judged
<1>3. CASE ClaimRecovery(p)
  <2>1. CASE path["recovery"] = Nobody
    <3>1. Moved(p) /\ pc'[p] = "rereadOwner" /\ seen'[p] = seen[p] /\ seen[p] \in dead
      BY <1>3, <2>1, MoveIsMoved, KnownOf DEF ClaimRecovery, Steps, Acting, Judged
    <3>2. /\ path' \in [Paths -> Proc \cup {Nobody, Empty}] /\ path'["recovery"] = p
          /\ path'["lock"] = path["lock"] /\ tombs' = tombs
      BY <1>3, <2>1 DEF ClaimRecovery, Paths
    <3>3. ASSUME Sound PROVE HoldersOwn' /\ RetiredIsSeen' /\ OneRecovers'
      <4>1. HoldersOwn' /\ RetiredIsSeen'
        BY <3>1, <3>2, <3>3, LockUntouched DEF Owning
      <4>2. kind = "model" => \A q \in Alive : pc[q] \notin Recovering
        BY <2>1, <3>3, LockAssumption DEF LockInv, OneRecovers, Alive
      <4>3. OneRecovers'
        BY <3>1, <3>2, <3>3, <4>2 DEF LockInv, OneRecovers, Moved, Alive, Recovering
      <4>. QED  BY <4>1, <4>3
    <3>. QED  BY <3>1, <3>2, <3>3, TouchesPaths, LockAssumption DEF Judged
  <2>2. CASE path["recovery"] # Nobody
    <3>1. Moved(p) /\ pc'[p] \in {"claim", "findRecoverer", "out"}
      BY <1>3, <2>2, MoveIsMoved DEF ClaimRecovery, TurnedAway, NextPass, First, Steps
    <3>. QED  BY <1>3, <2>2, <3>1, KnownOf, OnlyMoves
              DEF ClaimRecovery, Judged, Owning, Recovering
  <2>. QED  BY <2>1, <2>2
<1>4. CASE RetireOwner(p)
  <2>1. seen[p] \in dead
    BY <1>4, KnownOf DEF RetireOwner, Judged
  <2>2. /\ path' \in [Paths -> Proc \cup {Nobody, Empty}] /\ tombs' \subseteq Paths \X Proc
        /\ tombs \subseteq tombs' /\ path'["recovery"] = path["recovery"]
    <3>1. UNCHANGED path \/ path' = [path EXCEPT !["lock"] = Nobody]
      BY <1>4 DEF RetireOwner, MoveAway
    <3>2. UNCHANGED tombs \/ tombs' = tombs \cup {<<"lock", seen[p]>>}
      BY <1>4 DEF RetireOwner, MoveAway
    <3>. QED  BY <2>1, <3>1, <3>2 DEF Paths
  <2>3. /\ Moved(p) /\ pc'[p] \in {"claimAgain", "forgetOwner", "checkRecovery"}
        /\ pc'[p] = "forgetOwner" => kind = "model"
        /\ pc'[p] = "claimAgain" => kind = "plan"
    <3>1. \A b \in {TRUE, FALSE}, s \in {"forgetOwner", "checkRecovery"} :
             /\ Move(p, s, seen[p], b) => Moved(p) /\ pc'[p] = s
             /\ Move(p, s, Nobody, b) => Moved(p) /\ pc'[p] = s
      BY <2>1, MoveIsMoved DEF Steps
    <3>2. Goto(p, "claimAgain") => Moved(p) /\ pc'[p] = "claimAgain"
      BY MoveIsMoved DEF Steps
    <3>. QED  BY <1>4, <3>1, <3>2 DEF RetireOwner, Waits
  <2>4. ASSUME Sound PROVE HoldersOwn' /\ RetiredIsSeen' /\ OneRecovers'
    <3>1. kind # "plan"
      BY <2>1, <2>4 DEF Sound
    <3>2. OneRecovers'
      BY <1>4, <2>2, <2>3, <2>4, <3>1, RecoveryUntouched DEF RetireOwner, Recovering
    <3>3. CASE UNCHANGED path
      BY <2>2, <2>3, <2>4, <3>1, <3>2, <3>3, LockUntouched DEF Owning
    <3>4. CASE path' # path
      <4>1. /\ path["lock"] = seen[p] /\ path["lock"] # Nobody
            /\ <<"lock", seen[p]>> \in tombs'
        BY <1>4, <3>1, <3>4, <2>4 DEF RetireOwner, MoveAway, LockInv, RetiredIsSeen
      <4>2. HoldersOwn'
        BY <2>1, <2>3, <2>4, <4>1 DEF LockInv, HoldersOwn, Moved, Alive
      <4>3. \A q \in Alive : q # p /\ pc[q] = "retireOwner" =>
               kind = "session" /\ <<"lock", seen[q]>> \in tombs'
        <5>1. kind = "model" => \A q \in Alive : pc[q] = "retireOwner" => q = p
          BY <1>4, <2>4 DEF RetireOwner, LockInv, OneRecovers, Recovering
        <5>2. kind \in {"model", "session"}
          BY <3>1, LockAssumption DEF LockInv, TypeOK
        <5>. QED  BY <2>2, <2>4, <4>1, <5>1, <5>2 DEF LockInv, RetiredIsSeen
      <4>4. RetiredIsSeen'
        BY <2>3, <4>3 DEF RetiredIsSeen, Moved, Alive
      <4>. QED  BY <3>2, <4>2, <4>4
    <3>. QED  BY <3>2, <3>3, <3>4
  <2>. QED  BY <2>2, <2>3, <2>4, TouchesPaths DEF Judged
<1>5. CASE ForgetOwner(p)
  <2>1. Moved(p) /\ pc'[p] = "checkRecovery" /\ kind = "model"
    BY <1>5, MoveIsMoved DEF ForgetOwner, Steps, LockInv, PathsAgree
  <2>2. UNCHANGED path /\ tombs' \subseteq tombs
    BY <1>5 DEF ForgetOwner
  <2>3. ASSUME Sound PROVE HoldersOwn' /\ RetiredIsSeen' /\ OneRecovers'
    BY <1>5, <2>1, <2>2, <2>3, LockUntouched, RecoveryUntouched
    DEF ForgetOwner, Owning, Recovering
  <2>. QED  BY <2>1, <2>2, <2>3, TouchesPaths DEF Judged
<1>6. CASE DropRecovery(p)
  <2>1. Moved(p) /\ pc'[p] \in {"out", "claim", "findRecoverer"}
    BY <1>6, MoveIsMoved DEF DropRecovery, NextPass, First, Steps
  <2>2. /\ path' \in [Paths -> Proc \cup {Nobody, Empty}] /\ path'["recovery"] = Nobody
        /\ path'["lock"] = path["lock"] /\ tombs' = tombs
    BY <1>6 DEF DropRecovery, Paths
  <2>3. ASSUME Sound PROVE HoldersOwn' /\ RetiredIsSeen' /\ OneRecovers'
    <3>1. HoldersOwn' /\ RetiredIsSeen'
      BY <2>1, <2>2, <2>3, LockUntouched DEF Owning
    <3>2. kind = "model" => \A q \in Alive : pc[q] \in Recovering => q = p
      BY <1>6, <2>3 DEF DropRecovery, LockInv, OneRecovers, Recovering
    <3>3. OneRecovers'
      BY <2>1, <2>2, <2>3, <3>2, LockAssumption
      DEF LockInv, OneRecovers, Moved, Alive, Recovering
    <3>. QED  BY <3>1, <3>3
  <2>. QED  BY <2>1, <2>2, <2>3, TouchesPaths, LockAssumption DEF Judged
<1>. QED  BY <1>1, <1>2, <1>3, <1>4, <1>5, <1>6

LEMMA DeathKeepsLockInv == ASSUME LockInv, NEW p \in Alive, Dies(p) PROVE LockInv'
<1>. USE DEF LockInv
<1>1. /\ UNCHANGED <<kind, path, tombs, pc>> /\ dead' = dead \cup {p} /\ p \in Proc
      /\ Alive' \subseteq Alive /\ p \notin Alive'
      /\ \A q \in Alive' : seen'[q] = seen[q]
  BY DEF Dies, Alive, TypeOK
<1>2. TypeOK'
  BY <1>1 DEF TypeOK, Dies
<1>3. PathsAgree' /\ JudgedIsDead'
  BY <1>1 DEF PathsAgree, JudgedIsDead
<1>4. Sound' => Sound
  BY <1>1, SoundIsOlder
<1>5. Sound => HoldersOwn' /\ RetiredIsSeen' /\ OneRecovers'
  BY <1>1 DEF HoldersOwn, RetiredIsSeen, OneRecovers
<1>. QED  BY <1>2, <1>3, <1>4, <1>5

\* Every step of the lock keeps the invariant, and so does everything else that
\* leaves the lock alone.
LEMMA StepKeepsLockInv ==
  ASSUME LockInv, NEW p \in Alive, LockStep(p) \/ Leave(p) \/ Dies(p)
  PROVE  LockInv'
BY MovesKeepLockInv, ReleaseKeepsLockInv, RecoveryKeepsLockInv, DeathKeepsLockInv DEF LockStep

LEMMA StepKeepsSound ==
  ASSUME LockInv, NEW p \in Alive, LockStep(p) \/ Leave(p) \/ Dies(p)
  PROVE  kind' = kind /\ (Sound' => Sound)
<1>1. kind' = kind /\ dead \subseteq dead' /\ \E s : pc' = [pc EXCEPT ![p] = s]
  <2>1. CASE LockStep(p) \/ Leave(p)
    BY <2>1 DEF LockStep, Begin, FindRecoverer, JudgeRecoverer, RereadRecoverer,
       RetireRecoverer, ForgetRecoverer, Claim, FindOwner, JudgeOwner, ClaimRecovery,
       RereadOwner, RetireOwner, ForgetOwner, CheckRecovery, DropRecovery, CheckOwn, DropOwn,
       UnlinkOwn, RmdirOwn, Leave, Goto, Move, TurnedAway, NextPass
  <2>2. CASE Dies(p)
    <3>1. pc' = [pc EXCEPT ![p] = pc[p]] /\ kind' = kind /\ dead \subseteq dead'
      BY <2>2 DEF Dies, LockInv, TypeOK
    <3>. QED  BY <3>1
  <2>. QED  BY <2>1, <2>2
<1>. QED  BY <1>1, SoundIsOlder DEF LockInv, TypeOK, Alive

LEMMA StutterKeepsLockInv == LockInv /\ UNCHANGED lockVars => LockInv'
BY DEF LockInv, lockVars, TypeOK, PathsAgree, JudgedIsDead, HoldersOwn, RetiredIsSeen,
       OneRecovers, Sound, Alive

LEMMA LockInvExcludes == LockInv => LockIsExclusive
BY DEF LockInv, LockIsExclusive, Exclusive, HoldersOwn, Inside, Holding, Alive

\* Two processes are never inside at once, as far as the protocol of the lock promises it:
\* the worker session's whoever dies when, the project model's unless a recoverer dies
\* with the recovery lock, the planning store's unless somebody dies.
THEOREM LockIsSafe == LockSpec => [](TypeOK /\ LockIsExclusive)
<1>1. LockInv /\ [LockNext]_lockVars => LockInv'
  BY StepKeepsLockInv, StutterKeepsLockInv DEF LockNext, Alive
<1>2. LockInv => TypeOK /\ LockIsExclusive
  BY LockInvExcludes DEF LockInv
<1>. QED  BY InitLockInv, <1>1, <1>2, PTL DEF LockSpec

----------------------------------------------------------------------------
(* Plans and models are sequences that only grow at their end. *)

LEMMA SubSeqOfAppend ==
  ASSUME NEW S, NEW s \in Seq(S), NEW x \in S
  PROVE  /\ Append(s, x) \in Seq(S) /\ Len(Append(s, x)) = Len(s) + 1
         /\ \A r \in 0..Len(s) : SubSeq(Append(s, x), 1, r) = SubSeq(s, 1, r)
         /\ SubSeq(s, 1, Len(s)) = s
OBVIOUS

LEMMA PrefixOfItself ==
  ASSUME NEW S, NEW s \in Seq(S)
  PROVE  IsPrefix(s, s)
BY DEF IsPrefix

LEMMA PrefixOfAppend ==
  ASSUME NEW S, NEW s \in Seq(S), NEW t \in Seq(S), NEW x \in S, IsPrefix(s, t)
  PROVE  IsPrefix(s, Append(t, x))
<1>1. Len(s) \in 0..Len(t)
  BY DEF IsPrefix
<1>. QED  BY <1>1, SubSeqOfAppend DEF IsPrefix

----------------------------------------------------------------------------
(* The planning store under its lock. *)

Plans == {plan \in Seq(Proc) : Len(plan) <= MaxRevision}
CallSteps == {"read", "prune", "record", "replace", "sync", "over"}
PlanCalls == [at : CallSteps, plan : Plans]

PlanTypeOK ==
    /\ head \in Plans
    /\ history \in [Revisions -> Seq(Proc)]
    /\ call \in [Proc -> PlanCalls]
    /\ \A p \in Proc : call[p].at = "prune" => Len(call[p].plan) < MaxRevision
    /\ returned \subseteq Seq(Proc)
    /\ together \in BOOLEAN

\* Only who is inside has a call under way.
CallsAreInside == \A p \in Proc : p \notin Inside => call[p] = Idle

\* What the call inside has made of the plan it has read.
CallFollowsHead ==
    \A p \in Inside :
       LET plan == call[p].plan IN
       /\ call[p].at = "prune" => plan = head
       /\ call[p].at = "record" =>
             /\ plan = Append(head, p)
             /\ \A r \in Revisions : r > Len(head) => history[r] = None
       /\ call[p].at = "replace" =>
             /\ plan = Append(head, p)
             /\ history[Len(plan)] = plan
       /\ call[p].at = "sync" => plan = head

PlanInv ==
    /\ PlanTypeOK
    /\ CallsAreInside
    /\ ~together => Exclusive /\ CallFollowsHead /\ HistoryIsThePast

LEMMA InitPlanInv == Init /\ PlanInit => PlanInv
<1>. SUFFICES ASSUME Init, PlanInit PROVE PlanInv
  OBVIOUS
<1>1. Inside = {}
  BY InitLockInv DEF Inside, Holding, Alive
<1>2. None \in Plans /\ None \in Seq(Proc) /\ Len(None) = 0
  BY PlanAssumption DEF None, Plans
<1>3. PlanTypeOK
  <2>1. Idle \in PlanCalls /\ Idle.at # "prune"
    BY <1>2 DEF Idle, PlanCalls, CallSteps
  <2>. QED  BY <1>2, <2>1 DEF PlanInit, PlanTypeOK
<1>4. CallsAreInside
  BY DEF PlanInit, CallsAreInside
<1>5. HistoryIsThePast
  BY <1>2 DEF PlanInit, HistoryIsThePast
<1>. QED  BY <1>1, <1>3, <1>4, <1>5 DEF PlanInv, Exclusive, CallFollowsHead

LEMMA ContinueTypes ==
  ASSUME PlanTypeOK, NEW p \in Proc, NEW plan \in Plans, NEW step \in CallSteps,
         step = "prune" => Len(plan) < MaxRevision, Continue(p, step, plan)
  PROVE  /\ call' \in [Proc -> PlanCalls]
         /\ call'[p] = [at |-> step, plan |-> plan]
         /\ \A q \in Proc : q # p => call'[q] = call[q]
         /\ \A q \in Proc : call'[q].at = "prune" => Len(call'[q].plan) < MaxRevision
<1>. call' = [call EXCEPT ![p] = [at |-> step, plan |-> plan]] /\ call \in [Proc -> PlanCalls]
  BY DEF Continue, PlanTypeOK
<1>1. [at |-> step, plan |-> plan] \in PlanCalls
  BY DEF PlanCalls
<1>2. call'[p] = [at |-> step, plan |-> plan] /\ \A q \in Proc : q # p => call'[q] = call[q]
  OBVIOUS
<1>3. \A q \in Proc : call[q].at = "prune" => Len(call[q].plan) < MaxRevision
  BY DEF PlanTypeOK
<1>. QED  BY <1>1, <1>2, <1>3

\* What each step of a call does to it.
LEMMA PlanStepTypes ==
  ASSUME PlanTypeOK, NEW p \in Alive, PlanStep(p)
  PROVE  /\ PlanTypeOK' /\ p \in Inside /\ Inside' = Inside /\ together' = together
         /\ \A q \in Proc : q # p => call'[q] = call[q]
<1>. USE DEF PlanTypeOK
<1>1. p \in Proc /\ p \in Inside /\ UNCHANGED <<Inside, together>>
  BY DEF Alive, PlanStep, Inside, Holding, lockVars, At, ReadHead, RemoveUncommittedHistory,
         WriteHistory, ReplaceHead, ReturnPlan, StoreThrows
<1>2. /\ call[p] \in PlanCalls /\ call[p].plan \in Plans /\ None \in Plans
      /\ call[p].at = "prune" => Append(call[p].plan, p) \in Plans
  BY <1>1, PlanAssumption DEF None, PlanCalls, Plans
<1>3. CASE ReadHead(p)
  <2>1. (Continue(p, "prune", head) /\ Len(head) < MaxRevision) \/ Continue(p, "over", None)
    BY <1>3 DEF ReadHead
  <2>. QED  BY <1>1, <1>2, <1>3, <2>1, ContinueTypes DEF ReadHead, CallSteps
<1>4. CASE RemoveUncommittedHistory(p)
  <2>1. call[p].at = "prune" /\ Continue(p, "record", Append(call[p].plan, p))
    BY <1>4 DEF RemoveUncommittedHistory, At
  <2>2. history' \in [Revisions -> Seq(Proc)]
    BY <1>2, <1>4 DEF RemoveUncommittedHistory, Plans
  <2>. QED  BY <1>1, <1>2, <1>4, <2>1, <2>2, ContinueTypes
            DEF RemoveUncommittedHistory, CallSteps
<1>5. CASE WriteHistory(p)
  <2>1. Continue(p, "replace", call[p].plan) \/ Continue(p, "over", None)
    BY <1>5 DEF WriteHistory
  <2>2. history' \in [Revisions -> Seq(Proc)]
    BY <1>2, <1>5 DEF WriteHistory, Plans
  <2>. QED  BY <1>1, <1>2, <1>5, <2>1, <2>2, ContinueTypes DEF WriteHistory, CallSteps
<1>6. CASE ReplaceHead(p)
  <2>. QED  BY <1>1, <1>2, <1>6, ContinueTypes DEF ReplaceHead, CallSteps
<1>7. CASE ReturnPlan(p)
  BY <1>1, <1>2, <1>7, ContinueTypes DEF ReturnPlan, CallSteps, Plans
<1>8. CASE StoreThrows(p)
  BY <1>1, <1>2, <1>8, ContinueTypes DEF StoreThrows, CallSteps
<1>. QED  BY <1>1, <1>3, <1>4, <1>5, <1>6, <1>7, <1>8 DEF PlanStep

\* As long as the lock keeps its promise there is one call, and what it knows of the head
\* is true until it is over.
LEMMA PlanStepKeepsPlanInv ==
  ASSUME PlanInv, NEW p \in Alive, PlanStep(p)
  PROVE  PlanInv'
<1>. USE DEF PlanInv
<1>1. /\ PlanTypeOK /\ PlanTypeOK' /\ p \in Inside /\ Inside' = Inside /\ p \in Proc
      /\ together' = together /\ \A q \in Proc : q # p => call'[q] = call[q]
  BY PlanStepTypes DEF Alive
<1>2. CallsAreInside'
  BY <1>1 DEF CallsAreInside
<1>3. ASSUME ~together
      PROVE  Exclusive' /\ CallFollowsHead' /\ HistoryIsThePast'
  <2>1. Exclusive /\ CallFollowsHead /\ HistoryIsThePast
    BY <1>3
  <2>2. Exclusive' /\ Inside' = {p}
    BY <1>1, <2>1 DEF Exclusive
  <2>3. /\ head \in Seq(Proc) /\ Len(head) \in 0..MaxRevision /\ MaxRevision \in Nat
        /\ returned \subseteq Seq(Proc)
        /\ call[p] \in PlanCalls /\ call[p].plan \in Seq(Proc)
    BY <1>1, PlanAssumption DEF PlanTypeOK, Plans, PlanCalls
  <2>4. /\ \A plan \in returned : IsPrefix(plan, head)
        /\ \A r \in 1..Len(head) : history[r] = SubSeq(head, 1, r)
        /\ \A r \in Revisions : r > Len(head) + 1 => history[r] = None
    BY <1>3, <2>1 DEF HistoryIsThePast
  <2>5. /\ \A plan, step : Continue(p, step, plan) => call'[p] = [at |-> step, plan |-> plan]
        /\ None \in Seq(Proc)
    BY <1>1 DEF Continue, PlanTypeOK, None
  <2>. USE DEF HistoryIsThePast, CallFollowsHead
  <2>6. CASE ReadHead(p)
    <3>1. \/ call'[p] = [at |-> "prune", plan |-> head]
          \/ call'[p] = [at |-> "over", plan |-> None]
      BY <2>3, <2>5, <2>6 DEF ReadHead
    <3>. QED  BY <2>2, <2>4, <2>6, <3>1 DEF ReadHead
  <2>7. CASE RemoveUncommittedHistory(p)
    <3>1. call[p].plan = head /\ Append(head, p) \in Seq(Proc)
      BY <1>1, <2>1, <2>3, <2>7 DEF RemoveUncommittedHistory, At
    <3>2. call'[p] = [at |-> "record", plan |-> Append(head, p)]
      BY <2>5, <2>7, <3>1 DEF RemoveUncommittedHistory
    <3>3. \A r \in Revisions : history'[r] = IF r > Len(head) THEN None ELSE history[r]
      BY <2>7, <3>1 DEF RemoveUncommittedHistory
    <3>4. \A r \in 1..Len(head) : r \in Revisions /\ ~ (r > Len(head))
      BY <2>3 DEF Revisions
    <3>. QED  BY <2>2, <2>3, <2>4, <2>7, <3>2, <3>3, <3>4 DEF RemoveUncommittedHistory
  <2>8. CASE WriteHistory(p)
    <3>1. /\ call[p].plan = Append(head, p) /\ call[p].plan \in Seq(Proc)
          /\ \A r \in Revisions : r > Len(head) => history[r] = None
          /\ Len(call[p].plan) = Len(head) + 1
      BY <1>1, <2>1, <2>3, <2>8, SubSeqOfAppend DEF WriteHistory, At
    <3>2. CASE history[Len(call[p].plan)] \in {None, call[p].plan}
      <4>1. /\ history' = [history EXCEPT ![Len(call[p].plan)] = call[p].plan]
            /\ call'[p] = [at |-> "replace", plan |-> call[p].plan]
        BY <2>5, <2>8, <3>1, <3>2 DEF WriteHistory
      <4>2. Len(call[p].plan) \in Revisions
        <5>1. call[p].plan \in Plans
          BY <2>3 DEF PlanCalls
        <5>2. Len(call[p].plan) <= MaxRevision
          BY <5>1 DEF Plans
        <5>3. Len(call[p].plan) \in Nat /\ Len(call[p].plan) # 0
          BY <2>3, <3>1
        <5>. QED  BY <2>3, <5>2, <5>3 DEF Revisions
      <4>3. /\ history'[Len(call[p].plan)] = call[p].plan
            /\ \A r \in Revisions : r # Len(head) + 1 => history'[r] = history[r]
        BY <1>1, <3>1, <4>1, <4>2 DEF PlanTypeOK
      <4>4. \A r \in 1..Len(head) : r \in Revisions /\ r # Len(head) + 1
        BY <2>3 DEF Revisions
      <4>5. UNCHANGED <<head, returned>>
        BY <2>8 DEF WriteHistory
      <4>6. CallFollowsHead'
        <5>1. call'[p].at = "replace" /\ call'[p].plan = call[p].plan
          BY <4>1
        <5>. QED  BY <2>2, <3>1, <4>3, <4>5, <5>1
      <4>7. HistoryIsThePast'
        BY <2>3, <2>4, <4>3, <4>4, <4>5 DEF Revisions
      <4>. QED  BY <2>2, <4>6, <4>7
    <3>3. CASE history[Len(call[p].plan)] \notin {None, call[p].plan}
      <4>1. UNCHANGED history /\ call'[p] = [at |-> "over", plan |-> None]
        BY <2>5, <2>8, <3>3 DEF WriteHistory
      <4>. QED  BY <2>2, <2>4, <2>8, <4>1 DEF WriteHistory
    <3>. QED  BY <3>2, <3>3
  <2>9. CASE ReplaceHead(p)
    <3>1. /\ call[p].plan = Append(head, p) /\ call[p].plan \in Seq(Proc)
          /\ history[Len(call[p].plan)] = call[p].plan
          /\ Len(call[p].plan) = Len(head) + 1
      BY <1>1, <2>1, <2>3, <2>9, SubSeqOfAppend DEF ReplaceHead, At
    <3>2. /\ head' = call[p].plan /\ call'[p] = [at |-> "sync", plan |-> call[p].plan]
          /\ UNCHANGED <<history, returned>>
      BY <2>5, <2>9, <3>1 DEF ReplaceHead
    <3>3. \A plan \in returned' : IsPrefix(plan, head')
      BY <1>1, <2>3, <2>4, <3>1, <3>2, PrefixOfAppend
    <3>4. \A r \in 1..Len(head') : history'[r] = SubSeq(head', 1, r)
      <4>1. \A r \in 1..Len(head) : SubSeq(Append(head, p), 1, r) = SubSeq(head, 1, r)
        BY <1>1, <2>3, SubSeqOfAppend
      <4>2. SubSeq(call[p].plan, 1, Len(call[p].plan)) = call[p].plan
        BY <3>1, <1>1, SubSeqOfAppend
      <4>3. \A r \in 1..Len(head') : r \in 1..Len(head) \/ r = Len(head')
        BY <2>3, <3>1, <3>2
      <4>4. \A r \in 1..Len(head) : history[r] = SubSeq(head', 1, r)
        BY <2>3, <2>4, <3>1, <3>2, <4>1
      <4>. QED  BY <3>1, <3>2, <4>2, <4>3, <4>4
    <3>5. CallFollowsHead'
      BY <2>2, <3>2
    <3>6. \A r \in Revisions : r > Len(head') + 1 => history'[r] = None
      BY <2>3, <2>4, <3>1, <3>2 DEF Revisions
    <3>. QED  BY <2>2, <3>3, <3>4, <3>5, <3>6
  <2>10. CASE ReturnPlan(p)
    <3>1. call[p].plan = head /\ IsPrefix(head, head)
      BY <1>1, <2>1, <2>3, <2>10, PrefixOfItself DEF ReturnPlan, At
    <3>2. call'[p] = [at |-> "over", plan |-> None]
      BY <2>5, <2>10 DEF ReturnPlan
    <3>. QED  BY <2>2, <2>4, <2>10, <3>1, <3>2 DEF ReturnPlan
  <2>11. CASE StoreThrows(p)
    <3>1. call'[p] = [at |-> "over", plan |-> None]
      BY <2>5, <2>11 DEF StoreThrows
    <3>. QED  BY <2>2, <2>4, <2>11, <3>1 DEF StoreThrows
  <2>. QED  BY <2>6, <2>7, <2>8, <2>9, <2>10, <2>11 DEF PlanStep
<1>. QED  BY <1>1, <1>2, <1>3

\* What a step of the lock does to a call: it begins with its claim and is gone when the
\* lock is let go of or its process dies.
LEMMA InsideMoves ==
  ASSUME NEW p \in Alive, pc \in [Proc -> Steps]
  PROVE  /\ LockStep(p) => (Inside' = Inside \/ Inside' = Inside \cup {p}) /\ p \notin Inside
         /\ Leave(p) \/ Dies(p) => Inside' = Inside \ {p}
<1>1. ASSUME NEW s, pc' = [pc EXCEPT ![p] = s], dead' = dead
      PROVE  Inside' = (IF s = "inside" THEN Inside \cup {p} ELSE Inside \ {p})
  BY <1>1 DEF Inside, Holding, Alive
<1>2. ASSUME LockStep(p)
      PROVE  /\ \E s : pc' = [pc EXCEPT ![p] = s]
             /\ dead' = dead /\ p \notin Inside
  BY <1>2 DEF LockStep, Begin, FindRecoverer, JudgeRecoverer, RereadRecoverer, RetireRecoverer,
     ForgetRecoverer, Claim, FindOwner, JudgeOwner, ClaimRecovery, RereadOwner, RetireOwner,
     ForgetOwner, CheckRecovery, DropRecovery, CheckOwn, DropOwn, UnlinkOwn, RmdirOwn,
     Inside, Holding, Goto, Move, TurnedAway, NextPass
<1>3. ASSUME Leave(p) PROVE Inside' = Inside \ {p}
  <2>1. /\ dead' = dead
        /\ pc' = [pc EXCEPT ![p] = "unlinkOwn"] \/ pc' = [pc EXCEPT ![p] = "checkOwn"]
    BY <1>3 DEF Leave, Goto, Move
  <2>. QED  BY <1>1, <2>1
<1>4. ASSUME Dies(p) PROVE Inside' = Inside \ {p}
  BY <1>4 DEF Dies, Inside
<1>. QED  BY <1>1, <1>2, <1>3, <1>4

LEMMA PlanLockStepKeepsPlanInv ==
  ASSUME PlanInv, LockInv, NEW p \in Alive, PlanLockStep(p)
  PROVE  PlanInv'
<1>. USE DEF PlanInv
<1>1. /\ p \in Proc /\ pc \in [Proc -> Steps] /\ UNCHANGED <<head, history, returned>>
      /\ together' = (together \/ ~Exclusive')
  BY DEF LockInv, TypeOK, Alive, PlanLockStep
<1>2. CASE LockStep(p) /\ UNCHANGED call
  <2>1. (Inside' = Inside \/ Inside' = Inside \cup {p}) /\ p \notin Inside
    BY <1>1, <1>2, InsideMoves
  <2>2. PlanTypeOK'
    BY <1>1, <1>2 DEF PlanTypeOK
  <2>3. CallsAreInside' /\ call[p] = Idle
    BY <1>1, <1>2, <2>1 DEF CallsAreInside
  <2>4. ASSUME ~together' PROVE Exclusive' /\ CallFollowsHead' /\ HistoryIsThePast'
    <3>1. ~together /\ Exclusive' /\ CallFollowsHead /\ HistoryIsThePast
      BY <1>1, <2>4
    <3>2. CallFollowsHead'
      BY <1>1, <1>2, <2>1, <2>3, <3>1 DEF CallFollowsHead, Idle
    <3>3. HistoryIsThePast'
      BY <1>1, <3>1 DEF HistoryIsThePast
    <3>. QED  BY <3>1, <3>2, <3>3
  <2>. QED  BY <2>2, <2>3, <2>4
<1>3. CASE (Leave(p) \/ Dies(p)) /\ call' = [call EXCEPT ![p] = Idle]
  <2>1. Inside' = Inside \ {p}
    BY <1>1, <1>3, InsideMoves
  <2>2. PlanTypeOK'
    <3>1. Idle \in PlanCalls /\ Idle.at # "prune"
      BY PlanAssumption DEF Idle, PlanCalls, CallSteps, Plans, None
    <3>. QED  BY <1>1, <1>3, <3>1 DEF PlanTypeOK
  <2>3. CallsAreInside' /\ \A q \in Inside' : call'[q] = call[q]
    BY <1>1, <1>3, <2>1 DEF CallsAreInside, PlanTypeOK, Inside
  <2>4. ASSUME ~together' PROVE Exclusive' /\ CallFollowsHead' /\ HistoryIsThePast'
    <3>1. ~together /\ Exclusive' /\ CallFollowsHead /\ HistoryIsThePast
      BY <1>1, <2>4
    <3>2. CallFollowsHead'
      BY <1>1, <2>1, <2>3, <3>1 DEF CallFollowsHead
    <3>3. HistoryIsThePast'
      BY <1>1, <3>1 DEF HistoryIsThePast
    <3>. QED  BY <3>1, <3>2, <3>3
  <2>. QED  BY <2>2, <2>3, <2>4
<1>. QED  BY <1>2, <1>3 DEF PlanLockStep

\* Two calls of one plan have been under way at the same time only if somebody died.
PlanLockKept == Sound => ~together

LEMMA PlanNextKeepsLock ==
  ASSUME LockInv, PlanLockKept, NEW p \in Alive, PlanStep(p) \/ PlanLockStep(p)
  PROVE  LockInv' /\ PlanLockKept'
<1>1. CASE PlanStep(p)
  <2>1. UNCHANGED lockVars /\ together' = together
    BY <1>1 DEF PlanStep, ReadHead, RemoveUncommittedHistory, WriteHistory, ReplaceHead,
                ReturnPlan, StoreThrows
  <2>2. LockInv' /\ (Sound' <=> Sound)
    BY <2>1, StutterKeepsLockInv DEF lockVars, Sound
  <2>. QED  BY <2>1, <2>2 DEF PlanLockKept
<1>2. CASE PlanLockStep(p)
  <2>1. LockStep(p) \/ Leave(p) \/ Dies(p)
    BY <1>2 DEF PlanLockStep
  <2>2. LockInv' /\ (Sound' => Sound)
    BY <2>1, StepKeepsLockInv, StepKeepsSound
  <2>3. Sound' => Exclusive'
    BY <2>2 DEF LockInv, Exclusive, HoldersOwn, Inside, Holding, Alive
  <2>. QED  BY <1>2, <2>2, <2>3 DEF PlanLockKept, PlanLockStep
<1>. QED  BY <1>1, <1>2

\* The planning store under its lock: as long as no two calls have met, what calls have
\* returned is part of the plan and the history is its past, whatever crashed or failed; and
\* calls have not met unless a process died.
THEOREM PlanIsSafe ==
  PlanSpec => [](TypeOK /\ LockIsExclusive /\ HistoryIsThePast /\ PlanLockKept)
<1>. DEFINE PInv == LockInv /\ PlanInv /\ PlanLockKept
<1>1. Init /\ PlanInit => PInv
  BY InitLockInv, InitPlanInv DEF PlanLockKept, PlanInit
<1>2. PInv /\ [PlanNext]_<<lockVars, planVars>> => PInv'
  <2>. SUFFICES ASSUME PInv, [PlanNext]_<<lockVars, planVars>> PROVE PInv'
    OBVIOUS
  <2>1. ASSUME NEW p \in Alive, PlanStep(p) PROVE PInv'
    BY <2>1, PlanStepKeepsPlanInv, PlanNextKeepsLock
  <2>2. ASSUME NEW p \in Alive, PlanLockStep(p) PROVE PInv'
    BY <2>2, PlanLockStepKeepsPlanInv, PlanNextKeepsLock
  <2>3. ASSUME UNCHANGED <<lockVars, planVars>> PROVE PInv'
    <3>1. LockInv'
      BY <2>3, StutterKeepsLockInv
    <3>2. PlanInv' /\ PlanLockKept'
      BY <2>3 DEF lockVars, planVars, PlanInv, PlanTypeOK, CallsAreInside, Exclusive, Inside,
                  CallFollowsHead, HistoryIsThePast, PlanLockKept, Sound
    <3>. QED  BY <3>1, <3>2
  <2>. QED  BY <2>1, <2>2, <2>3 DEF PlanNext, Alive
<1>3. PInv => TypeOK /\ LockIsExclusive /\ HistoryIsThePast /\ PlanLockKept
  BY LockInvExcludes DEF LockInv, PlanInv, HistoryIsThePast
<1>. QED  BY <1>1, <1>2, <1>3, PTL DEF PlanSpec

\* Every decision is retained, as the comment of mutateDecision says, as long as no process
\* dies with a lock or on its way to one.
THEOREM DecisionsOfTheLiving == PlanSpec => [](Sound => DecisionsAreRetained)
<1>1. HistoryIsThePast /\ PlanLockKept => (Sound => DecisionsAreRetained)
  BY DEF HistoryIsThePast, PlanLockKept, DecisionsAreRetained
<1>. QED  BY <1>1, PlanIsSafe, PTL

----------------------------------------------------------------------------
(* The project model and its files under its lock. *)

WorkSteps == {"load", "generateOnly", "backup", "generate", "replace", "sync", "failed",
              "restore", "over"}
Models == Seq(Proc)
Contents == Models \cup {Torn}
Works == [at : WorkSteps, old : Models, new : Models, backup : [File -> Contents],
          todo : SUBSET File]

ModelTypeOK ==
    /\ model \in Models
    /\ file \in [File -> Contents]
    /\ work \in [Proc -> Works]
    /\ accepted \subseteq Models
    /\ met \in BOOLEAN
    /\ unrestored \subseteq File

WorkIsInside == \A p \in Proc : p \notin Inside => work[p] = NoWork

FilesAre(m) == \A f \in File : file[f] = m
Follow(fs) == \A f \in fs \ unrestored : file[f] = model
Saved(p) == \A f \in File \ unrestored : work[p].backup[f] = model

WorkFollowsModel ==
    \A p \in Inside :
       LET w == work[p] IN
       /\ w.at \in {"load", "generateOnly", "backup", "over"} => Follow(File)
       /\ w.at = "generateOnly" => w.new = model
       /\ w.at \in {"backup", "generate", "replace"} => w.old = model /\ w.new = Append(model, p)
       /\ w.at \in {"generate", "replace"} => Saved(p) /\ Follow(w.todo)
       /\ w.at = "generate" => \A f \in File \ w.todo : file[f] = w.new
       /\ w.at = "replace" => FilesAre(w.new)
       /\ w.at = "sync" => w.new = model /\ FilesAre(model) /\ Len(model) = Len(w.old) + 1
       /\ w.at = "failed" => IF Len(model) = Len(w.old) THEN Saved(p) /\ Follow(w.todo)
                                                        ELSE FilesAre(model)
       /\ w.at = "restore" => Saved(p) /\ Follow(File \ w.todo)

ModelInv ==
    /\ ModelTypeOK
    /\ WorkIsInside
    /\ ~met => Exclusive /\ WorkFollowsModel /\ FilesFollowTheModel

LEMMA InitModelInv == Init /\ ModelInit => ModelInv
<1>. SUFFICES ASSUME Init, ModelInit PROVE ModelInv
  OBVIOUS
<1>1. Inside = {}
  BY InitLockInv DEF Inside, Holding, Alive
<1>2. NoWork \in Works /\ << >> \in Models
  <2>1. << >> \in Models /\ [f \in File |-> << >>] \in [File -> Contents]
    BY DEF Models, Contents
  <2>. QED  BY <2>1 DEF NoWork, Works, WorkSteps
<1>3. ModelTypeOK
  BY <1>2 DEF ModelInit, ModelTypeOK, Models, Contents
<1>4. WorkIsInside
  BY DEF ModelInit, WorkIsInside
<1>5. FilesFollowTheModel
  BY <1>1 DEF ModelInit, FilesFollowTheModel
<1>. QED  BY <1>1, <1>3, <1>4, <1>5 DEF ModelInv, Exclusive, WorkFollowsModel

\* What a call does to its record keeps the type of the record.
LEMMA WorkUpdates ==
  ASSUME NEW w \in Works
  PROVE  /\ \A s \in WorkSteps : [w EXCEPT !.at = s] \in Works
         /\ \A t \in SUBSET File : [w EXCEPT !.todo = t] \in Works
         /\ \A s \in WorkSteps, t \in SUBSET File : [w EXCEPT !.todo = t, !.at = s] \in Works
         /\ \A s \in WorkSteps, t \in SUBSET File : [w EXCEPT !.at = s, !.todo = t] \in Works
         /\ \A s \in WorkSteps, b \in [File -> Contents], t \in SUBSET File :
               [w EXCEPT !.at = s, !.backup = b, !.todo = t] \in Works
         /\ \A s \in WorkSteps, m, n \in Models :
               [w EXCEPT !.at = s, !.old = m, !.new = n] \in Works
         /\ \A s \in WorkSteps, n \in Models, t \in SUBSET File :
               [w EXCEPT !.at = s, !.new = n, !.todo = t] \in Works
         /\ w.old \in Models /\ w.new \in Models /\ w.backup \in [File -> Contents]
         /\ w.todo \in SUBSET File /\ w.at \in WorkSteps
BY DEF Works

LEMMA NoWorkIsWork == NoWork \in Works
<1>1. << >> \in Models /\ [f \in File |-> << >>] \in [File -> Contents]
  BY DEF Models, Contents
<1>. QED  BY <1>1 DEF NoWork, Works, WorkSteps

LEMMA ModelStepTypes ==
  ASSUME ModelTypeOK, NEW p \in Alive, ModelStep(p)
  PROVE  /\ ModelTypeOK' /\ p \in Inside /\ UNCHANGED <<lockVars, met>>
         /\ \A q \in Proc : q # p => work'[q] = work[q]
<1>. USE DEF ModelTypeOK
<1>1. p \in Proc /\ p \in Inside /\ UNCHANGED <<lockVars, met>>
  BY DEF Alive, ModelStep, Inside, Holding, lockVars, Working, LoadModel, LoadToGenerate,
         GenerateOnly, BackupPaths, GenerateFile, ReplaceModel, ReturnModel, ModelThrows,
         AfterFailure, ReloadFails, RestorePath, RestorationFails
<1>2. work[p] \in Works /\ Append(model, p) \in Models
  BY <1>1 DEF Models
<1>. DEFINE Fits(w) == w \in Works /\ work' = [work EXCEPT ![p] = w]
<1>3. \A w : Fits(w) => work' \in [Proc -> Works] /\ \A q \in Proc : q # p => work'[q] = work[q]
  BY <1>1
<1>4. Finish(p) => Fits([NoWork EXCEPT !.at = "over"])
  BY NoWorkIsWork, WorkUpdates DEF Finish, WorkSteps
<1>. USE DEF WorkSteps
<1>5. CASE LoadModel(p)
  <2>1. \E w : Fits(w)
    BY <1>2, <1>5, NoWorkIsWork, WorkUpdates DEF LoadModel
  <2>. QED  BY <1>1, <1>3, <1>5, <2>1 DEF LoadModel
<1>6. CASE LoadToGenerate(p)
  <2>1. \E w : Fits(w)
    BY <1>2, <1>4, <1>6, NoWorkIsWork, WorkUpdates DEF LoadToGenerate
  <2>. QED  BY <1>1, <1>3, <1>6, <2>1 DEF LoadToGenerate
<1>7. CASE GenerateOnly(p)
  <2>1. \E w : Fits(w)
    BY <1>2, <1>4, <1>7, WorkUpdates DEF GenerateOnly
  <2>2. file' \in [File -> Contents] /\ unrestored' \subseteq File
    BY <1>2, <1>7, WorkUpdates DEF GenerateOnly, Contents
  <2>. QED  BY <1>1, <1>3, <1>7, <2>1, <2>2 DEF GenerateOnly
<1>8. CASE BackupPaths(p)
  <2>1. Fits([work[p] EXCEPT !.at = "generate", !.backup = file, !.todo = File])
    BY <1>2, <1>8, WorkUpdates DEF BackupPaths
  <2>. QED  BY <1>1, <1>3, <1>8, <2>1 DEF BackupPaths
<1>9. CASE GenerateFile(p)
  <2>1. PICK f \in work[p].todo :
           /\ file' = [file EXCEPT ![f] = work[p].new]
           /\ work' = [work EXCEPT ![p] =
                 [work[p] EXCEPT !.at = IF work[p].todo = {f} THEN "replace" ELSE work[p].at,
                                 !.todo = work[p].todo \ {f}]]
    BY <1>1, <1>9 DEF GenerateFile
  <2>3. \E w : Fits(w)
    <3>1. work[p].todo \ {f} \in SUBSET File /\ work[p].at \in WorkSteps
      BY <1>2, WorkUpdates
    <3>2. Fits([work[p] EXCEPT !.at = IF work[p].todo = {f} THEN "replace" ELSE work[p].at,
                               !.todo = work[p].todo \ {f}])
      <4>. DEFINE at == IF work[p].todo = {f} THEN "replace" ELSE work[p].at
                  todo == work[p].todo \ {f}
      <4>1. at \in WorkSteps /\ todo \in SUBSET File
        BY <3>1
      <4>2. [work[p] EXCEPT !.at = at, !.todo = todo] \in Works
        <5>. HIDE DEF at, todo
        <5>. QED  BY <1>2, <4>1, WorkUpdates
      <4>. QED  BY <2>1, <4>2
    <3>. QED  BY <3>2
  <2>2. file' \in [File -> Contents]
    BY <1>2, <1>9, WorkUpdates DEF GenerateFile, Contents
  <2>. QED  BY <1>1, <1>3, <1>9, <2>2, <2>3 DEF GenerateFile
<1>10. CASE ReplaceModel(p)
  <2>1. \E w : Fits(w)
    BY <1>2, <1>10, WorkUpdates DEF ReplaceModel, GoOn
  <2>. QED  BY <1>1, <1>2, <1>3, <1>10, <2>1, WorkUpdates DEF ReplaceModel
<1>11. CASE ReturnModel(p)
  BY <1>1, <1>2, <1>3, <1>4, <1>11, WorkUpdates DEF ReturnModel
<1>12. CASE ModelThrows(p)
  <2>1. \E w : Fits(w)
    BY <1>2, <1>12, WorkUpdates DEF ModelThrows, GoOn
  <2>. QED  BY <1>1, <1>3, <1>12, <2>1 DEF ModelThrows
<1>13. CASE AfterFailure(p)
  <2>1. Finish(p) \/ Fits([work[p] EXCEPT !.at = "restore", !.todo = File])
    BY <1>2, <1>13, WorkUpdates DEF AfterFailure
  <2>. QED  BY <1>1, <1>3, <1>4, <1>13, <2>1 DEF AfterFailure
<1>14. CASE ReloadFails(p)
  <2>1. unrestored' \subseteq File
    BY <1>14 DEF ReloadFails, ToPutBack
  <2>. QED  BY <1>1, <1>3, <1>4, <1>14, <2>1 DEF ReloadFails
<1>15. ASSUME NEW f \in work[p].todo, Restored(p, f)
       PROVE  f \in File /\ \E w : Fits(w)
  <2>1. f \in File /\ work[p].todo \ {f} \in SUBSET File
    BY <1>2, WorkUpdates
  <2>2. [NoWork EXCEPT !.at = "over"] \in Works
    BY NoWorkIsWork, WorkUpdates
  <2>3. [work[p] EXCEPT !.todo = work[p].todo \ {f}] \in Works
    BY <1>2, <2>1, WorkUpdates
  <2>4. Fits(IF work[p].todo = {f} THEN [NoWork EXCEPT !.at = "over"]
             ELSE [work[p] EXCEPT !.todo = work[p].todo \ {f}])
    BY <1>15, <2>2, <2>3 DEF Restored
  <2>. QED  BY <2>1, <2>4
<1>16. CASE RestorePath(p)
  <2>1. PICK f \in work[p].todo :
           file' = [file EXCEPT ![f] = work[p].backup[f]] /\ Restored(p, f)
    BY <1>16 DEF RestorePath
  <2>2. f \in File /\ \E w : Fits(w)
    BY <1>15, <2>1
  <2>3. work[p].backup \in [File -> Contents]
    BY <1>2, WorkUpdates
  <2>4. file' \in [File -> Contents]
    BY <2>1, <2>2, <2>3
  <2>. QED  BY <1>1, <1>3, <1>16, <2>2, <2>4 DEF RestorePath
<1>17. CASE RestorationFails(p)
  <2>1. PICK f \in work[p].todo :
           /\ file' \in {file, [file EXCEPT ![f] = Torn]}
           /\ unrestored' = unrestored \cup {f}
           /\ Restored(p, f)
    BY <1>17 DEF RestorationFails
  <2>2. f \in File /\ \E w : Fits(w)
    BY <1>15, <2>1
  <2>3. file' \in [File -> Contents] /\ unrestored' \subseteq File
    BY <2>1, <2>2 DEF Contents
  <2>. QED  BY <1>1, <1>3, <1>17, <2>2, <2>3 DEF RestorationFails
<1>. QED  BY <1>1, <1>5, <1>6, <1>7, <1>8, <1>9, <1>10, <1>11, <1>12, <1>13, <1>14, <1>16,
             <1>17 DEF ModelStep

\* A function changed at one point.
LEMMA ChangedAt ==
  ASSUME NEW S, NEW T, NEW g \in [S -> T], NEW x \in S, NEW y, NEW h, h = [g EXCEPT ![x] = y]
  PROVE  h[x] = y /\ \A z \in S \ {x} : h[z] = g[z]
OBVIOUS

\* As long as the lock keeps its promise there is one call, and what it knows of the model
\* and has done to the files is true until it is over.
LEMMA ModelStepKeepsModelInv ==
  ASSUME ModelInv, NEW p \in Alive, ModelStep(p)
  PROVE  ModelInv'
<1>. USE DEF ModelInv
<1>1. /\ ModelTypeOK /\ ModelTypeOK' /\ p \in Inside /\ p \in Proc
      /\ UNCHANGED <<kind, path, tombs, pc, seen, again, dead, met>>
      /\ \A q \in Proc : q # p => work'[q] = work[q]
  BY ModelStepTypes DEF Alive, lockVars
<1>2. UNCHANGED <<Inside, Exclusive>>
  BY <1>1 DEF Inside, Exclusive
<1>3. WorkIsInside'
  BY <1>1, <1>2 DEF WorkIsInside
<1>4. ASSUME ~met
      PROVE  Exclusive' /\ WorkFollowsModel' /\ FilesFollowTheModel'
  <2>1. Exclusive /\ WorkFollowsModel /\ FilesFollowTheModel
    BY <1>4
  <2>2. Exclusive' /\ Inside' = {p} /\ Inside = {p}
    BY <1>1, <1>2, <2>1 DEF Exclusive
  <2>3. /\ model \in Models /\ file \in [File -> Contents] /\ accepted \subseteq Models
        /\ unrestored \subseteq File
        /\ work \in [Proc -> Works] /\ work[p] \in Works
        /\ Append(model, p) \in Models /\ Len(Append(model, p)) = Len(model) + 1
        /\ Len(model) \in Nat
        /\ work[p].todo \subseteq File
    <3>1. work[p] \in Works
      BY <1>1 DEF ModelTypeOK
    <3>2. work[p].todo \subseteq File
      BY <3>1 DEF Works
    <3>. QED  BY <1>1, <3>2 DEF ModelTypeOK, Models
  <2>4. \A m \in accepted : IsPrefix(m, model)
    BY <1>4, <2>1 DEF FilesFollowTheModel
  <2>. DEFINE w == work[p]
              v == work'[p]
  <2>5. /\ w.at \in {"load", "generateOnly", "backup", "over"} => Follow(File)
        /\ w.at = "generateOnly" => w.new = model
        /\ w.at \in {"backup", "generate", "replace"} =>
              w.old = model /\ w.new = Append(model, p)
        /\ w.at \in {"generate", "replace"} => Saved(p) /\ Follow(w.todo)
        /\ w.at = "generate" => \A f \in File \ w.todo : file[f] = w.new
        /\ w.at = "replace" => FilesAre(w.new)
        /\ w.at = "sync" => w.new = model /\ FilesAre(model) /\ Len(model) = Len(w.old) + 1
        /\ w.at = "failed" => IF Len(model) = Len(w.old) THEN Saved(p) /\ Follow(w.todo)
                                                         ELSE FilesAre(model)
        /\ w.at = "restore" => Saved(p) /\ Follow(File \ w.todo)
    BY <2>1, <2>2 DEF WorkFollowsModel
  <2>. DEFINE Following(fs) == \A f \in fs \ unrestored' : file'[f] = model'
              Kept == \A f \in File \ unrestored' : v.backup[f] = model'
              Known ==
        /\ v.at \in {"load", "generateOnly", "backup", "over"} => Following(File)
        /\ v.at = "generateOnly" => v.new = model'
        /\ v.at \in {"backup", "generate", "replace"} =>
              v.old = model' /\ v.new = Append(model', p)
        /\ v.at \in {"generate", "replace"} => Kept /\ Following(v.todo)
        /\ v.at = "generate" => \A f \in File \ v.todo : file'[f] = v.new
        /\ v.at = "replace" => \A f \in File : file'[f] = v.new
        /\ v.at = "sync" => v.new = model' /\ FilesAre(model)' /\ Len(model') = Len(v.old) + 1
        /\ v.at = "failed" => IF Len(model') = Len(v.old) THEN Kept /\ Following(v.todo)
                                                          ELSE FilesAre(model)'
        /\ v.at = "restore" => Kept /\ Following(File \ v.todo)
  <2>6. Known /\ (\A m \in accepted' : IsPrefix(m, model')) =>
           WorkFollowsModel' /\ FilesFollowTheModel'
    <3>. SUFFICES ASSUME Known, \A m \in accepted' : IsPrefix(m, model')
                  PROVE  WorkFollowsModel' /\ FilesFollowTheModel'
      OBVIOUS
    <3>1. WorkFollowsModel'
      BY <1>2, <2>2 DEF WorkFollowsModel, FilesAre, Follow, Saved
    <3>2. FilesFollowTheModel'
      BY <2>2 DEF FilesFollowTheModel, FilesAre
    <3>. QED  BY <3>1, <3>2
  <2>7. \A x \in Works : work' = [work EXCEPT ![p] = x] => v = x
    BY <1>1, <2>3
  <2>. USE DEF FilesAre, Saved, Follow
  <2>8. [NoWork EXCEPT !.at = "over"] \in Works /\ (Finish(p) => v.at = "over")
    <3>1. [NoWork EXCEPT !.at = "over"] \in Works
      BY NoWorkIsWork, WorkUpdates DEF WorkSteps
    <3>2. [NoWork EXCEPT !.at = "over"].at = "over"
      BY DEF NoWork
    <3>. QED  BY <2>7, <3>1, <3>2 DEF Finish
  <2>9. CASE LoadModel(p)
    <3>1. w.at = "load" /\ UNCHANGED <<model, file, accepted, unrestored>>
      BY <2>9 DEF LoadModel, Working
    <3>2. v = [NoWork EXCEPT !.at = "backup", !.old = model, !.new = Append(model, p)]
      BY <1>1, <2>3, <2>9 DEF LoadModel
    <3>3. v.at = "backup" /\ v.old = model /\ v.new = Append(model, p)
      BY <3>2 DEF NoWork
    <3>. QED  BY <2>2, <2>4, <2>5, <2>6, <3>1, <3>3
  <2>10. CASE LoadToGenerate(p)
    <3>1. w.at = "load" /\ UNCHANGED <<model, file, accepted, unrestored>>
      BY <2>10 DEF LoadToGenerate, Working
    <3>2. v.at = "over" \/ (v.at = "generateOnly" /\ v.new = model)
      <4>1. Finish(p) \/ v = [NoWork EXCEPT !.at = "generateOnly", !.new = model, !.todo = File]
        BY <1>1, <2>3, <2>10 DEF LoadToGenerate
      <4>2. CASE Finish(p)
        BY <2>8, <4>2
      <4>3. CASE v = [NoWork EXCEPT !.at = "generateOnly", !.new = model, !.todo = File]
        BY <4>3 DEF NoWork
      <4>. QED  BY <4>1, <4>2, <4>3
    <3>. QED  BY <2>2, <2>4, <2>5, <2>6, <3>1, <3>2
  <2>11. CASE GenerateOnly(p)
    <3>1. w.at = "generateOnly" /\ UNCHANGED <<model, accepted>>
      BY <2>11 DEF GenerateOnly, Working
    <3>2. CASE UNCHANGED <<file, unrestored>> /\ Finish(p)
      BY <2>2, <2>4, <2>5, <2>6, <2>8, <3>1, <3>2
    <3>3. CASE ~ (UNCHANGED <<file, unrestored>> /\ Finish(p))
      <4>1. PICK f \in w.todo : /\ file' = [file EXCEPT ![f] = w.new]
                                /\ work' = [work EXCEPT ![p].todo = @ \ {f}]
                                /\ unrestored' = unrestored \ {f}
        BY <2>11, <3>3 DEF GenerateOnly
      <4>2. v.at = "generateOnly" /\ v.new = w.new
        BY <1>1, <2>3, <3>1, <4>1 DEF Works
      <4>3. Following(File)
        BY <2>3, <2>5, <3>1, <4>1
      <4>. QED  BY <2>2, <2>4, <2>5, <2>6, <3>1, <4>2, <4>3
    <3>. QED  BY <3>2, <3>3
  <2>12. CASE BackupPaths(p)
    <3>1. w.at = "backup" /\ UNCHANGED <<model, file, accepted, unrestored>>
      BY <2>12 DEF BackupPaths, Working
    <3>2. v = [w EXCEPT !.at = "generate", !.backup = file, !.todo = File]
      BY <1>1, <2>3, <2>12 DEF BackupPaths
    <3>3. v.at = "generate" /\ v.old = w.old /\ v.new = w.new /\ v.backup = file /\ v.todo = File
      BY <2>3, <3>2 DEF Works
    <3>. QED  BY <2>2, <2>4, <2>5, <2>6, <3>1, <3>3
  <2>13. CASE GenerateFile(p)
    <3>1. w.at = "generate" /\ UNCHANGED <<model, accepted, unrestored>>
      BY <2>13 DEF GenerateFile, Working
    <3>2. PICK f \in w.todo :
             /\ file' = [file EXCEPT ![f] = w.new]
             /\ work' = [work EXCEPT ![p] =
                   [work[p] EXCEPT !.at = IF work[p].todo = {f} THEN "replace" ELSE work[p].at,
                                   !.todo = work[p].todo \ {f}]]
      BY <2>13 DEF GenerateFile
    <3>3. /\ v.at = (IF w.todo = {f} THEN "replace" ELSE "generate")
          /\ v.old = w.old /\ v.new = w.new /\ v.backup = w.backup /\ v.todo = w.todo \ {f}
      BY <1>1, <2>3, <3>1, <3>2 DEF Works
    <3>. HIDE DEF Follow, Saved
    <3>4. file'[f] = w.new /\ \A g \in File \ {f} : file'[g] = file[g]
      BY <2>3, <3>2, ChangedAt
    <3>5. \A g \in File \ (w.todo \ {f}) : file'[g] = w.new
      BY <2>5, <3>1, <3>4
    <3>6. v.at = "replace" => \A g \in File : file'[g] = w.new
      BY <3>3, <3>5
    <3>7. Following(w.todo \ {f}) /\ Saved(p)
      <4>1. Saved(p) /\ Follow(w.todo) /\ w.todo \subseteq File
        BY <2>3, <2>5, <3>1
      <4>. QED  BY <3>1, <3>4, <4>1 DEF Follow
    <3>8. Kept
      BY <3>1, <3>3, <3>7 DEF Saved
    <3>. QED  BY <2>2, <2>4, <2>5, <2>6, <3>1, <3>3, <3>5, <3>6, <3>7, <3>8
  <2>14. CASE ReplaceModel(p)
    <3>1. w.at = "replace" /\ UNCHANGED <<file, accepted>> /\ model' = w.new
      BY <2>14 DEF ReplaceModel, Working
    <3>2. v.at = "sync" /\ v.new = w.new /\ v.old = w.old
      BY <1>1, <2>3, <2>14 DEF ReplaceModel, GoOn, Works
    <3>3. \A m \in accepted' : IsPrefix(m, model')
      <4>1. model \in Seq(Proc) /\ accepted \subseteq Seq(Proc)
        BY <2>3 DEF Models
      <4>2. \A m \in accepted : IsPrefix(m, Append(model, p))
        BY <1>1, <2>4, <4>1, PrefixOfAppend
      <4>. QED  BY <2>5, <3>1, <4>2
    <3>. QED  BY <2>2, <2>3, <2>5, <2>6, <3>1, <3>2, <3>3
  <2>15. CASE ReturnModel(p)
    <3>1. /\ w.at = "sync" /\ UNCHANGED <<model, file, unrestored>> /\ accepted' = accepted \cup {w.new}
          /\ v.at = "over"
      BY <2>8, <2>15 DEF ReturnModel, Working
    <3>2. \A m \in accepted' : IsPrefix(m, model')
      BY <2>3, <2>4, <2>5, <3>1, PrefixOfItself DEF Models
    <3>. QED  BY <2>2, <2>5, <2>6, <3>1, <3>2
  <2>16. CASE ModelThrows(p)
    <3>1. /\ w.at \in {"backup", "generate", "replace", "sync"}
          /\ UNCHANGED <<model, file, accepted, unrestored>>
      BY <2>16 DEF ModelThrows
    <3>2. /\ v.at = (IF w.at = "backup" THEN "over" ELSE "failed")
          /\ v.old = w.old /\ v.backup = w.backup /\ v.todo = w.todo
      BY <1>1, <2>3, <2>16 DEF ModelThrows, GoOn, Works
    <3>3. Len(w.old) \in Nat
      <4>1. w.old \in Seq(Proc)
        BY <2>3 DEF Works, Models
      <4>. QED  BY <4>1
    <3>. QED  BY <2>2, <2>3, <2>4, <2>5, <2>6, <3>1, <3>2, <3>3
  <2>17. CASE AfterFailure(p)
    <3>1. w.at = "failed" /\ UNCHANGED <<model, file, accepted, unrestored>>
      BY <2>17 DEF AfterFailure, Working
    <3>2. CASE Len(model) # Len(w.old)
      <4>1. v.at = "over"
        BY <2>8, <2>17, <3>2 DEF AfterFailure
      <4>. QED  BY <2>2, <2>4, <2>5, <2>6, <3>1, <3>2, <4>1
    <3>3. CASE Len(model) = Len(w.old)
      <4>1. v = [w EXCEPT !.at = "restore", !.todo = File]
        BY <1>1, <2>3, <2>17, <3>3 DEF AfterFailure
      <4>2. v.at = "restore" /\ v.backup = w.backup /\ v.todo = File
        BY <2>3, <4>1 DEF Works
      <4>. QED  BY <2>2, <2>4, <2>5, <2>6, <3>1, <3>3, <4>2
    <3>. QED  BY <3>2, <3>3
  <2>18. CASE ReloadFails(p)
    <3>1. /\ w.at = "failed" /\ UNCHANGED <<model, file, accepted>> /\ v.at = "over"
          /\ unrestored' = unrestored \cup ToPutBack(p)
      BY <2>8, <2>18 DEF ReloadFails, Working
    <3>2. Following(File)
      BY <2>3, <2>5, <3>1 DEF ToPutBack
    <3>. QED  BY <2>2, <2>4, <2>6, <3>1, <3>2
  <2>19. ASSUME NEW f \in w.todo, Restored(p, f), w.at = "restore", UNCHANGED <<model, accepted>>,
                unrestored \subseteq unrestored', Following(File \ (w.todo \ {f}))
         PROVE  WorkFollowsModel' /\ FilesFollowTheModel'
    <3>1. \/ w.todo = {f} /\ v.at = "over"
          \/ v.at = "restore" /\ v.backup = w.backup /\ v.todo = w.todo \ {f}
      BY <1>1, <2>3, <2>19 DEF Restored, Works, NoWork
    <3>2. Saved(p)
      BY <2>5, <2>19
    <3>3. v.backup = w.backup => Kept
      BY <2>19, <3>2
    <3>. QED  BY <2>2, <2>4, <2>6, <2>19, <3>1, <3>3
  <2>20. CASE RestorePath(p)
    <3>1. w.at = "restore" /\ UNCHANGED <<model, accepted, unrestored>>
      BY <2>20 DEF RestorePath, Working
    <3>2. PICK f \in w.todo : file' = [file EXCEPT ![f] = w.backup[f]] /\ Restored(p, f)
      BY <2>20 DEF RestorePath
    <3>3. Following(File \ (w.todo \ {f}))
      <4>1. file'[f] = w.backup[f] /\ \A g \in File \ {f} : file'[g] = file[g]
        BY <2>3, <3>2, ChangedAt
      <4>2. Saved(p) /\ Follow(File \ w.todo)
        BY <2>5, <3>1
      <4>3. ASSUME NEW g \in (File \ (w.todo \ {f})) \ unrestored' PROVE file'[g] = model'
        <5>1. CASE g = f
          BY <3>1, <4>1, <4>2, <4>3, <5>1
        <5>2. CASE g # f
          BY <3>1, <4>1, <4>2, <4>3, <5>2
        <5>. QED  BY <5>1, <5>2
      <4>. QED  BY <4>3
    <3>. QED  BY <2>2, <2>19, <3>1, <3>2, <3>3
  <2>21. CASE RestorationFails(p)
    <3>1. w.at = "restore" /\ UNCHANGED <<model, accepted>>
      BY <2>21 DEF RestorationFails, Working
    <3>2. PICK f \in w.todo : /\ file' \in {file, [file EXCEPT ![f] = Torn]}
                              /\ unrestored' = unrestored \cup {f}
                              /\ Restored(p, f)
      BY <2>21 DEF RestorationFails
    <3>3. Following(File \ (w.todo \ {f}))
      <4>1. \A g \in File \ {f} : file'[g] = file[g]
        BY <2>3, <3>2, ChangedAt
      <4>2. Follow(File \ w.todo)
        BY <2>5, <3>1
      <4>3. ASSUME NEW g \in (File \ (w.todo \ {f})) \ unrestored' PROVE file'[g] = model'
        <5>1. g # f /\ g \notin unrestored /\ g \in File \ w.todo
          BY <3>2, <4>3
        <5>. QED  BY <3>1, <4>1, <4>2, <5>1
      <4>. QED  BY <4>3
    <3>. QED  BY <2>2, <2>19, <3>1, <3>2, <3>3
  <2>. QED  BY <2>2, <2>9, <2>10, <2>11, <2>12, <2>13, <2>14, <2>15, <2>16, <2>17, <2>18,
               <2>20, <2>21 DEF ModelStep
<1>. QED  BY <1>1, <1>3, <1>4

\* A call that ends where it is leaves the files to the model, but for those it would
\* have had to put back.
LEMMA EndsWithTheModel ==
  ASSUME ModelTypeOK, WorkFollowsModel, NEW p \in Inside
  PROVE  \A f \in File \ (unrestored \cup ToPutBack(p)) : file[f] = model
<1>. DEFINE w == work[p]
<1>1. /\ w.at \in {"load", "generateOnly", "backup", "over"} => Follow(File)
      /\ w.at \in {"generate", "replace"} => w.old = model /\ Follow(w.todo)
      /\ w.at = "sync" => FilesAre(model)
      /\ w.at = "failed" => IF Len(model) = Len(w.old) THEN Follow(w.todo) ELSE FilesAre(model)
      /\ w.at = "restore" => Follow(File \ w.todo)
  BY DEF WorkFollowsModel
<1>2. CASE w.at \in {"load", "generateOnly", "backup", "over"}
  BY <1>1, <1>2 DEF Follow
<1>3. CASE w.at \in {"generate", "replace"}
  BY <1>1, <1>3 DEF Follow, ToPutBack
<1>4. CASE w.at = "sync"
  BY <1>1, <1>4 DEF FilesAre
<1>5. CASE w.at = "failed"
  BY <1>1, <1>5 DEF Follow, FilesAre, ToPutBack
<1>6. CASE w.at = "restore"
  BY <1>1, <1>6 DEF Follow, ToPutBack
<1>7. w.at \in WorkSteps
  BY DEF ModelTypeOK, Works, Inside
<1>. QED  BY <1>2, <1>3, <1>4, <1>5, <1>6, <1>7 DEF WorkSteps

LEMMA ModelLockStepKeepsModelInv ==
  ASSUME ModelInv, LockInv, NEW p \in Alive, ModelLockStep(p)
  PROVE  ModelInv'
<1>. USE DEF ModelInv
<1>1. /\ p \in Proc /\ p \notin dead /\ pc \in [Proc -> Steps] /\ dead \subseteq Proc
      /\ UNCHANGED <<model, file, accepted>> /\ met' = (met \/ ~Exclusive')
  BY DEF LockInv, TypeOK, Alive, ModelLockStep
<1>2. FilesFollowTheModel /\ ~met =>
         /\ \A m \in accepted : IsPrefix(m, model)
         /\ Inside = {} => Follow(File)
  BY DEF FilesFollowTheModel, Follow
<1>3. CASE LockStep(p) /\ UNCHANGED <<work, unrestored>>
  <2>1. /\ Inside' = Inside \/ Inside' = Inside \cup {p}
        /\ p \notin Inside
    BY <1>1, <1>3, InsideMoves
  <2>2. ModelTypeOK'
    BY <1>1, <1>3 DEF ModelTypeOK
  <2>3. WorkIsInside' /\ work[p] = NoWork
    BY <1>1, <1>3, <2>1 DEF WorkIsInside
  <2>4. ASSUME ~met' PROVE Exclusive' /\ WorkFollowsModel' /\ FilesFollowTheModel'
    <3>1. ~met /\ Exclusive' /\ WorkFollowsModel /\ FilesFollowTheModel
      BY <1>1, <2>4
    <3>2. CASE Inside' = Inside
      <4>1. WorkFollowsModel'
        BY <1>1, <1>3, <3>1, <3>2 DEF WorkFollowsModel, FilesAre, Follow, Saved
      <4>2. FilesFollowTheModel'
        BY <1>1, <1>3, <3>1, <3>2 DEF FilesFollowTheModel
      <4>. QED  BY <3>1, <4>1, <4>2
    <3>3. CASE Inside' = Inside \cup {p}
      <4>1. Inside = {} /\ Inside' = {p}
        BY <2>1, <3>1, <3>3 DEF Exclusive
      <4>2. Follow(File)'
        BY <1>1, <1>2, <1>3, <3>1, <4>1 DEF Follow
      <4>3. work'[p].at = "load"
        BY <1>3, <2>3 DEF NoWork
      <4>4. WorkFollowsModel'
        BY <4>1, <4>2, <4>3 DEF WorkFollowsModel
      <4>5. FilesFollowTheModel'
        BY <1>1, <1>2, <3>1, <4>1, <4>3 DEF FilesFollowTheModel
      <4>. QED  BY <3>1, <4>4, <4>5
    <3>. QED  BY <2>1, <3>2, <3>3
  <2>. QED  BY <2>2, <2>3, <2>4
<1>4. CASE \/ Leave(p) /\ work[p].at = "over" /\ work' = [work EXCEPT ![p] = NoWork]
              /\ UNCHANGED unrestored
           \/ DiesAtWork(p)
  <2>1. Inside' = Inside \ {p} /\ work' = [work EXCEPT ![p] = NoWork]
    BY <1>1, <1>4, InsideMoves DEF DiesAtWork
  <2>2. ToPutBack(p) \subseteq File
    BY DEF ToPutBack
  <2>3. ModelTypeOK'
    BY <1>1, <1>4, <2>1, <2>2, NoWorkIsWork DEF ModelTypeOK, DiesAtWork
  <2>4. WorkIsInside' /\ \A q \in Inside' : work'[q] = work[q]
    BY <1>1, <2>1 DEF WorkIsInside, ModelTypeOK, Inside
  <2>5. ASSUME ~met' PROVE Exclusive' /\ WorkFollowsModel' /\ FilesFollowTheModel'
    <3>1. ~met /\ Exclusive /\ Exclusive' /\ WorkFollowsModel /\ FilesFollowTheModel
      BY <1>1, <2>5
    <3>2. CASE p \in Inside
      <4>1. Inside' = {}
        BY <2>1, <3>1, <3>2 DEF Exclusive
      <4>2. unrestored' = unrestored \cup ToPutBack(p)
        <5>1. work[p].at = "over" => ToPutBack(p) = {}
          BY DEF ToPutBack
        <5>. QED  BY <1>4, <5>1 DEF DiesAtWork
      <4>3. Follow(File)'
        BY <1>1, <3>1, <3>2, <4>2, EndsWithTheModel DEF Follow
      <4>. QED  BY <1>1, <1>2, <3>1, <4>1, <4>3
                DEF WorkFollowsModel, FilesFollowTheModel, Follow
    <3>3. CASE p \notin Inside
      <4>1. work[p] = NoWork /\ Inside' = Inside
        BY <1>1, <2>1, <3>3 DEF WorkIsInside
      <4>2. ToPutBack(p) = {}
        BY <4>1 DEF ToPutBack, NoWork
      <4>3. UNCHANGED unrestored
        BY <1>4, <4>2 DEF DiesAtWork
      <4>4. WorkFollowsModel'
        BY <1>1, <2>4, <3>1, <4>1, <4>3 DEF WorkFollowsModel, FilesAre, Follow, Saved
      <4>5. FilesFollowTheModel'
        BY <1>1, <2>4, <3>1, <4>1, <4>3 DEF FilesFollowTheModel
      <4>. QED  BY <3>1, <4>4, <4>5
    <3>. QED  BY <3>2, <3>3
  <2>. QED  BY <2>3, <2>4, <2>5
<1>. QED  BY <1>3, <1>4 DEF ModelLockStep

\* Two calls of one model have met only if a recoverer died with the recovery lock.
ModelLockKept == (kind = "model" /\ Sound) => ~met

LEMMA ModelNextKeepsLock ==
  ASSUME LockInv, ModelLockKept, NEW p \in Alive, ModelStep(p) \/ ModelLockStep(p)
  PROVE  LockInv' /\ ModelLockKept'
<1>1. CASE ModelStep(p)
  <2>1. UNCHANGED lockVars /\ met' = met
    BY <1>1 DEF ModelStep, LoadModel, LoadToGenerate, GenerateOnly, BackupPaths, GenerateFile,
                ReplaceModel, ReturnModel, ModelThrows, AfterFailure, ReloadFails, RestorePath,
                RestorationFails
  <2>2. LockInv' /\ (Sound' <=> Sound)
    BY <2>1, StutterKeepsLockInv DEF lockVars, Sound
  <2>. QED  BY <2>1, <2>2 DEF ModelLockKept, lockVars
<1>2. CASE ModelLockStep(p)
  <2>1. LockStep(p) \/ Leave(p) \/ Dies(p)
    BY <1>2 DEF ModelLockStep, DiesAtWork
  <2>2. LockInv' /\ (Sound' => Sound) /\ kind' = kind
    BY <2>1, StepKeepsLockInv, StepKeepsSound
  <2>3. Sound' => Exclusive'
    BY <2>2 DEF LockInv, Exclusive, HoldersOwn, Inside, Holding, Alive
  <2>. QED  BY <1>2, <2>2, <2>3 DEF ModelLockKept, ModelLockStep
<1>. QED  BY <1>1, <1>2

\* The project model under its lock: as long as no two calls have met, what calls have
\* returned is part of the model, and the files follow it but for those whose restoration has
\* failed or was cut short; and calls have not met unless a process died while it recovered the lock of another.
THEOREM ModelIsSafe ==
  ModelSpec => [](TypeOK /\ LockIsExclusive /\ FilesFollowTheModel /\ ModelLockKept)
<1>. DEFINE MInv == LockInv /\ ModelInv /\ ModelLockKept
<1>1. Init /\ ModelInit => MInv
  BY InitLockInv, InitModelInv DEF ModelLockKept, ModelInit
<1>2. MInv /\ [ModelNext]_<<lockVars, modelVars>> => MInv'
  <2>. SUFFICES ASSUME MInv, [ModelNext]_<<lockVars, modelVars>> PROVE MInv'
    OBVIOUS
  <2>1. ASSUME NEW p \in Alive, ModelStep(p) PROVE MInv'
    BY <2>1, ModelStepKeepsModelInv, ModelNextKeepsLock
  <2>2. ASSUME NEW p \in Alive, ModelLockStep(p) PROVE MInv'
    BY <2>2, ModelLockStepKeepsModelInv, ModelNextKeepsLock
  <2>3. ASSUME UNCHANGED <<lockVars, modelVars>> PROVE MInv'
    <3>1. LockInv'
      BY <2>3, StutterKeepsLockInv
    <3>2. ModelInv' /\ ModelLockKept'
      BY <2>3 DEF lockVars, modelVars, ModelInv, ModelTypeOK, WorkIsInside, Exclusive, Inside,
                  WorkFollowsModel, FilesAre, Follow, Saved, FilesFollowTheModel,
                  ModelLockKept, Sound
    <3>. QED  BY <3>1, <3>2
  <2>. QED  BY <2>1, <2>2, <2>3 DEF ModelNext, Alive
<1>3. MInv => TypeOK /\ LockIsExclusive /\ FilesFollowTheModel /\ ModelLockKept
  BY LockInvExcludes DEF LockInv, ModelInv, FilesFollowTheModel
<1>. QED  BY <1>1, <1>2, <1>3, PTL DEF ModelSpec
=============================================================================
