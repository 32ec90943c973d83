---------------------------- MODULE PlanningStore ----------------------------
(***************************************************************************)
(* One plan of planning/store.ts: its head, the immutable history of its   *)
(* revisions, and the calls create, mutateDraft and mutateDecision, which  *)
(* differ in what they check of the plan and not in how they store it.     *)
(* Every call runs under the lock of the plan, a FileLock of kind "plan".  *)
(*                                                                         *)
(* A plan is the sequence of the calls that made its revisions, so that    *)
(* its length is its revision and two plans are equal only if they have    *)
(* the same past.  Every file is written whole and renamed or linked into  *)
(* place after its content is synced.                                      *)
(***************************************************************************)
EXTENDS FileLock, Sequences, SequencesExt

CONSTANT MaxRevision   \* bound: no call writes a later revision

ASSUME PlanAssumption == MaxRevision \in Nat

VARIABLES head,      \* the plan at its path
          history,   \* the plan at the path of each revision
          call,      \* per process: its step under the lock and the plan it works on
          returned,  \* the plans that successful calls have returned
          together   \* two processes were inside the lock at once

planVars == <<head, history, call, returned, together>>

Revisions == 1..MaxRevision
None == << >>            \* no plan at a path; a plan that exists is at revision 1 at least
Idle == [at |-> "read", plan |-> None]

PlanInit ==
    /\ head = None
    /\ history = [r \in Revisions |-> None]
    /\ call = [p \in Proc |-> Idle]
    /\ returned = {}
    /\ together = FALSE

At(p, step) == pc[p] = "inside" /\ call[p].at = step
Continue(p, step, plan) == call' = [call EXCEPT ![p] = [at |-> step, plan |-> plan]]

\* The current head; the expected revision that the caller has read before it took the
\* lock either agrees with it or makes the call throw.
ReadHead(p) ==
    /\ At(p, "read")
    /\ \/ Len(head) < MaxRevision /\ Continue(p, "prune", head)
       \/ Continue(p, "over", None)
    /\ UNCHANGED <<head, history, returned, together>>

\* Mistake: the revision of the head is removed with the later ones.
RemoveHistoryFromHead(p) ==
    /\ At(p, "prune")
    /\ history' = [r \in Revisions |-> IF r >= Len(call[p].plan) THEN None ELSE history[r]]
    /\ Continue(p, "record", Append(call[p].plan, p))
    /\ UNCHANGED <<head, returned, together>>

\* Revisions later than the head that was read were published by calls that never
\* committed them.
RemoveUncommittedHistory(p) ==
    /\ At(p, "prune")
    /\ history' = [r \in Revisions |-> IF r > Len(call[p].plan) THEN None ELSE history[r]]
    /\ Continue(p, "record", Append(call[p].plan, p))
    /\ UNCHANGED <<head, returned, together>>

\* writeImmutableFile: the history is linked before the head is replaced; a revision
\* that is already there with another content makes the call throw.
WriteHistory(p) ==
    /\ At(p, "record")
    /\ LET next == call[p].plan IN
       IF history[Len(next)] \in {None, next}
       THEN /\ history' = [history EXCEPT ![Len(next)] = next]
            /\ Continue(p, "replace", next)
       ELSE /\ Continue(p, "over", None)
            /\ UNCHANGED history
    /\ UNCHANGED <<head, returned, together>>

ReplaceHead(p) ==
    /\ At(p, "replace")
    /\ head' = call[p].plan
    /\ Continue(p, "sync", call[p].plan)
    /\ UNCHANGED <<history, returned, together>>

\* The sync of the directory succeeds and the call returns its plan, or it throws and
\* the caller does not know whether its revision was committed.
ReturnPlan(p) ==
    /\ At(p, "sync")
    /\ returned' = returned \cup {call[p].plan}
    /\ Continue(p, "over", None)
    /\ UNCHANGED <<head, history, together>>

\* Writing, linking, renaming or syncing a file fails.
StoreThrows(p) ==
    /\ pc[p] = "inside" /\ call[p].at \in {"record", "replace", "sync"}
    /\ Continue(p, "over", None)
    /\ UNCHANGED <<head, history, returned, together>>

PlanStep(p) ==
    /\ \/ ReadHead(p) \/ RemoveUncommittedHistory(p) \/ WriteHistory(p)
       \/ ReplaceHead(p) \/ ReturnPlan(p) \/ StoreThrows(p)
    /\ UNCHANGED lockVars

\* Every other step is one of the lock; a call is over before the lock is released.
PlanLockStep(p) ==
    /\ \/ LockStep(p) /\ UNCHANGED call
       \/ Leave(p) /\ call[p].at = "over" /\ call' = [call EXCEPT ![p] = Idle]
       \/ Dies(p) /\ call' = [call EXCEPT ![p] = Idle]
    /\ together' = (together \/ ~Exclusive')
    /\ UNCHANGED <<head, history, returned>>

PlanNext == \E p \in Proc \ dead : PlanStep(p) \/ PlanLockStep(p)

PlanSpec == Init /\ PlanInit /\ [][PlanNext]_<<lockVars, planVars>>

----------------------------------------------------------------------------
(* Properties. *)

\* As long as the lock keeps its promise, whatever crashes and fails in between, what a
\* successful call has returned stays part of the plan, the history up to the head is
\* the past of the head, and at most one revision was published without being committed.
HistoryIsThePast ==
    ~together =>
       /\ \A plan \in returned : IsPrefix(plan, head)
       /\ \A r \in 1..Len(head) : history[r] = SubSeq(head, 1, r)
       /\ \A r \in Revisions : r > Len(head) + 1 => history[r] = None

\* "Every decision is retained" (the comment of mutateDecision): what a call has
\* returned is part of every later plan.
DecisionsAreRetained == \A plan \in returned : IsPrefix(plan, head)
=============================================================================
