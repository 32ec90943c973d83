---------------------------- MODULE WorkersProofs ----------------------------
(***************************************************************************)
(* What holds of workers for every value of the constants.  The manager,   *)
(* for any number of attempts: the processes of an attempt whose result is *)
(* adopted are no more, a cancellation decides what is adopted, and        *)
(* completions are neither lost nor told twice by the queue.  The          *)
(* supervisor of an attempt, for any number of repairs: the result that it *)
(* writes tells what it saw of its child, and it is the attempt that the   *)
(* manager expects.                                                        *)
(***************************************************************************)
EXTENDS WorkerManager, SupervisedAttempt, FiniteSetTheorems, TLAPS

-----------------------------------------------------------------------------
(* The manager.                                                            *)

AttStatus == {"none", "planned", "dispatching", "running", "launch_ambiguous", "cancelling",
              "termination_failed", "succeeded", "failed", "cancelled", "lost"}
Att == [status : AttStatus, bound : BOOLEAN, kid : BOOLEAN, by : {"none", "primary", "recovery"}]
Sessions ==
    [status : Terminal \cup {"none", "launching", "running", "cancelling"},
     current : 0..MaxAttempts, att : [Attempt -> Att], auth : 0..MaxAttempts,
     queue : Seq(Attempt), inFlight : 0..MaxAttempts, completed : SUBSET Attempt]

\* The steps at which an operation is about an attempt, and others.
Writing == {"writeCancelled", "writeFailed", "writeFailedThrow", "writeLostAnyway"}
Busy == Writing \cup
        {"claim", "spawn", "receiptFile", "bind", "receipt", "checkRecovery", "checkResult",
         "mailbox", "missing", "fail", "adoptResult", "quarantine", "adoptRecovery", "adoptThrow"}
OpSteps == Busy \cup {"idle", "reserve", "reserveRetry", "end", "sent"}
Ops == [at : OpSteps, n : 0..MaxAttempts, full : BOOLEAN, cancelling : BOOLEAN,
        seen : AttStatus, bound : BOOLEAN]
Managers == [attached : BOOLEAN, timer : BOOLEAN, sending : 0..MaxAttempts,
             delivered : 0..MaxAttempts]

TypeInv ==
    /\ explicit \in BOOLEAN
    /\ run \in [Attempt -> A!Attempts]
    /\ recovery \in [Attempt -> {"none", "cancelled", "failed", "lost"}]
    /\ session \in Sessions
    /\ ops \in [Op -> Ops]
    /\ escalation \in [Attempt -> {"none", "term", "kill"}]
    /\ manager \in Managers
    /\ aborted \subseteq Attempt

\* Attempts follow one another: what lies ahead is untouched, what is past is adopted, and
\* nobody works on what lies ahead.
InOrder ==
    /\ \A n \in Attempt : n > session.current =>
          session.att[n] = NoAttempt /\ run[n].sup = "none" /\ recovery[n] = "none"
    /\ \A n \in Attempt : n < session.current => Adopted(n)
    /\ \A o \in Op : ops[o].at \in Busy => ops[o].n \in 1..session.current
    /\ session.auth # 0 => /\ session.auth = session.current /\ session.current < MaxAttempts
                           /\ Adopted(session.current)
    /\ \A o \in Op : ops[o].at = "reserveRetry" => session.current > 0

\* A worker whose attempt was adopted is over until it is retried.
AdoptedIsOver ==
    session.current > 0 /\ Adopted(session.current) => session.status \in Terminal

\* What the manager relies upon of the processes.
RunsAgree ==
    \A n \in Attempt :
       /\ run[n].sup = "none" => run[n].child = "none"
       /\ run[n].result # "none" => run[n].child = "gone"

\* An attempt that nobody has claimed, or whose one claimant has not spawned yet, has no
\* processes.
Unspawned(n) == run[n].sup = "none" /\ \A o \in Op : ops[o].at = "spawn" => ops[o].n # n
OneDispatches ==
    /\ \A n \in Attempt : session.att[n].status \in {"planned", "cancelling"} => Unspawned(n)
    /\ \A o \in Op : ops[o].at = "spawn" =>
          /\ run[ops[o].n].sup = "none"
          /\ \A p \in Op : ops[p].at = "spawn" /\ ops[p].n = ops[o].n => p = o

\* The child of such an attempt is gone, or never will be.
Harmless(n) ==
    \/ n \in aborted
    \/ run[n].child = "gone"
    \/ Unspawned(n) /\ session.att[n].status # "planned"

RecoveryIsHarmless ==
    /\ \A n \in Attempt : recovery[n] # "none" => Harmless(n) 
    /\ \A o \in Op : ops[o].at \in Writing \cup {"quarantine"} => Harmless(ops[o].n)
    /\ \A n \in Attempt : session.att[n].by = "recovery" => recovery[n] # "none"

\* The result of the supervisor that was adopted is there, and was not overridden.
AdoptedIsPublished ==
    \A n \in Attempt : session.att[n].by = "primary" =>
       /\ run[n].result # "none"
       /\ run[n].result # "cancelled" => ~run[n].cancel

\* Every attempt that was adopted, and no other, is in the queue, in flight or known, and in
\* one of these places once.
Queued(s, n) == \E i \in 1..Len(s.queue) : s.queue[i] = n
Placed(s) ==
    /\ \A i, j \in 1..Len(s.queue) : s.queue[i] = s.queue[j] => i = j
    /\ s.inFlight # 0 => ~Queued(s, s.inFlight) /\ s.inFlight \notin s.completed
    /\ \A n \in s.completed : ~Queued(s, n)
    /\ \A n \in Attempt :
          s.att[n].by # "none" <=> Queued(s, n) \/ s.inFlight = n \/ n \in s.completed
OnePlace == Placed(session)

\* What a session that is attached has in flight is what it sends or has delivered.
FlightIsKnown ==
    /\ manager.sending = 0 \/ manager.delivered = 0
    /\ manager.attached =>
          session.inFlight = IF manager.sending # 0 THEN manager.sending ELSE manager.delivered
    /\ ~manager.attached => manager.sending = 0 /\ manager.delivered = 0

IInv == /\ TypeInv /\ InOrder /\ AdoptedIsOver /\ RunsAgree /\ OneDispatches
        /\ RecoveryIsHarmless /\ AdoptedIsPublished /\ OnePlace /\ FlightIsKnown

\* What is not about completions.
Core == /\ InOrder /\ AdoptedIsOver /\ RunsAgree /\ OneDispatches /\ RecoveryIsHarmless
        /\ AdoptedIsPublished

-----------------------------------------------------------------------------
(* What a step may do that claims, reserves, adopts and recovers nothing.   *)

\* The processes go on, and the file of an adopted result stays what it was.
RunsFollow ==
    \A n \in Attempt :
       /\ run'[n].sup = "none" <=> run[n].sup = "none"
       /\ run'[n].sup = "none" => run'[n].child = "none"
       /\ run'[n].result # "none" => run'[n].child = "gone"
       /\ run[n].child = "gone" => run'[n].child = "gone"
       /\ session.att[n].by = "primary" => run'[n].result = run[n].result
                                           /\ run'[n].cancel = run[n].cancel

\* The session adopts nothing, plans nothing, and cancels where nothing was spawned.
SessionFollows ==
    /\ session'.current = session.current
    /\ \A n \in Attempt : session'.att[n].by = session.att[n].by
    /\ \A n \in Attempt : n > session.current => session'.att[n] = session.att[n]
    /\ \A n \in Attempt : session'.att[n].status # session.att[n].status =>
          /\ session'.att[n].status # "planned"
          /\ session'.att[n].status = "cancelling" =>
                session.att[n].status \in {"planned", "cancelling"}
    /\ session.current > 0 /\ Adopted(session.current) => session'.status \in Terminal
    /\ session'.auth = session.auth
          \/ (/\ session'.auth = session.current /\ session.current < MaxAttempts
              /\ Adopted(session.current))

\* A result of the manager's own is written where no process can be.
RecoveryFollows ==
    \A n \in Attempt : recovery'[n] # recovery[n] =>
       n <= session.current /\ recovery'[n] # "none" /\ Harmless(n)

\* An operation comes to no dispatch, and writes a result only where no process can be.
OpsFollow ==
    \A o \in Op :
       /\ ops'[o].at \in Busy => ops'[o].n \in 1..session.current
       /\ ops'[o].at = "spawn" => ops[o].at = "spawn" /\ ops'[o].n = ops[o].n
       /\ ops'[o].at = "reserveRetry" => session.current > 0
       /\ ops'[o].at \in Writing \cup {"quarantine"} =>
             \/ ops[o].at \in Writing \cup {"quarantine"} /\ ops'[o].n = ops[o].n
             \/ Harmless(ops[o].n)'

LEMMA CoreFollows ==
    ASSUME TypeInv, TypeInv', Core, RunsFollow, SessionFollows, OpsFollow,
           RecoveryFollows, aborted \subseteq aborted'
    PROVE  Core'
<1>. USE AttemptsAssumption DEF TypeInv, Sessions, Att
<1>a. \A n \in Attempt : Adopted(n)' <=> Adopted(n)
  BY DEF SessionFollows, Adopted
<1>c. session.current \in 0..MaxAttempts /\ session'.current = session.current
  BY DEF SessionFollows
<1>b. session.current > 0 => session.current \in Attempt
  BY <1>c DEF Attempt
<1>u. \A n \in Attempt : Unspawned(n) => Unspawned(n)'
  <2>1. SUFFICES ASSUME NEW n \in Attempt, Unspawned(n) PROVE Unspawned(n)'
    OBVIOUS
  <2>2. run'[n].sup = "none"
    BY <2>1 DEF Unspawned, RunsFollow
  <2>3. \A o \in Op : ops'[o].at = "spawn" => ops'[o].n # n
    BY <2>1 DEF Unspawned, OpsFollow
  <2>. QED  BY <2>2, <2>3 DEF Unspawned
<1>h. \A n \in Attempt : Harmless(n) => Harmless(n)'
  <2>1. SUFFICES ASSUME NEW n \in Attempt, Harmless(n) PROVE Harmless(n)'
    OBVIOUS
  <2>2. CASE Unspawned(n) /\ session.att[n].status # "planned"
    <3>1. session'.att[n].status # "planned"
      BY <2>2 DEF SessionFollows
    <3>2. Unspawned(n)'
      BY <2>2, <1>u
    <3>. QED  BY <3>1, <3>2 DEF Harmless
  <2>. QED  BY <2>1, <2>2 DEF Harmless, RunsFollow
<1>1. InOrder'
  <2>1. \A n \in Attempt : n > session'.current =>
            session'.att[n] = NoAttempt /\ run'[n].sup = "none" /\ recovery'[n] = "none"
    BY <1>c DEF Core, InOrder, SessionFollows, RunsFollow, RecoveryFollows, Attempt
  <2>2. \A n \in Attempt : n < session'.current => Adopted(n)'
    BY <1>a, <1>c DEF Core, InOrder
  <2>3. \A o \in Op : ops'[o].at \in Busy => ops'[o].n \in 1..session'.current
    BY <1>c DEF OpsFollow
  <2>4. session'.auth # 0 => /\ session'.auth = session'.current
                             /\ session'.current < MaxAttempts /\ Adopted(session.current)'
    <3>1. SUFFICES ASSUME session'.auth # 0
                   PROVE  /\ session'.auth = session.current /\ session.current < MaxAttempts
                          /\ Adopted(session.current)
      BY <1>a, <1>b, <1>c
    <3>. QED  BY <3>1 DEF SessionFollows, Core, InOrder
  <2>5. \A o \in Op : ops'[o].at = "reserveRetry" => session'.current > 0
    BY <1>c DEF OpsFollow
  <2>. QED  BY <2>1, <2>2, <2>3, <2>4, <2>5 DEF InOrder
<1>2. AdoptedIsOver'
  BY <1>a, <1>b, <1>c DEF AdoptedIsOver, SessionFollows
<1>3. RunsAgree'
  BY DEF RunsAgree, RunsFollow
<1>4. OneDispatches'
  <2>1. \A n \in Attempt : session'.att[n].status \in {"planned", "cancelling"} => Unspawned(n)'
    BY <1>u DEF Core, OneDispatches, SessionFollows
  <2>2. ASSUME NEW o \in Op, ops'[o].at = "spawn"
        PROVE  /\ run'[ops'[o].n].sup = "none"
               /\ \A p \in Op : ops'[p].at = "spawn" /\ ops'[p].n = ops'[o].n => p = o
    <3>1. ops[o].at = "spawn" /\ ops'[o].n = ops[o].n /\ ops[o].n \in Attempt
      <4>1. ops[o].at = "spawn" /\ ops'[o].n = ops[o].n
        BY <2>2 DEF OpsFollow
      <4>2. ops[o].n \in 1..session.current
        BY <4>1 DEF Core, InOrder, Busy
      <4>. QED  BY <4>1, <4>2, <1>c DEF Attempt
    <3>2. run'[ops[o].n].sup = "none"
      BY <3>1 DEF Core, OneDispatches, RunsFollow
    <3>. QED  BY <3>1, <3>2 DEF Core, OneDispatches, OpsFollow
  <2>. QED  BY <2>1, <2>2 DEF OneDispatches
<1>5. RecoveryIsHarmless'
  <2>1. \A n \in Attempt : recovery'[n] # "none" => Harmless(n)'
    BY <1>h DEF Core, RecoveryIsHarmless, RecoveryFollows
  <2>2. ASSUME NEW o \in Op, ops'[o].at \in Writing \cup {"quarantine"}
        PROVE  Harmless(ops[o].n)'
    <3>1. ops'[o].n \in Attempt
      BY <1>c, <2>2 DEF OpsFollow, Busy, Attempt
    <3>2. CASE ops[o].at \in Writing \cup {"quarantine"} /\ ops'[o].n = ops[o].n
      <4>1. Harmless(ops[o].n)
        BY <3>2 DEF Core, RecoveryIsHarmless
      <4>. QED  BY <3>1, <3>2, <4>1, <1>h
    <3>. QED  BY <2>2, <3>2 DEF OpsFollow
  <2>3. \A n \in Attempt : session'.att[n].by = "recovery" => recovery'[n] # "none"
    BY DEF Core, RecoveryIsHarmless, SessionFollows, RecoveryFollows
  <2>. QED  BY <2>1, <2>2, <2>3 DEF RecoveryIsHarmless
<1>6. AdoptedIsPublished'
  <2>1. SUFFICES ASSUME NEW n \in Attempt, session'.att[n].by = "primary"
                 PROVE  /\ run'[n].result # "none"
                        /\ run'[n].result # "cancelled" => ~run'[n].cancel
    BY DEF AdoptedIsPublished
  <2>2. session.att[n].by = "primary"
    BY <2>1 DEF SessionFollows
  <2>3. run'[n].result = run[n].result /\ run'[n].cancel = run[n].cancel
    BY <2>2 DEF RunsFollow
  <2>4. run[n].result # "none" /\ (run[n].result # "cancelled" => ~run[n].cancel)
    BY <2>2 DEF Core, AdoptedIsPublished
  <2>. QED  BY <2>3, <2>4
<1>. QED  BY <1>1, <1>2, <1>3, <1>4, <1>5, <1>6 DEF Core

LEMMA PlacesKept ==
    ASSUME TypeInv, OnePlace,
           session'.queue = session.queue, session'.inFlight = session.inFlight,
           session'.completed = session.completed,
           \A n \in Attempt : session'.att[n].by = session.att[n].by
    PROVE  OnePlace'
BY DEF OnePlace, Placed, Queued

LEMMA FlightKept ==
    ASSUME FlightIsKnown, session'.inFlight = session.inFlight,
           manager'.attached = manager.attached, manager'.sending = manager.sending,
           manager'.delivered = manager.delivered
    PROVE  FlightIsKnown'
BY DEF FlightIsKnown

\* What a step of an operation leaves alone.
LEMMA GoMoves ==
    ASSUME ops \in [Op -> Ops], NEW o \in Op, NEW step \in OpSteps \cup {"thrown"}, Go(o, step)
    PROVE  /\ ops' \in [Op -> Ops]
           /\ \A p \in Op \ {o} : ops'[p] = ops[p]
           /\ step \notin {"end", "thrown"} => ops'[o].at = step /\ ops'[o].n = ops[o].n
           /\ step \in {"end", "thrown"} => ops'[o].at \in {"end", "idle"}
<1>i. Idle \in Ops /\ Idle.at = "idle"
  BY AttemptsAssumption DEF Idle, Ops, OpSteps, AttStatus
<1>1. CASE step = "thrown" \/ (step = "end" /\ o = "binding")
  <2>1. ops' = [ops EXCEPT ![o] = Idle]
    BY <1>1 DEF Go
  <2>. QED  BY <1>1, <1>i, <2>1
<1>2. CASE step = "end" /\ o # "binding"
  <2>. DEFINE r == [Idle EXCEPT !.at = "end", !.full = ops[o].full]
  <2>1. ops' = [ops EXCEPT ![o] = r]
    BY <1>2 DEF Go
  <2>a. ops[o].full \in BOOLEAN
    BY DEF Ops
  <2>2. r \in Ops /\ r.at = "end"
    BY <1>i, <2>a DEF Ops, OpSteps
  <2>. HIDE DEF r
  <2>. QED  BY <1>2, <2>1, <2>2
<1>3. CASE step \notin {"end", "thrown"}
  <2>. DEFINE r == [ops[o] EXCEPT !.at = step]
  <2>1. ops' = [ops EXCEPT ![o] = r]
    BY <1>3 DEF Go
  <2>2. r \in Ops /\ r.at = step /\ r.n = ops[o].n
    BY <1>3 DEF Ops
  <2>. HIDE DEF r
  <2>. QED  BY <1>3, <2>1, <2>2
<1>. QED  BY <1>1, <1>2, <1>3

LEMMA GoFollows ==
    ASSUME TypeInv, Core, RunsFollow, SessionFollows, aborted \subseteq aborted',
           NEW o \in Op, NEW step \in OpSteps \cup {"thrown"}, Go(o, step),
           step \notin {"spawn", "reserveRetry"},
           step \in Busy => ops[o].n \in 1..session.current,
           step \in Writing \cup {"quarantine"} =>
              ops[o].at \in Writing \cup {"quarantine"} \/ Harmless(ops[o].n)'
    PROVE  OpsFollow
<1>1. /\ ops' \in [Op -> Ops]
      /\ \A p \in Op \ {o} : ops'[p] = ops[p]
      /\ step \notin {"end", "thrown"} => ops'[o].at = step /\ ops'[o].n = ops[o].n
      /\ step \in {"end", "thrown"} => ops'[o].at \in {"end", "idle"}
  BY GoMoves DEF TypeInv
<1>2. ASSUME NEW p \in Op \ {o} PROVE ops'[p] = ops[p] /\
             (ops[p].at \in Busy => ops[p].n \in 1..session.current)
  BY <1>1 DEF Core, InOrder
<1>. QED  BY <1>1, <1>2 DEF OpsFollow, Core, InOrder, Busy, Writing

LEMMA Stays ==
    ASSUME TypeInv, Core, UNCHANGED <<run, session>>
    PROVE  RunsFollow /\ SessionFollows
<1>1. RunsFollow
  BY DEF Core, RunsAgree, RunsFollow
<1>2. SessionFollows
  <2>1. session' = session
    OBVIOUS
  <2>2. session.auth \in 0..MaxAttempts
    BY DEF TypeInv, Sessions
  <2>3. session'.auth = session.auth
    BY <2>1
  <2>. QED  BY <2>1, <2>3 DEF SessionFollows, Core, AdoptedIsOver
<1>. QED  BY <1>1, <1>2

LEMMA OpsOnly ==
    ASSUME IInv, UNCHANGED <<explicit, run, recovery, session, escalation>>,
           manager' \in Managers, FlightIsKnown',
           aborted \subseteq aborted', aborted' \subseteq Attempt,
           ops' \in [Op -> Ops], OpsFollow
    PROVE  IInv'
<1>1. TypeInv'
  BY DEF IInv, TypeInv
<1>2. Core
  BY DEF IInv, Core
<1>3. Core'
  BY <1>1, <1>2, Stays, CoreFollows DEF IInv, RecoveryFollows
<1>4. OnePlace'
  BY PlacesKept DEF IInv
<1>. QED  BY <1>1, <1>3, <1>4 DEF IInv, Core

LEMMA GoOnly ==
    ASSUME IInv, UNCHANGED <<explicit, run, recovery, session, escalation, manager>>,
           aborted \subseteq aborted', aborted' \subseteq Attempt,
           NEW o \in Op, NEW step \in OpSteps \cup {"thrown"}, Go(o, step),
           step \notin {"spawn", "reserveRetry"},
           step \in Busy => ops[o].n \in 1..session.current,
           step \in Writing \cup {"quarantine"} =>
              ops[o].at \in Writing \cup {"quarantine"} \/ Harmless(ops[o].n)'
    PROVE  IInv'
<1>1. TypeInv /\ Core /\ FlightIsKnown
  BY DEF IInv, Core
<1>2. RunsFollow /\ SessionFollows
  BY <1>1, Stays
<1>3. OpsFollow
  BY <1>1, <1>2, GoFollows
<1>4. ops' \in [Op -> Ops]
  BY <1>1, GoMoves DEF TypeInv
<1>5. FlightIsKnown' /\ manager' \in Managers
  BY <1>1, FlightKept DEF TypeInv
<1>. QED  BY <1>3, <1>4, <1>5, OpsOnly

\* An operation that is not at a loose end works on an attempt that exists.
LEMMA BusyWorks ==
    ASSUME IInv, NEW o \in Op, ops[o].at \in Busy
    PROVE  ops[o].n \in 1..session.current /\ ops[o].n \in Attempt
<1>1. ops[o].n \in 1..session.current
  BY DEF IInv, InOrder
<1>2. session.current \in 0..MaxAttempts
  BY DEF IInv, TypeInv, Sessions
<1>. QED  BY <1>1, <1>2, AttemptsAssumption DEF Attempt

-----------------------------------------------------------------------------
(* The actions that move one operation and nothing else.                    *)

LEMMA AbortKeeps ==
    ASSUME IInv, NEW o \in Op, Abort(o) PROVE IInv'
<1>1. ops[o].at \in Busy
  BY DEF Abort, At, Busy
<1>2. ops[o].n \in 1..session.current /\ ops[o].n \in Attempt
  BY <1>1, BusyWorks
<1>3. aborted' = aborted \cup {ops[o].n} /\ Go(o, "writeCancelled")
  BY DEF Abort
<1>4. aborted' \subseteq Attempt
  BY <1>2, <1>3 DEF IInv, TypeInv
<1>5. ops'[o].n = ops[o].n
  BY <1>3, GoMoves DEF IInv, TypeInv, OpSteps, Busy, Writing
<1>6. Harmless(ops[o].n)'
  BY <1>3, <1>5 DEF Harmless
<1>. QED  BY <1>2, <1>3, <1>4, <1>6, GoOnly DEF Abort, OpSteps, Busy, Writing

LEMMA DispatchFailsKeeps ==
    ASSUME IInv, NEW o \in Op, DispatchFails(o) PROVE IInv'
<1>1. ops[o].at = "spawn"
  BY DEF DispatchFails, At
<1>2. ops[o].n \in 1..session.current /\ ops[o].n \in Attempt
  BY <1>1, BusyWorks DEF Busy
<1>3. ASSUME NEW step \in {"writeFailed", "writeFailedThrow"}, Go(o, step) PROVE IInv'
  <2>1. /\ \A p \in Op \ {o} : ops'[p] = ops[p]
        /\ ops'[o].at = step /\ ops'[o].n = ops[o].n
    BY <1>3, GoMoves DEF IInv, TypeInv, OpSteps, Busy, Writing
  <2>2. Harmless(ops[o].n)'
    <3>1. /\ run[ops[o].n].sup = "none"
          /\ \A p \in Op : ops[p].at = "spawn" /\ ops[p].n = ops[o].n => p = o
      BY <1>1 DEF IInv, OneDispatches
    <3>2. session.att[ops[o].n].status # "planned"
      BY <1>1, <1>2 DEF IInv, OneDispatches, Unspawned
    <3>3. Unspawned(ops[o].n)'
      <4>1. run'[ops'[o].n].sup = "none"
        BY <2>1, <3>1 DEF DispatchFails
      <4>2. \A p \in Op : ops'[p].at = "spawn" => ops'[p].n # ops'[o].n
        BY <1>3, <2>1, <3>1
      <4>. QED  BY <4>1, <4>2 DEF Unspawned
    <3>. QED  BY <2>1, <3>2, <3>3 DEF Harmless, DispatchFails
  <2>. QED  BY <1>2, <1>3, <2>2, GoOnly DEF DispatchFails, OpSteps, Busy, Writing, IInv, TypeInv
<1>. QED  BY <1>3 DEF DispatchFails

LEMMA CheckRecoveryKeeps ==
    ASSUME IInv, NEW o \in Op, CheckRecovery(o) PROVE IInv'
<1>1. ops[o].n \in 1..session.current
  BY BusyWorks DEF CheckRecovery, At, Busy
<1>2. PICK step \in {"adoptRecovery", "end", "missing", "checkResult"} : Go(o, step)
  BY DEF CheckRecovery
<1>. QED  BY <1>1, <1>2, GoOnly DEF CheckRecovery, OpSteps, Busy, Writing, IInv, TypeInv

LEMMA CheckResultKeeps ==
    ASSUME IInv, NEW o \in Op, CheckResult(o) PROVE IInv'
<1>1. ops[o].n \in 1..session.current
  BY BusyWorks DEF CheckResult, At, Busy
<1>2. PICK step \in {"adoptResult", "mailbox", "missing", "end"} : Go(o, step)
  BY DEF CheckResult
<1>. QED  BY <1>1, <1>2, GoOnly DEF CheckResult, OpSteps, Busy, Writing, IInv, TypeInv

LEMMA QuarantineKeeps ==
    ASSUME IInv, NEW o \in Op, Quarantine(o) PROVE IInv'
<1>1. ops[o].n \in 1..session.current
  BY BusyWorks DEF Quarantine, At, Busy
<1>. QED  BY <1>1, GoOnly DEF Quarantine, At, OpSteps, Busy, Writing, IInv, TypeInv

LEMMA ScanGoesKeeps ==
    ASSUME IInv, TooYoung \/ ReconcileMissing PROVE IInv'
<1>. "scan" \in Op
  BY DEF Op
<1>1. ops["scan"].n \in 1..session.current
  BY BusyWorks DEF TooYoung, ReconcileMissing, At, Busy
<1>2. PICK step \in {"end", "fail"} : Go("scan", step)
  BY DEF TooYoung, ReconcileMissing
<1>. QED  BY <1>1, <1>2, GoOnly DEF TooYoung, ReconcileMissing, OpSteps, Busy, Writing,
                                    IInv, TypeInv

LEMMA ScanStarts ==
    ASSUME TypeInv, NEW full \in BOOLEAN
    PROVE  /\ StartScan(full) \in Ops
           /\ StartScan(full).at \in {"end", "reserve", "receipt"}
           /\ StartScan(full).at = "receipt" => StartScan(full).n \in 1..session.current
<1>i. Idle \in Ops /\ Idle.at = "idle"
  BY AttemptsAssumption DEF Idle, Ops, OpSteps, AttStatus
<1>. DEFINE n == session.current
            r1 == [Idle EXCEPT !.at = "end"]
            r2 == [Idle EXCEPT !.at = IF explicit \/ session.status \in Terminal THEN "end"
                                      ELSE "reserve"]
            r3 == [Idle EXCEPT !.at = "end", !.full = full]
            r4 == [at |-> "receipt", n |-> n, full |-> full, seen |-> session.att[n].status,
                   cancelling |-> session.status = "cancelling", bound |-> session.att[n].bound]
<1>1. r1 \in Ops /\ r1.at = "end"
  BY <1>i DEF Ops, OpSteps
<1>2. r2 \in Ops /\ r2.at \in {"end", "reserve"}
  BY <1>i DEF Ops, OpSteps
<1>3. r3 \in Ops /\ r3.at = "end"
  BY <1>i DEF Ops, OpSteps
<1>4. n \in 0..MaxAttempts
  BY DEF TypeInv, Sessions
<1>5. ASSUME n > 0 PROVE r4 \in Ops /\ r4.at = "receipt" /\ r4.n \in 1..session.current
  <2>1. session.att[n] \in Att /\ n \in 1..n
    BY <1>4, <1>5, AttemptsAssumption DEF TypeInv, Sessions, Attempt
  <2>2. session.att[n].status \in AttStatus /\ session.att[n].bound \in BOOLEAN
    BY <2>1 DEF Att
  <2>3. (session.status = "cancelling") \in BOOLEAN
    OBVIOUS
  <2>4. r4.at = "receipt" /\ r4.n = n
    OBVIOUS
  <2>5. r4 \in Ops
    <3>. HIDE DEF n
    <3>. QED  BY <1>4, <2>2, <2>3 DEF Ops, OpSteps, Busy
  <2>. QED  BY <2>1, <2>4, <2>5
<1>6. \/ StartScan(full) = r1 \/ StartScan(full) = r2 \/ StartScan(full) = r3
      \/ n > 0 /\ StartScan(full) = r4
  BY <1>4 DEF StartScan
<1>. HIDE DEF n, r1, r2, r3, r4
<1>. QED  BY <1>1, <1>2, <1>3, <1>5, <1>6

\* One operation is replaced by one that has nothing to write and nothing to spawn.
LEMMA ReplaceFollows ==
    ASSUME TypeInv, Core, NEW o \in Op, NEW r \in Ops, ops' = [ops EXCEPT ![o] = r],
           r.at \notin Writing \cup {"quarantine", "spawn"},
           r.at \in Busy => r.n \in 1..session.current,
           r.at = "reserveRetry" => session.current > 0
    PROVE  ops' \in [Op -> Ops] /\ OpsFollow
<1>1. /\ ops' \in [Op -> Ops] /\ ops'[o] = r
      /\ \A p \in Op \ {o} : ops'[p] = ops[p]
  BY DEF TypeInv
<1>2. \A p \in Op : /\ ops[p].at \in Busy => ops[p].n \in 1..session.current
                    /\ ops[p].at = "reserveRetry" => session.current > 0
  BY DEF Core, InOrder
<1>. QED  BY <1>1, <1>2 DEF OpsFollow

LEMMA ReplaceOnly ==
    ASSUME IInv, UNCHANGED <<explicit, run, recovery, session, escalation, aborted>>,
           manager' \in Managers, FlightIsKnown',
           NEW o \in Op, NEW r \in Ops, ops' = [ops EXCEPT ![o] = r],
           r.at \notin Writing \cup {"quarantine", "spawn"},
           r.at \in Busy => r.n \in 1..session.current,
           r.at = "reserveRetry" => session.current > 0
    PROVE  IInv'
<1>1. TypeInv /\ Core
  BY DEF IInv, Core
<1>2. ops' \in [Op -> Ops] /\ OpsFollow
  BY <1>1, ReplaceFollows
<1>3. aborted' \subseteq Attempt
  BY <1>1 DEF TypeInv
<1>. QED  BY <1>2, <1>3, OpsOnly

LEMMA IdleIsIdle == Idle \in Ops /\ Idle.at = "idle"
BY AttemptsAssumption DEF Idle, Ops, OpSteps, AttStatus

LEMMA TimerScanKeeps ==
    ASSUME IInv, TimerScan PROVE IInv'
<1>1. /\ StartScan(FALSE) \in Ops
      /\ StartScan(FALSE).at \in {"end", "reserve", "receipt"}
      /\ StartScan(FALSE).at = "receipt" => StartScan(FALSE).n \in 1..session.current
  BY ScanStarts DEF IInv
<1>2. manager' \in Managers /\ FlightIsKnown'
  BY FlightKept DEF TimerScan, IInv, TypeInv
<1>3. "scan" \in Op
  BY DEF Op
<1>4. ops' = [ops EXCEPT !["scan"] = StartScan(FALSE)]
  BY DEF TimerScan
<1>5. UNCHANGED <<explicit, run, recovery, session, escalation, aborted>>
  BY DEF TimerScan
<1>. QED  BY <1>1, <1>2, <1>3, <1>4, <1>5, ReplaceOnly DEF Busy, Writing

LEMMA ReconcileKeeps ==
    ASSUME IInv, Reconcile PROVE IInv'
<1>. DEFINE r == [Idle EXCEPT !.at = "checkRecovery", !.n = session.current]
<1>1. session.current \in 0..MaxAttempts /\ session.current > 0
  BY DEF IInv, TypeInv, Sessions, Reconcile
<1>a. r \in Ops
  BY <1>1, IdleIsIdle DEF Ops, OpSteps, Busy
<1>b. r.at = "checkRecovery" /\ r.n = session.current
  BY IdleIsIdle DEF Ops
<1>2. r \in Ops /\ r.at = "checkRecovery" /\ r.n \in 1..session.current
  <2>. HIDE DEF r
  <2>. QED  BY <1>1, <1>a, <1>b, AttemptsAssumption
<1>3. manager' \in Managers /\ FlightIsKnown'
  BY FlightKept DEF Reconcile, IInv, TypeInv
<1>4. "binding" \in Op /\ ops' = [ops EXCEPT !["binding"] = r]
  BY DEF Op, Reconcile
<1>5. UNCHANGED <<explicit, run, recovery, session, escalation, aborted>>
  BY DEF Reconcile
<1>. HIDE DEF r
<1>. QED  BY <1>2, <1>3, <1>4, <1>5, ReplaceOnly DEF Busy, Writing

LEMMA EndOpKeeps ==
    ASSUME IInv, NEW o \in Op, EndOp(o) PROVE IInv'
<1>1. manager \in Managers /\ FlightIsKnown /\ Active(session) \in BOOLEAN
  BY DEF IInv, TypeInv, Active
<1>2. /\ manager'.attached = manager.attached /\ manager'.sending = manager.sending
      /\ manager'.delivered = manager.delivered /\ manager' \in Managers
  BY <1>1 DEF EndOp, Managers
<1>3. session' = session
  BY DEF EndOp
<1>4. FlightIsKnown'
  BY <1>1, <1>2, <1>3, FlightKept
<1>5. ops' = [ops EXCEPT ![o] = Idle]
  BY DEF EndOp, Over
<1>6. UNCHANGED <<explicit, run, recovery, session, escalation, aborted>>
  BY DEF EndOp
<1>. QED  BY <1>2, <1>4, <1>5, <1>6, IdleIsIdle, ReplaceOnly DEF Busy, Writing

LEMMA QuarantineLateKeeps ==
    ASSUME IInv, QuarantineLate PROVE IInv'
<1>1. UNCHANGED <<explicit, run, recovery, session, ops, escalation, manager, aborted>>
  BY DEF QuarantineLate
<1>2. TypeInv' /\ OnePlace' /\ FlightIsKnown'
  BY <1>1 DEF IInv, TypeInv, OnePlace, Placed, FlightIsKnown, Queued
<1>3. InOrder' /\ AdoptedIsOver' /\ RunsAgree' /\ AdoptedIsPublished'
  BY <1>1 DEF IInv, InOrder, AdoptedIsOver, RunsAgree, AdoptedIsPublished, Adopted
<1>4. OneDispatches' /\ RecoveryIsHarmless'
  BY <1>1 DEF IInv, OneDispatches, RecoveryIsHarmless, Unspawned, Harmless
<1>. QED  BY <1>2, <1>3, <1>4 DEF IInv

-----------------------------------------------------------------------------
(* The actions that write the session, and adopt nothing.                   *)

LEMMA QuietKeeps ==
    ASSUME IInv, TypeInv', RunsFollow, SessionFollows, OpsFollow,
           UNCHANGED <<recovery, aborted, manager>>,
           session'.queue = session.queue, session'.inFlight = session.inFlight,
           session'.completed = session.completed
    PROVE  IInv'
<1>1. TypeInv /\ Core /\ OnePlace /\ FlightIsKnown
  BY DEF IInv, Core
<1>2. Core'
  BY <1>1, CoreFollows DEF RecoveryFollows
<1>3. \A n \in Attempt : session'.att[n].by = session.att[n].by
  BY DEF SessionFollows
<1>4. OnePlace'
  BY <1>1, <1>3, PlacesKept
<1>5. FlightIsKnown'
  BY <1>1, FlightKept
<1>. QED  BY <1>2, <1>4, <1>5 DEF IInv, Core

LEMMA SessionMoves ==
    ASSUME session \in Sessions, NEW n \in Attempt, NEW a \in Att,
           NEW y \in Terminal \cup {"none", "launching", "running", "cancelling"},
           session' = [session EXCEPT !.att[n] = a, !.status = y]
    PROVE  /\ session' \in Sessions
           /\ session'.att[n] = a /\ session'.status = y
           /\ \A m \in Attempt \ {n} : session'.att[m] = session.att[m]
           /\ session'.current = session.current /\ session'.auth = session.auth
           /\ session'.queue = session.queue /\ session'.inFlight = session.inFlight
           /\ session'.completed = session.completed
BY DEF Sessions

\* An attempt that is there changes its status, and the worker perhaps with it.
LEMMA StatusFollows ==
    ASSUME IInv, NEW n \in 1..session.current, NEW a \in Att,
           NEW y \in Terminal \cup {"none", "launching", "running", "cancelling"},
           session' = [session EXCEPT !.att[n] = a, !.status = y],
           a.by = session.att[n].by,
           a.status = session.att[n].status \/ a.status \notin {"planned", "cancelling"}
              \/ (a.status = "cancelling"
                    /\ session.att[n].status \in {"planned", "cancelling"}),
           Adopted(session.current) => y \in Terminal
    PROVE  /\ SessionFollows /\ session' \in Sessions
           /\ session'.queue = session.queue /\ session'.inFlight = session.inFlight
           /\ session'.completed = session.completed
<1>1. session \in Sessions
  BY DEF IInv, TypeInv
<1>2. session.current \in 0..MaxAttempts /\ n \in Attempt
  BY <1>1, AttemptsAssumption DEF Sessions, Attempt
<1>3. /\ session' \in Sessions
      /\ session'.att[n] = a /\ session'.status = y
      /\ \A m \in Attempt \ {n} : session'.att[m] = session.att[m]
      /\ session'.current = session.current /\ session'.auth = session.auth
      /\ session'.queue = session.queue /\ session'.inFlight = session.inFlight
      /\ session'.completed = session.completed
  BY <1>1, <1>2, SessionMoves
<1>4. \A m \in Attempt : session'.att[m].by = session.att[m].by
  BY <1>3
<1>5. \A m \in Attempt : m > session.current => session'.att[m] = session.att[m]
  BY <1>2, <1>3 DEF Attempt
<1>6. \A m \in Attempt : session'.att[m].status # session.att[m].status =>
          /\ session'.att[m].status # "planned"
          /\ session'.att[m].status = "cancelling" =>
                session.att[m].status \in {"planned", "cancelling"}
  BY <1>3
<1>. QED  BY <1>3, <1>4, <1>5, <1>6 DEF SessionFollows

LEMMA LaunchKeeps ==
    ASSUME IInv, Launch PROVE IInv'
<1>. DEFINE r == [Idle EXCEPT !.at = "reserve"]
<1>1. r \in Ops /\ r.at = "reserve"
  BY IdleIsIdle DEF Ops, OpSteps
<1>2. "launch" \in Op /\ ops' = [ops EXCEPT !["launch"] = r]
  BY DEF Op, Launch
<1>3. TypeInv /\ Core /\ session \in Sessions /\ session.current = 0
  BY DEF IInv, Core, TypeInv, Launch
<1>4. ops' \in [Op -> Ops] /\ OpsFollow
  <2>. HIDE DEF r
  <2>. QED  BY <1>1, <1>2, <1>3, ReplaceFollows DEF Busy, Writing
<1>5. session' = [session EXCEPT !.status = "launching"]
  BY DEF Launch, Change
<1>6. /\ session' \in Sessions /\ session'.att = session.att
      /\ session'.current = session.current /\ session'.auth = session.auth
      /\ session'.queue = session.queue /\ session'.inFlight = session.inFlight
      /\ session'.completed = session.completed
  BY <1>3, <1>5 DEF Sessions
<1>7. SessionFollows
  BY <1>3, <1>6 DEF SessionFollows
<1>8. RunsFollow
  BY <1>3 DEF Launch, Core, RunsAgree, RunsFollow
<1>9. TypeInv'
  BY <1>3, <1>4, <1>6 DEF Launch, TypeInv
<1>. QED  BY <1>4, <1>6, <1>7, <1>8, <1>9, QuietKeeps DEF Launch

LEMMA AuthorizeRetryKeeps ==
    ASSUME IInv, AuthorizeRetry PROVE IInv'
<1>. DEFINE r == [Idle EXCEPT !.at = "reserveRetry"]
<1>1. r \in Ops /\ r.at = "reserveRetry"
  BY IdleIsIdle DEF Ops, OpSteps
<1>2. "launch" \in Op /\ ops' = [ops EXCEPT !["launch"] = r]
  BY DEF Op, AuthorizeRetry
<1>3. /\ TypeInv /\ Core /\ session \in Sessions /\ Adopted(session.current)
      /\ session.current > 0 /\ session.current < MaxAttempts
  BY AttemptsAssumption DEF IInv, Core, TypeInv, AuthorizeRetry
<1>4. ops' \in [Op -> Ops] /\ OpsFollow
  <2>. HIDE DEF r
  <2>. QED  BY <1>1, <1>2, <1>3, ReplaceFollows DEF Busy, Writing
<1>5. session' = [session EXCEPT !.auth = session.current]
  BY DEF AuthorizeRetry, Change
<1>6. /\ session' \in Sessions /\ session'.att = session.att
      /\ session'.current = session.current /\ session'.auth = session.current
      /\ session'.queue = session.queue /\ session'.inFlight = session.inFlight
      /\ session'.completed = session.completed /\ session'.status = session.status
  BY <1>3, <1>5 DEF Sessions
<1>7. SessionFollows
  BY <1>3, <1>6 DEF SessionFollows, Core, AdoptedIsOver
<1>8. RunsFollow
  BY <1>3 DEF AuthorizeRetry, Core, RunsAgree, RunsFollow
<1>9. TypeInv'
  BY <1>3, <1>4, <1>6 DEF AuthorizeRetry, TypeInv
<1>. QED  BY <1>4, <1>6, <1>7, <1>8, <1>9, QuietKeeps DEF AuthorizeRetry

LEMMA NoIdentityKeeps ==
    ASSUME IInv, NEW o \in Op, NoIdentity(o) PROVE IInv'
<1>. DEFINE n == ops[o].n
            a == [session.att[n] EXCEPT !.status = "launch_ambiguous"]
<1>1. n \in 1..session.current /\ n \in Attempt
  BY BusyWorks DEF NoIdentity, At, Busy
<1>2. TypeInv /\ Core /\ session \in Sessions /\ session.att[n] \in Att
  BY <1>1 DEF IInv, Core, TypeInv, Sessions
<1>3. Go(o, "end") /\ UNCHANGED <<explicit, run, recovery, escalation, manager, aborted>>
  BY DEF NoIdentity
<1>4. CASE session' = session
  BY <1>3, <1>4, GoOnly DEF OpSteps, Busy, Writing, IInv, TypeInv
<1>5. CASE ~Adopted(n) /\ session' = [session EXCEPT !.att[n] = a, !.status = "needs_attention"]
  <2>1. a \in Att /\ a.by = session.att[n].by /\ a.status = "launch_ambiguous"
    BY <1>2 DEF Att, AttStatus
  <2>. HIDE DEF a
  <2>2. /\ SessionFollows /\ session' \in Sessions
        /\ session'.queue = session.queue /\ session'.inFlight = session.inFlight
        /\ session'.completed = session.completed
    BY <1>1, <1>5, <2>1, StatusFollows DEF Terminal
  <2>3. RunsFollow
    BY <1>2, <1>3 DEF Core, RunsAgree, RunsFollow
  <2>4. OpsFollow
    BY <1>2, <1>3, <2>2, <2>3, GoFollows DEF OpSteps, Busy, Writing
  <2>5. ops' \in [Op -> Ops]
    BY <1>2, <1>3, GoMoves DEF TypeInv, OpSteps
  <2>6. TypeInv'
    BY <1>2, <1>3, <2>2, <2>5 DEF TypeInv
  <2>. QED  BY <1>3, <2>2, <2>3, <2>4, <2>6, QuietKeeps
<1>6. session' = session
         \/ (~Adopted(n) /\ session' = [session EXCEPT !.att[n] = a, !.status = "needs_attention"])
  BY DEF NoIdentity, Change
<1>. QED  BY <1>4, <1>5, <1>6

LEMMA TerminationFailureKeeps ==
    ASSUME IInv, RecordTerminationFailure PROVE IInv'
<1>. DEFINE n == ops["scan"].n
            a == [session.att[n] EXCEPT !.status = "termination_failed"]
<1>0. "scan" \in Op
  BY DEF Op
<1>1. n \in 1..session.current /\ n \in Attempt
  BY <1>0, BusyWorks DEF RecordTerminationFailure, At, Busy
<1>2. TypeInv /\ Core /\ session \in Sessions /\ session.att[n] \in Att
  BY <1>1 DEF IInv, Core, TypeInv, Sessions
<1>3. Go("scan", "end") /\ UNCHANGED <<explicit, run, recovery, escalation, manager, aborted>>
  BY DEF RecordTerminationFailure
<1>4. CASE session' = session
  BY <1>0, <1>3, <1>4, GoOnly DEF OpSteps, Busy, Writing, IInv, TypeInv
<1>5. CASE session' = [session EXCEPT !.att[n] = a, !.status = "needs_attention"]
  <2>1. a \in Att /\ a.by = session.att[n].by /\ a.status = "termination_failed"
    BY <1>2 DEF Att, AttStatus
  <2>. HIDE DEF a
  <2>2. /\ SessionFollows /\ session' \in Sessions
        /\ session'.queue = session.queue /\ session'.inFlight = session.inFlight
        /\ session'.completed = session.completed
    BY <1>1, <1>5, <2>1, StatusFollows DEF Terminal
  <2>3. RunsFollow
    BY <1>2, <1>3 DEF Core, RunsAgree, RunsFollow
  <2>4. OpsFollow
    BY <1>0, <1>2, <1>3, <2>2, <2>3, GoFollows DEF OpSteps, Busy, Writing
  <2>5. ops' \in [Op -> Ops]
    BY <1>0, <1>2, <1>3, GoMoves DEF TypeInv, OpSteps
  <2>6. TypeInv'
    BY <1>2, <1>3, <2>2, <2>5 DEF TypeInv
  <2>. QED  BY <1>3, <2>2, <2>3, <2>4, <2>6, QuietKeeps
<1>6. \/ session' = session
      \/ session' = [session EXCEPT !.status = "needs_attention", !.att[n] = a]
  BY DEF RecordTerminationFailure, Change
<1>7. session' = [session EXCEPT !.status = "needs_attention", !.att[n] = a] =>
         session' = [session EXCEPT !.att[n] = a, !.status = "needs_attention"]
  <2>. HIDE DEF n, a
  <2>. QED  BY <1>2 DEF Sessions
<1>. QED  BY <1>4, <1>5, <1>6, <1>7

LEMMA BindSupervisorKeeps ==
    ASSUME IInv, NEW o \in Op, BindSupervisor(o) PROVE IInv'
<1>. DEFINE n == ops[o].n
            late == \/ session.att[n].by # "none" \/ session.att[n].status \in Terminal
                    \/ session.status = "cancelling" \/ session.current # n
            a == [session.att[n] EXCEPT !.bound = TRUE,
                    !.status = IF late THEN session.att[n].status ELSE "running"]
            y == IF late THEN session.status ELSE "running"
<1>1. n \in 1..session.current /\ n \in Attempt
  BY BusyWorks DEF BindSupervisor, At, Busy
<1>2. TypeInv /\ Core /\ session \in Sessions /\ session.att[n] \in Att
  BY <1>1 DEF IInv, Core, TypeInv, Sessions
<1>3. Go(o, "end") /\ UNCHANGED <<explicit, run, recovery, escalation, manager, aborted>>
  BY DEF BindSupervisor
<1>4. session' = [session EXCEPT !.att[n] = a, !.status = y]
  BY DEF BindSupervisor, Change
<1>5. a \in Att /\ a.by = session.att[n].by /\ a.status \in {session.att[n].status, "running"}
  BY <1>2 DEF Att, AttStatus
<1>6. /\ y \in Terminal \cup {"none", "launching", "running", "cancelling"}
      /\ Adopted(session.current) => y \in Terminal
  <2>1. session.status \in Terminal \cup {"none", "launching", "running", "cancelling"}
    BY <1>2 DEF Sessions
  <2>2. session.current > 0
    BY <1>1, <1>2 DEF Sessions
  <2>3. Adopted(session.current) => session.status \in Terminal /\ late
    BY <1>2, <2>2 DEF Core, AdoptedIsOver, Adopted
  <2>. QED  BY <2>1, <2>3
<1>. HIDE DEF a, y
<1>7. /\ SessionFollows /\ session' \in Sessions
      /\ session'.queue = session.queue /\ session'.inFlight = session.inFlight
      /\ session'.completed = session.completed
  BY <1>1, <1>4, <1>5, <1>6, StatusFollows
<1>8. RunsFollow
  BY <1>2, <1>3 DEF Core, RunsAgree, RunsFollow
<1>9. OpsFollow
  BY <1>2, <1>3, <1>7, <1>8, GoFollows DEF OpSteps, Busy, Writing
<1>10. ops' \in [Op -> Ops]
  BY <1>2, <1>3, GoMoves DEF TypeInv, OpSteps
<1>11. TypeInv'
  BY <1>2, <1>3, <1>7, <1>10 DEF TypeInv
<1>. QED  BY <1>3, <1>7, <1>8, <1>9, <1>11, QuietKeeps

LEMMA BindReceiptKeeps ==
    ASSUME IInv, BindReceipt PROVE IInv'
<1>. DEFINE n == ops["scan"].n
            runs == /\ session.att[n].by = "none" /\ session.att[n].status = "dispatching"
                    /\ ~session.att[n].bound
            a == [session.att[n] EXCEPT !.bound = TRUE,
                    !.status = IF runs THEN "running" ELSE session.att[n].status]
            y == IF runs /\ session.status # "cancelling" THEN "running" ELSE session.status
            place == CASE ops["scan"].seen = "planned" /\ ~explicit -> "claim"
                       [] ops["scan"].seen \in {"planned", "cancelling"} /\ explicit -> "end"
                       [] OTHER -> "checkRecovery"
            r == [ops["scan"] EXCEPT !.bound = ops["scan"].bound \/ run[n].receipt,
                    !.seen = "none", !.at = place]
<1>0. "scan" \in Op
  BY DEF Op
<1>1. n \in 1..session.current /\ n \in Attempt
  BY <1>0, BusyWorks DEF BindReceipt, At, Busy
<1>2. TypeInv /\ Core /\ session \in Sessions /\ session.att[n] \in Att /\ ops["scan"] \in Ops
  BY <1>0, <1>1 DEF IInv, Core, TypeInv, Sessions
<1>3. /\ ops' = [ops EXCEPT !["scan"] = r]
      /\ UNCHANGED <<explicit, run, recovery, escalation, manager, aborted>>
  BY DEF BindReceipt
<1>4. session' = session \/ session' = [session EXCEPT !.att[n] = a, !.status = y]
  BY DEF BindReceipt, Change
<1>5. a \in Att /\ a.by = session.att[n].by /\ a.status \in {session.att[n].status, "running"}
  BY <1>2 DEF Att, AttStatus
<1>6. /\ y \in Terminal \cup {"none", "launching", "running", "cancelling"}
      /\ Adopted(session.current) => y \in Terminal
  <2>1. session.status \in Terminal \cup {"none", "launching", "running", "cancelling"}
    BY <1>2 DEF Sessions
  <2>2. session.current \in Nat /\ session.current > 0
    BY <1>1, <1>2, AttemptsAssumption DEF Sessions
  <2>3. Adopted(session.current) => session.status \in Terminal
    BY <1>2, <2>2 DEF Core, AdoptedIsOver
  <2>4. n < session.current => Adopted(n)
    BY <1>1, <1>2 DEF Core, InOrder
  <2>5. Adopted(session.current) => ~runs
    BY <1>1, <2>2, <2>4 DEF Adopted
  <2>. QED  BY <2>1, <2>3, <2>5
<1>7. place \in {"claim", "end", "checkRecovery"}
  OBVIOUS
<1>8. r \in Ops /\ r.at = place /\ r.n = n
  <2>1. (ops["scan"].bound \/ run[n].receipt) \in BOOLEAN
    OBVIOUS
  <2>. HIDE DEF place
  <2>. QED  BY <1>2, <1>7, <2>1 DEF Ops, OpSteps, Busy, AttStatus
<1>. HIDE DEF a, y, place, r
<1>9. ops' \in [Op -> Ops] /\ OpsFollow
  BY <1>0, <1>1, <1>2, <1>3, <1>7, <1>8, ReplaceFollows DEF Busy, Writing
<1>10. CASE session' = session
  <2>1. manager' \in Managers /\ FlightIsKnown' /\ aborted' \subseteq Attempt
    BY <1>3, <1>10, FlightKept DEF IInv, TypeInv
  <2>. QED  BY <1>3, <1>9, <1>10, <2>1, OpsOnly
<1>11. CASE session' = [session EXCEPT !.att[n] = a, !.status = y]
  <2>1. /\ SessionFollows /\ session' \in Sessions
        /\ session'.queue = session.queue /\ session'.inFlight = session.inFlight
        /\ session'.completed = session.completed
    BY <1>1, <1>5, <1>6, <1>11, StatusFollows
  <2>2. RunsFollow
    BY <1>2, <1>3 DEF Core, RunsAgree, RunsFollow
  <2>3. TypeInv'
    BY <1>2, <1>3, <1>9, <2>1 DEF TypeInv
  <2>. QED  BY <1>3, <1>9, <2>1, <2>2, <2>3, QuietKeeps
<1>. QED  BY <1>4, <1>10, <1>11

LEMMA ReadMailboxKeeps ==
    ASSUME IInv, ReadMailbox PROVE IInv'
<1>. DEFINE n == ops["scan"].n
            a == [session.att[n] EXCEPT !.kid = run[n].mailbox # "starting"]
            y == IF /\ session.current = n /\ Active(session)
                    /\ session.status # "cancelling"
                 THEN "running" ELSE session.status
            e == IF run[n].mailbox = "child" /\ ops["scan"].cancelling /\ escalation[n] = "none"
                 THEN "term" ELSE escalation[n]
            step == IF run[n].mailbox = "stuck" THEN "fail" ELSE "end"
<1>0. "scan" \in Op
  BY DEF Op
<1>1. n \in 1..session.current /\ n \in Attempt
  BY <1>0, BusyWorks DEF ReadMailbox, At, Busy
<1>2. /\ TypeInv /\ Core /\ session \in Sessions /\ session.att[n] \in Att
      /\ escalation \in [Attempt -> {"none", "term", "kill"}]
  BY <1>0, <1>1 DEF IInv, Core, TypeInv, Sessions
<1>3. /\ Go("scan", step) /\ escalation' = [escalation EXCEPT ![n] = e]
      /\ UNCHANGED <<explicit, run, recovery, moved, manager, aborted>>
  BY DEF ReadMailbox
<1>4. session' = session
         \/ (~Adopted(n) /\ session' = [session EXCEPT !.att[n] = a, !.status = y])
  BY DEF ReadMailbox, Change
<1>5. a \in Att /\ a.by = session.att[n].by /\ a.status = session.att[n].status
  <2>1. (run[n].mailbox # "starting") \in BOOLEAN
    OBVIOUS
  <2>. QED  BY <1>2, <2>1 DEF Att, AttStatus
<1>6. y \in Terminal \cup {"none", "launching", "running", "cancelling"}
  BY <1>2 DEF Sessions
<1>7. ~Adopted(n) => (Adopted(session.current) => y \in Terminal)
  <2>1. session.current \in Nat /\ session.current > 0
    BY <1>1, <1>2, AttemptsAssumption DEF Sessions
  <2>2. Adopted(session.current) => session.status \in Terminal
    BY <1>2, <2>1 DEF Core, AdoptedIsOver
  <2>. QED  BY <2>2
<1>8. e \in {"none", "term", "kill"}
  BY <1>1, <1>2
<1>9. step \in {"fail", "end"}
  OBVIOUS
<1>. HIDE DEF a, y, e, step
<1>10. escalation' \in [Attempt -> {"none", "term", "kill"}]
  BY <1>2, <1>3, <1>8
<1>11. RunsFollow
  BY <1>2, <1>3 DEF Core, RunsAgree, RunsFollow
<1>12. SessionFollows /\ session' \in Sessions
       /\ session'.queue = session.queue /\ session'.inFlight = session.inFlight
       /\ session'.completed = session.completed
  <2>1. CASE session' = session
    BY <1>2, <1>3, <2>1, Stays
  <2>2. CASE ~Adopted(n) /\ session' = [session EXCEPT !.att[n] = a, !.status = y]
    BY <1>1, <1>5, <1>6, <1>7, <2>2, StatusFollows
  <2>. QED  BY <1>4, <2>1, <2>2
<1>13. OpsFollow
  BY <1>0, <1>1, <1>2, <1>3, <1>9, <1>11, <1>12, GoFollows DEF OpSteps, Busy, Writing
<1>14. ops' \in [Op -> Ops]
  BY <1>0, <1>2, <1>3, <1>9, GoMoves DEF TypeInv, OpSteps, Busy
<1>15. TypeInv'
  BY <1>2, <1>3, <1>10, <1>12, <1>14 DEF TypeInv
<1>. QED  BY <1>3, <1>11, <1>12, <1>13, <1>15, QuietKeeps

LEMMA CancelUnlaunchedKeeps ==
    ASSUME IInv, CancelUnlaunched PROVE IInv'
<1>1. /\ TypeInv /\ Core /\ session \in Sessions /\ session.current \in 0..MaxAttempts
      /\ session.status \notin Terminal
      /\ UNCHANGED <<explicit, run, recovery, escalation, manager, aborted>>
  BY DEF IInv, Core, TypeInv, Sessions, CancelUnlaunched
<1>2. RunsFollow
  BY <1>1 DEF Core, RunsAgree, RunsFollow
<1>3. CASE session.current = 0 /\ session' = [session EXCEPT !.status = "cancelled"]
           /\ ops' = ops
  <2>1. /\ session' \in Sessions /\ session'.att = session.att
        /\ session'.current = session.current /\ session'.auth = session.auth
        /\ session'.queue = session.queue /\ session'.inFlight = session.inFlight
        /\ session'.completed = session.completed
    BY <1>1, <1>3 DEF Sessions, Terminal
  <2>2. SessionFollows
    BY <1>3, <2>1 DEF SessionFollows
  <2>3. OpsFollow
    BY <1>1, <1>3 DEF OpsFollow, Core, InOrder
  <2>4. TypeInv'
    BY <1>1, <1>3, <2>1 DEF TypeInv
  <2>. QED  BY <1>1, <1>2, <2>1, <2>2, <2>3, <2>4, QuietKeeps
<1>4. ASSUME session.current > 0,
             session.att[session.current].status \in {"planned", "cancelling"},
             session' = [session EXCEPT !.status = "cancelling",
                                        !.att[session.current].status = "cancelling"],
             ops' = [ops EXCEPT !["binding"] =
                [Idle EXCEPT !.at = "writeCancelled", !.n = session.current]]
      PROVE  IInv'
  <2>. DEFINE n == session.current
              a == [session.att[n] EXCEPT !.status = "cancelling"]
              r == [Idle EXCEPT !.at = "writeCancelled", !.n = n]
  <2>1. n \in 1..session.current /\ n \in Attempt /\ n \in 0..MaxAttempts
    BY <1>1, <1>4, AttemptsAssumption DEF Attempt
  <2>2. a \in Att /\ a.by = session.att[n].by /\ a.status = "cancelling"
    BY <1>1, <2>1 DEF Sessions, Att, AttStatus
  <2>3. r \in Ops
    BY <2>1, IdleIsIdle DEF Ops, OpSteps, Busy, Writing
  <2>4. r.at = "writeCancelled" /\ r.n = n
    BY IdleIsIdle DEF Ops
  <2>5. session' = [session EXCEPT !.att[n] = a, !.status = "cancelling"]
    BY <1>1, <1>4 DEF Sessions
  <2>6. ops' = [ops EXCEPT !["binding"] = r] /\ "binding" \in Op
    BY <1>4 DEF Op
  <2>7. ~Adopted(n)
    BY <1>1, <1>4 DEF Core, AdoptedIsOver
  <2>8. Unspawned(n)
    BY <1>1, <1>4, <2>1 DEF Core, OneDispatches
  <2>. HIDE DEF a, r
  <2>9. /\ SessionFollows /\ session' \in Sessions
        /\ session'.queue = session.queue /\ session'.inFlight = session.inFlight
        /\ session'.completed = session.completed
    BY <1>4, <2>1, <2>2, <2>5, <2>7, StatusFollows
  <2>10. /\ ops' \in [Op -> Ops] /\ ops'["binding"] = r
         /\ \A p \in Op \ {"binding"} : ops'[p] = ops[p]
    BY <1>1, <2>3, <2>6 DEF TypeInv
  <2>11. Harmless(n)'
    <3>1. session'.att[n].status = "cancelling"
      BY <1>1, <2>1, <2>2, <2>5 DEF Sessions
    <3>2. run'[n].sup = "none"
      BY <1>1, <2>8 DEF Unspawned
    <3>3. \A p \in Op : ops'[p].at = "spawn" => ops'[p].n # n
      BY <2>4, <2>8, <2>10 DEF Unspawned
    <3>4. n' = n
      BY <2>9 DEF SessionFollows
    <3>. QED  BY <3>1, <3>2, <3>3, <3>4 DEF Harmless, Unspawned
  <2>12. OpsFollow
    <3>1. ASSUME NEW p \in Op \ {"binding"}
          PROVE  /\ ops'[p].at \in Busy => ops'[p].n \in 1..session.current
                 /\ ops'[p].at = "spawn" => ops[p].at = "spawn" /\ ops'[p].n = ops[p].n
                 /\ ops'[p].at = "reserveRetry" => session.current > 0
                 /\ ops'[p].at \in Writing \cup {"quarantine"} =>
                       ops[p].at \in Writing \cup {"quarantine"} /\ ops'[p].n = ops[p].n
      BY <1>1, <2>10 DEF Core, InOrder
    <3>2. /\ ops'["binding"].at \in Busy => ops'["binding"].n \in 1..session.current
          /\ ops'["binding"].at # "spawn" /\ ops'["binding"].at # "reserveRetry"
      BY <2>1, <2>4, <2>10
    <3>3. Harmless(ops["binding"].n)'
      <4>1. ops'["binding"].n = n'
        BY <2>4, <2>9, <2>10 DEF SessionFollows
      <4>. QED  BY <2>11, <4>1 DEF Harmless, Unspawned
    <3>. QED  BY <3>1, <3>2, <3>3 DEF OpsFollow
  <2>13. TypeInv'
    BY <1>1, <2>9, <2>10 DEF TypeInv
  <2>. QED  BY <1>1, <1>2, <2>9, <2>12, <2>13, QuietKeeps
<1>. QED  BY <1>3, <1>4 DEF CancelUnlaunched, Change

-----------------------------------------------------------------------------
(* The actions that change the processes of one attempt.                    *)

\* The processes of an attempt agree with each other and with its result.
Agrees(a) == (a.sup = "none" => a.child = "none") /\ (a.result # "none" => a.child = "gone")

LEMMA ProgressAgrees ==
    ASSUME NEW a \in A!Attempts, Agrees(a), NEW b \in A!Progress(a)
    PROVE  /\ b \in A!Attempts /\ Agrees(b)
           /\ b.sup = "none" <=> a.sup = "none"
           /\ a.child = "gone" => b.child = "gone"
<1>1. CASE b = [a EXCEPT !.receipt = TRUE]
  BY <1>1 DEF A!Attempts, Agrees
<1>2. CASE b \in A!Starts(a)
  <2>1. a.sup = "up" /\ b = [a EXCEPT !.mailbox = "starting"]
    BY <1>2 DEF A!Starts, A!When
  <2>. QED  BY <2>1 DEF A!Attempts, Agrees
<1>3. CASE b \in A!Runs(a)
  <2>1. a.sup = "up" /\ a.child = "none" /\ b = [a EXCEPT !.child = "alive"]
    BY <1>3 DEF A!Runs, A!When
  <2>. QED  BY <2>1 DEF A!Attempts, Agrees
<1>4. CASE b \in A!Announces(a)
  <2>1. a.sup = "up" /\ b = [a EXCEPT !.mailbox = "child"]
    BY <1>4 DEF A!Announces, A!When
  <2>. QED  BY <2>1 DEF A!Attempts, Agrees
<1>5. CASE b \in A!CannotKill(a)
  <2>1. a.sup = "up" /\ b = [a EXCEPT !.mailbox = "stuck"]
    BY <1>5 DEF A!CannotKill, A!When
  <2>. QED  BY <2>1 DEF A!Attempts, Agrees
<1>6. CASE b \in A!Publishes(a)
  <2>1. a.sup = "up" /\ a.child = "gone"
        /\ \E s \in {"succeeded", "cancelled"} : b = [a EXCEPT !.result = s]
    BY <1>6 DEF A!Publishes
  <2>. QED  BY <2>1 DEF A!Attempts, Agrees
<1>7. CASE b \in A!Ends(a)
  <2>1. a.sup = "up" /\ b = [a EXCEPT !.sup = "down"]
    BY <1>7 DEF A!Ends, A!When
  <2>. QED  BY <2>1 DEF A!Attempts, Agrees
<1>8. CASE b \in A!ChildExits(a)
  <2>1. a.child = "alive" /\ b = [a EXCEPT !.child = "gone"]
    BY <1>8 DEF A!ChildExits, A!When
  <2>. QED  BY <2>1 DEF A!Attempts, Agrees
<1>9. \/ b \in A!When(a.sup = "up", [a EXCEPT !.receipt = TRUE])
      \/ b \in A!Starts(a) \/ b \in A!Runs(a) \/ b \in A!Announces(a)
      \/ b \in A!CannotKill(a) \/ b \in A!Publishes(a) \/ b \in A!Ends(a)
      \/ b \in A!ChildExits(a)
  BY DEF A!Progress
<1>. QED  BY <1>1, <1>2, <1>3, <1>4, <1>5, <1>6, <1>7, <1>8, <1>9 DEF A!When

\* Operations that are left alone follow what was proved of them.
LEMMA OpsStay ==
    ASSUME TypeInv, Core, ops' = ops
    PROVE  OpsFollow
BY DEF OpsFollow, Core, InOrder

\* One attempt's processes change to what agrees with what they were.
LEMMA RunMoves ==
    ASSUME TypeInv, Core, NEW n \in Attempt, NEW b \in A!Attempts, Agrees(b),
           run' = [run EXCEPT ![n] = b],
           b.sup = "none" <=> run[n].sup = "none",
           run[n].child = "gone" => b.child = "gone",
           session.att[n].by = "primary" => b.result = run[n].result /\ b.cancel = run[n].cancel
    PROVE  RunsFollow /\ run' \in [Attempt -> A!Attempts]
<1>1. /\ run' \in [Attempt -> A!Attempts] /\ run'[n] = b
      /\ \A m \in Attempt \ {n} : run'[m] = run[m]
  BY DEF TypeInv
<1>2. \A m \in Attempt : Agrees(run[m])
  BY DEF Core, RunsAgree, Agrees
<1>3. SUFFICES ASSUME NEW m \in Attempt
               PROVE  /\ run'[m].sup = "none" <=> run[m].sup = "none"
                      /\ run'[m].sup = "none" => run'[m].child = "none"
                      /\ run'[m].result # "none" => run'[m].child = "gone"
                      /\ run[m].child = "gone" => run'[m].child = "gone"
                      /\ session.att[m].by = "primary" => run'[m].result = run[m].result
                                                          /\ run'[m].cancel = run[m].cancel
  BY <1>1 DEF RunsFollow
<1>4. CASE m = n
  BY <1>1, <1>4 DEF Agrees
<1>5. CASE m # n
  BY <1>1, <1>2, <1>5 DEF Agrees
<1>. QED  BY <1>4, <1>5

LEMMA OutsideKeeps ==
    ASSUME IInv, NEW n \in Attempt, Outside(n) PROVE IInv'
<1>1. TypeInv /\ Core /\ run[n] \in A!Attempts /\ Agrees(run[n])
  BY DEF IInv, Core, TypeInv, RunsAgree, Agrees
<1>2. PICK b \in A!Progress(run[n]) : run' = [run EXCEPT ![n] = b]
  BY DEF Outside
<1>3. /\ b \in A!Attempts /\ Agrees(b)
      /\ b.sup = "none" <=> run[n].sup = "none"
      /\ run[n].child = "gone" => b.child = "gone"
  BY <1>1, ProgressAgrees
<1>4. RunsFollow /\ run' \in [Attempt -> A!Attempts]
  BY <1>1, <1>2, <1>3, RunMoves DEF Outside
<1>5. UNCHANGED <<explicit, recovery, moved, session, ops, escalation, manager, aborted>>
  BY DEF Outside
<1>6. SessionFollows
  <2>1. session' = session /\ session.auth \in 0..MaxAttempts
    BY <1>1, <1>5 DEF TypeInv, Sessions
  <2>. QED  BY <1>1, <2>1 DEF SessionFollows, Core, AdoptedIsOver
<1>7. OpsFollow
  BY <1>1, <1>5, OpsStay
<1>8. TypeInv'
  BY <1>1, <1>4, <1>5 DEF TypeInv
<1>. QED  BY <1>4, <1>5, <1>6, <1>7, <1>8, QuietKeeps

LEMMA WriteReceiptKeeps ==
    ASSUME IInv, NEW o \in Op, WriteReceipt(o) PROVE IInv'
<1>. DEFINE n == ops[o].n
            b == [run[n] EXCEPT !.receipt = TRUE]
<1>1. n \in 1..session.current /\ n \in Attempt
  BY BusyWorks DEF WriteReceipt, At, Busy
<1>2. TypeInv /\ Core /\ run[n] \in A!Attempts /\ Agrees(run[n])
  BY <1>1 DEF IInv, Core, TypeInv, RunsAgree, Agrees
<1>3. /\ run' = [run EXCEPT ![n] = b] /\ Go(o, "bind")
      /\ UNCHANGED <<explicit, recovery, moved, session, escalation, manager, aborted>>
  BY DEF WriteReceipt, A!Receipted, A!When
<1>4. /\ b \in A!Attempts /\ Agrees(b) /\ b.sup = run[n].sup /\ b.child = run[n].child
      /\ b.result = run[n].result /\ b.cancel = run[n].cancel
  BY <1>2 DEF A!Attempts, Agrees
<1>. HIDE DEF b
<1>5. RunsFollow /\ run' \in [Attempt -> A!Attempts]
  BY <1>1, <1>2, <1>3, <1>4, RunMoves
<1>6. SessionFollows
  <2>1. session' = session /\ session.auth \in 0..MaxAttempts
    BY <1>2, <1>3 DEF TypeInv, Sessions
  <2>. QED  BY <1>2, <2>1 DEF SessionFollows, Core, AdoptedIsOver
<1>7. OpsFollow
  BY <1>1, <1>2, <1>3, <1>5, <1>6, GoFollows DEF OpSteps, Busy, Writing
<1>8. ops' \in [Op -> Ops]
  BY <1>2, <1>3, GoMoves DEF TypeInv, OpSteps, Busy
<1>9. TypeInv'
  BY <1>2, <1>3, <1>5, <1>8 DEF TypeInv
<1>. QED  BY <1>3, <1>5, <1>6, <1>7, <1>9, QuietKeeps

LEMMA CancelKeeps ==
    ASSUME IInv, Cancel PROVE IInv'
<1>. DEFINE n == session.current
            b == [run[n] EXCEPT !.cancel = TRUE]
            e == IF session.att[n].kid /\ run[n].child = "alive" /\ escalation[n] = "none"
                 THEN "term" ELSE escalation[n]
<1>1. TypeInv /\ Core /\ session \in Sessions /\ n \in Attempt /\ n > 0
  BY AttemptsAssumption DEF IInv, Core, TypeInv, Sessions, Cancel, Attempt
<1>2. /\ run[n] \in A!Attempts /\ Agrees(run[n])
      /\ escalation \in [Attempt -> {"none", "term", "kill"}]
  BY <1>1 DEF Core, TypeInv, RunsAgree, Agrees
<1>3. /\ run' = [run EXCEPT ![n] = b]
      /\ escalation' = [escalation EXCEPT ![n] = e]
      /\ session' = [session EXCEPT !.status = "cancelling"]
      /\ Active(session)
      /\ UNCHANGED <<explicit, recovery, moved, ops, manager, aborted>>
  BY DEF Cancel, Change, A!Cancelled
<1>4. /\ b \in A!Attempts /\ Agrees(b) /\ b.sup = run[n].sup /\ b.child = run[n].child
  BY <1>2 DEF A!Attempts, Agrees
<1>5. ~Adopted(n)
  BY <1>1, <1>3 DEF Core, AdoptedIsOver, Active
<1>6. e \in {"none", "term", "kill"}
  BY <1>1, <1>2
<1>. HIDE DEF b, e
<1>7. RunsFollow /\ run' \in [Attempt -> A!Attempts]
  BY <1>1, <1>2, <1>3, <1>4, <1>5, RunMoves DEF Adopted
<1>8. /\ session' \in Sessions /\ session'.att = session.att
      /\ session'.current = session.current /\ session'.auth = session.auth
      /\ session'.queue = session.queue /\ session'.inFlight = session.inFlight
      /\ session'.completed = session.completed
  BY <1>1, <1>3 DEF Sessions
<1>9. SessionFollows
  BY <1>5, <1>8 DEF SessionFollows
<1>10. OpsFollow
  BY <1>1, <1>3, OpsStay
<1>11. escalation' \in [Attempt -> {"none", "term", "kill"}]
  BY <1>2, <1>3, <1>6
<1>12. TypeInv'
  BY <1>1, <1>3, <1>7, <1>8, <1>11 DEF TypeInv
<1>. QED  BY <1>3, <1>7, <1>8, <1>9, <1>10, <1>12, QuietKeeps

LEMMA EscalateKeeps ==
    ASSUME IInv, NEW n \in Attempt, Escalate(n) PROVE IInv'
<1>. DEFINE b == [run[n] EXCEPT !.child = "gone"]
            kills == session.status = "cancelling" /\ session.current = n
                     /\ run[n].child = "alive"
            e == IF kills /\ escalation[n] = "term" THEN "kill" ELSE "none"
<1>1. TypeInv /\ Core /\ run[n] \in A!Attempts /\ Agrees(run[n])
  BY DEF IInv, Core, TypeInv, RunsAgree, Agrees
<1>2. /\ escalation' = [escalation EXCEPT ![n] = e]
      /\ UNCHANGED <<explicit, recovery, moved, session, ops, manager, aborted>>
  BY DEF Escalate
<1>3. run' = run \/ (run[n].child = "alive" /\ run' = [run EXCEPT ![n] = b])
  BY <1>1 DEF Escalate, TypeInv, A!Attempts
<1>4. ASSUME run[n].child = "alive"
      PROVE  /\ b \in A!Attempts /\ Agrees(b) /\ b.sup = run[n].sup /\ b.child = "gone"
             /\ b.result = run[n].result /\ b.cancel = run[n].cancel
  BY <1>1, <1>4 DEF A!Attempts, Agrees
<1>5. e \in {"none", "kill"}
  OBVIOUS
<1>. HIDE DEF b, e
<1>6. RunsFollow /\ SessionFollows /\ run' \in [Attempt -> A!Attempts]
  <2>1. CASE run' = run
    BY <1>1, <1>2, <2>1, Stays DEF TypeInv
  <2>2. CASE run[n].child = "alive" /\ run' = [run EXCEPT ![n] = b]
    <3>1. RunsFollow /\ run' \in [Attempt -> A!Attempts]
      BY <1>1, <1>4, <2>2, RunMoves
    <3>2. session' = session /\ session.auth \in 0..MaxAttempts
      BY <1>1, <1>2 DEF TypeInv, Sessions
    <3>. QED  BY <1>1, <3>1, <3>2 DEF SessionFollows, Core, AdoptedIsOver
  <2>. QED  BY <1>3, <2>1, <2>2
<1>7. OpsFollow
  BY <1>1, <1>2, OpsStay
<1>8. escalation' \in [Attempt -> {"none", "term", "kill"}]
  BY <1>1, <1>2, <1>5 DEF TypeInv
<1>9. TypeInv'
  BY <1>1, <1>2, <1>6, <1>8 DEF TypeInv
<1>. QED  BY <1>2, <1>6, <1>7, <1>9, QuietKeeps

-----------------------------------------------------------------------------
(* The actions that reserve, claim, dispatch and recover.                   *)

LEMMA WriteRecoveryKeeps ==
    ASSUME IInv, NEW o \in Op, WriteRecovery(o) PROVE IInv'
<1>. DEFINE n == ops[o].n
            status == CASE ops[o].at = "writeCancelled" -> "cancelled"
                        [] ops[o].at = "writeLostAnyway" -> "lost"
                        [] OTHER -> "failed"
            stays == \/ Adopted(n) \/ recovery[n] # "none"
                     \/ ops[o].at # "writeLostAnyway" /\ ResultThere(n)
            s == IF stays THEN recovery[n] ELSE status
            step == IF \/ o = "launch" /\ ops[o].at = "writeCancelled"
                       \/ ops[o].at = "writeFailedThrow"
                    THEN "adoptThrow" ELSE "adoptRecovery"
<1>1. ops[o].at \in Writing
  BY DEF WriteRecovery, At, Writing
<1>2. n \in 1..session.current /\ n \in Attempt /\ Harmless(n)
  BY <1>1, BusyWorks DEF Busy, IInv, RecoveryIsHarmless
<1>3. TypeInv /\ Core /\ session.current \in 0..MaxAttempts
  BY DEF IInv, Core, TypeInv, Sessions
<1>4. /\ recovery' = [recovery EXCEPT ![n] = s] /\ Go(o, step)
      /\ UNCHANGED <<explicit, run, moved, session, escalation, manager, aborted>>
  BY DEF WriteRecovery
<1>5. s \in {"none", "cancelled", "failed", "lost"} /\ (s # recovery[n] => s # "none")
  <2>1. status \in {"cancelled", "lost", "failed"}
    OBVIOUS
  <2>. HIDE DEF status
  <2>. QED  BY <1>2, <1>3, <2>1 DEF TypeInv
<1>6. step \in {"adoptThrow", "adoptRecovery"}
  OBVIOUS
<1>. HIDE DEF s, step
<1>7. recovery' \in [Attempt -> {"none", "cancelled", "failed", "lost"}]
  BY <1>2, <1>3, <1>4, <1>5 DEF TypeInv
<1>8. RecoveryFollows
  BY <1>2, <1>3, <1>4, <1>5 DEF TypeInv, RecoveryFollows
<1>9. RunsFollow /\ SessionFollows
  BY <1>3, <1>4, Stays
<1>10. OpsFollow
  BY <1>2, <1>3, <1>4, <1>6, <1>9, GoFollows DEF OpSteps, Busy, Writing
<1>11. ops' \in [Op -> Ops]
  BY <1>3, <1>4, <1>6, GoMoves DEF TypeInv, OpSteps, Busy
<1>12. TypeInv'
  BY <1>3, <1>4, <1>7, <1>11 DEF TypeInv
<1>13. Core'
  BY <1>3, <1>4, <1>8, <1>9, <1>10, <1>12, CoreFollows
<1>14. OnePlace' /\ FlightIsKnown'
  BY <1>4, PlacesKept, FlightKept DEF IInv
<1>. QED  BY <1>12, <1>13, <1>14 DEF IInv, Core

LEMMA SpawnKeeps ==
    ASSUME IInv, NEW o \in Op, Spawn(o) PROVE IInv'
<1>. DEFINE n == ops[o].n
            b == [run[n] EXCEPT !.sup = "up"]
<1>1. ops[o].at = "spawn"
  BY DEF Spawn, At
<1>2. n \in 1..session.current /\ n \in Attempt
  BY <1>1, BusyWorks DEF Busy
<1>3. TypeInv /\ Core /\ run[n] \in A!Attempts /\ Agrees(run[n])
  BY <1>2 DEF IInv, Core, TypeInv, RunsAgree, Agrees
<1>4. /\ run' = [run EXCEPT ![n] = b] /\ Go(o, "receiptFile")
      /\ UNCHANGED <<explicit, recovery, moved, session, escalation, manager, aborted>>
  BY DEF Spawn, A!Spawned, A!When
<1>5. /\ b \in A!Attempts /\ Agrees(b) /\ b.sup = "up" /\ b.child = run[n].child
      /\ b.result = run[n].result /\ b.cancel = run[n].cancel
  BY <1>3 DEF A!Attempts, Agrees
<1>. HIDE DEF b
<1>6. /\ run' \in [Attempt -> A!Attempts] /\ run'[n] = b
      /\ \A m \in Attempt \ {n} : run'[m] = run[m]
  BY <1>2, <1>3, <1>4, <1>5 DEF TypeInv
<1>7. /\ ops' \in [Op -> Ops] /\ ops'[o].at = "receiptFile" /\ ops'[o].n = n
      /\ \A p \in Op \ {o} : ops'[p] = ops[p]
  BY <1>3, <1>4, GoMoves DEF TypeInv, OpSteps, Busy
<1>8. TypeInv'
  BY <1>3, <1>4, <1>6, <1>7 DEF TypeInv
<1>9. session' = session /\ recovery' = recovery /\ session.current \in 0..MaxAttempts
  BY <1>3, <1>4 DEF TypeInv, Sessions
<1>10. InOrder'
  <2>1. \A m \in Attempt : m > session.current =>
            session.att[m] = NoAttempt /\ run'[m].sup = "none" /\ recovery[m] = "none"
    BY <1>2, <1>3, <1>6, <1>9, AttemptsAssumption DEF Core, InOrder, Attempt
  <2>2. \A p \in Op : /\ ops'[p].at \in Busy => ops'[p].n \in 1..session.current
                      /\ ops'[p].at = "reserveRetry" => session.current > 0
    BY <1>2, <1>3, <1>7 DEF Core, InOrder
  <2>. QED  BY <1>3, <1>9, <2>1, <2>2 DEF Core, InOrder, Adopted
<1>11. AdoptedIsOver'
  BY <1>3, <1>9 DEF Core, AdoptedIsOver, Adopted
<1>12. RunsAgree'
  BY <1>3, <1>5, <1>6 DEF Core, RunsAgree, Agrees
<1>u. \A m \in Attempt : Unspawned(m) => m # n /\ Unspawned(m)'
  <2>1. SUFFICES ASSUME NEW m \in Attempt, Unspawned(m) PROVE m # n /\ Unspawned(m)'
    OBVIOUS
  <2>2. m # n
    BY <1>1, <2>1 DEF Unspawned
  <2>3. run'[m].sup = "none"
    BY <1>6, <2>1, <2>2 DEF Unspawned
  <2>4. \A p \in Op : ops'[p].at = "spawn" => ops'[p].n # m
    BY <1>7, <2>1 DEF Unspawned
  <2>. QED  BY <2>2, <2>3, <2>4 DEF Unspawned
<1>13. OneDispatches'
  <2>1. \A m \in Attempt : session'.att[m].status \in {"planned", "cancelling"} => Unspawned(m)'
    BY <1>3, <1>9, <1>u DEF Core, OneDispatches
  <2>2. ASSUME NEW q \in Op, ops'[q].at = "spawn"
        PROVE  /\ run'[ops'[q].n].sup = "none"
               /\ \A p \in Op : ops'[p].at = "spawn" /\ ops'[p].n = ops'[q].n => p = q
    <3>1. q # o /\ ops'[q] = ops[q] /\ ops[q].at = "spawn"
      BY <1>7, <2>2
    <3>2. ops[q].n \in 1..session.current
      BY <1>3, <3>1 DEF Core, InOrder, Busy
    <3>3. ops[q].n \in Attempt /\ ops[q].n # n
      BY <1>1, <1>3, <1>9, <3>1, <3>2, AttemptsAssumption DEF Core, OneDispatches, Attempt
    <3>4. run'[ops[q].n].sup = "none"
      BY <1>3, <1>6, <3>1, <3>3 DEF Core, OneDispatches
    <3>5. \A p \in Op : ops'[p].at = "spawn" => ops'[p] = ops[p]
      BY <1>7
    <3>. QED  BY <1>3, <3>1, <3>4, <3>5 DEF Core, OneDispatches
  <2>. QED  BY <2>1, <2>2 DEF OneDispatches
<1>h. \A m \in Attempt : Harmless(m) => Harmless(m)'
  <2>1. SUFFICES ASSUME NEW m \in Attempt, Harmless(m) PROVE Harmless(m)'
    OBVIOUS
  <2>2. CASE m \in aborted
    BY <1>4, <2>2 DEF Harmless
  <2>3. CASE run[m].child = "gone"
    <3>1. run'[m].child = "gone"
      BY <1>5, <1>6, <2>3
    <3>. QED  BY <3>1 DEF Harmless
  <2>4. CASE Unspawned(m) /\ session.att[m].status # "planned"
    BY <1>9, <1>u, <2>4 DEF Harmless
  <2>. QED  BY <2>1, <2>2, <2>3, <2>4 DEF Harmless
<1>14. RecoveryIsHarmless'
  <2>1. ASSUME NEW p \in Op, ops'[p].at \in Writing \cup {"quarantine"}
        PROVE  Harmless(ops[p].n)'
    <3>1. p # o /\ ops'[p] = ops[p]
      BY <1>7, <2>1 DEF Writing
    <3>2. ops[p].n \in 1..session.current
      BY <1>3, <2>1, <3>1 DEF Core, InOrder, Busy
    <3>3. ops[p].n \in Attempt /\ Harmless(ops[p].n)
      BY <1>3, <1>9, <2>1, <3>1, <3>2, AttemptsAssumption DEF Core, RecoveryIsHarmless, Attempt
    <3>4. DEFINE m == ops[p].n
    <3>5. Harmless(m)' /\ m' = m
      BY <1>h, <3>1, <3>3 DEF Harmless, Unspawned
    <3>. QED  BY <3>5
  <2>. QED  BY <1>3, <1>9, <1>h, <2>1 DEF Core, RecoveryIsHarmless
<1>15. AdoptedIsPublished'
  <2>1. SUFFICES ASSUME NEW m \in Attempt, session.att[m].by = "primary"
                 PROVE  /\ run'[m].result # "none"
                        /\ run'[m].result # "cancelled" => ~run'[m].cancel
    BY <1>9 DEF AdoptedIsPublished
  <2>2. run'[m].result = run[m].result /\ run'[m].cancel = run[m].cancel
    BY <1>5, <1>6
  <2>3. run[m].result # "none" /\ (run[m].result # "cancelled" => ~run[m].cancel)
    BY <1>3, <2>1 DEF Core, AdoptedIsPublished
  <2>. QED  BY <2>2, <2>3
<1>16. OnePlace' /\ FlightIsKnown'
  BY <1>4, PlacesKept, FlightKept DEF IInv
<1>. QED  BY <1>8, <1>10, <1>11, <1>12, <1>13, <1>14, <1>15, <1>16 DEF IInv

\* The claim of a planned attempt is the one dispatch of it.
LEMMA ClaimDispatchKeeps ==
    ASSUME IInv, NEW o \in Op, ClaimDispatch(o) PROVE IInv'
<1>. DEFINE n == ops[o].n
            a == [session.att[n] EXCEPT !.status = "dispatching"]
<1>1. n \in 1..session.current /\ n \in Attempt
  BY BusyWorks DEF ClaimDispatch, At, Busy
<1>2. TypeInv /\ Core /\ session \in Sessions /\ session.att[n] \in Att
  BY <1>1 DEF IInv, Core, TypeInv, Sessions
<1>3. UNCHANGED <<explicit, run, recovery, moved, escalation, manager, aborted>>
  BY DEF ClaimDispatch
<1>4. CASE session' = session /\ Go(o, "end")
  BY <1>3, <1>4, GoOnly DEF OpSteps, Busy, Writing, IInv, TypeInv
<1>5. ASSUME session.att[n].status = "planned", Go(o, "spawn"),
             session' = [session EXCEPT !.att[n] = a, !.status = session.status]
      PROVE  IInv'
  <2>1. a \in Att /\ a.by = session.att[n].by /\ a.status = "dispatching"
    BY <1>2 DEF Att, AttStatus
  <2>. HIDE DEF a
  <2>2. session.status \in Terminal \cup {"none", "launching", "running", "cancelling"}
    BY <1>2 DEF Sessions
  <2>3. session.current > 0 /\ session.current \in 0..MaxAttempts
    BY <1>1, <1>2, AttemptsAssumption DEF Sessions
  <2>4. Adopted(session.current) => session.status \in Terminal
    BY <1>2, <2>3 DEF Core, AdoptedIsOver
  <2>5. /\ SessionFollows /\ session' \in Sessions
        /\ session'.queue = session.queue /\ session'.inFlight = session.inFlight
        /\ session'.completed = session.completed
    BY <1>1, <1>5, <2>1, <2>2, <2>4, StatusFollows
  <2>6. /\ session'.att[n] = a
        /\ \A m \in Attempt \ {n} : session'.att[m] = session.att[m]
        /\ session'.current = session.current
        /\ \A m \in Attempt : session'.att[m].by = session.att[m].by
    BY <1>1, <1>2, <1>5, <2>1, <2>2, SessionMoves
  <2>7. /\ ops' \in [Op -> Ops] /\ ops'[o].at = "spawn" /\ ops'[o].n = n
        /\ \A p \in Op \ {o} : ops'[p] = ops[p]
    BY <1>2, <1>5, GoMoves DEF TypeInv, OpSteps, Busy
  <2>8. TypeInv'
    BY <1>2, <1>3, <2>5, <2>7 DEF TypeInv
  <2>9. Unspawned(n)
    BY <1>1, <1>2, <1>5 DEF Core, OneDispatches
  <2>u. \A m \in Attempt : Unspawned(m) /\ m # n => Unspawned(m)'
    <3>1. SUFFICES ASSUME NEW m \in Attempt, Unspawned(m), m # n PROVE Unspawned(m)'
      OBVIOUS
    <3>2. run'[m].sup = "none"
      BY <1>3, <3>1 DEF Unspawned
    <3>3. \A p \in Op : ops'[p].at = "spawn" => ops'[p].n # m
      BY <2>7, <3>1 DEF Unspawned
    <3>. QED  BY <3>2, <3>3 DEF Unspawned
  <2>h. \A m \in Attempt : Harmless(m) => Harmless(m)'
    <3>1. SUFFICES ASSUME NEW m \in Attempt, Harmless(m) PROVE Harmless(m)'
      OBVIOUS
    <3>2. CASE m \in aborted \/ run[m].child = "gone"
      BY <1>3, <3>2 DEF Harmless
    <3>3. CASE Unspawned(m) /\ session.att[m].status # "planned"
      <4>1. m # n
        BY <1>5, <3>3
      <4>2. Unspawned(m)' /\ session'.att[m].status # "planned"
        BY <2>6, <2>u, <3>3, <4>1
      <4>. QED  BY <4>2 DEF Harmless
    <3>. QED  BY <3>1, <3>2, <3>3 DEF Harmless
  <2>10. InOrder'
    <3>1. \A m \in Attempt : m > session'.current =>
              session'.att[m] = NoAttempt /\ run'[m].sup = "none" /\ recovery'[m] = "none"
      BY <1>2, <1>3, <2>5 DEF SessionFollows, Core, InOrder
    <3>2. \A m \in Attempt : m < session'.current => Adopted(m)'
      BY <1>2, <2>6 DEF Core, InOrder, Adopted
    <3>3. \A p \in Op : /\ ops'[p].at \in Busy => ops'[p].n \in 1..session'.current
                        /\ ops'[p].at = "reserveRetry" => session'.current > 0
      BY <1>1, <1>2, <2>6, <2>7 DEF Core, InOrder
    <3>4. session'.auth = session.auth
      BY <1>2, <1>5 DEF Sessions
    <3>5. session.current \in Attempt
      BY <2>3 DEF Attempt
    <3>6. session'.auth # 0 =>
             /\ session'.auth = session'.current /\ session'.current < MaxAttempts
             /\ Adopted(session.current)'
      BY <1>2, <2>6, <3>4, <3>5 DEF Core, InOrder, Adopted
    <3>. QED  BY <3>1, <3>2, <3>3, <3>6 DEF InOrder
  <2>11. AdoptedIsOver'
    <3>1. session.current \in Attempt /\ session'.status = session.status
      BY <1>2, <1>5, <2>3 DEF Attempt, Sessions
    <3>. QED  BY <2>4, <2>6, <3>1 DEF AdoptedIsOver, Adopted
  <2>12. RunsAgree' /\ AdoptedIsPublished'
    BY <1>2, <1>3, <2>6 DEF Core, RunsAgree, AdoptedIsPublished
  <2>13. OneDispatches'
    <3>1. ASSUME NEW m \in Attempt, session'.att[m].status \in {"planned", "cancelling"}
          PROVE  Unspawned(m)'
      BY <1>2, <2>1, <2>6, <2>u, <3>1 DEF Core, OneDispatches
    <3>2. ASSUME NEW q \in Op, ops'[q].at = "spawn"
          PROVE  /\ run'[ops'[q].n].sup = "none"
                 /\ \A p \in Op : ops'[p].at = "spawn" /\ ops'[p].n = ops'[q].n => p = q
      <4>1. CASE q = o
        BY <1>3, <2>7, <2>9, <4>1 DEF Unspawned
      <4>2. CASE q # o
        <5>1. ops'[q] = ops[q] /\ ops[q].at = "spawn" /\ ops[q].n # n
          BY <2>7, <2>9, <3>2, <4>2 DEF Unspawned
        <5>. QED  BY <1>2, <1>3, <2>7, <5>1 DEF Core, OneDispatches
      <4>. QED  BY <4>1, <4>2
    <3>. QED  BY <3>1, <3>2 DEF OneDispatches
  <2>14. RecoveryIsHarmless'
    <3>1. ASSUME NEW p \in Op, ops'[p].at \in Writing \cup {"quarantine"}
          PROVE  Harmless(ops[p].n)'
      <4>1. p # o /\ ops'[p] = ops[p]
        BY <2>7, <3>1 DEF Writing
      <4>2. ops[p].n \in 1..session.current
        BY <1>2, <3>1, <4>1 DEF Core, InOrder, Busy
      <4>a. Harmless(ops[p].n)
        BY <1>2, <3>1, <4>1 DEF Core, RecoveryIsHarmless
      <4>3. ops[p].n \in Attempt /\ Harmless(ops[p].n)
        BY <2>3, <4>2, <4>a, AttemptsAssumption DEF Attempt
      <4>. DEFINE m == ops[p].n
      <4>4. Harmless(m)' /\ m' = m
        BY <2>h, <4>1, <4>3 DEF Harmless, Unspawned
      <4>. QED  BY <4>4
    <3>. QED  BY <1>2, <1>3, <2>6, <2>h, <3>1 DEF Core, RecoveryIsHarmless
  <2>15. OnePlace' /\ FlightIsKnown'
    BY <1>3, <2>5, <2>6, PlacesKept, FlightKept DEF IInv
  <2>. QED  BY <2>8, <2>10, <2>11, <2>12, <2>13, <2>14, <2>15 DEF IInv
<1>6. \/ session' = session /\ Go(o, "end")
      \/ /\ session.att[n].status = "planned" /\ Go(o, "spawn")
         /\ session' = [session EXCEPT !.att[n] = a]
  BY DEF ClaimDispatch, Change
<1>7. session' = [session EXCEPT !.att[n] = a] =>
         session' = [session EXCEPT !.att[n] = a, !.status = session.status]
  <2>. HIDE DEF n, a
  <2>. QED  BY <1>2 DEF Sessions
<1>. QED  BY <1>4, <1>5, <1>6, <1>7

\* A reservation is made where everything before it is adopted and nothing follows.
LEMMA ReserveKeeps ==
    ASSUME IInv, NEW o \in Op, NEW n \in Attempt, Reserve(o, n), n = session.current + 1,
           session.current > 0 => Adopted(session.current),
           UNCHANGED <<explicit, run, recovery, moved, escalation, manager, aborted>>
    PROVE  IInv'
<1>. DEFINE a == [NoAttempt EXCEPT !.status = "planned"]
            r == [ops[o] EXCEPT !.at = "claim", !.n = n]
<1>1. /\ TypeInv /\ Core /\ session \in Sessions /\ session.current \in 0..MaxAttempts
      /\ n \in 0..MaxAttempts
  BY AttemptsAssumption DEF IInv, Core, TypeInv, Sessions, Attempt
<1>2. a \in Att /\ a.by = "none" /\ a.status = "planned"
  BY DEF NoAttempt, Att, AttStatus
<1>3. session' = [session EXCEPT !.current = n, !.status = "launching", !.auth = 0, !.att[n] = a]
  BY DEF Reserve
<1>4. r \in Ops /\ r.at = "claim" /\ r.n = n
  BY <1>1 DEF TypeInv, Ops, OpSteps, Busy
<1>5. ops' = [ops EXCEPT ![o] = r]
  BY DEF Reserve
<1>. HIDE DEF a, r
<1>6. /\ session' \in Sessions
      /\ session'.current = n /\ session'.status = "launching" /\ session'.auth = 0
      /\ session'.att[n] = a
      /\ \A m \in Attempt \ {n} : session'.att[m] = session.att[m]
      /\ session'.queue = session.queue /\ session'.inFlight = session.inFlight
      /\ session'.completed = session.completed
  <2>. DEFINE att == [session.att EXCEPT ![n] = a]
  <2>1. att \in [Attempt -> Att] /\ att[n] = a /\ \A m \in Attempt \ {n} : att[m] = session.att[m]
    BY <1>1, <1>2 DEF Sessions
  <2>2. session' = [session EXCEPT !.current = n, !.status = "launching", !.auth = 0, !.att = att]
    BY <1>1, <1>3 DEF Sessions
  <2>. HIDE DEF att
  <2>a. session' = [status |-> "launching", current |-> n, att |-> att, auth |-> 0,
                    queue |-> session.queue, inFlight |-> session.inFlight,
                    completed |-> session.completed]
    BY <1>1, <2>2 DEF Sessions
  <2>b. /\ session.queue \in Seq(Attempt) /\ session.inFlight \in 0..MaxAttempts
        /\ session.completed \in SUBSET Attempt
    BY <1>1 DEF Sessions
  <2>3. session' \in Sessions
    BY <1>1, <2>1, <2>a, <2>b, AttemptsAssumption DEF Sessions
  <2>4. /\ session'.current = n /\ session'.status = "launching" /\ session'.auth = 0
        /\ session'.att = att /\ session'.queue = session.queue
        /\ session'.inFlight = session.inFlight /\ session'.completed = session.completed
    BY <1>1, <2>2 DEF Sessions
  <2>. QED  BY <2>1, <2>3, <2>4
<1>7. /\ ops' \in [Op -> Ops] /\ ops'[o] = r
      /\ \A p \in Op \ {o} : ops'[p] = ops[p]
  BY <1>1, <1>4, <1>5 DEF TypeInv
<1>8. TypeInv'
  BY <1>1, <1>6, <1>7 DEF TypeInv
<1>9. session.att[n] = NoAttempt /\ run[n].sup = "none" /\ recovery[n] = "none"
  BY <1>1 DEF Core, InOrder
<1>10. \A m \in Attempt : session'.att[m].by = session.att[m].by
  BY <1>2, <1>6, <1>9 DEF NoAttempt
<1>11. \A p \in Op : ops[p].at \in Busy => ops[p].n \in 1..session.current /\ ops[p].n # n
  BY <1>1 DEF Core, InOrder
<1>12. \A p \in Op : ops'[p].at = "spawn" => ops'[p] = ops[p] /\ ops[p].at = "spawn"
  BY <1>4, <1>7
<1>13. Unspawned(n)'
  BY <1>9, <1>11, <1>12 DEF Unspawned, Busy
<1>u. \A m \in Attempt : Unspawned(m) => Unspawned(m)'
  BY <1>12 DEF Unspawned
<1>h. \A m \in Attempt : Harmless(m) /\ m # n => Harmless(m)'
  <2>1. SUFFICES ASSUME NEW m \in Attempt, Harmless(m), m # n PROVE Harmless(m)'
    OBVIOUS
  <2>2. session'.att[m] = session.att[m]
    BY <1>6, <2>1
  <2>. QED  BY <1>u, <2>1, <2>2 DEF Harmless
<1>14. InOrder'
  <2>1. \A m \in Attempt : m > n =>
            session'.att[m] = NoAttempt /\ run[m].sup = "none" /\ recovery[m] = "none"
    BY <1>1, <1>6 DEF Core, InOrder, Attempt
  <2>2. \A m \in Attempt : m < n => session.att[m].by # "none"
    BY <1>1, AttemptsAssumption DEF Core, InOrder, Attempt, Adopted
  <2>3. \A p \in Op : ops'[p].at \in Busy => ops'[p].n \in 1..n
    <3>1. \A p \in Op \ {o} : ops'[p].at \in Busy => ops'[p].n \in 1..n
      BY <1>1, <1>7, <1>11
    <3>. QED  BY <1>1, <1>4, <1>7, <3>1, AttemptsAssumption DEF Attempt
  <2>. QED  BY <1>1, <1>6, <1>10, <2>1, <2>2, <2>3 DEF InOrder, Adopted
<1>15. AdoptedIsOver'
  BY <1>2, <1>6 DEF AdoptedIsOver, Adopted
<1>16. RunsAgree' /\ AdoptedIsPublished'
  BY <1>1, <1>10 DEF Core, RunsAgree, AdoptedIsPublished
<1>17. OneDispatches'
  <2>1. \A m \in Attempt : session'.att[m].status \in {"planned", "cancelling"} => Unspawned(m)'
    BY <1>1, <1>6, <1>13, <1>u DEF Core, OneDispatches
  <2>. QED  BY <1>1, <1>12, <2>1 DEF Core, OneDispatches
<1>18. RecoveryIsHarmless'
  <2>1. ASSUME NEW p \in Op, ops'[p].at \in Writing \cup {"quarantine"}
        PROVE  Harmless(ops[p].n)'
    <3>1. p # o /\ ops'[p] = ops[p]
      BY <1>4, <1>7, <2>1 DEF Writing
    <3>2. ops[p].n \in 1..session.current /\ ops[p].n # n
      BY <1>11, <2>1, <3>1 DEF Busy
    <3>3. ops[p].n \in Attempt /\ Harmless(ops[p].n)
      BY <1>1, <2>1, <3>1, <3>2, AttemptsAssumption DEF Core, RecoveryIsHarmless, Attempt
    <3>. DEFINE m == ops[p].n
    <3>4. Harmless(m)' /\ m' = m
      BY <1>h, <3>1, <3>2, <3>3 DEF Harmless, Unspawned
    <3>. QED  BY <3>4
  <2>2. \A m \in Attempt : recovery[m] # "none" => Harmless(m)'
    BY <1>1, <1>9, <1>h DEF Core, RecoveryIsHarmless
  <2>. QED  BY <1>1, <1>10, <2>1, <2>2 DEF Core, RecoveryIsHarmless
<1>19. OnePlace' /\ FlightIsKnown'
  BY <1>6, <1>10, PlacesKept, FlightKept DEF IInv
<1>. QED  BY <1>8, <1>14, <1>15, <1>16, <1>17, <1>18, <1>19 DEF IInv

LEMMA ReserveFirstKeeps ==
    ASSUME IInv, NEW o \in Op, ReserveFirst(o) PROVE IInv'
<1>1. UNCHANGED <<explicit, run, recovery, moved, escalation, manager, aborted>>
  BY DEF ReserveFirst
<1>2. CASE session.current = 0 /\ Reserve(o, 1)
  <2>1. 1 \in Attempt
    BY AttemptsAssumption DEF Attempt
  <2>. QED  BY <1>1, <1>2, <2>1, ReserveKeeps
<1>3. CASE Go(o, "end") /\ session' = session
  BY <1>1, <1>3, GoOnly DEF OpSteps, Busy, Writing, IInv, TypeInv
<1>. QED  BY <1>2, <1>3 DEF ReserveFirst

LEMMA ReserveRetryKeeps ==
    ASSUME IInv, ReserveRetry PROVE IInv'
<1>1. /\ UNCHANGED <<explicit, run, recovery, moved, escalation, manager, aborted>>
      /\ session.auth = session.current /\ ops["launch"].at = "reserveRetry"
      /\ Reserve("launch", session.current + 1)
  BY DEF ReserveRetry, At
<1>2. "launch" \in Op /\ session.current \in 0..MaxAttempts
  BY DEF Op, IInv, TypeInv, Sessions
<1>3. session.current > 0 /\ session.current < MaxAttempts /\ Adopted(session.current)
  BY <1>1, <1>2, AttemptsAssumption DEF IInv, InOrder
<1>4. session.current + 1 \in Attempt
  BY <1>2, <1>3, AttemptsAssumption DEF Attempt
<1>. QED  BY <1>1, <1>2, <1>3, <1>4, ReserveKeeps

-----------------------------------------------------------------------------
(* The actions that adopt a result.                                         *)

\* What is put at the end of a queue that has not got it is there once.
LEMMA AppendPlaced ==
    ASSUME NEW s \in Sessions, Placed(s), NEW n \in Attempt, s.att[n].by = "none",
           NEW t, t.queue = Append(s.queue, n), t.inFlight = s.inFlight,
           t.completed = s.completed, t.att[n].by # "none",
           \A m \in Attempt \ {n} : t.att[m] = s.att[m]
    PROVE  Placed(t)
<1>1. s.queue \in Seq(Attempt) /\ s.inFlight \in 0..MaxAttempts /\ s.completed \subseteq Attempt
  BY DEF Sessions
<1>2. ~Queued(s, n) /\ s.inFlight # n /\ n \notin s.completed
  BY DEF Placed
<1>3. /\ Len(t.queue) = Len(s.queue) + 1 /\ t.queue[Len(s.queue) + 1] = n
      /\ \A i \in 1..Len(s.queue) : t.queue[i] = s.queue[i]
      /\ Len(s.queue) \in Nat
  BY <1>1
<1>4. \A m : Queued(t, m) <=> Queued(s, m) \/ m = n
  BY <1>3 DEF Queued
<1>5. \A i, j \in 1..Len(t.queue) : t.queue[i] = t.queue[j] => i = j
  <2>1. \A i \in 1..Len(s.queue) : s.queue[i] # n
    BY <1>2 DEF Queued
  <2>2. \A i, j \in 1..Len(s.queue) : s.queue[i] = s.queue[j] => i = j
    BY DEF Placed
  <2>. QED  BY <1>3, <2>1, <2>2
<1>6. t.inFlight # 0 => ~Queued(t, t.inFlight) /\ t.inFlight \notin t.completed
  BY <1>2, <1>4 DEF Placed
<1>7. \A m \in t.completed : ~Queued(t, m)
  BY <1>2, <1>4 DEF Placed
<1>8. ASSUME NEW m \in Attempt
      PROVE  t.att[m].by # "none" <=> Queued(t, m) \/ t.inFlight = m \/ m \in t.completed
  <2>1. CASE m = n
    BY <1>4, <2>1
  <2>2. CASE m # n
    BY <1>4, <2>2 DEF Placed
  <2>. QED  BY <2>1, <2>2
<1>. QED  BY <1>5, <1>6, <1>7, <1>8 DEF Placed

\* The attempt is the current one, and its completion was not known.
LEMMA AdoptMoves ==
    ASSUME IInv, NEW n \in 1..session.current, ~Adopted(n),
           NEW status \in {"succeeded", "cancelled", "failed", "lost"},
           NEW by \in {"primary", "recovery"}, session' = Adopt(n, status, by)
    PROVE  /\ n = session.current /\ n \in Attempt
           /\ session' \in Sessions
           /\ session'.att[n].by = by /\ session'.att[n].status = status
           /\ \A m \in Attempt \ {n} : session'.att[m] = session.att[m]
           /\ session'.current = session.current /\ session'.auth = session.auth
           /\ session'.status = status /\ session'.inFlight = session.inFlight
           /\ Placed(session')
<1>1. session \in Sessions /\ session.current \in 0..MaxAttempts /\ Placed(session)
  BY DEF IInv, TypeInv, Sessions, OnePlace
<1>2. n \in Attempt /\ n = session.current
  <2>1. n \in Attempt
    BY <1>1, AttemptsAssumption DEF Attempt
  <2>2. ~(n < session.current)
    BY <2>1 DEF IInv, InOrder
  <2>. QED  BY <1>1, <2>1, <2>2
<1>3. session.att[n] \in Att
  BY <1>1, <1>2 DEF Sessions
<1>. DEFINE a == [session.att[n] EXCEPT !.by = by, !.status = status,
                                        !.kid = session.att[n].kid \/ by = "primary"]
            att == [session.att EXCEPT ![n] = a]
<1>4. a \in Att /\ a.by = by /\ a.status = status
  <2>1. (session.att[n].kid \/ by = "primary") \in BOOLEAN
    OBVIOUS
  <2>. QED  BY <1>3, <2>1 DEF Att, AttStatus
<1>. HIDE DEF a
<1>5. /\ att \in [Attempt -> Att] /\ att[n] = a
      /\ \A m \in Attempt \ {n} : att[m] = session.att[m]
  BY <1>1, <1>2, <1>4 DEF Sessions
<1>6. ~(\/ n \in session.completed \/ session.inFlight = n
        \/ \E i \in 1..Len(session.queue) : session.queue[i] = n)
  BY <1>1, <1>2 DEF Placed, Queued, Adopted
<1>7. session' = [session EXCEPT !.att[n] = a, !.status = status,
                                 !.queue = Append(session.queue, n)]
  BY <1>2, <1>6 DEF Adopt, a
<1>8. session' = [session EXCEPT !.att = att, !.status = status,
                                 !.queue = Append(session.queue, n)]
  BY <1>1, <1>7 DEF Sessions
<1>. HIDE DEF att
<1>9. session' = [status |-> status, current |-> session.current, att |-> att,
                  auth |-> session.auth, queue |-> Append(session.queue, n),
                  inFlight |-> session.inFlight, completed |-> session.completed]
  BY <1>1, <1>8 DEF Sessions
<1>10. Append(session.queue, n) \in Seq(Attempt)
  BY <1>1, <1>2 DEF Sessions
<1>11. session' \in Sessions
  <2>1. /\ session.auth \in 0..MaxAttempts /\ session.inFlight \in 0..MaxAttempts
        /\ session.completed \in SUBSET Attempt
    BY <1>1 DEF Sessions
  <2>. QED  BY <1>1, <1>5, <1>9, <1>10, <2>1 DEF Sessions, Terminal
<1>12. /\ session'.att = att /\ session'.queue = Append(session.queue, n)
       /\ session'.inFlight = session.inFlight /\ session'.completed = session.completed
       /\ session'.current = session.current /\ session'.auth = session.auth
       /\ session'.status = status
  BY <1>9
<1>13. Placed(session')
  BY <1>1, <1>2, <1>4, <1>5, <1>12, AppendPlaced DEF Adopted
<1>. QED  BY <1>2, <1>4, <1>5, <1>11, <1>12, <1>13

\* What is adopted is the result of the supervisor, as it is, or the manager's own.
LEMMA AdoptKeeps ==
    ASSUME IInv, NEW o \in Op, NEW step \in {"end", "thrown"}, Go(o, step),
           NEW n \in 1..session.current, ~Adopted(n),
           NEW status \in {"succeeded", "cancelled", "failed", "lost"},
           NEW by \in {"primary", "recovery"}, session' = Adopt(n, status, by),
           by = "primary" => run[n].result # "none"
                             /\ (run[n].result # "cancelled" => ~run[n].cancel),
           by = "recovery" => recovery[n] # "none",
           UNCHANGED <<explicit, run, recovery, escalation, manager, aborted>>
    PROVE  IInv'
<1>1. TypeInv /\ Core /\ session.current \in 0..MaxAttempts
  BY DEF IInv, Core, TypeInv, Sessions
<1>2. /\ n = session.current /\ n \in Attempt
      /\ session' \in Sessions
      /\ session'.att[n].by = by /\ session'.att[n].status = status
      /\ \A m \in Attempt \ {n} : session'.att[m] = session.att[m]
      /\ session'.current = session.current /\ session'.auth = session.auth
      /\ session'.status = status /\ session'.inFlight = session.inFlight
      /\ Placed(session')
  BY AdoptMoves
<1>3. /\ ops' \in [Op -> Ops] /\ ops'[o].at \in {"end", "idle"}
      /\ \A p \in Op \ {o} : ops'[p] = ops[p]
  BY <1>1, GoMoves DEF TypeInv, OpSteps
<1>4. TypeInv'
  BY <1>1, <1>2, <1>3 DEF TypeInv
<1>5. \A p \in Op : ops'[p].at \in Busy \cup {"reserveRetry"} => ops'[p] = ops[p] /\ p # o
  BY <1>3 DEF Busy, Writing
<1>u. \A m \in Attempt : Unspawned(m) => Unspawned(m)'
  BY <1>5 DEF Unspawned, Busy
<1>h. \A m \in Attempt : Harmless(m) => Harmless(m)'
  <2>1. SUFFICES ASSUME NEW m \in Attempt, Harmless(m) PROVE Harmless(m)'
    OBVIOUS
  <2>2. session.att[m].status # "planned" => session'.att[m].status # "planned"
    BY <1>2
  <2>. QED  BY <1>u, <2>1, <2>2 DEF Harmless
<1>6. InOrder'
  <2>1. \A m \in Attempt : m > session.current =>
            session'.att[m] = NoAttempt /\ run[m].sup = "none" /\ recovery[m] = "none"
    BY <1>1, <1>2 DEF Core, InOrder, Attempt
  <2>2. \A m \in Attempt : m < session.current => session'.att[m].by # "none"
    BY <1>1, <1>2 DEF Core, InOrder, Adopted
  <2>3. \A p \in Op : /\ ops'[p].at \in Busy => ops'[p].n \in 1..session.current
                      /\ ops'[p].at = "reserveRetry" => session.current > 0
    BY <1>1, <1>5 DEF Core, InOrder
  <2>4. session.auth # 0 => session.auth = session.current /\ session.current < MaxAttempts
    BY <1>1 DEF Core, InOrder
  <2>. QED  BY <1>2, <2>1, <2>2, <2>3, <2>4 DEF InOrder, Adopted
<1>7. AdoptedIsOver'
  BY <1>2 DEF AdoptedIsOver, Terminal
<1>8. RunsAgree'
  BY <1>1 DEF Core, RunsAgree
<1>9. OneDispatches'
  <2>1. \A m \in Attempt : session'.att[m].status \in {"planned", "cancelling"} => Unspawned(m)'
    BY <1>1, <1>2, <1>u DEF Core, OneDispatches
  <2>2. \A p \in Op : ops'[p].at = "spawn" => ops'[p] = ops[p]
    BY <1>5 DEF Busy
  <2>. QED  BY <1>1, <2>1, <2>2 DEF Core, OneDispatches
<1>10. RecoveryIsHarmless'
  <2>1. ASSUME NEW p \in Op, ops'[p].at \in Writing \cup {"quarantine"}
        PROVE  Harmless(ops[p].n)'
    <3>1. ops'[p] = ops[p]
      BY <1>5, <2>1 DEF Busy
    <3>2. ops[p].n \in 1..session.current
      BY <1>1, <2>1, <3>1 DEF Core, InOrder, Busy
    <3>3. ops[p].n \in Attempt
      BY <1>1, <3>2, AttemptsAssumption DEF Attempt
    <3>4. Harmless(ops[p].n)
      BY <1>1, <2>1, <3>1 DEF Core, RecoveryIsHarmless
    <3>. DEFINE m == ops[p].n
    <3>5. Harmless(m)' /\ m' = m
      BY <1>h, <3>1, <3>3, <3>4 DEF Harmless, Unspawned
    <3>. QED  BY <3>5
  <2>2. \A m \in Attempt : recovery[m] # "none" => Harmless(m)'
    BY <1>1, <1>h DEF Core, RecoveryIsHarmless
  <2>3. \A m \in Attempt : session'.att[m].by = "recovery" => recovery[m] # "none"
    BY <1>1, <1>2 DEF Core, RecoveryIsHarmless
  <2>. QED  BY <2>1, <2>2, <2>3 DEF RecoveryIsHarmless
<1>11. AdoptedIsPublished'
  <2>1. ASSUME NEW m \in Attempt, session'.att[m].by = "primary"
        PROVE  /\ run[m].result # "none"
               /\ run[m].result # "cancelled" => ~run[m].cancel
    <3>1. CASE m = n
      BY <1>2, <2>1, <3>1
    <3>2. CASE m # n
      BY <1>1, <1>2, <2>1, <3>2 DEF Core, AdoptedIsPublished
    <3>. QED  BY <3>1, <3>2
  <2>. QED  BY <2>1 DEF AdoptedIsPublished
<1>12. OnePlace'
  BY <1>2 DEF OnePlace, Placed, Queued
<1>13. FlightIsKnown'
  BY <1>2, FlightKept DEF IInv
<1>. QED  BY <1>4, <1>6, <1>7, <1>8, <1>9, <1>10, <1>11, <1>12, <1>13 DEF IInv

LEMMA AdoptResultKeeps ==
    ASSUME IInv, NEW o \in Op, AdoptResult(o) PROVE IInv'
<1>. DEFINE n == ops[o].n
<1>1. n \in 1..session.current /\ n \in Attempt
  BY BusyWorks DEF AdoptResult, At, Busy
<1>2. TypeInv /\ run[n] \in A!Attempts
  BY <1>1 DEF IInv, TypeInv
<1>3. UNCHANGED <<explicit, run, recovery, moved, escalation, manager, aborted>>
  BY DEF AdoptResult
<1>4. CASE Go(o, "end") /\ session' = session
  BY <1>3, <1>4, GoOnly DEF OpSteps, Busy, Writing, IInv, TypeInv
<1>5. CASE ResultThere(n) /\ Go(o, "quarantine") /\ session' = session
  <2>1. ops'[o].n = ops[o].n
    BY <1>2, <1>5, GoMoves DEF TypeInv, OpSteps, Busy
  <2>2. run'[n].child = "gone"
    BY <1>1, <1>3, <1>5 DEF IInv, RunsAgree, ResultThere
  <2>3. Harmless(ops[o].n)'
    BY <2>1, <2>2 DEF Harmless
  <2>. QED  BY <1>1, <1>3, <1>5, <2>3, GoOnly DEF OpSteps, Busy, Writing, IInv, TypeInv
<1>6. CASE /\ ~Adopted(n) /\ ResultThere(n)
           /\ ~(run[n].result # "cancelled" /\ run[n].cancel)
           /\ Go(o, "end") /\ session' = Adopt(n, run[n].result, "primary")
  <2>1. run[n].result # "none" /\ run[n].result \in {"succeeded", "cancelled"}
    BY <1>2, <1>6 DEF ResultThere, A!Attempts
  <2>2. run[n].result # "cancelled" => ~run[n].cancel
    BY <1>6
  <2>. HIDE DEF n
  <2>. QED  BY <1>1, <1>3, <1>6, <2>1, <2>2, AdoptKeeps
<1>7. \/ Go(o, "end") /\ session' = session
      \/ ResultThere(n) /\ Go(o, "quarantine") /\ session' = session
      \/ /\ ~Adopted(n) /\ ResultThere(n)
         /\ ~(run[n].result # "cancelled" /\ run[n].cancel)
         /\ Go(o, "end") /\ session' = Adopt(n, run[n].result, "primary")
  BY DEF AdoptResult, Change
<1>. QED  BY <1>4, <1>5, <1>6, <1>7

LEMMA AdoptRecoveryKeeps ==
    ASSUME IInv, NEW o \in Op, AdoptRecovery(o) PROVE IInv'
<1>. DEFINE n == ops[o].n
            step == IF ops[o].at = "adoptThrow" THEN "thrown" ELSE "end"
<1>1. n \in 1..session.current /\ n \in Attempt
  BY BusyWorks DEF AdoptRecovery, At, Busy
<1>2. recovery[n] \in {"none", "cancelled", "failed", "lost"}
  BY <1>1 DEF IInv, TypeInv
<1>3. UNCHANGED <<explicit, run, recovery, escalation, manager, aborted>> /\ Go(o, step)
  BY DEF AdoptRecovery
<1>4. step \in {"end", "thrown"}
  OBVIOUS
<1>. HIDE DEF step
<1>5. CASE session' = session
  BY <1>3, <1>4, <1>5, GoOnly DEF OpSteps, Busy, Writing, IInv, TypeInv
<1>6. CASE ~Adopted(n) /\ recovery[n] # "none" /\ session' = Adopt(n, recovery[n], "recovery")
  <2>. HIDE DEF n
  <2>. QED  BY <1>1, <1>2, <1>3, <1>4, <1>6, AdoptKeeps
<1>7. \/ session' = session
      \/ ~Adopted(n) /\ recovery[n] # "none" /\ session' = Adopt(n, recovery[n], "recovery")
  BY DEF AdoptRecovery, Change, RecoveryThere
<1>. QED  BY <1>5, <1>6, <1>7

-----------------------------------------------------------------------------
(* The actions on the queue of completions.                                 *)

\* The session as it is but for its completions.
SameWork(s, t) ==
    /\ t.status = s.status /\ t.current = s.current /\ t.att = s.att /\ t.auth = s.auth

LEMMA TakenPlaced ==
    ASSUME NEW s \in Sessions, Placed(s)
    PROVE  /\ Taken(s) \in Sessions /\ Placed(Taken(s)) /\ SameWork(s, Taken(s))
           /\ Sending(s) \in 0..MaxAttempts
           /\ s.inFlight = 0 => Taken(s).inFlight = Sending(s)
           /\ TakeNext(s) => s.inFlight = 0 /\ Sending(s) # 0
           /\ ~TakeNext(s) => Sending(s) = 0
<1>1. CASE ~TakeNext(s)
  <2>1. Taken(s) = s /\ Sending(s) = 0
    BY <1>1 DEF Taken, Sending
  <2>. QED  BY <1>1, <2>1, AttemptsAssumption DEF SameWork
<1>2. CASE TakeNext(s)
  <2>. DEFINE t == [s EXCEPT !.inFlight = Head(s.queue), !.queue = Tail(s.queue)]
  <2>1. Taken(s) = t /\ Sending(s) = Head(s.queue) /\ s.inFlight = 0 /\ s.queue # << >>
    BY <1>2 DEF Taken, Sending, TakeNext
  <2>2. s.queue \in Seq(Attempt)
    BY DEF Sessions
  <2>3. /\ Head(s.queue) = s.queue[1] /\ Head(s.queue) \in Attempt /\ Len(s.queue) \in Nat \ {0}
        /\ Tail(s.queue) \in Seq(Attempt) /\ Len(Tail(s.queue)) = Len(s.queue) - 1
        /\ \A i \in 1..Len(s.queue) - 1 : Tail(s.queue)[i] = s.queue[i + 1]
    BY <2>1, <2>2
  <2>4. Head(s.queue) \in 0..MaxAttempts /\ Head(s.queue) # 0
    BY <2>3, AttemptsAssumption DEF Attempt
  <2>5. t = [status |-> s.status, current |-> s.current, att |-> s.att, auth |-> s.auth,
             queue |-> Tail(s.queue), inFlight |-> Head(s.queue), completed |-> s.completed]
    <3>. DEFINE h == Head(s.queue)
                q == Tail(s.queue)
    <3>1. t = [s EXCEPT !.inFlight = h, !.queue = q]
      OBVIOUS
    <3>. HIDE DEF t, h, q
    <3>2. t = [status |-> s.status, current |-> s.current, att |-> s.att, auth |-> s.auth,
               queue |-> q, inFlight |-> h, completed |-> s.completed]
      BY <3>1 DEF Sessions
    <3>. QED  BY <3>2 DEF h, q
  <2>. HIDE DEF t
  <2>6. t \in Sessions
    <3>1. /\ s.status \in Terminal \cup {"none", "launching", "running", "cancelling"}
          /\ s.current \in 0..MaxAttempts /\ s.att \in [Attempt -> Att]
          /\ s.auth \in 0..MaxAttempts /\ s.completed \in SUBSET Attempt
      BY DEF Sessions
    <3>. QED  BY <2>3, <2>4, <2>5, <3>1 DEF Sessions
  <2>7. /\ t.queue = Tail(s.queue) /\ t.inFlight = Head(s.queue) /\ t.completed = s.completed
        /\ SameWork(s, t)
    BY <2>5 DEF SameWork
  <2>8. \A i, j \in 1..Len(s.queue) : s.queue[i] = s.queue[j] => i = j
    BY DEF Placed
  <2>9. /\ \A m : Queued(t, m) => Queued(s, m)
        /\ ~Queued(t, Head(s.queue)) /\ Queued(s, Head(s.queue))
        /\ \A m : Queued(s, m) /\ m # Head(s.queue) => Queued(t, m)
    <3>1. ASSUME NEW i \in 1..Len(t.queue)
          PROVE  i + 1 \in 1..Len(s.queue) /\ i + 1 # 1 /\ t.queue[i] = s.queue[i + 1]
      BY <2>3, <2>7
    <3>2. \A m : Queued(t, m) => Queued(s, m)
      BY <3>1 DEF Queued
    <3>3. 1 \in 1..Len(s.queue)
      BY <2>3
    <3>4. ~Queued(t, Head(s.queue))
      BY <2>3, <2>8, <3>1, <3>3 DEF Queued
    <3>5. Queued(s, Head(s.queue))
      BY <2>3, <3>3 DEF Queued
    <3>6. ASSUME NEW m, NEW i \in 1..Len(s.queue), s.queue[i] = m, m # Head(s.queue)
          PROVE  Queued(t, m)
      <4>1. i # 1 /\ i - 1 \in 1..Len(t.queue) /\ (i - 1) + 1 = i
        BY <2>3, <2>7, <3>6
      <4>2. t.queue[i - 1] = m
        BY <3>1, <3>6, <4>1
      <4>. QED  BY <4>1, <4>2 DEF Queued
    <3>. QED  BY <3>2, <3>4, <3>5, <3>6 DEF Queued
  <2>10. \A i, j \in 1..Len(t.queue) : t.queue[i] = t.queue[j] => i = j
    <3>1. SUFFICES ASSUME NEW i \in 1..Len(t.queue), NEW j \in 1..Len(t.queue),
                          t.queue[i] = t.queue[j]
                   PROVE  i = j
      OBVIOUS
    <3>2. /\ i + 1 \in 1..Len(s.queue) /\ t.queue[i] = s.queue[i + 1]
          /\ j + 1 \in 1..Len(s.queue) /\ t.queue[j] = s.queue[j + 1]
          /\ i \in Nat /\ j \in Nat
      BY <2>3, <2>7
    <3>3. i + 1 = j + 1
      BY <2>8, <3>1, <3>2
    <3>. QED  BY <3>2, <3>3
  <2>11. Placed(t)
    <3>1. t.inFlight # 0 => ~Queued(t, t.inFlight) /\ t.inFlight \notin t.completed
      BY <2>7, <2>9 DEF Placed
    <3>2. \A m \in t.completed : ~Queued(t, m)
      BY <2>7, <2>9 DEF Placed
    <3>3. ASSUME NEW m \in Attempt
          PROVE  t.att[m].by # "none" <=> Queued(t, m) \/ t.inFlight = m \/ m \in t.completed
      <4>1. s.inFlight # m
        BY <2>1, AttemptsAssumption DEF Attempt
      <4>2. t.att[m].by # "none" <=> Queued(s, m) \/ m \in s.completed
        BY <2>7, <4>1 DEF Placed, SameWork
      <4>. QED  BY <2>7, <2>9, <4>2
    <3>. QED  BY <2>10, <3>1, <3>2, <3>3 DEF Placed
  <2>. QED  BY <1>2, <2>1, <2>4, <2>6, <2>7, <2>11
<1>. QED  BY <1>1, <1>2

\* What was in flight is put back in front of the queue.
PutBack(s) == [s EXCEPT !.inFlight = 0, !.queue = <<s.inFlight>> \o s.queue]

LEMMA PutBackPlaced ==
    ASSUME NEW s \in Sessions, Placed(s), s.inFlight # 0
    PROVE  /\ PutBack(s) \in Sessions /\ Placed(PutBack(s)) /\ SameWork(s, PutBack(s))
           /\ PutBack(s).inFlight = 0
<1>. DEFINE t == PutBack(s)
            k == s.inFlight
            q == <<k>> \o s.queue
<1>1. k \in Attempt /\ s.queue \in Seq(Attempt)
  BY AttemptsAssumption DEF Sessions, Attempt
<1>2. /\ q \in Seq(Attempt) /\ Len(q) = Len(s.queue) + 1 /\ q[1] = k /\ Len(s.queue) \in Nat
      /\ \A i \in 1..Len(s.queue) : q[i + 1] = s.queue[i]
  BY <1>1
<1>a. t = [s EXCEPT !.inFlight = 0, !.queue = q]
  BY DEF PutBack
<1>. HIDE DEF q, t
<1>3. t = [status |-> s.status, current |-> s.current, att |-> s.att, auth |-> s.auth,
           queue |-> q, inFlight |-> 0, completed |-> s.completed]
  BY <1>a DEF Sessions
<1>4. t \in Sessions
  <2>1. /\ s.status \in Terminal \cup {"none", "launching", "running", "cancelling"}
        /\ s.current \in 0..MaxAttempts /\ s.att \in [Attempt -> Att]
        /\ s.auth \in 0..MaxAttempts /\ s.completed \in SUBSET Attempt
    BY DEF Sessions
  <2>. QED  BY <1>2, <1>3, <2>1, AttemptsAssumption DEF Sessions
<1>5. /\ t.queue = q /\ t.inFlight = 0 /\ t.completed = s.completed
      /\ SameWork(s, t)
  <2>1. t.queue = q /\ t.inFlight = 0 /\ t.completed = s.completed
    BY <1>3
  <2>2. SameWork(s, t)
    BY <1>3 DEF SameWork
  <2>. QED  BY <2>1, <2>2
<1>6. ~Queued(s, k) /\ k \notin s.completed
  BY DEF Placed
<1>7. \A m : Queued(t, m) <=> Queued(s, m) \/ m = k
  <2>1. ASSUME NEW m, Queued(t, m) PROVE Queued(s, m) \/ m = k
    <3>1. PICK i \in 1..Len(q) : q[i] = m
      BY <1>5, <2>1 DEF Queued
    <3>2. CASE i = 1
      BY <1>2, <3>1, <3>2
    <3>3. CASE i # 1
      <4>1. i - 1 \in 1..Len(s.queue) /\ (i - 1) + 1 = i
        BY <1>2, <3>3
      <4>2. s.queue[i - 1] = m
        BY <1>2, <3>1, <4>1
      <4>. QED  BY <4>1, <4>2 DEF Queued
    <3>. QED  BY <3>2, <3>3
  <2>2. ASSUME NEW m, Queued(s, m) PROVE Queued(t, m)
    <3>1. PICK i \in 1..Len(s.queue) : s.queue[i] = m
      BY <2>2 DEF Queued
    <3>2. i + 1 \in 1..Len(q) /\ q[i + 1] = m
      BY <1>2, <3>1
    <3>. QED  BY <1>5, <3>2 DEF Queued
  <2>3. Queued(t, k)
    <3>1. 1 \in 1..Len(q)
      BY <1>2
    <3>. QED  BY <1>2, <1>5, <3>1 DEF Queued
  <2>. HIDE DEF k
  <2>. QED  BY <2>1, <2>2, <2>3
<1>8. \A i, j \in 1..Len(t.queue) : t.queue[i] = t.queue[j] => i = j
  <2>0. SUFFICES ASSUME NEW i \in 1..Len(q), NEW j \in 1..Len(q), q[i] = q[j] PROVE i = j
    BY <1>5
  <2>1. ASSUME NEW m \in 1..Len(q), m # 1
        PROVE  /\ m - 1 \in 1..Len(s.queue) /\ q[m] = s.queue[m - 1] /\ q[m] # k
    <3>1. m - 1 \in 1..Len(s.queue) /\ (m - 1) + 1 = m
      BY <1>2, <2>1
    <3>2. q[m] = s.queue[m - 1]
      BY <1>2, <3>1
    <3>. QED  BY <1>6, <3>1, <3>2 DEF Queued
  <2>2. CASE i = 1 \/ j = 1
    BY <1>2, <2>0, <2>1, <2>2
  <2>3. CASE i # 1 /\ j # 1
    <3>1. i - 1 = j - 1
      BY <2>0, <2>1, <2>3 DEF Placed
    <3>. QED  BY <1>2, <3>1
  <2>. QED  BY <2>2, <2>3
<1>9. ASSUME NEW m \in Attempt
      PROVE  t.att[m].by # "none" <=> Queued(t, m) \/ t.inFlight = m \/ m \in t.completed
  <2>1. t.inFlight # m
    BY <1>5, AttemptsAssumption DEF Attempt
  <2>2. t.att[m].by # "none" <=> Queued(s, m) \/ m = k \/ m \in s.completed
    BY <1>5 DEF Placed, SameWork
  <2>. QED  BY <1>5, <1>7, <2>1, <2>2
<1>10. \A m \in t.completed : ~Queued(t, m)
  BY <1>5, <1>6, <1>7 DEF Placed
<1>11. Placed(t)
  BY <1>8, <1>9, <1>10, <1>5 DEF Placed
<1>. QED  BY <1>4, <1>5, <1>11 DEF t

\* What was in flight is known.
Settled(s) == [s EXCEPT !.inFlight = 0, !.completed = s.completed \cup {s.inFlight}]

LEMMA SettledPlaced ==
    ASSUME NEW s \in Sessions, Placed(s), s.inFlight # 0
    PROVE  /\ Settled(s) \in Sessions /\ Placed(Settled(s)) /\ SameWork(s, Settled(s))
           /\ Settled(s).inFlight = 0
<1>. DEFINE t == Settled(s)
            k == s.inFlight
            c == s.completed \cup {k}
<1>1. k \in Attempt /\ c \in SUBSET Attempt
  BY AttemptsAssumption DEF Sessions, Attempt
<1>a. t = [s EXCEPT !.inFlight = 0, !.completed = c]
  BY DEF Settled
<1>. HIDE DEF c, t
<1>2. t = [status |-> s.status, current |-> s.current, att |-> s.att, auth |-> s.auth,
           queue |-> s.queue, inFlight |-> 0, completed |-> c]
  BY <1>a DEF Sessions
<1>3. t \in Sessions
  <2>1. /\ s.status \in Terminal \cup {"none", "launching", "running", "cancelling"}
        /\ s.current \in 0..MaxAttempts /\ s.att \in [Attempt -> Att]
        /\ s.auth \in 0..MaxAttempts /\ s.queue \in Seq(Attempt)
    BY DEF Sessions
  <2>. QED  BY <1>1, <1>2, <2>1, AttemptsAssumption DEF Sessions
<1>4. /\ t.queue = s.queue /\ t.inFlight = 0 /\ t.completed = c /\ SameWork(s, t)
  <2>1. t.queue = s.queue /\ t.inFlight = 0 /\ t.completed = c
    BY <1>2
  <2>2. SameWork(s, t)
    BY <1>2 DEF SameWork
  <2>. QED  BY <2>1, <2>2
<1>5. \A m : Queued(t, m) <=> Queued(s, m)
  BY <1>4 DEF Queued
<1>6. ASSUME NEW m \in Attempt
      PROVE  t.att[m].by # "none" <=> Queued(t, m) \/ t.inFlight = m \/ m \in t.completed
  <2>1. t.inFlight # m
    BY <1>4, AttemptsAssumption DEF Attempt
  <2>2. t.att[m].by # "none" <=> Queued(s, m) \/ m \in c
    BY <1>4 DEF Placed, SameWork, c
  <2>. QED  BY <1>4, <1>5, <2>1, <2>2
<1>7. \A m \in t.completed : ~Queued(t, m)
  BY <1>4, <1>5 DEF Placed, c
<1>8. Placed(t)
  BY <1>4, <1>5, <1>6, <1>7 DEF Placed
<1>. QED  BY <1>3, <1>4, <1>8 DEF t

LEMMA QueueKeeps ==
    ASSUME IInv, UNCHANGED <<explicit, run, recovery, aborted>>,
           session' \in Sessions, SameWork(session, session'), Placed(session'),
           FlightIsKnown', manager' \in Managers,
           escalation' \in [Attempt -> {"none", "term", "kill"}],
           ops' \in [Op -> Ops], OpsFollow
    PROVE  IInv'
<1>1. TypeInv /\ Core
  BY DEF IInv, Core
<1>2. TypeInv'
  BY <1>1 DEF TypeInv
<1>3. RunsFollow
  BY <1>1 DEF Core, RunsAgree, RunsFollow
<1>4. SessionFollows
  BY <1>1 DEF SessionFollows, SameWork, Core, AdoptedIsOver
<1>5. Core'
  BY <1>1, <1>2, <1>3, <1>4, CoreFollows DEF RecoveryFollows
<1>6. OnePlace'
  BY DEF OnePlace, Placed, Queued
<1>. QED  BY <1>2, <1>5, <1>6 DEF IInv, Core

LEMMA EndScanKeeps ==
    ASSUME IInv, EndScan PROVE IInv'
<1>0. "scan" \in Op
  BY DEF Op
<1>1. /\ TypeInv /\ Core /\ session \in Sessions /\ Placed(session) /\ manager \in Managers
      /\ FlightIsKnown /\ manager.attached /\ manager.sending = 0
      /\ UNCHANGED <<explicit, run, recovery, moved, escalation, aborted>>
  BY DEF IInv, Core, TypeInv, OnePlace, EndScan, At
<1>2. CASE /\ manager.delivered = 0 /\ TakeNext(session) /\ session' = Taken(session)
           /\ manager' = [manager EXCEPT !.sending = Sending(session)]
           /\ Go("scan", "sent")
  <2>1. /\ session' \in Sessions /\ Placed(session') /\ SameWork(session, session')
        /\ Sending(session) \in 0..MaxAttempts /\ Sending(session) # 0
        /\ session'.inFlight = Sending(session)
    BY <1>1, <1>2, TakenPlaced DEF TakeNext
  <2>2. /\ manager' \in Managers /\ manager'.attached = manager.attached
        /\ manager'.sending = Sending(session) /\ manager'.delivered = manager.delivered
    BY <1>1, <1>2, <2>1 DEF Managers
  <2>3. FlightIsKnown'
    BY <1>1, <1>2, <2>1, <2>2 DEF FlightIsKnown
  <2>4. ops' \in [Op -> Ops] /\ OpsFollow
    <3>1. RunsFollow
      BY <1>1 DEF Core, RunsAgree, RunsFollow
    <3>2. SessionFollows
      BY <1>1, <2>1 DEF SessionFollows, SameWork, Core, AdoptedIsOver
    <3>. QED  BY <1>0, <1>1, <1>2, <3>1, <3>2, GoFollows, GoMoves
                 DEF TypeInv, OpSteps, Busy, Writing
  <2>5. escalation' \in [Attempt -> {"none", "term", "kill"}]
    BY <1>1 DEF TypeInv
  <2>. QED  BY <1>1, <2>1, <2>2, <2>3, <2>4, <2>5, QueueKeeps
<1>3. CASE /\ manager' = [manager EXCEPT !.timer = Active(session)]
           /\ Over("scan") /\ session' = session
  <2>1. Active(session) \in BOOLEAN
    BY DEF Active
  <2>2. /\ manager' \in Managers /\ manager'.attached = manager.attached
        /\ manager'.sending = manager.sending /\ manager'.delivered = manager.delivered
    BY <1>1, <1>3, <2>1 DEF Managers
  <2>3. FlightIsKnown'
    BY <1>1, <1>3, <2>2, FlightKept
  <2>4. ops' = [ops EXCEPT !["scan"] = Idle]
    BY <1>3 DEF Over
  <2>. QED  BY <1>0, <1>1, <1>3, <2>2, <2>3, <2>4, IdleIsIdle, ReplaceOnly DEF Busy, Writing
<1>. QED  BY <1>2, <1>3 DEF EndScan, Change

\* An operation that is over follows from any other.
LEMMA OverFollows ==
    ASSUME TypeInv, Core, NEW o \in Op, Over(o) \/ ops' = ops
    PROVE  ops' \in [Op -> Ops] /\ OpsFollow
<1>1. CASE Over(o)
  <2>1. ops' = [ops EXCEPT ![o] = Idle]
    BY <1>1 DEF Over
  <2>. QED  BY <2>1, IdleIsIdle, ReplaceFollows DEF Busy, Writing
<1>2. CASE ops' = ops
  BY <1>2, OpsStay DEF TypeInv
<1>. QED  BY <1>1, <1>2

LEMMA SendKeeps ==
    ASSUME IInv, Send PROVE IInv'
<1>. DEFINE timer == IF ops["scan"].at = "sent" THEN Active(session) ELSE manager.timer
<1>1. /\ TypeInv /\ Core /\ session \in Sessions /\ Placed(session) /\ manager \in Managers
      /\ FlightIsKnown /\ manager.attached /\ manager.sending # 0
      /\ UNCHANGED <<explicit, run, recovery, moved, session, escalation, aborted>>
      /\ manager' = [manager EXCEPT !.delivered = manager.sending, !.sending = 0,
                                    !.timer = timer]
  BY DEF IInv, Core, TypeInv, OnePlace, Send
<1>2. timer \in BOOLEAN
  BY <1>1 DEF Active, Managers
<1>. HIDE DEF timer
<1>3. manager' = [attached |-> manager.attached, timer |-> timer, sending |-> 0,
                  delivered |-> manager.sending]
  BY <1>1 DEF Managers
<1>4. manager' \in Managers
  <2>1. manager.attached \in BOOLEAN /\ manager.sending \in 0..MaxAttempts
    BY <1>1 DEF Managers
  <2>. QED  BY <1>2, <1>3, <2>1, AttemptsAssumption DEF Managers
<1>5. /\ manager'.attached = manager.attached /\ manager'.sending = 0
      /\ manager'.delivered = manager.sending
  BY <1>3
<1>6. FlightIsKnown'
  BY <1>1, <1>5 DEF FlightIsKnown
<1>7. "scan" \in Op /\ (Over("scan") \/ ops' = ops)
  BY DEF Op, Send
<1>8. ops' \in [Op -> Ops] /\ OpsFollow
  BY <1>1, <1>7, OverFollows
<1>9. aborted' \subseteq Attempt
  BY <1>1 DEF TypeInv
<1>. QED  BY <1>1, <1>4, <1>6, <1>8, <1>9, OpsOnly

LEMMA SendFailsKeeps ==
    ASSUME IInv, SendFails PROVE IInv'
<1>1. /\ TypeInv /\ Core /\ session \in Sessions /\ Placed(session) /\ manager \in Managers
      /\ FlightIsKnown /\ manager.attached /\ manager.sending # 0
      /\ UNCHANGED <<explicit, run, recovery, moved, escalation, aborted>>
      /\ manager' = [manager EXCEPT !.sending = 0]
      /\ session' = [session EXCEPT !.inFlight = 0,
                                    !.queue = <<manager.sending>> \o session.queue]
  BY DEF IInv, Core, TypeInv, OnePlace, SendFails, Change
<1>2. session.inFlight = manager.sending /\ manager.delivered = 0
  BY <1>1 DEF FlightIsKnown
<1>3. session' = PutBack(session)
  BY <1>1, <1>2 DEF PutBack
<1>4. /\ session' \in Sessions /\ Placed(session') /\ SameWork(session, session')
      /\ session'.inFlight = 0
  BY <1>1, <1>2, <1>3, PutBackPlaced
<1>5. /\ manager' \in Managers /\ manager'.attached = manager.attached
      /\ manager'.sending = 0 /\ manager'.delivered = manager.delivered
  <2>1. manager \in Managers /\ manager' = [manager EXCEPT !.sending = 0]
    BY <1>1
  <2>2. 0 \in 0..MaxAttempts
    BY AttemptsAssumption
  <2>. QED  BY <2>1, <2>2 DEF Managers
<1>6. FlightIsKnown'
  BY <1>1, <1>2, <1>4, <1>5 DEF FlightIsKnown
<1>7. "scan" \in Op /\ (Over("scan") \/ ops' = ops)
  BY DEF Op, SendFails
<1>8. ops' \in [Op -> Ops] /\ OpsFollow
  BY <1>1, <1>7, OverFollows
<1>9. escalation' \in [Attempt -> {"none", "term", "kill"}]
  BY <1>1 DEF TypeInv
<1>. QED  BY <1>1, <1>4, <1>5, <1>6, <1>8, <1>9, QueueKeeps

LEMMA AgentSettledKeeps ==
    ASSUME IInv, AgentSettled PROVE IInv'
<1>. DEFINE done == Settled(session)
<1>1. /\ TypeInv /\ Core /\ session \in Sessions /\ Placed(session) /\ manager \in Managers
      /\ FlightIsKnown /\ manager.attached /\ manager.sending = 0 /\ manager.delivered # 0
      /\ UNCHANGED <<explicit, run, recovery, moved, ops, escalation, aborted>>
  BY DEF IInv, Core, TypeInv, OnePlace, AgentSettled
<1>2. session.inFlight = manager.delivered
  BY <1>1 DEF FlightIsKnown
<1>3. /\ session' = Taken(done)
      /\ manager' = [manager EXCEPT !.delivered = 0, !.sending = Sending(done)]
  BY <1>2 DEF AgentSettled, Change, Settled
<1>4. /\ done \in Sessions /\ Placed(done) /\ SameWork(session, done) /\ done.inFlight = 0
  BY <1>1, <1>2, SettledPlaced
<1>. HIDE DEF done
<1>5. /\ session' \in Sessions /\ Placed(session') /\ SameWork(done, session')
      /\ Sending(done) \in 0..MaxAttempts
      /\ session'.inFlight = Sending(done)
  BY <1>3, <1>4, TakenPlaced
<1>6. SameWork(session, session')
  BY <1>4, <1>5 DEF SameWork
<1>7. /\ manager' \in Managers /\ manager'.attached = manager.attached
      /\ manager'.sending = Sending(done) /\ manager'.delivered = 0
  BY <1>1, <1>3, <1>5, AttemptsAssumption DEF Managers
<1>8. FlightIsKnown'
  BY <1>1, <1>5, <1>7 DEF FlightIsKnown
<1>9. ops' \in [Op -> Ops] /\ OpsFollow /\ escalation' \in [Attempt -> {"none", "term", "kill"}]
  BY <1>1, OpsStay DEF TypeInv
<1>. QED  BY <1>1, <1>5, <1>6, <1>7, <1>8, <1>9, QueueKeeps

LEMMA AttachKeeps ==
    ASSUME IInv, Attach PROVE IInv'
<1>1. /\ TypeInv /\ Core /\ session \in Sessions /\ Placed(session) /\ manager \in Managers
      /\ FlightIsKnown /\ ~manager.attached
      /\ UNCHANGED <<explicit, run, recovery, moved, escalation, aborted>>
      /\ manager' = [manager EXCEPT !.attached = TRUE]
      /\ ops' = [ops EXCEPT !["scan"] = StartScan(TRUE)]
  BY DEF IInv, Core, TypeInv, OnePlace, Attach
<1>2. manager.sending = 0 /\ manager.delivered = 0
  BY <1>1 DEF FlightIsKnown
<1>3. /\ session' \in Sessions /\ Placed(session') /\ SameWork(session, session')
      /\ session'.inFlight = 0
  <2>1. CASE session.inFlight = 0
    <3>1. session' = session
      BY <2>1 DEF Attach, Change
    <3>. QED  BY <1>1, <2>1, <3>1 DEF SameWork
  <2>2. CASE session.inFlight # 0
    <3>1. session' = PutBack(session)
      BY <2>2 DEF Attach, Change, PutBack
    <3>. QED  BY <1>1, <2>2, <3>1, PutBackPlaced
  <2>. QED  BY <2>1, <2>2
<1>4. /\ manager' \in Managers /\ manager'.attached = TRUE
      /\ manager'.sending = 0 /\ manager'.delivered = 0
  BY <1>1, <1>2 DEF Managers
<1>5. FlightIsKnown'
  BY <1>3, <1>4 DEF FlightIsKnown
<1>6. /\ StartScan(TRUE) \in Ops
      /\ StartScan(TRUE).at \in {"end", "reserve", "receipt"}
      /\ StartScan(TRUE).at = "receipt" => StartScan(TRUE).n \in 1..session.current
  BY <1>1, ScanStarts
<1>7. "scan" \in Op
  BY DEF Op
<1>8. ops' \in [Op -> Ops] /\ OpsFollow
  BY <1>1, <1>6, <1>7, ReplaceFollows DEF Busy, Writing
<1>9. escalation' \in [Attempt -> {"none", "term", "kill"}]
  BY <1>1 DEF TypeInv
<1>. QED  BY <1>1, <1>3, <1>4, <1>5, <1>8, <1>9, QueueKeeps

\* With the manager its operations are gone.
LEMMA DetachKeeps ==
    ASSUME IInv, Detach PROVE IInv'
<1>1. /\ TypeInv /\ Core /\ session \in Sessions /\ Placed(session)
      /\ UNCHANGED <<explicit, run, recovery, moved, session, aborted>>
      /\ manager' = [attached |-> FALSE, timer |-> FALSE, sending |-> 0, delivered |-> 0]
      /\ ops' = [o \in Op |-> Idle] /\ escalation' = [n \in Attempt |-> "none"]
  BY DEF IInv, Core, TypeInv, OnePlace, Detach
<1>2. manager' \in Managers /\ FlightIsKnown'
  BY <1>1, AttemptsAssumption DEF Managers, FlightIsKnown
<1>3. ops' \in [Op -> Ops] /\ OpsFollow
  BY <1>1, IdleIsIdle DEF OpsFollow, Busy, Writing
<1>4. escalation' \in [Attempt -> {"none", "term", "kill"}]
  BY <1>1
<1>5. session' \in Sessions /\ Placed(session') /\ SameWork(session, session')
  BY <1>1 DEF SameWork
<1>. QED  BY <1>1, <1>2, <1>3, <1>4, <1>5, QueueKeeps

-----------------------------------------------------------------------------

LEMMA InitHolds == Init => IInv
<1>1. SUFFICES ASSUME Init PROVE IInv
  OBVIOUS
<1>. DEFINE att == [n \in Attempt |-> NoAttempt]
<1>2. att \in [Attempt -> Att]
  BY DEF NoAttempt, Att, AttStatus
<1>3. session = [status |-> "none", current |-> 0, att |-> att, auth |-> 0, queue |-> << >>,
                 inFlight |-> 0, completed |-> {}]
  BY <1>1 DEF Init
<1>. HIDE DEF att
<1>4. session \in Sessions
  BY <1>2, <1>3, AttemptsAssumption DEF Sessions
<1>5. /\ session.current = 0 /\ session.auth = 0 /\ session.queue = << >>
      /\ session.inFlight = 0 /\ session.completed = {}
      /\ \A n \in Attempt : session.att[n] = NoAttempt
  BY <1>3 DEF att
<1>6. \A n \in Attempt : /\ run[n] = A!Unlaunched /\ recovery[n] = "none"
                         /\ run[n] \in A!Attempts
  BY <1>1 DEF Init, A!Unlaunched, A!Attempts
<1>7. \A o \in Op : ops[o] = Idle /\ ops[o].at = "idle"
  BY <1>1, IdleIsIdle DEF Init
<1>8. TypeInv
  <2>1. run \in [Attempt -> A!Attempts] /\ ops \in [Op -> Ops]
    BY <1>1, <1>6, IdleIsIdle DEF Init
  <2>2. manager \in Managers
    BY <1>1, AttemptsAssumption DEF Init, Managers
  <2>. QED  BY <1>1, <1>4, <2>1, <2>2 DEF Init, TypeInv
<1>9. InOrder
  BY <1>5, <1>6, <1>7 DEF InOrder, Busy, Writing, A!Unlaunched, Attempt
<1>10. AdoptedIsOver /\ RunsAgree
  BY <1>5, <1>6 DEF AdoptedIsOver, RunsAgree, A!Unlaunched
<1>11. OneDispatches
  BY <1>5, <1>7 DEF OneDispatches, NoAttempt
<1>12. RecoveryIsHarmless /\ AdoptedIsPublished
  BY <1>5, <1>6, <1>7 DEF RecoveryIsHarmless, AdoptedIsPublished, NoAttempt, Writing
<1>13. OnePlace
  <2>1. \A n : ~Queued(session, n)
    BY <1>5 DEF Queued
  <2>. QED  BY <1>5, <2>1, AttemptsAssumption DEF OnePlace, Placed, NoAttempt, Attempt
<1>14. FlightIsKnown
  BY <1>1, <1>5 DEF Init, FlightIsKnown
<1>. QED  BY <1>8, <1>9, <1>10, <1>11, <1>12, <1>13, <1>14 DEF IInv

LEMMA StutterKeeps ==
    ASSUME IInv, UNCHANGED managerVars PROVE IInv'
<1>1. UNCHANGED <<explicit, run, recovery, session, ops, escalation, manager, aborted>>
  BY DEF managerVars
<1>2. TypeInv' /\ OnePlace' /\ FlightIsKnown'
  BY <1>1 DEF IInv, TypeInv, OnePlace, Placed, FlightIsKnown, Queued
<1>3. InOrder' /\ AdoptedIsOver' /\ RunsAgree' /\ AdoptedIsPublished'
  BY <1>1 DEF IInv, InOrder, AdoptedIsOver, RunsAgree, AdoptedIsPublished, Adopted
<1>4. OneDispatches' /\ RecoveryIsHarmless'
  BY <1>1 DEF IInv, OneDispatches, RecoveryIsHarmless, Unspawned, Harmless
<1>. QED  BY <1>2, <1>3, <1>4 DEF IInv

LEMMA OpStepKeeps ==
    ASSUME IInv, NEW o \in Op, OpStep(o) PROVE IInv'
<1>1. CASE ReserveFirst(o)   BY <1>1, ReserveFirstKeeps
<1>2. CASE ClaimDispatch(o)  BY <1>2, ClaimDispatchKeeps
<1>3. CASE Spawn(o)          BY <1>3, SpawnKeeps
<1>4. CASE WriteReceipt(o)   BY <1>4, WriteReceiptKeeps
<1>5. CASE BindSupervisor(o) BY <1>5, BindSupervisorKeeps
<1>6. CASE CheckRecovery(o)  BY <1>6, CheckRecoveryKeeps
<1>7. CASE CheckResult(o)    BY <1>7, CheckResultKeeps
<1>8. CASE AdoptResult(o)    BY <1>8, AdoptResultKeeps
<1>9. CASE Quarantine(o)     BY <1>9, QuarantineKeeps
<1>10. CASE WriteRecovery(o) BY <1>10, WriteRecoveryKeeps
<1>11. CASE AdoptRecovery(o) BY <1>11, AdoptRecoveryKeeps
<1>12. CASE EndOp(o)         BY <1>12, EndOpKeeps
<1>. QED  BY <1>1, <1>2, <1>3, <1>4, <1>5, <1>6, <1>7, <1>8, <1>9, <1>10, <1>11, <1>12 DEF OpStep

LEMMA ScanStepKeeps ==
    ASSUME IInv, ScanStep PROVE IInv'
<1>1. CASE TimerScan                   BY <1>1, TimerScanKeeps
<1>2. CASE BindReceipt                 BY <1>2, BindReceiptKeeps
<1>3. CASE ReadMailbox                 BY <1>3, ReadMailboxKeeps
<1>4. CASE TooYoung \/ ReconcileMissing BY <1>4, ScanGoesKeeps
<1>5. CASE RecordTerminationFailure    BY <1>5, TerminationFailureKeeps
<1>6. CASE QuarantineLate              BY <1>6, QuarantineLateKeeps
<1>7. CASE EndScan                     BY <1>7, EndScanKeeps
<1>. QED  BY <1>1, <1>2, <1>3, <1>4, <1>5, <1>6, <1>7 DEF ScanStep

LEMMA NextKeeps == IInv /\ [Next]_managerVars => IInv'
<1>1. SUFFICES ASSUME IInv, [Next]_managerVars PROVE IInv'
  OBVIOUS
<1>2. ASSUME NEW o \in Op, OpStep(o) PROVE IInv'
  BY <1>1, <1>2, OpStepKeeps
<1>3. CASE ScanStep
  BY <1>1, <1>3, ScanStepKeeps
<1>4. CASE ReserveRetry
  BY <1>1, <1>4, ReserveRetryKeeps
<1>5. CASE Send
  BY <1>1, <1>5, SendKeeps
<1>6. ASSUME NEW n \in Attempt, Escalate(n) PROVE IInv'
  BY <1>1, <1>6, EscalateKeeps
<1>7. CASE Asked
  BY <1>1, <1>7, LaunchKeeps, AuthorizeRetryKeeps, ReconcileKeeps, CancelKeeps,
     CancelUnlaunchedKeeps DEF Asked
<1>8. CASE Fails
  BY <1>1, <1>8, AbortKeeps, DispatchFailsKeeps, NoIdentityKeeps, SendFailsKeeps, DetachKeeps
     DEF Fails
<1>9. CASE AgentSettled
  BY <1>1, <1>9, AgentSettledKeeps
<1>10. CASE Attach
  BY <1>1, <1>10, AttachKeeps
<1>11. ASSUME NEW n \in Attempt, Outside(n) PROVE IInv'
  BY <1>1, <1>11, OutsideKeeps
<1>12. CASE UNCHANGED managerVars
  BY <1>1, <1>12, StutterKeeps
<1>. QED  BY <1>1, <1>2, <1>3, <1>4, <1>5, <1>6, <1>7, <1>8, <1>9, <1>10, <1>11, <1>12
             DEF Next, ManagerStep

\* The strengthened invariant holds of every run of the manager, for any number of attempts.
THEOREM ManagerInvariant == Spec => []IInv
<1>1. Init => IInv
  BY InitHolds
<1>2. IInv /\ [Next]_managerVars => IInv'
  BY NextKeeps
<1>. QED  BY <1>1, <1>2, PTL DEF Spec

\* #ingestResult refuses what is not a cancellation once cancel.json is there: whichever
\* operation adopts, and whenever the supervisor wrote, the cancellation decides.
THEOREM CancellationDecides == Spec => []CancelWins
<1>1. IInv => CancelWins
  BY DEF IInv, AdoptedIsPublished, CancelWins
<1>. QED  BY <1>1, ManagerInvariant, PTL

\* Nothing of an attempt is left running when its result has been adopted, except where the
\* caller aborted the launch: a retry has the worktree to itself.
THEOREM AdoptedHasNoChild == Spec => []AdoptedIsExtinct
<1>1. IInv => AdoptedIsExtinct
  <2>1. SUFFICES ASSUME IInv, NEW n \in Attempt, Adopted(n), run[n].child = "alive"
                 PROVE  n \in aborted
    BY DEF AdoptedIsExtinct
  <2>2. session.att[n].by \in {"primary", "recovery"}
    BY <2>1 DEF IInv, TypeInv, Sessions, Att, Adopted
  <2>3. CASE session.att[n].by = "primary"
    BY <2>1, <2>3 DEF IInv, AdoptedIsPublished, RunsAgree
  <2>4. CASE session.att[n].by = "recovery"
    <3>1. Harmless(n)
      BY <2>1, <2>4 DEF IInv, RecoveryIsHarmless
    <3>. QED  BY <2>1, <3>1 DEF Harmless, Unspawned, IInv, RunsAgree
  <2>. QED  BY <2>2, <2>3, <2>4
<1>. QED  BY <1>1, ManagerInvariant, PTL

\* The queue neither loses nor repeats a completion, whatever dies between taking it,
\* telling it and being told that it was noticed.
THEOREM NoCompletionIsLost == Spec => []CompletionsAreKept
<1>1. IInv => CompletionsAreKept
  <2>1. SUFFICES ASSUME IInv PROVE CompletionsAreKept
    OBVIOUS
  <2>2. ASSUME NEW n \in Attempt
        PROVE  Cardinality({i \in 1..Len(session.queue) : session.queue[i] = n})
                 = IF Queued(session, n) THEN 1 ELSE 0
    <3>. DEFINE I == {i \in 1..Len(session.queue) : session.queue[i] = n}
    <3>1. CASE ~Queued(session, n)
      <4>1. I = {}
        BY <3>1 DEF Queued
      <4>. QED  BY <3>1, <4>1, FS_EmptySet
    <3>2. CASE Queued(session, n)
      <4>1. PICK i \in 1..Len(session.queue) : session.queue[i] = n
        BY <3>2 DEF Queued
      <4>2. I = {i}
        BY <2>1, <4>1 DEF IInv, OnePlace, Placed
      <4>. QED  BY <3>2, <4>2, FS_Singleton
    <3>. QED  BY <3>1, <3>2
  <2>3. ASSUME NEW n \in Attempt
        PROVE  LET queued == Cardinality({i \in 1..Len(session.queue) : session.queue[i] = n})
                   flying == IF session.inFlight = n THEN 1 ELSE 0
                   known == IF n \in session.completed THEN 1 ELSE 0 IN
               queued + flying + known = IF Adopted(n) THEN 1 ELSE 0
    <3>1. n # 0
      BY AttemptsAssumption DEF Attempt
    <3>2. Placed(session)
      BY <2>1 DEF IInv, OnePlace
    <3>3. /\ session.inFlight = n => ~Queued(session, n) /\ n \notin session.completed
          /\ n \in session.completed => ~Queued(session, n)
          /\ Adopted(n) <=> Queued(session, n) \/ session.inFlight = n \/ n \in session.completed
      BY <3>1, <3>2 DEF Placed, Adopted
    <3>. QED  BY <2>2, <3>3
  <2>4. manager.attached => session.inFlight \in {0, manager.sending, manager.delivered}
    BY <2>1 DEF IInv, FlightIsKnown
  <2>. QED  BY <2>3, <2>4 DEF CompletionsAreKept
<1>. QED  BY <1>1, ManagerInvariant, PTL

-----------------------------------------------------------------------------
(* The supervisor of an attempt.                                           *)

Ats == {"none", "receipt", "mailbox", "spawn", "bind", "listen", "listening", "finalizing",
        "closing", "over", "dead"}
Mems == [report : Sup!Reports \cup {"none"}, repairs : Nat, cancel : BOOLEAN,
         intent : {"none", "succeeded", "needs_attention", "cancelled"},
         broken : BOOLEAN, forced : BOOLEAN]
Children == [life : {"none", "alive", "clean", "unclean"},
             turn : {"idle", "busy", "reported"}, stdin : {"open", "prompt", "closed"}]
Results == {"none", "succeeded", "needs_attention", "failed", "cancelled"}
Files == [receipt : BOOLEAN, mailbox : {"none", "starting", "child", "stuck"},
          cancel : BOOLEAN, result : Results, report : Sup!Reports \cup {"none"}]

SupervisorTypes ==
           /\ at \in Ats /\ memory \in Mems /\ timers \subseteq {"force", "kill"}
           /\ child \in Children /\ out \in Seq(Sup!Records)
            /\ files \in Files /\ missed \in BOOLEAN

\* What there is of an attempt when its supervisor has come so far.
Begun ==
    /\ at \in {"none", "receipt", "mailbox"} => files.mailbox = "none"
    /\ at = "mailbox" => files.receipt
    /\ at = "spawn" => files.mailbox = "starting"
    /\ at \in {"none", "receipt", "mailbox", "spawn"} => child.life = "none"
    /\ at \in {"bind", "listen", "listening"} => child.life # "none"
    /\ at \in {"listen", "listening", "finalizing"} => files.mailbox \in {"child", "stuck"}
    /\ at = "finalizing" => Sup!Exited
    /\ at = "none" => ~files.receipt

Silent == child.turn = "idle" /\ child.stdin # "prompt" /\ out = << >> /\ memory.intent = "none"

\* Nobody has spoken before the first prompt.  A turn is settled once, by the last of its
\* records, and only after it has been handled is there another prompt; when the supervisor
\* has made up its mind, none will come.
TurnsAreTold ==
    /\ at \in {"none", "receipt", "mailbox", "spawn", "bind", "listen"} => Silent
    /\ \A i \in 1..Len(out) : out[i] = "settled" => i = Len(out)
    /\ child.turn # "idle" => /\ memory.intent = "none" /\ child.stdin # "prompt"
                              /\ \A i \in 1..Len(out) : out[i] # "settled"
    /\ child.stdin = "prompt" => memory.intent = "none" /\ out = << >>
    /\ memory.intent # "none" => out = << >>

\* What the last turn came to is what its own report said.
IntentIsTold ==
    /\ memory.intent = "succeeded" => memory.report = "completed"
    /\ memory.intent = "needs_attention" => memory.report \in {"none", "needs_attention"}
    /\ memory.intent = "cancelled" => memory.cancel

\* A result is written at the end, and tells what the supervisor saw.
ResultIsTold ==
    /\ files.result # "none" => at \in {"closing", "over", "dead"} /\ Sup!Exited
    /\ Sup!ResultIsJustified

SupervisorInv == SupervisorTypes /\ Begun /\ TurnsAreTold /\ IntentIsTold /\ ResultIsTold

----------------------------------------------------------------------------
\* The sequences of records.
LEMMA NoRecords == ASSUME NEW t \in Seq(Sup!Records), Len(t) = 0 PROVE t = << >>
OBVIOUS

LEMMA TailOfRecords ==
  ASSUME NEW s \in Seq(Sup!Records), s # << >>
  PROVE  /\ Head(s) = s[1] /\ Head(s) \in Sup!Records /\ Tail(s) \in Seq(Sup!Records)
         /\ Len(s) \in Nat \ {0} /\ Len(Tail(s)) = Len(s) - 1
         /\ \A i \in 1..Len(Tail(s)) : Tail(s)[i] = s[i + 1]
         /\ Len(s) = 1 => Tail(s) = << >>
<1>1. Len(s) \in Nat \ {0} /\ Tail(s) \in Seq(Sup!Records)
  OBVIOUS
<1>2. Head(s) = s[1] /\ Head(s) \in Sup!Records
  OBVIOUS
<1>3. Len(Tail(s)) = Len(s) - 1
  BY <1>1
<1>4. \A i \in 1..Len(Tail(s)) : Tail(s)[i] = s[i + 1]
  BY <1>1
<1>5. Len(s) = 1 => Tail(s) = << >>
  <2>1. SUFFICES ASSUME Len(s) = 1 PROVE Len(Tail(s)) = 0
    BY <1>1, NoRecords
  <2>. QED  BY <1>3, <2>1
<1>. QED  BY <1>1, <1>2, <1>3, <1>4, <1>5

LEMMA RecordAppended ==
  ASSUME NEW s \in Seq(Sup!Records), NEW r \in Sup!Records
  PROVE  /\ Append(s, r) \in Seq(Sup!Records) /\ Len(s) \in Nat /\ Len(Append(s, r)) = Len(s) + 1
         /\ \A i \in 1..Len(s) + 1 : Append(s, r)[i] = IF i = Len(s) + 1 THEN r ELSE s[i]
         /\ Append(s, r) # << >>
OBVIOUS

LEMMA SupervisorInit == Sup!Init => SupervisorInv
<1>. SUFFICES ASSUME Sup!Init PROVE SupervisorInv
  OBVIOUS
<1>1. SupervisorTypes
  <2>1. memory \in Mems
    BY DEF Sup!Init, Mems
  <2>2. files \in Files
    BY DEF Sup!Init, Files, Results
  <2>3. out \in Seq(Sup!Records) /\ child \in Children
    BY DEF Sup!Init, Children
  <2>4. at \in Ats /\ timers \subseteq {"force", "kill"} /\ missed \in BOOLEAN
    BY DEF Sup!Init, Ats
  <2>. QED  BY <2>1, <2>2, <2>3, <2>4 DEF SupervisorTypes
<1>2. Begun /\ IntentIsTold /\ ResultIsTold
  BY DEF Sup!Init, Begun, IntentIsTold, ResultIsTold, Sup!ResultIsJustified, Sup!Exited
<1>3. TurnsAreTold
  BY DEF Sup!Init, TurnsAreTold, Silent
<1>. QED  BY <1>1, <1>2, <1>3 DEF SupervisorInv

\* Steps of the process and of the files leave what was said as it is.
LEMMA StartKeeps ==
  ASSUME SupervisorInv,
         Sup!Start \/ Sup!WriteReceipt \/ Sup!WriteMailbox \/ Sup!SpawnChild \/ Sup!BindChild
  PROVE  SupervisorInv'
<1>. USE DEF SupervisorInv
<1>1. SupervisorTypes'
  BY DEF SupervisorTypes, Sup!Start, Sup!WriteReceipt, Sup!WriteMailbox, Sup!SpawnChild,
         Sup!BindChild,
     Ats, Files, Children
<1>2. Begun'
  BY DEF SupervisorTypes, Begun, Sup!Start, Sup!WriteReceipt, Sup!WriteMailbox, Sup!SpawnChild,
     Sup!BindChild, Ats, Files, Children, Sup!Exited
<1>3. TurnsAreTold'
  BY DEF SupervisorTypes, TurnsAreTold, Silent, Sup!Start, Sup!WriteReceipt, Sup!WriteMailbox,
     Sup!SpawnChild, Sup!BindChild, Children
<1>4. IntentIsTold'
  BY DEF IntentIsTold, Sup!Start, Sup!WriteReceipt, Sup!WriteMailbox, Sup!SpawnChild, Sup!BindChild
<1>5. ResultIsTold'
  BY DEF SupervisorTypes, ResultIsTold, Sup!ResultIsJustified, Sup!Exited, Sup!Start,
         Sup!WriteReceipt,
     Sup!WriteMailbox, Sup!SpawnChild, Sup!BindChild, Files, Children
<1>. QED  BY <1>1, <1>2, <1>3, <1>4, <1>5

LEMMA ListenKeeps == ASSUME SupervisorInv, Sup!Listen PROVE SupervisorInv'
<1>. USE DEF SupervisorInv
<1>1. SupervisorTypes'
  BY DEF SupervisorTypes, Sup!Listen, Ats, Children, Sup!Exited
<1>2. Begun'
  BY DEF SupervisorTypes, Begun, Sup!Listen, Ats, Children, Sup!Exited
<1>3. TurnsAreTold'
  BY DEF SupervisorTypes, TurnsAreTold, Silent, Sup!Listen, Children, Sup!Exited
<1>4. IntentIsTold'
  BY DEF IntentIsTold, Sup!Listen
<1>5. ResultIsTold'
  BY DEF SupervisorTypes, ResultIsTold, Sup!ResultIsJustified, Sup!Exited, Sup!Listen, Children
<1>. QED  BY <1>1, <1>2, <1>3, <1>4, <1>5

LEMMA ReportKeeps == ASSUME SupervisorInv, Sup!HandleReport \/ Sup!HandleError PROVE SupervisorInv'
<1>. USE DEF SupervisorInv
<1>0. /\ out \in Seq(Sup!Records) /\ out # << >>
      /\ at \in {"listening", "finalizing"} /\ out' = Tail(out)
      /\ UNCHANGED <<at, files, missed, timers, child>>
  BY DEF SupervisorTypes, Sup!HandleReport, Sup!HandleError, Sup!Handle
<1>a. /\ memory.intent = "none" /\ memory'.intent = "none" /\ child.stdin # "prompt"
      /\ memory' \in Mems
  BY <1>0 DEF SupervisorTypes, TurnsAreTold, Sup!HandleReport, Sup!HandleError, Sup!Handle, Mems
<1>b. files.result = "none"
  BY <1>0 DEF ResultIsTold
<1>c. \A i \in 1..Len(out') : out'[i] = out[i + 1] /\ i + 1 \in 1..Len(out)
      /\ Len(out') = Len(out) - 1
  BY <1>0, TailOfRecords
<1>1. SupervisorTypes'
  BY <1>0, <1>a, TailOfRecords DEF SupervisorTypes
<1>2. Begun'
  BY <1>0 DEF Begun, Sup!Exited
<1>3. TurnsAreTold'
  <2>1. \A i \in 1..Len(out') : out'[i] = "settled" => i = Len(out')
    BY <1>0, <1>c, TailOfRecords DEF TurnsAreTold
  <2>2. child.turn # "idle" => \A i \in 1..Len(out') : out'[i] # "settled"
    BY <1>c DEF TurnsAreTold
  <2>. QED  BY <1>0, <1>a, <2>1, <2>2 DEF TurnsAreTold
<1>4. IntentIsTold'
  BY <1>a DEF IntentIsTold
<1>5. ResultIsTold'
  BY <1>0, <1>b DEF ResultIsTold, Sup!ResultIsJustified, Sup!Exited
<1>. QED  BY <1>1, <1>2, <1>3, <1>4, <1>5

LEMMA SettledKeeps == ASSUME SupervisorInv, Sup!HandleSettled PROVE SupervisorInv'
<1>. USE DEF SupervisorInv
<1>0. /\ out \in Seq(Sup!Records) /\ out # << >> /\ Head(out) = "settled"
      /\ at \in {"listening", "finalizing"} /\ out' = Tail(out)
      /\ UNCHANGED <<at, files, missed>>
  BY DEF SupervisorTypes, Sup!HandleSettled, Sup!Handle
<1>a. out' = << >> /\ child.turn = "idle" /\ child.stdin # "prompt" /\ memory.intent = "none"
  BY <1>0, TailOfRecords DEF TurnsAreTold, SupervisorTypes, Children
<1>b. files.result = "none"
  BY <1>0 DEF ResultIsTold
<1>c. child' \in Children /\ child'.life = child.life /\ child'.turn = "idle"
  BY <1>a DEF SupervisorTypes, Sup!HandleSettled, Sup!Close, Children
<1>d. CASE memory' = [memory EXCEPT !.repairs = @ + 1] /\ UNCHANGED timers
  <2>1. memory' \in Mems /\ memory'.intent = "none"
    BY <1>a, <1>d DEF SupervisorTypes, Mems
  <2>2. SupervisorTypes'
    BY <1>0, <1>a, <1>c, <1>d, <2>1 DEF SupervisorTypes
  <2>3. Begun'
    BY <1>0, <1>c DEF Begun, Sup!Exited
  <2>4. TurnsAreTold'
    BY <1>0, <1>a, <1>c, <2>1 DEF TurnsAreTold
  <2>5. IntentIsTold'
    BY <2>1 DEF IntentIsTold
  <2>6. ResultIsTold'
    BY <1>0, <1>b DEF ResultIsTold, Sup!ResultIsJustified
  <2>. QED  BY <2>2, <2>3, <2>4, <2>5, <2>6
<1>e. CASE /\ memory' = [memory EXCEPT !.intent = CASE memory.cancel -> "cancelled"
                                 [] ~memory.cancel /\ memory.report = "completed" -> "succeeded"
                                 [] OTHER -> "needs_attention"]
           /\ Sup!Close
  <2>0. child'.stdin # "prompt" /\ timers' \subseteq {"force", "kill"}
    BY <1>a, <1>e DEF Sup!Close, SupervisorTypes, Children
  <2>1. /\ memory' \in Mems /\ memory'.report = memory.report /\ memory'.cancel = memory.cancel
        /\ memory'.intent = "cancelled" => memory.cancel
        /\ memory'.intent = "succeeded" => memory.report = "completed"
        /\ memory'.intent = "needs_attention" => memory.report # "completed"
    BY <1>e DEF SupervisorTypes, Mems
  <2>2. SupervisorTypes'
    BY <1>0, <1>a, <1>c, <2>0, <2>1 DEF SupervisorTypes
  <2>3. Begun'
    BY <1>0, <1>c DEF Begun, Sup!Exited
  <2>4. TurnsAreTold'
    BY <1>0, <1>a, <1>c, <2>0 DEF TurnsAreTold
  <2>5. IntentIsTold'
    BY <2>1 DEF IntentIsTold, Mems, SupervisorTypes, Sup!Reports
  <2>6. ResultIsTold'
    BY <1>0, <1>b DEF ResultIsTold, Sup!ResultIsJustified
  <2>. QED  BY <2>2, <2>3, <2>4, <2>5, <2>6
<1>. QED  BY <1>d, <1>e DEF Sup!HandleSettled

LEMMA CancellationKeeps ==
  ASSUME SupervisorInv,
         Sup!SignalSupervisor \/ Sup!PollCancellation \/ Sup!CancelAttempt \/ Sup!SupervisorDies
  PROVE  SupervisorInv'
<1>. USE DEF SupervisorInv
<1>1. CASE Sup!RequestCancellation
  <2>0. /\ at \in {"listening", "finalizing"} /\ files.result = "none"
        /\ memory' \in Mems /\ memory'.cancel
        /\ memory'.intent = memory.intent /\ memory'.report = memory.report
        /\ timers' \subseteq {"force", "kill"}
        /\ UNCHANGED <<at, child, out, files, missed>>
    BY <1>1 DEF Sup!RequestCancellation, SupervisorTypes, Mems, ResultIsTold
  <2>1. SupervisorTypes' /\ Begun' /\ TurnsAreTold'
    BY <2>0 DEF SupervisorTypes, Begun, TurnsAreTold, Silent, Sup!Exited
  <2>2. IntentIsTold' /\ ResultIsTold'
    BY <2>0 DEF IntentIsTold, ResultIsTold, Sup!ResultIsJustified, Sup!Exited
  <2>. QED  BY <2>1, <2>2
<1>2. CASE at' = "dead" /\ timers' = {} /\ UNCHANGED <<memory, child, out, files, missed>>
  <2>1. SupervisorTypes' /\ Begun'
    BY <1>2 DEF SupervisorTypes, Begun, Ats
  <2>2. TurnsAreTold' /\ IntentIsTold' /\ ResultIsTold'
    BY <1>2 DEF TurnsAreTold, Silent, IntentIsTold, ResultIsTold, Sup!ResultIsJustified, Sup!Exited
  <2>. QED  BY <2>1, <2>2
<1>3. CASE Sup!CancelAttempt
  <2>0. /\ files' \in Files /\ UNCHANGED <<at, memory, timers, child, out, missed>>
        /\ files'.receipt = files.receipt /\ files'.mailbox = files.mailbox
        /\ files'.result = files.result /\ files'.report = files.report
    BY <1>3 DEF Sup!CancelAttempt, SupervisorTypes, Files
  <2>1. SupervisorTypes' /\ Begun'
    BY <2>0 DEF SupervisorTypes, Begun, Sup!Exited
  <2>2. TurnsAreTold' /\ IntentIsTold' /\ ResultIsTold'
    BY <2>0 DEF TurnsAreTold, Silent, IntentIsTold, ResultIsTold, Sup!ResultIsJustified, Sup!Exited
  <2>. QED  BY <2>1, <2>2
<1>. QED  BY <1>1, <1>2, <1>3 DEF Sup!SignalSupervisor, Sup!PollCancellation, Sup!SupervisorDies

LEMMA TerminateKeeps == ASSUME SupervisorInv, Sup!Terminate \/ Sup!Kill PROVE SupervisorInv'
<1>. USE DEF SupervisorInv
<1>0. /\ at = "listening" /\ files.result = "none" /\ child.life # "none"
      /\ UNCHANGED <<at, out, missed>>
  BY DEF Sup!Terminate, Sup!Kill, Begun, ResultIsTold
<1>1. /\ memory' \in Mems /\ memory'.intent = memory.intent /\ memory'.report = memory.report
      /\ memory'.cancel = memory.cancel
  BY DEF Sup!Terminate, Sup!Kill, SupervisorTypes, Mems
<1>2. /\ child' \in Children /\ child'.turn = child.turn /\ child'.stdin = child.stdin
      /\ child'.life # "none"
  BY <1>0 DEF Sup!Terminate, Sup!Kill, SupervisorTypes, Children
<1>3. /\ files' \in Files /\ files'.result = "none" /\ timers' \subseteq {"force", "kill"}
      /\ files'.mailbox \in {files.mailbox, "stuck"}
  BY <1>0 DEF Sup!Terminate, Sup!Kill, SupervisorTypes, Files
<1>4. SupervisorTypes' /\ Begun'
  BY <1>0, <1>1, <1>2, <1>3 DEF SupervisorTypes, Begun
<1>5. TurnsAreTold'
  BY <1>0, <1>1, <1>2 DEF TurnsAreTold
<1>6. IntentIsTold' /\ ResultIsTold'
  BY <1>0, <1>1, <1>3 DEF IntentIsTold, ResultIsTold, Sup!ResultIsJustified
<1>. QED  BY <1>4, <1>5, <1>6

LEMMA EndKeeps == ASSUME SupervisorInv, Sup!Finalize \/ Sup!CloseMailbox PROVE SupervisorInv'
<1>. USE DEF SupervisorInv
<1>1. SupervisorTypes' /\ Begun'
  BY DEF SupervisorTypes, Begun, Sup!Finalize, Sup!CloseMailbox, Ats, Sup!Exited
<1>2. TurnsAreTold' /\ IntentIsTold' /\ ResultIsTold'
  BY DEF TurnsAreTold, Silent, IntentIsTold, ResultIsTold, Sup!ResultIsJustified, Sup!Exited,
     Sup!Finalize, Sup!CloseMailbox
<1>. QED  BY <1>1, <1>2

\* What the supervisor says of the attempt, and why.
LEMMA StatusIsTold ==
  ASSUME SupervisorInv, at = "finalizing"
  PROVE  /\ Sup!TerminalStatus \in Results \ {"none"}
         /\ Sup!TerminalStatus = "succeeded" => memory.report = "completed"
         /\ Sup!TerminalStatus = "needs_attention" => memory.report \in {"none", "needs_attention"}
         /\ Sup!TerminalStatus \in {"succeeded", "needs_attention"} =>
               child.life = "clean" /\ ~memory.broken /\ ~memory.forced /\ ~memory.cancel
         /\ Sup!TerminalStatus = "cancelled" => memory.cancel
BY DEF SupervisorInv, SupervisorTypes, Mems, Children, Begun, Sup!Exited, IntentIsTold,
   Sup!TerminalStatus, Results

LEMMA WriteResultKeeps == ASSUME SupervisorInv, Sup!WriteResult PROVE SupervisorInv'
<1>. USE DEF SupervisorInv
<1>0. /\ at = "finalizing" /\ at' = "closing" /\ Sup!Exited /\ files.result = "none"
      /\ UNCHANGED <<memory, timers, child, out, missed>>
  BY DEF Sup!WriteResult, Begun, ResultIsTold
<1>1. /\ files' \in Files
      /\ files'.result # "none" =>
           files'.result = Sup!TerminalStatus /\ files'.report = memory.report
  BY <1>0, StatusIsTold DEF Sup!WriteResult, SupervisorTypes, Files, Mems, Results
<1>2. SupervisorTypes' /\ Begun'
  BY <1>0, <1>1 DEF SupervisorTypes, Begun, Ats
<1>3. TurnsAreTold' /\ IntentIsTold'
  BY <1>0 DEF TurnsAreTold, IntentIsTold
<1>4. ResultIsTold'
  BY <1>0, <1>1, StatusIsTold DEF ResultIsTold, Sup!ResultIsJustified, Sup!Exited
<1>. QED  BY <1>2, <1>3, <1>4

LEMMA ChildKeeps == ASSUME SupervisorInv, Sup!ChildStep PROVE SupervisorInv'
<1>. USE DEF SupervisorInv
<1>0. /\ child.life = "alive" /\ child' \in Children /\ child'.life # "none" /\ ~Sup!Exited
      /\ UNCHANGED <<at, memory, timers, files, missed>>
  BY DEF SupervisorTypes, Sup!ChildStep, Sup!TakePrompt, Sup!ChildReports, Sup!ChildErrs,
     Sup!ChildSettles, Sup!ChildExits, Children, Sup!Exited
<1>a. files.result = "none" /\ at # "finalizing"
  BY <1>0 DEF ResultIsTold, Begun
<1>b. IntentIsTold' /\ ResultIsTold'
  BY <1>0, <1>a DEF IntentIsTold, ResultIsTold, Sup!ResultIsJustified
<1>c. Begun'
  BY <1>0, <1>a DEF Begun
<1>1. CASE Sup!TakePrompt \/ Sup!ChildExits
  <2>1. SupervisorTypes'
    BY <1>0, <1>1 DEF SupervisorTypes, Sup!TakePrompt, Sup!ChildExits
  <2>2. ASSUME Sup!TakePrompt PROVE TurnsAreTold'
    <3>1. /\ memory.intent = "none" /\ out = << >> /\ child'.stdin = "open" /\ child'.turn = "busy"
          /\ at \notin {"none", "receipt", "mailbox", "spawn", "bind", "listen"}
      BY <2>2 DEF Sup!TakePrompt, SupervisorTypes, TurnsAreTold, Silent, Children
    <3>. QED  BY <1>0, <2>2, <3>1 DEF TurnsAreTold, Sup!TakePrompt
  <2>3. ASSUME Sup!ChildExits PROVE TurnsAreTold'
    <3>1. child'.stdin = child.stdin /\ child'.turn = child.turn
      BY <2>3 DEF Sup!ChildExits, SupervisorTypes, Children
    <3>. QED  BY <1>0, <2>3, <3>1 DEF TurnsAreTold, Silent, Sup!ChildExits
  <2>4. TurnsAreTold'
    BY <1>1, <2>2, <2>3
  <2>. QED  BY <1>b, <1>c, <2>1, <2>4
<1>2. CASE Sup!ChildReports \/ Sup!ChildErrs \/ Sup!ChildSettles
  <2>0. PICK r \in Sup!Records : out' = Append(out, r)
    BY <1>2 DEF Sup!ChildReports, Sup!ChildErrs, Sup!ChildSettles, Sup!Says, Sup!Records
  <2>1. SupervisorTypes'
    BY <1>0, <2>0, RecordAppended DEF SupervisorTypes
  <2>2. /\ child.turn # "idle" /\ child'.stdin = child.stdin
        /\ r = "settled" => child'.turn = "idle"
    <3>1. CASE Sup!ChildReports \/ Sup!ChildErrs
      <4>1. PICK q \in Sup!Records \ {"settled"} : out' = Append(out, q)
        BY <3>1 DEF Sup!ChildReports, Sup!ChildErrs, Sup!Says, Sup!Records, Sup!Reports
      <4>2. out \in Seq(Sup!Records)
        BY DEF SupervisorTypes
      <4>5. Append(out, r)[Len(out) + 1] = r
        BY <4>2
      <4>6. Append(out, q)[Len(out) + 1] = q
        BY <4>2
      <4>3. r = q
        BY <2>0, <4>1, <4>5, <4>6
      <4>4. child.turn # "idle" /\ child'.stdin = child.stdin
        BY <3>1 DEF Sup!ChildReports, Sup!ChildErrs, SupervisorTypes, Children
      <4>. QED  BY <4>3, <4>4
    <3>2. CASE Sup!ChildSettles
      BY <3>2 DEF Sup!ChildSettles, SupervisorTypes, Children
    <3>. QED  BY <1>2, <3>1, <3>2
  <2>3. /\ memory.intent = "none" /\ child.stdin # "prompt"
        /\ \A i \in 1..Len(out) : out[i] # "settled"
        /\ at \notin {"none", "receipt", "mailbox", "spawn", "bind", "listen"}
    BY <2>2 DEF TurnsAreTold, Silent
  <2>4. /\ \A i \in 1..Len(out') : out'[i] = "settled" => i = Len(out')
        /\ r # "settled" => \A i \in 1..Len(out') : out'[i] # "settled"
    BY <2>0, <2>3, RecordAppended DEF SupervisorTypes
  <2>5. TurnsAreTold'
    BY <1>0, <2>2, <2>3, <2>4 DEF TurnsAreTold
  <2>. QED  BY <1>b, <1>c, <2>1, <2>5
<1>. QED  BY <1>1, <1>2 DEF Sup!ChildStep

LEMMA StepKeepsInv == SupervisorInv /\ [Sup!Next]_(Sup!supervisorVars) => SupervisorInv'
<1>. SUFFICES ASSUME SupervisorInv, [Sup!Next]_(Sup!supervisorVars) PROVE SupervisorInv'
  OBVIOUS
<1>1. CASE UNCHANGED Sup!supervisorVars
  BY <1>1 DEF Sup!supervisorVars, SupervisorInv, SupervisorTypes, Begun, Silent, TurnsAreTold,
     IntentIsTold, ResultIsTold, Sup!ResultIsJustified, Sup!Exited
<1>2. CASE Sup!Next
  BY <1>2, StartKeeps, ListenKeeps, ReportKeeps, SettledKeeps, CancellationKeeps, TerminateKeeps,
     EndKeeps, WriteResultKeeps, ChildKeeps DEF Sup!Next, Sup!SupervisorStep
<1>. QED  BY <1>1, <1>2

\* The inductive invariant of the supervisor: how far it has come, whose turn it is, and
\* what its intent and its result rest on.
THEOREM SupervisorInvariant == Sup!Spec => []SupervisorInv
BY SupervisorInit, StepKeepsInv, PTL DEF Sup!Spec

\* In whatever order reports, settled turns, errors, cancellations, forced teardown and the
\* exit of the child arrive, the result claims no more than the supervisor has seen.
THEOREM ResultTellsWhatWasSeen == Sup!Spec => []Sup!ResultIsJustified
<1>1. SupervisorInv => Sup!ResultIsJustified
  BY DEF SupervisorInv, ResultIsTold
<1>. QED  BY <1>1, SupervisorInvariant, PTL

----------------------------------------------------------------------------
(* The attempt that the manager sees. *)

Seen == [sup |-> IF at = "none" THEN "none" ELSE IF Sup!Up THEN "up" ELSE "down",
     child |-> IF child.life = "none" THEN "none" ELSE IF Sup!Exited THEN "gone" ELSE "alive",
     receipt |-> files.receipt, mailbox |-> files.mailbox, cancel |-> files.cancel,
     result |-> files.result]

\* Another view of an attempt, in which one file has been written.
LEMMA SeenWith ==
  ASSUME NEW a \in Sup!Attempt!Attempts, NEW b \in Sup!Attempt!Attempts,
         b.sup = a.sup, b.child = a.child, b.mailbox = a.mailbox, b.result = a.result
  PROVE  /\ b.cancel = a.cancel /\ b.receipt = TRUE => b = [a EXCEPT !.receipt = TRUE]
         /\ b.receipt = a.receipt /\ b.cancel = TRUE => b = [a EXCEPT !.cancel = TRUE]
<1>1. ASSUME b.cancel = a.cancel, b.receipt = TRUE PROVE b = [a EXCEPT !.receipt = TRUE]
  BY <1>1 DEF Sup!Attempt!Attempts
<1>2. ASSUME b.receipt = a.receipt, b.cancel = TRUE PROVE b = [a EXCEPT !.cancel = TRUE]
  BY <1>2 DEF Sup!Attempt!Attempts
<1>. QED  BY <1>1, <1>2

LEMMA SeenWithResult ==
  ASSUME NEW a \in Sup!Attempt!Attempts, NEW b \in Sup!Attempt!Attempts,
         b.sup = a.sup, b.child = a.child, b.mailbox = a.mailbox, b.cancel = a.cancel,
         b.receipt = a.receipt
  PROVE  b = [a EXCEPT !.result = b.result]
BY DEF Sup!Attempt!Attempts

LEMMA SeenTyped == SupervisorTypes => Seen \in Sup!Attempt!Attempts
BY DEF SupervisorTypes, Sup!Attempt!Attempts, Seen, Files, Results, Sup!Exited, Children, Sup!Up

LEMMA InitImplements == Sup!Init => Sup!Attempt!Init
BY DEF Sup!Init, Sup!Attempt!Init, Sup!Attempt!Unlaunched, Sup!Exited, Sup!Up

\* What a step of the attempt is: each of the ways of WorkerAttempt.
AttemptSteps ==
  Sup!Attempt!Spawned(Seen) \cup Sup!Attempt!Cancelled(Seen) \cup Sup!Attempt!Progress(Seen)

LEMMA StepImplements ==
  SupervisorInv /\ [Sup!Next]_(Sup!supervisorVars) => [Sup!Attempt!Next]_Seen
<1>. SUFFICES ASSUME SupervisorInv, [Sup!Next]_(Sup!supervisorVars)
              PROVE  Seen' = Seen \/ Seen' \in AttemptSteps
  BY DEF Sup!Attempt!Next, AttemptSteps, Seen
<1>. USE DEF SupervisorInv
<1>a. /\ files \in Files /\ child \in Children /\ at \in Ats
  BY DEF SupervisorTypes
<1>b. /\ Seen.sup \in {"none", "up", "down"} /\ Seen.sup = "none" <=> at = "none"
      /\ Seen.sup = "up" <=> Sup!Up
      /\ Seen.child = "none" <=> child.life = "none"
      /\ Seen.child = "gone" <=> Sup!Exited
      /\ Seen.child = "alive" <=> child.life = "alive"
      /\ Seen.receipt = files.receipt /\ Seen.mailbox = files.mailbox
      /\ Seen.cancel = files.cancel /\ Seen.result = files.result
  BY <1>a DEF Seen, Children, Sup!Exited, Sup!Up
<1>c. /\ Sup!Attempt!Spawned(Seen) \subseteq AttemptSteps
      /\ Sup!Attempt!Cancelled(Seen) \subseteq AttemptSteps
      /\ Seen.sup = "up" => [Seen EXCEPT !.receipt = TRUE] \in AttemptSteps
      /\ Sup!Attempt!Starts(Seen) \subseteq AttemptSteps
      /\ Sup!Attempt!Runs(Seen) \subseteq AttemptSteps
      /\ Sup!Attempt!Announces(Seen) \subseteq AttemptSteps
      /\ Sup!Attempt!CannotKill(Seen) \subseteq AttemptSteps
      /\ Sup!Attempt!Publishes(Seen) \subseteq AttemptSteps
      /\ Sup!Attempt!Ends(Seen) \subseteq AttemptSteps
      /\ Sup!Attempt!ChildExits(Seen) \subseteq AttemptSteps
  BY DEF AttemptSteps, Sup!Attempt!Progress, Sup!Attempt!When
<1>t. Seen \in Sup!Attempt!Attempts /\ Seen' \in Sup!Attempt!Attempts
  <2>1. SupervisorInv'
    BY StepKeepsInv
  <2>2. SupervisorTypes' => (Seen \in Sup!Attempt!Attempts)'
    BY DEF SupervisorTypes, Sup!Attempt!Attempts, Seen, Files, Results, Sup!Exited, Children, Sup!Up
  <2>3. (Seen \in Sup!Attempt!Attempts)' <=> Seen' \in Sup!Attempt!Attempts
    BY DEF Sup!Attempt!Attempts
  <2>. QED  BY <2>1, <2>2, <2>3, SeenTyped
<1>. USE DEF Sup!Attempt!When
<1>1. CASE Sup!Start
  <2>1. Seen' \in Sup!Attempt!Spawned(Seen)
    BY <1>1, <1>b DEF Sup!Start, Seen, Sup!Up, Sup!Exited, Sup!Attempt!Spawned
  <2>. QED  BY <2>1, <1>c
<1>2. CASE Sup!WriteReceipt
  <2>0. /\ files'.receipt = TRUE /\ files'.mailbox = files.mailbox
        /\ files'.cancel = files.cancel /\ files'.result = files.result
        /\ Sup!Up /\ Sup!Up' /\ at # "none" /\ at' # "none" /\ child' = child
    BY <1>2, <1>a DEF Sup!WriteReceipt, Sup!Up, Files
  <2>1. Seen' = [Seen EXCEPT !.receipt = TRUE] /\ Sup!Up
    <3>1. /\ Seen'.sup = Seen.sup /\ Seen'.child = Seen.child /\ Seen'.mailbox = Seen.mailbox
          /\ Seen'.result = Seen.result /\ Seen'.cancel = Seen.cancel /\ Seen'.receipt = TRUE
      BY <2>0 DEF Seen, Sup!Exited
    <3>. QED  BY <1>t, <2>0, <3>1, SeenWith
  <2>. QED  BY <2>1, <1>b, <1>c
<1>3. CASE Sup!WriteMailbox
  <2>1. Seen' \in Sup!Attempt!Starts(Seen)
    BY <1>3, <1>a, <1>b
       DEF Sup!WriteMailbox, Seen, Sup!Up, Sup!Exited, Files, Sup!Attempt!Starts, Begun
  <2>. QED  BY <2>1, <1>c
<1>4. CASE Sup!SpawnChild
  <2>1. Seen' \in Sup!Attempt!Runs(Seen)
    BY <1>4, <1>a, <1>b
       DEF Sup!SpawnChild, Seen, Sup!Up, Sup!Exited, Children, Sup!Attempt!Runs, Begun
  <2>. QED  BY <2>1, <1>c
<1>5. CASE Sup!BindChild
  <2>1. Seen' \in Sup!Attempt!Announces(Seen)
    BY <1>5, <1>a, <1>b
       DEF Sup!BindChild, Seen, Sup!Up, Sup!Exited, Files, Sup!Attempt!Announces, Begun,
       ResultIsTold
  <2>. QED  BY <2>1, <1>c
<1>6. CASE \/ Sup!Listen \/ Sup!HandleReport \/ Sup!HandleError \/ Sup!HandleSettled
             \/ Sup!RequestCancellation \/ Sup!Finalize
             \/ Sup!TakePrompt \/ Sup!ChildReports \/ Sup!ChildErrs \/ Sup!ChildSettles
  <2>1. child'.life = child.life /\ files' = files /\ (at' = at \/ {at, at'} \subseteq
           {"listen", "listening", "finalizing"})
    BY <1>6, <1>a DEF Sup!Listen, Sup!HandleReport, Sup!HandleError, Sup!HandleSettled, Sup!Handle,
       Sup!Close, Sup!RequestCancellation, Sup!Finalize, Sup!TakePrompt, Sup!ChildReports,
       Sup!ChildErrs, Sup!ChildSettles, Children
  <2>2. Seen' = Seen
    BY <2>1 DEF Seen, Sup!Up, Sup!Exited
  <2>. QED  BY <2>2
<1>7. CASE Sup!Terminate
  <2>1. child' = child /\ at' = at /\ at = "listening"
    BY <1>7 DEF Sup!Terminate
  <2>2. CASE files' = files
    BY <2>1, <2>2 DEF Seen, Sup!Up, Sup!Exited
  <2>3. CASE ~Sup!Exited /\ files' = [files EXCEPT !.mailbox = "stuck"]
    <3>1. Seen' = [Seen EXCEPT !.mailbox = "stuck"]
      BY <2>1, <2>3, <1>a DEF Seen, Sup!Up, Sup!Exited, Files
    <3>2. Seen.sup = "up" /\ Seen.mailbox \in {"child", "stuck"} /\ Seen.child = "alive"
      BY <2>1, <2>3, <1>a, <1>b DEF Begun, Sup!Up, Sup!Exited, Children
    <3>. QED  BY <3>1, <3>2, <1>c DEF Sup!Attempt!CannotKill
  <2>. QED  BY <1>7, <2>2, <2>3 DEF Sup!Terminate
<1>8. CASE Sup!Kill
  <2>1. at' = at /\ at = "listening"
    BY <1>8 DEF Sup!Kill
  <2>2. CASE Sup!Exited
    BY <1>8, <2>2 DEF Sup!Kill, Seen, Sup!Up, Sup!Exited
  <2>3. CASE ~Sup!Exited
    <3>2. Seen.sup = "up" /\ Seen.mailbox \in {"child", "stuck"} /\ Seen.child = "alive"
      BY <2>1, <2>3, <1>a, <1>b DEF Begun, Sup!Up, Sup!Exited, Children
    <3>3. CASE child' = [child EXCEPT !.life = "unclean"] /\ files' = files
      <4>1. Seen' = [Seen EXCEPT !.child = "gone"]
        BY <2>1, <3>3, <1>a DEF Seen, Sup!Up, Sup!Exited, Children
      <4>. QED  BY <3>2, <4>1, <1>c DEF Sup!Attempt!ChildExits
    <3>4. CASE child' = child /\ files' = [files EXCEPT !.mailbox = "stuck"]
      <4>1. Seen' = [Seen EXCEPT !.mailbox = "stuck"]
        BY <2>1, <3>4, <1>a DEF Seen, Sup!Up, Sup!Exited, Files
      <4>. QED  BY <3>2, <4>1, <1>c DEF Sup!Attempt!CannotKill
    <3>. QED  BY <1>8, <2>3, <3>3, <3>4 DEF Sup!Kill
  <2>. QED  BY <2>2, <2>3
<1>9. CASE Sup!WriteResult
  <2>1. at = "finalizing" /\ at' = "closing" /\ child' = child
    BY <1>9 DEF Sup!WriteResult
  <2>2. CASE files' = files
    BY <2>1, <2>2 DEF Seen, Sup!Up, Sup!Exited
  <2>3. CASE files' # files
    <3>1. /\ files'.result \in Results \ {"none"}
          /\ files'.receipt = files.receipt /\ files'.mailbox = files.mailbox
          /\ files'.cancel = files.cancel
      BY <1>9, <1>a, <2>1, <2>3, StatusIsTold DEF Sup!WriteResult, Files, Results
    <3>2. Seen' = [Seen EXCEPT !.result = files'.result]
      <4>1. /\ Seen'.sup = Seen.sup /\ Seen'.child = Seen.child /\ Seen'.mailbox = Seen.mailbox
            /\ Seen'.receipt = Seen.receipt /\ Seen'.cancel = Seen.cancel
            /\ Seen'.result = files'.result
        BY <2>1, <3>1 DEF Seen, Sup!Up, Sup!Exited
      <4>2. Seen' = [Seen EXCEPT !.result = Seen'.result]
        BY <1>t, <4>1, SeenWithResult
      <4>. QED  BY <4>1, <4>2
    <3>3. /\ Seen.sup = "up" /\ Seen.child = "gone" /\ Seen.mailbox \in {"child", "stuck"}
          /\ Seen.result = "none"
      BY <2>1, <1>b DEF Begun, ResultIsTold, Sup!Up
    <3>4. Seen' \in Sup!Attempt!Publishes(Seen)
      BY <3>1, <3>2, <3>3 DEF Sup!Attempt!Publishes, Results
    <3>. QED  BY <3>4, <1>c
  <2>. QED  BY <2>2, <2>3
<1>10. CASE Sup!Up /\ at' \in {"over", "dead"} /\ UNCHANGED <<child, files>>
  <2>1. Seen' = [Seen EXCEPT !.sup = "down"] /\ Seen.sup = "up"
    BY <1>10, <1>b DEF Seen, Sup!Up, Sup!Exited
  <2>. QED  BY <2>1, <1>c DEF Sup!Attempt!Ends
<1>11. CASE Sup!ChildExits
  <2>1. Seen' = [Seen EXCEPT !.child = "gone"] /\ Seen.child = "alive"
    BY <1>11, <1>a, <1>b DEF Sup!ChildExits, Seen, Sup!Up, Sup!Exited, Children
  <2>. QED  BY <2>1, <1>c DEF Sup!Attempt!ChildExits
<1>12. CASE Sup!CancelAttempt
  <2>0. /\ files'.cancel = TRUE /\ files'.mailbox = files.mailbox
        /\ files'.receipt = files.receipt /\ files'.result = files.result
        /\ at' = at /\ child' = child
    BY <1>12, <1>a DEF Sup!CancelAttempt, Files
  <2>1. Seen' = [Seen EXCEPT !.cancel = TRUE]
    <3>1. /\ Seen'.sup = Seen.sup /\ Seen'.child = Seen.child /\ Seen'.mailbox = Seen.mailbox
          /\ Seen'.result = Seen.result /\ Seen'.receipt = Seen.receipt /\ Seen'.cancel = TRUE
      BY <2>0 DEF Seen, Sup!Exited, Sup!Up
    <3>. QED  BY <1>t, <3>1, SeenWith
  <2>. QED  BY <2>1, <1>c DEF Sup!Attempt!Cancelled
<1>13. CASE UNCHANGED Sup!supervisorVars
  BY <1>13 DEF Sup!supervisorVars, Seen, Sup!Up, Sup!Exited
<1>14. ASSUME Sup!SignalSupervisor \/ Sup!SupervisorDies \/ Sup!CloseMailbox
       PROVE  Sup!RequestCancellation
               \/ (Sup!Up /\ at' \in {"over", "dead"} /\ UNCHANGED <<child, files>>)
  BY <1>14 DEF Sup!SignalSupervisor, Sup!SupervisorDies, Sup!CloseMailbox, Sup!Up
<1>. QED
  BY <1>1, <1>2, <1>3, <1>4, <1>5, <1>6, <1>7, <1>8, <1>9, <1>10, <1>11, <1>12, <1>13, <1>14
     DEF Sup!Next, Sup!SupervisorStep, Sup!ChildStep, Sup!PollCancellation

\* A supervisor does what its manager expects of an attempt: with what one launched attempt
\* is to the manager read off the supervisor, its child and its files, every step is one of
\* WorkerAttempt's or none at all; and the result it ends with is justified.
THEOREM SupervisorIsAnAttempt == Sup!Spec => ImplementsAttempt
<1>1. Sup!Init => Sup!Attempt!Init
  BY InitImplements
<1>2. SupervisorInv /\ [Sup!Next]_(Sup!supervisorVars) => [Sup!Attempt!Next]_Seen
  BY StepImplements
<1>3. Sup!Spec => Sup!ImplementsAttempt
  BY <1>1, <1>2, SupervisorInvariant, PTL
     DEF Sup!Spec, Sup!ImplementsAttempt, Sup!Attempt!Spec, Seen
<1>. QED  BY <1>3, ResultTellsWhatWasSeen DEF ImplementsAttempt
==============================================================================
