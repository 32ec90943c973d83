----------------------------- MODULE ItemCases -----------------------------
(***************************************************************************)
(* A plan's checks of an item, and what may come out of them: the cases in *)
(* which the lifecycle is looked at.                                       *)
(***************************************************************************)
EXTENDS Naturals, Functions, TLC

CONSTANTS a, b

\* One check for each stage.
SevenChecks == <<"c1", "c2", "c3", "c4", "c5", "c6", "c7">>
OneEach == [k \in Range(SevenChecks) |-> CHOOSE n \in 1..7 : SevenChecks[n] = k]
TreeOf == [c \in {"base", "x", "y"} |-> c]
WorkerIds == (a :> <<"a1", "a2">>) @@ (b :> <<"b1", "b2">>)

SmallLimits == "product" :> 1 @@ "test" :> 1 @@ "review" :> 1 @@ "hardening" :> 1
                 @@ "infrastructure" :> 1 @@ "integration" :> 1

Reported(d, k, f, c) == [disposition |-> d, kind |-> k, fingerprint |-> f, context |-> c]
Pass == Reported("PASS", "none", "none", "own")
Fail(f) == Reported("FAIL", "none", f, "own")
Interrupted == Reported("BLOCKED", "infrastructure", "execution-unavailable", "own")

\* Commands: one test may fail, which is found at F3 or at its replay; one check
\* may be interrupted.
RepairOutcomes ==
  [k \in Range(SevenChecks) |-> CASE k = "c3" -> {Pass, Fail("f")}
                    [] k = "c6" -> {Pass, Interrupted}
                    [] OTHER -> {Pass}]

\* Only the test may fail.
TestOutcomes == [k \in Range(SevenChecks) |-> IF k = "c3" THEN {Pass, Fail("f")} ELSE {Pass}]

\* Nothing fails.
PassOutcomes == [k \in Range(SevenChecks) |-> {Pass}]

\* The second check is made by a producer, which reports the one context it has, or
\* a worker's.
ProducerOutcomes ==
  [k \in Range(SevenChecks) |->
     IF k = "c2" THEN {Reported("PASS", "none", "none", c) : c \in {"e", "a1"}} ELSE {Pass}]

\* What may come out of a check in any of these cases.
AllOutcomes == [k \in Range(SevenChecks) |-> RepairOutcomes[k] \cup ProducerOutcomes[k]]
=============================================================================
