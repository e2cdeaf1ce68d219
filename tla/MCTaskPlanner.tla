----------------------------- MODULE MCTaskPlanner -----------------------------
(* Instances of TaskPlanner for TLC. *)
EXTENDS TaskPlanner, TLC

CONSTANTS p1, p2, d1, d2, s1, s2

\* A plan of three steps and a goal.  The first step may be retried, the second may
\* not, the third needs a confirmation.
OneLength == p1 :> 3
OnePlanCalls == {<<p1, i, n>> : i \in 1..4, n \in 1..2}
OneConfirmed == {<<p1, 3, 1>>, <<p1, 3, 2>>}
OneRetryable == {<<p1, 1>>}

\* Another plan, of one ordinary step, contends with it.
MixLength == p1 :> 3 @@ p2 :> 1
MixCalls == OnePlanCalls \cup {<<p2, i, n>> : i \in 1..2, n \in 1..2}

\* Two plans: p1 waits for a confirmation at its first step of two, of which the second
\* may be retried, p2 has one step, ordinary or confirmed.
TwoLength == p1 :> 2 @@ p2 :> 1
TwoPlanCalls == {<<p1, i, n>> : i \in 1..3, n \in 1..2} \cup {<<p2, i, n>> : i \in 1..2, n \in 1..2}
TwoConfirmed == {<<p1, 1, 1>>, <<p1, 1, 2>>}
TwoRetryable == {<<p1, 2>>}
DecisionSymmetry == Permutations({d1, d2})
BothConfirmed == TwoConfirmed \cup {<<p2, 1, 1>>, <<p2, 1, 2>>}
================================================================================
