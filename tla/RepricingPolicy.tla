----------------------------- MODULE RepricingPolicy -----------------------------
(***************************************************************************)
(* The arithmetic of repricing.ts: what a policy says a card should sell   *)
(* for, and who decides about the move.  Money is cents and percentages    *)
(* are whole numbers; None is a column or a setting that is not there.  A  *)
(* card has one condition here, and a policy says something about it or    *)
(* about no condition at all.                                              *)
(***************************************************************************)
EXTENDS Integers

CONSTANT None

PolicyType ==
    [enabled: BOOLEAN, percent: (1..500) \cup {None}, rounding: {"none", "99"},
     floor: Nat \cup {None}, maxPct: Nat \cup {None}, maxUpPct: Nat \cup {None},
     maxDownPct: Nat \cup {None}, minDelta: Nat \cup {None}]

IsRepricingActive(policy) == policy.enabled /\ policy.percent # None

\* The nearest figure that ends in .99, ties upward; at least 99 cents.
RoundTo99(cents) ==
    LET below == (cents \div 100) * 100 - 1
        above == below + 100
    IN  IF below < 99 THEN 99
        ELSE IF cents - below < above - cents THEN below ELSE above

\* Math.round of a percentage of the market figure.
PercentOf(percent, market) == (market * percent + 50) \div 100

\* None where the policy has nothing to say, or says zero.
TargetPrice(policy, market) ==
    IF policy.percent = None \/ market = None THEN None
    ELSE LET cents == PercentOf(policy.percent, market)
             rounded == IF policy.rounding = "99" THEN RoundTo99(cents) ELSE cents
             target == IF policy.floor # None /\ rounded < policy.floor
                       THEN policy.floor ELSE rounded
         IN  IF market > 0 /\ target > 0 THEN target ELSE None

Fallback(own, shared) == IF own = None THEN shared ELSE own

\* The largest move applied without a human, in the direction of the move.
Limit(policy, current, target) ==
    IF target > current THEN Fallback(policy.maxUpPct, policy.maxPct)
                        ELSE Fallback(policy.maxDownPct, policy.maxPct)

Delta(current, target) == IF target > current THEN target - current ELSE current - target

WithinLimit(policy, current, target) ==
    LET limit == Limit(policy, current, target)
    IN  limit # None /\ Delta(current, target) * 100 <= limit * current

Unremarkable(policy, current, target) ==
    \/ Delta(current, target) = 0
    \/ policy.minDelta # None /\ Delta(current, target) < policy.minDelta

\* Mutant of ClassifyChange: one line for the limit of both directions.
ClassifyByMagnitude(policy, current, target) ==
    IF current = None \/ current <= 0 THEN "review"
    ELSE IF Unremarkable(policy, current, target) THEN "skip"
    ELSE LET limit == Fallback(policy.maxDownPct, policy.maxPct)
         IN  IF limit # None /\ Delta(current, target) * 100 <= limit * current
             THEN "auto" ELSE "review"

ClassifyChange(policy, current, target) ==
    IF current = None \/ current <= 0 THEN "review"
    ELSE IF Unremarkable(policy, current, target) THEN "skip"
    ELSE IF WithinLimit(policy, current, target) THEN "auto" ELSE "review"
===============================================================================
