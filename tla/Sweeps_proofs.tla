------------------------------ MODULE Sweeps_proofs ------------------------------
(***************************************************************************)
(* Proofs about what MC_Sweeps puts side by side, for any sweeps, figures, *)
(* policies, flags and bounds.  Repricing: every price the hub writes was  *)
(* decided, by the limit of a policy or by a reviewer.  AlertFlags: few    *)
(* flags for one source, each mailed at its severity.  SelloutPolicy: a    *)
(* restocked listing is visible, and drafted and published by turns.       *)
(***************************************************************************)
EXTENDS MC_Sweeps, FiniteSetTheorems, SequenceTheorems, TLAPS

-------------------------------------------------------------------------------
(***************************************************************************)
(* Repricing: the arithmetic.                                              *)
(***************************************************************************)

\* A rounded price ends in .99 and is at least 99 cents.
LEMMA RoundTo99Ends ==
    ASSUME NEW cents \in Nat
    PROVE  /\ RoundTo99(cents) \in Nat
           /\ RoundTo99(cents) >= 99
           /\ \E n \in Nat : RoundTo99(cents) = 100 * n + 99
<1> DEFINE whole == cents \div 100
           below == whole * 100 - 1
<1>1. whole \in Nat /\ whole * 100 <= cents /\ cents < whole * 100 + 100
  OBVIOUS
<1>2. CASE below < 99
  <2>1. RoundTo99(cents) = 99
    BY <1>2 DEF RoundTo99
  <2> QED  BY <2>1
<1>3. CASE below >= 99 /\ cents - below < below + 100 - cents
  <2>1. RoundTo99(cents) = below
    BY <1>1, <1>3 DEF RoundTo99
  <2>2. whole - 1 \in Nat /\ below = 100 * (whole - 1) + 99
    BY <1>1, <1>3
  <2> QED  BY <2>1, <2>2, <1>3
<1>4. CASE below >= 99 /\ ~(cents - below < below + 100 - cents)
  <2>1. RoundTo99(cents) = below + 100
    BY <1>1, <1>4 DEF RoundTo99
  <2>2. below + 100 = 100 * whole + 99
    BY <1>1
  <2> QED  BY <2>1, <2>2, <1>1, <1>4
<1> QED  BY <1>1, <1>2, <1>3, <1>4

\* No other figure that ends in .99 is nearer to a price than the rounded one.
LEMMA RoundTo99IsClosest ==
    ASSUME NEW cents \in Nat, NEW n \in Nat
    PROVE  Delta(cents, RoundTo99(cents)) <= Delta(cents, 100 * n + 99)
<1> DEFINE whole == cents \div 100
           below == whole * 100 - 1
<1>1. whole \in Nat /\ whole * 100 <= cents /\ cents < whole * 100 + 100
  OBVIOUS
<1>2. CASE n >= whole
  <2>1. 100 * n + 99 >= whole * 100 + 99
    BY <1>1, <1>2
  <2> QED  BY <1>1, <2>1 DEF RoundTo99, Delta
<1>3. CASE n < whole
  <2>1. 100 * n + 99 <= below
    BY <1>1, <1>3
  <2> QED  BY <1>1, <2>1 DEF RoundTo99, Delta
<1> QED  BY <1>1, <1>2, <1>3

\* The rounded price ends in .99, is at least 99 cents, and is the nearest such figure to the
\* price, the higher one where two are as near (roundTo99).
THEOREM RoundTo99IsNearest ==
    ASSUME NEW cents \in Nat
    PROVE  /\ RoundTo99(cents) >= 99
           /\ \E n \in Nat : RoundTo99(cents) = 100 * n + 99
           /\ \A n \in Nat :
                 \/ Delta(cents, RoundTo99(cents)) < Delta(cents, 100 * n + 99)
                 \/ /\ Delta(cents, RoundTo99(cents)) = Delta(cents, 100 * n + 99)
                    /\ RoundTo99(cents) >= 100 * n + 99
<1> DEFINE whole == cents \div 100
           below == whole * 100 - 1
<1>1. whole \in Nat /\ whole * 100 <= cents /\ cents < whole * 100 + 100
  OBVIOUS
<1>2. ASSUME NEW n \in Nat,
             Delta(cents, RoundTo99(cents)) = Delta(cents, 100 * n + 99)
      PROVE  RoundTo99(cents) >= 100 * n + 99
  <2>1. CASE n >= whole
    <3>1. 100 * n + 99 >= whole * 100 + 99
      BY <1>1, <2>1
    <3> QED  BY <1>1, <1>2, <3>1 DEF RoundTo99, Delta
  <2>2. CASE n < whole
    <3>1. 100 * n + 99 <= below
      BY <1>1, <2>2
    <3> QED  BY <1>1, <1>2, <3>1 DEF RoundTo99, Delta
  <2> QED  BY <1>1, <2>1, <2>2
<1>3. ASSUME NEW n \in Nat
      PROVE  /\ Delta(cents, RoundTo99(cents)) \in Nat
             /\ Delta(cents, 100 * n + 99) \in Nat
             /\ Delta(cents, RoundTo99(cents)) <= Delta(cents, 100 * n + 99)
  <2>1. /\ RoundTo99(cents) \in Nat /\ 100 * n + 99 \in Nat
        /\ Delta(cents, RoundTo99(cents)) <= Delta(cents, 100 * n + 99)
    BY RoundTo99Ends, RoundTo99IsClosest
  <2>2. \A other \in Nat : Delta(cents, other) \in Nat
    BY DEF Delta
  <2> QED  BY <2>1, <2>2
<1>4. ASSUME NEW n \in Nat
      PROVE  \/ Delta(cents, RoundTo99(cents)) < Delta(cents, 100 * n + 99)
             \/ /\ Delta(cents, RoundTo99(cents)) = Delta(cents, 100 * n + 99)
                /\ RoundTo99(cents) >= 100 * n + 99
  BY <1>2, <1>3
<1> QED  BY <1>4, RoundTo99Ends

\* A price a policy asks for is a positive amount, never below the policy's floor.
THEOREM TargetPriceKeepsFloor ==
    ASSUME NEW given \in PolicyType, NEW figure \in Nat, None \notin Nat,
           TargetPrice(given, figure) # None
    PROVE  /\ TargetPrice(given, figure) \in Nat
           /\ TargetPrice(given, figure) > 0
           /\ given.floor # None => TargetPrice(given, figure) >= given.floor
<1> DEFINE cents == PercentOf(given.percent, figure)
           rounded == IF given.rounding = "99" THEN RoundTo99(cents) ELSE cents
           target == IF given.floor # None /\ rounded < given.floor
                     THEN given.floor ELSE rounded
<1>1. given.percent \in 1..500
  BY DEF TargetPrice, PolicyType
<1>2. given.floor \in Nat \/ given.floor = None
  BY DEF PolicyType
<1>3. figure # None
  OBVIOUS
<1>4. cents \in Nat
  <2>1. figure * given.percent \in Nat
    BY <1>1
  <2> QED  BY <2>1 DEF PercentOf
<1>5. rounded \in Nat
  BY <1>4, RoundTo99Ends
<1>6. TargetPrice(given, figure) = target /\ target > 0
  BY <1>1, <1>3 DEF TargetPrice
<1> HIDE DEF cents, rounded
<1> QED  BY <1>2, <1>5, <1>6

\* Nothing a policy asks for is anything but an amount or nothing.
LEMMA TargetPriceType ==
    ASSUME Parameters, NEW policyNow \in PolicyType, NEW marketNow \in Cents
    PROVE  TargetPrice(policyNow, marketNow) \in Cents
<1>1. CASE marketNow = None
  BY <1>1 DEF TargetPrice, Cents
<1>2. CASE marketNow \in Nat
  BY <1>2, TargetPriceKeepsFloor DEF Parameters, Cents
<1> QED  BY <1>1, <1>2 DEF Cents

-------------------------------------------------------------------------------
(***************************************************************************)
(* The inductive invariant.                                                *)
(***************************************************************************)

\* A sweep at the market, or about to write, works from the price there is or is marked;
\* what it is about to write, a policy of the operator's allows from the price it loaded.
SweepsAreAllowed ==
    \A s \in Sweep :
        /\ sweep[s].step \in {"fetch", "auto"} => sweep[s].edited \/ sweep[s].base = price
        /\ sweep[s].step = "auto" =>
              /\ sweep[s].base # None
              /\ \E p \in Policy :
                    p.enabled /\ WithinLimit(p, sweep[s].base, sweep[s].target)

\* A reviewer whose row is still there decides about the figure it has.
RowIsAsSeen ==
    review.live /\ review.step = "listed" => proposal = review.seen \/ "refreshed" \in lapse

IInv == TypeOK /\ policy \in Policy /\ SweepsAreAllowed /\ RowIsAsSeen /\ AppliedAsReviewed

LEMMA InitEstablishes ==
    ASSUME Parameters, Init PROVE IInv
<1> USE DEF Parameters
<1>1. TypeOK
  <2>1. market \in Cents /\ price \in Cents /\ shown \in Cents /\ proposal \in Cents
    BY DEF Init, Cents
  <2>2. policy \in PolicyType
    BY DEF Init
  <2>3. sweep \in [Sweep -> [step: {"idle", "fetch", "drop", "auto", "push", "review"},
                            base: Cents, target: Cents, edited: BOOLEAN]]
    BY DEF Init, Cents, Resting
  <2>4. review \in [step: {"idle", "listed", "write", "push", "clear"}, seen: Cents,
                    live: BOOLEAN, price: Cents]
    BY DEF Init, Cents, Away
  <2>5. used \in [changes: 0..MaxChanges, reviews: 0..MaxReviews, mishaps: 0..MaxMishaps]
    BY DEF Init
  <2>6. /\ push \in [job: {"none", "waiting", "active", "failed"}, sent: Cents]
        /\ lapse \subseteq {"refreshed"} \cup Missed
    BY DEF Init, Cents
  <2> QED  BY <2>1, <2>2, <2>3, <2>4, <2>5, <2>6 DEF TypeOK
<1>2. SweepsAreAllowed
  BY DEF Init, SweepsAreAllowed, Resting
<1>3. policy \in Policy /\ RowIsAsSeen /\ AppliedAsReviewed
  BY DEF Init, RowIsAsSeen, AppliedAsReviewed, Away
<1> QED  BY <1>1, <1>2, <1>3 DEF IInv

\* The move a sweep classifies as automatic is within the limit of its direction.
LEMMA AutoIsWithinLimit ==
    ASSUME NEW p, NEW current, NEW target, ClassifyChange(p, current, target) = "auto"
    PROVE  current # None /\ WithinLimit(p, current, target)
BY DEF ClassifyChange

LEMMA ActionIsAClass ==
    ASSUME NEW s \in Sweep
    PROVE  Action(s) = ClassifyChange(policy, sweep[s].base, TargetPrice(policy, market))
<1>1. ClassifyChange(policy, sweep[s].base, TargetPrice(policy, market))
        \in {"skip", "auto", "review"}
  BY DEF ClassifyChange
<1> QED  BY <1>1 DEF Action

-------------------------------------------------------------------------------
(***************************************************************************)
(* Every step preserves the types.                                         *)
(***************************************************************************)
SweepType == [step: {"idle", "fetch", "drop", "auto", "push", "review"},
              base: Cents, target: Cents, edited: BOOLEAN]
ReviewType == [step: {"idle", "listed", "write", "push", "clear"}, seen: Cents,
               live: BOOLEAN, price: Cents]
PushType == [job: {"none", "waiting", "active", "failed"}, sent: Cents]
Lapses == {"refreshed"} \cup Missed
UsedType == [changes: 0..MaxChanges, reviews: 0..MaxReviews, mishaps: 0..MaxMishaps]

LEMMA UseType ==
    ASSUME Parameters, used \in UsedType,
           NEW what \in {"changes", "reviews", "mishaps"},
           used' = [used EXCEPT ![what] = @ + 1],
           \/ what = "changes" /\ used.changes < MaxChanges
           \/ what = "reviews" /\ used.reviews < MaxReviews
           \/ what = "mishaps" /\ used.mishaps < MaxMishaps
    PROVE  used' \in UsedType
BY DEF Parameters, UsedType

LEMMA SetPriceType ==
    ASSUME sweep \in [Sweep -> SweepType], price \in Cents,
           NEW cents \in Cents, NEW by, SetPrice(cents, by)
    PROVE  price' \in Cents /\ sweep' \in [Sweep -> SweepType]
<1>1. price' \in Cents
  BY DEF SetPrice
<1>2. ASSUME NEW s \in Sweep
      PROVE  /\ [sweep[s] EXCEPT !.step = "push"] \in SweepType
             /\ [sweep[s] EXCEPT !.edited = TRUE] \in SweepType
             /\ sweep[s] \in SweepType
  BY DEF SweepType
<1>3. sweep' \in [Sweep -> SweepType]
  BY <1>2, Zenon DEF SetPrice
<1> QED  BY <1>1, <1>3

LEMMA TypePreserved ==
    ASSUME Parameters, TypeOK, [Next]_vars
    PROVE  TypeOK'
<1> USE DEF Parameters
<1>t. /\ market \in Cents /\ price \in Cents /\ shown \in Cents /\ proposal \in Cents
      /\ policy \in PolicyType /\ sweep \in [Sweep -> SweepType] /\ review \in ReviewType
      /\ push \in PushType /\ used \in UsedType /\ lapse \subseteq Lapses
  BY DEF TypeOK, SweepType, ReviewType, UsedType, PushType, Lapses
<1> SUFFICES /\ market' \in Cents /\ price' \in Cents /\ shown' \in Cents /\ proposal' \in Cents
             /\ policy' \in PolicyType /\ sweep' \in [Sweep -> SweepType]
             /\ review' \in ReviewType /\ push' \in PushType /\ used' \in UsedType
             /\ lapse' \subseteq Lapses
  BY DEF TypeOK, SweepType, ReviewType, UsedType, PushType, Lapses
<1>f. Figure \subseteq Cents /\ None \in Cents
  BY DEF Cents
<1>a. Away \in ReviewType /\ Resting \in SweepType
  BY DEF Away, Resting, ReviewType, SweepType, Cents
<1>q. ASSUME NEW cents, Enqueue(cents) PROVE push' \in PushType /\ lapse' \subseteq Lapses
  <2>1. push' = push \/ push' = [push EXCEPT !.job = "waiting"]
    BY <1>q, <1>t DEF Enqueue, PushType
  <2>2. push' \in PushType
    BY <1>t, <2>1 DEF PushType
  <2>3. lapse' \subseteq Lapses
    BY <1>q, <1>t DEF Enqueue, Lapses, Missed
  <2> QED  BY <2>2, <2>3
<1>1. CASE MoveMarket
  <2>1. used' \in UsedType
    BY <1>1, <1>t, UseType DEF MoveMarket, Use
  <2> QED  BY <1>1, <1>t, <1>f, <2>1 DEF MoveMarket
<1>2. CASE SavePolicy
  <2>1. used' \in UsedType
    BY <1>2, <1>t, UseType DEF SavePolicy, Use
  <2> QED  BY <1>2, <1>t, <2>1 DEF SavePolicy
<1>3. CASE EditPrice
  <2>1. used' \in UsedType
    BY <1>3, <1>t, UseType DEF EditPrice, Use
  <2>2. price' \in Cents /\ sweep' \in [Sweep -> SweepType]
    BY <1>3, <1>t, <1>f, SetPriceType DEF EditPrice
  <2>3. push' \in PushType /\ lapse' \subseteq Lapses
    BY <1>3, <1>t, <1>q DEF EditPrice
  <2> QED  BY <1>3, <1>t, <2>1, <2>2, <2>3 DEF EditPrice
<1>4. CASE Push
  <2>1. CASE StartPush
    BY <2>1, <1>t DEF StartPush, PushType, Lapses
  <2>2. CASE FinishPush
    BY <2>2, <1>t, <1>f DEF FinishPush, PushType
  <2> QED  BY <1>4, <2>1, <2>2 DEF Push
<1>5. ASSUME NEW s \in Sweep, SweepNext(s) PROVE TypeOK'
  <2> SUFFICES /\ market' \in Cents /\ price' \in Cents /\ shown' \in Cents
               /\ proposal' \in Cents /\ policy' \in PolicyType
               /\ sweep' \in [Sweep -> SweepType] /\ review' \in ReviewType
               /\ push' \in PushType /\ used' \in UsedType
               /\ lapse' \subseteq Lapses
    BY DEF TypeOK, SweepType, ReviewType, UsedType, PushType, Lapses
  <2>1. CASE Load(s)
    <3>1. [Resting EXCEPT !.step = "fetch", !.base = price] \in SweepType
      BY <1>t, <1>f DEF Resting, SweepType
    <3> QED  BY <2>1, <3>1, <1>t DEF Load
  <2>2. CASE Fetch(s)
    <3>1. TargetPrice(policy, market) \in Cents
      BY <1>t, TargetPriceType
    <3>2. Action(s) \in {"skip", "auto", "review"}
      BY ActionIsAClass DEF ClassifyChange
    <3>3. \E task \in SweepType : sweep' = [sweep EXCEPT ![s] = task]
      <4>1. CASE ~IsRepricingActive(policy)
        BY <4>1, <2>2, <1>a DEF Fetch
      <4>2. CASE IsRepricingActive(policy) /\ TargetPrice(policy, market) = None
        <5>1. [sweep[s] EXCEPT !.step = "drop"] \in SweepType
          BY <1>t DEF SweepType
        <5> QED  BY <4>2, <2>2, <5>1, <1>t DEF Fetch
      <4>3. CASE IsRepricingActive(policy) /\ TargetPrice(policy, market) # None
        <5> DEFINE step == IF Action(s) = "skip" THEN "drop" ELSE Action(s)
                   task == [sweep[s] EXCEPT !.target = TargetPrice(policy, market),
                                           !.step = step]
        <5>1. step \in {"drop", "auto", "review"}
          BY <3>2
        <5>2. sweep' = [sweep EXCEPT ![s] = task]
          BY <4>3, <2>2, <1>t DEF Fetch
        <5> HIDE DEF step
        <5>3. task \in SweepType
          BY <5>1, <3>1, <1>t DEF SweepType
        <5> QED  BY <5>2, <5>3
      <4> QED  BY <4>1, <4>2, <4>3
    <3> QED  BY <2>2, <3>3, <1>t DEF Fetch
  <2>3. CASE AutoApply(s)
    <3>1. sweep[s].target \in Cents
      BY <1>t DEF SweepType
    <3>2. price' \in Cents /\ sweep' \in [Sweep -> SweepType]
      BY <2>3, <3>1, <1>t, SetPriceType DEF AutoApply
    <3> QED  BY <2>3, <3>2, <1>t DEF AutoApply
  <2>4. CASE QueuePush(s)
    <3>1. [sweep[s] EXCEPT !.step = "drop"] \in SweepType
      BY <1>t DEF SweepType
    <3> QED  BY <2>4, <3>1, <1>t, <1>q DEF QueuePush, Goto
  <2>5. CASE Drop(s)
    <3>1. [review EXCEPT !.live = FALSE] \in ReviewType
      BY <1>t DEF ReviewType
    <3> QED  BY <2>5, <3>1, <1>a, <1>f, <1>t DEF Drop, DropProposal
  <2>6. CASE Propose(s)
    <3>1. sweep[s].target \in Cents
      BY <1>t DEF SweepType
    <3>2. lapse' \subseteq Lapses
      BY <2>6, <1>t DEF Propose, Lapses
    <3> QED  BY <2>6, <3>1, <3>2, <1>a, <1>t DEF Propose
  <2> QED  BY <1>5, <2>1, <2>2, <2>3, <2>4, <2>5, <2>6 DEF SweepNext
<1>6. CASE List
  <2>1. used' \in UsedType
    BY <1>6, <1>t, UseType DEF List, Use
  <2>2. review' \in ReviewType
    BY <1>6, <1>t, <1>f DEF List, Away, ReviewType
  <2> QED  BY <1>6, <1>t, <2>1, <2>2 DEF List
<1>7. CASE Apply
  <2>1. review' \in ReviewType
    BY <1>7, <1>t, <1>a DEF Apply, ReviewType
  <2> QED  BY <1>7, <1>t, <2>1 DEF Apply
<1>8. CASE Dismiss
  BY <1>8, <1>t, <1>a, <1>f DEF Dismiss
<1>9. CASE WriteReviewed
  <2>1. review' \in ReviewType
    BY <1>9, <1>t DEF WriteReviewed, ReviewType
  <2>2. price' \in Cents /\ sweep' \in [Sweep -> SweepType]
    <3>1. review.price \in Cents
      BY <1>t DEF ReviewType
    <3> QED  BY <1>9, <1>t, <3>1, SetPriceType DEF WriteReviewed
  <2> QED  BY <1>9, <1>t, <2>1, <2>2 DEF WriteReviewed
<1>10. CASE PushReviewed
  <2>1. review' \in ReviewType
    BY <1>10, <1>t DEF PushReviewed, ReviewType
  <2> QED  BY <1>10, <1>t, <1>q, <2>1 DEF PushReviewed
<1>11. CASE ClearReviewed
  BY <1>11, <1>t, <1>a, <1>f DEF ClearReviewed
<1>12. CASE Die
  <2>1. used' \in UsedType
    BY <1>12, <1>t, UseType DEF Die, Use
  <2>2. sweep' \in [Sweep -> SweepType] /\ review' \in ReviewType
    BY <1>12, <1>t, <1>a DEF Die
  <2>3. lapse' \subseteq Lapses
    BY <1>12, <1>t DEF Die, Lapses, Missed
  <2> QED  BY <1>12, <1>t, <2>1, <2>2, <2>3 DEF Die
<1>13. CASE UNCHANGED vars
  BY <1>13, <1>t DEF vars
<1>15. CASE FailPush
  <2>1. used' \in UsedType
    BY <1>15, <1>t, UseType DEF FailPush, Use
  <2>2. shown' \in Cents /\ push' \in PushType
    BY <1>15, <1>t, <1>f DEF FailPush, PushType
  <2>3. lapse' \subseteq Lapses
    BY <1>15, <1>t DEF FailPush, Lapses, Missed
  <2> QED  BY <1>15, <1>t, <2>1, <2>2, <2>3 DEF FailPush
<1>16. CASE SkipPush
  <2>1. used' \in UsedType
    BY <1>16, <1>t, UseType DEF SkipPush, Use
  <2>2. push' \in PushType /\ lapse' \subseteq Lapses
    BY <1>16, <1>t DEF SkipPush, PushType, Lapses, Missed
  <2> QED  BY <1>16, <1>t, <2>1, <2>2 DEF SkipPush
<1>17. CASE Expire
  BY <1>17, <1>t DEF Expire, PushType
<1>14. TypeOK'
  BY <1>1, <1>2, <1>3, <1>4, <1>5, <1>6, <1>7, <1>8, <1>9, <1>10, <1>11, <1>12, <1>13,
     <1>15, <1>16, <1>17
     DEF Next, ReviewNext, TypeOK, SweepType, ReviewType, UsedType, PushType, Lapses
<1> QED  BY <1>14 DEF TypeOK, SweepType, ReviewType, UsedType, PushType, Lapses

-------------------------------------------------------------------------------
(***************************************************************************)
(* Every step preserves what sweeps and reviewers may decide.              *)
(***************************************************************************)

\* The limit a sweep passed is one it passed for good: policies that were saved stay in
\* the set of those an operator had.
AllowedJob(task, current) ==
    /\ task.step \in {"fetch", "auto"} => task.edited \/ task.base = current
    /\ task.step = "auto" =>
          /\ task.base # None
          /\ \E p \in Policy : p.enabled /\ WithinLimit(p, task.base, task.target)

\* A write of the price marks every sweep at work, or writes what is there.
LEMMA SetPriceKeepsAllowed ==
    ASSUME TypeOK, \A s \in Sweep : AllowedJob(sweep[s], price),
           NEW cents \in Cents, NEW by, SetPrice(cents, by)
    PROVE  \A s \in Sweep : AllowedJob(sweep'[s], price')
<1> SUFFICES ASSUME NEW s \in Sweep PROVE AllowedJob(sweep'[s], price')
  OBVIOUS
<1>t. sweep \in [Sweep -> SweepType] /\ sweep[s] \in SweepType
  BY DEF TypeOK, SweepType
<1>1. CASE s = by
  <2>1. sweep'[s] = [sweep[s] EXCEPT !.step = "push"]
    BY <1>1 DEF SetPrice
  <2>2. sweep'[s].step = "push"
    BY <2>1, <1>t DEF SweepType
  <2> QED  BY <2>2 DEF AllowedJob
<1>2. CASE s # by /\ (sweep[s].step = "idle" \/ cents = price)
  <2>1. sweep'[s] = sweep[s] /\ price' = cents
    BY <1>2 DEF SetPrice
  <2> QED  BY <1>2, <2>1 DEF AllowedJob
<1>3. CASE s # by /\ ~(sweep[s].step = "idle" \/ cents = price)
  <2>1. sweep'[s] = [sweep[s] EXCEPT !.edited = TRUE]
    BY <1>3 DEF SetPrice
  <2>2. /\ sweep'[s].step = sweep[s].step /\ sweep'[s].base = sweep[s].base
        /\ sweep'[s].target = sweep[s].target /\ sweep'[s].edited
    BY <2>1, <1>t DEF SweepType
  <2> QED  BY <2>2 DEF AllowedJob
<1> QED  BY <1>1, <1>2, <1>3

LEMMA AllowedPreserved ==
    ASSUME Parameters, IInv, [Next]_vars
    PROVE  SweepsAreAllowed'
<1>i. /\ TypeOK /\ policy \in Policy
      /\ \A s \in Sweep : AllowedJob(sweep[s], price)
  BY DEF IInv, SweepsAreAllowed, AllowedJob
<1>t. sweep \in [Sweep -> SweepType] /\ price \in Cents
  BY <1>i DEF TypeOK, SweepType
<1> SUFFICES \A s \in Sweep : AllowedJob(sweep'[s], price')
  BY DEF SweepsAreAllowed, AllowedJob
<1>r. \A current : AllowedJob(Resting, current)
  BY DEF AllowedJob, Resting
<1>1. CASE UNCHANGED <<price, sweep>>
  BY <1>1, <1>i
<1>2. CASE EditPrice
  <2>1. PICK cents \in Figure : SetPrice(cents, None)
    BY <1>2 DEF EditPrice
  <2>2. cents \in Cents
    BY DEF Parameters, Cents
  <2> QED  BY <1>i, <2>1, <2>2, SetPriceKeepsAllowed
<1>3. CASE WriteReviewed
  <2>1. review.price \in Cents /\ SetPrice(review.price, None)
    BY <1>3, <1>i DEF WriteReviewed, TypeOK
  <2> QED  BY <1>i, <2>1, SetPriceKeepsAllowed
<1>4. ASSUME NEW s \in Sweep, AutoApply(s)
      PROVE  \A q \in Sweep : AllowedJob(sweep'[q], price')
  <2>1. sweep[s].target \in Cents /\ SetPrice(sweep[s].target, s)
    BY <1>4, <1>t DEF AutoApply, SweepType
  <2> QED  BY <1>i, <2>1, SetPriceKeepsAllowed
<1>5. ASSUME NEW s \in Sweep, NEW task, AllowedJob(task, price),
             sweep' = [sweep EXCEPT ![s] = task], price' = price
      PROVE  \A q \in Sweep : AllowedJob(sweep'[q], price')
  BY <1>5, <1>i, <1>t
<1>6. ASSUME NEW s \in Sweep, Load(s)
      PROVE  \A q \in Sweep : AllowedJob(sweep'[q], price')
  <2>1. AllowedJob([Resting EXCEPT !.step = "fetch", !.base = price], price)
    BY DEF AllowedJob, Resting
  <2> QED  BY <1>5, <1>6, <2>1 DEF Load
<1>7. ASSUME NEW s \in Sweep, Fetch(s)
      PROVE  \A q \in Sweep : AllowedJob(sweep'[q], price')
  <2> DEFINE target == TargetPrice(policy, market)
             step == IF Action(s) = "skip" THEN "drop" ELSE Action(s)
  <2>s. sweep[s] \in SweepType /\ sweep[s].step = "fetch" /\ AllowedJob(sweep[s], price)
    BY <1>7, <1>i, <1>t DEF Fetch
  <2>1. CASE ~IsRepricingActive(policy)
    <3>1. sweep' = [sweep EXCEPT ![s] = Resting]
      BY <2>1, <1>7 DEF Fetch
    <3> QED  BY <1>5, <1>7, <3>1, <1>r DEF Fetch
  <2>2. CASE IsRepricingActive(policy) /\ target = None
    <3>1. sweep' = [sweep EXCEPT ![s] = [sweep[s] EXCEPT !.step = "drop"]]
      BY <2>2, <1>7, <1>t DEF Fetch
    <3>2. AllowedJob([sweep[s] EXCEPT !.step = "drop"], price)
      BY <2>s DEF AllowedJob, SweepType
    <3> QED  BY <1>5, <1>7, <3>1, <3>2 DEF Fetch
  <2>3. CASE IsRepricingActive(policy) /\ target # None
    <3> DEFINE task == [sweep[s] EXCEPT !.target = target, !.step = step]
    <3>1. sweep' = [sweep EXCEPT ![s] = task]
      BY <2>3, <1>7, <1>t DEF Fetch
    <3>2. /\ task.step = step /\ task.base = sweep[s].base /\ task.target = target
          /\ task.edited = sweep[s].edited
      BY <2>s DEF SweepType
    <3>3. task.edited \/ task.base = price
      BY <3>2, <2>s DEF AllowedJob
    <3>4. ASSUME step = "auto"
          PROVE  /\ sweep[s].base # None
                 /\ \E p \in Policy : p.enabled /\ WithinLimit(p, sweep[s].base, target)
      <4>1. ClassifyChange(policy, sweep[s].base, target) = "auto"
        BY <3>4, ActionIsAClass
      <4>2. sweep[s].base # None /\ WithinLimit(policy, sweep[s].base, target)
        BY <4>1, AutoIsWithinLimit
      <4> QED  BY <4>2, <2>3, <1>i DEF IsRepricingActive
    <3> HIDE DEF task, target, step
    <3>5. AllowedJob(task, price)
      BY <3>2, <3>3, <3>4 DEF AllowedJob
    <3> QED  BY <1>5, <1>7, <3>1, <3>5 DEF Fetch
  <2> QED  BY <2>1, <2>2, <2>3
<1>8. ASSUME NEW s \in Sweep, QueuePush(s)
      PROVE  \A q \in Sweep : AllowedJob(sweep'[q], price')
  <2>1. AllowedJob([sweep[s] EXCEPT !.step = "drop"], price)
    BY <1>t DEF AllowedJob, SweepType
  <2>2. sweep' = [sweep EXCEPT ![s] = [sweep[s] EXCEPT !.step = "drop"]]
    BY <1>8, <1>t DEF QueuePush, Goto
  <2> QED  BY <1>5, <1>8, <2>1, <2>2 DEF QueuePush
<1>9. ASSUME NEW s \in Sweep, Drop(s) \/ Propose(s)
      PROVE  \A q \in Sweep : AllowedJob(sweep'[q], price')
  BY <1>5, <1>9, <1>r DEF Drop, Propose
<1>10. CASE Die
  <2>1. CASE UNCHANGED sweep
    BY <1>10, <2>1, <1>i DEF Die
  <2>2. ASSUME NEW s \in Sweep, sweep' = [sweep EXCEPT ![s] = Resting]
        PROVE  \A q \in Sweep : AllowedJob(sweep'[q], price')
    BY <1>5, <1>10, <1>r, <2>2 DEF Die
  <2> QED  BY <1>10, <2>1, <2>2 DEF Die
<1>11. MoveMarket \/ SavePolicy \/ Push \/ FailPush \/ SkipPush \/ Expire \/ List \/ Apply \/ Dismiss \/ PushReviewed
          \/ ClearReviewed \/ UNCHANGED vars => UNCHANGED <<price, sweep>>
  BY DEF MoveMarket, SavePolicy, Push, StartPush, FinishPush, FailPush, SkipPush, Expire, List,
     Apply, Dismiss, PushReviewed, ClearReviewed, vars
<1> QED
  BY <1>1, <1>2, <1>3, <1>4, <1>6, <1>7, <1>8, <1>9, <1>10, <1>11
     DEF Next, ReviewNext, SweepNext

\* What a reviewer carries out is what they saw, up to a refresh that is on record.
LEMMA ReviewPreserved ==
    ASSUME Parameters, IInv, [Next]_vars
    PROVE  RowIsAsSeen' /\ AppliedAsReviewed'
<1>i. TypeOK /\ RowIsAsSeen /\ AppliedAsReviewed
  BY DEF IInv
<1>t. review \in ReviewType
  BY <1>i DEF TypeOK, ReviewType
<1> DEFINE Kept == "refreshed" \in lapse => "refreshed" \in lapse'
<1>1. CASE UNCHANGED <<review, proposal>> /\ Kept
  BY <1>1, <1>i DEF RowIsAsSeen, AppliedAsReviewed
<1>2. CASE review' = Away
  BY <1>2 DEF Away, RowIsAsSeen, AppliedAsReviewed
<1>3. ASSUME NEW s \in Sweep, Propose(s)
      PROVE  RowIsAsSeen' /\ AppliedAsReviewed'
  <2>1. review' = review /\ lapse \subseteq lapse'
    BY <1>3 DEF Propose
  <2>2. review.live => proposal' = proposal \/ "refreshed" \in lapse'
    BY <1>3 DEF Propose
  <2> QED  BY <1>i, <2>1, <2>2 DEF RowIsAsSeen, AppliedAsReviewed
<1>4. ASSUME NEW s \in Sweep, Drop(s)
      PROVE  RowIsAsSeen' /\ AppliedAsReviewed'
  <2>1. review' = [review EXCEPT !.live = FALSE] /\ lapse' = lapse
    BY <1>4 DEF Drop, DropProposal
  <2>2. /\ ~review'.live /\ review'.step = review.step /\ review'.price = review.price
        /\ review'.seen = review.seen
    BY <2>1, <1>t DEF ReviewType
  <2> QED  BY <1>i, <2>1, <2>2 DEF RowIsAsSeen, AppliedAsReviewed
<1>5. CASE List
  <2>1. review' = [Away EXCEPT !.step = "listed", !.seen = proposal, !.live = TRUE]
          /\ proposal' = proposal
    BY <1>5 DEF List
  <2> QED  BY <2>1 DEF Away, RowIsAsSeen, AppliedAsReviewed
<1>6. CASE Apply
  <2>1. CASE review.live
    <3>1. /\ review' = [review EXCEPT !.step = "write", !.price = proposal]
          /\ lapse' = lapse
      BY <1>6, <2>1 DEF Apply
    <3>2. /\ review'.step = "write" /\ review'.price = proposal /\ review'.seen = review.seen
      BY <3>1, <1>t DEF ReviewType
    <3>3. proposal = review.seen \/ "refreshed" \in lapse
      BY <1>6, <2>1, <1>i DEF Apply, RowIsAsSeen
    <3> QED  BY <3>1, <3>2, <3>3 DEF RowIsAsSeen, AppliedAsReviewed
  <2>2. CASE ~review.live
    BY <1>2, <1>6, <2>2 DEF Apply
  <2> QED  BY <2>1, <2>2
<1>7. CASE WriteReviewed \/ PushReviewed
  <2>1. /\ review.step \in {"write", "push"} /\ Kept
        /\ \E step \in {"push", "clear"} : review' = [review EXCEPT !.step = step]
    BY <1>7 DEF WriteReviewed, PushReviewed, Enqueue
  <2>2. /\ review'.step \in {"push", "clear"} /\ review'.price = review.price
        /\ review'.seen = review.seen
    BY <2>1, <1>t DEF ReviewType
  <2> QED  BY <1>i, <2>1, <2>2 DEF RowIsAsSeen, AppliedAsReviewed
<1>8. ClearReviewed \/ Dismiss => review' = Away
  BY DEF ClearReviewed, Dismiss
<1>9. CASE Die
  <2>1. review' = Away \/ (UNCHANGED <<review, proposal>> /\ Kept)
    BY <1>9 DEF Die
  <2> QED  BY <2>1, <1>1, <1>2
<1>10. ASSUME \/ MoveMarket \/ SavePolicy \/ EditPrice \/ Push \/ UNCHANGED vars
              \/ FailPush \/ SkipPush \/ Expire
              \/ \E s \in Sweep : Load(s) \/ Fetch(s) \/ AutoApply(s) \/ QueuePush(s)
       PROVE  UNCHANGED <<review, proposal>> /\ Kept
  BY <1>10
     DEF MoveMarket, SavePolicy, EditPrice, Enqueue, Push, StartPush, FinishPush, FailPush,
     SkipPush, Expire, Load, Fetch, AutoApply, QueuePush, vars
<1> QED
  BY <1>1, <1>2, <1>3, <1>4, <1>5, <1>6, <1>7, <1>8, <1>9, <1>10
     DEF Next, ReviewNext, SweepNext

LEMMA PolicyPreserved ==
    ASSUME IInv, [Next]_vars PROVE policy' \in Policy
<1>1. policy \in Policy
  BY DEF IInv
<1>2. SavePolicy \/ policy' = policy
  BY DEF Next, ReviewNext, SweepNext, MoveMarket, EditPrice, Push, StartPush, FinishPush,
     FailPush, SkipPush, Expire, Load, Fetch, AutoApply, QueuePush, Drop, Propose, List, Apply, Dismiss, WriteReviewed, PushReviewed,
     ClearReviewed, Die, vars
<1> QED  BY <1>1, <1>2 DEF SavePolicy

LEMMA StepPreserves ==
    ASSUME Parameters, IInv, [Next]_vars PROVE IInv'
<1>1. TypeOK'
  BY TypePreserved DEF IInv
<1> QED  BY <1>1, PolicyPreserved, AllowedPreserved, ReviewPreserved DEF IInv

\* What a sweep writes it may write.
LEMMA AutomaticIsSmall ==
    ASSUME Parameters, IInv, [Next]_vars, NEW s \in Sweep,
           sweep[s].step = "auto", price' # price, sweep'[s].step = "push"
    PROVE  \/ sweep[s].edited
           \/ \E p \in Policy : price # None /\ p.enabled /\ WithinLimit(p, price, price')
<1>i. TypeOK /\ SweepsAreAllowed
  BY DEF IInv
<1>t. sweep \in [Sweep -> SweepType] /\ sweep[s] \in SweepType
  BY <1>i DEF TypeOK, SweepType
<1>n. s # None
  BY DEF Parameters
<1>1. ASSUME NEW cents, NEW by, SetPrice(cents, by), s # by PROVE FALSE
  <2>1. sweep'[s] = sweep[s] \/ sweep'[s] = [sweep[s] EXCEPT !.edited = TRUE]
    BY <1>1 DEF SetPrice
  <2>2. sweep'[s].step = sweep[s].step
    BY <2>1, <1>t DEF SweepType
  <2> QED  BY <2>2
<1>2. ~EditPrice /\ ~WriteReviewed
  BY <1>1, <1>n DEF EditPrice, WriteReviewed
<1>3. \E q \in Sweep : AutoApply(q)
  BY <1>2 DEF Next, ReviewNext, SweepNext, MoveMarket, SavePolicy, Push, StartPush,
     FinishPush, FailPush, SkipPush, Expire, Load, Fetch, QueuePush, Drop, Propose, List, Apply, Dismiss, PushReviewed, ClearReviewed, Die, vars
<1>4. AutoApply(s)
  BY <1>1, <1>3 DEF AutoApply
<1>5. price' = sweep[s].target
  BY <1>4 DEF AutoApply, SetPrice
<1> QED  BY <1>i, <1>5 DEF SweepsAreAllowed

-------------------------------------------------------------------------------
\* The types, and what sweeps and reviewers may decide, hold in every reachable state.
THEOREM IInvInvariant ==
    ASSUME Parameters PROVE Spec => []IInv
<1>1. Init => IInv
  BY InitEstablishes
<1>2. IInv /\ [Next]_vars => IInv'
  BY StepPreserves
<1> QED  BY <1>1, <1>2, PTL DEF Spec

\* Every variable of the repricing of an allocation has its type.
THEOREM TypeCorrect ==
    ASSUME Parameters PROVE Spec => []TypeOK
<1>1. IInv => TypeOK
  BY DEF IInv
<1> QED  BY <1>1, IInvInvariant, PTL

\* Every price the hub writes was decided: by the limit of a policy the operator had, in
\* the direction of the move, or by a reviewer who saw the figure.
THEOREM Decided ==
    ASSUME Parameters PROVE Spec => PricesAreDecided
<1>1. IInv => AppliedAsReviewed
  BY DEF IInv
<1>2. IInv /\ [Next]_vars =>
        [\A s \in Sweep :
            sweep[s].step = "auto" /\ price' # price /\ sweep'[s].step = "push" =>
                \/ sweep[s].edited
                \/ \E p \in Policy : price # None /\ p.enabled
                                        /\ WithinLimit(p, price, price')]_vars
  BY AutomaticIsSmall
<1> QED  BY <1>1, <1>2, IInvInvariant, PTL
            DEF Spec, PricesAreDecided, OnlySmallMovesAreAutomatic

-------------------------------------------------------------------------------
(***************************************************************************)
(* AlertFlags: the flags.                                                  *)
(***************************************************************************)
AlertType == [source: Source, status: Alf!Status, severity: Alf!Severity]
ReporterType(rows) ==
    [step: {"idle", "find", "write", "mail"}, verb: {"raise", "clear", Null},
     severity: Alf!Severity \cup {Null}, found: rows \cup {Null},
     seen: Alf!Severity \cup {Null}]
BudgetType == [changes: 0..MaxChanges, clicks: 0..MaxMishaps, crashes: 0..MaxMishaps]

\* A row was mailed about at a severity no less urgent, or the mail is on its way or lost.
Reported(a, severity) ==
    \/ \E mail \in mailed : mail[1] = a /\ Alf!Rank[mail[2]] <= Alf!Rank[severity]
    \/ a \in unmailed
    \/ \E w \in Alf!Worker : /\ reporter[w].step = "mail" /\ reporter[w].found = a
                             /\ Alf!Rank[reporter[w].severity] <= Alf!Rank[severity]

\* What a caller carries: who is to write over a row has seen a severity it was reported at.
ReportFits(task) ==
    /\ task.step # "idle" => task.verb # Null
    /\ task.verb = "raise" => task.severity \in Alf!Severity
    /\ task.step = "write" /\ task.verb = "clear" => task.found \in Alf!Row
    /\ task.step = "write" /\ task.verb = "raise" /\ task.found # Null =>
          task.seen \in Alf!Severity /\ Reported(task.found, task.seen)
    /\ task.step = "mail" => task.verb = "raise" /\ task.found \in Alf!Row

ReportsFit == \A w \in Alf!Worker : ReportFits(reporter[w])

\* Callers that found no open row of the source, and are to create one.
Creating(s) ==
    {w \in Alf!Worker : w[1] = s /\ reporter[w].step = "write" /\ reporter[w].verb = "raise"
                             /\ reporter[w].found = Null}
Callers(s) == {w \in Alf!Worker : w[1] = s}

\* There is a caller, or a click, for every open row and for every one about to be created.
FewOpen ==
    \A s \in Source :
        Cardinality(Alf!Open(s)) + Cardinality(Creating(s))
            <= Cardinality(Callers(s)) + budget.clicks

FlagsIInv == Alf!TypeOK /\ ReportsFit /\ Alf!SeverityIsMailed /\ FewOpen

LEMMA SeverityIsReported ==
    Alf!SeverityIsMailed <=> \A a \in Alf!Row : Reported(a, alerts[a].severity)
BY DEF Alf!SeverityIsMailed, Reported

LEMMA FlagTypesUnfolded ==
    Alf!TypeOK <=> /\ trouble \in [Source -> Alf!Severity \cup {Null}]
                   /\ alerts \in Seq(AlertType)
                   /\ reporter \in [Alf!Worker -> ReporterType(Alf!Row)]
                   /\ mailed \subseteq Alf!Row \X Alf!Severity /\ unmailed \subseteq Alf!Row
                   /\ budget \in BudgetType
BY DEF Alf!TypeOK, AlertType, ReporterType, BudgetType

LEMMA RowsAreNumbered ==
    ASSUME alerts \in Seq(AlertType)
    PROVE  Len(alerts) \in Nat /\ Alf!Row = 1..Len(alerts)
          /\ \A a \in Alf!Row : alerts[a] \in AlertType
BY LenProperties, ElementOfSeq DEF Alf!Row

\* A row is written over ...
LEMMA RowWritten ==
    ASSUME alerts \in Seq(AlertType), NEW a \in Alf!Row, NEW row \in AlertType,
           alerts' = [alerts EXCEPT ![a] = row]
    PROVE  /\ alerts' \in Seq(AlertType) /\ Alf!Row' = Alf!Row
           /\ \A b \in Alf!Row : alerts'[b] = IF b = a THEN row ELSE alerts[b]
<1>1. a \in 1..Len(alerts) /\ Alf!Row = 1..Len(alerts)
  BY RowsAreNumbered
<1>2. alerts' \in Seq(AlertType) /\ Len(alerts') = Len(alerts)
  BY <1>1, ExceptSeq
<1>3. Alf!Row' = Alf!Row
  BY <1>1, <1>2, LenProperties DEF Alf!Row
<1> QED  BY <1>1, <1>2, <1>3, ExceptSeq

\* ... or created, behind all others.
LEMMA RowCreated ==
    ASSUME alerts \in Seq(AlertType), NEW row \in AlertType, alerts' = Append(alerts, row)
    PROVE  /\ alerts' \in Seq(AlertType)
           /\ Alf!Row' = Alf!Row \cup {Len(alerts) + 1} /\ Len(alerts) + 1 \notin Alf!Row
           /\ alerts'[Len(alerts) + 1] = row
           /\ \A b \in Alf!Row : alerts'[b] = alerts[b]
<1>1. Alf!Row = 1..Len(alerts) /\ Len(alerts) \in Nat
  BY RowsAreNumbered
<1>2. alerts' \in Seq(AlertType) /\ Len(alerts') = Len(alerts) + 1
  BY AppendProperties
<1>3. Alf!Row' = 1..(Len(alerts) + 1)
  BY <1>2, LenProperties DEF Alf!Row
<1> QED  BY <1>1, <1>2, <1>3, AppendProperties

LEMMA CallersAreFinite ==
    ASSUME Alf!Parameters
    PROVE  IsFiniteSet(Alf!Worker) /\ \A w \in Alf!Worker : w[1] \in Source
<1>1. IsFiniteSet(Source) /\ IsFiniteSet(Swept) /\ Swept \subseteq Source
  BY FS_Subset DEF Alf!Parameters, Alf!IsFiniteSet, IsFiniteSet
<1>2. IsFiniteSet({"scheduled"}) /\ IsFiniteSet({"onDemand"})
  BY FS_Singleton
<1>3. IsFiniteSet(Source \X {"scheduled"}) /\ IsFiniteSet(Swept \X {"onDemand"})
  BY <1>1, <1>2, FS_Product
<1>4. IsFiniteSet(Alf!Worker)
  BY <1>3, FS_Union DEF Alf!Worker
<1> QED  BY <1>1, <1>4 DEF Alf!Worker

LEMMA FlagsInit ==
    ASSUME Alf!Parameters, Alf!Init PROVE FlagsIInv
<1> USE DEF Alf!Parameters
<1>0. Alf!Row = {} /\ alerts \in Seq(AlertType)
  BY EmptySeq DEF Alf!Init, Alf!Row
<1>1. Alf!TypeOK
  <2>1. reporter \in [Alf!Worker -> ReporterType(Alf!Row)]
    BY DEF Alf!Init, ReporterType, Alf!Idle
  <2>2. budget \in BudgetType
    BY DEF Alf!Init, BudgetType
  <2> QED  BY <1>0, <2>1, <2>2, FlagTypesUnfolded DEF Alf!Init
<1>2. ReportsFit
  BY DEF Alf!Init, ReportsFit, ReportFits, Alf!Idle
<1>3. Alf!SeverityIsMailed
  BY <1>0 DEF Alf!SeverityIsMailed
<1>4. FewOpen
  <2> SUFFICES ASSUME NEW s \in Source
               PROVE  Cardinality(Alf!Open(s)) + Cardinality(Creating(s))
                        <= Cardinality(Callers(s)) + budget.clicks
    BY DEF FewOpen
  <2>1. Alf!Open(s) = {} /\ Creating(s) = {} /\ budget.clicks = 0
    BY <1>0 DEF Alf!Init, Alf!Open, Creating, Alf!Idle
  <2>2. Cardinality(Callers(s)) \in Nat
    BY CallersAreFinite, FS_Subset, FS_CardinalityType DEF Callers
  <2> QED  BY <2>1, <2>2, FS_EmptySet
<1> QED  BY <1>1, <1>2, <1>3, <1>4 DEF FlagsIInv

\* The severity a report was made at stays reported.
LEMMA ReportedStays ==
    ASSUME Alf!Parameters, Alf!TypeOK, ReportsFit, Alf!Next, NEW a \in Alf!Row,
           NEW severity \in Alf!Severity,
           Reported(a, severity)
    PROVE  Reported(a, severity)'
<1>t. reporter \in [Alf!Worker -> ReporterType(Alf!Row)]
  BY FlagTypesUnfolded
<1>1. mailed \subseteq mailed' /\ unmailed \subseteq unmailed'
  BY DEF Alf!Next, Alf!Change, Alf!Report, Alf!Step, Alf!FindFlag, Alf!Refresh, Alf!Raise,
     Alf!Clear, Alf!Mail, Alf!Crash, Alf!Acknowledge,
     Alf!Resolve, Alf!Reopen, Alf!Click
<1>2. ASSUME NEW w \in Alf!Worker, reporter[w].step = "mail", reporter[w].found = a,
             Alf!Rank[reporter[w].severity] <= Alf!Rank[severity]
      PROVE  Reported(a, severity)'
  <2>1. CASE Alf!Mail(w)
    <3>1. <<a, reporter[w].severity>> \in mailed'
      BY <1>2, <2>1 DEF Alf!Mail
    <3> QED  BY <1>2, <3>1 DEF Reported
  <2>2. CASE Alf!Crash(w)
    <3>1. a \in unmailed'
      BY <1>2, <2>2 DEF Alf!Crash
    <3> QED  BY <3>1 DEF Reported
  <2>3. CASE ~Alf!Mail(w) /\ ~Alf!Crash(w)
    <3>1. reporter'[w] = reporter[w]
      BY <1>2, <1>t, <2>3 DEF Alf!Next, Alf!Change, Alf!Report, Alf!Step, Alf!FindFlag,
         Alf!Refresh, Alf!Raise, Alf!Clear, Alf!Mail,
         Alf!Crash, Alf!Acknowledge, Alf!Resolve, Alf!Reopen, Alf!Click
    <3> QED  BY <1>2, <3>1 DEF Reported
  <2> QED  BY <2>1, <2>2, <2>3
<1> QED  BY <1>1, <1>2 DEF Reported

LEMMA FlagTypesPreserved ==
    ASSUME Alf!Parameters, Alf!TypeOK, ReportsFit, Alf!Next
    PROVE  Alf!TypeOK' /\ Alf!Row \subseteq Alf!Row'
<1> DEFINE Goal == /\ trouble' \in [Source -> Alf!Severity \cup {Null}]
                   /\ alerts' \in Seq(AlertType)
                   /\ reporter' \in [Alf!Worker -> ReporterType(Alf!Row')]
                   /\ mailed' \subseteq Alf!Row' \X Alf!Severity /\ unmailed' \subseteq Alf!Row'
                   /\ budget' \in BudgetType /\ Alf!Row \subseteq Alf!Row'
<1>t. /\ trouble \in [Source -> Alf!Severity \cup {Null}] /\ alerts \in Seq(AlertType)
      /\ reporter \in [Alf!Worker -> ReporterType(Alf!Row)]
      /\ mailed \subseteq Alf!Row \X Alf!Severity /\ unmailed \subseteq Alf!Row
             /\ budget \in BudgetType
  BY FlagTypesUnfolded
<1>g. Goal => Alf!TypeOK' /\ Alf!Row \subseteq Alf!Row'
  BY DEF Alf!TypeOK, AlertType, ReporterType, BudgetType
<1>i. Alf!Idle \in ReporterType(Alf!Row)
  BY DEF Alf!Idle, ReporterType
<1>w. ASSUME NEW w \in Alf!Worker, NEW task \in ReporterType(Alf!Row),
             reporter' = [reporter EXCEPT ![w] = task]
      PROVE  reporter' \in [Alf!Worker -> ReporterType(Alf!Row)]
  BY <1>w, <1>t
<1>j. \A w \in Alf!Worker : reporter[w] \in ReporterType(Alf!Row) /\ ReportFits(reporter[w])
  BY <1>t DEF ReportsFit
<1>1. ASSUME NEW s \in Source, Alf!Change(s) PROVE Goal
  <2>1. budget' \in BudgetType
    BY <1>1, <1>t DEF Alf!Change, BudgetType, Alf!Parameters
  <2>2. trouble' \in [Source -> Alf!Severity \cup {Null}]
    BY <1>1, <1>t DEF Alf!Change
  <2>3. Alf!Row' = Alf!Row
    BY <1>1 DEF Alf!Change, Alf!Row
  <2> QED  BY <1>1, <1>t, <2>1, <2>2, <2>3 DEF Alf!Change
<1>2. ASSUME NEW w \in Alf!Worker, Alf!Report(w) PROVE Goal
  <2> DEFINE task == [Alf!Idle EXCEPT !.step = "find",
                                 !.verb = IF trouble[w[1]] = Null THEN "clear" ELSE "raise",
                                 !.severity = trouble[w[1]]]
  <2>1. trouble[w[1]] \in Alf!Severity \cup {Null}
    BY <1>t, CallersAreFinite
  <2>2. task \in ReporterType(Alf!Row)
    BY <2>1 DEF Alf!Idle, ReporterType
  <2>3. reporter' = [reporter EXCEPT ![w] = task] /\ Alf!Row' = Alf!Row
    BY <1>2 DEF Alf!Report, Alf!Row
  <2>4. reporter' \in [Alf!Worker -> ReporterType(Alf!Row)]
    BY <2>2, <2>3, <1>w
  <2> QED  BY <1>2, <1>t, <2>3, <2>4 DEF Alf!Report
<1>3. ASSUME NEW w \in Alf!Worker, Alf!FindFlag(w) PROVE Goal
  <2>1. PICK found \in Alf!Matches(w[1]) :
            reporter' = [reporter EXCEPT ![w] =
                         IF found = Null /\ @.verb = "clear" THEN Alf!Idle
                         ELSE [@ EXCEPT !.step = "write", !.found = found,
                                        !.seen = IF found = Null THEN Null
                                                 ELSE alerts[found].severity]]
    BY <1>3 DEF Alf!FindFlag
  <2>2. found \in Alf!Row \cup {Null} /\ (found # Null
        => alerts[found].severity \in Alf!Severity)
    BY <1>t, RowsAreNumbered DEF Alf!Matches, Alf!Open, AlertType
  <2> DEFINE task == [reporter[w] EXCEPT !.step = "write", !.found = found,
                                      !.seen = IF found = Null THEN Null
                                               ELSE alerts[found].severity]
  <2>3. task \in ReporterType(Alf!Row)
    BY <1>j, <2>2 DEF ReporterType
  <2>4. \/ reporter' = [reporter EXCEPT ![w] = Alf!Idle]
        \/ reporter' = [reporter EXCEPT ![w] = task]
    BY <2>1, <1>t
  <2> HIDE DEF task
  <2>5. reporter' \in [Alf!Worker -> ReporterType(Alf!Row)]
    BY <2>3, <2>4, <1>i, <1>w
  <2>6. Alf!Row' = Alf!Row
    BY <1>3 DEF Alf!FindFlag, Alf!Row
  <2> QED  BY <1>3, <1>t, <2>5, <2>6 DEF Alf!FindFlag
<1>4. ASSUME NEW w \in Alf!Worker, Alf!Refresh(w) PROVE Goal
  <2> DEFINE task == reporter[w]
             row == [alerts[task.found] EXCEPT !.severity = task.severity]
             next == [task EXCEPT !.step = "mail"]
  <2>1. task.found \in Alf!Row /\ task.severity \in Alf!Severity
    BY <1>4, <1>j DEF Alf!Refresh, ReportFits, Reported, ReporterType
  <2>2. row \in AlertType
    BY <2>1, <1>t, RowsAreNumbered DEF AlertType
  <2>3. alerts' = [alerts EXCEPT ![task.found] = row]
    BY <1>4, <1>t, <2>1 DEF Alf!Refresh
  <2>4. alerts' \in Seq(AlertType) /\ Alf!Row' = Alf!Row
    BY <2>1, <2>2, <2>3, <1>t, RowWritten
  <2>5. next \in ReporterType(Alf!Row)
    BY <1>j DEF ReporterType
  <2>6. \/ reporter' = [reporter EXCEPT ![w] = Alf!Idle]
        \/ reporter' = [reporter EXCEPT ![w] = next]
    BY <1>4, <1>t DEF Alf!Refresh
  <2> HIDE DEF next
  <2>7. reporter' \in [Alf!Worker -> ReporterType(Alf!Row)]
    BY <2>5, <2>6, <1>i, <1>w
  <2> QED  BY <1>4, <1>t, <2>4, <2>7 DEF Alf!Refresh
<1>5. ASSUME NEW w \in Alf!Worker, Alf!Raise(w) PROVE Goal
  <2> DEFINE task == reporter[w]
             row == [source |-> w[1], status |-> "open", severity |-> task.severity]
             next == [task EXCEPT !.step = "mail", !.found = Len(alerts) + 1]
  <2>1. row \in AlertType
    BY <1>5, <1>j, CallersAreFinite DEF Alf!Raise, ReportFits, AlertType, Alf!Status
  <2>2. alerts' \in Seq(AlertType) /\ Alf!Row' = Alf!Row \cup {Len(alerts) + 1}
    BY <1>5, <1>t, <2>1, RowCreated DEF Alf!Raise
  <2>3. next \in ReporterType(Alf!Row')
    BY <1>j, <2>2 DEF ReporterType
  <2>4. reporter' = [reporter EXCEPT ![w] = next]
    BY <1>5, <1>t DEF Alf!Raise
  <2>5. ReporterType(Alf!Row) \subseteq ReporterType(Alf!Row')
    BY <2>2 DEF ReporterType
  <2> HIDE DEF next
  <2>6. reporter' \in [Alf!Worker -> ReporterType(Alf!Row')]
    BY <1>t, <2>3, <2>4, <2>5
  <2> QED  BY <1>5, <1>t, <2>2, <2>6 DEF Alf!Raise
<1>6. ASSUME NEW w \in Alf!Worker, Alf!Clear(w) PROVE Goal
  <2> DEFINE row == [alerts[reporter[w].found] EXCEPT !.status = "resolved"]
  <2>1. reporter[w].found \in Alf!Row
    BY <1>6, <1>j DEF Alf!Clear, ReportFits
  <2>2. row \in AlertType
    BY <2>1, <1>t, RowsAreNumbered DEF AlertType, Alf!Status
  <2>3. alerts' = [alerts EXCEPT ![reporter[w].found] = row]
    BY <1>6, <1>t, <2>1 DEF Alf!Clear
  <2>4. alerts' \in Seq(AlertType) /\ Alf!Row' = Alf!Row
    BY <2>1, <2>2, <2>3, <1>t, RowWritten
  <2>5. reporter' \in [Alf!Worker -> ReporterType(Alf!Row)]
    BY <1>6, <1>i, <1>w DEF Alf!Clear
  <2> QED  BY <1>6, <1>t, <2>4, <2>5 DEF Alf!Clear
<1>7. ASSUME NEW w \in Alf!Worker, Alf!Mail(w) PROVE Goal
  <2>1. <<reporter[w].found, reporter[w].severity>> \in Alf!Row \X Alf!Severity
    BY <1>7, <1>j DEF Alf!Mail, ReportFits
  <2>2. reporter' \in [Alf!Worker -> ReporterType(Alf!Row)] /\ Alf!Row' = Alf!Row
    BY <1>7, <1>i, <1>w DEF Alf!Mail, Alf!Row
  <2> QED  BY <1>7, <1>t, <2>1, <2>2 DEF Alf!Mail
<1>8. ASSUME NEW w \in Alf!Worker, Alf!Crash(w) PROVE Goal
  <2>1. budget' \in BudgetType
    BY <1>8, <1>t DEF Alf!Crash, BudgetType, Alf!Mishaps, Alf!Parameters
  <2>2. reporter' \in [Alf!Worker -> ReporterType(Alf!Row)] /\ Alf!Row' = Alf!Row
    BY <1>8, <1>i, <1>w DEF Alf!Crash, Alf!Row
  <2> QED  BY <1>8, <1>t, <2>1, <2>2 DEF Alf!Crash
<1>9. ASSUME NEW a \in Alf!Row, NEW answer \in Alf!Status, Alf!Click(a, answer) PROVE Goal
  <2> DEFINE row == [alerts[a] EXCEPT !.status = answer]
  <2>1. row \in AlertType
    BY <1>t, RowsAreNumbered DEF AlertType
  <2>2. alerts' = [alerts EXCEPT ![a] = row]
    BY <1>9, <1>t DEF Alf!Click
  <2>3. alerts' \in Seq(AlertType) /\ Alf!Row' = Alf!Row
    BY <2>1, <2>2, <1>t, RowWritten
  <2>4. budget' \in BudgetType
    BY <1>9, <1>t DEF Alf!Click, BudgetType, Alf!Mishaps, Alf!Parameters
  <2> QED  BY <1>9, <1>t, <2>3, <2>4 DEF Alf!Click
<1>10. {"acknowledged", "resolved", "open"} \subseteq Alf!Status
  BY DEF Alf!Status
<1> HIDE DEF Goal
<1>11. Goal
  BY <1>1, <1>2, <1>3, <1>4, <1>5, <1>6, <1>7, <1>8, <1>9, <1>10
     DEF Alf!Next, Alf!Step, Alf!Acknowledge, Alf!Resolve, Alf!Reopen
<1> QED  BY <1>g, <1>11

LEMMA RanksAreNumbers == \A severity \in Alf!Severity : Alf!Rank[severity] \in Nat
BY DEF Alf!Severity, Alf!Rank

\* A report at a severity is a report at every less urgent one.
LEMMA ReportedLess ==
    ASSUME Alf!TypeOK, ReportsFit, NEW a, NEW x \in Alf!Severity, NEW y \in Alf!Severity,
           Alf!Rank[x] <= Alf!Rank[y],
           Reported(a, x)
    PROVE  Reported(a, y)
<1>t. reporter \in [Alf!Worker -> ReporterType(Alf!Row)]
      /\ mailed \subseteq Alf!Row \X Alf!Severity
  BY FlagTypesUnfolded
<1>1. ASSUME NEW mail \in mailed, mail[1] = a, Alf!Rank[mail[2]] <= Alf!Rank[x]
      PROVE  Reported(a, y)
  <2>1. mail[2] \in Alf!Severity
    BY <1>t
  <2>2. Alf!Rank[mail[2]] <= Alf!Rank[y]
    BY <1>1, <2>1, RanksAreNumbers
  <2> QED  BY <1>1, <2>2 DEF Reported
<1>2. ASSUME NEW w \in Alf!Worker, reporter[w].step = "mail", reporter[w].found = a,
             Alf!Rank[reporter[w].severity] <= Alf!Rank[x]
      PROVE  Reported(a, y)
  <2>1. reporter[w].severity \in Alf!Severity
    BY <1>2 DEF ReportsFit, ReportFits
  <2>2. Alf!Rank[reporter[w].severity] <= Alf!Rank[y]
    BY <1>2, <2>1, RanksAreNumbers
  <2> QED  BY <1>2, <2>2 DEF Reported
<1> QED  BY <1>1, <1>2 DEF Reported

LEMMA FitsPreserved ==
    ASSUME Alf!Parameters, Alf!TypeOK, ReportsFit, Alf!SeverityIsMailed, Alf!Next
    PROVE  ReportsFit'
<1>t. reporter \in [Alf!Worker -> ReporterType(Alf!Row)] /\ alerts \in Seq(AlertType)
  BY FlagTypesUnfolded
<1>j. \A w \in Alf!Worker : reporter[w] \in ReporterType(Alf!Row) /\ ReportFits(reporter[w])
  BY <1>t DEF ReportsFit
<1>r. Alf!Row \subseteq Alf!Row'
  BY FlagTypesPreserved
<1>1. ASSUME NEW w \in Alf!Worker, reporter'[w] = reporter[w] PROVE ReportFits(reporter[w])'
  <2>1. ReportFits(reporter[w])
    BY <1>j
  <2>2. reporter[w].found \in Alf!Row /\ reporter[w].seen \in Alf!Severity
            /\ Reported(reporter[w].found, reporter[w].seen)
          => Reported(reporter[w].found, reporter[w].seen)'
    BY <1>1, ReportedStays
  <2>3. reporter[w].found # Null => reporter[w].found \in Alf!Row
    BY <1>t DEF ReporterType
  <2> QED  BY <1>1, <1>r, <2>1, <2>2, <2>3 DEF ReportFits
<1>2. ASSUME NEW w \in Alf!Worker, reporter'[w] = Alf!Idle PROVE ReportFits(reporter[w])'
  BY <1>2 DEF ReportFits, Alf!Idle, Alf!Parameters
<1>3. ASSUME NEW w \in Alf!Worker, Alf!Report(w) PROVE ReportFits(reporter[w])'
  <2>1. trouble[w[1]] \in Alf!Severity \cup {Null}
    BY CallersAreFinite, FlagTypesUnfolded
  <2>2. reporter'[w] = [Alf!Idle EXCEPT !.step = "find",
                                  !.verb = IF trouble[w[1]] = Null THEN "clear" ELSE "raise",
                                  !.severity = trouble[w[1]]]
    BY <1>3, <1>t DEF Alf!Report
  <2>3. /\ reporter'[w].step = "find" /\ reporter'[w].severity = trouble[w[1]]
        /\ reporter'[w].verb = IF trouble[w[1]] = Null THEN "clear" ELSE "raise"
    BY <2>2 DEF Alf!Idle
  <2> QED  BY <2>1, <2>3 DEF ReportFits, Alf!Parameters
<1>4. ASSUME NEW w \in Alf!Worker, Alf!FindFlag(w) PROVE ReportFits(reporter[w])'
  <2>1. PICK found \in Alf!Matches(w[1]) :
            reporter' = [reporter EXCEPT ![w] =
                         IF found = Null /\ @.verb = "clear" THEN Alf!Idle
                         ELSE [@ EXCEPT !.step = "write", !.found = found,
                                        !.seen = IF found = Null THEN Null
                                                 ELSE alerts[found].severity]]
    BY <1>4 DEF Alf!FindFlag
  <2>2. found \in Alf!Row \cup {Null} /\ (found # Null
        => alerts[found].severity \in Alf!Severity)
    BY <1>t, RowsAreNumbered DEF Alf!Matches, Alf!Open, AlertType
  <2> DEFINE task == [reporter[w] EXCEPT !.step = "write", !.found = found,
                                      !.seen = IF found = Null THEN Null
                                               ELSE alerts[found].severity]
  <2>3. CASE found = Null /\ reporter[w].verb = "clear"
    BY <2>1, <2>3, <1>2, <1>t
  <2>4. CASE found # Null \/ reporter[w].verb # "clear"
    <3>1. reporter'[w] = task
      BY <2>1, <2>4, <1>t
    <3>2. /\ task.step = "write" /\ task.found = found /\ task.verb = reporter[w].verb
          /\ task.severity = reporter[w].severity
          /\ task.seen = IF found = Null THEN Null ELSE alerts[found].severity
      BY <1>j DEF ReporterType
    <3>3. \A x \in Alf!Severity : found # Null /\ x = alerts[found].severity
          => Reported(found, x)'
      BY <2>2, ReportedStays, SeverityIsReported
    <3>4. reporter[w].verb # Null /\ (reporter[w].verb = "raise"
          => reporter[w].severity \in Alf!Severity)
      BY <1>4, <1>j DEF Alf!FindFlag, ReportFits
    <3>5. alerts' = alerts
      BY <1>4 DEF Alf!FindFlag
    <3> HIDE DEF task
    <3> QED  BY <2>2, <2>4, <3>1, <3>2, <3>3, <3>4, <3>5, <1>r DEF ReportFits
  <2> QED  BY <2>3, <2>4
<1>5. ASSUME NEW w \in Alf!Worker, Alf!Refresh(w) PROVE ReportFits(reporter[w])'
  <2>1. reporter'[w] = Alf!Idle \/ reporter'[w] = [reporter[w] EXCEPT !.step = "mail"]
    BY <1>5, <1>t DEF Alf!Refresh
  <2>2. reporter[w].verb = "raise" /\ reporter[w].severity \in Alf!Severity
        /\ reporter[w].found \in Alf!Row'
    BY <1>5, <1>j, <1>r DEF Alf!Refresh, ReportFits, ReporterType
  <2>3. CASE reporter'[w] = [reporter[w] EXCEPT !.step = "mail"]
    <3>1. /\ reporter'[w].step = "mail" /\ reporter'[w].verb = "raise"
          /\ reporter'[w].severity \in Alf!Severity /\ reporter'[w].found \in Alf!Row'
      BY <2>2, <2>3, <1>j DEF ReporterType
    <3> QED  BY <3>1 DEF ReportFits, Alf!Parameters
  <2> QED  BY <2>1, <2>3, <1>2
<1>6. ASSUME NEW w \in Alf!Worker, Alf!Raise(w) PROVE ReportFits(reporter[w])'
  <2>1. reporter'[w] = [reporter[w] EXCEPT !.step = "mail", !.found = Len(alerts) + 1]
    BY <1>6, <1>t DEF Alf!Raise
  <2>2. reporter[w].verb = "raise" /\ reporter[w].severity \in Alf!Severity
    BY <1>6, <1>j DEF Alf!Raise, ReportFits
  <2>3. Len(alerts) + 1 \in Alf!Row'
    <3>1. [source |-> w[1], status |-> "open", severity |-> reporter[w].severity] \in AlertType
      BY <2>2, CallersAreFinite DEF AlertType, Alf!Status
    <3> QED  BY <1>6, <1>t, <3>1, RowCreated DEF Alf!Raise
  <2>4. /\ reporter'[w].step = "mail" /\ reporter'[w].verb = "raise"
        /\ reporter'[w].severity \in Alf!Severity /\ reporter'[w].found \in Alf!Row'
    BY <2>1, <2>2, <2>3, <1>j DEF ReporterType
  <2> QED  BY <2>4 DEF ReportFits, Alf!Parameters
<1>7. ASSUME NEW w \in Alf!Worker, Alf!Clear(w) \/ Alf!Mail(w) \/ Alf!Crash(w)
      PROVE  ReportFits(reporter[w])'
  BY <1>7, <1>2, <1>t DEF Alf!Clear, Alf!Mail, Alf!Crash
<1>8. ASSUME NEW w \in Alf!Worker, Alf!Report(w) \/ Alf!Step(w) \/ Alf!Crash(w)
      PROVE  \A v \in Alf!Worker : v = w \/ reporter'[v] = reporter[v]
  BY <1>8, <1>t DEF Alf!Report, Alf!Step, Alf!FindFlag, Alf!Refresh, Alf!Raise, Alf!Clear,
     Alf!Mail, Alf!Crash
<1>9. ASSUME NEW w \in Alf!Worker, Alf!Report(w) \/ Alf!Step(w) \/ Alf!Crash(w)
      PROVE  ReportsFit'
  <2>1. ReportFits(reporter[w])'
    BY <1>3, <1>4, <1>5, <1>6, <1>7, <1>9 DEF Alf!Step
  <2> QED  BY <2>1, <1>1, <1>8, <1>9 DEF ReportsFit
<1>10. CASE \/ \E s \in Source : Alf!Change(s)
            \/ \E a \in Alf!Row : Alf!Acknowledge(a) \/ Alf!Resolve(a) \/ Alf!Reopen(a)
  <2>1. reporter' = reporter
    BY <1>10 DEF Alf!Change, Alf!Acknowledge, Alf!Resolve, Alf!Reopen, Alf!Click
  <2> QED  BY <2>1, <1>1 DEF ReportsFit
<1> QED  BY <1>9, <1>10 DEF Alf!Next

\* What a row shows, it was reported at: a refresh that mails nobody shows nothing that is
\* more urgent than what the caller saw, and that was reported.
LEMMA MailsPreserved ==
    ASSUME Alf!Parameters, Alf!TypeOK, ReportsFit, Alf!SeverityIsMailed, Alf!Next
    PROVE  Alf!SeverityIsMailed'
<1>t. reporter \in [Alf!Worker -> ReporterType(Alf!Row)] /\ alerts \in Seq(AlertType)
  BY FlagTypesUnfolded
<1>j. \A w \in Alf!Worker : reporter[w] \in ReporterType(Alf!Row) /\ ReportFits(reporter[w])
  BY <1>t DEF ReportsFit
<1>y. alerts' \in Seq(AlertType) /\ Alf!TypeOK' /\ Alf!Row \subseteq Alf!Row'
  BY FlagTypesPreserved, FlagTypesUnfolded DEF Alf!TypeOK, AlertType
<1>a. \A a \in Alf!Row : alerts[a] \in AlertType /\ alerts[a].severity \in Alf!Severity
  BY <1>t, RowsAreNumbered DEF AlertType
<1>b. \A a \in Alf!Row' : alerts'[a].severity \in Alf!Severity
  <2>1. Alf!Row' = 1..Len(alerts') /\ \A a \in 1..Len(alerts') : alerts'[a] \in AlertType
    BY <1>y, LenProperties, ElementOfSeq DEF Alf!Row
  <2> QED  BY <2>1 DEF AlertType
<1>g. SUFFICES ASSUME NEW a \in Alf!Row', NEW urgency \in Alf!Severity,
                      urgency = alerts'[a].severity
               PROVE  Reported(a, urgency)'
  BY <1>b DEF Alf!SeverityIsMailed, Reported
<1>1. CASE a \in Alf!Row /\ alerts'[a].severity = alerts[a].severity
  BY <1>1, <1>g, ReportedStays, SeverityIsReported
<1>2. ASSUME NEW w \in Alf!Worker, Alf!Refresh(w) PROVE Reported(a, urgency)'
  <2> DEFINE task == reporter[w]
             row == [alerts[task.found] EXCEPT !.severity = task.severity]
  <2>1. /\ task.found \in Alf!Row /\ task.severity \in Alf!Severity
               /\ task.seen \in Alf!Severity
        /\ Reported(task.found, task.seen)
    BY <1>2, <1>j DEF Alf!Refresh, ReportFits, ReporterType
  <2>2. row \in AlertType /\ row.severity = task.severity
    BY <2>1, <1>a DEF AlertType
  <2>3. alerts' = [alerts EXCEPT ![task.found] = row]
    BY <1>2, <1>t, <2>1 DEF Alf!Refresh
  <2>4. Alf!Row' = Alf!Row
        /\ \A b \in Alf!Row : alerts'[b] = IF b = task.found THEN row ELSE alerts[b]
    BY <2>1, <2>2, <2>3, <1>t, RowWritten
  <2>5. CASE a = task.found /\ Alf!Worsened(task)
    <3>1. reporter'[w] = [task EXCEPT !.step = "mail"]
      BY <1>2, <1>t, <2>5 DEF Alf!Refresh
    <3>2. reporter'[w].step = "mail" /\ reporter'[w].found = a
          /\ reporter'[w].severity = urgency
      BY <3>1, <2>2, <2>4, <2>5, <1>j, <1>g DEF ReporterType
    <3> QED  BY <3>2, RanksAreNumbers, <1>g DEF Reported
  <2>6. CASE a = task.found /\ ~Alf!Worsened(task)
    <3>1. urgency = task.severity
      BY <2>2, <2>4, <2>6, <1>g
    <3>2. Alf!Rank[task.seen] <= Alf!Rank[task.severity]
      BY <2>1, <2>6, RanksAreNumbers DEF Alf!Worsened
    <3>3. Reported(a, urgency)
      BY <2>1, <2>6, <3>1, <3>2, ReportedLess
    <3> QED  BY <3>3, <2>1, <2>6, ReportedStays
  <2> QED  BY <2>4, <2>5, <2>6, <1>1, <1>g
<1>3. ASSUME NEW w \in Alf!Worker, Alf!Raise(w) PROVE Reported(a, urgency)'
  <2> DEFINE task == reporter[w]
             row == [source |-> w[1], status |-> "open", severity |-> task.severity]
  <2>1. task.severity \in Alf!Severity
    BY <1>3, <1>j DEF Alf!Raise, ReportFits
  <2>2. row \in AlertType
    BY <2>1, CallersAreFinite DEF AlertType, Alf!Status
  <2>3. /\ Alf!Row' = Alf!Row \cup {Len(alerts) + 1} /\ alerts'[Len(alerts) + 1] = row
        /\ \A b \in Alf!Row : alerts'[b] = alerts[b]
    BY <1>3, <1>t, <2>2, RowCreated DEF Alf!Raise
  <2>4. CASE a = Len(alerts) + 1
    <3>1. reporter'[w] = [task EXCEPT !.step = "mail", !.found = Len(alerts) + 1]
      BY <1>3, <1>t DEF Alf!Raise
    <3>2. reporter'[w].step = "mail" /\ reporter'[w].found = a
          /\ reporter'[w].severity = urgency
      BY <3>1, <2>3, <2>4, <1>j, <1>g DEF ReporterType
    <3> QED  BY <3>2, RanksAreNumbers DEF Reported
  <2> QED  BY <2>3, <2>4, <1>1
<1>4. ASSUME NEW w \in Alf!Worker, Alf!Clear(w) PROVE Reported(a, urgency)'
  <2> DEFINE row == [alerts[reporter[w].found] EXCEPT !.status = "resolved"]
  <2>1. reporter[w].found \in Alf!Row
    BY <1>4, <1>j DEF Alf!Clear, ReportFits
  <2>2. row \in AlertType /\ row.severity = alerts[reporter[w].found].severity
    BY <2>1, <1>a DEF AlertType, Alf!Status
  <2>3. alerts' = [alerts EXCEPT ![reporter[w].found] = row]
    BY <1>4, <1>t, <2>1 DEF Alf!Clear
  <2>4. /\ Alf!Row' = Alf!Row
        /\ \A b \in Alf!Row : alerts'[b] = IF b = reporter[w].found THEN row ELSE alerts[b]
    BY <2>1, <2>2, <2>3, <1>t, RowWritten
  <2> QED  BY <2>2, <2>4, <1>1
<1>5. ASSUME NEW b \in Alf!Row, NEW answer \in Alf!Status, Alf!Click(b, answer)
      PROVE  Reported(a, urgency)'
  <2> DEFINE row == [alerts[b] EXCEPT !.status = answer]
  <2>1. row \in AlertType /\ row.severity = alerts[b].severity
    BY <1>a DEF AlertType
  <2>2. alerts' = [alerts EXCEPT ![b] = row]
    BY <1>5, <1>t DEF Alf!Click
  <2>3. Alf!Row' = Alf!Row /\ \A c \in Alf!Row : alerts'[c] = IF c = b THEN row ELSE alerts[c]
    BY <2>1, <2>2, <1>t, RowWritten
  <2> QED  BY <2>1, <2>3, <1>1
<1>6. CASE alerts' = alerts
  BY <1>1, <1>6 DEF Alf!Row
<1>7. {"acknowledged", "resolved", "open"} \subseteq Alf!Status
  BY DEF Alf!Status
<1> QED
  BY <1>2, <1>3, <1>4, <1>5, <1>6, <1>7
     DEF Alf!Next, Alf!Change, Alf!Report, Alf!Step, Alf!FindFlag, Alf!Mail, Alf!Crash,
     Alf!Acknowledge, Alf!Resolve, Alf!Reopen

LEMMA CountsAreNumbers ==
    ASSUME Alf!Parameters, alerts \in Seq(AlertType), NEW s
    PROVE  /\ IsFiniteSet(Alf!Open(s)) /\ Cardinality(Alf!Open(s)) \in Nat
           /\ IsFiniteSet(Creating(s)) /\ Cardinality(Creating(s)) \in Nat
           /\ IsFiniteSet(Callers(s)) /\ Cardinality(Callers(s)) \in Nat
           /\ Cardinality(Creating(s)) <= Cardinality(Callers(s))
<1>1. IsFiniteSet(Alf!Row)
  BY RowsAreNumbered, FS_Interval
<1>2. IsFiniteSet(Alf!Open(s))
  BY <1>1, FS_Subset DEF Alf!Open
<1>3. IsFiniteSet(Callers(s))
  BY CallersAreFinite, FS_Subset DEF Callers
<1>4. Creating(s) \in SUBSET Callers(s)
  BY DEF Creating, Callers
<1>5. IsFiniteSet(Creating(s)) /\ Cardinality(Creating(s)) <= Cardinality(Callers(s))
  BY <1>3, <1>4, FS_Subset
<1> QED  BY <1>2, <1>3, <1>5, FS_CardinalityType

\* A row is opened by a caller that set out to create it, or by a click; who sets out to
\* create one has found none open.
LEMMA FewOpenPreserved ==
    ASSUME Alf!Parameters, Alf!TypeOK, ReportsFit, FewOpen, Alf!Next
    PROVE  FewOpen'
<1>t. /\ reporter \in [Alf!Worker -> ReporterType(Alf!Row)] /\ alerts \in Seq(AlertType)
      /\ budget \in BudgetType
  BY FlagTypesUnfolded
<1>j. \A w \in Alf!Worker : reporter[w] \in ReporterType(Alf!Row) /\ ReportFits(reporter[w])
  BY <1>t DEF ReportsFit
<1>y. alerts' \in Seq(AlertType) /\ budget' \in BudgetType
  BY FlagTypesPreserved, FlagTypesUnfolded DEF Alf!TypeOK, AlertType, BudgetType
<1>a. \A a \in Alf!Row : alerts[a] \in AlertType
  BY <1>t, RowsAreNumbered
<1> SUFFICES ASSUME NEW s \in Source
             PROVE  Cardinality(Alf!Open(s)') + Cardinality(Creating(s)')
                      <= Cardinality(Callers(s)) + budget'.clicks
  BY DEF FewOpen, Callers
<1>c. /\ IsFiniteSet(Alf!Open(s)) /\ Cardinality(Alf!Open(s)) \in Nat
      /\ IsFiniteSet(Creating(s)) /\ Cardinality(Creating(s)) \in Nat
      /\ Cardinality(Callers(s)) \in Nat
      /\ Cardinality(Alf!Open(s)) + Cardinality(Creating(s))
             <= Cardinality(Callers(s)) + budget.clicks
      /\ budget.clicks \in Nat /\ budget'.clicks \in Nat
  BY <1>t, <1>y, CountsAreNumbers DEF FewOpen, BudgetType
<1>d. /\ Cardinality(Creating(s)') \in Nat
      /\ Cardinality(Creating(s)') <= Cardinality(Callers(s))
  <2>1. Creating(s)' \in SUBSET Callers(s)
    BY DEF Creating, Callers
  <2>2. IsFiniteSet(Callers(s))
    BY <1>t, CountsAreNumbers
  <2> QED  BY <2>1, <2>2, FS_Subset, FS_CardinalityType
<1>1. ASSUME Alf!Open(s)' \subseteq Alf!Open(s), Creating(s)' \subseteq Creating(s),
             budget'.clicks >= budget.clicks
      PROVE  Cardinality(Alf!Open(s)') + Cardinality(Creating(s)')
               <= Cardinality(Callers(s)) + budget'.clicks
  <2>1. /\ Cardinality(Alf!Open(s)') <= Cardinality(Alf!Open(s))
               /\ Cardinality(Alf!Open(s)') \in Nat
        /\ Cardinality(Creating(s)') <= Cardinality(Creating(s))
    BY <1>1, <1>c, FS_Subset, FS_CardinalityType
  <2> QED  BY <2>1, <1>1, <1>c, <1>d
<1>2. ASSUME NEW w \in Alf!Worker, reporter' = [reporter EXCEPT ![w] = Alf!Idle]
      PROVE  Creating(s)' \subseteq Creating(s)
  BY <1>2, <1>t DEF Creating, Alf!Idle
<1>3. ASSUME NEW w \in Alf!Worker, Alf!Report(w)
      PROVE  Alf!Open(s)' \subseteq Alf!Open(s) /\ Creating(s)' \subseteq Creating(s)
  <2>1. reporter'[w].step = "find"
    BY <1>3, <1>t DEF Alf!Report, Alf!Idle
  <2> QED  BY <1>3, <2>1, <1>t DEF Alf!Report, Alf!Open, Alf!Row, Creating
<1>4. ASSUME NEW w \in Alf!Worker, Alf!FindFlag(w)
      PROVE  Cardinality(Alf!Open(s)') + Cardinality(Creating(s)')
               <= Cardinality(Callers(s)) + budget'.clicks
  <2>0. Alf!Open(s)' = Alf!Open(s) /\ budget' = budget
    BY <1>4 DEF Alf!FindFlag, Alf!Open, Alf!Row
  <2>1. PICK found \in Alf!Matches(w[1]) :
            reporter' = [reporter EXCEPT ![w] =
                         IF found = Null /\ @.verb = "clear" THEN Alf!Idle
                         ELSE [@ EXCEPT !.step = "write", !.found = found,
                                        !.seen = IF found = Null THEN Null
                                                 ELSE alerts[found].severity]]
    BY <1>4 DEF Alf!FindFlag
  <2>2. CASE w[1] = s /\ found = Null
    <3>1. Null \notin Alf!Row
      BY <1>t, RowsAreNumbered DEF Alf!Parameters
    <3>2. Alf!Open(s) = {}
      BY <2>2, <3>1 DEF Alf!Matches, Alf!Open
    <3> QED  BY <2>0, <3>2, <1>c, <1>d, FS_EmptySet
  <2>3. CASE w[1] # s \/ found # Null
    <3>1. reporter'[w] = Alf!Idle \/ reporter'[w].found = found
      BY <2>1, <1>t, <1>j DEF ReporterType
    <3>2. \A v \in Alf!Worker : v = w \/ reporter'[v] = reporter[v]
      BY <2>1, <1>t
    <3>3. w \notin Creating(s)'
      BY <2>3, <3>1 DEF Creating, Alf!Idle
    <3>4. Creating(s)' \subseteq Creating(s)
      BY <3>2, <3>3 DEF Creating
    <3> QED  BY <1>1, <1>c, <2>0, <3>4
  <2> QED  BY <2>2, <2>3
<1>5. ASSUME NEW w \in Alf!Worker, Alf!Refresh(w)
      PROVE  Alf!Open(s)' \subseteq Alf!Open(s) /\ Creating(s)' \subseteq Creating(s)
  <2> DEFINE row == [alerts[reporter[w].found] EXCEPT !.severity = reporter[w].severity]
  <2>1. reporter[w].found \in Alf!Row /\ reporter[w].severity \in Alf!Severity
    BY <1>5, <1>j DEF Alf!Refresh, ReportFits, ReporterType
  <2>2. /\ row \in AlertType /\ row.source = alerts[reporter[w].found].source
        /\ row.status = alerts[reporter[w].found].status
    BY <2>1, <1>a DEF AlertType
  <2>3. alerts' = [alerts EXCEPT ![reporter[w].found] = row]
    BY <1>5, <1>t, <2>1 DEF Alf!Refresh
  <2>4. /\ Alf!Row' = Alf!Row
        /\ \A b \in Alf!Row : alerts'[b] = IF b = reporter[w].found THEN row ELSE alerts[b]
    BY <2>1, <2>2, <2>3, <1>t, RowWritten
  <2> HIDE DEF row
  <2>5. Alf!Open(s)' = Alf!Open(s)
    BY <2>2, <2>4 DEF Alf!Open
  <2>6. /\ reporter'[w].step # "write"
        /\ \A v \in Alf!Worker : v = w \/ reporter'[v] = reporter[v]
    BY <1>5, <1>t, <1>j DEF Alf!Refresh, Alf!Idle, ReporterType
  <2> QED  BY <2>5, <2>6 DEF Creating
<1>6. ASSUME NEW w \in Alf!Worker, Alf!Raise(w)
      PROVE  Cardinality(Alf!Open(s)') + Cardinality(Creating(s)')
               <= Cardinality(Callers(s)) + budget'.clicks
  <2> DEFINE row == [source |-> w[1], status |-> "open", severity |-> reporter[w].severity]
             n == Len(alerts) + 1
  <2>1. row \in AlertType
    BY <1>6, <1>j, CallersAreFinite DEF Alf!Raise, ReportFits, AlertType, Alf!Status
  <2>2. /\ Alf!Row' = Alf!Row \cup {n} /\ n \notin Alf!Row /\ alerts'[n] = row
        /\ \A b \in Alf!Row : alerts'[b] = alerts[b]
    BY <1>6, <1>t, <2>1, RowCreated DEF Alf!Raise
  <2>3. /\ reporter'[w].step = "mail" /\ budget' = budget
        /\ \A v \in Alf!Worker : v = w \/ reporter'[v] = reporter[v]
    BY <1>6, <1>t, <1>j DEF Alf!Raise, ReporterType
  <2>4. CASE w[1] = s
    <3>1. Alf!Open(s)' = Alf!Open(s) \cup {n} /\ n \notin Alf!Open(s)
      BY <2>2, <2>4 DEF Alf!Open
    <3>2. Creating(s)' = Creating(s) \ {w} /\ w \in Creating(s)
      BY <1>6, <2>3, <2>4 DEF Alf!Raise, Creating
    <3>3. Cardinality(Alf!Open(s) \cup {n}) = IF n \in Alf!Open(s) THEN Cardinality(Alf!Open(s))
                                          ELSE Cardinality(Alf!Open(s)) + 1
      BY <1>c, FS_AddElement
    <3>4. Cardinality(Creating(s) \ {w}) = IF w \in Creating(s)
                                           THEN Cardinality(Creating(s)) - 1
                                           ELSE Cardinality(Creating(s))
      BY <1>c, FS_RemoveElement
    <3> QED  BY <3>1, <3>2, <3>3, <3>4, <2>3, <1>c
  <2>5. CASE w[1] # s
    <3>1. Alf!Open(s)' \subseteq Alf!Open(s)
      BY <2>2, <2>5 DEF Alf!Open
    <3>2. Creating(s)' \subseteq Creating(s)
      BY <2>3 DEF Creating
    <3> QED  BY <1>1, <1>c, <2>3, <3>1, <3>2
  <2> QED  BY <2>4, <2>5
<1>7. ASSUME NEW w \in Alf!Worker, Alf!Clear(w)
      PROVE  Alf!Open(s)' \subseteq Alf!Open(s) /\ Creating(s)' \subseteq Creating(s)
  <2> DEFINE row == [alerts[reporter[w].found] EXCEPT !.status = "resolved"]
  <2>1. reporter[w].found \in Alf!Row
    BY <1>7, <1>j DEF Alf!Clear, ReportFits
  <2>2. row \in AlertType /\ row.status = "resolved"
    BY <2>1, <1>a DEF AlertType, Alf!Status
  <2>3. alerts' = [alerts EXCEPT ![reporter[w].found] = row]
    BY <1>7, <1>t, <2>1 DEF Alf!Clear
  <2>4. /\ Alf!Row' = Alf!Row
        /\ \A b \in Alf!Row : alerts'[b] = IF b = reporter[w].found THEN row ELSE alerts[b]
    BY <2>1, <2>2, <2>3, <1>t, RowWritten
  <2> HIDE DEF row
  <2>5. Alf!Open(s)' \subseteq Alf!Open(s)
    BY <2>2, <2>4 DEF Alf!Open
  <2> QED  BY <1>7, <1>2, <2>5 DEF Alf!Clear
<1>8. ASSUME NEW w \in Alf!Worker, Alf!Mail(w) \/ Alf!Crash(w)
      PROVE  /\ Alf!Open(s)' \subseteq Alf!Open(s) /\ Creating(s)' \subseteq Creating(s)
             /\ budget'.clicks = budget.clicks
  BY <1>8, <1>2, <1>t DEF Alf!Mail, Alf!Crash, Alf!Open, Alf!Row, BudgetType
<1>9. ASSUME NEW a \in Alf!Row, NEW answer \in Alf!Status, Alf!Click(a, answer)
      PROVE  Cardinality(Alf!Open(s)') + Cardinality(Creating(s)')
               <= Cardinality(Callers(s)) + budget'.clicks
  <2> DEFINE row == [alerts[a] EXCEPT !.status = answer]
  <2>1. row \in AlertType
    BY <1>a DEF AlertType
  <2>2. alerts' = [alerts EXCEPT ![a] = row]
    BY <1>9, <1>t DEF Alf!Click
  <2>3. Alf!Row' = Alf!Row /\ \A b \in Alf!Row : alerts'[b] = IF b = a THEN row ELSE alerts[b]
    BY <2>1, <2>2, <1>t, RowWritten
  <2> HIDE DEF row
  <2>4. Alf!Open(s)' \in SUBSET (Alf!Open(s) \cup {a})
    BY <2>3 DEF Alf!Open
  <2>5. Creating(s)' = Creating(s) /\ budget'.clicks = budget.clicks + 1
    BY <1>9, <1>t DEF Alf!Click, Creating, BudgetType
  <2>6. /\ IsFiniteSet(Alf!Open(s) \cup {a})
        /\ Cardinality(Alf!Open(s) \cup {a}) = IF a \in Alf!Open(s) THEN Cardinality(Alf!Open(s))
                                            ELSE Cardinality(Alf!Open(s)) + 1
    BY <1>c, FS_AddElement
  <2>7. Cardinality(Alf!Open(s)') <= Cardinality(Alf!Open(s) \cup {a})
        /\ Cardinality(Alf!Open(s)') \in Nat
    BY <2>4, <2>6, FS_Subset, FS_CardinalityType
  <2> QED  BY <2>5, <2>6, <2>7, <1>c
<1>10. ASSUME NEW q \in Source, Alf!Change(q)
       PROVE  /\ Alf!Open(s)' \subseteq Alf!Open(s) /\ Creating(s)' \subseteq Creating(s)
              /\ budget'.clicks = budget.clicks
  BY <1>10, <1>t DEF Alf!Change, Alf!Open, Alf!Row, Creating, BudgetType
<1>11. ASSUME NEW w \in Alf!Worker, Alf!Report(w) \/ Alf!Refresh(w) \/ Alf!Clear(w)
       PROVE  budget'.clicks = budget.clicks
  BY <1>11 DEF Alf!Report, Alf!Refresh, Alf!Clear
<1>12. {"acknowledged", "resolved", "open"} \subseteq Alf!Status
  BY DEF Alf!Status
<1> QED
  BY <1>1, <1>3, <1>4, <1>5, <1>6, <1>7, <1>8, <1>9, <1>10, <1>11, <1>12, <1>c
     DEF Alf!Next, Alf!Step, Alf!Acknowledge, Alf!Resolve, Alf!Reopen

LEMMA FlagsStep ==
    ASSUME Alf!Parameters, FlagsIInv, [Alf!Next]_(Alf!vars) PROVE FlagsIInv'
<1>1. CASE Alf!Next
  BY <1>1, FlagTypesPreserved, FitsPreserved, MailsPreserved, FewOpenPreserved DEF FlagsIInv
<1>2. CASE UNCHANGED Alf!vars
  BY <1>2 DEF Alf!vars, FlagsIInv, Alf!TypeOK, Alf!Row, ReportsFit, ReportFits, Reported,
     Alf!SeverityIsMailed, FewOpen, Alf!Open,
     Creating, Callers
<1> QED  BY <1>1, <1>2

\* The instance counts as this module does.
LEMMA SameCounts == \A S : Alf!Cardinality(S) = Cardinality(S)
BY DEF Alf!Cardinality, Cardinality

LEMMA FlagsIInvSuffices ==
    ASSUME Alf!Parameters, FlagsIInv
    PROVE  Alf!TypeOK /\ Alf!OpenFlagsBounded /\ Alf!SeverityIsMailed
<1> SUFFICES ASSUME NEW s \in Source
             PROVE  Cardinality(Alf!Open(s)) <= Cardinality(Callers(s)) + budget.clicks
  BY SameCounts DEF FlagsIInv, Alf!OpenFlagsBounded, Callers
<1>1. alerts \in Seq(AlertType) /\ budget \in BudgetType
  BY FlagTypesUnfolded DEF FlagsIInv
<1> QED  BY <1>1, CountsAreNumbers DEF FlagsIInv, FewOpen, BudgetType

\* A source never has more open flags than it has callers that may raise one at once and
\* clicks that may reopen one; and who reads a flag's severity has been mailed about it, at
\* least as urgently, or the mail died with its process (raiseFlag, clearFlag, setStatus).
THEOREM FlagsAreSound ==
    ASSUME Alf!Parameters
    PROVE  Alf!Spec => [](Alf!TypeOK /\ Alf!OpenFlagsBounded /\ Alf!SeverityIsMailed)
<1>1. Alf!Init => FlagsIInv
  BY FlagsInit
<1>2. FlagsIInv /\ [Alf!Next]_(Alf!vars) => FlagsIInv'
  BY FlagsStep
<1>3. FlagsIInv => Alf!TypeOK /\ Alf!OpenFlagsBounded /\ Alf!SeverityIsMailed
  BY FlagsIInvSuffices
<1> QED  BY <1>1, <1>2, <1>3, PTL DEF Alf!Spec

-------------------------------------------------------------------------------
(***************************************************************************)
(* SelloutPolicy: hiding and showing a listing.                            *)
(***************************************************************************)

\* Workers that have drafted the listing and are to record it.
Stamping == {w \in Sel!Worker : Sel!At(w, "stamp")}

\* Each attempt to publish, and the permission for the next one, has a draft of its own.
DraftsAreCovered ==
    attempts + (IF stamped THEN 1 ELSE 0) + Cardinality(Stamping) <= drafts

\* What a push knows at each of its steps.
PushFits ==
    /\ Sel!At("push", "spend") => stamped
    /\ Sel!At("push", "record") => listing.quantity = worker["push"].quantity
    /\ worker["push"].step \in {"draftGate", "draftLook", "draft", "stamp"} =>
          listing.quantity = 0

\* Between two pushes a listing that shows stock is visible, or a cause is on record.
RestIsVisible ==
    worker["push"].step \in {"idle", "send"} /\ Sel!HiddenByHub /\ listing.quantity > 0 =>
        hiding # {} \/ \E w \in Sweep : Sel!At(w, "stamp")

SelloutIInv ==
    Sel!TypeOK /\ DraftsAreCovered /\ PushFits /\ Sel!HiddenKeepsPermission /\ RestIsVisible

JobStates == {"none", "waiting", "failed"}
SelloutJobType == [step: Sel!Steps, quantity: 0..MaxStock]
ListingType == [quantity: 0..MaxStock, status: {"active", "draft"}, setBy: {"hub", "operator"}]
SelloutUsedType == [edits: 0..MaxEdits, touches: 0..MaxMishaps, failures: 0..MaxMishaps]
Causes == {"overtaken", "switchedOff", "unanswered", "error", "crash"}

LEMMA SelloutTypesUnfolded ==
    Sel!TypeOK <=> /\ onHand \in 0..MaxStock /\ desired \in 0..MaxStock
                   /\ advertised \in 0..MaxStock /\ pushJob \in JobStates
                   /\ stamped \in BOOLEAN /\ missed \in BOOLEAN /\ flagged \in BOOLEAN
                   /\ setting \in [draftAtSellout: BOOLEAN, reactivateOnRestock: BOOLEAN]
                   /\ listing \in ListingType /\ worker \in [Sel!Worker -> SelloutJobType]
                   /\ hiding \subseteq Causes /\ drafts \in Nat /\ attempts \in Nat
                   /\ selloutUsed \in SelloutUsedType
BY DEF Sel!TypeOK, SelloutJobType, ListingType, SelloutUsedType, Causes, JobStates

LEMMA SelloutInit ==
    ASSUME Sel!Parameters, Sel!Init PROVE SelloutIInv
<1>1. Sel!TypeOK
  <2>1. MaxStock \in 0..MaxStock /\ 0 \in 0..MaxStock
    BY DEF Sel!Parameters
  <2>2. worker \in [Sel!Worker -> SelloutJobType] /\ listing \in ListingType
    BY <2>1 DEF Sel!Init, Sel!Idle, SelloutJobType, Sel!Steps, ListingType
  <2>3. setting \in [draftAtSellout: BOOLEAN, reactivateOnRestock: BOOLEAN]
    BY DEF Sel!Init
  <2>4. selloutUsed \in SelloutUsedType
    BY DEF Sel!Init, SelloutUsedType, Sel!Parameters
  <2> QED  BY <2>1, <2>2, <2>3, <2>4, SelloutTypesUnfolded DEF Sel!Init, JobStates
<1>2. \A w \in Sel!Worker : worker[w].step = "idle"
  BY DEF Sel!Init, Sel!Idle
<1>3. Stamping = {}
  BY <1>2 DEF Stamping, Sel!At
<1>4. DraftsAreCovered
  BY <1>3, FS_EmptySet DEF Sel!Init, DraftsAreCovered
<1>5. "push" \in Sel!Worker
  BY DEF Sel!Worker
<1> QED
  BY <1>1, <1>2, <1>4, <1>5
     DEF SelloutIInv, Sel!Init, PushFits, Sel!At, Sel!HiddenKeepsPermission, RestIsVisible,
     Sel!HiddenByHub

\* A step of a worker leaves the others where they are, and changes its step and no more than
\* the quantity a push sends.
LEMMA Moves ==
    ASSUME worker \in [Sel!Worker -> SelloutJobType], NEW w \in Sel!Worker,
           NEW step \in Sel!Steps,
           Sel!Goto(w, step)
    PROVE  /\ worker' \in [Sel!Worker -> SelloutJobType] /\ worker'[w].step = step
           /\ worker'[w].quantity = worker[w].quantity
           /\ \A v \in Sel!Worker \ {w} : worker'[v] = worker[v]
BY DEF Sel!Goto, SelloutJobType

LEMMA Ends ==
    ASSUME Sel!Parameters, worker \in [Sel!Worker -> SelloutJobType], NEW w \in Sel!Worker,
           Sel!Done(w)
    PROVE  /\ worker' \in [Sel!Worker -> SelloutJobType] /\ worker'[w].step = "idle"
           /\ \A v \in Sel!Worker \ {w} : worker'[v] = worker[v]
BY DEF Sel!Done, Sel!Idle, SelloutJobType, Sel!Steps, Sel!Parameters

\* What every step of a worker leaves well typed.
LEMMA SelloutTypesPreserved ==
    ASSUME Sel!Parameters, Sel!TypeOK, PushFits, Sel!Next PROVE Sel!TypeOK'
<1>t. /\ onHand \in 0..MaxStock /\ desired \in 0..MaxStock /\ advertised \in 0..MaxStock
      /\ stamped \in BOOLEAN /\ missed \in BOOLEAN /\ flagged \in BOOLEAN
      /\ pushJob \in JobStates
      /\ setting \in [draftAtSellout: BOOLEAN, reactivateOnRestock: BOOLEAN]
      /\ listing \in ListingType /\ worker \in [Sel!Worker -> SelloutJobType]
      /\ hiding \subseteq Causes /\ drafts \in Nat /\ attempts \in Nat
             /\ selloutUsed \in SelloutUsedType
  BY SelloutTypesUnfolded
<1> DEFINE Goal == /\ onHand' \in 0..MaxStock /\ desired' \in 0..MaxStock
                   /\ advertised' \in 0..MaxStock /\ pushJob' \in JobStates
                   /\ stamped' \in BOOLEAN /\ missed' \in BOOLEAN /\ flagged' \in BOOLEAN
                   /\ setting' \in [draftAtSellout: BOOLEAN, reactivateOnRestock: BOOLEAN]
                   /\ listing' \in ListingType /\ worker' \in [Sel!Worker -> SelloutJobType]
                   /\ hiding' \subseteq Causes /\ drafts' \in Nat /\ attempts' \in Nat
                   /\ selloutUsed' \in SelloutUsedType
<1>g. Goal => Sel!TypeOK'
  BY DEF Sel!TypeOK, SelloutJobType, ListingType, SelloutUsedType, Causes, JobStates
<1>p. "push" \in Sel!Worker
  BY DEF Sel!Worker
<1>m. /\ \A w \in Sel!Worker : \A step \in Sel!Steps : Sel!Goto(w, step)
             => worker' \in [Sel!Worker -> SelloutJobType]
      /\ \A w \in Sel!Worker : Sel!Done(w) => worker' \in [Sel!Worker -> SelloutJobType]
  BY <1>t, Moves, Ends
<1>s. {"draftGate", "draftLook", "draft", "stamp", "activeGate", "permit", "spend", "activeLook",
       "activate", "record", "send"} \subseteq Sel!Steps
  BY DEF Sel!Steps
<1>l. /\ \A to \in {"active", "draft"} : Sel!SetStatus(to) => listing' \in ListingType
      /\ \A w \in Sel!Worker : \A failed \in BOOLEAN :
            Sel!Leave(w, failed) => worker' \in [Sel!Worker -> SelloutJobType]
                /\ flagged' \in BOOLEAN
  BY <1>t, <1>m DEF Sel!SetStatus, ListingType, Sel!Leave
<1>u. selloutUsed.failures < MaxMishaps
      /\ selloutUsed' = [selloutUsed EXCEPT !.failures = @ + 1]
             => selloutUsed' \in SelloutUsedType
  BY <1>t DEF SelloutUsedType, Sel!Parameters
<1>a. ASSUME NEW unsent \in BOOLEAN, Sel!TryAgain(unsent)
      PROVE  pushJob' \in JobStates /\ missed' \in BOOLEAN
  BY <1>a, <1>t DEF Sel!TryAgain, JobStates
<1>1. ASSUME Sel!ChangeStock PROVE Goal
  <2>1. selloutUsed' \in SelloutUsedType
    BY <1>1, <1>t DEF Sel!ChangeStock, SelloutUsedType, Sel!Parameters
  <2>2. onHand' \in 0..MaxStock /\ desired' \in 0..MaxStock
    BY <1>1, <1>t DEF Sel!ChangeStock, Sel!Parameters
  <2>3. pushJob' \in JobStates /\ missed' \in BOOLEAN
    <3>1. ASSUME NEW d \in Int, Sel!Enqueue(d) PROVE pushJob' \in JobStates /\ missed' \in BOOLEAN
      BY <3>1, <1>t DEF Sel!Enqueue, JobStates
    <3>2. CASE UNCHANGED Sel!queue
      BY <3>2, <1>t DEF Sel!queue
    <3> QED  BY <1>1, <3>1, <3>2 DEF Sel!ChangeStock, Sel!Parameters
  <2> QED  BY <1>1, <1>t, <2>1, <2>2, <2>3 DEF Sel!ChangeStock
<1>2. ASSUME Sel!ChangeSetting PROVE Goal
  <2>1. selloutUsed' \in SelloutUsedType
    BY <1>2, <1>t DEF Sel!ChangeSetting, SelloutUsedType, Sel!Parameters
  <2> QED  BY <1>2, <1>t, <2>1 DEF Sel!ChangeSetting, Sel!ledger, Sel!queue
<1>3. ASSUME Sel!TouchListing PROVE Goal
  <2>1. selloutUsed' \in SelloutUsedType
    BY <1>3, <1>t DEF Sel!TouchListing, SelloutUsedType, Sel!Parameters
  <2>2. listing' \in ListingType
    BY <1>3, <1>t DEF Sel!TouchListing, ListingType
  <2> QED  BY <1>3, <1>t, <2>1, <2>2 DEF Sel!TouchListing, Sel!ledger, Sel!queue
<1>4. ASSUME Sel!StartPush PROVE Goal
  <2>1. worker' \in [Sel!Worker -> SelloutJobType]
    BY <1>4, <1>t, <1>p, <1>s DEF Sel!StartPush, SelloutJobType
  <2> QED  BY <1>4, <1>t, <2>1 DEF Sel!StartPush, Sel!ledger, JobStates
<1>5. ASSUME Sel!SendQuantity PROVE Goal
  <2>1. worker["push"].quantity \in 0..MaxStock
    BY <1>t, <1>p DEF SelloutJobType
  <2>2. listing' \in ListingType
    BY <1>5, <1>t, <2>1 DEF Sel!SendQuantity, ListingType
  <2>3. worker' \in [Sel!Worker -> SelloutJobType] /\ selloutUsed' \in SelloutUsedType
    BY <1>5, <1>t, <1>p, <1>s, <1>m, <1>u DEF Sel!SendQuantity
  <2>4. pushJob' \in JobStates /\ missed' \in BOOLEAN
    BY <1>5, <1>t, <1>a DEF Sel!SendQuantity, Sel!queue
  <2>5. hiding' \subseteq Causes
    BY <1>5, <1>t DEF Sel!SendQuantity, Causes
  <2> QED  BY <1>5, <1>t, <2>2, <2>3, <2>4, <2>5 DEF Sel!SendQuantity, Sel!ledger
<1>6. ASSUME Sel!RecordPush PROVE Goal
  <2>1. worker["push"].quantity \in 0..MaxStock
    BY <1>t, <1>p DEF SelloutJobType
  <2>2. worker' \in [Sel!Worker -> SelloutJobType]
    BY <1>6, <1>p, <1>s, <1>m DEF Sel!RecordPush
  <2> QED  BY <1>6, <1>t, <2>1, <2>2 DEF Sel!RecordPush, Sel!ledger, Sel!queue
<1>7. ASSUME Sel!ActiveGate \/ Sel!Permit \/ Sel!Spend \/ Sel!ActiveLook \/ Sel!Activate
      PROVE  Goal
  <2>1. worker' \in [Sel!Worker -> SelloutJobType]
    BY <1>7, <1>p, <1>s, <1>m DEF Sel!ActiveGate, Sel!Permit, Sel!Spend, Sel!ActiveLook,
       Sel!Activate
  <2>2. listing' \in ListingType
    BY <1>7, <1>t, <1>l DEF Sel!ActiveGate, Sel!Permit, Sel!Spend, Sel!ActiveLook, Sel!Activate
  <2>3. hiding' \subseteq Causes
    BY <1>7, <1>t DEF Sel!ActiveGate, Sel!Permit, Sel!Spend, Sel!ActiveLook, Sel!Activate,
       Causes
  <2>4. UNCHANGED <<onHand, desired, advertised, setting, pushJob, missed, flagged, selloutUsed,
                    drafts>>
    BY <1>7 DEF Sel!ActiveGate, Sel!Permit, Sel!Spend, Sel!ActiveLook, Sel!Activate, Sel!hub,
       Sel!ledger, Sel!queue
  <2>5. stamped' \in BOOLEAN /\ attempts' \in Nat
    <3>1. \/ stamped' = stamped /\ attempts' = attempts
          \/ stamped' = FALSE /\ attempts' = attempts + 1
      BY <1>7 DEF Sel!ActiveGate, Sel!Permit, Sel!Spend, Sel!ActiveLook, Sel!Activate
    <3>2. attempts' \in Nat
      BY <3>1, <1>t
    <3>3. stamped' \in BOOLEAN
      BY <3>1, <1>t, Zenon
    <3> QED  BY <3>2, <3>3
  <2> QED  BY <1>t, <2>1, <2>2, <2>3, <2>4, <2>5
<1>8. ASSUME NEW w \in Sweep, Sel!StartSweep(w) PROVE Goal
  <2>1. worker' \in [Sel!Worker -> SelloutJobType]
    BY <1>8, <1>t, <1>s, <1>m DEF Sel!StartSweep, Sel!Worker
  <2> QED  BY <1>8, <1>t, <2>1 DEF Sel!StartSweep, Sel!ledger, Sel!queue
<1>9. ASSUME NEW w \in Sel!Worker, Sel!DraftGate(w) \/ Sel!DraftLook(w) PROVE Goal
  <2>1. worker' \in [Sel!Worker -> SelloutJobType] /\ flagged' \in BOOLEAN
    BY <1>9, <1>t, <1>s, <1>m, <1>l DEF Sel!DraftGate, Sel!DraftLook
  <2> QED  BY <1>9, <1>t, <2>1 DEF Sel!DraftGate, Sel!DraftLook, Sel!ledger, Sel!queue
<1>10. ASSUME NEW w \in Sel!Worker, Sel!Draft(w) PROVE Goal
  <2>1. worker' \in [Sel!Worker -> SelloutJobType] /\ listing' \in ListingType
    BY <1>10, <1>s, <1>m, <1>l DEF Sel!Draft
  <2> QED  BY <1>10, <1>t, <2>1 DEF Sel!Draft, Sel!ledger, Sel!queue
<1>11. ASSUME NEW w \in Sel!Worker, Sel!Stamp(w) PROVE Goal
  <2>1. worker' \in [Sel!Worker -> SelloutJobType] /\ flagged' \in BOOLEAN
    BY <1>11, <1>l DEF Sel!Stamp
  <2>2. hiding' \subseteq Causes
    BY <1>11, <1>t DEF Sel!Stamp, Causes
  <2> QED  BY <1>11, <1>t, <2>1, <2>2 DEF Sel!Stamp, Sel!ledger, Sel!queue
<1>12. ASSUME NEW w \in Sel!Worker, Sel!PlatformError(w) PROVE Goal
  <2>1. worker' \in [Sel!Worker -> SelloutJobType] /\ flagged' \in BOOLEAN
        /\ selloutUsed' \in SelloutUsedType
    BY <1>12, <1>l, <1>u DEF Sel!PlatformError
  <2>2. listing' \in ListingType /\ drafts' \in Nat /\ hiding' \subseteq Causes
    BY <1>12, <1>t, <1>l DEF Sel!PlatformError, Causes
  <2> QED  BY <1>12, <1>t, <2>1, <2>2 DEF Sel!PlatformError, Sel!ledger, Sel!queue
<1>13. ASSUME NEW w \in Sel!Worker, Sel!Crash(w) PROVE Goal
  <2>1. worker' \in [Sel!Worker -> SelloutJobType] /\ selloutUsed' \in SelloutUsedType
        /\ hiding' \subseteq Causes
    BY <1>13, <1>t, <1>m, <1>u DEF Sel!Crash, Causes
  <2>2. pushJob' \in JobStates /\ missed' \in BOOLEAN
    <3>1. CASE w = "push"
      BY <1>13, <1>a, <3>1, (worker[w].step \in {"send", "record"}) \in BOOLEAN DEF Sel!Crash
    <3>2. CASE w # "push"
      BY <1>13, <1>t, <3>2 DEF Sel!Crash, Sel!queue
    <3> QED  BY <3>1, <3>2
  <2> QED  BY <1>13, <1>t, <2>1, <2>2 DEF Sel!Crash, Sel!ledger
<1>15. ASSUME Sel!Expire PROVE Goal
  BY <1>15, <1>t DEF Sel!Expire, Sel!ledger, JobStates
<1> HIDE DEF Goal
<1>14. Goal
  BY <1>1, <1>2, <1>3, <1>4, <1>5, <1>6, <1>7, <1>8, <1>9, <1>10, <1>11, <1>12, <1>13,
     <1>15 DEF Sel!Next, Sel!Push, Sel!DraftStep
<1> QED  BY <1>g, <1>14

LEMMA SelloutWorkersAreFinite ==
    ASSUME Sel!Parameters PROVE IsFiniteSet(Sel!Worker)
<1>1. IsFiniteSet(Sweep)
  BY DEF Sel!Parameters, Sel!IsFiniteSet, IsFiniteSet
<1> QED  BY <1>1, FS_Singleton, FS_Union DEF Sel!Worker

\* Who is at which step afterwards.
LEMMA StampingSteps ==
    ASSUME Sel!Parameters, worker \in [Sel!Worker -> SelloutJobType],
           worker' \in [Sel!Worker -> SelloutJobType],
           NEW w \in Sel!Worker, \A v \in Sel!Worker \ {w} : worker'[v] = worker[v]
    PROVE  /\ Cardinality(Stamping) \in Nat /\ Cardinality(Stamping') \in Nat
           /\ Sel!At(w, "stamp") = Sel!At(w, "stamp")' => Stamping' = Stamping
           /\ Sel!At(w, "stamp") /\ ~Sel!At(w, "stamp")' =>
                 Cardinality(Stamping') = Cardinality(Stamping) - 1
           /\ ~Sel!At(w, "stamp") /\ Sel!At(w, "stamp")' =>
                 Cardinality(Stamping') = Cardinality(Stamping) + 1
<1>1. IsFiniteSet(Sel!Worker)
  BY SelloutWorkersAreFinite
<1>2. IsFiniteSet(Stamping) /\ IsFiniteSet(Stamping')
  BY <1>1, FS_Subset DEF Stamping
<1>3. Cardinality(Stamping) \in Nat /\ Cardinality(Stamping') \in Nat
  BY <1>2, FS_CardinalityType
<1>4. (Sel!At(w, "stamp") <=> Sel!At(w, "stamp")') => Stamping' = Stamping
  BY DEF Stamping, Sel!At
<1>5. ASSUME Sel!At(w, "stamp"), ~Sel!At(w, "stamp")'
      PROVE  Cardinality(Stamping') = Cardinality(Stamping) - 1
  <2>1. Stamping' = Stamping \ {w} /\ w \in Stamping
    BY <1>5 DEF Stamping, Sel!At
  <2>2. Cardinality(Stamping \ {w}) = IF w \in Stamping THEN Cardinality(Stamping) - 1
                                      ELSE Cardinality(Stamping)
    BY <1>2, FS_RemoveElement
  <2> QED  BY <2>1, <2>2
<1>6. ASSUME ~Sel!At(w, "stamp"), Sel!At(w, "stamp")'
      PROVE  Cardinality(Stamping') = Cardinality(Stamping) + 1
  <2>1. Stamping' = Stamping \cup {w} /\ w \notin Stamping
    BY <1>6 DEF Stamping, Sel!At
  <2>2. Cardinality(Stamping \cup {w}) = IF w \in Stamping THEN Cardinality(Stamping)
                                         ELSE Cardinality(Stamping) + 1
    BY <1>2, FS_AddElement
  <2> QED  BY <2>1, <2>2
<1> QED  BY <1>3, <1>4, <1>5, <1>6

\* A step of a worker that neither reaches nor leaves the stamp, and touches no count.
LEMMA SafePreserved ==
    ASSUME Sel!Parameters, SelloutIInv, Sel!Next
    PROVE  DraftsAreCovered' /\ PushFits' /\ Sel!HiddenKeepsPermission' /\ RestIsVisible'
<1>t. /\ onHand \in 0..MaxStock /\ stamped \in BOOLEAN
      /\ listing \in ListingType /\ worker \in [Sel!Worker -> SelloutJobType]
      /\ hiding \subseteq Causes /\ drafts \in Nat /\ attempts \in Nat
      /\ DraftsAreCovered /\ PushFits /\ Sel!HiddenKeepsPermission /\ RestIsVisible
  BY SelloutTypesUnfolded DEF SelloutIInv
<1>y. /\ listing' \in ListingType /\ worker' \in [Sel!Worker -> SelloutJobType]
      /\ stamped' \in BOOLEAN /\ drafts' \in Nat /\ attempts' \in Nat
  BY SelloutTypesPreserved DEF SelloutIInv, Sel!TypeOK, SelloutJobType, ListingType
<1>p. "push" \in Sel!Worker /\ Sweep \subseteq Sel!Worker /\ "push" \notin Sweep
  BY DEF Sel!Worker, Sel!Parameters
<1> DEFINE Goal == DraftsAreCovered' /\ PushFits' /\ Sel!HiddenKeepsPermission'
      /\ RestIsVisible'
<1>1. ASSUME Sel!ChangeStock \/ Sel!ChangeSetting \/ Sel!Expire PROVE Goal
  <2>1. UNCHANGED <<stamped, listing, worker, hiding, drafts, attempts>>
    BY <1>1 DEF Sel!ChangeStock, Sel!ChangeSetting, Sel!Expire
  <2> QED
    BY <2>1, <1>t DEF DraftsAreCovered, PushFits, Sel!HiddenKeepsPermission, RestIsVisible,
       Sel!HiddenByHub, Stamping, Sel!At
<1>2. ASSUME Sel!TouchListing PROVE Goal
  <2>1. listing'.setBy = "operator" /\ listing'.quantity = listing.quantity
    BY <1>2, <1>t DEF Sel!TouchListing, ListingType
  <2>2. UNCHANGED <<stamped, worker, hiding, drafts, attempts>>
    BY <1>2 DEF Sel!TouchListing
  <2> QED
    BY <2>1, <2>2, <1>t DEF DraftsAreCovered, PushFits, Sel!HiddenKeepsPermission,
       RestIsVisible,
       Sel!HiddenByHub, Stamping, Sel!At
\* A worker that is at no stamp before and after changes no count.
<1>c. ASSUME NEW w \in Sel!Worker, \A v \in Sel!Worker \ {w} : worker'[v] = worker[v],
             Sel!At(w, "stamp") = Sel!At(w, "stamp")', drafts' = drafts, attempts' = attempts,
             stamped' = stamped
      PROVE  DraftsAreCovered'
  <2>1. Stamping' = Stamping
    BY <1>c, <1>t, <1>y, StampingSteps
  <2> QED  BY <1>c, <1>t, <2>1 DEF DraftsAreCovered
<1>3. ASSUME Sel!StartPush PROVE Goal
  <2>1. /\ Sel!At("push", "idle") /\ worker'["push"].step = "send"
        /\ \A v \in Sel!Worker \ {"push"} : worker'[v] = worker[v]
        /\ UNCHANGED <<stamped, listing, hiding, drafts, attempts>>
    BY <1>3, <1>t, <1>p DEF Sel!StartPush
  <2>2. DraftsAreCovered'
    BY <2>1, <1>c, <1>p DEF Sel!At
  <2> QED
    BY <2>1, <2>2, <1>t, <1>p DEF PushFits, Sel!HiddenKeepsPermission, RestIsVisible,
       Sel!HiddenByHub, Sel!At
<1>4. ASSUME Sel!SendQuantity PROVE Goal
  <2>1. /\ Sel!At("push", "send") /\ \A v \in Sel!Worker \ {"push"} : worker'[v] = worker[v]
        /\ UNCHANGED <<stamped, drafts, attempts>>
    BY <1>4, <1>t, <1>p DEF Sel!SendQuantity, Sel!Goto, Sel!Done
  <2>2. \/ /\ worker'["push"].step = "record"
           /\ worker'["push"].quantity = worker["push"].quantity
           /\ listing'.quantity = worker["push"].quantity
           /\ listing'.status = listing.status /\ listing'.setBy = listing.setBy
           /\ hiding' = hiding
        \/ worker'["push"].step = "idle" /\ listing' = listing /\ hiding' = hiding
        \/ /\ worker'["push"].step = "idle" /\ hiding' = hiding \cup {"unanswered"}
           /\ listing'.status = listing.status /\ listing'.setBy = listing.setBy
    <3>1. CASE Sel!Goto("push", "record") /\ hiding' = hiding
               /\ listing' = [listing EXCEPT !.quantity = worker["push"].quantity]
      BY <3>1, <1>t, <1>p DEF Sel!Goto, SelloutJobType, ListingType
    <3>2. CASE Sel!Done("push") /\ UNCHANGED <<listing, hiding>>
      BY <3>2, <1>t, <1>p DEF Sel!Done, Sel!Idle, SelloutJobType
    <3>3. CASE Sel!Done("push") /\ hiding' = hiding \cup {"unanswered"}
               /\ listing' = [listing EXCEPT !.quantity = worker["push"].quantity]
      BY <3>3, <1>t, <1>p DEF Sel!Done, Sel!Idle, SelloutJobType, ListingType
    <3> QED  BY <1>4, <3>1, <3>2, <3>3 DEF Sel!SendQuantity
  <2>3. DraftsAreCovered'
    BY <2>1, <2>2, <1>c, <1>p DEF Sel!At
  <2> QED
    BY <2>1, <2>2, <2>3, <1>t, <1>p DEF PushFits, Sel!HiddenKeepsPermission, RestIsVisible,
       Sel!HiddenByHub, Sel!At
<1>5. ASSUME Sel!RecordPush PROVE Goal
  <2>1. /\ Sel!At("push", "record") /\ \A v \in Sel!Worker \ {"push"} : worker'[v] = worker[v]
        /\ worker'["push"].step =
              IF worker["push"].quantity = 0 THEN "draftGate" ELSE "activeGate"
        /\ UNCHANGED <<stamped, listing, hiding, drafts, attempts>>
    BY <1>5, <1>t, <1>p DEF Sel!RecordPush, Sel!Goto, SelloutJobType
  <2>2. DraftsAreCovered'
    BY <2>1, <1>c, <1>p DEF Sel!At
  <2> QED
    BY <2>1, <2>2, <1>t, <1>p DEF PushFits, Sel!HiddenKeepsPermission, RestIsVisible,
       Sel!HiddenByHub, Sel!At
<1>6. ASSUME Sel!ActiveGate PROVE Goal
  <2>1. /\ Sel!At("push", "activeGate")
               /\ \A v \in Sel!Worker \ {"push"} : worker'[v] = worker[v]
        /\ \/ worker'["push"].step = "permit" /\ hiding' = hiding
           \/ worker'["push"].step = "idle" /\ hiding' = hiding \cup {"switchedOff"}
        /\ UNCHANGED <<stamped, listing, drafts, attempts>>
    BY <1>6, <1>t, <1>p DEF Sel!ActiveGate, Sel!Goto, Sel!Done, Sel!Idle, SelloutJobType
  <2>2. DraftsAreCovered'
    BY <2>1, <1>c, <1>p DEF Sel!At
  <2> QED
    BY <2>1, <2>2, <1>t, <1>p DEF PushFits, Sel!HiddenKeepsPermission, RestIsVisible,
       Sel!HiddenByHub, Sel!At
<1>7. ASSUME Sel!Permit PROVE Goal
  <2>1. /\ Sel!At("push", "permit") /\ \A v \in Sel!Worker \ {"push"} : worker'[v] = worker[v]
        /\ IF stamped THEN worker'["push"].step = "spend" ELSE worker'["push"].step = "idle"
        /\ UNCHANGED <<stamped, listing, hiding, drafts, attempts>>
    BY <1>7, <1>t, <1>p DEF Sel!Permit, Sel!Goto, Sel!Done, Sel!Idle, SelloutJobType
  <2>2. DraftsAreCovered'
    BY <2>1, <1>c, <1>p DEF Sel!At
  <2>3. PushFits' /\ Sel!HiddenKeepsPermission'
    BY <2>1, <1>t, <1>p DEF PushFits, Sel!HiddenKeepsPermission, Sel!HiddenByHub, Sel!At
  <2>4. RestIsVisible'
    <3>1. SUFFICES ASSUME ~stamped, Sel!HiddenByHub, hiding = {}
                   PROVE  \E w \in Sweep : Sel!At(w, "stamp")'
      BY <2>1 DEF RestIsVisible, Sel!HiddenByHub, Sel!At
    <3>2. \E w \in Sel!Worker : Sel!At(w, "stamp")
      BY <2>1, <3>1, <1>t DEF Sel!HiddenKeepsPermission, Sel!At
    <3> QED  BY <2>1, <3>2, <1>p DEF Sel!Worker, Sel!At
  <2> QED  BY <2>2, <2>3, <2>4
<1>8. ASSUME Sel!Spend PROVE Goal
  <2>1. /\ Sel!At("push", "spend") /\ \A v \in Sel!Worker \ {"push"} : worker'[v] = worker[v]
        /\ worker'["push"].step = "activeLook" /\ ~stamped' /\ attempts' = attempts + 1
        /\ UNCHANGED <<listing, hiding, drafts>>
    BY <1>8, <1>t, <1>p DEF Sel!Spend, Sel!Goto, SelloutJobType
  <2>2. stamped
    BY <2>1, <1>t DEF PushFits
  <2>3. Stamping' = Stamping /\ Cardinality(Stamping) \in Nat
    BY <2>1, <1>t, <1>y, <1>p, StampingSteps DEF Sel!At
  <2>4. DraftsAreCovered'
    BY <2>1, <2>2, <2>3, <1>t DEF DraftsAreCovered
  <2> QED
    BY <2>1, <2>4, <1>t, <1>p DEF PushFits, Sel!HiddenKeepsPermission, RestIsVisible,
       Sel!HiddenByHub, Sel!At
<1>9. ASSUME Sel!ActiveLook PROVE Goal
  <2>1. /\ Sel!At("push", "activeLook")
               /\ \A v \in Sel!Worker \ {"push"} : worker'[v] = worker[v]
        /\ IF listing.status = "draft" THEN worker'["push"].step = "activate"
                                       ELSE worker'["push"].step = "idle"
        /\ UNCHANGED <<stamped, listing, hiding, drafts, attempts>>
    BY <1>9, <1>t, <1>p DEF Sel!ActiveLook, Sel!Goto, Sel!Done, Sel!Idle, SelloutJobType
  <2>2. DraftsAreCovered'
    BY <2>1, <1>c, <1>p DEF Sel!At
  <2> QED
    BY <2>1, <2>2, <1>t, <1>p DEF PushFits, Sel!HiddenKeepsPermission, RestIsVisible,
       Sel!HiddenByHub, Sel!At
<1>10. ASSUME Sel!Activate PROVE Goal
  <2>1. /\ Sel!At("push", "activate") /\ \A v \in Sel!Worker \ {"push"} : worker'[v] = worker[v]
        /\ worker'["push"].step = "idle" /\ listing'.status = "active"
        /\ UNCHANGED <<stamped, hiding, drafts, attempts>>
    BY <1>10, <1>t, <1>p DEF Sel!Activate, Sel!SetStatus, Sel!Done, Sel!Idle, SelloutJobType,
       ListingType
  <2>2. DraftsAreCovered'
    BY <2>1, <1>c, <1>p DEF Sel!At
  <2> QED
    BY <2>1, <2>2, <1>t, <1>p DEF PushFits, Sel!HiddenKeepsPermission, RestIsVisible,
       Sel!HiddenByHub, Sel!At
<1>11. ASSUME NEW w \in Sweep, Sel!StartSweep(w) PROVE Goal
  <2>1. /\ Sel!At(w, "idle") /\ \A v \in Sel!Worker \ {w} : worker'[v] = worker[v]
        /\ worker'[w].step \in {"idle", "draftGate"}
        /\ UNCHANGED <<stamped, listing, hiding, drafts, attempts>>
    BY <1>11, <1>t, <1>p DEF Sel!StartSweep, Sel!Goto, SelloutJobType, Sel!At
  <2>2. DraftsAreCovered'
    BY <2>1, <1>c, <1>p DEF Sel!At
  <2> QED
    BY <2>1, <2>2, <1>t, <1>p DEF PushFits, Sel!HiddenKeepsPermission, RestIsVisible,
       Sel!HiddenByHub, Sel!At
<1>12. ASSUME NEW w \in Sel!Worker, Sel!DraftGate(w) \/ Sel!DraftLook(w) PROVE Goal
  <2>1. /\ worker[w].step \in {"draftGate", "draftLook"}
        /\ \A v \in Sel!Worker \ {w} : worker'[v] = worker[v]
        /\ worker'[w].step \in {"idle", "draftLook", "draft"}
        /\ UNCHANGED <<stamped, listing, hiding, drafts, attempts>>
    <3>1. CASE Sel!DraftGate(w)
      <4>1. \/ Sel!Goto(w, "draftLook")
            \/ Sel!Done(w)
        BY <3>1 DEF Sel!DraftGate, Sel!Leave
      <4> QED
        BY <3>1, <4>1, <1>12, <1>t DEF Sel!DraftGate, Sel!Goto, Sel!Done, Sel!Idle,
           SelloutJobType, Sel!At
    <3>2. CASE Sel!DraftLook(w)
      <4>1. \/ Sel!Goto(w, "draft")
            \/ Sel!Done(w)
        BY <3>2 DEF Sel!DraftLook, Sel!Leave
      <4> QED
        BY <3>2, <4>1, <1>12, <1>t DEF Sel!DraftLook, Sel!Goto, Sel!Done, Sel!Idle,
           SelloutJobType, Sel!At
    <3> QED  BY <1>12, <3>1, <3>2
  <2>2. DraftsAreCovered'
    BY <2>1, <1>c, <1>p DEF Sel!At
  <2> QED
    BY <2>1, <2>2, <1>t, <1>p DEF PushFits, Sel!HiddenKeepsPermission, RestIsVisible,
       Sel!HiddenByHub, Sel!At
<1>13. ASSUME NEW w \in Sel!Worker, Sel!Draft(w) PROVE Goal
  <2>1. /\ Sel!At(w, "draft") /\ \A v \in Sel!Worker \ {w} : worker'[v] = worker[v]
        /\ worker'[w].step = "stamp" /\ listing'.quantity = listing.quantity
        /\ drafts' = drafts + 1
        /\ UNCHANGED <<stamped, hiding, attempts>>
    BY <1>13, <1>t, <1>p DEF Sel!Draft, Sel!SetStatus, Sel!Goto, SelloutJobType, ListingType
  <2>2. Cardinality(Stamping') = Cardinality(Stamping) + 1 /\ Cardinality(Stamping) \in Nat
    BY <2>1, <1>t, <1>y, <1>p, StampingSteps DEF Sel!At
  <2>3. DraftsAreCovered'
    BY <2>1, <2>2, <1>t DEF DraftsAreCovered
  <2> QED
    BY <2>1, <2>3, <1>t, <1>p DEF PushFits, Sel!HiddenKeepsPermission, RestIsVisible,
       Sel!HiddenByHub,
       Sel!At, Sel!Worker
<1>14. ASSUME NEW w \in Sel!Worker, Sel!Stamp(w) PROVE Goal
  <2>1. /\ Sel!At(w, "stamp") /\ \A v \in Sel!Worker \ {w} : worker'[v] = worker[v]
        /\ worker'[w].step = "idle" /\ stamped'
        /\ hiding \subseteq hiding' /\ (listing.quantity > 0 => hiding' # {})
        /\ hiding' \subseteq hiding \cup {"overtaken"}
        /\ UNCHANGED <<listing, drafts, attempts>>
    BY <1>14, <1>t, <1>p DEF Sel!Stamp, Sel!Leave, Sel!Done, Sel!Idle, SelloutJobType
  <2>2. /\ Cardinality(Stamping') = Cardinality(Stamping) - 1
        /\ Cardinality(Stamping) \in Nat /\ Cardinality(Stamping') \in Nat
    BY <2>1, <1>t, <1>y, <1>p, StampingSteps DEF Sel!At
  <2>3. DraftsAreCovered'
    BY <2>1, <2>2, <1>t DEF DraftsAreCovered
  <2> QED
    BY <2>1, <2>3, <1>t, <1>p DEF PushFits, Sel!HiddenKeepsPermission, RestIsVisible,
       Sel!HiddenByHub, Sel!At
<1>15. ASSUME NEW w \in Sel!Worker, Sel!PlatformError(w) PROVE Goal
  <2>1. /\ worker[w].step \in Sel!Asking /\ \A v \in Sel!Worker \ {w} : worker'[v] = worker[v]
        /\ worker'[w].step = "idle" /\ hiding' = hiding \cup {"error"}
        /\ listing'.quantity = listing.quantity
        /\ UNCHANGED <<stamped, attempts>>
    BY <1>15, <1>t, <1>p DEF Sel!PlatformError, Sel!Leave, Sel!SetStatus, Sel!Done, Sel!Idle,
       SelloutJobType, ListingType
  <2>2. drafts' >= drafts
    BY <1>15, <1>t DEF Sel!PlatformError
  <2>3. Stamping' = Stamping /\ Cardinality(Stamping) \in Nat
    BY <2>1, <1>t, <1>y, <1>p, StampingSteps DEF Sel!At, Sel!Asking
  <2>4. DraftsAreCovered'
    BY <2>1, <2>2, <2>3, <1>t, <1>y DEF DraftsAreCovered
  <2> QED
    BY <2>1, <2>4, <1>t, <1>p DEF PushFits, Sel!HiddenKeepsPermission, RestIsVisible,
       Sel!HiddenByHub,
       Sel!At, Sel!Asking
<1>16. ASSUME NEW w \in Sel!Worker, Sel!Crash(w) PROVE Goal
  <2>1. /\ \A v \in Sel!Worker \ {w} : worker'[v] = worker[v]
        /\ worker'[w].step = "idle" /\ hiding' = hiding \cup {"crash"}
        /\ UNCHANGED <<stamped, listing, drafts, attempts>>
    BY <1>16, <1>t, <1>p DEF Sel!Crash, Sel!Done, Sel!Idle, SelloutJobType
  <2>2. /\ Cardinality(Stamping') <= Cardinality(Stamping)
        /\ Cardinality(Stamping) \in Nat /\ Cardinality(Stamping') \in Nat
    BY <2>1, <1>t, <1>y, <1>p, StampingSteps DEF Sel!At
  <2>3. DraftsAreCovered'
    BY <2>1, <2>2, <1>t DEF DraftsAreCovered
  <2> QED
    BY <2>1, <2>3, <1>t, <1>p DEF PushFits, Sel!HiddenKeepsPermission, RestIsVisible,
       Sel!HiddenByHub, Sel!At
<1> HIDE DEF Goal
<1>17. Goal
  BY <1>1, <1>2, <1>3, <1>4, <1>5, <1>6, <1>7, <1>8, <1>9, <1>10, <1>11, <1>12, <1>13, <1>14,
     <1>15, <1>16 DEF Sel!Next, Sel!Push, Sel!DraftStep
<1> QED  BY <1>17 DEF Goal

LEMMA SelloutStep ==
    ASSUME Sel!Parameters, SelloutIInv, [Sel!Next]_(Sel!vars) PROVE SelloutIInv'
<1>1. CASE Sel!Next
  BY <1>1, SelloutTypesPreserved, SafePreserved DEF SelloutIInv
<1>2. CASE UNCHANGED Sel!vars
  BY <1>2 DEF Sel!vars, Sel!ledger, Sel!queue, SelloutIInv, Sel!TypeOK, DraftsAreCovered, PushFits,
     Sel!HiddenKeepsPermission,
     RestIsVisible, Sel!HiddenByHub, Stamping, Sel!At
<1> QED  BY <1>1, <1>2

LEMMA SelloutIInvSuffices ==
    ASSUME Sel!Parameters, SelloutIInv
    PROVE  Sel!TypeOK /\ Sel!RestockedIsVisible /\ Sel!StampIsOneAttempt
<1>1. Sel!RestockedIsVisible
  BY DEF SelloutIInv, RestIsVisible, Sel!RestockedIsVisible, Sel!At
<1>2. worker \in [Sel!Worker -> SelloutJobType] /\ drafts \in Nat /\ attempts \in Nat
  BY SelloutTypesUnfolded DEF SelloutIInv
<1>3. IsFiniteSet(Sel!Worker)
  BY SelloutWorkersAreFinite
<1>4. Cardinality(Stamping) \in Nat
  BY <1>3, FS_Subset, FS_CardinalityType DEF Stamping
<1>5. Sel!OneAttemptPerDraft
  BY <1>2, <1>4 DEF SelloutIInv, DraftsAreCovered, Sel!OneAttemptPerDraft
<1> QED  BY <1>1, <1>5 DEF SelloutIInv, Sel!StampIsOneAttempt

\* A listing the hub drafted is visible once it shows stock, or one of the named causes
\* occurred; and the stamp is the permission for one attempt: there for as long as the
\* attempt is owed, and no longer (draftIfSoldOut, reactivateIfRestocked).
THEOREM SelloutIsSound ==
    ASSUME Sel!Parameters
    PROVE  Sel!Spec => [](Sel!TypeOK /\ Sel!RestockedIsVisible /\ Sel!StampIsOneAttempt)
<1>1. Sel!Init => SelloutIInv
  BY SelloutInit
<1>2. SelloutIInv /\ [Sel!Next]_(Sel!vars) => SelloutIInv'
  BY SelloutStep
<1>3. SelloutIInv => Sel!TypeOK /\ Sel!RestockedIsVisible /\ Sel!StampIsOneAttempt
  BY SelloutIInvSuffices
<1> QED  BY <1>1, <1>2, <1>3, PTL DEF Sel!Spec

-------------------------------------------------------------------------------
(***************************************************************************)
(* The three side by side, as the runs have them.                          *)
(***************************************************************************)

LEMMA SideBySide ==
    [AllNext]_allVars => [Next]_vars /\ [Alf!Next]_(Alf!vars) /\ [Sel!Next]_(Sel!vars)
BY DEF AllNext, allVars, Pricing, Flagging, Selling, Syncing, Signing, pricing, flags,
   sellout, Alf!vars, Sel!vars, Sel!ledger, Sel!queue

\* Whatever a behaviour is about: few flags, each mailed at its severity; a restocked listing
\* is visible, and drafting and publishing go by turns.
THEOREM SweepsStaySound == AllSpec => []SweepsAreSound
<1>1. AllInit => FlagsIInv /\ SelloutIInv
  BY FlagsInit, SelloutInit, FlagParameters, SelloutParameters DEF AllInit
<1>2. FlagsIInv /\ SelloutIInv /\ [AllNext]_allVars => (FlagsIInv /\ SelloutIInv)'
  BY SideBySide, FlagsStep, SelloutStep, FlagParameters, SelloutParameters
<1>3. FlagsIInv /\ SelloutIInv => SweepsAreSound
  BY FlagsIInvSuffices, SelloutIInvSuffices, FlagParameters, SelloutParameters
     DEF SweepsAreSound
<1> QED  BY <1>1, <1>2, <1>3, PTL DEF AllSpec

\* Whatever a behaviour is about: every price the hub writes was decided.
THEOREM PricesStayDecided == AllSpec => PricesAreDecided
<1>1. AllInit => IInv
  BY InitEstablishes, RepricingParameters DEF AllInit
<1>2. IInv /\ [AllNext]_allVars => IInv'
  BY SideBySide, StepPreserves, RepricingParameters
<1>3. IInv => AppliedAsReviewed
  BY DEF IInv
<1>4. IInv /\ [AllNext]_allVars =>
        [\A s \in Sweep :
            sweep[s].step = "auto" /\ price' # price /\ sweep'[s].step = "push" =>
                \/ sweep[s].edited
                \/ \E p \in Policy : price # None /\ p.enabled
                                        /\ WithinLimit(p, price, price')]_vars
  BY SideBySide, AutomaticIsSmall, RepricingParameters
<1> QED  BY <1>1, <1>2, <1>3, <1>4, PTL
            DEF AllSpec, PricesAreDecided, OnlySmallMovesAreAutomatic

================================================================================
