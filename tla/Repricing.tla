-------------------------------- MODULE Repricing --------------------------------
(***************************************************************************)
(* The price of one allocation under RepriceService: sweeps that load the  *)
(* allocation, fetch the market's figure for minutes, and then apply or    *)
(* propose a price; an operator who edits prices and policies meanwhile;   *)
(* and a reviewer who decides about a proposal from a list read earlier.   *)
(* AlertFlags follows the flag that says proposals wait.                   *)
(***************************************************************************)
EXTENDS RepricingPolicy

CONSTANTS
    Sweep,          \* "nightly", and those asked for by hand
    Figure,         \* what the market may say a card costs
    Policy,         \* the policies an operator may save
    MaxChanges,     \* market moves, edits of the price and of the policy, disablings
    MaxReviews,     \* times the proposals are listed to decide about one
    MaxMishaps      \* sweeps and requests that die half way, and pushes that fail

\* What the theorems about this module assume: figures are cents, policies are policies.
Parameters ==
    /\ Figure \subseteq Nat
    /\ Policy \subseteq PolicyType
    /\ None \notin Nat
    /\ None \notin Sweep
    /\ MaxChanges \in Nat /\ MaxReviews \in Nat /\ MaxMishaps \in Nat

VARIABLES
    market,         \* the figure for the card, or None; also while none is in stock
    policy,         \* the channel's policy
    price,          \* ChannelAllocation.price
    proposal,       \* the proposed price in the allocation's row, or None
    sweep,          \* per sweep: where it is and what it has read
    review,         \* the reviewer: the same
    push,           \* the queue's job for the price, and the price its attempt has read
    shown,          \* the price on the channel
    used,           \* changes, reviews and mishaps so far
    lapse           \* what raced or broke off: see the properties

vars == <<market, policy, price, proposal, sweep, review, push, shown, used, lapse>>

Resting == [step |-> "idle", base |-> None, target |-> None, edited |-> FALSE]
Away == [step |-> "idle", seen |-> None, live |-> FALSE, price |-> None]

Init ==
    /\ market \in Figure
    /\ policy \in Policy
    /\ price \in Figure \cup {None}
    /\ proposal = None
    /\ sweep = [s \in Sweep |-> Resting]
    /\ review = Away
    /\ push = [job |-> "none", sent |-> None]
    /\ shown = price
    /\ used = [changes |-> 0, reviews |-> 0, mishaps |-> 0]
    /\ lapse = {}

Use(what) == used' = [used EXCEPT ![what] = @ + 1]

\* A price is written: a sweep that has read the one before works from a stale figure.
SetPrice(cents, by) ==
    /\ price' = cents
    /\ sweep' = [s \in Sweep |->
                   IF s = by THEN [sweep[s] EXCEPT !.step = "push"]
                   ELSE IF sweep[s].step = "idle" \/ cents = price THEN sweep[s]
                   ELSE [sweep[s] EXCEPT !.edited = TRUE]]

\* A row that is deleted takes with it the id a reviewer holds.
DropProposal == proposal' = None /\ review' = [review EXCEPT !.live = FALSE]

-------------------------------------------------------------------------------
(***************************************************************************)
(* The push of a price: the queue holds one job per allocation, waiting,   *)
(* running or kept as failed, and drops what is added meanwhile.           *)
(***************************************************************************)

\* A push is queued: what an addition that is dropped leaves behind, given the price it was for.
Enqueue(cents) ==
    /\ push' = [push EXCEPT !.job = IF @ = "none" THEN "waiting" ELSE @]
    /\ lapse' = lapse \cup {l \in {"held"} : push.job = "failed"}
                      \cup {l \in {"swallowed"} : push.job = "active" /\ push.sent # cents}

\* An attempt reads the price the allocation has by then, whatever was missed before ...
StartPush ==
    /\ push.job = "waiting"
    /\ push' = [job |-> "active", sent |-> price]
    /\ lapse' = lapse \cap {"refreshed"}
    /\ UNCHANGED <<market, policy, price, proposal, sweep, review, shown, used>>

\* ... and sends what it read.
FinishPush ==
    /\ push.job = "active"
    /\ shown' = push.sent
    /\ push' = [job |-> "none", sent |-> None]
    /\ UNCHANGED <<market, policy, price, proposal, sweep, review, used, lapse>>

\* An attempt fails, is not answered, or its worker dies: the job waits for another, or this
\* was the last, and the job keeps its id.
FailPush ==
    /\ push.job = "active"
    /\ used.mishaps < MaxMishaps /\ Use("mishaps")
    /\ shown' \in {shown, push.sent}
    /\ \E last \in BOOLEAN :
        /\ push' = [job |-> IF last THEN "failed" ELSE "waiting", sent |-> None]
        /\ lapse' = lapse \cup {l \in {"failed"} : last}
    /\ UNCHANGED <<market, policy, price, proposal, sweep, review>>

\* The channel is disabled while the job waits: it ends in silence.
SkipPush ==
    /\ push.job = "waiting"
    /\ used.changes < MaxChanges /\ Use("changes")
    /\ push' = [push EXCEPT !.job = "none"]
    /\ lapse' = lapse \cup {"disabled"}
    /\ UNCHANGED <<market, policy, price, proposal, sweep, review, shown>>

\* A failed job is dropped after a week.
Expire ==
    /\ push.job = "failed"
    /\ push' = [push EXCEPT !.job = "none"]
    /\ UNCHANGED <<market, policy, price, proposal, sweep, review, shown, used, lapse>>

Push == StartPush \/ FinishPush

-------------------------------------------------------------------------------
MoveMarket ==
    /\ used.changes < MaxChanges /\ Use("changes")
    /\ market' \in (Figure \cup {None}) \ {market}
    /\ UNCHANGED <<policy, price, proposal, sweep, review, push, shown, lapse>>

SavePolicy ==
    /\ used.changes < MaxChanges /\ Use("changes")
    /\ policy' \in Policy \ {policy}
    /\ UNCHANGED <<market, price, proposal, sweep, review, push, shown, lapse>>

\* The operator prices the card by hand; the ledger pushes what it is told.
EditPrice ==
    /\ used.changes < MaxChanges /\ Use("changes")
    /\ \E cents \in Figure \ {price} : SetPrice(cents, None) /\ Enqueue(cents)
    /\ UNCHANGED <<market, policy, proposal, review, shown>>

-------------------------------------------------------------------------------
Goto(s, step) == sweep' = [sweep EXCEPT ![s].step = step]

\* The allocation is loaded, then the market is asked.
Load(s) ==
    /\ sweep[s].step = "idle"
    /\ sweep' = [sweep EXCEPT ![s] = [Resting EXCEPT !.step = "fetch", !.base = price]]
    /\ UNCHANGED <<market, policy, price, proposal, review, push, shown, used, lapse>>

Action(s) == CHOOSE a \in {"skip", "auto", "review"} :
                a = ClassifyChange(policy, sweep[s].base, TargetPrice(policy, market))

\* The figure arrives, the policies are read, and the move is classified against the price
\* that was loaded.  A channel without an active policy is passed over.
Fetch(s) ==
    /\ sweep[s].step = "fetch"
    /\ LET target == TargetPrice(policy, market)
       IN  sweep' = [sweep EXCEPT ![s] =
              IF ~IsRepricingActive(policy) THEN Resting
              ELSE IF target = None THEN [@ EXCEPT !.step = "drop"]
              ELSE [@ EXCEPT !.target = target,
                             !.step = IF Action(s) = "skip" THEN "drop" ELSE Action(s)]]
    /\ UNCHANGED <<market, policy, price, proposal, review, push, shown, used, lapse>>

\* applyPrice: the column is written whatever it holds by now, then the push is queued.
AutoApply(s) ==
    /\ sweep[s].step = "auto"
    /\ SetPrice(sweep[s].target, s)
    /\ UNCHANGED <<market, policy, proposal, review, push, shown, used, lapse>>

QueuePush(s) ==
    /\ sweep[s].step = "push"
    /\ Enqueue(price)
    /\ Goto(s, "drop")
    /\ UNCHANGED <<market, policy, price, proposal, review, shown, used>>

\* Mutant of Drop: a proposal the market no longer calls for waits on.
DropNothing(s) ==
    /\ sweep[s].step = "drop"
    /\ sweep' = [sweep EXCEPT ![s] = Resting]
    /\ UNCHANGED <<market, policy, price, proposal, review, push, shown, used, lapse>>

\* What is applied, or calls for no change, is no longer proposed.
Drop(s) ==
    /\ sweep[s].step = "drop"
    /\ DropProposal
    /\ sweep' = [sweep EXCEPT ![s] = Resting]
    /\ UNCHANGED <<market, policy, price, push, shown, used, lapse>>

\* At most one proposal per allocation: a newer one replaces it under the same id.
Propose(s) ==
    /\ sweep[s].step = "review"
    /\ proposal' = sweep[s].target
    /\ lapse' = lapse \cup {l \in {"refreshed"} : review.live /\ proposal # sweep[s].target}
    /\ sweep' = [sweep EXCEPT ![s] = Resting]
    /\ UNCHANGED <<market, policy, price, review, push, shown, used>>

-------------------------------------------------------------------------------
\* The proposals are listed: a reviewer sees a figure, and an id to decide about.
List ==
    /\ review.step = "idle" /\ proposal # None
    /\ used.reviews < MaxReviews /\ Use("reviews")
    /\ review' = [Away EXCEPT !.step = "listed", !.seen = proposal, !.live = TRUE]
    /\ UNCHANGED <<market, policy, price, proposal, sweep, push, shown, lapse>>

\* applyProposal finds the row by its id, and takes the figure it has now.
Apply ==
    /\ review.step = "listed"
    /\ review' = IF review.live
                 THEN [review EXCEPT !.step = "write", !.price = proposal] ELSE Away
    /\ UNCHANGED <<market, policy, price, proposal, sweep, push, shown, used, lapse>>

WriteReviewed ==
    /\ review.step = "write"
    /\ SetPrice(review.price, None)
    /\ review' = [review EXCEPT !.step = "push"]
    /\ UNCHANGED <<market, policy, proposal, push, shown, used, lapse>>

PushReviewed ==
    /\ review.step = "push"
    /\ Enqueue(price)
    /\ review' = [review EXCEPT !.step = "clear"]
    /\ UNCHANGED <<market, policy, price, proposal, sweep, shown, used>>

\* The row is deleted by its id, whatever figure it has now.
ClearReviewed ==
    /\ review.step = "clear"
    /\ proposal' = IF review.live THEN None ELSE proposal
    /\ review' = Away
    /\ UNCHANGED <<market, policy, price, sweep, push, shown, used, lapse>>

\* Not remembered: the next sweep proposes it again.
Dismiss ==
    /\ review.step = "listed"
    /\ proposal' = IF review.live THEN None ELSE proposal
    /\ review' = Away
    /\ UNCHANGED <<market, policy, price, sweep, push, shown, used, lapse>>

\* A sweep or a request dies; a price it wrote is then never pushed on its account.
Die ==
    /\ used.mishaps < MaxMishaps /\ Use("mishaps")
    /\ \/ \E s \in Sweep :
             /\ sweep[s].step # "idle"
             /\ sweep' = [sweep EXCEPT ![s] = Resting] /\ UNCHANGED review
             /\ lapse' = lapse \cup {l \in {"unpushed"} : sweep[s].step = "push"}
       \/ /\ review.step \in {"write", "push", "clear"}
          /\ review' = Away /\ UNCHANGED sweep
          /\ lapse' = lapse \cup {l \in {"unpushed"} : review.step = "push"}
    /\ UNCHANGED <<market, policy, price, proposal, push, shown>>

SweepNext(s) ==
    Load(s) \/ Fetch(s) \/ AutoApply(s) \/ QueuePush(s) \/ Drop(s) \/ Propose(s)
ReviewNext == WriteReviewed \/ PushReviewed \/ ClearReviewed

Next ==
    \/ MoveMarket \/ SavePolicy \/ EditPrice
    \/ Push \/ FailPush \/ SkipPush \/ Expire
    \/ \E s \in Sweep : SweepNext(s)
    \/ List \/ Apply \/ Dismiss \/ ReviewNext
    \/ Die

\* The nightly schedule, the outbound worker, and requests that were begun.
Fairness ==
    /\ WF_vars(Push)
    /\ \A s \in Sweep : WF_vars(SweepNext(s))
    /\ WF_vars(ReviewNext)

Spec == Init /\ [][Next]_vars /\ Fairness

-------------------------------------------------------------------------------
Cents == Nat \cup {None}

\* What may leave the channel at another price until an attempt reads the price again: a
\* death before the push was queued, an addition that was dropped because the job had read
\* or had failed, a last attempt that failed, and a channel that was disabled.
Missed == {"unpushed", "swallowed", "held", "failed", "disabled"}

TypeOK ==
    /\ market \in Cents /\ price \in Cents /\ shown \in Cents /\ proposal \in Cents
    /\ policy \in PolicyType
    /\ sweep \in [Sweep -> [step: {"idle", "fetch", "drop", "auto", "push", "review"},
                            base: Cents, target: Cents, edited: BOOLEAN]]
    /\ review \in [step: {"idle", "listed", "write", "push", "clear"}, seen: Cents,
                   live: BOOLEAN, price: Cents]
    /\ push \in [job: {"none", "waiting", "active", "failed"}, sent: Cents]
    /\ used \in [changes: 0..MaxChanges, reviews: 0..MaxReviews, mishaps: 0..MaxMishaps]
    /\ lapse \subseteq {"refreshed"} \cup Missed

\* "Moves larger than a channel's auto-apply threshold" wait for a human: what a sweep
\* writes is within the limit, in its direction, of the price it replaces, under a policy
\* the operator had; unless the price was written while the sweep was at the market.
OnlySmallMovesAreAutomatic ==
    [][\A s \in Sweep :
          sweep[s].step = "auto" /\ price' # price /\ sweep'[s].step = "push" =>
              \/ sweep[s].edited
              \/ \E p \in Policy : price # None /\ p.enabled /\ WithinLimit(p, price, price')]_vars

\* A reviewer's decision is about the figure they saw, unless a sweep refreshed the row in
\* place after it was listed.  A row dismissed, or settled by a sweep, is never applied.
AppliedAsReviewed ==
    review.step \in {"write", "push", "clear"} =>
        review.price = review.seen \/ "refreshed" \in lapse

\* Once the market and the operator rest, an active policy's price is the channel's, or a
\* proposal with today's figure waits for a decision; and no older proposal does.
MarketIsFollowed ==
    <>[](LET target == TargetPrice(policy, market)
         IN  IsRepricingActive(policy) =>
                \/ target = None /\ proposal = None
                \/ target # None /\ proposal \in {None, target}
                   /\ (proposal = None => price # None /\ Unremarkable(policy, price, target)))

\* Whatever an operator, a sweep or a reviewer decided is what the channel shows in the end,
\* through failed attempts and lost answers, unless something was missed since the price was
\* last read for a push.
DecisionsReachChannel == <>[](shown = price \/ lapse \cap Missed # {})

\* Every price the hub writes was decided: by the limit, or by a reviewer.
PricesAreDecided == []AppliedAsReviewed /\ OnlySmallMovesAreAutomatic

\* The channel follows the market and the decisions.
ChannelFollows == MarketIsFollowed /\ DecisionsReachChannel
===============================================================================
