----------------------------- MODULE BulkAllocation -----------------------------
(***************************************************************************)
(* BulkAllocateService, and MarketPriceService below it: several items are *)
(* put on a channel in one run, each at the price the repricing sweep      *)
(* would ask for.  The run reads the channel's policy, then the items and  *)
(* the figures recorded for them, then asks the sources for what has none, *)
(* and writes one allocation after the other.  Operators, the sweep that   *)
(* records figures and the sources go on meanwhile, and items go with      *)
(* their cards: what the run does not find it drops without a word.        *)
(*                                                                         *)
(* An item is one printing of one card here.  What the sweep does with the *)
(* prices of allocations is the module Repricing.                          *)
(***************************************************************************)
EXTENDS RepricingPolicy, FiniteSets

CONSTANTS
    Item,
    Figure,         \* what a source may say a card costs, in cents
    Policy,         \* the policies an operator may save
    MaxChanges,     \* figures that move, edits of allocations and of the policy
    MaxRuns,
    MaxMishaps,     \* writes that fail and runs that die
    Null

VARIABLES
    stock,          \* the items that exist
    market,         \* per item and source: the figure it publishes, or None
    recorded,       \* MarketPrice, per item and source: the figure, or None
    policy,         \* the channel's policy
    allocation,     \* per item: its allocation on the channel, or Null
    run,            \* the run under way
    used,
    lapse           \* per item: what changed between the plan and now, or was old in the plan

vars == <<stock, market, recorded, policy, allocation, run, used, lapse>>

Source == {"tcgcsv", "scryfall"}
Mode == {"fixed", "pooled"}
Cause == {"moved", "policy", "edited", "old", "gone"}

Parameters ==
    /\ IsFiniteSet(Item) /\ Policy \subseteq PolicyType
    /\ Figure \subseteq Nat /\ \E f \in Figure : \A g \in Figure : f <= g
    /\ None \notin Nat /\ None \notin Source /\ None \notin Source \X Nat
    /\ Null \notin Policy /\ Null \notin [mode: Mode, price: Nat]
    /\ MaxChanges \in Nat /\ MaxRuns \in Nat /\ MaxMishaps \in Nat

Lowest == CHOOSE f \in Figure : \A g \in Figure : f <= g

\* What an operator sets is told from what a run writes by its price.
ByHand(mode) == [mode |-> mode, price |-> Lowest]

Resting == [step |-> "idle", asked |-> {}, policy |-> Null, seen |-> {}, stored |-> {},
            price |-> [i \in Item |-> None], todo |-> {},
            allocated |-> {}, skipped |-> {}, problems |-> {}]

Init ==
    /\ stock = Item
    /\ market = [i \in Item |-> [s \in Source |-> Lowest]]
    /\ recorded \in [Item -> {[s \in Source |-> None]}
                               \cup {[s \in Source |-> IF s = "tcgcsv" THEN f ELSE None] :
                                        f \in Figure}]
    /\ policy \in Policy
    /\ allocation \in [Item -> {Null, ByHand("fixed")}]
    /\ run = Resting
    /\ used = [changes |-> 0, runs |-> 0, mishaps |-> 0]
    /\ lapse = [i \in Item |-> {}]

Use(what, most) == used[what] < most /\ used' = [used EXCEPT ![what] = @ + 1]

\* What happens after a run has read an item counts against its price.
Note(is, cause) ==
    lapse' = [i \in Item |-> IF i \in is /\ (run.step # "idle" \/ i \in run.allocated)
                             THEN lapse[i] \cup {cause} ELSE lapse[i]]

-------------------------------------------------------------------------------
\* A source publishes another figure, drops a card or takes one up, or is out of reach.
MoveMarket ==
    /\ Use("changes", MaxChanges)
    /\ \E i \in Item, s \in Source, f \in Figure \cup {None} :
          /\ f # market[i][s]
          /\ market' = [market EXCEPT ![i][s] = f]
          /\ Note({i}, "moved")
    /\ UNCHANGED <<stock, recorded, policy, allocation, run>>

SavePolicy ==
    /\ Use("changes", MaxChanges)
    /\ policy' \in Policy \ {policy}
    /\ Note(Item, "policy")
    /\ UNCHANGED <<stock, market, recorded, allocation, run>>

\* An operator puts an item on the channel, changes its allocation, or takes it off.
EditAllocation ==
    /\ Use("changes", MaxChanges)
    /\ \E i \in stock, a \in {Null} \cup {ByHand(m) : m \in Mode} :
          /\ a # allocation[i]
          /\ allocation' = [allocation EXCEPT ![i] = a]
          /\ Note({i}, "edited")
    /\ UNCHANGED <<stock, market, recorded, policy, run>>

\* The item's card is removed, as by a merge, and takes item and allocation with it.
Vanish(i) ==
    /\ i \in stock
    /\ stock' = stock \ {i}
    /\ allocation' = [allocation EXCEPT ![i] = Null]
    /\ Note({i}, "gone")
    /\ UNCHANGED <<market, recorded, policy, run, used>>

\* The first source in order of preference that has a figure.
Preferred(figures) ==
    IF figures["tcgcsv"] # None THEN "tcgcsv"
    ELSE IF figures["scryfall"] # None THEN "scryfall" ELSE None

Quote(figures) ==
    LET s == Preferred(figures) IN IF s = None THEN None ELSE <<s, figures[s]>>

Allocated == {i \in Item : allocation[i] # Null}

\* The sweep records the figure of every item that is on a channel, and of no other.
Sweep ==
    /\ LET now(i) == Preferred(market[i])
       IN  recorded' = [i \in Item |->
              IF i \in Allocated /\ now(i) # None
              THEN [recorded[i] EXCEPT ![now(i)] = market[i][now(i)]] ELSE recorded[i]]
    /\ recorded' # recorded
    /\ UNCHANGED <<stock, market, policy, allocation, run, used, lapse>>

-------------------------------------------------------------------------------
Ask ==
    /\ run.step = "idle" /\ Use("runs", MaxRuns)
    /\ \E is \in SUBSET Item \ {{}} :
          run' = [Resting EXCEPT !.step = "items", !.asked = is, !.policy = policy]
    /\ lapse' = [i \in Item |-> {}]
    /\ UNCHANGED <<stock, market, recorded, policy, allocation>>

\* Mutant of PriceOf: the raw figure of the market.
PriceOfMarket(figures) ==
    LET s == Preferred(figures)
    IN  IF s = None THEN None ELSE figures[s]

\* The price of an item from a figure of a source; None where the policy names no percentage.
PriceOf(figures) ==
    LET s == Preferred(figures)
    IN  IF s = None THEN None ELSE TargetPrice(run.policy, figures[s])

\* Items, their allocations and the figures recorded for them, in one query: what it does
\* not find has no row.
ReadItems ==
    /\ run.step = "items"
    /\ LET has(i) == Preferred(recorded[i]) # None
           found == run.asked \cap stock
           is == {i \in found : allocation[i] # Null}
           rest == found \ is
       IN  /\ run' = [run EXCEPT !.step = "fetch", !.todo = found, !.seen = is,
                                 !.stored = {i \in rest : has(i)},
                                 !.price = [i \in Item |->
                                    IF i \in rest /\ has(i) THEN PriceOf(recorded[i]) ELSE None]]
           /\ lapse' = [i \in Item |->
                 lapse[i] \cup {c \in {"old"} : has(i) /\ Quote(recorded[i]) # Quote(market[i])}]
    /\ UNCHANGED <<stock, market, recorded, policy, allocation, used>>

\* fetchPrices for the items without a figure; then the rows are decided.
Fetch ==
    /\ run.step = "fetch"
    /\ run' = [run EXCEPT !.step = "write",
                          !.price = [i \in Item |->
                             IF i \in run.todo \ (run.seen \cup run.stored)
                             THEN PriceOf(market[i]) ELSE @[i]]]
    /\ lapse' = [i \in Item |-> IF i \in run.todo \ run.stored THEN lapse[i] \ {"moved"}
                                ELSE lapse[i]]
    /\ UNCHANGED <<stock, market, recorded, policy, allocation, used>>

Skip(i) ==
    /\ run.step = "write" /\ i \in run.todo /\ run.price[i] = None
    /\ run' = [run EXCEPT !.todo = @ \ {i}, !.skipped = @ \cup {i}]
    /\ UNCHANGED <<stock, market, recorded, policy, allocation, used, lapse>>

\* upsertAllocation: pooled, at the price of the plan, whatever the row is by now.
Write(i) ==
    /\ run.step = "write" /\ i \in run.todo \cap stock /\ run.price[i] # None
    /\ allocation' = [allocation EXCEPT ![i] = [mode |-> "pooled", price |-> run.price[i]]]
    /\ run' = [run EXCEPT !.todo = @ \ {i}, !.allocated = @ \cup {i}]
    /\ UNCHANGED <<stock, market, recorded, policy, used, lapse>>

\* The item is gone, or the ledger refuses or gives up on the version: the rest goes on.
Fail(i) ==
    /\ run.step = "write" /\ i \in run.todo /\ run.price[i] # None
    /\ (i \notin stock /\ UNCHANGED used) \/ Use("mishaps", MaxMishaps)
    /\ run' = [run EXCEPT !.todo = @ \ {i}, !.problems = @ \cup {i}]
    /\ UNCHANGED <<stock, market, recorded, policy, allocation, lapse>>

\* The answer is given; what it said stays until the next run.
Answer ==
    /\ run.step = "write" /\ run.todo = {}
    /\ run' = [run EXCEPT !.step = "idle"]
    /\ UNCHANGED <<stock, market, recorded, policy, allocation, used, lapse>>

Die ==
    /\ run.step # "idle" /\ Use("mishaps", MaxMishaps)
    /\ run' = Resting
    /\ UNCHANGED <<stock, market, recorded, policy, allocation, lapse>>

Next ==
    \/ MoveMarket \/ SavePolicy \/ EditAllocation \/ Sweep
    \/ Ask \/ ReadItems \/ Fetch \/ Answer \/ Die
    \/ \E i \in Item : Vanish(i) \/ Skip(i) \/ Write(i) \/ Fail(i)

Spec == Init /\ [][Next]_vars

-------------------------------------------------------------------------------
Figures == [Source -> Figure \cup {None}]

TypeOK ==
    /\ stock \subseteq Item
    /\ market \in [Item -> Figures] /\ recorded \in [Item -> Figures]
    /\ policy \in Policy
    /\ \A i \in Item : allocation[i] # Null =>
          allocation[i].mode \in Mode /\ allocation[i].price \in Nat
    /\ run.step \in {"idle", "items", "fetch", "write"} /\ run.policy \in Policy \cup {Null}
    /\ \A s \in {run.asked, run.seen, run.stored, run.todo, run.allocated, run.skipped,
                 run.problems} : s \subseteq Item
    /\ used \in [changes: 0..MaxChanges, runs: 0..MaxRuns, mishaps: 0..MaxMishaps]
    /\ lapse \in [Item -> SUBSET Cause]

Answered == run.todo \cup run.allocated \cup run.skipped \cup run.problems

\* Each item the run finds is answered once: allocated, skipped or a problem.  What it does
\* not find gets no answer, and only an item that is gone is not found.
EachAnsweredOnce ==
    run.step \in {"fetch", "write", "idle"} /\ run.asked # {} =>
        /\ Answered \subseteq run.asked /\ run.asked \ Answered \subseteq Item \ stock
        /\ Cardinality(run.todo) + Cardinality(run.allocated) + Cardinality(run.skipped)
              + Cardinality(run.problems) = Cardinality(Answered)

\* "Writing the market figure means the next repricing sweep immediately proposes changing
\* every price this just set": what a run allocates is priced as that sweep will price it,
\* unless the market, the policy or the row changed since, or the figure was an old one.
SweepAgrees ==
    \A i \in run.allocated :
        \/ lapse[i] # {}
        \/ LET s == Preferred(market[i])
           IN  s # None /\ allocation[i].price = TargetPrice(policy, market[i][s])

\* A decision an operator took before the run read the items is never overwritten by it.
DecisionsStand ==
    \A i \in run.seen : i \notin run.allocated

BulkHolds == EachAnsweredOnce /\ SweepAgrees /\ DecisionsStand
===============================================================================
