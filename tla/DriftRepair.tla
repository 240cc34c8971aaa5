------------------------------- MODULE DriftRepair -------------------------------
(***************************************************************************)
(* What reconciliation finds and what a person does with it: one pooled    *)
(* item on several channels, the sales there that the hub hears of later,  *)
(* the comparison of what each channel shows with what was last pushed     *)
(* (diffLiveState), and the "Set ledger" of its report (ChannelsPage:      *)
(* DriftRow), which writes a count taken when the report was made.         *)
(* OutboundSync has the pushes; here one is queued or it is not.           *)
(***************************************************************************)
EXTENDS Integers, FiniteSets

CONSTANTS
    Channel,
    Stock,          \* units on the shelf at first
    MaxSales,       \* bound: units bought
    MaxRuns,        \* bound: reconciliations
    MaxTouches,     \* bound: listings counted, hidden or removed on a platform
    Null

Parameters ==
    /\ Stock \in Nat /\ MaxSales \in Nat /\ MaxRuns \in Nat /\ MaxTouches \in Nat
    /\ Null \notin [quantity: Nat, active: BOOLEAN]

VARIABLES
    shelf,          \* units that are really there and not sold
    onHand,         \* InventoryItem.quantityOnHand
    listed,         \* ChannelAllocation.listedQuantity, per channel
    live,           \* per channel: the listing as the platform has it, or Null
    due,            \* channels a push is queued for
    notices,        \* sales that the hub has not heard of: the channel, and which of all it is
    corrects,       \* channels with reconcileAutoCorrect
    run,            \* per channel: the reconciliation at work, or its report
    counted,        \* the ledger has been set right, or was from the start
    touched,        \* channels somebody else changed since the last push
    used,
    lapse           \* what crossed a report: see the properties

vars == <<shelf, onHand, listed, live, due, notices, corrects, run, counted, touched, used,
          lapse>>

Blank == [step |-> "none", listed |-> 0, desired |-> 0, kinds |-> {}, theirs |-> 0,
          right |-> FALSE, clear |-> TRUE, why |-> {}]

Init ==
    /\ shelf = Stock
    /\ onHand \in {Stock, Stock + 1}
    /\ listed = [c \in Channel |-> onHand]
    /\ live = [c \in Channel |-> [quantity |-> onHand, active |-> TRUE]]
    /\ due = {}
    /\ notices = {}
    /\ corrects \in SUBSET Channel
    /\ run = [c \in Channel |-> Blank]
    /\ counted = (onHand = Stock)
    /\ touched = {}
    /\ used = [sales |-> 0, runs |-> 0, touches |-> 0]
    /\ lapse = {}

Use(what, bound) == used[what] < bound /\ used' = [used EXCEPT ![what] = @ + 1]
Unheard == Cardinality(notices)
Reported(c) == run[c].step = "reported"

-------------------------------------------------------------------------------
\* A customer buys a unit; the platform takes it off the listing and tells the hub later.
Buy(c) ==
    /\ live[c] # Null /\ live[c].active /\ live[c].quantity > 0
    /\ Use("sales", MaxSales)
    /\ live' = [live EXCEPT ![c].quantity = @ - 1]
    /\ shelf' = shelf - 1
    /\ notices' = notices \cup {<<c, used'.sales>>}
    /\ touched' = touched \cup {c}
    /\ UNCHANGED <<onHand, listed, due, corrects, run, counted, lapse>>

\* The seller counts the shelf and corrects the listing there, hides it, or removes it.
Touch(c) ==
    /\ live[c] # Null
    /\ Use("touches", MaxTouches)
    /\ \/ live' = [live EXCEPT ![c].quantity = IF shelf > 0 THEN shelf ELSE 0]
       \/ live' = [live EXCEPT ![c].active = FALSE]
       \/ live' = [live EXCEPT ![c] = Null]
    /\ touched' = touched \cup {c}
    /\ UNCHANGED <<shelf, onHand, listed, due, notices, corrects, run, counted, lapse>>

-------------------------------------------------------------------------------
\* The ledger is written; a listing that should change gets a push.
SetOnHand(quantity) ==
    /\ onHand' = quantity
    /\ due' = IF quantity = onHand THEN due ELSE Channel

\* A sale is heard of and taken off the ledger; a figure from before it is out of date.
ApplySale(notice) ==
    /\ notices' = notices \ {notice}
    /\ SetOnHand(IF onHand > 0 THEN onHand - 1 ELSE 0)
    /\ lapse' = lapse \cup {l \in {"clash"} : onHand = 0}
    /\ run' = [d \in Channel |-> IF Reported(d) THEN [run[d] EXCEPT !.clear = FALSE]
                                                 ELSE run[d]]
    /\ UNCHANGED <<shelf, listed, live, corrects, counted, touched, used>>

\* The worker pushes what the ledger says by then.
Push(c) ==
    /\ c \in due
    /\ due' = due \ {c}
    /\ IF live[c] = Null
       THEN UNCHANGED <<live, listed, touched, run>>
       ELSE /\ live' = [live EXCEPT ![c].quantity = onHand]
            /\ listed' = [listed EXCEPT ![c] = onHand]
            /\ touched' = touched \ {c}
            /\ run' = [run EXCEPT ![c].why = IF run[c].step = "loaded" THEN @ \cup {"landed"}
                                             ELSE @]
    /\ UNCHANGED <<shelf, onHand, notices, corrects, counted, used, lapse>>

-------------------------------------------------------------------------------
\* A reconciliation loads what was last pushed, and asks the platform after that.
Load(c) ==
    /\ run[c].step # "loaded"
    /\ Use("runs", MaxRuns)
    /\ run' = [run EXCEPT ![c] =
          [Blank EXCEPT !.step = "loaded", !.listed = listed[c], !.desired = onHand]]
    /\ UNCHANGED <<shelf, onHand, listed, live, due, notices, corrects, counted, touched, lapse>>

\* Mutant of Kinds: a comparison with the desired quantity.
KindsOfDesired(job, state) ==
    IF state = Null THEN {"missing"}
    ELSE {k \in {"quantity"} : state.quantity # job.desired}
         \cup {k \in {"inactive"} : ~state.active}

\* What the diff finds.  A listing that was not reported is missing and nothing else; and a
\* push that has not landed is no drift, for what was last pushed is what is compared.
Kinds(job, state) ==
    IF state = Null THEN {"missing"}
    ELSE {k \in {"quantity"} : state.quantity # job.listed}
         \cup {k \in {"inactive"} : ~state.active}

\* The answer, the report, and the correction: only of quantities, only towards the channel.
Compare(c) ==
    LET kinds == Kinds(run[c], live[c])
        theirs == IF live[c] = Null THEN 0 ELSE live[c].quantity
    IN  /\ run[c].step = "loaded"
        /\ run' = [run EXCEPT ![c] =
              [run[c] EXCEPT !.step = "reported", !.kinds = kinds, !.theirs = theirs,
                             !.right = (theirs = shelf), !.clear = (Unheard = 0),
                             !.why = @ \cup {w \in {"touched"} : c \in touched}]]
        /\ due' = due \cup {d \in {c} \cap corrects : "quantity" \in kinds}
        /\ UNCHANGED <<shelf, onHand, listed, live, notices, corrects, counted, touched, used,
                       lapse>>

\* "Where the channel is the one that is right, set the ledger to its figure": the figure was
\* the count of the shelf when the report was made.  Its row is done then.
SetLedger(c) ==
    /\ Reported(c) /\ "quantity" \in run[c].kinds /\ run[c].right
    /\ SetOnHand(run[c].theirs)
    /\ counted' = TRUE
    /\ lapse' = lapse \cup {l \in {"crossed"} : ~run[c].clear}
    /\ run' = [run EXCEPT ![c] = Blank]
    /\ UNCHANGED <<shelf, listed, live, notices, corrects, touched, used>>

Next ==
    \/ \E c \in Channel : \/ Buy(c) \/ Touch(c) \/ Push(c)
                           \/ Load(c) \/ Compare(c) \/ SetLedger(c)
    \/ \E notice \in notices : ApplySale(notice)

Spec == Init /\ [][Next]_vars

-------------------------------------------------------------------------------
TypeOK ==
    /\ shelf \in (0 - MaxSales)..Stock /\ onHand \in 0..(Stock + 1)
    /\ listed \in [Channel -> 0..(Stock + 1)]
    /\ live \in [Channel -> [quantity: 0..(Stock + 1), active: BOOLEAN] \cup {Null}]
    /\ due \subseteq Channel /\ corrects \subseteq Channel /\ touched \subseteq Channel
    /\ notices \subseteq Channel \X (1..MaxSales)

\* A difference that is reported is one that somebody else made since the last push; never a
\* push that is merely queued.  A push that landed between the two reads is one, too, and is
\* the one false alarm.
DriftsAreReal ==
    \A c \in Channel : Reported(c) /\ "quantity" \in run[c].kinds => run[c].why # {}

\* A ledger that was right, or was set right from a report, is right: it counts what is on
\* the shelf and what was sold unheard of.  Unless the report was made while a sale was
\* unheard of, or one was taken off since: the figure is written as it is, and then that sale
\* is counted twice, or not at all.
LedgerIsRight ==
    counted /\ lapse = {} => onHand = shelf + Unheard

RepairsAreRight == DriftsAreReal /\ LedgerIsRight

\* The same of every report.
RepairsAreAlwaysRight == counted /\ "clash" \notin lapse => onHand = shelf + Unheard
===============================================================================
