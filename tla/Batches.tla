--------------------------------- MODULE Batches ---------------------------------
(***************************************************************************)
(* The two panels of a channel's card that send batches of listings to the *)
(* store: the rules (ListingRuleBackfill) and the images (ListingImages)   *)
(* of ChannelsPage.tsx.  The server lists what a panel may offer, and      *)
(* cannot know what was just done; the panel keeps count of it, so that    *)
(* one batch after another goes down the list.  A run settles its listings *)
(* one after another: ListingContent has what it does to each.             *)
(***************************************************************************)
EXTENDS Naturals, Sequences, FiniteSets, SequencesExt

CONSTANTS
    Panel,          \* "rules" or "images"
    Listings,       \* the listings, in the order the server lists them
    MaxItems,       \* MAX_ITEMS, the most one run may take
    MaxRuns,
    MaxMishaps,     \* bound: lost replies, listings that are unlinked
    Null

VARIABLES
    panel,          \* the panel that is looked at
    linked,         \* listings the server has on its list
    list,           \* the list as last fetched, or Null until it is asked for
    selected, confirming, done,
    run,            \* the run in flight: what it has left and how each one ended, or Null
    settled,        \* listings a run has finished with, per listing how often
    used, lapse

vars == <<panel, linked, list, selected, confirming, done, run, settled, used, lapse>>

Listing == ToSet(Listings)

Init ==
    /\ panel \in Panel
    /\ linked = Listing
    /\ list = Null
    /\ selected = {} /\ confirming = FALSE /\ done = {}
    /\ run = Null
    /\ settled = [x \in Listing |-> 0]
    /\ used = [runs |-> 0, mishaps |-> 0]
    /\ lapse = {}

Offered == SelectSeq(Listings, LAMBDA x : x \in linked)
Rows == IF list = Null THEN <<>> ELSE SelectSeq(list, LAMBDA x : x \notin done)
Chosen == ToSet(Rows) \cap selected
Smaller(m, n) == IF m < n THEN m ELSE n
Mishap == used.mishaps < MaxMishaps /\ used' = [used EXCEPT !.mishaps = @ + 1]

-------------------------------------------------------------------------------
\* "Show listings": the list is fetched then, and again whenever the window is looked at.
Fetch ==
    /\ list # Offered
    /\ list' = Offered
    /\ UNCHANGED <<panel, linked, selected, confirming, done, run, settled, used, lapse>>

\* One more is ticked while there is room: for what has left the list, too, is counted.
Toggle(x) ==
    /\ x \in ToSet(Rows)
    /\ selected' = IF x \in selected THEN selected \ {x}
                   ELSE IF Cardinality(selected) < MaxItems THEN selected \cup {x} ELSE selected
    /\ UNCHANGED <<panel, linked, list, confirming, done, run, settled, used, lapse>>

SelectAll ==
    /\ Rows # <<>>
    /\ selected' = ToSet(SubSeq(Rows, 1, Smaller(MaxItems, Len(Rows))))
    /\ UNCHANGED <<panel, linked, list, confirming, done, run, settled, used, lapse>>

Clear ==
    /\ selected # {}
    /\ selected' = {}
    /\ UNCHANGED <<panel, linked, list, confirming, done, run, settled, used, lapse>>

Confirm(yes) ==
    /\ IF yes THEN ~confirming /\ Chosen # {} /\ run = Null ELSE confirming
    /\ Rows # <<>>
    /\ confirming' = yes
    /\ UNCHANGED <<panel, linked, list, selected, done, run, settled, used, lapse>>

\* "Yes": what is chosen by now is sent, be it nothing; the selection stays until the answer.
Apply ==
    /\ confirming /\ Rows # <<>> /\ run = Null /\ used.runs < MaxRuns
    /\ used' = [used EXCEPT !.runs = @ + 1]
    /\ confirming' = FALSE
    /\ run' = [left |-> Chosen, updated |-> {}, unchanged |-> {}]
    /\ UNCHANGED <<panel, linked, list, selected, done, settled, lapse>>

\* The server is through with a listing of the run; images have no "unchanged".
Settle(x, how) ==
    /\ run # Null /\ x \in run.left
    /\ how = "unchanged" => panel = "rules"
    /\ run' = IF how = "problem" THEN [run EXCEPT !.left = @ \ {x}]
              ELSE [run EXCEPT !.left = @ \ {x}, ![how] = @ \cup {x}]
    /\ settled' = [settled EXCEPT ![x] = IF how = "problem" THEN @ ELSE @ + 1]
    /\ UNCHANGED <<panel, linked, list, selected, confirming, done, used, lapse>>

\* Mutant of DoneAfter: the listings of this answer replace what is done.
DoneOnlyNow == run.updated \cup run.unchanged

\* What is done after an answer: whatever the server accounted for, and not the failures.
DoneAfter == done \cup run.updated \cup run.unchanged

Answer ==
    /\ run # Null /\ run.left = {}
    /\ selected' = {}
    /\ done' = DoneAfter
    /\ run' = Null
    /\ UNCHANGED <<panel, linked, list, confirming, settled, used, lapse>>

\* The reply is lost and the button comes back: the server goes on, and nobody hears of it.
LoseAnswer ==
    /\ run # Null /\ run.left = {}
    /\ Mishap
    /\ run' = Null
    /\ lapse' = lapse \cup {"unheard"}
    /\ UNCHANGED <<panel, linked, list, selected, confirming, done, settled>>

Unlink(x) ==
    /\ x \in linked
    /\ Mishap
    /\ linked' = linked \ {x}
    /\ UNCHANGED <<panel, list, selected, confirming, done, run, settled, lapse>>

\* The card is left and opened again: the panel starts over.
Reopen ==
    /\ done # {}
    /\ Mishap
    /\ run = Null
    /\ list' = Null /\ selected' = {} /\ confirming' = FALSE /\ done' = {}
    /\ lapse' = lapse \cup {"reopened"}
    /\ UNCHANGED <<panel, linked, run, settled>>

Next ==
    \/ Fetch \/ SelectAll \/ Clear \/ Apply \/ Answer \/ LoseAnswer \/ Reopen
    \/ \E yes \in BOOLEAN : Confirm(yes)
    \/ \E x \in Listing : Toggle(x) \/ Unlink(x)
    \/ \E x \in Listing, how \in {"updated", "unchanged", "problem"} : Settle(x, how)

Spec == Init /\ [][Next]_vars

-------------------------------------------------------------------------------
TypeOK ==
    /\ panel \in Panel /\ linked \subseteq Listing /\ done \subseteq Listing
    /\ list # Null => ToSet(list) \subseteq Listing
    /\ selected \subseteq Listing
    /\ run # Null => run.left \subseteq Listing
    /\ settled \in [Listing -> 0..MaxRuns]

\* "Successive runs march down the list instead of re-offering the same first batch": what
\* the server has accounted for is not sent a second time from the panel, unless an answer
\* was lost or the panel was opened anew; a run takes no more than the server does; and when
\* nothing is left to apply, every listing of the list has been through.
BatchesMarch ==
    /\ lapse = {} => \A x \in Listing : settled[x] <= 1
    /\ Cardinality(Chosen) <= MaxItems
    /\ run # Null => Cardinality(run.left) <= MaxItems
    /\ list # Null /\ Rows = <<>> => \A x \in ToSet(list) : settled[x] >= 1
===============================================================================
