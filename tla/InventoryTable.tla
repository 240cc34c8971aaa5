----------------------------- MODULE InventoryTable -----------------------------
(***************************************************************************)
(* The inventory browser (InventoryListPage): a page of rows under a       *)
(* filter and an order, kept on screen until the next one has been         *)
(* fetched.  The operator either counts stock, with a draft per row that   *)
(* is reviewed and applied row by row, or ticks rows, asks what a channel  *)
(* would charge for them, and adds them to it.  Stock sells meanwhile.     *)
(***************************************************************************)
EXTENDS Naturals, FiniteSets, Functions

CONSTANTS
    Item, Channel,
    View,           \* [filter, order]: what the address says
    Rows,           \* per view, the items of its page
    Count,          \* numbers an operator types
    MaxTyped, MaxTicks, MaxMishaps, MaxMoves,    \* bounds
    Null

VARIABLES
    task,           \* "count" or "add": what the operator is here for
    view,           \* what the address says
    screen,         \* the rows on screen, with their stock, or Null
    stock,          \* on hand, in the ledger
    drafts,         \* per item, the number typed and not applied, or Null
    dialog,         \* the changes being confirmed, with what has come of them, or Null
    selected,       \* ticked rows
    bar,            \* the bar over the table: its channel, its preview, its outcome
    adding,         \* the bulk add the server works on, or Null
    listed,         \* which item is on which channel
    typed, landed,  \* how often a count was typed for an item, and how often one landed
    previewed,      \* which item was shown with its price on which channel
    used, lapse

counting == <<drafts, dialog, typed, landed>>
picking == <<selected, bar, adding, listed, previewed>>
vars == <<task, view, screen, stock, counting, picking, used, lapse>>

NoBar == [channel |-> Null, asked |-> {}, shown |-> Null, added |-> FALSE]
NoDrafts == [i \in Item |-> Null]

Init ==
    /\ task \in {"count", "add"}
    /\ view \in View
    /\ screen = Null
    /\ stock \in [Item -> {2}]
    /\ drafts = NoDrafts /\ dialog = Null
    /\ selected = {} /\ bar = NoBar /\ adding = Null
    /\ listed = {}
    /\ typed = [i \in Item |-> 0] /\ landed = [i \in Item |-> 0]
    /\ previewed = {}
    /\ used = [typed |-> 0, ticks |-> 0, mishaps |-> 0, moves |-> 0]
    /\ lapse = {}

Spend(what, most) == used[what] < most /\ used' = [used EXCEPT ![what] = @ + 1]
Mishap == Spend("mishaps", MaxMishaps)
OnScreen == IF screen = Null THEN {} ELSE DOMAIN screen

-------------------------------------------------------------------------------
(* The page.                                                               *)

\* The rows of the view arrive, the first time and whenever they are fetched again.
Fetch ==
    /\ screen' = [i \in Rows[view] |-> stock[i]]
    /\ screen' # screen
    /\ UNCHANGED <<task, view, stock, counting, picking, used, lapse>>

\* Drafts go with the rows they were typed against, whatever about the view changes.
DraftsAfterMove(v) == NoDrafts

\* Ticks go when the filter changes, and the page of it; the order is not part of that.
TicksAfterMove(v) == IF v.filter = view.filter THEN selected ELSE {}

\* The bar is there while something is ticked, and starts over when it comes back.
BarOver(ticks) == IF ticks = {} THEN NoBar ELSE bar

\* A bar that has started over does not hear of the add it was waiting for.
Heard(next) == IF adding # Null /\ next.channel # adding.channel
               THEN [adding EXCEPT !.heard = FALSE] ELSE adding

\* A filter, a page or an order is chosen, with buttons or with the browser's own: the old
\* rows stay on screen till the new ones are there.
Navigate(v) ==
    /\ v # view
    /\ Spend("moves", MaxMoves)
    /\ view' = v
    /\ drafts' = DraftsAfterMove(v)
    /\ selected' = TicksAfterMove(v)
    /\ bar' = BarOver(selected') /\ adding' = Heard(bar')
    /\ UNCHANGED <<task, screen, stock, dialog, typed, landed, listed, previewed, lapse>>

Sell(i) ==
    /\ stock[i] > 0
    /\ Mishap
    /\ stock' = [stock EXCEPT ![i] = @ - 1]
    /\ UNCHANGED <<task, view, screen, counting, picking, lapse>>

-------------------------------------------------------------------------------
(* Counting.                                                               *)

\* A number is typed over the one shown; what is on screen is all that can be typed over.
Type(i, n) ==
    /\ task = "count" /\ dialog = Null
    /\ i \in OnScreen
    /\ Spend("typed", MaxTyped)
    /\ drafts' = [drafts EXCEPT ![i] = n]
    /\ typed' = [typed EXCEPT ![i] = @ + 1]
    /\ UNCHANGED <<task, view, screen, stock, dialog, landed, picking, lapse>>

\* The drafts of rows on screen that differ from what is shown: the others are passed over.
StagedChanges == {i \in OnScreen : drafts[i] # Null /\ drafts[i] # screen[i]}

\* One row, with Enter, or all of them, with "Review & apply".
RequestApply(S) ==
    /\ task = "count" /\ dialog = Null
    /\ S # {} /\ S \subseteq StagedChanges
    /\ S = StagedChanges \/ Cardinality(S) = 1
    /\ dialog' = [changes |-> Restrict(drafts, S), left |-> Null, ok |-> {}]
    /\ UNCHANGED <<task, view, screen, stock, drafts, typed, landed, picking, used, lapse>>

Discard ==
    /\ StagedChanges # {} /\ dialog = Null
    /\ drafts' = NoDrafts
    /\ UNCHANGED <<task, view, screen, stock, dialog, typed, landed, picking, used, lapse>>

\* "Apply": the counts are sent one after another, and the dialog waits for the last.
Apply ==
    /\ dialog # Null /\ dialog.left = Null
    /\ dialog' = [dialog EXCEPT !.left = DOMAIN dialog.changes]
    /\ UNCHANGED <<task, view, screen, stock, drafts, typed, landed, picking, used, lapse>>

\* One of them: it lands, it is refused, or it lands and the reply is lost.  Whatever one
\* comes to, the next is sent.
PutOne(i, how) ==
    /\ dialog # Null /\ dialog.left # Null /\ i \in dialog.left
    /\ IF how = "ok" THEN UNCHANGED <<used, lapse>>
       ELSE /\ Mishap
            /\ lapse' = IF how = "unheard" THEN lapse \cup {"unheard"} ELSE lapse
    /\ IF how = "refused" THEN UNCHANGED <<stock, landed>>
       ELSE /\ stock' = [stock EXCEPT ![i] = dialog.changes[i]]
            /\ landed' = [landed EXCEPT ![i] = @ + 1]
    /\ dialog' = [dialog EXCEPT !.left = @ \ {i},
                                !.ok = IF how = "ok" THEN @ \cup {i} ELSE @]
    /\ UNCHANGED <<task, view, screen, drafts, typed, picking>>

\* Mutant of DraftsAfterApply: the drafts are left as they are.
DraftsAsTheyAre(ok) == drafts

\* What landed is no longer a draft; what failed is, and can be applied again.
DraftsAfterApply(ok) == [i \in Item |-> IF i \in ok THEN Null ELSE drafts[i]]

\* The dialog is closed: before anything was sent, or after the last answer.
Close ==
    /\ dialog # Null /\ dialog.left \in {Null, {}}
    /\ drafts' = DraftsAfterApply(dialog.ok)
    /\ dialog' = Null
    /\ UNCHANGED <<task, view, screen, stock, typed, landed, picking, used, lapse>>

-------------------------------------------------------------------------------
(* Adding to a channel.                                                    *)

\* A row on screen is ticked or unticked: the preview, if there is one, is left as it is.
Toggle(i) ==
    /\ task = "add"
    /\ i \in OnScreen
    /\ Spend("ticks", MaxTicks)
    /\ selected' = IF i \in selected THEN selected \ {i} ELSE selected \cup {i}
    /\ bar' = BarOver(selected') /\ adding' = Heard(bar')
    /\ lapse' = IF bar.shown # Null \/ bar.asked # {} THEN lapse \cup {"ticked"} ELSE lapse
    /\ UNCHANGED <<task, view, screen, stock, counting, listed, previewed>>

\* "Clear", in the bar.
ClearTicks ==
    /\ selected # {}
    /\ selected' = {} /\ bar' = BarOver({}) /\ adding' = Heard(bar')
    /\ UNCHANGED <<task, view, screen, stock, counting, listed, previewed, used, lapse>>

\* Mutant of BarOf: what was shown and done for the last channel stays.
BarOfKept(c) == [bar EXCEPT !.channel = c]

\* Another channel starts the bar over, and what is on its way for the last is not shown.
BarOf(c) == [NoBar EXCEPT !.channel = c]

Choose(c) ==
    /\ selected # {} /\ c # bar.channel
    /\ bar' = BarOf(c) /\ adding' = Heard(bar')
    /\ UNCHANGED <<task, view, screen, stock, counting, selected, listed, previewed, used,
                   lapse>>

\* "Preview prices": of what is ticked now.
AskPreview ==
    /\ bar.channel # Null /\ bar.shown = Null /\ bar.asked = {}
    /\ bar' = [bar EXCEPT !.asked = selected]
    /\ UNCHANGED <<task, view, screen, stock, counting, selected, adding, listed, previewed,
                   used, lapse>>

\* It arrives, with a price or a reason for each row; or it does not.
Preview(arrives) ==
    /\ bar.asked # {}
    /\ bar' = [bar EXCEPT !.shown = IF arrives THEN bar.asked ELSE Null, !.asked = {}]
    /\ IF arrives THEN /\ previewed' = previewed \cup {<<bar.channel, i>> : i \in bar.asked}
                       /\ UNCHANGED used
       ELSE Mishap /\ UNCHANGED previewed
    /\ UNCHANGED <<task, view, screen, stock, counting, selected, adding, listed, lapse>>

Priceable == {i \in bar.shown : <<bar.channel, i>> \notin listed}

\* "Add": while the preview has a price, and what is sent is what is ticked by now.  One add
\* at a time is a bound: a bar that has started over could send the next.
Add ==
    /\ bar.shown # Null /\ ~bar.added /\ Priceable # {}
    /\ adding = Null
    /\ adding' = [channel |-> bar.channel, left |-> selected, heard |-> TRUE]
    /\ UNCHANGED <<task, view, screen, stock, counting, selected, bar, listed, previewed, used,
                   lapse>>

\* The server adds them one after another; what is there already is skipped.
AddOne(i) ==
    /\ adding # Null /\ i \in adding.left
    /\ adding' = [adding EXCEPT !.left = @ \ {i}]
    /\ listed' = listed \cup {<<adding.channel, i>>}
    /\ UNCHANGED <<task, view, screen, stock, counting, selected, bar, previewed, used, lapse>>

\* The answer: shown in the bar of that channel, if it is still there.
Added ==
    /\ adding # Null /\ adding.left = {}
    /\ adding' = Null
    /\ bar' = IF adding.heard THEN [bar EXCEPT !.shown = Null, !.added = TRUE] ELSE bar
    /\ UNCHANGED <<task, view, screen, stock, counting, selected, listed, previewed, used, lapse>>

Next ==
    \/ Fetch \/ Discard \/ Apply \/ Close \/ ClearTicks \/ AskPreview \/ Add \/ Added
    \/ \E v \in View : Navigate(v)
    \/ \E i \in Item :
        \/ Sell(i) \/ Toggle(i) \/ AddOne(i)
        \/ \E n \in Count : Type(i, n)
        \/ \E how \in {"ok", "refused", "unheard"} : PutOne(i, how)
    \/ \E S \in SUBSET Item : RequestApply(S)
    \/ \E c \in Channel : Choose(c)
    \/ \E arrives \in BOOLEAN : Preview(arrives)

Spec == Init /\ [][Next]_vars

-------------------------------------------------------------------------------
TypeOK ==
    /\ view \in View /\ OnScreen \subseteq Item
    /\ stock \in [Item -> Nat]
    /\ drafts \in [Item -> Count \cup {Null}]
    /\ selected \subseteq Item
    /\ bar.channel \in Channel \cup {Null} /\ bar.asked \subseteq Item
    /\ listed \subseteq Channel \X Item /\ previewed \subseteq Channel \X Item

\* "Applying a number typed against a row you can no longer see would be a nasty surprise":
\* a count lands once for each time it was typed, whatever fails, is retried, sells or is
\* paged away meanwhile, unless a reply was lost.
CountsLandOnce == "unheard" \in lapse \/ \A i \in Item : landed[i] <= typed[i]

\* What is added to a channel was shown with its price on that channel, as long as nothing
\* was ticked after it was asked for.
AddsWerePreviewed == lapse = {} => listed \subseteq previewed

TableHolds == CountsLandOnce /\ AddsWerePreviewed

\* "Showing what each item would cost before anything is written is the difference between
\* a bulk action and a bulk accident": nothing is added that was not shown first.
NothingUnseenIsAdded == listed \subseteq previewed

\* "A tick you can no longer see is one you cannot reconsider."
TicksAreOnScreen ==
    screen # Null /\ DOMAIN screen = Rows[view] => selected \subseteq DOMAIN screen
===============================================================================
