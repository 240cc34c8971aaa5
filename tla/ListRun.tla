-------------------------------- MODULE ListRun ---------------------------------
(***************************************************************************)
(* Putting chosen stock on a channel (ListOnChannelPage): a channel, the   *)
(* custom fields every product of the run gets, the category those fields  *)
(* require, and the rows that are ticked.  A channel's fields arrive after *)
(* the channel is chosen, rows are fetched anew while some are ticked, and *)
(* a run lists item by item.                                               *)
(***************************************************************************)
EXTENDS Naturals, FiniteSets, FiniteSetsExt

CONSTANTS
    Channel,
    Field, Category,    \* categories are numbers, in the order a channel names them
    Needs,              \* per channel and field, the categories it is restricted to;
                        \* {} for none, and a field that is not in the domain is not there
    Item, MaxItems,     \* and how many of them one run lists
    MaxMoves, MaxRuns, MaxMishaps,    \* bounds
    Null

VARIABLES
    channel,
    fields,         \* per channel, whether its fields have been read
    chosen,         \* per field, the channel whose choices its value was picked from, or Null
    category,
    selected,       \* ticked items
    shown,          \* what the rows say is listed where, as last fetched
    listed,         \* what is listed where
    run,            \* what "Create" sent, with the items that are left, or Null
    used, lapse

vars == <<channel, fields, chosen, category, selected, shown, listed, run, used, lapse>>

Spend(what, most) == used[what] < most /\ used' = [used EXCEPT ![what] = @ + 1]
Mishap == Spend("mishaps", MaxMishaps)

-------------------------------------------------------------------------------
(* Which category the products get.                                        *)

\* The fields of a channel the page knows, and those of them that are chosen and restricted.
Definitions(c, read) == IF read[c] THEN DOMAIN Needs[c] ELSE {}
Constrained(c, read, ch) == {f \in Definitions(c, read) : Needs[c][f] # {} /\ ch[f] # Null}

\* Mutant of RequiredCategories: what any of the fields accepts.
RequiredByAny(c, F) == UNION {Needs[c][f] : f \in F}

\* What all of them accept.
RequiredCategories(c, F) == {k \in Category : \A f \in F : k \in Needs[c][f]}

\* Mutant of Settled: a category stays, whatever the fields become.
SettledOnce(c, F, k) ==
    IF F = {} \/ RequiredCategories(c, F) = {} THEN Null
    ELSE IF k # Null THEN k ELSE Min(RequiredCategories(c, F))

\* No field asks for one, or they agree on none: none.  Otherwise the one there is if they
\* accept it, or else the first they accept.
Settled(c, F, k) ==
    IF F = {} \/ RequiredCategories(c, F) = {} THEN Null
    ELSE IF k \in RequiredCategories(c, F) THEN k ELSE Min(RequiredCategories(c, F))

Init ==
    /\ channel \in Channel
    /\ fields = [c \in Channel |-> FALSE]
    /\ chosen = [f \in Field |-> Null] /\ category = Null
    /\ selected = {} /\ shown = {} /\ listed = {}
    /\ run = Null
    /\ used = [moves |-> 0, runs |-> 0, mishaps |-> 0]
    /\ lapse = {}

-------------------------------------------------------------------------------
(* The form.                                                               *)

\* After every change the category is settled again.
Fill(c, read, ch, k) ==
    /\ channel' = c /\ fields' = read /\ chosen' = ch
    /\ category' = Settled(c, Constrained(c, read, ch), k)

\* The fields of the channel arrive.  Where they cannot be read, none are offered.
ReadFields ==
    /\ ~fields[channel]
    /\ Fill(channel, [fields EXCEPT ![channel] = TRUE], chosen, category)
    /\ UNCHANGED <<selected, shown, listed, run, used, lapse>>

\* Another channel: what was picked and ticked for the last one stays.
SwitchChannel(c) ==
    /\ c # channel
    /\ Spend("moves", MaxMoves)
    /\ Fill(c, fields, chosen, category)
    /\ lapse' = IF \E f \in Field : chosen[f] # Null THEN lapse \cup {"switched"} ELSE lapse
    /\ UNCHANGED <<selected, shown, listed, run>>

\* A value is picked for a field, or its choice is put back to "not set".
SetField(f, picked) ==
    /\ f \in Definitions(channel, fields)
    /\ Spend("moves", MaxMoves)
    /\ Fill(channel, fields, [chosen EXCEPT ![f] = IF picked THEN channel ELSE Null], category)
    /\ UNCHANGED <<selected, shown, listed, run, lapse>>

\* Offered where the fields leave more than one.
SetCategory(k) ==
    /\ LET F == Constrained(channel, fields, chosen)
       IN  F # {} /\ Cardinality(RequiredCategories(channel, F)) > 1
               /\ k \in RequiredCategories(channel, F) \ {category}
    /\ Spend("moves", MaxMoves)
    /\ Fill(channel, fields, chosen, k)
    /\ UNCHANGED <<selected, shown, listed, run, lapse>>

\* A row that is on the channel already, as far as the page knows, cannot be ticked or
\* unticked.  There is no "select all".
Toggle(i) ==
    /\ <<channel, i>> \notin shown
    /\ Spend("moves", MaxMoves)
    /\ selected' = IF i \in selected THEN selected \ {i} ELSE selected \cup {i}
    /\ UNCHANGED <<channel, fields, chosen, category, shown, listed, run, lapse>>

ClearSelection ==
    /\ selected # {}
    /\ selected' = {}
    /\ UNCHANGED <<channel, fields, chosen, category, shown, listed, run, used, lapse>>

FetchRows ==
    /\ shown # listed
    /\ shown' = listed
    /\ UNCHANGED <<channel, fields, chosen, category, selected, listed, run, used, lapse>>

-------------------------------------------------------------------------------
(* A run.                                                                  *)

\* "Create": the fields, the category and the ticked rows, as they are.
Create ==
    /\ run = Null
    /\ selected # {} /\ Cardinality(selected) <= MaxItems
    /\ Spend("runs", MaxRuns)
    /\ run' = [channel |-> channel, chosen |-> chosen, category |-> category,
               left |-> selected, switched |-> "switched" \in lapse]
    /\ UNCHANGED <<channel, fields, chosen, category, selected, shown, listed, lapse>>

\* An item of it: listed, or found there already; or it is refused and the next goes on.
ListOne(i, ok) ==
    /\ run # Null /\ i \in run.left
    /\ run' = [run EXCEPT !.left = @ \ {i}]
    /\ listed' = IF ok THEN listed \cup {<<run.channel, i>>} ELSE listed
    /\ IF ok THEN UNCHANGED used ELSE Mishap
    /\ UNCHANGED <<channel, fields, chosen, category, selected, shown, lapse>>

\* The report.  The rows are fetched again; what is ticked stays ticked.
Report ==
    /\ run # Null /\ run.left = {}
    /\ run' = Null
    /\ UNCHANGED <<channel, fields, chosen, category, selected, shown, listed, used, lapse>>

Next ==
    \/ ReadFields \/ ClearSelection \/ FetchRows \/ Create \/ Report
    \/ \E c \in Channel : SwitchChannel(c)
    \/ \E f \in Field, picked \in BOOLEAN : SetField(f, picked)
    \/ \E k \in Category : SetCategory(k)
    \/ \E i \in Item : Toggle(i) \/ \E ok \in BOOLEAN : ListOne(i, ok)

Spec == Init /\ [][Next]_vars

-------------------------------------------------------------------------------
TypeOK ==
    /\ channel \in Channel /\ fields \in [Channel -> BOOLEAN]
    /\ chosen \in [Field -> Channel \cup {Null}] /\ category \in Category \cup {Null}
    /\ selected \subseteq Item /\ shown \subseteq Channel \X Item
    /\ listed \subseteq Channel \X Item

Fits(k, c, ch) ==
    \A f \in DOMAIN Needs[c] : ch[f] # Null /\ Needs[c][f] # {} => k \in Needs[c][f]

\* "A product with no category has the field rejected with a message naming neither": a run
\* is sent with a category all its fields accept, as long as there is one and the channel was
\* not changed after a field was picked.
CategoryFits ==
    run # Null /\ ~run.switched => \/ Fits(run.category, run.channel, run.chosen)
                                  \/ \A k \in Category : ~Fits(k, run.channel, run.chosen)

\* A run is sent with no category where none of its fields asks for one.
CategoryIsAskedFor ==
    run # Null /\ ~run.switched /\ run.category # Null =>
        \E f \in DOMAIN Needs[run.channel] :
            run.chosen[f] # Null /\ run.category \in Needs[run.channel][f]

RunHolds == CategoryFits /\ CategoryIsAskedFor

\* "Game, set and the rest, chosen from what the channel already models": the ids a run sends
\* are those of its channel.
FieldsAreTheChannels ==
    run # Null => \A f \in Field : run.chosen[f] \in {Null, run.channel}
===============================================================================
