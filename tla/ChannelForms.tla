------------------------------- MODULE ChannelForms -------------------------------
(***************************************************************************)
(* The card of one channel on ChannelsPage.tsx, open in several tabs: the  *)
(* sections that edit its listing rules, its settings and its switches.    *)
(* Each tab draws from a copy of the channel it fetched (useChannels), and *)
(* a form keeps what it was seeded with when the card was mounted.  A save *)
(* of the rules replaces the column, a save of the settings is merged, a   *)
(* switch is a column of its own (ChannelsService.update, one step here:   *)
(* Channels has its statements).                                           *)
(***************************************************************************)
EXTENDS Naturals, FiniteSets

CONSTANTS
    Tab,
    Rule,           \* rules an operator may add
    Stored,         \* the rules the channel has at first
    Setting,        \* fields of the connector's schema
    MaxEdits,       \* bound: clicks and keystrokes in forms
    MaxSaves,       \* bound: requests sent
    MaxMishaps,     \* bound: lost replies, and writes of the API by others
    Null

Section == {"rules", "settings", "switch"}

VARIABLES
    row,            \* the channel: rules, kept (what the rules form carries), settings, switch
    cache,          \* per tab: the channel as it last fetched it
    form,           \* per tab: the rules and the settings as edited, or Null
    drawn,          \* per tab: the rules as they were last drawn
    base,           \* per tab: the rules and the settings its forms took for the row's
    clicked,        \* per tab: the rules as the operator clicked them together
    pending,        \* per tab and section: the request in flight, or Null
    wanted,         \* the channel with every save applied as the changes it was made of
    used,           \* edits, saves and mishaps so far
    lapse           \* what was overtaken: see the property

vars == <<row, cache, form, drawn, base, clicked, pending, wanted, used, lapse>>

Init ==
    /\ row \in [rules: {Stored}, kept: {0}, settings: [Setting -> {0}], switch: {FALSE}]
    /\ cache = [t \in Tab |-> row]
    /\ form = [t \in Tab |-> Null]
    /\ drawn = [t \in Tab |-> {}]
    /\ base = [t \in Tab |-> Null]
    /\ clicked = [t \in Tab |-> {}]
    /\ pending = [t \in Tab |-> [s \in Section |-> Null]]
    /\ wanted = row
    /\ used = [edits |-> 0, saves |-> 0, mishaps |-> 0]
    /\ lapse = {}

Use(what, bound) == used[what] < bound /\ used' = [used EXCEPT ![what] = @ + 1]
Idle(t) == \A s \in Section : pending[t][s] = Null

-------------------------------------------------------------------------------
\* The list of channels is fetched: at first, on focus, after a request that succeeded.
Fetch(t) ==
    /\ cache[t] # row
    /\ cache' = [cache EXCEPT ![t] = row]
    /\ UNCHANGED <<row, form, drawn, base, clicked, pending, wanted, used, lapse>>

\* The card is mounted: its forms are seeded from the copy the tab has, of whatever age.
Mount(t) ==
    /\ Idle(t)
    /\ LET seed == [rules |-> cache[t].rules, settings |-> cache[t].settings]
       IN  /\ form' = [form EXCEPT ![t] = seed]
           /\ base' = [base EXCEPT ![t] = seed]
           /\ drawn' = [drawn EXCEPT ![t] = seed.rules]
           /\ clicked' = [clicked EXCEPT ![t] = seed.rules]
    /\ UNCHANGED <<row, cache, pending, wanted, used, lapse>>

\* Mutant of Add: the rule is added to what was drawn.
AddDrawn(t, r) ==
    /\ form[t] # Null /\ r \notin clicked[t]
    /\ Use("edits", MaxEdits)
    /\ form' = [form EXCEPT ![t].rules = drawn[t] \cup {r}]
    /\ clicked' = [clicked EXCEPT ![t] = @ \cup {r}]
    /\ UNCHANGED <<row, cache, drawn, base, pending, wanted, lapse>>

\* A rule is added: to what the form holds by then, and not to what was drawn.
Add(t, r) ==
    /\ form[t] # Null /\ r \notin clicked[t]
    /\ Use("edits", MaxEdits)
    /\ form' = [form EXCEPT ![t].rules = @ \cup {r}]
    /\ clicked' = [clicked EXCEPT ![t] = @ \cup {r}]
    /\ UNCHANGED <<row, cache, drawn, base, pending, wanted, lapse>>

\* A rule is removed: from what was drawn, and what was clicked since is gone with it.
Remove(t, r) ==
    /\ form[t] # Null /\ r \in drawn[t]
    /\ Use("edits", MaxEdits)
    /\ form' = [form EXCEPT ![t].rules = drawn[t] \ {r}]
    /\ clicked' = [clicked EXCEPT ![t] = @ \ {r}]
    /\ lapse' = lapse \cup {l \in {"undrawn"} : form[t].rules # drawn[t]}
    /\ UNCHANGED <<row, cache, drawn, base, pending, wanted>>

Draw(t) ==
    /\ form[t] # Null /\ drawn[t] # form[t].rules
    /\ drawn' = [drawn EXCEPT ![t] = form[t].rules]
    /\ UNCHANGED <<row, cache, form, base, clicked, pending, wanted, used, lapse>>

TypeIn(t, f) ==
    /\ form[t] # Null
    /\ Use("edits", MaxEdits)
    /\ form' = [form EXCEPT ![t].settings[f] = used'.edits]
    /\ UNCHANGED <<row, cache, drawn, base, clicked, pending, wanted, lapse>>

\* The settings are closed without a save: the next time they show what the tab has.
Cancel(t) ==
    /\ form[t] # Null /\ form[t].settings # cache[t].settings
    /\ form' = [form EXCEPT ![t].settings = cache[t].settings]
    /\ base' = [base EXCEPT ![t].settings = cache[t].settings]
    /\ UNCHANGED <<row, cache, drawn, clicked, pending, wanted, used, lapse>>

-------------------------------------------------------------------------------
\* Mutant of PatchOf: the save of the rules sends only what its form edits.
PatchOfRulesAlone(t, s) ==
    CASE s = "rules" -> [rules |-> drawn[t], kept |-> Null]
      [] s = "settings" -> form[t].settings
      [] s = "switch" -> ~cache[t].switch

\* What the save of a section sends.  The rules form carries along what it does not edit, as
\* the tab last fetched it; the settings form sends every field; a switch sends itself.
PatchOf(t, s) ==
    CASE s = "rules" -> [rules |-> drawn[t], kept |-> cache[t].kept]
      [] s = "settings" -> form[t].settings
      [] s = "switch" -> ~cache[t].switch

\* Each section has a request of its own, and its button is off until it is answered.
Save(t, s) ==
    /\ form[t] # Null /\ pending[t][s] = Null
    /\ Use("saves", MaxSaves)
    /\ pending' = [pending EXCEPT ![t][s] =
          [patch |-> PatchOf(t, s), base |-> base[t], seen |-> cache[t], landed |-> FALSE]]
    /\ UNCHANGED <<row, cache, form, drawn, base, clicked, wanted, lapse>>

Patched(s, patch) ==
    CASE s = "rules" -> [row EXCEPT !.rules = patch.rules, !.kept = patch.kept]
      [] s = "settings" -> [row EXCEPT !.settings = patch]
      [] s = "switch" -> [row EXCEPT !.switch = patch]

\* The same save as the changes the operator made: to the seed of the form, or to the drawing.
Meant(s, job) ==
    CASE s = "rules" ->
            [wanted EXCEPT !.rules = (@ \cup (job.patch.rules \ job.base.rules))
                                         \ (job.base.rules \ job.patch.rules)]
      [] s = "settings" ->
            [wanted EXCEPT !.settings =
                [f \in Setting |-> IF job.patch[f] # job.base.settings[f]
                                   THEN job.patch[f] ELSE wanted.settings[f]]]
      [] s = "switch" -> [wanted EXCEPT !.switch = job.patch]

\* A save overtakes another when what its form took for the row's is not the row's any more.
Overtakes(s, job) ==
    CASE s = "rules" -> row.rules \notin {job.base.rules, job.patch.rules}
                            \/ row.kept # job.seen.kept
      [] s = "settings" -> \E f \in Setting :
                              row.settings[f] \notin {job.base.settings[f], job.patch[f]}
      [] s = "switch" -> FALSE

Land(t, s) ==
    LET job == pending[t][s]
    IN  /\ job # Null /\ ~job.landed
        /\ row' = Patched(s, job.patch)
        /\ wanted' = Meant(s, job)
        /\ pending' = [pending EXCEPT ![t][s].landed = TRUE]
        /\ lapse' = lapse \cup {l \in {"overtaken"} : Overtakes(s, job)}
        /\ UNCHANGED <<cache, form, drawn, base, clicked, used>>

\* The answer: the list is fetched anew, in a step of its own, and the forms keep what they
\* hold, which is by now the row's.
Answer(t, s) ==
    LET job == pending[t][s]
    IN  /\ job # Null /\ job.landed
        /\ pending' = [pending EXCEPT ![t][s] = Null]
        /\ base' = [base EXCEPT ![t] =
              IF s = "rules" THEN [@ EXCEPT !.rules = job.patch.rules]
              ELSE IF s = "settings" THEN [@ EXCEPT !.settings = job.patch] ELSE @]
        /\ UNCHANGED <<row, cache, form, drawn, clicked, wanted, used, lapse>>

\* No answer comes, whether the save landed or not.
Fail(t, s) ==
    /\ pending[t][s] # Null
    /\ Use("mishaps", MaxMishaps)
    /\ pending' = [pending EXCEPT ![t][s] = Null]
    /\ UNCHANGED <<row, cache, form, drawn, base, clicked, wanted, lapse>>

\* Someone else writes what the rules form carries, through the API.
Elsewhere ==
    /\ Use("mishaps", MaxMishaps)
    /\ row' = [row EXCEPT !.kept = @ + 1]
    /\ wanted' = [wanted EXCEPT !.kept = @ + 1]
    /\ UNCHANGED <<cache, form, drawn, base, clicked, pending, lapse>>

Next ==
    \/ \E t \in Tab : Fetch(t) \/ Mount(t) \/ Draw(t) \/ Cancel(t)
    \/ \E t \in Tab, r \in Rule : Add(t, r) \/ Remove(t, r)
    \/ \E t \in Tab, f \in Setting : TypeIn(t, f)
    \/ \E t \in Tab, s \in Section : Save(t, s) \/ Land(t, s) \/ Answer(t, s) \/ Fail(t, s)
    \/ Elsewhere

Spec == Init /\ [][Next]_vars

-------------------------------------------------------------------------------
Channel == [rules: SUBSET Rule, kept: (0..MaxMishaps) \cup {Null},
            settings: [Setting -> 0..MaxEdits], switch: BOOLEAN]

TypeOK ==
    /\ row \in Channel /\ wanted \in Channel
    /\ \A t \in Tab :
          /\ cache[t] \in Channel
          /\ form[t] # Null => base[t] # Null
          /\ drawn[t] \subseteq Rule /\ clicked[t] \subseteq Rule

\* While no save overtakes another, the channel is what its operators' changes make of it,
\* whichever tabs and sections they were made in and whichever replies were lost: a section
\* takes nothing of another's with it, nor what it only carries ("dropping them would
\* silently discard fields set elsewhere").  And what was clicked together is what the form
\* holds, unless a rule was removed before the clicks before it were drawn ("two quick
\* clicks").
FormsHold ==
    /\ "overtaken" \notin lapse => row = wanted
    /\ "undrawn" \notin lapse =>
          \A t \in Tab : form[t] # Null => form[t].rules = clicked[t]

\* The second half without its exception: two clicks on Remove take out two rules.
EveryClickCounts == \A t \in Tab : form[t] # Null => form[t].rules = clicked[t]
===============================================================================
