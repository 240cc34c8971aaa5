------------------------------- MODULE ItemScreen -------------------------------
(***************************************************************************)
(* The page of one item (ItemDetailPage): its ledger as last heard of, a   *)
(* form per channel that sells it, and the writes the operator sends.  A   *)
(* form is seeded once from its row and checked by a dry run on the        *)
(* server; every answer brings the whole ledger back.  Others may change   *)
(* the item meanwhile, and answers come in any order.                      *)
(***************************************************************************)
EXTENDS Integers, FiniteSets, FiniteSetsExt, TLC

CONSTANTS
    Channel,
    Terms,          \* [mode, units]: how much of the stock a channel may show
    Price,          \* prices, in a form or from elsewhere
    MaxStock, MaxSends, MaxTyped, MaxMishaps,    \* bounds
    Null

VARIABLES
    ledger,         \* the item's rows on the server
    cache,          \* what the page was last told
    form,           \* per channel, the form of its row, or Null
    picked,         \* the channel chosen under "Also sell on", or Null
    call,           \* per control, the request it waits for, or Null
    overwritten,    \* whether an "Add" has replaced the terms of a row
    used, lapse

vars == <<ledger, cache, form, picked, call, overwritten, used, lapse>>

\* The row of a channel saves through its own form; the others have one control each.
Slot == Channel \cup {"load", "adjust", "reserve", "add", "remove"}

Rows(l) == {c \in Channel : l.rows[c] # Null}
Fixed(l) == FoldSet(LAMBDA c, n : n + l.rows[c].terms.units, 0,
                    {c \in Rows(l) : l.rows[c].terms.mode = "fixed"})
Pool(l) == Max({0, l.onHand - Fixed(l) - l.reserve})
Shows(l, terms) ==
    IF terms.mode = "fixed" THEN terms.units
    ELSE IF terms.units = Null THEN Pool(l) ELSE Min({terms.units, Pool(l)})

\* The ledger as the server answers it: every row with what its channel should show.
View(l) ==
    [onHand |-> l.onHand, reserve |-> l.reserve,
     rows |-> [c \in Channel |->
                  IF l.rows[c] = Null THEN Null
                  ELSE [id |-> l.rows[c].id, terms |-> l.rows[c].terms,
                        price |-> l.rows[c].price, shows |-> Shows(l, l.rows[c].terms)]]]

IsValid(l) == l.onHand >= 0 /\ l.reserve >= 0 /\ Fixed(l) + l.reserve <= l.onHand

NoRows == [c \in Channel |-> Null]

NewForm(row) ==
    [id |-> row.id, terms |-> row.terms, price |-> row.price,
     timer |-> TRUE, shown |-> Null]

\* The page has been loaded.
Init ==
    /\ \E n \in 0..MaxStock, c \in Channel, t \in Terms \cup {Null} :
          ledger = [onHand |-> n, reserve |-> 0, born |-> 1,
                    rows |-> IF t = Null THEN NoRows
                             ELSE [NoRows EXCEPT ![c] = [id |-> 0, terms |-> t, price |-> Null]]]
    /\ IsValid(ledger)
    /\ cache = View(ledger) @@ [named |-> TRUE]
    /\ form = [c \in Channel |-> IF ledger.rows[c] = Null THEN Null ELSE NewForm(ledger.rows[c])]
    /\ picked = Null
    /\ call = [s \in Slot |-> Null]
    /\ overwritten = FALSE
    /\ used = [sends |-> 0, typed |-> 0, mishaps |-> 0]
    /\ lapse = {}

Spend(what, most) == used[what] < most /\ used' = [used EXCEPT ![what] = @ + 1]
Mishap == Spend("mishaps", MaxMishaps)

-------------------------------------------------------------------------------
(* The server.                                                             *)

\* A row that is there keeps its id.
Stored(l, c, terms, price) ==
    IF l.rows[c] # Null
    THEN [l EXCEPT !.rows[c] = [id |-> @.id, terms |-> terms, price |-> price]]
    ELSE [l EXCEPT !.rows[c] = [id |-> l.born, terms |-> terms, price |-> price],
                   !.born = @ + 1]

PriceIn(l, c) == IF l.rows[c] = Null THEN Null ELSE l.rows[c].price

\* The ledger a request asks for; an "add" sends no price, and what is there stays.
After(l, body) ==
    CASE body.op = "read" -> l
      [] body.op = "adjust" -> [l EXCEPT !.onHand = @ + body.delta]
      [] body.op = "reserve" -> [l EXCEPT !.reserve = body.units]
      [] body.op = "remove" -> [l EXCEPT !.rows[body.channel] = Null]
      [] body.op = "add" -> Stored(l, body.channel, body.terms, PriceIn(l, body.channel))
      [] body.op = "save" -> Stored(l, body.channel, body.terms, body.price)

Accepts(l, body) ==
    \/ body.op = "read"
    \/ /\ IsValid(After(l, body))
       /\ body.op = "remove" => l.rows[body.channel] # Null

\* What the dry run of a form checks: its terms, beside the other rows as the page has them.
Proposed(l, rows, c, terms) ==
    [l EXCEPT !.rows = [d \in Channel |-> IF rows[d] = Null THEN Null
                                          ELSE [id |-> rows[d].id, price |-> Null,
                                                terms |-> IF d = c THEN terms ELSE rows[d].terms]]]

-------------------------------------------------------------------------------
(* What the page knows.                                                    *)

\* Mutant of Rechecked: a form is checked again when it is typed in, and only then.
RecheckedWhenTyped(f, rows) == f

\* A form is checked again when any row of the page has changed.  The stock and the reserve
\* are not among what it watches.
Rechecked(f, rows) == IF rows = cache.rows THEN f ELSE [f EXCEPT !.timer = TRUE]

\* Mutant of FormsOf: the form of a row stays when the row has gone.
FormsKept(rows) ==
    [c \in Channel |->
        IF form[c] # Null THEN Rechecked(form[c], rows)
        ELSE IF rows[c] = Null THEN Null ELSE NewForm(rows[c])]

\* The form of a row stays as long as the row has its id: it is not seeded again.
FormsOf(rows) ==
    [c \in Channel |->
        IF rows[c] = Null THEN Null
        ELSE IF form[c] # Null /\ form[c].id = rows[c].id THEN Rechecked(form[c], rows)
        ELSE NewForm(rows[c])]

Told(view, named) ==
    /\ cache' = [onHand |-> view.onHand, reserve |-> view.reserve, rows |-> view.rows,
                 named |-> named]
    /\ form' = FormsOf(view.rows)

\* Mutant of NamedAfterWrite: the answer replaces what the page has.
NotNamedAfterWrite == FALSE

\* A write answers with the ledger alone: the item's name is kept from what the page has.
NamedAfterWrite == cache.named

-------------------------------------------------------------------------------
(* The operator.                                                           *)

InFlight == {s \in Slot : call[s] # Null}

\* A control sends one request and is disabled till it is answered; "Stop selling here" is
\* not, and one at a time is a bound there.
Send(s, body) ==
    /\ call[s] = Null
    /\ Spend("sends", MaxSends)
    /\ call' = [call EXCEPT ![s] = [body |-> body, came |-> Null, reply |-> Null]]
    /\ lapse' = IF InFlight # {} THEN lapse \cup {"overlap"} ELSE lapse
    /\ UNCHANGED <<ledger, cache, form, picked, overwritten>>

\* The page's window comes to the front again.
Load == Send("load", [op |-> "read"])

Adjust(delta) == Send("adjust", [op |-> "adjust", delta |-> delta])
SetReserve(n) == Send("reserve", [op |-> "reserve", units |-> n])

Type(c, terms, price) ==
    /\ form[c] # Null
    /\ (terms = form[c].terms) # (price = form[c].price)
    /\ Spend("typed", MaxTyped)
    /\ form' = [form EXCEPT ![c].terms = terms, ![c].price = price,
                            ![c].timer = @ \/ terms # form[c].terms]
    /\ UNCHANGED <<ledger, cache, picked, call, overwritten, lapse>>

Blocked(c) == form[c].shown # Null /\ form[c].shown.blocked

\* "Save" sends the form as it stands, whatever the row has become.
Save(c) ==
    /\ form[c] # Null /\ ~Blocked(c)
    /\ Send(c, [op |-> "save", channel |-> c, terms |-> form[c].terms, price |-> form[c].price])

Remove(c) == form[c] # Null /\ Send("remove", [op |-> "remove", channel |-> c])

\* Mutant of Available: every channel is offered.
AvailableAll == Channel

\* Only channels the item is not on, as far as the page knows.
Available == {c \in Channel : cache.rows[c] = Null}

Pick(c) ==
    /\ c \in Available /\ picked # c
    /\ picked' = c
    /\ UNCHANGED <<ledger, cache, form, call, overwritten, used, lapse>>

Everything == [mode |-> "pooled", units |-> Null]

\* What was picked stays picked when its channel gets a row; the form goes only when there is
\* no channel left to offer.
Add ==
    /\ picked # Null /\ Available # {}
    /\ Send("add", [op |-> "add", channel |-> picked, terms |-> Everything,
                    offered |-> picked \in Available])

-------------------------------------------------------------------------------
(* The dry run: a quarter of a second after the last change, for what the page has then.  It *)
(* puts away what the last one said, and is answered at once or not at all.               *)

Check(c, arrives) ==
    /\ form[c] # Null /\ form[c].timer
    /\ form' = [form EXCEPT ![c].timer = FALSE,
                ![c].shown = IF ~arrives THEN Null
                    ELSE [blocked |-> ~IsValid(Proposed(ledger, cache.rows, c, form[c].terms)),
                          stock |-> <<ledger.onHand, ledger.reserve>>]]
    /\ IF arrives THEN UNCHANGED used ELSE Mishap
    /\ UNCHANGED <<ledger, cache, picked, call, overwritten, lapse>>

-------------------------------------------------------------------------------
(* Requests and answers.                                                   *)

Land(s) ==
    /\ call[s] # Null /\ call[s].came = Null
    /\ LET body == call[s].body
       IN  /\ ledger' = IF Accepts(ledger, body) THEN After(ledger, body) ELSE ledger
           /\ call' = [call EXCEPT ![s].came = IF Accepts(ledger, body) THEN "ok" ELSE "refused",
                                   ![s].reply = View(ledger')]
           /\ overwritten' = (overwritten \/ (body.op = "add" /\ Accepts(ledger, body)
                                                /\ ledger.rows[body.channel] # Null))
    /\ UNCHANGED <<cache, form, picked, used, lapse>>

Answer(s) ==
    /\ call[s] # Null /\ call[s].came # Null
    /\ call' = [call EXCEPT ![s] = Null]
    /\ IF call[s].came = "refused" THEN UNCHANGED <<cache, form, picked>>
       ELSE /\ Told(call[s].reply, s = "load" \/ NamedAfterWrite)
            /\ picked' = IF s = "add" THEN Null ELSE picked
    /\ UNCHANGED <<ledger, overwritten, used, lapse>>

\* The request or its answer is lost.
Lose(s) ==
    /\ call[s] # Null
    /\ Mishap
    /\ call' = [call EXCEPT ![s] = Null]
    /\ lapse' = IF call[s].came # Null THEN lapse \cup {"unheard"} ELSE lapse
    /\ UNCHANGED <<ledger, cache, form, picked, overwritten>>

\* A sale, a sweep or another window changes the item.
Elsewhere(body) ==
    /\ Accepts(ledger, body) /\ After(ledger, body) # ledger
    /\ Mishap
    /\ ledger' = After(ledger, body)
    /\ lapse' = lapse \cup {"elsewhere"}
    /\ UNCHANGED <<cache, form, picked, call, overwritten>>

SomeChange ==
    {[op |-> "adjust", delta |-> -1]}
    \cup {[op |-> "remove", channel |-> c] : c \in Channel}
    \cup {[op |-> "save", channel |-> c, terms |-> Everything, price |-> p] :
            c \in Channel, p \in Price}

Next ==
    \/ Load \/ Add
    \/ \E delta \in {-1, 1} : Adjust(delta)
    \/ SetReserve(1)
    \/ \E c \in Channel :
        \/ Save(c) \/ Remove(c) \/ Pick(c)
        \/ \E terms \in Terms, price \in Price \cup {Null} : Type(c, terms, price)
        \/ \E arrives \in BOOLEAN : Check(c, arrives)
    \/ \E s \in Slot : Land(s) \/ Answer(s) \/ Lose(s)
    \/ \E body \in SomeChange : Elsewhere(body)

Spec == Init /\ [][Next]_vars

-------------------------------------------------------------------------------
TypeOK ==
    /\ ledger.onHand \in Nat /\ ledger.reserve \in Nat
    /\ \A c \in Channel : form[c] # Null => form[c].terms \in Terms
    /\ \A c \in Channel : (form[c] = Null) = (cache.rows[c] = Null)
    /\ picked \in Channel \cup {Null}

\* With nothing on its way the page shows the ledger as it is, under the item's name, unless
\* something else changed it, an answer was lost, or two requests were out at once.
PageFollows ==
    InFlight = {} /\ lapse = {} =>
        cache = [onHand |-> ledger.onHand, reserve |-> ledger.reserve,
                 rows |-> View(ledger).rows, named |-> TRUE]

\* A form that may not be saved is one the server would refuse, and the other way round, as
\* long as the page has the rows as they are and the stock is what it was when it was checked.
Settled(c) == form[c] # Null /\ ~form[c].timer /\ form[c].shown # Null
                /\ cache.rows = View(ledger).rows
Refused(c) == ~Accepts(ledger, [op |-> "save", channel |-> c, terms |-> form[c].terms,
                                price |-> form[c].price])
ChecksAreTrue ==
    \A c \in Channel : Settled(c) /\ form[c].shown.stock = <<ledger.onHand, ledger.reserve>> =>
                            form[c].shown.blocked = Refused(c)

\* An "Add" replaces the terms of a row only when something else than the page's own
\* requests, one at a time and heard, has made that row since the channel was picked.
AddsAddOnly == overwritten => lapse # {}

ItemHolds == PageFollows /\ ChecksAreTrue /\ AddsAddOnly

\* "What the operator sees is exactly what the server will enforce on save."
ChecksAreEnforced ==
    \A c \in Channel : Settled(c) /\ InFlight = {} /\ cache.onHand = ledger.onHand
                            /\ cache.reserve = ledger.reserve =>
                            form[c].shown.blocked = Refused(c)

\* Refuted, as the pick outlives the offer: "a dropdown of the channels that exist, and only
\* the ones this item is not already on" (AddAllocation): what is added is one of those.
AddsAreOffered == call["add"] # Null => call["add"].body.offered
===============================================================================
