------------------------------ MODULE IntakeScreen ------------------------------
(***************************************************************************)
(* Adding stock (IntakePage): a form under the search results for the card *)
(* picked, and a second copy of it beside an enlarged picture.  A form     *)
(* takes the card in, and lists it where the operator says or where a      *)
(* channel lists new stock by itself.  Cards are changed while a request   *)
(* is out, channels change behind the page, and a request can fail before  *)
(* or after it is done.                                                    *)
(***************************************************************************)
EXTENDS Naturals, FiniteSets, FiniteSetsExt

CONSTANTS
    Card,           \* [source, id, market]: what the catalog offers
    Channel,        \* numbers, in the order channels are listed
    Quantity, Price,    \* what an operator types
    Request,        \* requests at once
    MaxPresses, MaxTyped, MaxMoves, MaxMishaps,    \* bounds
    Null

VARIABLES
    channels,       \* per channel, "off" (cannot list), "plain", or "auto" (lists new stock)
    known,          \* what the page was last told of them, or Null
    form,           \* the form of the panel and of the dialog, or Null
    request,        \* what is on its way
    stock,          \* units taken in, per card
    listings,       \* which card was put on which channel
    meant, wanted,  \* units and listings the operator has asked for and not been refused
    used, lapse

page == <<known, form>>
server == <<stock, listings>>
vars == <<channels, page, request, server, meant, wanted, used, lapse>>

Where == {"panel", "dialog"}
Status == {"off", "plain", "auto"}

Listable == IF known = Null THEN {} ELSE {c \in Channel : known[c] # "off"}
AutoChannel(k) == IF k = Null THEN {} ELSE {c \in Channel : k[c] = "auto"}

Spend(what, most) == used[what] < most /\ used' = [used EXCEPT ![what] = @ + 1]
Mishap == Spend("mishaps", MaxMishaps)

Init ==
    /\ channels \in [Channel -> Status]
    /\ known = Null
    /\ form = [w \in Where |-> Null]
    /\ request = [r \in Request |-> Null]
    /\ stock = [c \in Card |-> 0] /\ listings = {}
    /\ meant = [c \in Card |-> 0] /\ wanted = {}
    /\ used = [presses |-> 0, typed |-> 0, moves |-> 0, mishaps |-> 0]
    /\ lapse = {}

-------------------------------------------------------------------------------
(* A form.  `typed` is the quantity the operator takes it to send, `own` says whether its   *)
(* price is this card's or was typed for it, and `choice` holds what was chosen under "List on", if anything was.                     *)

\* Mutant of SeedChannel: "Nowhere" is not a choice, and is filled in again.
SeedChannelAgain(f, k) ==
    IF f.listOn # Null \/ AutoChannel(k) = {} THEN f
    ELSE [f EXCEPT !.seeded = TRUE, !.listOn = Min(AutoChannel(k))]

\* Once, when there first is a channel that lists new stock by itself.
SeedChannel(f, k) ==
    IF f.seeded \/ AutoChannel(k) = {} THEN f
    ELSE [f EXCEPT !.seeded = TRUE, !.listOn = Min(AutoChannel(k))]

NewForm(card) ==
    SeedChannel([card |-> card, listOn |-> Null, seeded |-> FALSE, choice |-> {},
                 quantity |-> 1, typed |-> 1, price |-> card.market, own |-> TRUE,
                 plain |-> "idle", list |-> "idle", told |-> Null], known)

\* Mutant of SameCard: a card is known by its number alone.
SameCardByNumber(a, b) == a.id = b.id

\* Another source, another number or another price is another card.
SameCard(a, b) == a.source = b.source /\ a.id = b.id /\ a.market = b.market

\* Mutant of ForCard: what was sent for the last card is still waited for.
ForCardKept(f, card) ==
    IF SameCard(f.card, card) THEN [f EXCEPT !.card = card]
    ELSE [f EXCEPT !.card = card, !.quantity = 1, !.typed = 1, !.price = card.market,
                   !.own = TRUE]

\* What was typed goes with the card, and so does what was said of it; what is on its way is
\* no longer waited for.  The channel stays.
ForCard(f, card) ==
    IF SameCard(f.card, card) THEN [f EXCEPT !.card = card, !.own = (f.card = card)]
    ELSE [f EXCEPT !.card = card, !.quantity = 1, !.typed = 1, !.price = card.market,
                   !.own = TRUE, !.plain = "idle", !.list = "idle", !.told = Null]

Pending(f) == "out" \in {f.plain, f.list}

\* Nobody waits any more for what this form has sent.
Forget(w) == [r \in Request |-> IF request[r] # Null /\ request[r].from = w
                                THEN [request[r] EXCEPT !.from = Null] ELSE request[r]]

-------------------------------------------------------------------------------
(* The operator.                                                           *)

\* A row is picked: the panel's form is for that card now.
Select(card) ==
    /\ form["dialog"] = Null
    /\ form["panel"] # Null => form["panel"].card # card
    /\ Spend("moves", MaxMoves)
    /\ form' = [form EXCEPT !["panel"] = IF @ = Null THEN NewForm(card) ELSE ForCard(@, card)]
    /\ request' = IF form["panel"] # Null /\ ~Pending(form'["panel"]) THEN Forget("panel")
                  ELSE request
    /\ UNCHANGED <<channels, known, server, meant, wanted, lapse>>

\* Its picture is enlarged, with a form of its own beside it.
Zoom(card) ==
    /\ form["dialog"] = Null
    /\ Spend("moves", MaxMoves)
    /\ form' = [form EXCEPT !["dialog"] = NewForm(card)]
    /\ UNCHANGED <<channels, known, request, server, meant, wanted, lapse>>

Reachable(w) == form[w] # Null /\ (w = "panel" => form["dialog"] = Null)

\* "Done" or "Close".
Leave(w) ==
    /\ Reachable(w)
    /\ form' = [form EXCEPT ![w] = Null]
    /\ request' = Forget(w)
    /\ UNCHANGED <<channels, known, server, meant, wanted, used, lapse>>

TypeQuantity(w, n) ==
    /\ Reachable(w) /\ n # form[w].quantity
    /\ Spend("typed", MaxTyped)
    /\ form' = [form EXCEPT ![w].quantity = n, ![w].typed = n]
    /\ lapse' = IF Pending(form[w]) THEN lapse \cup {"typed ahead"} ELSE lapse
    /\ UNCHANGED <<channels, known, request, server, meant, wanted>>

TypePrice(w, p) ==
    /\ Reachable(w) /\ form[w].listOn # Null /\ p # form[w].price
    /\ Spend("typed", MaxTyped)
    /\ form' = [form EXCEPT ![w].price = p, ![w].own = TRUE]
    /\ UNCHANGED <<channels, known, request, server, meant, wanted, lapse>>

\* "List on", with "Nowhere" among the channels.
Choose(w, c) ==
    /\ Reachable(w) /\ Listable # {} /\ c \in Listable \cup {Null}
    /\ c # form[w].listOn
    /\ Spend("typed", MaxTyped)
    /\ form' = [form EXCEPT ![w] = SeedChannel([@ EXCEPT !.listOn = c, !.choice = {c}], known)]
    /\ UNCHANGED <<channels, known, request, server, meant, wanted, lapse>>

\* "Add": two endpoints, one that lists as well.
Add(w, r) ==
    /\ Reachable(w) /\ ~Pending(form[w])
    /\ request[r] = Null
    /\ Spend("presses", MaxPresses)
    /\ LET f == form[w]
           how == IF f.listOn = Null THEN "plain" ELSE "list"
       IN  /\ request' = [request EXCEPT ![r] =
                            [from |-> w, how |-> how, card |-> f.card, channel |-> f.listOn,
                             quantity |-> f.quantity, typed |-> f.typed, own |-> f.own]]
           /\ form' = [form EXCEPT ![w][how] = "out"]
           /\ meant' = [meant EXCEPT ![f.card] = @ + f.typed]
           /\ wanted' = IF f.choice \subseteq {f.listOn}
                        THEN wanted \cup {<<f.card, f.listOn>>} ELSE wanted
    /\ UNCHANGED <<channels, known, server, lapse>>

-------------------------------------------------------------------------------
(* The server, and what the page hears.                                    *)

\* The units are on the shelf before anything is listed, and stay there if it is not.
Intake(q) == stock' = [stock EXCEPT ![q.card] = @ + q.quantity]
Listed(q) == listings' = IF q.how = "list" /\ channels[q.channel] # "off"
                         THEN listings \cup {<<q.card, q.channel>>} ELSE listings

\* What the form is told: on success its quantity goes back to one.
Told(q, how) ==
    IF q.from = Null THEN form
    ELSE [form EXCEPT ![q.from] =
            IF how = "ok" THEN [@ EXCEPT ![q.how] = "done", !.quantity = 1, !.told = q.card,
                                         !.typed = IF form[q.from].card = q.card THEN 1 ELSE @]
            ELSE [@ EXCEPT ![q.how] = "failed"]]

\* The request is done and answered, is refused or lost, or is done and its answer lost.  An
\* operator who is told it failed takes it to have added nothing.
Answer(r, how) ==
    /\ request[r] # Null
    /\ LET q == request[r]
       IN  /\ IF how = "failed" THEN UNCHANGED server ELSE Intake(q) /\ Listed(q)
           /\ form' = Told(q, how)
           /\ meant' = IF how = "failed" THEN [meant EXCEPT ![q.card] = @ - q.typed] ELSE meant
    /\ request' = [request EXCEPT ![r] = Null]
    /\ IF how = "ok" THEN UNCHANGED <<used, lapse>>
       ELSE Mishap /\ lapse' = IF how = "unheard" THEN lapse \cup {"unheard"} ELSE lapse
    /\ UNCHANGED <<channels, known, wanted>>

\* The channels arrive, at first and whenever the window comes to the front.
FetchChannels ==
    /\ known # channels
    /\ known' = channels
    /\ form' = [w \in Where |-> IF form[w] = Null THEN Null ELSE SeedChannel(form[w], channels)]
    /\ lapse' = IF \E w \in Where : form[w] # Null /\ form[w].choice # {}
                                        /\ form'[w].listOn # form[w].listOn
                THEN lapse \cup {"auto came late"} ELSE lapse
    /\ UNCHANGED <<channels, request, server, meant, wanted, used>>

\* A channel is changed on another page, or by someone else.
Configure(c, status) ==
    /\ status # channels[c]
    /\ Mishap
    /\ channels' = [channels EXCEPT ![c] = status]
    /\ UNCHANGED <<page, request, server, meant, wanted, lapse>>

Next ==
    \/ FetchChannels
    \/ \E card \in Card : Select(card) \/ Zoom(card)
    \/ \E w \in Where :
        \/ Leave(w)
        \/ \E n \in Quantity : TypeQuantity(w, n)
        \/ \E p \in Price : TypePrice(w, p)
        \/ \E c \in Channel \cup {Null} : Choose(w, c)
        \/ \E r \in Request : Add(w, r)
    \/ \E r \in Request, how \in {"ok", "failed", "unheard"} : Answer(r, how)
    \/ \E c \in Channel, status \in Status : Configure(c, status)

Spec == Init /\ [][Next]_vars

-------------------------------------------------------------------------------
TypeOK ==
    /\ channels \in [Channel -> Status]
    /\ known = Null \/ known \in [Channel -> Status]
    /\ \A w \in Where : form[w] # Null =>
            form[w].card \in Card /\ form[w].listOn \in Channel \cup {Null}
    /\ stock \in [Card -> Nat] /\ listings \subseteq Card \X Channel

\* Everything on the shelf was asked for, in that number: cards change, quantities go back to
\* one and requests fail without adding a number that was typed for something else.
StockIsMeant ==
    lapse \cap {"typed ahead", "unheard"} = {} /\ (\A r \in Request : request[r] = Null) =>
        stock = meant

\* "Switching cards should leave the field as useful as it was": a card is never listed at
\* the price of another.
PricesAreTheCards == \A r \in Request : request[r] # Null => request[r].own

\* "Added. Now holding": said of the card that was added.
SaidOfTheCard == \A w \in Where :
    form[w] # Null /\ form[w].told # Null => form[w].told = form[w].card

\* A card is listed where the operator chose, or where new stock is listed as long as nothing
\* was chosen; unless a channel came to list new stock after the choice.
ListedAsChosen == "auto came late" \in lapse \/ listings \subseteq wanted

IntakeHolds == StockIsMeant /\ PricesAreTheCards /\ SaidOfTheCard /\ ListedAsChosen

\* "The toggle is a default rather than a decision taken away", "seeded once, when the
\* channels first arrive": what was chosen stays chosen.
ChoiceStands ==
    \A w \in Where :
        form[w] # Null => form[w].choice \subseteq {form[w].listOn}
===============================================================================
