----------------------------- MODULE CatalogSources -----------------------------
(***************************************************************************)
(* Where products come from: the sources a search is put to, what each     *)
(* remembers of the files it has read, and the catalogue of the hub's own  *)
(* that confirmed and ingested products end up in (CatalogService,         *)
(* CatalogSourceRegistry and the catalog packages).                        *)
(*                                                                         *)
(* Two shapes of source are asked.  tcgcsv and CardTrader publish a file   *)
(* per set and cannot find a product by its id: they remember which set    *)
(* each product they have read was in.  Palworld's database is read whole, *)
(* page by page.  Every request awaits, so calls interleave between them.  *)
(***************************************************************************)
EXTENDS Naturals, Sequences, FiniteSets, SequencesExt

CONSTANTS
    Product, Set, LineOf,   \* products, set files, and the product line of each set
    Home,                   \* the set each product is in at first
    Card,                   \* the cards of the database that is read whole
    Query,                  \* [lines, sets, text, cards, limit]: what a query's words match,
                            \* and how many of a source's matches it asks for
    Caller,
    MaxLines, MaxSets,      \* how many lines and sets one search may download
    PageSize, MaxPages,     \* of the database that is read whole
    MaxCalls, MaxMishaps,   \* bounds
    Null

VARIABLES
    indexed,        \* which of the sources with a file per set: "tcgcsv" or "cardtrader"
    token,          \* whether CardTrader has been given its token
    published,      \* per set, the products in its file
    cards,          \* the cards of the database, in its order
    cache, index,   \* files read and not yet an hour old; the set each product was seen in
    deck,           \* the whole database as last read, or Null
    catalog,        \* per product or card, the namespaces of its external refs; none: not held
    call,
    shown,          \* what a search of this process has shown
    answer,         \* the search just answered, until the next call; or Null
    refused,        \* what was shown or held, and then could not be confirmed
    turned,         \* what the local catalogue offered and the hub knew no source of
    moved,          \* what the sources moved, dropped or added since
    used, lapse

vars == <<indexed, token, published, cards, cache, index, deck, catalog, call, shown, answer,
          refused, turned, moved, used, lapse>>

Thing == Product \cup Card
Line == {LineOf[s] : s \in Set}
File == Set \cup Line \cup {"categories", "games", "expansions"}
SomeSeq(S) == SetToSeq(S)

Init ==
    /\ indexed \in {"tcgcsv", "cardtrader"}
    /\ token = FALSE
    /\ published = [s \in Set |-> {p \in Product : Home[p] = s}]
    /\ cards = SomeSeq(Card)
    /\ cache = [f \in File |-> Null] /\ index = [p \in Product |-> Null]
    /\ deck = Null
    /\ catalog = [t \in Thing |-> {}]
    /\ call = [c \in Caller |-> Null]
    /\ shown = {} /\ answer = Null /\ refused = {} /\ turned = {} /\ moved = {}
    /\ used = [calls |-> 0, mishaps |-> 0]
    /\ lapse = {}

Mishap == used.mishaps < MaxMishaps /\ used' = [used EXCEPT !.mishaps = @ + 1]
Began ==
    /\ used.calls < MaxCalls /\ used' = [used EXCEPT !.calls = @ + 1]
    /\ answer' = Null
Outside == <<indexed, token, published, cards, moved>>

-------------------------------------------------------------------------------
(* What a search reads.                                                    *)

Scope(q) == {s \in q.sets : LineOf[s] \in q.lines}

\* Refused before anything large is read: too many lines, or too many sets.
TooBroad(q) == Cardinality(q.lines) > MaxLines \/ Cardinality(Scope(q)) > MaxSets

SetsOf(q) == IF TooBroad(q) THEN <<>> ELSE SomeSeq(Scope(q))

\* tcgcsv: the lines, the sets of each line in scope, then the file of each set.
FilesOfTcgcsv(q) ==
    <<"categories">> \o
    (IF Cardinality(q.lines) > MaxLines THEN <<>> ELSE SomeSeq(q.lines)) \o SetsOf(q)

\* CardTrader: its games, every set in one list, then the file of each set in scope.
FilesOfCardTrader(q) ==
    <<"games">> \o
    (IF q.lines = {} \/ Cardinality(q.lines) > MaxLines THEN <<>> ELSE <<"expansions">>) \o
    SetsOf(q)

FilesOf(q) == IF indexed = "tcgcsv" THEN FilesOfTcgcsv(q) ELSE FilesOfCardTrader(q)

\* What one product, or one set, costs to fetch again.
FilesOfSet(s) == IF indexed = "tcgcsv" THEN <<s, "categories", LineOf[s]>>
                 ELSE <<"games", "expansions", s>>
FilesOfProduct(s) == IF indexed = "tcgcsv" THEN <<s>> ELSE <<"games", "expansions", s>>

Reader(kind, of, files, page) ==
    [kind |-> kind, of |-> of, left |-> files, rows |-> {}, cost |-> 0, failed |-> {},
     page |-> page, read |-> <<>>]

-------------------------------------------------------------------------------
(* Calls.                                                                  *)

\* Every source that can answer for the game is asked, and all of them at once.
Search(c, q) ==
    /\ call[c] = Null
    /\ Began
    /\ call' = [call EXCEPT ![c] =
                    Reader("search", q, FilesOf(q), IF q.cards THEN 1 ELSE 0)]
    /\ UNCHANGED <<Outside, cache, index, deck, catalog, shown, refused, turned, lapse>>

\* A set is ingested: every product of its file goes to the catalogue.
Ingest(c, s) ==
    /\ call[c] = Null
    /\ Began
    /\ call' = [call EXCEPT ![c] = Reader("ingest", s, FilesOfSet(s), 0)]
    /\ UNCHANGED <<Outside, cache, index, deck, catalog, shown, refused, turned, lapse>>

RefsOf(t) == IF t \in Card THEN {"palworld"} ELSE {indexed, "tcgplayer"}
Held == {t \in Thing : catalog[t] # {}}
Stored(T) == [t \in Thing |-> IF t \in T THEN catalog[t] \cup RefsOf(t) ELSE catalog[t]]

\* Mutant of KnownAs: only the source is asked.
KnownAsFetched(t) == IF t \in Card \/ index[t] # Null THEN "known" ELSE "unknown"

\* A product is confirmed: what is stored already is taken from there, without any request;
\* one whose set nobody remembers is not found.
KnownAs(t) == IF t \in Held THEN "held"
              ELSE IF t \in Card \/ index[t] # Null THEN "known" ELSE "unknown"

Refuse(t) == refused' = IF t \in shown \cup Held THEN refused \cup {t} ELSE refused

Confirm(c, t) ==
    /\ call[c] = Null
    /\ Began
    /\ CASE KnownAs(t) = "held" -> UNCHANGED <<call, refused>>
         [] KnownAs(t) = "unknown" -> Refuse(t) /\ UNCHANGED call
         [] OTHER ->
                /\ call' = [call EXCEPT ![c] =
                       IF t \in Card THEN Reader("confirm", t, <<>>, 1)
                       ELSE Reader("confirm", t, FilesOfProduct(index[t]), 0)]
                /\ UNCHANGED refused
    /\ UNCHANGED <<Outside, cache, index, deck, catalog, shown, turned, lapse>>

\* The name the local catalogue offers an item under, so that it can be confirmed.
Preference == <<"tcgcsv", "tcgplayer", "scryfall">>

\* Mutant of PickAttribution: by what a listing is keyed on.
PickAttributionByMarket(refs) ==
    IF "tcgplayer" \in refs THEN "tcgplayer" ELSE CHOOSE r \in refs : TRUE

PickAttribution(refs) ==
    LET ranked == {i \in DOMAIN Preference : Preference[i] \in refs} IN
        IF ranked = {} THEN CHOOSE r \in refs : TRUE
        ELSE Preference[CHOOSE i \in ranked : \A j \in ranked : i <= j]

Registered == {"tcgcsv", "cardtrader", "scryfall", "palworld", "imported"}

\* An item the local catalogue offers is confirmed under that name; a name no source goes by
\* is answered with "No catalog source registered" before the catalogue is looked at.
ConfirmOffer(t) ==
    /\ t \in Held
    /\ Began
    /\ turned' = IF PickAttribution(catalog[t]) \in Registered THEN turned ELSE turned \cup {t}
    /\ UNCHANGED <<Outside, cache, index, deck, catalog, call, shown, refused, lapse>>

-------------------------------------------------------------------------------
(* What the sources answer.                                                *)

Contents(f) == IF f \in Set THEN published[f] ELSE {}
Now(f) == IF cache[f] # Null THEN cache[f] ELSE Contents(f)
Known(f) == [p \in Product |-> IF f \in Set /\ p \in Now(f) THEN f ELSE index[p]]
Ready(f) == cache[f] # Null \/ indexed = "tcgcsv" \/ token

\* The next file: from what was kept of it, or over the network, and then kept an hour.
\* The whole of a set is indexed, whatever part of it was asked for; tcgcsv indexes a set
\* that is ingested when it has its names, and nothing when it confirms.
Read(c) ==
    /\ call[c] # Null /\ call[c].left # <<>>
    /\ LET f == Head(call[c].left) IN
        /\ Ready(f)
        /\ cache' = [cache EXCEPT ![f] = Now(f)]
        /\ index' = IF indexed = "cardtrader" \/ call[c].kind = "search" THEN Known(f) ELSE index
        /\ call' = [call EXCEPT ![c].left = Tail(@),
                                ![c].rows = @ \cup Now(f),
                                ![c].cost = IF cache[f] = Null THEN @ + 1 ELSE @]
    /\ UNCHANGED <<Outside, deck, catalog, shown, answer, refused, turned, used, lapse>>

Fails(c, source) ==
    call' = [call EXCEPT ![c].failed = @ \cup {source},
                         ![c].left = IF source = indexed THEN <<>> ELSE @,
                         ![c].page = IF source = "palworld" THEN 0 ELSE @]

\* A source that does not answer, or that wants its token first.
FailRead(c) ==
    /\ call[c] # Null /\ call[c].left # <<>>
    /\ LET f == Head(call[c].left) IN
        /\ cache[f] = Null
        /\ IF Ready(f) THEN Mishap ELSE UNCHANGED used
    /\ Fails(c, indexed)
    /\ UNCHANGED <<Outside, cache, index, deck, catalog, shown, answer, refused, turned, lapse>>

\* Mutant of AtEnd: the number of cards is not looked at.
AtEndByCount(items, read) == Len(read) >= PageSize

\* The next page of the database, if it is not in memory: a short page is the last one, and
\* so is the one that brings as many as there are.  More than MaxPages is an error.
Smaller(m, n) == IF m < n THEN m ELSE n
Page(n) == SubSeq(cards, (n - 1) * PageSize + 1, Smaller(n * PageSize, Len(cards)))
AtEnd(items, read) == Len(items) < PageSize \/ Len(read) >= Len(cards)

Reading(c) == call[c] # Null /\ call[c].page > 0

ReadPage(c) ==
    /\ Reading(c)
    /\ LET read == call[c].read \o Page(call[c].page) IN
        IF deck # Null /\ call[c].page = 1
        THEN /\ call' = [call EXCEPT ![c].read = deck, ![c].page = 0]
             /\ UNCHANGED deck
        ELSE IF AtEnd(Page(call[c].page), read)
        THEN /\ call' = [call EXCEPT ![c].read = read, ![c].page = 0]
             /\ deck' = read
        ELSE IF call[c].page = MaxPages
        THEN Fails(c, "palworld") /\ UNCHANGED deck
        ELSE /\ call' = [call EXCEPT ![c].read = read, ![c].page = @ + 1]
             /\ UNCHANGED deck
    /\ UNCHANGED <<Outside, cache, index, catalog, shown, answer, refused, turned, used, lapse>>

FailPage(c) ==
    /\ Reading(c)
    /\ Mishap
    /\ Fails(c, "palworld")
    /\ UNCHANGED <<Outside, cache, index, deck, catalog, shown, answer, refused, turned, lapse>>

Over(c, kind) ==
    /\ call[c] # Null /\ call[c].kind = kind /\ call[c].left = <<>> /\ call[c].page = 0
    /\ call' = [call EXCEPT ![c] = Null]

\* Mutant of FailedOf: a search that is too broad just finds nothing.
FailedOfNetwork(k) == k.failed

\* The sources that did not answer, by name; and what the others found.
FailedOf(k) == k.failed \cup (IF TooBroad(k.of) THEN {indexed} ELSE {})

\* A source answers at most as many matches as the query asks for: of its files whichever
\* come first in them, of the database the first in its order.
FirstOfFiles(rows, q) ==
    {found \in SUBSET (rows \cap q.text) :
        Cardinality(found) = Smaller(q.limit, Cardinality(rows \cap q.text))}

FirstOfCards(read, q) ==
    LET matched == SelectSeq(read, LAMBDA d : d \in q.text)
    IN  ToSet(SubSeq(matched, 1, Smaller(q.limit, Len(matched))))

\* One failing source does not fail the search: it is named beside what the others found.
AnswerSearch(c) ==
    /\ Over(c, "search")
    /\ LET k == call[c]
           failed == FailedOf(k)
           fromCards == IF "palworld" \in failed THEN {} ELSE FirstOfCards(k.read, k.of)
       IN \E fromFiles \in FirstOfFiles(IF indexed \in failed THEN {} ELSE k.rows, k.of) :
            LET found == fromFiles \cup fromCards
            IN  /\ answer' = [of |-> k.of, found |-> found, failed |-> failed, cost |-> k.cost]
                /\ shown' = shown \cup found
    /\ UNCHANGED <<Outside, cache, index, deck, catalog, refused, turned, used, lapse>>

AnswerIngest(c) ==
    /\ Over(c, "ingest")
    /\ LET k == call[c] IN
        /\ catalog' = IF k.failed # {} THEN catalog ELSE Stored(k.rows)
        /\ index' = [p \in Product |-> IF k.failed = {} /\ p \in k.rows THEN k.of ELSE index[p]]
    /\ UNCHANGED <<Outside, cache, deck, shown, answer, refused, turned, used, lapse>>

\* A source that fails is an error of its own: only one that answers can answer "no product".
AnswerConfirm(c) ==
    /\ Over(c, "confirm")
    /\ LET k == call[c] IN
        IF k.failed # {} THEN UNCHANGED <<catalog, refused>>
        ELSE IF k.of \in k.rows \cup ToSet(k.read)
             THEN catalog' = Stored({k.of}) /\ UNCHANGED refused
             ELSE Refuse(k.of) /\ UNCHANGED catalog
    /\ UNCHANGED <<Outside, cache, index, deck, shown, answer, turned, used, lapse>>

-------------------------------------------------------------------------------
(* What happens meanwhile.                                                 *)

GiveToken ==
    /\ indexed = "cardtrader" /\ ~token
    /\ token' = TRUE
    /\ UNCHANGED <<indexed, published, cards, moved, cache, index, deck, catalog, call, shown,
                   answer, refused, turned, used, lapse>>

\* Mutant of IndexAfterExpiry: it goes with the files.
IndexGoesToo == [p \in Product |-> Null]

\* An hour goes by: what was kept is read anew, and where each product was is still known.
IndexAfterExpiry == index

Expire ==
    /\ \E f \in File : cache[f] # Null
    /\ Mishap
    /\ cache' = [f \in File |-> Null] /\ deck' = Null
    /\ index' = IndexAfterExpiry
    /\ UNCHANGED <<Outside, catalog, call, shown, answer, refused, turned, lapse>>

Restart ==
    /\ Mishap
    /\ cache' = [f \in File |-> Null] /\ deck' = Null /\ index' = [p \in Product |-> Null]
    /\ call' = [c \in Caller |-> Null]
    /\ shown' = {}
    /\ UNCHANGED <<Outside, catalog, answer, refused, turned, lapse>>

\* The publisher moves a product to another set, or withdraws it.
Move(p, S) ==
    /\ Cardinality(S) <= 1 /\ S # {s \in Set : p \in published[s]}
    /\ Mishap
    /\ published' = [s \in Set |-> IF s \in S THEN published[s] \cup {p}
                                   ELSE published[s] \ {p}]
    /\ moved' = moved \cup {p}
    /\ UNCHANGED <<indexed, token, cards, cache, index, deck, catalog, call, shown, answer,
                   refused, turned, lapse>>

\* A card leaves the database, and those behind it move up: one of them may be missed by
\* whoever is between two pages.
Withdraw(d) ==
    /\ d \in ToSet(cards)
    /\ Mishap
    /\ cards' = SelectSeq(cards, LAMBDA x : x # d)
    /\ moved' = moved \cup {d}
    /\ lapse' = IF \E c \in Caller : Reading(c) /\ call[c].page > 1
                THEN lapse \cup {"shifted"} ELSE lapse
    /\ UNCHANGED <<indexed, token, published, cache, index, deck, catalog, call, shown, answer,
                   refused, turned>>

Next ==
    \/ GiveToken \/ Expire \/ Restart
    \/ \E c \in Caller :
        \/ Read(c) \/ FailRead(c) \/ ReadPage(c) \/ FailPage(c)
        \/ AnswerSearch(c) \/ AnswerIngest(c) \/ AnswerConfirm(c)
        \/ \E q \in Query : Search(c, q)
        \/ \E s \in Set : Ingest(c, s)
        \/ \E t \in Thing : Confirm(c, t)
    \/ \E t \in Thing : ConfirmOffer(t)
    \/ \E p \in Product, S \in SUBSET Set : Move(p, S)
    \/ \E d \in Card : Withdraw(d)

Spec == Init /\ [][Next]_vars

-------------------------------------------------------------------------------
TypeOK ==
    /\ token \in BOOLEAN
    /\ published \in [Set -> SUBSET Product] /\ ToSet(cards) \subseteq Card
    /\ \A f \in File : cache[f] = Null \/ cache[f] \subseteq Product
    /\ index \in [Product -> Set \cup {Null}]
    /\ deck # Null => ToSet(deck) \subseteq Card
    /\ shown \subseteq Thing /\ refused \subseteq Thing /\ moved \subseteq Thing
    /\ \A t \in Thing : catalog[t] \subseteq {"tcgcsv", "cardtrader", "tcgplayer", "palworld"}

Steady == Thing \ moved
InScope(q) == (UNION {published[s] : s \in Scope(q)}) \cup (IF q.cards THEN Card ELSE {})

Origin(t) == IF t \in Card THEN "palworld" ELSE indexed
FoundBy(source) == {t \in answer.found : Origin(t) = source}

\* "A source that silently returned partial results would be worse, because a missing card
\* looks identical to a card that does not exist": an answer has every match of every source
\* asked, but for the sources it names and those of which it has as many as were asked for,
\* and of none has it more; and no search walks the catalogue.
AnswersAreWhole ==
    answer # Null =>
        /\ \A t \in Steady \cap InScope(answer.of) \cap answer.of.text :
            \/ t \in answer.found
            \/ Origin(t) \in answer.failed
            \/ Cardinality(FoundBy(Origin(t))) = answer.of.limit
            \/ t \in Card /\ "shifted" \in lapse
        /\ \A source \in {indexed, "palworld"} : Cardinality(FoundBy(source)) <= answer.of.limit
        /\ answer.cost <= 1 + MaxLines + MaxSets

\* What a search of this process has shown can be confirmed, however many sets were read
\* since and however old the files are; what the catalogue holds can be confirmed always;
\* and what a confirmed tcgcsv product is offered under, the hub knows.
ConfirmsResolve ==
    /\ refused \subseteq moved \cup (IF "shifted" \in lapse THEN Card ELSE {})
    /\ indexed = "tcgcsv" => turned = {}

\* The database read whole is all of it, unless it changed between two of its pages.
DeckIsWhole == deck # Null /\ "shifted" \notin lapse => Card \ moved \subseteq ToSet(deck)

SourcesHold == AnswersAreWhole /\ ConfirmsResolve /\ DeckIsWhole

\* What the local catalogue offers can be acted on: "returning it would offer the operator
\* something they cannot act on" is why an item without refs is left out.
OffersCanBeConfirmed == turned = {}
===============================================================================
