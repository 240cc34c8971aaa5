------------------------------ MODULE MC_Screens ------------------------------
(*****************************************************************************)
(* CatalogMerge, extended, with the other services of the catalogue, the     *)
(* screens of the web UI and the conversions of one thing into another as    *)
(* instances. They share no state, so their interleavings show nothing that  *)
(* each on its own does not: a behaviour picks one, from every initial state *)
(* of it, and runs it. The variables x1, x2, ... stand for the variables of  *)
(* what runs; those it does not need stay Null.                              *)
(*****************************************************************************)
EXTENDS CatalogMerge, Sequences, TLC

CONSTANTS None, r1, r2, i1, i2, i3

CONSTANT Subjects      \* what a behaviour may run

VARIABLES
    subject,        \* what the behaviour runs
    x1, x2, x3, x4, x5, x6, x7, x8, x9, x10, x11, x12, x13, x14, x15,
    x16             \* and its variables, in their order

\* Two listings: one whose title names the longer product, and a damaged one.
MatchTitle == [l1 |-> [name |-> <<"star", "trek", "box">>, condition |-> None],
               l2 |-> [name |-> <<"star">>, condition |-> "DMG"]]

\* The two sources give the two products each other's ids.  The second source publishes the
\* first one's id of the first product; of the second product none, or the same again.
MatchGiven ==
    {[a |-> [x |-> {<<"a", "1">>}, y |-> {<<"a", "2">>}],
      b |-> [x |-> {<<"b", "2">>, <<"a", "1">>}, y |-> {<<"b", "1">>} \cup other]] :
        other \in {{}, {<<"a", "1">>}}}

\* A browse of one line, one of both that takes cards, one of one line for the first card
\* alone, and a search for cards.
All == {"p1", "k1", "k2"}
Asked ==
    {[lines |-> {"L1"}, sets |-> {"s1"}, text |-> All, cards |-> FALSE, limit |-> 2],
     [lines |-> {"L1", "L2"}, sets |-> {"s1", "s2"}, text |-> All, cards |-> TRUE, limit |-> 2],
     [lines |-> {"L2"}, sets |-> {"s2"}, text |-> All, cards |-> TRUE, limit |-> 1],
     [lines |-> {}, sets |-> {}, text |-> {"k1", "k2"}, cards |-> TRUE, limit |-> 2]}

\* A row of the catalogue, and the ones a shop may hold of two cards.
CatalogRow(n, refs, number, held) ==
    [name |-> n, refs |-> refs, number |-> number, image |-> Null, held |-> held]
Rows ==
    {CatalogRow("a", {"s"}, "1", {"NM"}), CatalogRow("a", {"t"}, "2", {"NM"}),
     CatalogRow("a", {"s", "t"}, Null, {}), CatalogRow("a", {"t"}, "1", {}),
     CatalogRow("b", {"t"}, Null, {"NM"})}

\* Files of cards that can be read and cards that cannot.
Files == {[game |-> Null, cards |-> <<TRUE>>], [game |-> "g", cards |-> <<TRUE, FALSE>>],
          [game |-> "h", cards |-> <<TRUE, TRUE>>]}

\* Two orders of one page, and a filter that hides one of its rows.
Views == {[filter |-> "f", order |-> "up"], [filter |-> "f", order |-> "down"],
          [filter |-> "g", order |-> "up"]}
Shown == [v \in Views |-> CASE v.filter = "g" -> {"b"}
                            [] v.filter = "f" /\ v.order = "up" -> {"a", "b"}
                            [] OTHER -> {"a"}]
Shares == {[mode |-> "pooled", units |-> Null], [mode |-> "fixed", units |-> 1],
           [mode |-> "fixed", units |-> 2]}
Cards == {[source |-> "a", id |-> "1", market |-> 5], [source |-> "b", id |-> "1", market |-> 7]}
FieldsOf == [c1 |-> [f |-> {1, 2}, g |-> {2, 3}, h |-> {}], c2 |-> [f |-> {3}, k |-> {}]]

\* Two products of one set, told apart by their numbers, and items that may be either.
Fil == INSTANCE CatalogFill WITH
    Item <- {i1, i2, i3}, Product <- {"a", "b"}, NumberOf <- [a |-> "1", b |-> "2"],
    Run <- {r1, r2}, MaxRuns <- 2, MaxNews <- 1, MaxMishaps <- 1,
    row <- x1, published <- x2, run <- x3, replaced <- x4, covered <- x5, dropped <- x6,
    used <- x7, lapse <- x8

\* One channel with two listings; two products, which two sources number differently.
Mat == INSTANCE Matching WITH
    Channel <- {"c"}, Page <- <<"l1", "l2">>, Title <- MatchTitle, Product <- {"x", "y"},
    Name <- [x |-> <<"star", "trek">>, y |-> <<"star">>], Preference <- <<"a", "b">>,
    Given <- MatchGiven, Condition <- {"NM", "DMG"}, MaxRuns <- 2, MaxConfirms <- 1,
    MaxMishaps <- 1,
    sku <- x1, drives <- x2, gives <- x3, recorded <- x4, picker <- x5, asked <- x6,
    review <- x7, pending <- x8, call <- x9, stamped <- x10, made <- x11, runs <- x12,
    lapse <- x13

\* One sealed product, two sets of two lines, two cards; pages of one entry.
Src == INSTANCE CatalogSources WITH
    Product <- {"p1"}, Set <- {"s1", "s2"}, LineOf <- [s1 |-> "L1", s2 |-> "L2"],
    Home <- [p1 |-> "s1"], Card <- {"k1", "k2"}, Query <- Asked, Caller <- {r1, r2},
    MaxLines <- 1, MaxSets <- 1, PageSize <- 1, MaxPages <- 2, MaxCalls <- 2, MaxMishaps <- 1,
    indexed <- x1, token <- x2, published <- x3, cards <- x4, cache <- x5, index <- x6,
    deck <- x7, catalog <- x8, call <- x9, shown <- x10, answer <- x11, refused <- x12,
    turned <- x13, moved <- x14, used <- x15, lapse <- x16

\* Two cards in two sets, up to three rows of them, with and without numbers and stock.
Dup == INSTANCE Duplicates WITH
    MaxItem <- 3, Row <- Rows, MaxConfirms <- 2, MaxMishaps <- 1,
    rows <- x1, shown <- x2, winners <- x3, confirming <- x4, merges <- x5,
    latest <- x6, agreed <- x7, known <- x8, used <- x9, lapse <- x10

\* Two guarded sources, one with three sets of which a request may name two; files with no
\* game, one game and a bad row, two of them read at once.
Pan == INSTANCE CatalogPanels WITH
    Source <- {"a", "b"}, Guarded <- {"a", "b"}, Game <- {"g"}, SetId <- {"1", "2", "3"},
    Listed <- [a |-> {"1", "2", "3"}, b |-> {"1"}],
    File <- Files, DefaultMaxSets <- 1, MostSetIds <- 2, MostMaxSets <- 3, MaxRuns <- 2,
    MaxMoves <- 1, MaxFiles <- 3, MaxMishaps <- 1,
    panel <- x1, offers <- x2, token <- x3, page <- x4, typed <- x5, known <- x6,
    listing <- x7, run <- x8, saving <- x9, ingested <- x10, form <- x11,
    imports <- x12, meant <- x13, used <- x14, lapse <- x15

\* One channel in two tabs.
Frm == INSTANCE ChannelForms WITH
    Tab <- {r1, r2}, Rule <- {"u1", "u2"}, Stored <- {"u1"}, Setting <- {"f"}, MaxEdits <- 2,
    MaxSaves <- 1, MaxMishaps <- 1,
    row <- x1, cache <- x2, form <- x3, drawn <- x4, base <- x5, clicked <- x6,
    pending <- x7, wanted <- x8, used <- x9, lapse <- x10

\* Three listings, two a run.
Bat == INSTANCE Batches WITH
    Panel <- {"rules", "images"}, Listings <- <<"a", "b", "c">>, MaxItems <- 2, MaxRuns <- 3,
    MaxMishaps <- 1,
    panel <- x1, linked <- x2, list <- x3, selected <- x4, confirming <- x5,
    done <- x6, run <- x7, settled <- x8, used <- x9, lapse <- x10

\* Two rows, and three addresses that show both or one of them.
Tab == INSTANCE InventoryTable WITH
    Item <- {"a", "b"}, Channel <- {"c1", "c2"}, View <- Views, Rows <- Shown, Count <- {1, 3},
    MaxTyped <- 2, MaxTicks <- 2, MaxMishaps <- 1, MaxMoves <- 1,
    task <- x1, view <- x2, screen <- x3, stock <- x4, drafts <- x5, dialog <- x6,
    selected <- x7, bar <- x8, adding <- x9, listed <- x10, typed <- x11,
    landed <- x12, previewed <- x13, used <- x14, lapse <- x15

\* One unit and two channels, that show what there is or up to two of it.
Itm == INSTANCE ItemScreen WITH
    Channel <- {r1, r2}, Terms <- Shares, Price <- {1}, MaxStock <- 1, MaxSends <- 2,
    MaxTyped <- 1, MaxMishaps <- 1,
    ledger <- x1, cache <- x2, form <- x3, picked <- x4, call <- x5, overwritten <- x6,
    used <- x7, lapse <- x8

\* Two cards with one number, of two sources and at two prices.
Ink == INSTANCE IntakeScreen WITH
    Card <- Cards, Channel <- {1, 2}, Quantity <- {3}, Price <- {9}, Request <- {r1, r2},
    MaxPresses <- 2, MaxTyped <- 1, MaxMoves <- 2, MaxMishaps <- 1,
    channels <- x1, known <- x2, form <- x3, request <- x4, stock <- x5,
    listings <- x6, meant <- x7, wanted <- x8, used <- x9, lapse <- x10

\* Two channels whose fields hold for some categories, for all, or are absent.
Run == INSTANCE ListRun WITH
    Channel <- {"c1", "c2"}, Field <- {"f", "g", "h", "k"}, Category <- {1, 2, 3},
    Needs <- FieldsOf, Item <- {r1, r2}, MaxItems <- 1, MaxMoves <- 5, MaxRuns <- 2,
    MaxMishaps <- 1,
    channel <- x1, fields <- x2, chosen <- x3, category <- x4, selected <- x5,
    shown <- x6, listed <- x7, run <- x8, used <- x9, lapse <- x10

\* The conversions, and what they are given.
Cnv == INSTANCE Conversions

Upto(n, S) == UNION {[1..k -> S] : k \in 0..n}
RuleOf(matches, gives) ==
    {[match |-> w[1], value |-> w[2], gives |-> g] : w \in matches, g \in gives}

OfGames == {<<"game", "g1">>, <<"game", "g2">>}
OfAll == OfGames \cup {<<"name-contains", "box">>, <<"kind", "sealed">>, <<"kind", "g1">>,
                       <<"set", "g1">>}
OneField == [owner: {"product", "variant", "shop"}, field: {"f"}, value: {1, 2}]

\* Columns with tags, with vendors and with custom fields.
Columns ==
    {[tags |-> t, tagRules |-> r] :
        t \in {<<>>, <<"", "t">>}, r \in Upto(2, RuleOf(OfAll, {"t", "u", ""}))}
    \cup {[vendor |-> v, vendorRules |-> r] :
        v \in {"", "z"}, r \in Upto(2, RuleOf(OfAll, {"v", "w"}))}
    \cup {[metafields |-> f, metafieldRules |-> r, publications |-> <<>>] :
        f \in Upto(1, OneField),
        r \in Upto(2, RuleOf({<<"game", "g1">>, <<"kind", "sealed">>}, OneField))}
Described == [name: SUBSET {"box"}, game: {"g1", "g2", None}, setName: {"g1"},
              condition: {"NM", "SEALED", None}]
Policies == [enabled: {TRUE}, percent: {80}, rounding: {"none"}, floor: {None, 100},
             maxPct: {None, 5, 10}, maxUpPct: {None, 0, 10}, maxDownPct: {None, 5},
             minDelta: {None, 10}]

\* Rows of a file, the words of a Condition, and prices.
Cells == Upto(2, {"x", ",", "\"", "\n", " "})
Tables == {<<<<a, b>>>> : a, b \in Cells}
    \cup {<<<<a, b>>, <<c, d>>>> :
            a, d \in Cells, b \in {<<>>, <<"\"">>}, c \in {<<>>, <<"\n">>}}
Spellings(phrases) == {phrases[i][1] : i \in DOMAIN phrases} \cup {<<>>}
Phrases ==
    Upto(4, {"near", "mint", "1st", "edition", "foil", "-", "japanese", "chinese", "simplified"})
    \cup {c \o e \o f \o l :
            c \in Spellings(Cnv!ConditionPhrases), e \in Spellings(Cnv!EditionPhrases),
            f \in Spellings(Cnv!FinishPhrases),
            l \in {<<"-">> \o n : n \in Spellings(Cnv!LanguageNames)}
                     \cup {<<>>, <<"-", "klingon">>}}
Prices == [whole: {0, 17, 1250}, fraction: Upto(4, {0, 4, 5, 9})]

\* One of the inputs is taken up.
Compute ==
    /\ x1 = Null
    /\ \/ \E s \in Columns, i \in Described : x1' = <<"column", s, i>>
       \/ \E r \in Upto(2, RuleOf(OfAll, {"v", "w"})), g \in {"g1", "g2"}, v \in {"", "z"},
             i \in Described : x1' = <<"edit", r, g, v, i>>
       \/ \E p \in Policies, c \in {100, 1000, None}, t \in {99, 105, 950, 1095} :
             x1' = <<"policy", p, c, t>>
       \/ \E t \in Tables, q \in BOOLEAN : x1' = <<"file", t, q>>
       \/ \E w \in Phrases : x1' = <<"words", w>>
       \/ \E p \in Prices : x1' = <<"price", p>>
    /\ UNCHANGED <<x2, x3, x4, x5, x6, x7, x8, x9, x10, x11, x12, x13, x14, x15, x16>>

allVars == <<subject, vars, x1, x2, x3, x4, x5, x6, x7, x8, x9, x10, x11, x12, x13, x14, x15,
             x16>>

ASSUME CatalogParameters == Parameters

Symmetry == Permutations({r1, r2}) \cup Permutations({i1, i2, i3})
ScreenSymmetry == Permutations({r1, r2})

AllInit ==
    /\ subject \in Subjects
    /\ Init
    /\ \/ /\ subject = "fill" /\ Fil!Init /\ x9 = Null /\ x10 = Null
          /\ x11 = Null /\ x12 = Null /\ x13 = Null /\ x14 = Null /\ x15 = Null
          /\ x16 = Null
       \/ /\ subject = "matching" /\ Mat!Init /\ x14 = Null /\ x15 = Null
          /\ x16 = Null
       \/ /\ subject = "sources" /\ Src!Init
       \/ /\ subject = "duplicates" /\ Dup!Init /\ x11 = Null /\ x12 = Null
          /\ x13 = Null /\ x14 = Null /\ x15 = Null /\ x16 = Null
       \/ /\ subject = "panels" /\ Pan!Init /\ x16 = Null
       \/ /\ subject = "forms" /\ Frm!Init /\ x11 = Null /\ x12 = Null /\ x13 = Null
          /\ x14 = Null /\ x15 = Null /\ x16 = Null
       \/ /\ subject = "batches" /\ Bat!Init /\ x11 = Null /\ x12 = Null /\ x13 = Null
          /\ x14 = Null /\ x15 = Null /\ x16 = Null
       \/ /\ subject = "table" /\ Tab!Init /\ x16 = Null
       \/ /\ subject = "item" /\ Itm!Init /\ x9 = Null /\ x10 = Null /\ x11 = Null
          /\ x12 = Null /\ x13 = Null /\ x14 = Null /\ x15 = Null /\ x16 = Null
       \/ /\ subject = "intake" /\ Ink!Init /\ x11 = Null /\ x12 = Null /\ x13 = Null
          /\ x14 = Null /\ x15 = Null /\ x16 = Null
       \/ /\ subject = "run" /\ Run!Init /\ x11 = Null /\ x12 = Null /\ x13 = Null
          /\ x14 = Null /\ x15 = Null /\ x16 = Null
       \/ /\ subject \in {"catalog", "conversions"} /\ x1 = Null /\ x2 = Null /\ x3 = Null
          /\ x4 = Null /\ x5 = Null /\ x6 = Null /\ x7 = Null /\ x8 = Null /\ x9 = Null
          /\ x10 = Null /\ x11 = Null /\ x12 = Null /\ x13 = Null /\ x14 = Null
          /\ x15 = Null /\ x16 = Null

AllNext ==
    /\ UNCHANGED subject
    /\ \/ /\ subject = "catalog" /\ Next
          /\ UNCHANGED <<x1, x2, x3, x4, x5, x6, x7, x8, x9, x10, x11, x12, x13, x14, x15, x16>>
       \/ /\ UNCHANGED vars
          /\ \/ subject = "fill" /\ Fil!Next /\ UNCHANGED <<x9, x10, x11, x12, x13, x14, x15, x16>>
             \/ subject = "matching" /\ Mat!Next /\ UNCHANGED <<x14, x15, x16>>
             \/ subject = "sources" /\ Src!Next
             \/ subject = "duplicates" /\ Dup!Next /\ UNCHANGED <<x11, x12, x13, x14, x15, x16>>
             \/ subject = "panels" /\ Pan!Next /\ UNCHANGED <<x16>>
             \/ subject = "forms" /\ Frm!Next /\ UNCHANGED <<x11, x12, x13, x14, x15, x16>>
             \/ subject = "batches" /\ Bat!Next /\ UNCHANGED <<x11, x12, x13, x14, x15, x16>>
             \/ subject = "table" /\ Tab!Next /\ UNCHANGED <<x16>>
             \/ subject = "item" /\ Itm!Next /\ UNCHANGED <<x9, x10, x11, x12, x13, x14, x15, x16>>
             \/ subject = "intake" /\ Ink!Next /\ UNCHANGED <<x11, x12, x13, x14, x15, x16>>
             \/ subject = "run" /\ Run!Next /\ UNCHANGED <<x11, x12, x13, x14, x15, x16>>
             \/ subject = "conversions" /\ Compute

AllSpec == AllInit /\ [][AllNext]_allVars

-------------------------------------------------------------------------------
\* Every variable of what runs has its type.
AllTypeOK ==
    CASE subject = "catalog" -> TypeOK
      [] subject = "fill" -> Fil!TypeOK
      [] subject = "matching" -> Mat!TypeOK
      [] subject = "sources" -> Src!TypeOK
      [] subject = "duplicates" -> Dup!TypeOK
      [] subject = "panels" -> Pan!TypeOK
      [] subject = "forms" -> Frm!TypeOK
      [] subject = "batches" -> Bat!TypeOK
      [] subject = "table" -> Tab!TypeOK
      [] subject = "item" -> Itm!TypeOK
      [] subject = "intake" -> Ink!TypeOK
      [] subject = "run" -> Run!TypeOK
      [] OTHER -> TRUE


\* Matching: what a title supports is proposed, and what the operator saw is linked.
MatchingHolds == subject = "matching" => Mat!MatchingHolds

\* CatalogSources and CatalogPanels: what a search answers, and what the screen asks for.
SourcesHold ==
    /\ subject = "sources" => Src!SourcesHold
    /\ subject = "panels" => Pan!PanelsHold

\* InventoryTable, ItemScreen, Batches and Duplicates: what is counted, shown, worked off and
\* merged is the stock's.
StockScreensHold ==
    /\ subject = "table" => Tab!TableHolds
    /\ subject = "item" => Itm!ItemHolds
    /\ subject = "batches" => Bat!BatchesMarch
    /\ subject = "duplicates" => Dup!DuplicatesHold

\* IntakeScreen and ListRun: what the operator sees is what is taken in and listed.
IntakeScreensHold ==
    /\ subject = "intake" => Ink!IntakeHolds
    /\ subject = "run" => Run!RunHolds

\* ChannelForms and Conversions: a form saves what was clicked, and what is stored, sent in a
\* file or described by rules comes back as what it was.
FormsHold ==
    /\ subject = "forms" => Frm!FormsHold
    /\ subject = "conversions" /\ x1 # Null =>
        CASE x1[1] = "column" ->
                /\ Cnv!DefaultsComeBack(x1[2])
                /\ Cnv!CardsAreDescribed(Cnv!ParseListingDefaults(x1[2]), x1[3])
          [] x1[1] = "edit" -> Cnv!EditsStayLocal(x1[2], x1[3], x1[4], x1[5])
          [] x1[1] = "policy" -> Cnv!PoliciesMigrate(x1[2], x1[3], x1[4])
          [] x1[1] = "file" -> Cnv!RowsComeBack(<<<<"h">>, <<"k", ",">>>>, x1[2], x1[3])
          [] x1[1] = "words" -> Cnv!NothingIsGuessed(x1[2])
          [] x1[1] = "price" -> Cnv!PricesComeBack(x1[2])

\* What catalog.service.ts says of the candidates it offers, and pickAttribution does not keep.
OffersCanBeConfirmed == subject = "sources" => Src!OffersCanBeConfirmed
===============================================================================
