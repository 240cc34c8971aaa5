------------------------------- MODULE CatalogFill -------------------------------
(***************************************************************************)
(* How catalog items come to be described: CatalogIngestService reads a    *)
(* source set by set, CatalogImportService takes a list made by hand, both *)
(* through IntakeService.ensureCatalogItem, which fills what is blank;     *)
(* CatalogGameMergeService pairs the items of two games by collector       *)
(* number and folds one side into the other.  All of it in single          *)
(* statements, with other runs between them.                               *)
(*                                                                         *)
(* A set name or a picture stands for the source it came from.  SKUs and   *)
(* stock are the module CatalogMerge: here an item has some or none.       *)
(***************************************************************************)
EXTENDS Naturals, FiniteSets

CONSTANTS
    Item,           \* ids of catalog items
    Product,
    NumberOf,       \* per product: the collector number the marketplace gives it
    Run,            \* runs at once
    MaxRuns,
    MaxNews,        \* changes at the sources, intakes and clears
    MaxMishaps,     \* processes killed, and sources and statements that fail
    Null

VARIABLES
    row,            \* per id: the catalog item, or Null
    published,      \* per source and product: what it says
    run,
    replaced,       \* values written over, by hindsight
    covered,        \* references that clean runs have dealt with and no clear removed
    dropped,        \* references whose statement failed without a word
    used,
    lapse

vars == <<row, published, run, replaced, covered, dropped, used, lapse>>

\* A marketplace's catalogue; a second source, which gives the marketplace's id of a product
\* beside its own; and the list made by hand, for a game no marketplace carried.  The last two
\* call the game by another name.
Source == {"market", "second", "imported"}
Number == {NumberOf[p] : p \in Product}
GameOf(s) == IF s = "market" THEN "official" ELSE "fan"
RefsOf(s, p) == {<<s, p>>} \cup {<<"market", m>> : m \in {published[s][p].market} \ {Null}}

Items == {i \in Item : row[i] # Null}
Holder(x) == {i \in Items : x \in row[i].refs}
Sources(i) == {x[1] : x \in row[i].refs}

NewItem(s, p) ==
    [game |-> GameOf(s), number |-> published[s][p].number, set |-> published[s][p].set,
     image |-> published[s][p].image, refs |-> RefsOf(s, p), sku |-> FALSE]

Idle == [step |-> "idle", kind |-> Null, todo |-> {}, product |-> Null, item |-> Null,
         refs |-> {}, blank |-> {}, pairs |-> {}, pair |-> Null, problems |-> 0]

Publishes(s) == {p \in Product : published[s][p] # Null}

\* What earlier runs have left there.  The second source gives no set, and knows one product
\* or two finishes of it by ids of its own, both with the marketplace's one id; the list need
\* not name every product; and numbers are given by the marketplace and by the others after
\* their own fashion.
Init ==
    /\ \E number \in [Product -> Number], only \in {CHOOSE p \in Product : TRUE} :
       \E list, finishes \in {{only}, Product} :
          /\ {only} \in {list, finishes}
          /\ published = [s \in Source |-> [p \in Product |->
                IF p \notin (CASE s = "market" -> Product [] s = "second" -> finishes
                               [] OTHER -> list)
                THEN Null
                ELSE [set |-> IF s = "second" THEN Null ELSE s, image |-> s,
                      number |-> IF s = "market" THEN NumberOf[p] ELSE number[p],
                      market |-> CASE s = "market" -> p [] s = "second" -> only
                                   [] OTHER -> Null]]]
    /\ \E old \in SUBSET Source :
          LET held == UNION {{s} \X Publishes(s) : s \in old}
          IN  /\ \A a, b \in held : RefsOf(a[1], a[2]) \cap RefsOf(b[1], b[2]) # {} => a = b
              /\ \E first \in [held -> Item] :
                    /\ \A a, b \in held : first[a] = first[b] => a = b
                    /\ row = [i \in Item |->
                          IF \E a \in held : first[a] = i
                          THEN LET a == CHOOSE a \in held : first[a] = i IN NewItem(a[1], a[2])
                          ELSE Null]
    /\ run = [r \in Run |-> Idle]
    /\ replaced = {} /\ covered = {} /\ dropped = {}
    /\ used = [runs |-> 0, news |-> 0, mishaps |-> 0]
    /\ lapse = {}

At(r, step) == run[r].step = step
Goto(r, step) == run' = [run EXCEPT ![r].step = step]
Use(what, most) == used[what] < most /\ used' = [used EXCEPT ![what] = @ + 1]
Others == <<published, replaced, covered, dropped, used, lapse>>

-------------------------------------------------------------------------------
\* ingest and import: a set of one source, product after product.
AskFill(r, s) ==
    /\ At(r, "idle") /\ Use("runs", MaxRuns)
    /\ run' = [run EXCEPT ![r] = [Idle EXCEPT !.step = "next", !.kind = s, !.todo = Publishes(s)]]
    /\ lapse' = lapse \cup {o \in {"overlap"} : \E q \in Run : ~At(q, "idle")}
    /\ UNCHANGED <<row, published, replaced, covered, dropped>>

\* The next product is looked for by any of its references.
Resolve(r, p) ==
    /\ At(r, "next") /\ p \in run[r].todo
    /\ LET refs == RefsOf(run[r].kind, p)
           found == UNION {Holder(x) : x \in refs}
       IN  IF found = {}
           THEN run' = [run EXCEPT ![r] = [@ EXCEPT !.step = "create", !.product = p,
                                                    !.todo = @ \ {p}]]
           ELSE \E i \in found :
                   run' = [run EXCEPT ![r] = [@ EXCEPT !.step = "refs", !.product = p,
                              !.todo = @ \ {p}, !.item = i, !.refs = refs]]
    /\ UNCHANGED <<row, Others>>

\* A statement fails: an ingest is done with the set, an import only with the card.
Trouble(r) ==
    run' = [run EXCEPT ![r] = [@ EXCEPT !.step = "next", !.item = Null, !.refs = {}, !.blank = {},
               !.problems = 1, !.todo = IF run[r].kind = "imported" THEN @ ELSE {}]]

Create(r) ==
    /\ At(r, "create")
    /\ LET s == run[r].kind
           p == run[r].product
       IN  IF \E x \in RefsOf(s, p) : Holder(x) # {}
           THEN Trouble(r) /\ UNCHANGED row
           ELSE \E i \in Item \ Items :
                   /\ row' = [row EXCEPT ![i] = NewItem(s, p)]
                   /\ Goto(r, "next")
    /\ UNCHANGED Others

\* Mutant of AddRefs: a reference is recorded whoever holds it.
AddRefsAnyway(r) ==
    /\ At(r, "refs")
    /\ \E x \in run[r].refs :
          /\ row' = IF run[r].item \in Items
                    THEN [row EXCEPT ![run[r].item].refs = @ \cup {x}] ELSE row
          /\ run' = [run EXCEPT ![r].refs = @ \ {x},
                                ![r].step = IF run[r].refs = {x} THEN "read" ELSE "refs"]
    /\ UNCHANGED Others

\* addMissingRefs: each that nobody holds is recorded; one that is held, and one for an item
\* that is gone, is not; and any other failure of the statement is caught just the same.
AddRefs(r) ==
    /\ At(r, "refs")
    /\ \E x \in run[r].refs :
          LET free == Holder(x) = {} /\ run[r].item \in Items
          IN  /\ \/ /\ row' = IF free THEN [row EXCEPT ![run[r].item].refs = @ \cup {x}] ELSE row
                    /\ UNCHANGED <<dropped, used>>
                 \/ /\ free /\ Use("mishaps", MaxMishaps)
                    /\ dropped' = dropped \cup {x}
                    /\ UNCHANGED row
              /\ run' = [run EXCEPT ![r].refs = @ \ {x},
                                    ![r].step = IF run[r].refs = {x} THEN "read" ELSE "refs"]
    /\ UNCHANGED <<published, replaced, covered, lapse>>

-------------------------------------------------------------------------------
Says(r) == published[run[r].kind][run[r].product]

\* What is blank in the item is read.
ReadItem(r) ==
    /\ At(r, "read")
    /\ IF run[r].item \in Items
       THEN run' = [run EXCEPT ![r].step = "fill",
                       ![r].blank = {f \in {"set", "image", "number"} : row[run[r].item][f] = Null}]
       ELSE Goto(r, IF run[r].kind = "imported" THEN "image" ELSE "next")
    /\ UNCHANGED <<row, Others>>

\* What is written over what.
Over(i, new, s) ==
    {[field |-> f, old |-> row[i][f], by |-> s] :
        f \in {g \in {"set", "image", "number"} : row[i][g] # Null /\ new[g] # row[i][g]}}

Filled(r) ==
    LET i == run[r].item
        gives == {f \in run[r].blank : Says(r)[f] # Null}
    IN  [row[i] EXCEPT !.set = IF "set" \in gives THEN Says(r).set ELSE @,
                       !.image = IF "image" \in gives THEN Says(r).image ELSE @,
                       !.number = IF "number" \in gives THEN Says(r).number ELSE @]

Write(r, new) ==
    /\ row' = [row EXCEPT ![run[r].item] = new]
    /\ replaced' = replaced \cup Over(run[r].item, new, run[r].kind)


\* "Backfill only - never overwrite"; the update of an item that is gone fails.
Fill(r) ==
    /\ At(r, "fill")
    /\ IF run[r].item \in Items
       THEN /\ Write(r, Filled(r))
            /\ Goto(r, IF run[r].kind = "imported" THEN "image" ELSE "next")
       ELSE /\ IF {f \in run[r].blank : Says(r)[f] # Null} = {} THEN Goto(r, "next") ELSE Trouble(r)
            /\ UNCHANGED <<row, replaced>>
    /\ UNCHANGED <<published, covered, dropped, used, lapse>>

\* "The image is the one exception, overwritten when it differs": read, compared, written.
ReadImage(r) ==
    /\ At(r, "image")
    /\ IF run[r].item \notin Items THEN Trouble(r)
       ELSE Goto(r, IF row[run[r].item].image = Says(r).image THEN "next" ELSE "replace")
    /\ UNCHANGED <<row, Others>>

ReplaceImage(r) ==
    /\ At(r, "replace")
    /\ IF run[r].item \in Items
       THEN Write(r, [row[run[r].item] EXCEPT !.image = Says(r).image]) /\ Goto(r, "next")
       ELSE Trouble(r) /\ UNCHANGED <<row, replaced>>
    /\ UNCHANGED <<published, covered, dropped, used, lapse>>

EndFill(r) ==
    /\ At(r, "next") /\ run[r].kind \in Source /\ run[r].todo = {}
    /\ run' = [run EXCEPT ![r] = Idle]
    /\ covered' = IF run[r].problems = 0
                  THEN covered \cup UNION {RefsOf(run[r].kind, p) : p \in Publishes(run[r].kind)} ELSE covered
    /\ UNCHANGED <<row, published, replaced, dropped, used, lapse>>

-------------------------------------------------------------------------------
Numbered(game, n) == {i \in Items : row[i].game = game /\ row[i].number = n}

\* Mutant of Pairs: what the sources say of the two items is not looked at.
PairsByNumber(from, into) ==
    {<<i, j>> \in Items \X Items :
        /\ row[i].number # Null
        /\ Numbered(from, row[i].number) = {i} /\ Numbered(into, row[i].number) = {j}}

\* preview(): a number that is on one item of either game, on which no source has two words.
Pairs(from, into) ==
    {<<i, j>> \in Items \X Items :
        /\ row[i].number # Null
        /\ Numbered(from, row[i].number) = {i} /\ Numbered(into, row[i].number) = {j}
        /\ Sources(i) \cap Sources(j) = {}}

\* The pairing is derived anew when the merge is confirmed.
AskMerge(r) ==
    /\ At(r, "idle") /\ Use("runs", MaxRuns)
    /\ \A g \in {"fan", "official"} : \E i \in Items : row[i].game = g
    /\ run' = [run EXCEPT ![r] = [Idle EXCEPT !.step = "pair", !.kind = "merge",
                                             !.pairs = Pairs("fan", "official")]]
    /\ lapse' = lapse \cup {o \in {"overlap"} : \E q \in Run : ~At(q, "idle")}
    /\ UNCHANGED <<row, published, replaced, covered, dropped>>

\* CatalogMergeService reads both items of the next pair; one that is gone is a problem.
NextPair(r) ==
    /\ At(r, "pair")
    /\ \E e \in run[r].pairs :
          run' = [run EXCEPT ![r].pairs = @ \ {e},
                     ![r].pair = IF {e[1], e[2]} \subseteq Items THEN e ELSE Null,
                     ![r].refs = IF e[1] \in Items THEN row[e[1]].refs ELSE {},
                     ![r].step = IF {e[1], e[2]} \subseteq Items THEN "fold" ELSE "pair"]
    /\ UNCHANGED <<row, Others>>

\* The references that were read move, or the transaction fails; the rest goes with the item.
Fold(r) ==
    /\ At(r, "fold")
    /\ LET i == run[r].pair[1]
           j == run[r].pair[2]
           holds == {i, j} \subseteq Items /\ \A x \in run[r].refs : Holder(x) # {}
       IN  /\ row' = IF ~holds THEN row
                     ELSE [k \in Item |->
                             IF k = i THEN Null
                             ELSE IF row[k] = Null THEN Null
                             ELSE IF k = j THEN [row[j] EXCEPT !.refs = @ \cup run[r].refs,
                                                               !.sku = @ \/ row[i].sku]
                             ELSE [row[k] EXCEPT !.refs = @ \ run[r].refs]]
    /\ run' = [run EXCEPT ![r] = [@ EXCEPT !.step = "pair", !.pair = Null, !.refs = {}]]
    /\ UNCHANGED Others

EndMerge(r) ==
    /\ At(r, "pair") /\ run[r].pairs = {}
    /\ run' = [run EXCEPT ![r] = Idle]
    /\ UNCHANGED <<row, Others>>

-------------------------------------------------------------------------------
\* Any statement of an import but the recording of a reference fails aloud; an ingest that
\* stumbles is done with its set, which is all that is left of it.
Stumble(r) ==
    /\ run[r].kind = "imported" /\ run[r].step # "next"
    /\ Use("mishaps", MaxMishaps) /\ Trouble(r)
    /\ UNCHANGED <<row, published, replaced, covered, dropped, lapse>>

\* The process is killed, or the source fails in the middle.
BreakOff(r) ==
    /\ ~At(r, "idle") /\ Use("mishaps", MaxMishaps)
    /\ run' = [run EXCEPT ![r] = Idle]
    /\ UNCHANGED <<row, published, replaced, covered, dropped, lapse>>

\* A picture of the list made by hand gets another URL, "signed URLs that expire".
Republish ==
    /\ Use("news", MaxNews)
    /\ published' = [published EXCEPT !["imported"] = [p \in Product |->
                        IF @[p] = Null THEN Null ELSE [@[p] EXCEPT !.image = "imported anew"]]]
    /\ UNCHANGED <<row, run, replaced, covered, dropped, lapse>>

TakeIn(i) ==
    /\ Use("news", MaxNews)
    /\ row' = [row EXCEPT ![i].sku = TRUE]
    /\ UNCHANGED <<published, run, replaced, covered, dropped, lapse>>

\* One statement removes the items of a game, or of all, that have no SKU.
Clear(games) ==
    /\ Use("news", MaxNews)
    /\ LET bare == {i \in Items : row[i].game \in games /\ ~row[i].sku}
       IN  /\ row' = [i \in Item |-> IF i \in bare THEN Null ELSE row[i]]
           /\ covered' = covered \ UNION {row[i].refs : i \in bare}
    /\ lapse' = lapse \cup {o \in {"overlap"} : \E q \in Run : ~At(q, "idle")}
    /\ UNCHANGED <<published, run, replaced, dropped>>

Next ==
    \/ \E r \in Run :
          \/ \E s \in Source : AskFill(r, s)
          \/ \E p \in Product : Resolve(r, p)
          \/ Create(r) \/ AddRefs(r) \/ ReadItem(r) \/ Fill(r)
          \/ ReadImage(r) \/ ReplaceImage(r) \/ EndFill(r)
          \/ AskMerge(r) \/ NextPair(r) \/ Fold(r) \/ EndMerge(r)
          \/ Stumble(r) \/ BreakOff(r)
    \/ Republish \/ \E i \in Items : TakeIn(i)
    \/ \E g \in SUBSET {"fan", "official"} \ {{}} : Clear(g)

Spec == Init /\ [][Next]_vars

-------------------------------------------------------------------------------
Word == Source \cup {"imported anew"}
Row == [game: {"fan", "official"}, number: Number \cup {Null}, set: Word \cup {Null},
        image: Word \cup {Null}, refs: SUBSET (Source \X Product), sku: BOOLEAN]

TypeOK ==
    /\ row \in [Item -> Row \cup {Null}]
    /\ \A x \in Source \X Product : Cardinality(Holder(x)) <= 1
    /\ \A r \in Run :
          /\ run[r].step \in {"idle", "next", "create", "refs", "read", "fill", "image", "replace",
                              "pair", "fold"}
          /\ run[r].kind \in Source \cup {"merge", Null}
          /\ run[r].item \in Item \cup {Null} /\ run[r].pairs \subseteq Item \X Item
    /\ covered \subseteq Source \X Product /\ dropped \subseteq Source \X Product
    /\ lapse \subseteq {"overlap"}

\* "Nothing relabels the catalogue behind the operator": what an item says of its set, its
\* number and its picture is written over by nobody but an import, which may replace a
\* picture, unless two runs overlapped.
NothingIsRelabelled ==
    "overlap" \notin lapse => \A o \in replaced : o.field = "image" /\ o.by = "imported"

\* "That source itself says they are different products, and its word outranks a matching
\* number": an item carries two ids of one source only where the source gives the two of them
\* one id of another's, unless runs overlapped.
SourcesDisagreeOnNothing ==
    "overlap" \notin lapse =>
        \A i \in Items : \A x, y \in row[i].refs :
            x # y /\ x[1] = y[1] => RefsOf(x[1], x[2]) \cap RefsOf(y[1], y[2]) # {}

\* What a run without problems has dealt with stays known, through every later merge: each of
\* its references leads to one item, but for those whose failure was swallowed.
CoveredIsKnown ==
    "overlap" \in lapse \/ \A x \in covered \ dropped : Cardinality(Holder(x)) = 1

FillHolds == NothingIsRelabelled /\ SourcesDisagreeOnNothing /\ CoveredIsKnown

\* "The value being replaced is this same import's own earlier data, not another source's"
\* (catalog-import.service.ts:38).
ImportsReplaceTheirOwn ==
    \A o \in replaced : o.by = "imported" => o.old \in {"imported", "imported anew"}
===============================================================================
