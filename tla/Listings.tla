-------------------------------- MODULE Listings --------------------------------
(***************************************************************************)
(* One channel's listings: ListingCreationService.create through the       *)
(* Shopify connector's createListing, and MatchingService.confirm, which   *)
(* links listings that already exist.  Both look at the allocations, ask   *)
(* the platform, look again and write, in separate statements; the         *)
(* platform's requests can be refused, and their answers lost.             *)
(*                                                                         *)
(* An item's SKU code is the item: skuCodeFor gives every inventory item a *)
(* code of its own.  A listing id is the index of its variant.             *)
(***************************************************************************)
EXTENDS Naturals, FiniteSets, Sequences

CONSTANTS
    Item,
    Single,         \* items with a condition: variants of one product per card
    CardOf,         \* the catalog item of an inventory item
    Run,            \* calls of create at once
    MaxAtOnce,      \* calls of create and confirm in flight together
    MaxRuns,        \* calls of create
    MaxConfirms,    \* links an operator confirms on the match screen
    MaxMishaps,     \* refused requests, lost answers, crashes and an operator's edits
    Null

\* What the theorems about this module assume.
Parameters ==
    /\ Null \notin Item \cup Nat /\ Single \subseteq Item
    /\ MaxAtOnce \in Nat /\ MaxRuns \in Nat /\ MaxConfirms \in Nat /\ MaxMishaps \in Nat

VARIABLES
    products,       \* the platform's products, in order of creation
    variants,       \* the platform's variants, in order of creation
    allocations,    \* rows with a listing on this channel, oldest first
    run,            \* per call of create: the item and the request it is at
    match,          \* the link being confirmed
    used,           \* how often each bounded thing has happened
    lapse           \* what overlapped or failed: see the properties

vars == <<products, variants, allocations, run, match, used, lapse>>

Variant == DOMAIN variants
Row == DOMAIN allocations

Links(i) == {allocations[a].listing : a \in {a \in Row : allocations[a].item = i}}
LinkOf(i) == IF Links(i) = {} THEN Null ELSE CHOOSE v \in Links(i) : TRUE
Carriers(i) == {v \in Variant : variants[v].sku = i}
Drivers(v) == {allocations[a].item : a \in {a \in Row : allocations[a].listing = v}}

Idle == [step |-> "idle", todo |-> {}, loaded |-> [i \in Item |-> Null], item |-> Null,
         sibling |-> Null, product |-> Null, variant |-> Null]
NoMatch == [step |-> "idle", item |-> Null, listing |-> Null, holders |-> {}]

\* The shop has one product the operator made by hand, with no SKU.
Init ==
    /\ products = <<[madeFor |-> Null, published |-> TRUE]>>
    /\ variants = <<[product |-> 1, sku |-> Null]>>
    /\ allocations = <<>>
    /\ run = [r \in Run |-> Idle]
    /\ match = NoMatch
    /\ used = [runs |-> 0, confirms |-> 0, mishaps |-> 0]
    /\ lapse = {}

InFlight == Cardinality({r \in Run : run[r].step # "idle"})
                + IF match.step = "idle" THEN 0 ELSE 1

At(r, step) == run[r].step = step
Goto(r, step) == run' = [run EXCEPT ![r].step = step]
\* The rest of a run; the call answers when there is nothing left.
Rest(todo, loaded) ==
    IF todo = {} THEN Idle
    ELSE [Idle EXCEPT !.step = "next", !.todo = todo,
                      !.loaded = [i \in Item |-> IF i \in todo THEN loaded[i] ELSE Null]]
NextItem(r) == run' = [run EXCEPT ![r] = Rest(run[r].todo, run[r].loaded)]
Use(what) == used' = [used EXCEPT ![what] = @ + 1]

\* A request to the platform is answered, or takes effect and its answer is lost.
Answered(r, next) ==
    \/ run' = [run EXCEPT ![r] = next] /\ UNCHANGED <<used, lapse>>
    \/ /\ used.mishaps < MaxMishaps /\ Use("mishaps")
       /\ lapse' = lapse \cup {"failed"}
       /\ NextItem(r)

-------------------------------------------------------------------------------
\* The items are read once, with their allocations on this channel.
Create(r) ==
    /\ At(r, "idle") /\ used.runs < MaxRuns /\ InFlight < MaxAtOnce
    /\ Use("runs")
    /\ \E items \in SUBSET Item \ {{}} :
          run' = [run EXCEPT ![r] = Rest(items, [i \in Item |-> LinkOf(i)])]
    /\ lapse' = lapse \cup {l \in {"created"} : \E q \in Run : ~At(q, "idle")}
                     \cup {l \in {"confirmed"} : match.step # "idle"}
    /\ UNCHANGED <<products, variants, allocations, match>>

\* The listings that could be a sibling: linked rows of other items of the card.
SiblingRows(i) ==
    {a \in Row : allocations[a].item # i /\ CardOf[allocations[a].item] = CardOf[i]}

OldestSibling(i) ==
    IF i \notin Single \/ SiblingRows(i) = {} THEN Null
    ELSE allocations[CHOOSE a \in SiblingRows(i) : \A b \in SiblingRows(i) : a <= b].listing

\* Mutant of TakeItem: siblings are looked for among the allocations the run began with.
TakeItemFromLoaded(r) ==
    /\ At(r, "next")
    /\ \E i \in run[r].todo :
          LET known == {run[r].loaded[j] : j \in {j \in Item : j # i /\ CardOf[j] = CardOf[i]}}
              rest == [run[r] EXCEPT !.todo = @ \ {i}]
          IN  run' = [run EXCEPT ![r] =
                 IF rest.loaded[i] # Null THEN Rest(rest.todo, rest.loaded)
                 ELSE [rest EXCEPT !.step = "search", !.item = i,
                          !.sibling = IF known \subseteq {Null} THEN Null
                                      ELSE CHOOSE v \in known : v # Null]]
    /\ UNCHANGED <<products, variants, allocations, match, used, lapse>>

\* The next item: one the run saw linked is skipped, a sibling is read afresh.
TakeItem(r) ==
    /\ At(r, "next")
    /\ \E i \in run[r].todo :
          LET rest == [run[r] EXCEPT !.todo = @ \ {i}]
          IN  run' = [run EXCEPT ![r] =
                 IF rest.loaded[i] # Null THEN Rest(rest.todo, rest.loaded)
                 ELSE [rest EXCEPT !.step = "search", !.item = i, !.sibling = OldestSibling(i)]]
    /\ UNCHANGED <<products, variants, allocations, match, used, lapse>>

\* Mutant of Calling: the limiter does not queue calls behind one another.
CallingAlone(r) == FALSE

\* The service's limiter runs one call of createListing at a time.
Calling(r) == run[r].step \in {"create", "fill", "add", "publish"}

\* The connector's answer: the listing to link.
Claiming(r, v) ==
    [run[r] EXCEPT !.step = "claim", !.variant = v, !.sibling = Null, !.product = Null]

\* createListing begins with the variant that carries the SKU already.
Search(r) ==
    /\ At(r, "search")
    /\ \A q \in Run : ~Calling(q)
    /\ LET i == run[r].item
           sibling == run[r].sibling
       IN  IF Carriers(i) # {}
           THEN \E v \in Carriers(i) : run' = [run EXCEPT ![r] = Claiming(r, v)]
           ELSE IF sibling # Null
                THEN run' = [run EXCEPT ![r].step = "add",
                                        ![r].product = variants[sibling].product]
                ELSE run' = [run EXCEPT ![r].step = "create"]
    /\ UNCHANGED <<products, variants, allocations, match, used, lapse>>

\* productCreate, with the first variant of the option it declares or with none.
CreateProduct(r) ==
    /\ At(r, "create")
    /\ products' = Append(products, [madeFor |-> run[r].item, published |-> FALSE])
    /\ LET p == Len(products) + 1
       IN  \/ /\ variants' = Append(variants, [product |-> p, sku |-> Null])
              /\ Answered(r, [run[r] EXCEPT !.step = "fill", !.product = p,
                                            !.variant = Len(variants) + 1])
           \/ /\ variants' = variants
              /\ Answered(r, [run[r] EXCEPT !.step = "add", !.product = p])
    /\ UNCHANGED <<allocations, match>>

\* Only a product of this call's own is published.
HasVariant(r, v) ==
    IF run[r].sibling = Null THEN [run[r] EXCEPT !.step = "publish", !.variant = v]
                             ELSE Claiming(r, v)

FillVariant(r) ==
    /\ At(r, "fill")
    /\ variants' = [variants EXCEPT ![run[r].variant].sku = run[r].item]
    /\ Answered(r, HasVariant(r, run[r].variant))
    /\ UNCHANGED <<products, allocations, match>>

AddVariant(r) ==
    /\ At(r, "add")
    /\ variants' = Append(variants, [product |-> run[r].product, sku |-> run[r].item])
    /\ Answered(r, HasVariant(r, Len(variants) + 1))
    /\ UNCHANGED <<products, allocations, match>>

PublishProduct(r) ==
    /\ At(r, "publish")
    /\ products' = [products EXCEPT ![run[r].product].published = TRUE]
    /\ Answered(r, Claiming(r, run[r].variant))
    /\ UNCHANGED <<variants, allocations, match>>

\* A listing another item drives is a problem, reported; the run goes on.
Claim(r) ==
    /\ At(r, "claim")
    /\ IF Drivers(run[r].variant) \subseteq {run[r].item} THEN Goto(r, "link")
                                                         ELSE NextItem(r)
    /\ UNCHANGED <<products, variants, allocations, match, used, lapse>>

\* Mutant of Upsert: the row an item has is not looked for.
UpsertAnew(i, v) == allocations' = Append(allocations, [item |-> i, listing |-> v])

\* upsertAllocation: the one row of the item on this channel gets the listing.
Upsert(i, v) ==
    allocations' =
        IF Links(i) = {} THEN Append(allocations, [item |-> i, listing |-> v])
        ELSE [a \in Row |-> IF allocations[a].item = i
                            THEN [allocations[a] EXCEPT !.listing = v] ELSE allocations[a]]

Link(r) ==
    /\ At(r, "link")
    /\ Upsert(run[r].item, run[r].variant)
    /\ NextItem(r)
    /\ UNCHANGED <<products, variants, match, used, lapse>>

\* A request is refused, or a write of the ledger fails: the item is a problem, reported.
Refuse(r) ==
    /\ run[r].step \in {"search", "create", "fill", "add", "publish", "link"}
    /\ used.mishaps < MaxMishaps /\ Use("mishaps")
    /\ NextItem(r)
    /\ lapse' = lapse \cup {"failed"}
    /\ UNCHANGED <<products, variants, allocations, match>>

\* The process dies with every call it was serving.
Crash ==
    /\ InFlight > 0
    /\ used.mishaps < MaxMishaps /\ Use("mishaps")
    /\ run' = [r \in Run |-> Idle] /\ match' = NoMatch
    /\ lapse' = lapse \cup {"failed"}
    /\ UNCHANGED <<products, variants, allocations>>

-------------------------------------------------------------------------------
\* Confirming a link: who drives the listing is read before the candidate is fetched.
Confirm ==
    /\ match.step = "idle" /\ used.confirms < MaxConfirms /\ InFlight < MaxAtOnce
    /\ Use("confirms")
    /\ \E i \in Item, v \in Variant :
          match' = [step |-> "check", item |-> i, listing |-> v, holders |-> Drivers(v)]
    /\ lapse' = lapse \cup {l \in {"confirmed"} : \E r \in Run : ~At(r, "idle")}
    /\ UNCHANGED <<products, variants, allocations, run>>

\* Mutant of Check: the guard that was missing: an item linked elsewhere is linked anew.
CheckListingOnly ==
    /\ match.step = "check"
    /\ LET held == LinkOf(match.item)
       IN  match' = IF ~match.holders \subseteq {match.item}
                    THEN NoMatch
                    ELSE [match EXCEPT !.step = IF held = match.listing THEN "stamp" ELSE "link",
                                       !.holders = {}]
    /\ UNCHANGED <<products, variants, allocations, run, used, lapse>>

\* Refused where another item drives the listing or the item drives another listing.
Check ==
    /\ match.step = "check"
    /\ LET held == LinkOf(match.item)
       IN  match' = IF ~match.holders \subseteq {match.item} \/ held \notin {Null, match.listing}
                    THEN NoMatch
                    ELSE [match EXCEPT !.step = IF held = match.listing THEN "stamp" ELSE "link",
                                       !.holders = {}]
    /\ UNCHANGED <<products, variants, allocations, run, used, lapse>>

Confirmed ==
    /\ match.step = "link"
    /\ Upsert(match.item, match.listing)
    /\ match' = [match EXCEPT !.step = "stamp"]
    /\ UNCHANGED <<products, variants, run, used, lapse>>

\* The hub's id is written to the listing, if that was asked for and does not fail.
StampSku ==
    /\ match.step = "stamp"
    /\ variants' \in {variants, [variants EXCEPT ![match.listing].sku = match.item]}
    /\ match' = NoMatch
    /\ UNCHANGED <<products, allocations, run, used, lapse>>

-------------------------------------------------------------------------------
\* The operator edits a SKU on the platform, or detaches an allocation in the hub.
EditSku ==
    /\ used.mishaps < MaxMishaps /\ Use("mishaps")
    /\ \E v \in Variant, sku \in Item :
          /\ variants[v].sku \notin {Null, sku}
          /\ variants' = [variants EXCEPT ![v].sku = sku]
    /\ lapse' = lapse \cup {"edited"}
    /\ UNCHANGED <<products, allocations, run, match>>

Detach ==
    /\ used.mishaps < MaxMishaps /\ Use("mishaps")
    /\ \E a \in Row :
          allocations' = SubSeq(allocations, 1, a - 1) \o SubSeq(allocations, a + 1, Len(allocations))
    /\ lapse' = lapse \cup {"edited"}
    /\ UNCHANGED <<products, variants, run, match>>

Next ==
    \/ \E r \in Run :
          \/ Create(r) \/ TakeItem(r) \/ Search(r) \/ CreateProduct(r)
          \/ FillVariant(r) \/ AddVariant(r) \/ PublishProduct(r) \/ Claim(r) \/ Link(r)
          \/ Refuse(r)
    \/ Crash
    \/ Confirm \/ Check \/ Confirmed \/ StampSku
    \/ EditSku \/ Detach

Spec == Init /\ [][Next]_vars

-------------------------------------------------------------------------------
TypeOK ==
    /\ \A p \in DOMAIN products :
          products[p] \in [madeFor: Item \cup {Null}, published: BOOLEAN]
    /\ \A v \in Variant :
          variants[v] \in [product: DOMAIN products, sku: Item \cup {Null}]
    /\ \A a \in Row : allocations[a] \in [item: Item, listing: Variant]
    /\ \A a, b \in Row : allocations[a].item = allocations[b].item => a = b
    /\ run \in [Run ->
          [step: {"idle", "next", "search", "create", "fill", "add", "publish", "claim",
                  "link"},
           todo: SUBSET Item, loaded: [Item -> Variant \cup {Null}], item: Item \cup {Null},
           sibling: Variant \cup {Null}, product: DOMAIN products \cup {Null},
           variant: Variant \cup {Null}]]
    /\ match \in [step: {"idle", "check", "link", "stamp"}, item: Item \cup {Null},
                  listing: Variant \cup {Null}, holders: SUBSET Item]
    /\ lapse \subseteq {"created", "confirmed", "failed", "edited"}

\* "One product per card": used one call at a time, with nothing failing, every single of a
\* card is a variant of the one product the hub made for it, within a run and across runs.
OneProductPerCard ==
    lapse = {} =>
        \A p, q \in DOMAIN products :
            LET i == products[p].madeFor  j == products[q].madeFor
            IN  i \in Single /\ j \in Single /\ CardOf[i] = CardOf[j] => p = q

\* The search for the SKU makes creating idempotent: two calls of create, however they
\* overlap, fail or lose their answers, never give one item's SKU to a second variant.
MakesNoSecond ==
    \A i \in Item :
        match' = match /\ lapse' \cap {"edited", "confirmed"} = {} =>
            Carriers(i) = {} \/ Carriers(i)' \subseteq Carriers(i)

\* Two calls of create were under way at once, or a confirmation beside one.
Overlapped == lapse \cap {"created", "confirmed"} # {}

\* Two items never drive one listing, pushing contradictory quantities at it, unless two
\* calls that could link overlapped.
OneItemPerListing ==
    ~Overlapped => \A v \in Variant : Cardinality(Drivers(v)) <= 1

\* Neither creating nor confirming moves an item from the listing it drives to another,
\* detaching the first silently, unless calls overlapped.
LinkStays ==
    \A i \in Item : Overlapped \/ Links(i) = {} \/ Links(i)' \in {{}, Links(i)}

\* "Re-running a selection is safe: the channel is keyed on the SKU code and returns what
\* it already has": an item that is created again after a failure gets no second product.
RerunIsSafe ==
    lapse \subseteq {"failed"} =>
        \A p, q \in DOMAIN products :
            products[p].madeFor # Null /\ products[p].madeFor = products[q].madeFor => p = q

\* One product to a card and one item to a listing, and they stay what they are.
ListingsAreOwned ==
    [](OneProductPerCard /\ OneItemPerListing) /\ [][MakesNoSecond /\ LinkStays]_vars
===============================================================================
