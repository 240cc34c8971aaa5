----------------------------- MODULE TcgplayerFiles -----------------------------
(***************************************************************************)
(* A channel whose transport is a person with files (channel-files.service *)
(* .ts, connector-tcgplayer): pull sheets of the orders awaiting shipment, *)
(* downloaded there and uploaded here to record sales; inventory exports,  *)
(* uploaded here to see where the two sides disagree; and price files,     *)
(* downloaded here and uploaded there.  A file is as old as its download,  *)
(* and any file may be uploaded at any time, again included.               *)
(*                                                                         *)
(* The inbound worker takes one stored sheet at a time here and applies    *)
(* its sales without failing: InboundSales is what happens otherwise.      *)
(* Everything in stock is allocated to this channel.                       *)
(***************************************************************************)
EXTENDS Naturals, Sequences, FiniteSets

CONSTANTS
    Sku,            \* a card, its listing there and its allocation here
    Order,
    Price,
    MaxPut,         \* bound: units of a card the seller puts up for sale
    MaxFiles,       \* bound: files downloaded
    MaxEdits,       \* bound: changes of stock, price or mapping made in the hub
    Null

Parameters ==
    /\ IsFiniteSet(Order) /\ MaxPut \in Nat /\ MaxFiles \in Nat /\ MaxEdits \in Nat
    /\ Null \notin [sheet: SUBSET [line: Order \X Sku, quantity: Nat],
                   rest: SUBSET [line: Order \X Sku, quantity: Nat]]

VARIABLES
    \* the platform
    shown, shownPrice,  \* quantity and price of each listing
    awaiting,           \* units of each order's line that wait for shipment
    \* the files a person holds
    sheets, pricings, exports,
    \* the hub
    mapped,             \* allocations that carry the listing's id
    price, onHand,
    listed,             \* ChannelAllocation.listedQuantity
    events,             \* SyncEvent rows of sales: the key and the outcome
    stored,             \* sheets stored as a WebhookEvent, with its status
    job,                \* the sheet the worker is at and what it has left of it, or Null
    report,             \* the listings the last inventory import said differ, or Null
    \* history and bounds
    put, ordered,       \* units put up for sale, units bought
    taken,              \* what was taken from stock for each line, and whether it clashed
    strays,             \* lines reported as sold without a mapped listing
    files, edits

platform == <<shown, shownPrice, awaiting>>
hand == <<sheets, pricings, exports>>
ledger == <<mapped, price, onHand, listed>>
inbound == <<events, stored, job, report>>
history == <<put, ordered, taken, strays>>
bounds == <<files, edits>>
vars == <<platform, hand, ledger, inbound, history, bounds>>

Line == Order \X Sku
Sale == [line: Line, quantity: 1..MaxPut]

Init ==
    /\ shown = [s \in Sku |-> 0]
    /\ shownPrice = [s \in Sku |-> Null]
    /\ awaiting = [l \in Line |-> 0]
    /\ sheets = {} /\ pricings = {} /\ exports = {}
    /\ mapped \in SUBSET Sku
    /\ price = [s \in Sku |-> Null]
    /\ onHand = [s \in Sku |-> 0]
    /\ listed = [s \in Sku |-> 0]
    /\ events = {}
    /\ stored = [x \in {} |-> Null]
    /\ job = Null
    /\ report = Null
    /\ put = [s \in Sku |-> 0]
    /\ ordered = [l \in Line |-> 0]
    /\ taken = [l \in Line |-> <<>>]
    /\ strays = {}
    /\ files = 0 /\ edits = 0

-------------------------------------------------------------------------------
(* The platform and the seller there *)

\* A unit is put into stock, here and there.
PutUp(s) ==
    /\ put[s] < MaxPut
    /\ put' = [put EXCEPT ![s] = @ + 1]
    /\ shown' = [shown EXCEPT ![s] = @ + 1]
    /\ onHand' = [onHand EXCEPT ![s] = @ + 1]
    /\ UNCHANGED <<shownPrice, awaiting, hand, mapped, price, listed, inbound, ordered, taken,
                   strays, bounds>>

Buy(l, quantity) ==
    /\ ordered[l] = 0 /\ quantity <= shown[l[2]]
    /\ shown' = [shown EXCEPT ![l[2]] = @ - quantity]
    /\ awaiting' = [awaiting EXCEPT ![l] = quantity]
    /\ ordered' = [ordered EXCEPT ![l] = quantity]
    /\ UNCHANGED <<shownPrice, hand, ledger, inbound, put, taken, strays, bounds>>

\* A unit of a line is shipped; a line that is shipped is off the pull sheet.
Ship(l) ==
    /\ awaiting[l] > 0
    /\ awaiting' = [awaiting EXCEPT ![l] = @ - 1]
    /\ UNCHANGED <<shown, shownPrice, hand, ledger, inbound, history, bounds>>

PullSheet == {[line |-> l, quantity |-> awaiting[l]] : l \in {l \in Line : awaiting[l] > 0}}

Download ==
    /\ files < MaxFiles
    /\ files' = files + 1
    /\ \/ sheets' = sheets \cup {PullSheet} /\ UNCHANGED pricings
       \/ pricings' = pricings \cup {shown} /\ UNCHANGED sheets
    /\ UNCHANGED <<exports, platform, ledger, inbound, history, edits>>

\* A price file is uploaded: prices are set, quantities added to.
UploadPrices(file) ==
    /\ shownPrice' = [s \in Sku |-> IF s \in DOMAIN file THEN file[s].price ELSE shownPrice[s]]
    /\ shown' = [s \in Sku |-> IF s \in DOMAIN file THEN shown[s] + file[s].add ELSE shown[s]]
    /\ UNCHANGED <<awaiting, hand, ledger, inbound, history, bounds>>

-------------------------------------------------------------------------------
(* The hub *)

Edited == edits < MaxEdits /\ edits' = edits + 1

EditPrice(s, p) ==
    /\ Edited
    /\ price' = [price EXCEPT ![s] = p]
    /\ UNCHANGED <<platform, hand, mapped, onHand, listed, inbound, history, files>>

MapListing(s) ==
    /\ Edited /\ s \notin mapped
    /\ mapped' = mapped \cup {s}
    /\ UNCHANGED <<platform, hand, price, onHand, listed, inbound, history, files>>

SellElsewhere(s) ==
    /\ Edited /\ onHand[s] > 0
    /\ onHand' = [onHand EXCEPT ![s] = @ - 1]
    /\ UNCHANGED <<platform, hand, mapped, price, listed, inbound, history, files>>

Exported == {s \in mapped : price[s] # Null}

\* Mutant of ExportListings: a file that adds what the platform is believed to lack.
ExportWithStock ==
    [s \in Exported |->
        [price |-> price[s], add |-> IF onHand[s] > listed[s] THEN onHand[s] - listed[s] ELSE 0]]

\* The listings that are mapped and priced; the file adds nothing to their quantities.
ExportListings == [s \in Exported |-> [price |-> price[s], add |-> 0]]

DownloadPrices ==
    /\ files < MaxFiles
    /\ files' = files + 1
    /\ exports' = exports \cup {ExportListings}
    /\ UNCHANGED <<platform, sheets, pricings, ledger, inbound, history, edits>>

\* A sheet without sales is refused, one that is stored already a duplicate.
UploadSheet(sheet) ==
    /\ sheet # {} /\ sheet \notin DOMAIN stored
    /\ stored' = [x \in DOMAIN stored \cup {sheet} |->
                     IF x = sheet THEN "received" ELSE stored[x]]
    /\ UNCHANGED <<platform, hand, ledger, events, job, report, history, bounds>>

Take(sheet) ==
    /\ job = Null /\ stored[sheet] = "received"
    /\ job' = [sheet |-> sheet, rest |-> sheet]
    /\ UNCHANGED <<platform, hand, ledger, events, stored, report, history, bounds>>

\* A key of order, SKU and quantity.
SaleKeyWithQuantity(sale) == <<sale.line, sale.quantity>>

\* What identifies a sale: its order and its SKU, and never the quantity.
SaleKey(sale) == sale.line

AlreadyApplied(sale) == [key |-> SaleKey(sale), outcome |-> "ok"] \in events

Enter(sale, outcome) == events' = events \cup {[key |-> SaleKey(sale), outcome |-> outcome]}

\* One sale of the sheet: skipped, put on record as unmapped, or taken from stock.
ApplySale(sale) ==
    LET s == sale.line[2]
        clash == onHand[s] < sale.quantity
    IN  /\ job # Null /\ sale \in job.rest
        /\ job' = [job EXCEPT !.rest = @ \ {sale}]
        /\ \/ /\ AlreadyApplied(sale)
              /\ UNCHANGED <<onHand, events, taken, strays>>
           \/ /\ ~AlreadyApplied(sale) /\ s \notin mapped
              /\ Enter(sale, "conflict")
              /\ strays' = strays \cup {sale.line}
              /\ UNCHANGED <<onHand, taken>>
           \/ /\ ~AlreadyApplied(sale) /\ s \in mapped
              /\ onHand' = [onHand EXCEPT ![s] = IF clash THEN 0 ELSE @ - sale.quantity]
              /\ Enter(sale, IF clash THEN "conflict" ELSE "ok")
              /\ taken' = [taken EXCEPT ![sale.line] =
                              Append(@, [units |-> sale.quantity, clash |-> clash])]
              /\ UNCHANGED strays
        /\ UNCHANGED <<platform, hand, mapped, price, listed, stored, report, put, ordered,
                       bounds>>

Finish ==
    /\ job # Null /\ job.rest = {}
    /\ stored' = [stored EXCEPT ![job.sheet] = "processed"]
    /\ job' = Null
    /\ UNCHANGED <<platform, hand, ledger, events, report, history, bounds>>

\* An inventory export is compared with what the hub believes is listed, and changes nothing.
ImportInventory(file) ==
    /\ report' = [file |-> file, differ |-> {s \in mapped : listed[s] # file[s]}]
    /\ UNCHANGED <<platform, hand, ledger, events, stored, job, history, bounds>>

Next ==
    \/ \E s \in Sku : PutUp(s) \/ MapListing(s) \/ SellElsewhere(s)
    \/ \E s \in Sku, p \in Price : EditPrice(s, p)
    \/ \E l \in Line, quantity \in 1..MaxPut : Buy(l, quantity)
    \/ \E l \in Line : Ship(l)
    \/ Download \/ DownloadPrices
    \/ \E file \in exports : UploadPrices(file)
    \/ \E sheet \in sheets : UploadSheet(sheet)
    \/ \E sheet \in DOMAIN stored : Take(sheet)
    \/ \E sale \in Sale : ApplySale(sale)
    \/ Finish
    \/ \E file \in pricings : ImportInventory(file)

Spec == Init /\ [][Next]_vars

-------------------------------------------------------------------------------
TypeOK ==
    /\ shown \in [Sku -> 0..MaxPut] /\ shownPrice \in [Sku -> Price \cup {Null}]
    /\ awaiting \in [Line -> 0..MaxPut]
    /\ sheets \subseteq SUBSET Sale /\ pricings \subseteq [Sku -> 0..MaxPut]
    /\ mapped \subseteq Sku /\ price \in [Sku -> Price \cup {Null}]
    /\ onHand \in [Sku -> 0..MaxPut] /\ listed \in [Sku -> 0..MaxPut]
    /\ stored \in [DOMAIN stored -> {"received", "processed"}] /\ DOMAIN stored \subseteq sheets
    /\ job # Null => job.sheet \in DOMAIN stored /\ job.rest \subseteq job.sheet
    /\ files \in 0..MaxFiles /\ edits \in 0..MaxEdits

\* However often and in whatever order sheets are uploaded, a line is taken from stock once,
\* and again only after it clashed with a stock too small; never more than was ordered, also
\* when a part of it was shipped in between (saleKey; "Re-uploading is always safe").
SoldOnce ==
    \A l \in Line :
        /\ \A i \in DOMAIN taken[l] : taken[l][i].units <= ordered[l]
        /\ \A i \in 1..(Len(taken[l]) - 1) : taken[l][i].clash

\* Every line of a sheet that was processed was taken from stock, or is on record as sold
\* without a mapped listing.
NothingIsMissed ==
    \A sheet \in DOMAIN stored : stored[sheet] = "processed" =>
        \A sale \in sheet : taken[sale.line] # <<>> \/ sale.line \in strays

\* The units that were bought, one by one.
Bought(s) == {unit \in Line \X (1..MaxPut) : unit[1][2] = s /\ unit[2] <= ordered[unit[1]]}

\* No price file, uploaded at whatever age and however often, moves stock: the platform has
\* what was put up for sale and not bought (exportListings, "This is a price export").
StockIsTheirs == \A s \in Sku : shown[s] + Cardinality(Bought(s)) = put[s]

FilesAreSafe == SoldOnce /\ NothingIsMissed /\ StockIsTheirs

\* ChannelsPage.tsx, "Upload their inventory export back here to see where the two disagree":
\* a listing that is reported has another quantity there than the hub allocates to it.
DifferencesAreReal ==
    report # Null /\ report.file = shown =>
        \A s \in report.differ : onHand[s] # shown[s]
===============================================================================
