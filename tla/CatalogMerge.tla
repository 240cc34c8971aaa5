------------------------------ MODULE CatalogMerge ------------------------------
(***************************************************************************)
(* The catalogue and the stock that hangs off it: IntakeService resolves a *)
(* product to a catalog item, a SKU and an inventory row, each looked for  *)
(* and then created in a statement of its own, any of which may fail;      *)
(* CatalogMergeService reads two items, decides, and folds one into the    *)
(* other in a transaction, and nothing keeps two merges apart; a clear     *)
(* removes what holds no SKU.  A deleted item takes its SKUs, their rows   *)
(* and its references with it.                                             *)
(***************************************************************************)
EXTENDS Naturals, FiniteSets

CONSTANTS
    Item,           \* ids of catalog items
    ExternalRef,    \* <<source, externalId>>: what a platform calls a product
    Candidate,      \* the references a source supplies for one product
    Condition,      \* condition, printing and language: a SKU's key in its item
    SkuId,
    Caller,         \* intakes and confirmed links at once
    MaxCalls,
    MaxMerges,
    MaxMishaps,     \* calls that die, references that fail to be written, and clears
    Null

VARIABLES
    catalog,        \* items that exist
    holder,         \* per reference: the item that holds it, or Null
    sku,            \* per SKU: its item, condition and inventory row, or Null
    call,           \* per caller: what it does and what it has read
    merges,         \* the merges that have read their items and not yet committed
    flagged,        \* references two items are known to disagree about
    known,          \* references ever recorded, less those a clear removed
    lost,           \* rows with stock, history or links deleted by a merge
    used,           \* calls, merges and mishaps so far
    lapse           \* "overlap": a merge was under way with a call or another merge

vars == <<catalog, holder, sku, call, merges, flagged, known, lost, used, lapse>>

Empty == [onHand |-> 0, moved |-> FALSE, linked |-> FALSE]
Away == [step |-> "idle", task |-> Null, refs |-> {}, todo |-> {}, condition |-> Null,
         item |-> Null, sku |-> Null, ref |-> Null, missed |-> {}]

Init ==
    /\ catalog = {}
    /\ holder = [x \in ExternalRef |-> Null]
    /\ sku = [s \in SkuId |-> Null]
    /\ call = [c \in Caller |-> Away]
    /\ merges = {}
    /\ flagged = {} /\ known = {} /\ lost = {}
    /\ used = [calls |-> 0, merges |-> 0, mishaps |-> 0]
    /\ lapse = {}

Skus == {s \in SkuId : sku[s] # Null}
SkusOf(i) == {s \in Skus : sku[s].item = i}
RefsOf(i) == {x \in ExternalRef : holder[x] = i}
Busy == \E c \in Caller : call[c].step # "idle"

At(c, step) == call[c].step = step
Goto(c, step) == call' = [call EXCEPT ![c].step = step]
Done(c) == call' = [call EXCEPT ![c] = Away]
Use(what) == used' = [used EXCEPT ![what] = @ + 1]

-------------------------------------------------------------------------------
\* intake, or ensureSku for a link that is confirmed: the candidate comes from its source.
Ask(c) ==
    /\ At(c, "idle") /\ used.calls < MaxCalls /\ Use("calls")
    /\ \E task \in {"intake", "link"}, refs \in Candidate, condition \in Condition :
          call' = [call EXCEPT ![c] = [Away EXCEPT !.step = "resolve", !.task = task,
                                          !.refs = refs, !.condition = condition]]
    /\ lapse' = lapse \cup {l \in {"overlap"} : merges # {}}
    /\ UNCHANGED <<catalog, holder, sku, merges, flagged, known, lost>>

\* By any of the references, never by name.
Resolve(c) ==
    /\ At(c, "resolve")
    /\ LET held == {holder[x] : x \in {x \in call[c].refs : holder[x] # Null}}
       IN  IF held = {} THEN Goto(c, "createItem")
           ELSE \E i \in held : call' = [call EXCEPT ![c].step = "refs", ![c].item = i,
                                                        ![c].todo = call[c].refs]
    /\ UNCHANGED <<catalog, holder, sku, merges, flagged, known, lost, used, lapse>>

\* The item with all its references; one taken meanwhile fails the call on the index.
CreateItem(c) ==
    /\ At(c, "createItem")
    /\ IF \E x \in call[c].refs : holder[x] # Null
       THEN Done(c) /\ UNCHANGED <<catalog, holder, known>>
       ELSE \E i \in Item \ catalog :
               /\ \A d \in Caller : call[d].item # i
               /\ \A m \in merges : i \notin {m.winner, m.loser}
               /\ catalog' = catalog \cup {i}
               /\ holder' = [x \in ExternalRef |-> IF x \in call[c].refs THEN i ELSE holder[x]]
               /\ known' = known \cup call[c].refs
               /\ call' = [call EXCEPT ![c].step = "findSku", ![c].item = i]
    /\ UNCHANGED <<sku, merges, flagged, lost, used, lapse>>

\* Mutant of MayRecord: the item is not looked at.
MayRecordFree(c, x) == holder[x] = Null

\* The index on the reference, and the foreign key of the item.
MayRecord(c, x) == holder[x] = Null /\ call[c].item \in catalog

\* The loop over the references goes on after x, which nobody was found to hold if in missed.
MovesOn(c, x, missed) ==
    call' = [call EXCEPT ![c].todo = @ \ {x}, ![c].ref = Null, ![c].missed = @ \cup missed,
                         ![c].step = IF call[c].todo = {x} THEN "findSku" ELSE "refs"]

\* One reference of the candidate is recorded, or the statement fails: on the index, on the
\* item, or for any other reason, and all failures are one to the catch.
TryRef(c) ==
    /\ At(c, "refs")
    /\ \E x \in call[c].todo :
          \/ /\ MayRecord(c, x) /\ MovesOn(c, x, {})
             /\ holder' = [holder EXCEPT ![x] = call[c].item]
             /\ known' = known \cup {x}
             /\ UNCHANGED used
          \/ /\ call' = [call EXCEPT ![c].step = "owner", ![c].ref = x]
             /\ IF MayRecord(c, x) THEN used.mishaps < MaxMishaps /\ Use("mishaps")
                ELSE UNCHANGED used
             /\ UNCHANGED <<holder, known>>
    /\ UNCHANGED <<catalog, sku, merges, flagged, lost, lapse>>

\* Mutant of Contested: who holds the reference is not asked.
ContestedNever(c) == FALSE

\* Another item holds the reference that failed.
Contested(c) == holder[call[c].ref] \notin {Null, call[c].item}

\* "Ask who actually holds it rather than guessing from the error."
LookUp(c) ==
    /\ At(c, "owner")
    /\ LET x == call[c].ref
       IN  IF Contested(c) THEN Goto(c, "flag")
           ELSE MovesOn(c, x, {y \in {x} : holder[y] = Null})
    /\ UNCHANGED <<catalog, holder, sku, merges, flagged, known, lost, used, lapse>>

\* reportRefConflict: one open flag per reference.
Flag(c) ==
    /\ At(c, "flag")
    /\ flagged' = flagged \cup {call[c].ref}
    /\ MovesOn(c, call[c].ref, {})
    /\ UNCHANGED <<catalog, holder, sku, merges, known, lost, used, lapse>>

FindSku(c) ==
    /\ At(c, "findSku")
    /\ LET found == {s \in SkusOf(call[c].item) : sku[s].condition = call[c].condition}
       IN  IF found = {} THEN Goto(c, "createSku")
           ELSE \E s \in found :
                   call' = [call EXCEPT ![c].sku = s,
                               ![c].step = IF sku[s].row = Null THEN "createRow"
                                           ELSE IF call[c].task = "intake" THEN "adjust"
                                           ELSE "allocate"]
    /\ UNCHANGED <<catalog, holder, sku, merges, flagged, known, lost, used, lapse>>

\* Fails on a foreign key if the item is gone, on the index if the SKU is there by now.
CreateSku(c) ==
    /\ At(c, "createSku")
    /\ LET i == call[c].item
           taken == \E s \in SkusOf(i) : sku[s].condition = call[c].condition
       IN  IF i \notin catalog \/ taken
           THEN Done(c) /\ UNCHANGED sku
           ELSE \E s \in SkuId \ Skus :
                   /\ \A d \in Caller : call[d].sku # s
                   /\ \A m \in merges : s \notin m.move
                   /\ sku' = [sku EXCEPT ![s] =
                                [item |-> i, condition |-> call[c].condition, row |-> Null]]
                   /\ call' = [call EXCEPT ![c].step = "createRow", ![c].sku = s]
    /\ UNCHANGED <<catalog, holder, merges, flagged, known, lost, used, lapse>>

\* A row with the units taken in, or with none for a listing that is only linked.
CreateRow(c) ==
    /\ At(c, "createRow")
    /\ LET s == call[c].sku
       IN  IF s \notin Skus \/ (s \in Skus /\ sku[s].row # Null)
           THEN Done(c) /\ UNCHANGED sku
           ELSE IF call[c].task = "intake"
                THEN /\ sku' = [sku EXCEPT ![s].row = [Empty EXCEPT !.onHand = 1]]
                     /\ Goto(c, "record")
                ELSE /\ sku' = [sku EXCEPT ![s].row = Empty]
                     /\ Goto(c, "allocate")
    /\ UNCHANGED <<catalog, holder, merges, flagged, known, lost, used, lapse>>

\* A write of the row, by its id; it fails if the row is gone.
WriteRow(c, row) ==
    /\ sku' = IF call[c].sku \in Skus THEN [sku EXCEPT ![call[c].sku].row = row] ELSE sku
    /\ Done(c)
    /\ UNCHANGED <<catalog, holder, merges, flagged, known, lost, used, lapse>>

RowOf(c) == IF call[c].sku \in Skus THEN sku[call[c].sku].row ELSE Empty

Record(c) == At(c, "record") /\ WriteRow(c, [RowOf(c) EXCEPT !.moved = TRUE])

\* Units come or go with a movement; a sale or a count may bring the row back to nothing.
Adjust(c) ==
    /\ At(c, "adjust")
    /\ \E onHand \in {0, 1} :
          WriteRow(c, [RowOf(c) EXCEPT !.onHand = onHand, !.moved = TRUE])

\* The link's allocation.
Allocate(c) == At(c, "allocate") /\ WriteRow(c, [RowOf(c) EXCEPT !.linked = TRUE])

Die(c) ==
    /\ ~At(c, "idle")
    /\ used.mishaps < MaxMishaps /\ Use("mishaps")
    /\ Done(c)
    /\ UNCHANGED <<catalog, holder, sku, merges, flagged, known, lost, lapse>>

-------------------------------------------------------------------------------
\* Mutant of Blocks: only stock is looked at.
BlocksOnStock(row) == row # Null /\ row.onHand # 0

\* describeBlocker: "deliberately strict".
Blocks(row) == row # Null /\ row # Empty

\* Both items are read; a duplicate SKU that holds anything refuses the merge.
AskMerge ==
    /\ used.merges < MaxMerges /\ Use("merges")
    /\ \E winner, loser \in catalog :
          LET taken == {sku[s].condition : s \in SkusOf(winner)}
              duplicate == {s \in SkusOf(loser) : sku[s].condition \in taken}
              blocked == \E s \in duplicate : Blocks(sku[s].row)
          IN  /\ winner # loser
              /\ merges' = merges \cup
                    {m \in {[winner |-> winner, loser |-> loser,
                             move |-> SkusOf(loser) \ duplicate, refs |-> RefsOf(loser)]} :
                     ~blocked}
    /\ lapse' = lapse \cup {l \in {"overlap"} : Busy \/ merges # {}}
    /\ UNCHANGED <<catalog, holder, sku, call, flagged, known, lost>>

\* The transaction fails as a whole where a row it writes or refers to is gone, or the winner
\* has a SKU of the kind by now.
CannotCommit(m) ==
    \/ m.loser \notin catalog
    \/ m.winner \notin catalog /\ m.move \cup m.refs # {}
    \/ \E s \in m.move : s \notin Skus
    \/ \E s \in m.move \cap Skus, t \in SkusOf(m.winner) :
          s # t /\ sku[t].condition = sku[s].condition
    \/ \E x \in m.refs : holder[x] = Null

\* References that were read move; the others go with the item.
RefsAfter(m, x) ==
    IF x \in m.refs THEN m.winner ELSE IF holder[x] = m.loser THEN Null ELSE holder[x]

Commit ==
    \E m \in merges :
        /\ IF CannotCommit(m)
           THEN UNCHANGED <<catalog, holder, sku, lost>>
           ELSE LET gone == SkusOf(m.loser) \ m.move
                IN  /\ sku' = [s \in SkuId |->
                                 IF s \in gone THEN Null
                                 ELSE IF s \in m.move THEN [sku[s] EXCEPT !.item = m.winner]
                                 ELSE sku[s]]
                    /\ holder' = [x \in ExternalRef |-> RefsAfter(m, x)]
                    /\ catalog' = catalog \ {m.loser}
                    /\ lost' = lost \cup ({sku[s].row : s \in gone} \ {Null, Empty})
        /\ merges' = merges \ {m}
        /\ UNCHANGED <<call, flagged, known, used, lapse>>

\* One statement: the items that hold no SKU, with their references.
Clear ==
    /\ used.mishaps < MaxMishaps /\ Use("mishaps")
    /\ LET bare == {i \in catalog : SkusOf(i) = {}}
       IN  /\ bare # {}
           /\ catalog' = catalog \ bare
           /\ holder' = [x \in ExternalRef |-> IF holder[x] \in bare THEN Null ELSE holder[x]]
           /\ known' = known \ {x \in ExternalRef : holder[x] \in bare}
    /\ UNCHANGED <<sku, call, merges, flagged, lost, lapse>>

Next ==
    \/ \E c \in Caller :
          \/ Ask(c) \/ Resolve(c) \/ CreateItem(c) \/ TryRef(c) \/ LookUp(c)
          \/ Flag(c) \/ FindSku(c) \/ CreateSku(c) \/ CreateRow(c) \/ Record(c) \/ Adjust(c) \/ Allocate(c)
          \/ Die(c)
    \/ AskMerge \/ Commit \/ Clear

Spec == Init /\ [][Next]_vars

-------------------------------------------------------------------------------
Row == [onHand: 0..1, moved: BOOLEAN, linked: BOOLEAN]

\* What the theorems about this module assume.
Parameters ==
    /\ \A refs \in Candidate : refs \subseteq ExternalRef
    /\ Null \notin Item /\ Null \notin SkuId /\ Null \notin Condition /\ Null \notin Row
    /\ Null \notin [item: Item, condition: Condition, row: Row \cup {Null}]
    /\ MaxCalls \in Nat /\ MaxMerges \in Nat /\ MaxMishaps \in Nat

TypeOK ==
    /\ catalog \subseteq Item
    /\ holder \in [ExternalRef -> catalog \cup {Null}]
    /\ sku \in [SkuId -> [item: catalog, condition: Condition, row: Row \cup {Null}] \cup {Null}]
    /\ call \in [Caller ->
          [step: {"idle", "resolve", "createItem", "refs", "owner", "flag", "findSku", "createSku", "createRow",
                  "record", "adjust", "allocate"},
           task: {"intake", "link", Null}, refs: Candidate \cup {{}},
           todo: SUBSET ExternalRef,
           condition: Condition \cup {Null}, item: Item \cup {Null}, sku: SkuId \cup {Null},
           ref: ExternalRef \cup {Null}, missed: SUBSET ExternalRef]]
    /\ merges \subseteq [winner: Item, loser: Item, move: SUBSET SkuId, refs: SUBSET ExternalRef]
    /\ flagged \subseteq ExternalRef /\ known \subseteq ExternalRef /\ lost \subseteq Row
    /\ used \in [calls: 0..MaxCalls, merges: 0..MaxMerges, mishaps: 0..MaxMishaps]
    /\ lapse \subseteq {"overlap"}

\* "The cascade has nothing of value to take with it": a merge deletes no stock, no history
\* and no link, and forgets no reference, unless something was taken in, linked or merged
\* between its reading the items and its transaction.
NothingIsLost ==
    "overlap" \notin lapse =>
        /\ lost = {}
        /\ \A x \in known : holder[x] # Null

\* When a call is done with the references of its candidate, its item holds each of them, or
\* that another item holds it has been reported: no product is split over two items that a
\* source ties together without somebody being told.  A reference that could not be written
\* and that nobody held when the call then looked is dropped, and only a failed statement, a
\* clear or a merge beside the call brings that about.
SplitIsKnown ==
    \A c \in Caller :
        call[c].item \in catalog /\ call[c].step \notin {"refs", "owner", "flag"} =>
            \A x \in call[c].refs :
                \/ holder[x] = call[c].item
                \/ x \in flagged
                \/ x \in call[c].missed /\ (used.mishaps > 0 \/ "overlap" \in lapse)

\* What a merge may not lose, and what an intake may not hide.
MergeLosesNothing == NothingIsLost /\ SplitIsKnown

\* The comment of the transaction itself: "Whatever is left on the loser is provably empty,
\* so the cascade has nothing of value to take with it."
CascadeTakesNothing == lost = {}
===============================================================================
