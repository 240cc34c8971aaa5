------------------------------ MODULE Allocation ------------------------------
(***************************************************************************)
(* The allocation arithmetic of apps/api/src/inventory/allocation.ts: what *)
(* a ledger commits, what every channel should advertise, which rules a    *)
(* ledger breaks, and what a sale leaves behind; and the plans that        *)
(* inventory.service.ts makes of a ledger with it.                         *)
(*                                                                         *)
(* A ledger is one inventory item with its channel allocations.  The       *)
(* database allows one allocation per (item, channel), so the rows are a   *)
(* function from channels, Null where the channel has no allocation.       *)
(***************************************************************************)
EXTENDS Integers, FiniteSets, Functions

CONSTANTS
    Channel,    \* channel instances (storefronts, marketplaces)
    Null        \* SQL NULL, and "no such row"

ASSUME ChannelAssumption == IsFiniteSet(Channel)

Mode == {"fixed", "pooled"}

AllocationView ==
    [id: Nat \cup {Null}, mode: Mode,
     quantityAllocated: Int \cup {Null}, maxQuantity: Int \cup {Null}]

LedgerView ==
    [quantityOnHand: Int, reserveQuantity: Int,
     allocations: [Channel -> AllocationView \cup {Null}]]

\* Null is no quantity, no row and no ledger.
ASSUME NullAssumption ==
    Null \notin Int /\ Null \notin AllocationView /\ Null \notin LedgerView

Larger(a, b) == IF a >= b THEN a ELSE b
Smaller(a, b) == IF a <= b THEN a ELSE b
OrZero(n) == IF n = Null THEN 0 ELSE n

-------------------------------------------------------------------------------
(***************************************************************************)
(* Derivation                                                              *)
(***************************************************************************)

Allocated(ledger) == {c \in Channel : ledger.allocations[c] # Null}

Fixed(ledger) ==
    {c \in Allocated(ledger) : ledger.allocations[c].mode = "fixed"}

\* Units the row of each channel keeps for itself; 0 for a pooled or absent row.
Partition(ledger) ==
    [c \in Channel |-> IF c \in Fixed(ledger)
                       THEN OrZero(ledger.allocations[c].quantityAllocated)
                       ELSE 0]

SumFixedPartitions(ledger) == SumFunctionOnSet(Partition(ledger), Channel)

ComputePool(ledger) ==
    Larger(0, ledger.quantityOnHand - SumFixedPartitions(ledger)
                                    - ledger.reserveQuantity)

ComputeListedQuantity(row, pool) ==
    IF row.mode = "fixed"
    THEN Larger(0, OrZero(row.quantityAllocated))
    ELSE Larger(0, IF row.maxQuantity = Null THEN pool
                                             ELSE Smaller(row.maxQuantity, pool))

\* What every channel should advertise right now; 0 without an allocation.
Desired(ledger) ==
    [c \in Channel |->
        IF ledger.allocations[c] = Null
        THEN 0
        ELSE ComputeListedQuantity(ledger.allocations[c], ComputePool(ledger))]

-------------------------------------------------------------------------------
(***************************************************************************)
(* Validation: the codes of the rules a ledger breaks.  Quantities are     *)
(* whole numbers here, so the code's non_integer_quantity cannot occur.    *)
(***************************************************************************)

When(broken, code) == IF broken THEN {code} ELSE {}

RowIssues(row) ==
    LET quantity == row.quantityAllocated
        cap == row.maxQuantity
    IN  IF row.mode = "fixed"
        THEN When(quantity = Null, "fixed_missing_quantity")
             \cup When(quantity # Null /\ quantity < 0, "fixed_negative_quantity")
             \cup When(cap # Null, "fixed_has_max_quantity")
        ELSE When(cap # Null /\ cap < 0, "pooled_negative_max")
             \cup When(quantity # Null, "pooled_has_partition")

ValidateLedger(ledger) ==
    When(ledger.quantityOnHand < 0, "negative_on_hand")
    \cup When(ledger.reserveQuantity < 0, "negative_reserve")
    \cup When(SumFixedPartitions(ledger) + ledger.reserveQuantity
                > ledger.quantityOnHand, "over_allocated")
    \cup UNION {RowIssues(ledger.allocations[c]) : c \in Allocated(ledger)}

IsLedgerValid(ledger) == ValidateLedger(ledger) = {}

-------------------------------------------------------------------------------
(***************************************************************************)
(* Applying a sale.  The code reclaims missing units in a loop, from the   *)
(* reserve first and then from the largest fixed partition, again and      *)
(* again.  A trimmed partition is either emptied or the last one trimmed,  *)
(* so the loop visits partitions from the largest down and each one yields *)
(* what the ones before it left missing.  `rank` is the position of a row  *)
(* in the list the database returned, which breaks ties in the stable sort.*)
(* The closed form is for ledgers that keep the rules above, the only ones *)
(* the database holds (InventoryLedger, LedgerKeepsRules); MC_Allocation   *)
(* compares it with the loop.                                              *)
(***************************************************************************)

RowRank == {rank \in [Channel -> 1..Cardinality(Channel)] :
                \A c, d \in Channel : rank[c] = rank[d] => c = d}

\* The partitions after the selling channel gave up what it sold.
PartitionAfterSelling(ledger, seller, quantity) ==
    [Partition(ledger) EXCEPT ![seller] = Larger(0, @ - quantity)]

\* Mutant of TrimmedBefore: the smallest partition is trimmed first.
TrimmedBeforeSmallestFirst(held, c, rank) ==
    {d \in Channel : held[d] < held[c] \/ (held[d] = held[c] /\ rank[d] < rank[c])}

\* The channels the trimming loop empties before it reaches c.
TrimmedBefore(held, c, rank) ==
    {d \in Channel : held[d] > held[c] \/ (held[d] = held[c] /\ rank[d] < rank[c])}

\* Mutant of Trimmed: only the reserve absorbs what is missing.
TrimmedNowhere(held, excess, rank) == [c \in Channel |-> 0]

Trimmed(held, excess, rank) ==
    [c \in Channel |->
        Smaller(held[c],
                Larger(0, excess - SumFunctionOnSet(held, TrimmedBefore(held, c, rank))))]

\* Mutant of Reclaim: the whole reserve is given up, however little is missing.
ReclaimWholeReserve(ledger, seller, quantity, rank) ==
    [reserve |-> ledger.reserveQuantity,
     partitions |->
        LET held == PartitionAfterSelling(ledger, seller, quantity)
        IN  Trimmed(held, SumFunctionOnSet(held, Channel)
                            - Larger(0, ledger.quantityOnHand - quantity), rank)]

\* The units that had to come out of the reserve and the partitions because on-hand
\* fell below what was committed.
Reclaim(ledger, seller, quantity, rank) ==
    LET onHand == Larger(0, ledger.quantityOnHand - quantity)
        held == PartitionAfterSelling(ledger, seller, quantity)
        excess == Larger(0, SumFunctionOnSet(held, Channel)
                            + ledger.reserveQuantity - onHand)
        fromReserve == Smaller(excess, Larger(0, ledger.reserveQuantity))
    IN  [reserve |-> fromReserve,
         partitions |-> Trimmed(held, excess - fromReserve, rank)]

LedgerAfterSale(ledger, seller, quantity, rank) ==
    LET reclaimed == Reclaim(ledger, seller, quantity, rank)
        held == PartitionAfterSelling(ledger, seller, quantity)
        RowAfter(c) ==
            IF c \in Fixed(ledger) /\ (c = seller \/ reclaimed.partitions[c] > 0)
            THEN [ledger.allocations[c] EXCEPT
                    !.quantityAllocated = held[c] - reclaimed.partitions[c]]
            ELSE ledger.allocations[c]
    IN  [quantityOnHand |-> Larger(0, ledger.quantityOnHand - quantity),
         reserveQuantity |-> ledger.reserveQuantity - reclaimed.reserve,
         allocations |-> [c \in Channel |-> RowAfter(c)]]

\* Mutant of SaleConflicts: trimming the reserve goes unreported.
SaleConflictsWithoutReserve(ledger, seller, quantity, rank) ==
    LET reclaimed == Reclaim(ledger, seller, quantity, rank)
    IN  {[code |-> "partition_reduced", channel |-> c, shortfall |-> reclaimed.partitions[c]] :
            c \in {d \in Channel : reclaimed.partitions[d] > 0}}

\* What a human is told about a sale: which rule, on which channel, how many units.
SaleConflicts(ledger, seller, quantity, rank) ==
    LET reclaimed == Reclaim(ledger, seller, quantity, rank)
        Conflict(code, channel, shortfall) ==
            When(shortfall > 0,
                 [code |-> code, channel |-> channel, shortfall |-> shortfall])
    IN  Conflict("oversell_on_hand", Null, quantity - ledger.quantityOnHand)
        \cup (IF seller \in Fixed(ledger)
              THEN Conflict("oversell_partition", seller,
                            quantity - Partition(ledger)[seller])
              ELSE {})
        \cup Conflict("reserve_reduced", Null, reclaimed.reserve)
        \cup UNION {Conflict("partition_reduced", c, reclaimed.partitions[c]) :
                        c \in Channel}

-------------------------------------------------------------------------------
(***************************************************************************)
(* What each mutation of InventoryService asks of a ledger: the plan       *)
(* callbacks that `mutate` runs on the rows it just read, and the rows its *)
(* transaction stores for an accepted plan.                                *)
(***************************************************************************)

\* quantity is signed for "adjust", an absolute figure for "count" and "reserve", and
\* the units sold or received for "sale" and "intake".
RequestType ==
    [op: {"adjust", "count", "reserve", "intake"}, quantity: Int]
    \cup [op: {"upsert"}, channel: Channel, mode: Mode,
          quantityAllocated: Int \cup {Null}, maxQuantity: Int \cup {Null}]
    \cup [op: {"remove"}, channel: Channel]
    \cup [op: {"sale"}, channel: Channel, quantity: Int]

\* The rows of the database have ids.
RowsHaveIds(ledger) ==
    \A c \in Allocated(ledger) : ledger.allocations[c].id \in Nat

FirstId == Cardinality(Channel) + 1

\* The row a sale on this channel would be resolved to; Null if there is none.
RowId(ledger, channel) ==
    IF ledger.allocations[channel] = Null THEN Null ELSE ledger.allocations[channel].id

\* A plan is the ledger it proposes and the stock movement it writes, Null for none.
PlanIf(allowed, next, movement) ==
    IF allowed THEN {[next |-> next, movement |-> movement]} ELSE {}

AdjustPlans(ledger, delta) ==
    PlanIf(delta # 0 /\ ledger.quantityOnHand + delta >= 0,
           [ledger EXCEPT !.quantityOnHand = @ + delta], delta)

\* A count that confirms the figure moves nothing.
CountPlans(ledger, quantity) ==
    LET delta == quantity - ledger.quantityOnHand
    IN  PlanIf(TRUE, [ledger EXCEPT !.quantityOnHand = quantity],
               IF delta = 0 THEN Null ELSE delta)

ReservePlans(ledger, quantity) ==
    PlanIf(TRUE, [ledger EXCEPT !.reserveQuantity = quantity], Null)

\* An existing row keeps its id; a new one has none until the transaction stores it.
UpsertPlans(ledger, request) ==
    LET row == [id |-> RowId(ledger, request.channel),
                mode |-> request.mode,
                quantityAllocated |-> request.quantityAllocated,
                maxQuantity |-> request.maxQuantity]
    IN  PlanIf(TRUE, [ledger EXCEPT !.allocations[request.channel] = row], Null)

RemovePlans(ledger, channel) ==
    PlanIf(ledger.allocations[channel] # Null,
           [ledger EXCEPT !.allocations[channel] = Null], Null)

\* Mutant of SalePlans: the movement records what was sold, not what left the shelf.
SalePlansMovingAll(ledger, request, rowId) ==
    UNION {PlanIf(rowId # Null /\ RowId(ledger, request.channel) = rowId,
                  LedgerAfterSale(ledger, request.channel, request.quantity, rank),
                  0 - request.quantity) : rank \in RowRank}

\* A sale names the row it was resolved to earlier; applySale throws when the ledger
\* does not hold that row any more.
SalePlans(ledger, request, rowId) ==
    UNION {LET next == LedgerAfterSale(ledger, request.channel, request.quantity, rank)
           IN  PlanIf(rowId # Null /\ RowId(ledger, request.channel) = rowId,
                      next, next.quantityOnHand - ledger.quantityOnHand) :
                rank \in RowRank}

Plans(ledger, request, rowId) ==
    CASE request.op = "adjust"  -> AdjustPlans(ledger, request.quantity)
      [] request.op = "intake"  -> AdjustPlans(ledger, request.quantity)
      [] request.op = "count"   -> CountPlans(ledger, request.quantity)
      [] request.op = "reserve" -> ReservePlans(ledger, request.quantity)
      [] request.op = "upsert"  -> UpsertPlans(ledger, request)
      [] request.op = "remove"  -> RemovePlans(ledger, request.channel)
      [] request.op = "sale"    -> SalePlans(ledger, request, rowId)

\* The row an upsert stores: only the quantity of its mode, under a fresh id if new.
StoredRow(row, freshId) ==
    [id |-> IF row.id = Null THEN freshId ELSE row.id,
     mode |-> row.mode,
     quantityAllocated |-> IF row.mode = "fixed" THEN OrZero(row.quantityAllocated) ELSE Null,
     maxQuantity |-> IF row.mode = "pooled" THEN row.maxQuantity ELSE Null]

Stored(next, request, freshId) ==
    IF request.op = "upsert"
    THEN [next EXCEPT !.allocations[request.channel] = StoredRow(@, freshId)]
    ELSE next

\* The item a first intake creates.
NewLedger(quantity) ==
    [quantityOnHand |-> quantity, reserveQuantity |-> 0,
     allocations |-> [c \in Channel |-> Null]]
===============================================================================
