----------------------------- MODULE AtomicLedger ------------------------------
(***************************************************************************)
(* What InventoryService promises of one inventory item: every mutation    *)
(* takes effect at once, on the ledger as it is at that moment, is refused *)
(* if it would break the rules, and records what it did to on-hand.        *)
(***************************************************************************)
EXTENDS Allocation

CONSTANTS
    Request,    \* the requests callers may make
    AtRest      \* ledgers an item may already have when the behaviour starts

VARIABLES
    ledger,     \* the item and its allocations; Null before the item exists
    nextId,     \* the id the next new allocation gets
    moved       \* the sum of the deltas of the item's stock movements

vars == <<ledger, nextId, moved>>

Init == /\ ledger \in AtRest \cup {Null}
        /\ nextId = FirstId
        /\ moved = IF ledger = Null THEN 0 ELSE ledger.quantityOnHand

Create(request) ==
    /\ request.op = "intake"
    /\ ledger = Null
    /\ ledger' = NewLedger(request.quantity)
    /\ moved' = moved + request.quantity
    /\ UNCHANGED nextId

Mutate(request) ==
    /\ ledger # Null
    /\ \E plan \in Plans(ledger, request,
                         IF request.op = "sale" THEN RowId(ledger, request.channel) ELSE Null) :
        /\ ledger' = Stored(plan.next, request, nextId)
        /\ moved' = moved + OrZero(plan.movement)
        /\ IsLedgerValid(plan.next)
    /\ nextId' = IF request.op = "upsert" /\ RowId(ledger, request.channel) = Null
                 THEN nextId + 1 ELSE nextId

\* Requests without an effect (a count that confirms the figure) are stutters.
Next == /\ vars' # vars
        /\ \E request \in Request : Create(request) \/ Mutate(request)

Spec == Init /\ [][Next]_vars
===============================================================================
