---------------------------- MODULE InventoryLedger ----------------------------
(***************************************************************************)
(* InventoryService.mutate and the intake of stock, as concurrent calls    *)
(* run them on one inventory item: read, plan, commit if the version is    *)
(* still the one read, read again, and queue a push for every channel      *)
(* whose advertised quantity moved.  Calls run interleaved, and each may   *)
(* die between two of its steps (the process stops, or the database        *)
(* refuses one of its statements).                                         *)
(***************************************************************************)
EXTENDS Allocation

CONSTANTS
    Request,        \* the requests callers may make
    AtRest,         \* ledgers an item may already have when the behaviour starts
    Call,           \* how many invocations run at once; each takes one call after another
    MaxAttempts,    \* MAX_ATTEMPTS of the optimistic-locking loop
    MaxCalls        \* bound: how many calls a behaviour starts

\* applySale and intake refuse quantities that are not positive before they do anything.
ASSUME RequestAssumption ==
    /\ Request \subseteq RequestType
    /\ \A r \in Request : r.op \in {"sale", "intake"} => r.quantity > 0

ASSUME AtRestAssumption ==
    \A ledger \in AtRest :
        /\ ledger \in LedgerView
        /\ IsLedgerValid(ledger)
        /\ \A c \in Allocated(ledger) : ledger.allocations[c].id \in 1..Cardinality(Channel)
        /\ \A c, d \in Allocated(ledger) :
                ledger.allocations[c].id = ledger.allocations[d].id => c = d

ASSUME MaxAttemptsAssumption == MaxAttempts \in Nat \ {0}
ASSUME MaxCallsAssumption == MaxCalls \in Nat

VARIABLES
    \* the database
    ledger,         \* the item and its allocations; Null before the item exists
    version,        \* InventoryItem.version, counted from the initial state
    nextId,         \* the id the next new allocation gets
    moved,          \* the sum of the deltas of the item's stock movements
    \* each call
    pc,
    request,
    rowId,          \* the allocation a sale was resolved to
    attempt,
    readVersion,    \* what the call's latest read returned: the version ...
    before,         \* ... and the ledger
    plan,
    changes,        \* ids of the allocations it still has to queue a push for
    \* history
    started,        \* how many calls started
    startVersion,   \* the version when the call started
    unrecorded,     \* units of an intake whose movement is not written
    announced,      \* what a push queued last for a channel would read, at least
    missed          \* ids of allocations a push should have been queued for

database == <<ledger, version, nextId, moved>>
local == <<request, rowId, attempt, readVersion, before, plan, changes>>
history == <<started, startVersion, unrecorded, announced, missed>>
vars == <<database, pc, local, history>>

Running == {"reading", "planned", "committed", "queueing",
            "lookup", "creating", "recording"}
Idle == {"idle", "refused", "gaveUp"}

Init ==
    /\ ledger \in AtRest \cup {Null}
    /\ version = 0
    /\ nextId = FirstId
    /\ moved = IF ledger = Null THEN 0 ELSE ledger.quantityOnHand
    /\ pc = [p \in Call |-> "idle"]
    /\ request = [p \in Call |-> Null]
    /\ rowId = [p \in Call |-> Null]
    /\ attempt = [p \in Call |-> 0]
    /\ readVersion = [p \in Call |-> 0]
    /\ before = [p \in Call |-> Null]
    /\ plan = [p \in Call |-> Null]
    /\ changes = [p \in Call |-> {}]
    /\ started = 0
    /\ startVersion = [p \in Call |-> 0]
    /\ unrecorded = 0
    /\ announced = IF ledger = Null THEN [c \in Channel |-> 0] ELSE Desired(ledger)
    /\ missed = {}

Goto(p, label) == pc' = [pc EXCEPT ![p] = label]

\* The call is over and its variables are gone.
Return(p, outcome) ==
    /\ Goto(p, outcome)
    /\ request' = [request EXCEPT ![p] = Null]
    /\ rowId' = [rowId EXCEPT ![p] = Null]
    /\ attempt' = [attempt EXCEPT ![p] = 0]
    /\ readVersion' = [readVersion EXCEPT ![p] = 0]
    /\ before' = [before EXCEPT ![p] = Null]
    /\ plan' = [plan EXCEPT ![p] = Null]
    /\ changes' = [changes EXCEPT ![p] = {}]

-------------------------------------------------------------------------------
(***************************************************************************)
(* A call starts.  The inbound worker has resolved a sale to a row.        *)
(***************************************************************************)
Start(p, r) ==
    /\ pc[p] \notin Running
    /\ started < MaxCalls
    /\ started' = started + 1
    /\ r.op = "sale" => ledger # Null /\ RowId(ledger, r.channel) # Null
    /\ request' = [request EXCEPT ![p] = r]
    /\ rowId' = [rowId EXCEPT ![p] = IF r.op = "sale" THEN RowId(ledger, r.channel)
                                                      ELSE Null]
    /\ attempt' = [attempt EXCEPT ![p] = 1]
    /\ startVersion' = [startVersion EXCEPT ![p] = version]
    /\ Goto(p, IF r.op = "intake" THEN "lookup" ELSE "reading")
    /\ UNCHANGED <<database, readVersion, before, plan, changes,
                   unrecorded, announced, missed>>

-------------------------------------------------------------------------------
(***************************************************************************)
(* Intake: adjust the item if the SKU has one, else create the item and    *)
(* then, in a statement of its own, its first stock movement.              *)
(***************************************************************************)
IntakeLookup(p) ==
    /\ pc[p] = "lookup"
    /\ Goto(p, IF ledger = Null THEN "creating" ELSE "reading")
    /\ UNCHANGED <<database, local, history>>

\* sku_id is unique: of two intakes that both found no item, one fails here.
CreateItem(p) ==
    /\ pc[p] = "creating"
    /\ IF ledger = Null
       THEN /\ ledger' = NewLedger(request[p].quantity)
            /\ unrecorded' = unrecorded + request[p].quantity
            /\ Goto(p, "recording")
            /\ UNCHANGED local
       ELSE /\ Return(p, "refused")
            /\ UNCHANGED <<ledger, unrecorded>>
    /\ UNCHANGED <<version, nextId, moved, started, startVersion, announced, missed>>

RecordIntake(p) ==
    /\ pc[p] = "recording"
    /\ moved' = moved + request[p].quantity
    /\ unrecorded' = unrecorded - request[p].quantity
    /\ Return(p, "idle")
    /\ UNCHANGED <<ledger, version, nextId, started, startVersion, announced, missed>>

-------------------------------------------------------------------------------
(***************************************************************************)
(* The read-modify-write loop.                                             *)
(***************************************************************************)

\* Mutant of Read: what every channel advertised is computed once, before the loop.
ReadListingOnce(p) ==
    /\ pc[p] = "reading"
    /\ ledger # Null
    /\ \E accepted \in {x \in Plans(ledger, request[p], rowId[p]) : IsLedgerValid(x.next)} :
        plan' = [plan EXCEPT ![p] = accepted]
    /\ readVersion' = [readVersion EXCEPT ![p] = version]
    /\ before' = [before EXCEPT ![p] = IF attempt[p] = 1 THEN ledger ELSE @]
    /\ Goto(p, "planned")
    /\ UNCHANGED <<database, request, rowId, attempt, changes, history>>

\* Read the rows, run the plan on them and validate what it proposes.
Read(p) ==
    /\ pc[p] = "reading"
    /\ ledger # Null
    /\ \E accepted \in {x \in Plans(ledger, request[p], rowId[p]) : IsLedgerValid(x.next)} :
        plan' = [plan EXCEPT ![p] = accepted]
    /\ readVersion' = [readVersion EXCEPT ![p] = version]
    /\ before' = [before EXCEPT ![p] = ledger]
    /\ Goto(p, "planned")
    /\ UNCHANGED <<database, request, rowId, attempt, changes, history>>

Refuse(p) ==
    /\ pc[p] = "reading"
    /\ ledger # Null =>
        \/ Plans(ledger, request[p], rowId[p]) = {}
        \/ \E x \in Plans(ledger, request[p], rowId[p]) : ~IsLedgerValid(x.next)
    /\ Return(p, "refused")
    /\ UNCHANGED <<database, history>>

\* A row created by this commit advertises nothing yet.
AnnouncedAfter(next) ==
    [c \in Channel |-> IF RowId(next, c) = RowId(ledger, c) THEN announced[c] ELSE 0]

\* Mutant of Commit: the update is not conditional on the version.  It writes the item's
\* quantities and the rows the plan changed; the other rows are as others left them.
CommitUnguarded(p) ==
    /\ pc[p] = "planned"
    /\ LET next == plan[p].next
           Written == {c \in Channel :
                          \/ request[p].op = "upsert" /\ c = request[p].channel
                          \/ next.allocations[c] # before[p].allocations[c]}
           Row(c) == IF c \in Written THEN next.allocations[c] ELSE ledger.allocations[c]
       IN  ledger' = Stored([next EXCEPT !.allocations = [c \in Channel |-> Row(c)]],
                            request[p], nextId)
    /\ version' = version + 1
    /\ nextId' = IF request[p].op = "upsert" /\ RowId(ledger, request[p].channel) = Null
                 THEN nextId + 1 ELSE nextId
    /\ moved' = moved + OrZero(plan[p].movement)
    /\ announced' = AnnouncedAfter(ledger')
    /\ missed' = missed \cap {RowId(ledger', c) : c \in Channel}
    /\ Goto(p, "committed")
    /\ UNCHANGED <<local, started, startVersion, unrecorded>>

Commit(p) ==
    /\ pc[p] = "planned"
    /\ version = readVersion[p]
    /\ ledger' = Stored(plan[p].next, request[p], nextId)
    /\ version' = version + 1
    /\ nextId' = IF request[p].op = "upsert" /\ RowId(ledger, request[p].channel) = Null
                 THEN nextId + 1 ELSE nextId
    /\ moved' = moved + OrZero(plan[p].movement)
    /\ announced' = AnnouncedAfter(ledger')
    /\ missed' = missed \cap {RowId(ledger', c) : c \in Channel}
    /\ Goto(p, "committed")
    /\ UNCHANGED <<local, started, startVersion, unrecorded>>

\* Mutant of RetryOrGiveUp: one attempt too many.
RetryOnceMore(p) ==
    /\ pc[p] = "planned"
    /\ version # readVersion[p]
    /\ attempt' = [attempt EXCEPT ![p] = @ + 1]
    /\ Goto(p, "reading")
    /\ UNCHANGED <<database, request, rowId, readVersion, before, plan, changes, history>>

\* Mutant of RetryOrGiveUp: one attempt too few.
RetryOnceLess(p) ==
    /\ pc[p] = "planned"
    /\ version # readVersion[p]
    /\ IF attempt[p] + 1 < MaxAttempts
       THEN /\ attempt' = [attempt EXCEPT ![p] = @ + 1]
            /\ Goto(p, "reading")
            /\ UNCHANGED <<request, rowId, readVersion, before, plan, changes>>
       ELSE Return(p, "gaveUp")
    /\ UNCHANGED <<database, history>>

\* Mutant of RetryOrGiveUp: the version is read again, the plan is not made again.
RetryOldPlan(p) ==
    /\ pc[p] = "planned"
    /\ version # readVersion[p]
    /\ attempt[p] < MaxAttempts
    /\ attempt' = [attempt EXCEPT ![p] = @ + 1]
    /\ readVersion' = [readVersion EXCEPT ![p] = version]
    /\ UNCHANGED <<database, pc, request, rowId, before, plan, changes, history>>

RetryOrGiveUp(p) ==
    /\ pc[p] = "planned"
    /\ version # readVersion[p]
    /\ IF attempt[p] < MaxAttempts
       THEN /\ attempt' = [attempt EXCEPT ![p] = @ + 1]
            /\ Goto(p, "reading")
            /\ UNCHANGED <<request, rowId, readVersion, before, plan, changes>>
       ELSE Return(p, "gaveUp")
    /\ UNCHANGED <<database, history>>

-------------------------------------------------------------------------------
(***************************************************************************)
(* After the commit: which channels to push to.                            *)
(***************************************************************************)

\* What the row now at channel c advertised in the ledger the call committed on; 0 if
\* the row is newer.
ListedBefore(p, c) ==
    IF RowId(before[p], c) = RowId(ledger, c) THEN Desired(before[p])[c] ELSE 0

Moved(p) ==
    LET desired == Desired(ledger)
    IN  {RowId(ledger, c) : c \in {d \in Allocated(ledger) : ListedBefore(p, d) # desired[d]}}

Reread(p) ==
    /\ pc[p] = "committed"
    /\ changes' = [changes EXCEPT ![p] = Moved(p)]
    /\ Goto(p, "queueing")
    /\ UNCHANGED <<database, request, rowId, attempt, readVersion, before, plan, history>>

Enqueue(p, id) ==
    /\ pc[p] = "queueing"
    /\ id \in changes[p]
    /\ changes' = [changes EXCEPT ![p] = @ \ {id}]
    /\ announced' = [c \in Channel |-> IF RowId(ledger, c) = id THEN Desired(ledger)[c]
                                                                ELSE announced[c]]
    /\ missed' = missed \ {id}
    /\ UNCHANGED <<database, pc, request, rowId, attempt, readVersion, before, plan,
                   started, startVersion, unrecorded>>

\* The channel is disabled, or the queue could not be reached: the loop goes on.
SkipEnqueue(p, id) ==
    /\ pc[p] = "queueing"
    /\ id \in changes[p]
    /\ changes' = [changes EXCEPT ![p] = @ \ {id}]
    /\ missed' = missed \cup {id}
    /\ UNCHANGED <<database, pc, request, rowId, attempt, readVersion, before, plan,
                   started, startVersion, unrecorded, announced>>

Finish(p) ==
    /\ pc[p] = "queueing"
    /\ changes[p] = {}
    /\ Return(p, "idle")
    /\ UNCHANGED <<database, history>>

\* The pushes the call would still have queued.
Owed(p) == IF pc[p] = "committed" THEN Moved(p)
           ELSE IF pc[p] = "queueing" THEN changes[p]
           ELSE {}

Crash(p) ==
    /\ pc[p] \in Running
    /\ Return(p, "idle")
    /\ missed' = missed \cup Owed(p)
    /\ UNCHANGED <<database, started, startVersion, unrecorded, announced>>

-------------------------------------------------------------------------------
Next ==
    \E p \in Call :
        \/ \E r \in Request : Start(p, r)
        \/ IntakeLookup(p) \/ CreateItem(p) \/ RecordIntake(p)
        \/ Read(p) \/ Refuse(p) \/ Commit(p) \/ RetryOrGiveUp(p)
        \/ Reread(p) \/ Finish(p) \/ Crash(p)
        \/ \E id \in changes[p] : Enqueue(p, id) \/ SkipEnqueue(p, id)

Spec == Init /\ [][Next]_vars

-------------------------------------------------------------------------------
(***************************************************************************)
(* Properties                                                              *)
(***************************************************************************)

\* The types of the state: a ledger is rows that have ids, a call under way has a request.
TypeOK ==
    /\ ledger \in LedgerView \cup {Null}
    /\ version \in Nat
    /\ nextId \in Nat
    /\ moved \in Int
    /\ pc \in [Call -> Running \cup Idle]
    /\ request \in [Call -> Request \cup {Null}]
    /\ rowId \in [Call -> Nat \cup {Null}]
    /\ attempt \in [Call -> 0..MaxAttempts]
    /\ readVersion \in [Call -> Nat]
    /\ before \in [Call -> LedgerView \cup {Null}]
    /\ plan \in [Call -> [next: LedgerView, movement: Int \cup {Null}] \cup {Null}]
    /\ changes \in [Call -> SUBSET Nat]
    /\ started \in Nat
    /\ startVersion \in [Call -> Nat]
    /\ unrecorded \in Int
    /\ announced \in [Channel -> Int]
    /\ missed \subseteq Nat

\* quantityOnHand >= sum of the fixed partitions + reserveQuantity >= 0, and every row has
\* the shape of its mode, in every committed state: a plan validated on rows that another
\* call has changed since is never stored.
LedgerKeepsRules == ledger # Null => IsLedgerValid(ledger)

\* On-hand is what the stock movements add up to, but for an intake whose first movement
\* is not written.
OnHandAccounted == ledger # Null => ledger.quantityOnHand = moved + unrecorded

\* "On-hand can always be reconstructed" from the append-only movements: when no intake
\* is between its two statements, they add up to on-hand.
OnHandReconstructible ==
    (ledger # Null /\ \A p \in Call : pc[p] # "recording") =>
        ledger.quantityOnHand = moved

\* A channel advertises a quantity older than the ledger's only while a call that will
\* queue a push for it is still running, or because that push could not be queued.
\* In particular two calls whose changes cancel out, or that read each other's commits,
\* never leave a channel behind.
FanOutExplained ==
    ledger # Null =>
        LET desired == Desired(ledger)
        IN  \A c \in Allocated(ledger) :
                announced[c] # desired[c] =>
                    \/ RowId(ledger, c) \in missed
                    \/ \E p \in Call : RowId(ledger, c) \in Owed(p)

\* A call gives up only after MaxAttempts other commits got in its way since it started:
\* "exactly one wins each round, so the loser count falls by one per round".
GiveUpMeansContention ==
    \A p \in Call : pc[p] = "gaveUp" => version - startVersion[p] >= MaxAttempts

\* "Unlike the operator-facing mutations it never rejects: a sale is a fact": the only
\* sale refused is one whose allocation is gone.
SaleNeverRefused ==
    [][\A p \in Call :
        (request[p] # Null /\ request[p].op = "sale" /\ pc[p] = "reading"
            /\ pc'[p] = "refused") =>
                RowId(ledger, request[p].channel) # rowId[p]]_vars

\* Every commit does what the operation does to the ledger as it is at that moment, and a
\* call that does not commit does nothing: the calls are as good as atomic.
Atomic == INSTANCE AtomicLedger WITH moved <- moved + unrecorded
ImplementsAtomicLedger == Atomic!Spec

-------------------------------------------------------------------------------
(***************************************************************************)
(* What makes the properties above inductive.                              *)
(***************************************************************************)

\* A call under way has a request, and only an intake is about to create an item.
CallsHaveRequests ==
    \A p \in Call :
        /\ pc[p] \in Running => request[p] \in Request
        /\ pc[p] \in {"lookup", "creating", "recording"} => request[p].op = "intake"

\* A call past its read has an item to work on, whose version only grows.
CallsHaveItem ==
    \A p \in Call :
        pc[p] \in {"planned", "committed", "queueing"} =>
            ledger # Null /\ before[p] # Null /\ readVersion[p] <= version

\* A planned change is one of the ledger the call read, and as long as the version is the
\* one it read that is the ledger in the database.
PlansAreCurrent ==
    \A p \in Call :
        pc[p] = "planned" =>
            /\ plan[p] \in Plans(before[p], request[p], rowId[p])
            /\ IsLedgerValid(plan[p].next)
            /\ RowsHaveIds(before[p])
            /\ readVersion[p] = version => before[p] = ledger

\* Every attempt but the first was lost to a commit since the call started.
AttemptsWereLost ==
    \A p \in Call :
        /\ pc[p] \in Running => startVersion[p] + attempt[p] <= version + 1
        /\ pc[p] = "planned" => startVersion[p] + attempt[p] <= readVersion[p] + 1

\* Allocation ids are a primary key.
IdsAreUnique ==
    ledger # Null =>
        \A c \in Allocated(ledger) :
            /\ RowId(ledger, c) < nextId
            /\ \A d \in Allocated(ledger) : RowId(ledger, d) = RowId(ledger, c) => d = c

IInv ==
    /\ TypeOK
    /\ CallsHaveRequests
    /\ CallsHaveItem
    /\ PlansAreCurrent
    /\ ledger # Null => RowsHaveIds(ledger)
    /\ LedgerKeepsRules
    /\ OnHandAccounted
    /\ ledger = Null => moved + unrecorded = 0
===============================================================================
