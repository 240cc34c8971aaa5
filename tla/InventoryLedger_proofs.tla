------------------------ MODULE InventoryLedger_proofs -------------------------
(***************************************************************************)
(* InventoryLedger for any number of channels, calls, requests and         *)
(* attempts: its types, the ledger rules, the accounts of on-hand, the     *)
(* retry budget, the fan-out of pushes and the refinement of AtomicLedger. *)
(***************************************************************************)
EXTENDS InventoryLedger, Allocation_proofs

-------------------------------------------------------------------------------
(* What the plans return, for every ledger and every request *)

\* A sale keeps every row, under its id.
LEMMA AfterSaleRows ==
    ASSUME NEW view \in LedgerView, NEW seller \in Channel, NEW quantity \in Int, NEW rank,
           NEW c \in Channel
    PROVE  /\ RowId(LedgerAfterSale(view, seller, quantity, rank), c) = RowId(view, c)
           /\ c \in Allocated(LedgerAfterSale(view, seller, quantity, rank))
                <=> c \in Allocated(view)
<1> DEFINE row == view.allocations[c]
           after == LedgerAfterSale(view, seller, quantity, rank).allocations[c]
           left == PartitionAfterSelling(view, seller, quantity)[c]
                     - Reclaim(view, seller, quantity, rank).partitions[c]
<1>1. \/ after = row
      \/ row # Null /\ after = [row EXCEPT !.quantityAllocated = left]
  BY DEF LedgerAfterSale, Fixed, Allocated
<1>2. row \in AllocationView \cup {Null}
  BY DEF LedgerView
<1> HIDE DEF row, after, left
<1>3. CASE after = row
  BY <1>3 DEF RowId, Allocated, row, after
<1>4. CASE row # Null /\ after = [row EXCEPT !.quantityAllocated = left]
  <2>1. row \in AllocationView
    BY <1>2, <1>4
  <2>2. after.id = row.id /\ after.mode = row.mode
    BY <1>4, <2>1 DEF AllocationView
  <2>3. left \in Int
    BY HeldType, ReclaimType DEF left
  <2>4. after \in AllocationView
    BY <1>4, <2>1, <2>3 DEF AllocationView
  <2> QED
    BY <1>4, <2>2, <2>4, NullAssumption DEF RowId, Allocated, row, after
<1> QED
  BY <1>1, <1>3, <1>4

-------------------------------------------------------------------------------

PlanType == [next: LedgerView, movement: Int \cup {Null}]

\* A plan is well typed and records exactly what it does to on-hand.
THEOREM PlansType ==
    ASSUME NEW view \in LedgerView, NEW asked \in RequestType, NEW known,
           NEW chosen \in Plans(view, asked, known)
    PROVE  /\ chosen \in PlanType
           /\ chosen.next.quantityOnHand = view.quantityOnHand + OrZero(chosen.movement)
<1>1. CASE asked.op \in {"adjust", "intake"}
  <2>1. asked.quantity \in Int
    BY <1>1 DEF RequestType
  <2>2. chosen \in AdjustPlans(view, asked.quantity)
    BY <1>1 DEF Plans
  <2> QED
    BY <2>1, <2>2, NullAssumption DEF AdjustPlans, PlanIf, PlanType, LedgerView, OrZero
<1>2. CASE asked.op = "count"
  <2>1. asked.quantity \in Int
    BY <1>2 DEF RequestType
  <2>2. chosen \in CountPlans(view, asked.quantity)
    BY <1>2 DEF Plans
  <2> QED
    BY <2>1, <2>2, NullAssumption DEF CountPlans, PlanIf, PlanType, LedgerView, OrZero
<1>3. CASE asked.op = "reserve"
  <2>1. asked.quantity \in Int
    BY <1>3 DEF RequestType
  <2>2. chosen \in ReservePlans(view, asked.quantity)
    BY <1>3 DEF Plans
  <2> QED
    BY <2>1, <2>2 DEF ReservePlans, PlanIf, PlanType, LedgerView, OrZero
<1>4. CASE asked.op = "upsert"
  <2>1. /\ asked.channel \in Channel
        /\ asked.mode \in Mode
        /\ asked.quantityAllocated \in Int \cup {Null}
        /\ asked.maxQuantity \in Int \cup {Null}
    BY <1>4 DEF RequestType
  <2>2. chosen \in UpsertPlans(view, asked)
    BY <1>4 DEF Plans
  <2>3. RowId(view, asked.channel) \in Nat \cup {Null}
    BY <2>1 DEF RowId, LedgerView, AllocationView
  <2> QED
    BY <2>1, <2>2, <2>3 DEF UpsertPlans, PlanIf, PlanType, LedgerView, AllocationView, OrZero
<1>5. CASE asked.op = "remove"
  <2>1. asked.channel \in Channel
    BY <1>5 DEF RequestType
  <2>2. chosen \in RemovePlans(view, asked.channel)
    BY <1>5 DEF Plans
  <2> QED
    BY <2>1, <2>2 DEF RemovePlans, PlanIf, PlanType, LedgerView, OrZero
<1>6. CASE asked.op = "sale"
  <2>1. asked.channel \in Channel /\ asked.quantity \in Int
    BY <1>6 DEF RequestType
  <2>2. chosen \in SalePlans(view, asked, known)
    BY <1>6 DEF Plans
  <2>3. PICK rank \in RowRank :
            LET next == LedgerAfterSale(view, asked.channel, asked.quantity, rank)
            IN  chosen = [next |-> next,
                        movement |-> next.quantityOnHand - view.quantityOnHand]
    BY <2>2 DEF SalePlans, PlanIf
  <2>4. LedgerAfterSale(view, asked.channel, asked.quantity, rank) \in LedgerView
    BY <2>1, AfterSaleType
  <2> QED
    BY <2>3, <2>4, NullAssumption DEF PlanType, LedgerView, OrZero
<1> QED
  BY <1>1, <1>2, <1>3, <1>4, <1>5, <1>6 DEF RequestType

\* Only an upsert proposes a row without an id, and it always proposes a row.
LEMMA PlansRows ==
    ASSUME NEW view \in LedgerView, RowsHaveIds(view),
           NEW asked \in RequestType, NEW known,
           NEW chosen \in Plans(view, asked, known)
    PROVE  IF asked.op = "upsert"
           THEN /\ asked.channel \in Channel
                /\ chosen.next.allocations[asked.channel] \in AllocationView
                /\ \A c \in Allocated(chosen.next) \ {asked.channel} :
                        chosen.next.allocations[c].id \in Nat
           ELSE RowsHaveIds(chosen.next)
<1>1. CASE asked.op \in {"adjust", "intake"}
  BY <1>1 DEF Plans, AdjustPlans, PlanIf, LedgerView, RowsHaveIds, Allocated
<1>2. CASE asked.op = "count"
  BY <1>2 DEF Plans, CountPlans, PlanIf, LedgerView, RowsHaveIds, Allocated
<1>3. CASE asked.op = "reserve"
  BY <1>3 DEF Plans, ReservePlans, PlanIf, LedgerView, RowsHaveIds, Allocated
<1>4. CASE asked.op = "upsert"
  <2>1. /\ asked.channel \in Channel
        /\ asked.mode \in Mode
        /\ asked.quantityAllocated \in Int \cup {Null}
        /\ asked.maxQuantity \in Int \cup {Null}
    BY <1>4 DEF RequestType
  <2>2. chosen \in UpsertPlans(view, asked)
    BY <1>4 DEF Plans
  <2>3. RowId(view, asked.channel) \in Nat \cup {Null}
    BY <2>1 DEF RowId, LedgerView, AllocationView
  <2>4. \A c \in Channel \ {asked.channel} :
            chosen.next.allocations[c] = view.allocations[c]
    BY <2>1, <2>2 DEF UpsertPlans, PlanIf, LedgerView
  <2>5. chosen.next.allocations[asked.channel] \in AllocationView
    BY <2>1, <2>2, <2>3 DEF UpsertPlans, PlanIf, LedgerView, AllocationView
  <2> QED
    BY <1>4, <2>1, <2>4, <2>5 DEF RowsHaveIds, Allocated
<1>5. CASE asked.op = "remove"
  <2>1. chosen \in RemovePlans(view, asked.channel)
    BY <1>5 DEF Plans
  <2>2. \A c \in Channel : chosen.next.allocations[c] \in {view.allocations[c], Null}
    BY <2>1 DEF RemovePlans, PlanIf, LedgerView
  <2> QED
    BY <1>5, <2>2 DEF RowsHaveIds, Allocated
<1>6. CASE asked.op = "sale"
  <2>1. asked.channel \in Channel /\ asked.quantity \in Int
    BY <1>6 DEF RequestType
  <2>2. chosen \in SalePlans(view, asked, known)
    BY <1>6 DEF Plans
  <2>3. PICK rank \in RowRank :
            chosen.next = LedgerAfterSale(view, asked.channel, asked.quantity, rank)
    BY <2>2 DEF SalePlans, PlanIf
  <2>4. ASSUME NEW c \in Allocated(chosen.next)
        PROVE  chosen.next.allocations[c].id \in Nat
    <3>1. c \in Channel
      BY DEF Allocated
    <3>2. RowId(chosen.next, c) = RowId(view, c) /\ c \in Allocated(view)
      BY <2>1, <2>3, <3>1, AfterSaleRows
    <3> QED
      BY <3>2 DEF RowsHaveIds, RowId, Allocated
  <2> QED
    BY <1>6, <2>4 DEF RowsHaveIds
<1> QED
  BY <1>1, <1>2, <1>3, <1>4, <1>5, <1>6 DEF RequestType

\* What the transaction stores for an accepted plan keeps the rules, gives every row an
\* id and has the on-hand of the plan.
THEOREM StoredKeepsRules ==
    ASSUME NEW view \in LedgerView, RowsHaveIds(view),
           NEW asked \in RequestType, NEW known, NEW freshId \in Nat,
           NEW chosen \in Plans(view, asked, known), IsLedgerValid(chosen.next)
    PROVE  LET stored == Stored(chosen.next, asked, freshId)
           IN  /\ stored \in LedgerView
               /\ stored.quantityOnHand = chosen.next.quantityOnHand
               /\ RowsHaveIds(stored)
               /\ IsLedgerValid(stored)
<1>1. chosen.next \in LedgerView
  BY PlansType DEF PlanType
<1>2. CASE asked.op # "upsert"
  BY <1>1, <1>2, PlansRows DEF Stored
<1>3. CASE asked.op = "upsert"
  <2> DEFINE c == asked.channel
             row == chosen.next.allocations[c]
             new == StoredRow(row, freshId)
             stored == Stored(chosen.next, asked, freshId)
  <2>1. c \in Channel /\ row \in AllocationView
    BY <1>3, PlansRows
  <2>2. \A d \in Allocated(chosen.next) \ {c} : chosen.next.allocations[d].id \in Nat
    BY <1>3, PlansRows
  <2>3. new \in AllocationView /\ new.id \in Nat /\ new.mode = row.mode
    BY <2>1, NullAssumption DEF StoredRow, AllocationView, OrZero
  <2>4. RowIssues(row) = {}
    BY <1>1, <2>1, NullAssumption DEF IsLedgerValid, ValidateLedger, Allocated
  <2>5. RowIssues(new) = {} /\ OrZero(new.quantityAllocated) = OrZero(row.quantityAllocated)
    BY <2>1, <2>4, NullAssumption DEF RowIssues, When, StoredRow, AllocationView, OrZero, Mode
  <2>6. /\ stored.quantityOnHand = chosen.next.quantityOnHand
        /\ stored.reserveQuantity = chosen.next.reserveQuantity
        /\ stored.allocations = [chosen.next.allocations EXCEPT ![c] = new]
        /\ stored \in LedgerView
    BY <1>1, <1>3, <2>1, <2>3 DEF Stored, LedgerView
  <2> HIDE DEF new, row, stored
  <2>7. /\ stored.allocations[c] = new
        /\ \A d \in Channel \ {c} : stored.allocations[d] = chosen.next.allocations[d]
    BY <1>1, <2>1, <2>6 DEF LedgerView
  <2>8. Allocated(stored) = Allocated(chosen.next)
    BY <2>1, <2>3, <2>7, NullAssumption DEF Allocated, row
  <2>9. RowsHaveIds(stored)
    BY <2>2, <2>3, <2>7, <2>8 DEF RowsHaveIds, Allocated
  <2>10. Partition(stored) = Partition(chosen.next)
    BY <2>3, <2>5, <2>7, <2>8 DEF Partition, Fixed, Allocated, row
  <2>11. IsLedgerValid(stored)
    <3>1. \A d \in Allocated(stored) : RowIssues(stored.allocations[d]) = {}
      BY <2>5, <2>7, <2>8 DEF IsLedgerValid, ValidateLedger, Allocated
    <3>2. SumFixedPartitions(stored) = SumFixedPartitions(chosen.next)
      BY <2>10 DEF SumFixedPartitions
    <3> QED
      BY <2>6, <3>1, <3>2 DEF IsLedgerValid, ValidateLedger, When
  <2> QED
    BY <2>6, <2>9, <2>11 DEF stored
<1> QED
  BY <1>2, <1>3

\* A mutation keeps the id of a row, removes the row, or gives a new row the fresh id.
LEMMA StoredIds ==
    ASSUME NEW view \in LedgerView, RowsHaveIds(view),
           NEW asked \in RequestType, NEW known, NEW freshId \in Nat,
           NEW chosen \in Plans(view, asked, known), NEW c \in Channel
    PROVE  LET stored == Stored(chosen.next, asked, freshId)
           IN  \/ RowId(stored, c) \in {RowId(view, c), Null}
               \/ /\ asked.op = "upsert" /\ c = asked.channel
                  /\ RowId(view, c) = Null /\ RowId(stored, c) = freshId
<1>1. CASE asked.op \in {"adjust", "intake"}
  BY <1>1 DEF Plans, AdjustPlans, PlanIf, LedgerView, RowId, Stored
<1>2. CASE asked.op = "count"
  BY <1>2 DEF Plans, CountPlans, PlanIf, LedgerView, RowId, Stored
<1>3. CASE asked.op = "reserve"
  BY <1>3 DEF Plans, ReservePlans, PlanIf, LedgerView, RowId, Stored
<1>4. CASE asked.op = "upsert"
  <2> DEFINE row == [id |-> RowId(view, asked.channel),
                     mode |-> asked.mode,
                     quantityAllocated |-> asked.quantityAllocated,
                     maxQuantity |-> asked.maxQuantity]
             new == StoredRow(row, freshId)
  <2>1. /\ chosen \in UpsertPlans(view, asked)
        /\ asked.channel \in Channel
    BY <1>4 DEF Plans, RequestType
  <2>2. chosen.next = [view EXCEPT !.allocations[asked.channel] = row]
    BY <2>1 DEF UpsertPlans, PlanIf
  <2>3. chosen.next.allocations = [view.allocations EXCEPT ![asked.channel] = row]
    BY <2>2 DEF LedgerView
  <2>4. /\ Stored(chosen.next, asked, freshId).allocations[asked.channel] = new
        /\ c # asked.channel =>
              Stored(chosen.next, asked, freshId).allocations[c] = view.allocations[c]
    <3>1. view.allocations \in [Channel -> AllocationView \cup {Null}]
      BY DEF LedgerView
    <3>2. Stored(chosen.next, asked, freshId).allocations
            = [chosen.next.allocations EXCEPT ![asked.channel] = StoredRow(@, freshId)]
      BY <1>4, <2>2 DEF Stored, LedgerView
    <3> HIDE DEF row
    <3> QED
      BY <2>1, <2>3, <3>1, <3>2
  <2>5. /\ new.id = IF RowId(view, asked.channel) = Null
                    THEN freshId ELSE RowId(view, asked.channel)
        /\ new \in [id: Nat, mode: Mode, quantityAllocated: Int \cup {Null},
                     maxQuantity: Int \cup {Null}]
    <3>1. RowId(view, asked.channel) \in Nat \cup {Null}
      BY <2>1 DEF RowId, LedgerView, AllocationView
    <3> QED
      BY <1>4, <3>1, NullAssumption DEF StoredRow, RequestType, OrZero, Mode
  <2>6. new # Null
    BY <2>5, NullAssumption DEF AllocationView
  <2> HIDE DEF new
  <2> QED
    BY <1>4, <2>4, <2>5, <2>6 DEF RowId
<1>5. CASE asked.op = "remove"
  <2>1. chosen \in RemovePlans(view, asked.channel)
    BY <1>5 DEF Plans
  <2>2. chosen.next.allocations[c] \in {view.allocations[c], Null}
    BY <2>1 DEF RemovePlans, PlanIf, LedgerView
  <2> QED
    BY <1>5, <2>2 DEF RowId, Stored
<1>6. CASE asked.op = "sale"
  <2>1. asked.channel \in Channel /\ asked.quantity \in Int
    BY <1>6 DEF RequestType
  <2>2. chosen \in SalePlans(view, asked, known)
    BY <1>6 DEF Plans
  <2>3. PICK rank \in RowRank :
            chosen.next = LedgerAfterSale(view, asked.channel, asked.quantity, rank)
    BY <2>2 DEF SalePlans, PlanIf
  <2> QED
    BY <1>6, <2>1, <2>3, AfterSaleRows DEF Stored
<1> QED
  BY <1>1, <1>2, <1>3, <1>4, <1>5, <1>6 DEF RequestType

-------------------------------------------------------------------------------
(* The inductive invariant *)

USE DEF database, local, history, vars

LEMMA InitIInv == Init => IInv
<1> SUFFICES ASSUME Init PROVE IInv
  OBVIOUS
<1>1. Cardinality(Channel) \in Nat
  BY ChannelAssumption, FS_CardinalityType
<1>2. ledger \in LedgerView \cup {Null}
  BY AtRestAssumption DEF Init
<1>3. ledger # Null => IsLedgerValid(ledger) /\ RowsHaveIds(ledger)
  BY <1>1, AtRestAssumption DEF Init, RowsHaveIds
<1>4. announced \in [Channel -> Int]
  BY <1>2, DesiredType DEF Init
<1>5. TypeOK
  BY <1>1, <1>2, <1>4, MaxAttemptsAssumption, NullAssumption
     DEF Init, TypeOK, Idle, FirstId, LedgerView
<1>6. CallsHaveRequests /\ CallsHaveItem /\ PlansAreCurrent
  BY DEF Init, CallsHaveRequests, CallsHaveItem, PlansAreCurrent, Running
<1>7. LedgerKeepsRules /\ OnHandAccounted /\ (ledger = Null => moved + unrecorded = 0)
  BY <1>2, <1>3 DEF Init, LedgerKeepsRules, OnHandAccounted, LedgerView
<1> QED
  BY <1>3, <1>5, <1>6, <1>7 DEF IInv

\* A call that ends without touching the database disturbs nothing.
LEMMA ReturnIInv ==
    ASSUME IInv, NEW p \in Call, NEW outcome \in Idle, Return(p, outcome),
           UNCHANGED <<database, started, startVersion, unrecorded, announced>>,
           missed' \subseteq Nat
    PROVE  IInv'
<1>1. TypeOK'
  BY MaxAttemptsAssumption DEF IInv, TypeOK, Return, Goto
<1>2. CallsHaveRequests' /\ CallsHaveItem' /\ PlansAreCurrent'
  BY DEF IInv, TypeOK, CallsHaveRequests, CallsHaveItem, PlansAreCurrent, Return, Goto,
         Running, Idle
<1> QED
  BY <1>1, <1>2 DEF IInv, LedgerKeepsRules, OnHandAccounted

LEMMA RequestsTyped == \A r \in Request : r \in RequestType
BY RequestAssumption

LEMMA StartIInv ==
    ASSUME IInv, NEW p \in Call, NEW r \in Request, Start(p, r)
    PROVE  IInv'
<1>1. RowId(ledger, r.channel) \in Nat \cup {Null} \/ r.op # "sale"
  BY RequestsTyped DEF Start, IInv, TypeOK, RowsHaveIds, RowId, RequestType, Allocated
<1>2. TypeOK'
  BY <1>1, MaxAttemptsAssumption DEF IInv, TypeOK, Start, Goto, Running
<1>3. CallsHaveRequests'
  BY DEF IInv, TypeOK, CallsHaveRequests, Start, Goto, Running
<1>4. CallsHaveItem' /\ PlansAreCurrent'
  BY DEF IInv, TypeOK, CallsHaveItem, PlansAreCurrent, Start, Goto, Running
<1> QED
  BY <1>2, <1>3, <1>4 DEF IInv, Start, LedgerKeepsRules, OnHandAccounted

LEMMA IntakeLookupIInv ==
    ASSUME IInv, NEW p \in Call, IntakeLookup(p)
    PROVE  IInv'
<1>1. TypeOK'
  BY DEF IInv, TypeOK, IntakeLookup, Goto, Running
<1>2. CallsHaveRequests' /\ CallsHaveItem' /\ PlansAreCurrent'
  BY DEF IInv, TypeOK, CallsHaveRequests, CallsHaveItem, PlansAreCurrent, IntakeLookup,
         Goto, Running
<1> QED
  BY <1>1, <1>2 DEF IInv, IntakeLookup, LedgerKeepsRules, OnHandAccounted

\* The first item is as large as the intake that creates it, and no plan is based on an
\* item that was not there.
LEMMA CreateItemIInv ==
    ASSUME IInv, NEW p \in Call, CreateItem(p)
    PROVE  IInv'
<1> DEFINE n == request[p].quantity
<1>1. request[p] \in Request /\ request[p].op = "intake" /\ n \in Nat
  BY RequestAssumption DEF IInv, CallsHaveRequests, CreateItem, Running, RequestType
<1>2. CASE ledger = Null
  <2>1. /\ ledger' = NewLedger(n)
        /\ unrecorded' = unrecorded + n
        /\ pc' = [pc EXCEPT ![p] = "recording"]
        /\ UNCHANGED <<version, nextId, moved, local, started, startVersion, announced, missed>>
    BY <1>2 DEF CreateItem, Goto
  <2>2. ledger' \in LedgerView /\ ledger' # Null
    BY <1>1, <2>1, NullAssumption DEF NewLedger, LedgerView
  <2>3. Allocated(ledger') = {} /\ Partition(ledger') = [c \in Channel |-> 0]
    BY <2>1 DEF NewLedger, Allocated, Partition, Fixed
  <2>4. SumFixedPartitions(ledger') = 0
    <3>1. \A c \in Channel : [d \in Channel |-> 0][c] = 0
      OBVIOUS
    <3> QED
      BY <2>3, <3>1, SumOfZeros, ChannelAssumption DEF SumFixedPartitions
  <2>5. IsLedgerValid(ledger')
    BY <1>1, <2>1, <2>3, <2>4 DEF IsLedgerValid, ValidateLedger, When, NewLedger
  <2>6. ledger'.quantityOnHand = moved' + unrecorded'
    <3>1. ledger'.quantityOnHand = n
      BY <2>1 DEF NewLedger
    <3>2. moved \in Int /\ unrecorded \in Int /\ moved + unrecorded = 0
      BY <1>2 DEF IInv, TypeOK
    <3>3. moved' = moved /\ unrecorded' = unrecorded + n
      BY <2>1
    <3> HIDE DEF n
    <3> QED
      BY <1>1, <3>1, <3>2, <3>3
  <2>7. TypeOK'
    BY <1>1, <2>1, <2>2 DEF IInv, TypeOK, Running
  <2>8. \A q \in Call : pc[q] \notin {"planned", "committed", "queueing"}
    BY <1>2 DEF IInv, CallsHaveItem
  <2>9. CallsHaveRequests' /\ CallsHaveItem' /\ PlansAreCurrent'
    BY <1>1, <2>1, <2>8
       DEF IInv, TypeOK, CallsHaveRequests, CallsHaveItem, PlansAreCurrent, Running
  <2> QED
    BY <2>2, <2>3, <2>5, <2>6, <2>7, <2>9 DEF IInv, LedgerKeepsRules, OnHandAccounted, RowsHaveIds
<1>3. CASE ledger # Null
  <2>1. Return(p, "refused") /\ UNCHANGED <<database, history>>
    BY <1>3 DEF CreateItem
  <2>2. missed' \subseteq Nat /\ "refused" \in Idle
    BY <2>1 DEF IInv, TypeOK, Idle
  <2> QED
    BY <2>1, <2>2, ReturnIInv
<1> QED
  BY <1>2, <1>3

LEMMA RecordIntakeIInv ==
    ASSUME IInv, NEW p \in Call, RecordIntake(p)
    PROVE  IInv'
<1>1. request[p] \in Request /\ request[p].quantity \in Int
  BY RequestAssumption DEF IInv, CallsHaveRequests, RecordIntake, Running, RequestType
<1>2. /\ moved' \in Int /\ unrecorded' \in Int
      /\ moved' + unrecorded' = moved + unrecorded
  BY <1>1 DEF IInv, TypeOK, RecordIntake
<1>3. TypeOK'
  BY <1>2, MaxAttemptsAssumption DEF IInv, TypeOK, RecordIntake, Return, Goto, Idle
<1>4. CallsHaveRequests' /\ CallsHaveItem' /\ PlansAreCurrent'
  BY DEF IInv, TypeOK, CallsHaveRequests, CallsHaveItem, PlansAreCurrent, RecordIntake,
         Return, Goto, Running
<1> QED
  BY <1>2, <1>3, <1>4 DEF IInv, RecordIntake, LedgerKeepsRules, OnHandAccounted

LEMMA ReadIInv ==
    ASSUME IInv, NEW p \in Call, Read(p)
    PROVE  IInv'
<1>1. request[p] \in RequestType /\ request[p] \in Request
  BY RequestsTyped DEF IInv, CallsHaveRequests, Read, Running
<1>2. ledger \in LedgerView /\ ledger # Null /\ RowsHaveIds(ledger)
  BY DEF IInv, TypeOK, Read
<1>3. PICK x \in Plans(ledger, request[p], rowId[p]) :
        IsLedgerValid(x.next) /\ plan' = [plan EXCEPT ![p] = x]
  BY DEF Read
<1>4. x \in [next: LedgerView, movement: Int \cup {Null}]
  BY <1>1, <1>2, PlansType DEF PlanType
<1>5. TypeOK'
  BY <1>2, <1>3, <1>4 DEF IInv, TypeOK, Read, Goto, Running
<1>6. CallsHaveRequests' /\ CallsHaveItem'
  BY <1>1, <1>2 DEF IInv, TypeOK, CallsHaveRequests, CallsHaveItem, Read, Goto, Running
<1>7. PlansAreCurrent'
  BY <1>2, <1>3 DEF IInv, TypeOK, PlansAreCurrent, Read, Goto
<1> QED
  BY <1>5, <1>6, <1>7 DEF IInv, Read, LedgerKeepsRules, OnHandAccounted

LEMMA RefuseIInv ==
    ASSUME IInv, NEW p \in Call, Refuse(p)
    PROVE  IInv'
<1>1. "refused" \in Idle /\ missed' \subseteq Nat
  BY DEF Refuse, Idle, IInv, TypeOK
<1> QED
  BY <1>1, ReturnIInv DEF Refuse

\* The heart of the matter: the plan that is stored was made and validated on the ledger
\* the database still holds.
LEMMA CommitFacts ==
    ASSUME IInv, NEW p \in Call, Commit(p)
    PROVE  /\ ledger # Null
           /\ before[p] = ledger
           /\ request[p] \in Request
           /\ plan[p] \in Plans(ledger, request[p], rowId[p])
           /\ IsLedgerValid(plan[p].next)
           /\ ledger' \in LedgerView
           /\ RowsHaveIds(ledger')
           /\ IsLedgerValid(ledger')
           /\ plan[p].movement \in Int \cup {Null}
           /\ ledger'.quantityOnHand = ledger.quantityOnHand + OrZero(plan[p].movement)
<1>1. request[p] \in RequestType /\ request[p] \in Request
  BY RequestsTyped DEF IInv, CallsHaveRequests, Commit, Running
<1>2. ledger \in LedgerView /\ ledger # Null /\ RowsHaveIds(ledger) /\ before[p] = ledger
  BY DEF IInv, TypeOK, Commit, CallsHaveItem, PlansAreCurrent
<1>3. plan[p] \in Plans(ledger, request[p], rowId[p]) /\ IsLedgerValid(plan[p].next)
  BY <1>2 DEF IInv, PlansAreCurrent, Commit
<1>4. nextId \in Nat
  BY DEF IInv, TypeOK
<1>5. ledger' = Stored(plan[p].next, request[p], nextId)
  BY DEF Commit
<1>6. /\ plan[p] \in PlanType
      /\ plan[p].next.quantityOnHand = ledger.quantityOnHand + OrZero(plan[p].movement)
  BY <1>1, <1>2, <1>3, PlansType
<1>7. /\ ledger' \in LedgerView
      /\ ledger'.quantityOnHand = plan[p].next.quantityOnHand
      /\ RowsHaveIds(ledger')
      /\ IsLedgerValid(ledger')
  BY <1>1, <1>2, <1>3, <1>4, <1>5, StoredKeepsRules
<1> QED
  BY <1>1, <1>2, <1>3, <1>6, <1>7 DEF PlanType

LEMMA CommitIInv ==
    ASSUME IInv, NEW p \in Call, Commit(p)
    PROVE  IInv'
<1>1. /\ ledger # Null /\ ledger' \in LedgerView /\ RowsHaveIds(ledger')
      /\ IsLedgerValid(ledger') /\ OrZero(plan[p].movement) \in Int
      /\ ledger'.quantityOnHand = ledger.quantityOnHand + OrZero(plan[p].movement)
  BY CommitFacts DEF OrZero
<1>2. ledger' # Null
  BY <1>1, NullAssumption
<1>3. announced' \in [Channel -> Int] /\ missed' \subseteq Nat
  <2>1. announced \in [Channel -> Int] /\ missed \subseteq Nat
    BY DEF IInv, TypeOK
  <2>2. AnnouncedAfter(ledger') \in [Channel -> Int]
    BY <2>1 DEF AnnouncedAfter
  <2> QED
    BY <2>1, <2>2 DEF Commit
<1>4. moved' \in Int /\ nextId' \in Nat /\ version' = version + 1
  BY <1>1 DEF IInv, TypeOK, Commit
<1>5. TypeOK'
  BY <1>1, <1>3, <1>4 DEF IInv, TypeOK, Commit, Goto, Running
<1>6. CallsHaveRequests' /\ CallsHaveItem'
  BY <1>1, <1>2, <1>4
     DEF IInv, TypeOK, CallsHaveRequests, CallsHaveItem, Commit, Goto, Running
<1>7. PlansAreCurrent'
  \* A plan made on an older version is not current any more: versions only grow.
  <2> SUFFICES ASSUME NEW q \in Call, pc'[q] = "planned"
               PROVE  /\ plan[q] \in Plans(before[q], request[q], rowId[q])
                      /\ IsLedgerValid(plan[q].next)
                      /\ RowsHaveIds(before[q])
                      /\ readVersion[q] # version'
    BY DEF PlansAreCurrent, Commit
  <2>1. q # p /\ pc[q] = "planned"
    BY DEF Commit, Goto, IInv, TypeOK
  <2>2. readVersion[q] \in Nat /\ version \in Nat /\ readVersion[q] <= version
    BY <2>1 DEF IInv, TypeOK, CallsHaveItem
  <2> QED
    BY <1>4, <2>1, <2>2 DEF IInv, PlansAreCurrent
<1>8. OnHandAccounted'
  <2>1. ledger.quantityOnHand = moved + unrecorded
    BY <1>1 DEF IInv, OnHandAccounted
  <2>2. moved \in Int /\ unrecorded \in Int
    BY DEF IInv, TypeOK
  <2>3. moved' = moved + OrZero(plan[p].movement) /\ unrecorded' = unrecorded
    BY DEF Commit
  <2> QED
    BY <1>1, <2>1, <2>2, <2>3 DEF OnHandAccounted
<1> QED
  BY <1>1, <1>2, <1>5, <1>6, <1>7, <1>8 DEF IInv, LedgerKeepsRules

LEMMA RetryOrGiveUpIInv ==
    ASSUME IInv, NEW p \in Call, RetryOrGiveUp(p)
    PROVE  IInv'
<1>1. CASE attempt[p] < MaxAttempts
  <2>1. TypeOK'
    BY <1>1, MaxAttemptsAssumption DEF IInv, TypeOK, RetryOrGiveUp, Goto, Running
  <2>2. CallsHaveRequests' /\ CallsHaveItem' /\ PlansAreCurrent'
    BY <1>1 DEF IInv, TypeOK, CallsHaveRequests, CallsHaveItem, PlansAreCurrent,
                RetryOrGiveUp, Goto, Running
  <2> QED
    BY <1>1, <2>1, <2>2 DEF IInv, RetryOrGiveUp, LedgerKeepsRules, OnHandAccounted
<1>2. CASE ~(attempt[p] < MaxAttempts)
  <2>1. "gaveUp" \in Idle /\ missed' \subseteq Nat
    BY DEF RetryOrGiveUp, Idle, IInv, TypeOK
  <2> QED
    BY <1>2, <2>1, ReturnIInv DEF RetryOrGiveUp
<1> QED
  BY <1>1, <1>2

\* The rows a call owes a push have ids.
LEMMA MovedType ==
    ASSUME IInv, NEW p \in Call, ledger # Null
    PROVE  Moved(p) \subseteq Nat
BY DEF IInv, Moved, RowsHaveIds, RowId, Allocated

LEMMA RereadIInv ==
    ASSUME IInv, NEW p \in Call, Reread(p)
    PROVE  IInv'
<1>1. Moved(p) \subseteq Nat
  BY MovedType DEF IInv, CallsHaveItem, Reread
<1>2. TypeOK'
  BY <1>1 DEF IInv, TypeOK, Reread, Goto, Running
<1>3. CallsHaveRequests' /\ CallsHaveItem' /\ PlansAreCurrent'
  BY DEF IInv, TypeOK, CallsHaveRequests, CallsHaveItem, PlansAreCurrent, Reread, Goto,
         Running
<1> QED
  BY <1>2, <1>3 DEF IInv, Reread, LedgerKeepsRules, OnHandAccounted

LEMMA EnqueueIInv ==
    ASSUME IInv, NEW p \in Call, NEW id \in changes[p], Enqueue(p, id) \/ SkipEnqueue(p, id)
    PROVE  IInv'
<1>1. id \in Nat /\ ledger \in LedgerView
  BY DEF IInv, TypeOK, CallsHaveItem, Enqueue, SkipEnqueue
<1>2. Desired(ledger) \in [Channel -> Nat]
  BY <1>1, DesiredType
<1>3. announced' \in [Channel -> Int] /\ missed' \subseteq Nat /\ changes' \in [Call -> SUBSET Nat]
  <2>1. /\ announced \in [Channel -> Int]
        /\ missed \subseteq Nat
        /\ changes \in [Call -> SUBSET Nat]
    BY DEF IInv, TypeOK
  <2>2. \A c \in Channel : Desired(ledger)[c] \in Int
    BY <1>2
  <2>3. \/ announced' = announced
        \/ announced' = [c \in Channel |-> IF RowId(ledger, c) = id THEN Desired(ledger)[c]
                                                                    ELSE announced[c]]
    BY DEF Enqueue, SkipEnqueue
  <2>4. missed' \subseteq missed \cup {id} /\ changes' = [changes EXCEPT ![p] = @ \ {id}]
    BY DEF Enqueue, SkipEnqueue
  <2> QED
    BY <1>1, <2>1, <2>2, <2>3, <2>4
<1>4. TypeOK'
  BY <1>3 DEF IInv, TypeOK, Enqueue, SkipEnqueue
<1>5. CallsHaveRequests' /\ CallsHaveItem' /\ PlansAreCurrent'
  BY DEF IInv, TypeOK, CallsHaveRequests, CallsHaveItem, PlansAreCurrent, Enqueue, SkipEnqueue
<1> QED
  BY <1>4, <1>5 DEF IInv, Enqueue, SkipEnqueue, LedgerKeepsRules, OnHandAccounted

LEMMA FinishIInv ==
    ASSUME IInv, NEW p \in Call, Finish(p)
    PROVE  IInv'
<1>1. "idle" \in Idle /\ missed' \subseteq Nat
  BY DEF Finish, Idle, IInv, TypeOK
<1> QED
  BY <1>1, ReturnIInv DEF Finish

LEMMA CrashIInv ==
    ASSUME IInv, NEW p \in Call, Crash(p)
    PROVE  IInv'
<1>1. Owed(p) \subseteq Nat
  BY MovedType DEF IInv, TypeOK, CallsHaveItem, Owed
<1>2. "idle" \in Idle /\ missed' \subseteq Nat
  BY <1>1 DEF Crash, Idle, IInv, TypeOK
<1> QED
  BY <1>2, ReturnIInv DEF Crash

LEMMA StutterIInv == ASSUME IInv, UNCHANGED vars PROVE IInv'
BY DEF IInv, TypeOK, CallsHaveRequests, CallsHaveItem, PlansAreCurrent, LedgerKeepsRules,
       OnHandAccounted

THEOREM IInvInvariant == Spec => []IInv
<1>1. Init => IInv
  BY InitIInv
<1>2. IInv /\ [Next]_vars => IInv'
  <2> SUFFICES ASSUME IInv, [Next]_vars
               PROVE  IInv'
    OBVIOUS
  <2>1. CASE UNCHANGED vars
    BY <2>1, StutterIInv
  <2>2. ASSUME NEW p \in Call, NEW r \in Request, Start(p, r)
        PROVE  IInv'
    BY <2>2, StartIInv
  <2>3. ASSUME NEW p \in Call, IntakeLookup(p) \/ CreateItem(p) \/ RecordIntake(p)
        PROVE  IInv'
    BY <2>3, IntakeLookupIInv, CreateItemIInv, RecordIntakeIInv
  <2>4. ASSUME NEW p \in Call, Read(p) \/ Refuse(p) \/ Commit(p) \/ RetryOrGiveUp(p)
        PROVE  IInv'
    BY <2>4, ReadIInv, RefuseIInv, CommitIInv, RetryOrGiveUpIInv
  <2>5. ASSUME NEW p \in Call, Reread(p) \/ Finish(p) \/ Crash(p)
        PROVE  IInv'
    BY <2>5, RereadIInv, FinishIInv, CrashIInv
  <2>6. ASSUME NEW p \in Call, NEW id \in changes[p], Enqueue(p, id) \/ SkipEnqueue(p, id)
        PROVE  IInv'
    BY <2>6, EnqueueIInv
  <2> QED
    BY <2>1, <2>2, <2>3, <2>4, <2>5, <2>6 DEF Next
<1> QED
  BY <1>1, <1>2, PTL DEF Spec

-------------------------------------------------------------------------------

\* Type correctness.
THEOREM TypeCorrect == Spec => []TypeOK
BY IInvInvariant, PTL DEF IInv

\* No committed ledger breaks the rules, however many calls plan at once.
THEOREM RulesKept == Spec => []LedgerKeepsRules
BY IInvInvariant, PTL DEF IInv

\* On-hand is the sum of the movements and of the intakes not recorded yet.
THEOREM OnHandIsAccounted == Spec => []OnHandAccounted
BY IInvInvariant, PTL DEF IInv

-------------------------------------------------------------------------------
(***************************************************************************)
(* The retry budget.                                                       *)
(***************************************************************************)

Budget == AttemptsWereLost /\ GiveUpMeansContention

LEMMA BudgetStep ==
    ASSUME IInv, Budget, [Next]_vars
    PROVE  Budget'
<1>1. /\ version \in Nat /\ MaxAttempts \in Nat
      /\ \A q \in Call : attempt[q] \in Nat /\ startVersion[q] \in Nat /\ readVersion[q] \in Nat
  BY MaxAttemptsAssumption DEF IInv, TypeOK
<1>2. /\ pc \in [Call -> Running \cup Idle] /\ attempt \in [Call -> 0..MaxAttempts]
      /\ startVersion \in [Call -> Nat] /\ readVersion \in [Call -> Nat]
  BY DEF IInv, TypeOK
<1>3. \A q \in Call : pc[q] = "planned" => readVersion[q] <= version
  BY DEF IInv, CallsHaveItem
<1> USE DEF Budget, AttemptsWereLost, GiveUpMeansContention
<1>4. CASE UNCHANGED vars
  BY <1>4
<1>5. ASSUME NEW p \in Call, NEW r \in Request, Start(p, r)
      PROVE  Budget'
  BY <1>1, <1>2, <1>5 DEF Start, Goto, Running
<1>6. ASSUME NEW p \in Call, IntakeLookup(p) \/ CreateItem(p) \/ RecordIntake(p)
      PROVE  Budget'
  <2>1. CASE IntakeLookup(p)
    BY <1>1, <1>2, <2>1 DEF IntakeLookup, Goto, Running
  <2>2. CASE CreateItem(p)
    BY <1>1, <1>2, <2>2 DEF CreateItem, Return, Goto, Running
  <2>3. CASE RecordIntake(p)
    BY <1>1, <1>2, <2>3 DEF RecordIntake, Return, Goto, Running
  <2> QED
    BY <1>6, <2>1, <2>2, <2>3
<1>7. ASSUME NEW p \in Call, Read(p) \/ Refuse(p)
      PROVE  Budget'
  <2>1. CASE Read(p)
    BY <1>1, <1>2, <2>1 DEF Read, Goto, Running
  <2>2. CASE Refuse(p)
    BY <1>1, <1>2, <2>2 DEF Refuse, Return, Goto, Running
  <2> QED
    BY <1>7, <2>1, <2>2
<1>8. ASSUME NEW p \in Call, Commit(p)
      PROVE  Budget'
  BY <1>1, <1>2, <1>3, <1>8 DEF Commit, Goto, Running
\* A call loses an attempt only to a version that is newer than the one it read.
<1>9. ASSUME NEW p \in Call, RetryOrGiveUp(p)
      PROVE  Budget'
  <2>1. startVersion[p] + attempt[p] <= version
    BY <1>1, <1>3, <1>9 DEF RetryOrGiveUp
  <2>2. CASE attempt[p] < MaxAttempts
    BY <1>1, <1>2, <1>9, <2>1, <2>2 DEF RetryOrGiveUp, Goto, Running
  <2>3. CASE ~(attempt[p] < MaxAttempts)
    BY <1>1, <1>2, <1>9, <2>1, <2>3 DEF RetryOrGiveUp, Return, Goto, Running
  <2> QED
    BY <2>2, <2>3
<1>10. ASSUME NEW p \in Call, Reread(p) \/ Finish(p) \/ Crash(p)
       PROVE  Budget'
  <2>1. CASE Reread(p)
    BY <1>1, <1>2, <2>1 DEF Reread, Goto, Running
  <2>2. CASE Finish(p)
    BY <1>1, <1>2, <2>2 DEF Finish, Return, Goto, Running
  <2>3. CASE Crash(p)
    BY <1>1, <1>2, <2>3 DEF Crash, Return, Goto, Running
  <2> QED
    BY <1>10, <2>1, <2>2, <2>3
<1>11. ASSUME NEW p \in Call, NEW id \in changes[p], Enqueue(p, id) \/ SkipEnqueue(p, id)
       PROVE  Budget'
  BY <1>11 DEF Enqueue, SkipEnqueue
<1> QED
  BY <1>4, <1>5, <1>6, <1>7, <1>8, <1>9, <1>10, <1>11 DEF Next

\* A call gives up only when MaxAttempts commits of other calls got in its way.
THEOREM GivesUpOnlyUnderContention == Spec => []GiveUpMeansContention
<1>1. Init => Budget
  BY MaxAttemptsAssumption DEF Init, Budget, AttemptsWereLost, GiveUpMeansContention, Running
<1>2. IInv /\ Budget /\ [Next]_vars => Budget'
  BY BudgetStep
<1>3. Budget => GiveUpMeansContention
  BY DEF Budget
<1> QED
  BY <1>1, <1>2, <1>3, IInvInvariant, PTL DEF Spec

-------------------------------------------------------------------------------
(***************************************************************************)
(* A sale is a fact: what applySale makes of it is always valid.           *)
(***************************************************************************)

\* The inbound worker found a row to sell from, and items are never deleted.
SalesHaveRows ==
    \A p \in Call :
        pc[p] \in Running /\ request[p].op = "sale" => ledger # Null /\ rowId[p] # Null

\* Only a commit and the creation of the item write to the ledger.
LEMMA LedgerWrites ==
    ASSUME [Next]_vars
    PROVE  \/ UNCHANGED <<ledger, nextId>>
           \/ \E p \in Call : Commit(p) \/ CreateItem(p)
BY DEF Next, Start, IntakeLookup, RecordIntake, Read, Refuse, RetryOrGiveUp, Reread, Enqueue,
       SkipEnqueue, Finish, Crash

LEMMA ItemStays ==
    ASSUME IInv, ledger # Null, [Next]_vars
    PROVE  ledger' # Null
<1>1. ASSUME NEW p \in Call, Commit(p) PROVE ledger' # Null
  BY <1>1, CommitFacts, NullAssumption
<1>2. ASSUME NEW p \in Call, CreateItem(p) PROVE ledger' # Null
  BY <1>2 DEF CreateItem
<1> QED  BY <1>1, <1>2, LedgerWrites

LEMMA SalesStep ==
    ASSUME IInv, SalesHaveRows, [Next]_vars
    PROVE  SalesHaveRows'
<1> SUFFICES ASSUME NEW q \in Call, pc'[q] \in Running, request'[q].op = "sale"
             PROVE  ledger' # Null /\ rowId'[q] # Null
  BY DEF SalesHaveRows
<1>1. /\ pc \in [Call -> Running \cup Idle] /\ request \in [Call -> Request \cup {Null}]
      /\ rowId \in [Call -> Nat \cup {Null}]
  BY DEF IInv, TypeOK
<1>2. CASE pc[q] \in Running /\ request'[q] = request[q] /\ rowId'[q] = rowId[q]
  BY <1>2, ItemStays DEF SalesHaveRows
<1>3. ASSUME NEW r \in Request, Start(q, r) PROVE ledger' # Null /\ rowId'[q] # Null
  BY <1>1, <1>3 DEF Start
<1>4. \/ pc[q] \in Running /\ request'[q] = request[q] /\ rowId'[q] = rowId[q]
      \/ \E r \in Request : Start(q, r)
  <2>1. CASE UNCHANGED vars
    BY <2>1 DEF vars, local
  <2>2. ASSUME NEW p \in Call, NEW r \in Request, Start(p, r), p # q
        PROVE  pc[q] \in Running /\ request'[q] = request[q] /\ rowId'[q] = rowId[q]
    BY <1>1, <2>2 DEF Start, Goto
  <2>3. ASSUME NEW p \in Call, IntakeLookup(p) \/ CreateItem(p) \/ RecordIntake(p)
        PROVE  pc[q] \in Running /\ request'[q] = request[q] /\ rowId'[q] = rowId[q]
    BY <1>1, <2>3 DEF IntakeLookup, CreateItem, RecordIntake, Return, Goto, local, Running, Idle
  <2>4. ASSUME NEW p \in Call, Read(p) \/ Refuse(p) \/ Commit(p) \/ RetryOrGiveUp(p)
        PROVE  pc[q] \in Running /\ request'[q] = request[q] /\ rowId'[q] = rowId[q]
    BY <1>1, <2>4 DEF Read, Refuse, Commit, RetryOrGiveUp, Return, Goto, local, Running, Idle
  <2>5. ASSUME NEW p \in Call, Reread(p) \/ Finish(p) \/ Crash(p)
        PROVE  pc[q] \in Running /\ request'[q] = request[q] /\ rowId'[q] = rowId[q]
    BY <1>1, <2>5 DEF Reread, Finish, Crash, Return, Goto, Running, Idle
  <2>6. ASSUME NEW p \in Call, NEW id \in changes[p], Enqueue(p, id) \/ SkipEnqueue(p, id)
        PROVE  pc[q] \in Running /\ request'[q] = request[q] /\ rowId'[q] = rowId[q]
    BY <2>6 DEF Enqueue, SkipEnqueue
  <2> QED  BY <2>1, <2>2, <2>3, <2>4, <2>5, <2>6 DEF Next
<1> QED  BY <1>2, <1>3, <1>4

\* There is an order to trim the rows in.
LEMMA RanksExist == RowRank # {}
<1> DEFINE n == Cardinality(Channel)
<1>1. PICK f \in [1..n -> Channel] : \A c \in Channel : \E k \in 1..n : f[k] = c
  BY FS_CardinalityType, ChannelAssumption DEF ExistsBijection, Bijection, Injection, Surjection
<1> DEFINE rank == [c \in Channel |-> CHOOSE k \in 1..n : f[k] = c]
<1>2. \A c \in Channel : rank[c] \in 1..n /\ f[rank[c]] = c
  BY <1>1
<1>3. rank \in [Channel -> 1..n]
  BY <1>2
<1> HIDE DEF rank
<1> QED  BY <1>2, <1>3 DEF RowRank

LEMMA SaleIsAccepted ==
    ASSUME NEW l \in LedgerView, IsLedgerValid(l), NEW r \in RequestType, r.op = "sale",
           r.quantity > 0, NEW id, id # Null, RowId(l, r.channel) = id
    PROVE  /\ Plans(l, r, id) # {}
           /\ \A x \in Plans(l, r, id) : IsLedgerValid(x.next)
<1>1. r.channel \in Channel /\ r.quantity \in Nat
  BY DEF RequestType
<1>2. Plans(l, r, id) = SalePlans(l, r, id)
  BY DEF Plans
<1>3. ASSUME NEW x \in SalePlans(l, r, id) PROVE IsLedgerValid(x.next)
  <2>1. PICK rank \in RowRank : x.next = LedgerAfterSale(l, r.channel, r.quantity, rank)
    BY DEF SalePlans, PlanIf
  <2> QED  BY <1>1, <2>1, SaleKeepsRules
<1>4. SalePlans(l, r, id) # {}
  <2>1. PICK rank \in RowRank : TRUE
    BY RanksExist
  <2> DEFINE next == LedgerAfterSale(l, r.channel, r.quantity, rank)
  <2>2. [next |-> next, movement |-> next.quantityOnHand - l.quantityOnHand]
            \in SalePlans(l, r, id)
    BY DEF SalePlans, PlanIf
  <2> QED  BY <2>2
<1> QED  BY <1>2, <1>3, <1>4

\* The only sale that is refused is one whose row was removed after the worker found it:
\* what is sold beyond the shelf, the reserve or a partition is taken and reported instead.
THEOREM SalesAreNeverRefused == Spec => SaleNeverRefused
<1> DEFINE Refused ==
      \A p \in Call :
        (request[p] # Null /\ request[p].op = "sale" /\ pc[p] = "reading"
            /\ pc'[p] = "refused") => RowId(ledger, request[p].channel) # rowId[p]
<1>1. Init => SalesHaveRows
  BY DEF Init, SalesHaveRows, Running
<1>2. IInv /\ SalesHaveRows /\ [Next]_vars => SalesHaveRows'
  BY SalesStep
<1>3. IInv /\ SalesHaveRows /\ [Next]_vars => [Refused]_vars
  <2> SUFFICES ASSUME IInv, SalesHaveRows, Next, NEW p \in Call, request[p].op = "sale",
                      pc[p] = "reading", pc'[p] = "refused"
               PROVE  RowId(ledger, request[p].channel) # rowId[p]
    OBVIOUS
  <2>1. /\ pc \in [Call -> Running \cup Idle] /\ request[p] \in Request
        /\ ledger \in LedgerView /\ IsLedgerValid(ledger) /\ rowId[p] # Null
    BY DEF IInv, TypeOK, CallsHaveRequests, Running, SalesHaveRows, LedgerKeepsRules
  <2>2. Refuse(p)
    <3>1. ASSUME NEW q \in Call, q # p, pc'[p] # pc[p],
                 \/ \E r \in Request : Start(q, r)
                 \/ IntakeLookup(q) \/ CreateItem(q) \/ RecordIntake(q)
                 \/ Read(q) \/ Refuse(q) \/ Commit(q) \/ RetryOrGiveUp(q)
                 \/ Reread(q) \/ Finish(q) \/ Crash(q)
                 \/ \E id \in changes[q] : Enqueue(q, id) \/ SkipEnqueue(q, id)
          PROVE  FALSE
      BY <2>1, <3>1 DEF Start, IntakeLookup, CreateItem, RecordIntake, Read, Refuse, Commit,
         RetryOrGiveUp, Reread, Finish, Crash, Enqueue, SkipEnqueue, Return, Goto
    <3>2. ASSUME \/ \E r \in Request : Start(p, r)
                 \/ IntakeLookup(p) \/ CreateItem(p) \/ RecordIntake(p)
                 \/ Read(p) \/ Commit(p) \/ RetryOrGiveUp(p)
                 \/ Reread(p) \/ Finish(p) \/ Crash(p)
                 \/ \E id \in changes[p] : Enqueue(p, id) \/ SkipEnqueue(p, id)
          PROVE  FALSE
      BY <2>1, <3>2 DEF Start, IntakeLookup, CreateItem, RecordIntake, Read, Commit,
         RetryOrGiveUp, Reread, Finish, Crash, Enqueue, SkipEnqueue, Return, Goto, Running
    <3> QED  BY <3>1, <3>2 DEF Next
  <2>3. request[p] \in RequestType /\ request[p].quantity > 0
    BY <2>1, RequestAssumption
  <2> QED  BY <2>1, <2>2, <2>3, SaleIsAccepted DEF Refuse, SalesHaveRows, Running
<1> QED  BY <1>1, <1>2, <1>3, IInvInvariant, PTL DEF Spec, SaleNeverRefused

-------------------------------------------------------------------------------
(***************************************************************************)
(* The fan-out: the last commit that moved what a channel should advertise *)
(* owes that channel a push, because it committed on the ledger it read.   *)
(***************************************************************************)

LEMMA IdsStep ==
    ASSUME IInv, IdsAreUnique, [Next]_vars
    PROVE  IdsAreUnique'
<1>1. CASE UNCHANGED <<ledger, nextId>>
  BY <1>1 DEF IdsAreUnique
<1>2. ASSUME NEW p \in Call, CreateItem(p)
      PROVE  IdsAreUnique'
  <2>1. CASE ledger = Null
    BY <1>2, <2>1 DEF CreateItem, IdsAreUnique, NewLedger, Allocated
  <2>2. CASE ledger # Null
    BY <1>2, <2>2 DEF CreateItem, IdsAreUnique
  <2> QED
    BY <2>1, <2>2
<1>3. ASSUME NEW p \in Call, Commit(p)
      PROVE  IdsAreUnique'
  <2>1. /\ ledger # Null /\ ledger \in LedgerView /\ RowsHaveIds(ledger)
        /\ request[p] \in RequestType /\ nextId \in Nat /\ RowsHaveIds(ledger')
        /\ plan[p] \in Plans(ledger, request[p], rowId[p])
        /\ ledger' = Stored(plan[p].next, request[p], nextId)
        /\ nextId' = IF request[p].op = "upsert" /\ RowId(ledger, request[p].channel) = Null
                     THEN nextId + 1 ELSE nextId
    BY <1>3, CommitFacts, RequestsTyped DEF Commit, IInv, TypeOK
  <2>2. \A c \in Channel :
            \/ RowId(ledger', c) \in {RowId(ledger, c), Null}
            \/ /\ request[p].op = "upsert" /\ c = request[p].channel
               /\ RowId(ledger, c) = Null /\ RowId(ledger', c) = nextId
    BY <2>1, StoredIds
  <2>3. \A c \in Channel :
            RowId(ledger, c) # Null => /\ c \in Allocated(ledger) /\ RowId(ledger, c) \in Nat
                                      /\ RowId(ledger, c) < nextId
    BY <2>1 DEF RowId, Allocated, RowsHaveIds, IdsAreUnique
  <2>4. \A c \in Allocated(ledger') :
            c \in Channel /\ RowId(ledger', c) # Null /\ RowId(ledger', c) \in Nat
    BY <2>1, NullAssumption DEF RowId, Allocated, RowsHaveIds
  <2>5. \A c, d \in Channel :
            RowId(ledger, c) # Null /\ RowId(ledger, c) = RowId(ledger, d) => d = c
    BY <2>1, <2>3 DEF IdsAreUnique
  <2>6. nextId' \in Nat /\ nextId <= nextId'
    BY <2>1
  <2>7. ASSUME NEW c \in Allocated(ledger')
        PROVE  RowId(ledger', c) < nextId'
    BY <2>1, <2>2, <2>3, <2>4, <2>6, <2>7
  <2>8. ASSUME NEW c \in Allocated(ledger'), NEW d \in Allocated(ledger'),
               RowId(ledger', d) = RowId(ledger', c)
        PROVE  d = c
    BY <2>1, <2>2, <2>3, <2>4, <2>5, <2>8
  <2> QED
    BY <2>7, <2>8 DEF IdsAreUnique
<1> QED
  BY <1>1, <1>2, <1>3, LedgerWrites

LEMMA OwedUnchanged ==
    ASSUME NEW q \in Call, pc'[q] = pc[q], before'[q] = before[q], changes'[q] = changes[q],
           ledger' = ledger
    PROVE  Owed(q)' = Owed(q)
BY DEF Owed, Moved, ListedBefore

\* A step that keeps the ledger and hands every debt on keeps the explanation.
LEMMA DebtsHandedOn ==
    ASSUME FanOutExplained, ledger' = ledger, announced' = announced, missed \subseteq missed',
           \A q \in Call : Owed(q) \subseteq Owed(q)' \cup missed'
    PROVE  FanOutExplained'
BY DEF FanOutExplained

LEMMA CommitFanOut ==
    ASSUME IInv, IdsAreUnique, FanOutExplained, NEW p \in Call, Commit(p)
    PROVE  FanOutExplained'
<1>1. /\ ledger # Null /\ before[p] = ledger /\ RowsHaveIds(ledger) /\ RowsHaveIds(ledger')
      /\ pc' = [pc EXCEPT ![p] = "committed"] /\ pc \in [Call -> Running \cup Idle]
      /\ before' = before /\ changes' = changes
      /\ announced' = AnnouncedAfter(ledger')
      /\ missed' = missed \cap {RowId(ledger', c) : c \in Channel}
  BY CommitFacts DEF Commit, Goto, IInv, TypeOK
<1>2. SUFFICES ASSUME NEW c \in Allocated(ledger'),
                      announced'[c] # Desired(ledger')[c]
               PROVE  \/ RowId(ledger', c) \in missed'
                      \/ \E q \in Call : RowId(ledger', c) \in Owed(q)'
  BY DEF FanOutExplained
<1>3. c \in Channel /\ RowId(ledger', c) # Null
  BY <1>1, NullAssumption DEF Allocated, RowsHaveIds, RowId
<1>4. Owed(p)' = {RowId(ledger', d) :
                    d \in {e \in Allocated(ledger') :
                            (IF RowId(ledger, e) = RowId(ledger', e)
                             THEN Desired(ledger)[e] ELSE 0) # Desired(ledger')[e]}}
  BY <1>1 DEF Owed, Moved, ListedBefore
<1>5. CASE RowId(ledger, c) # RowId(ledger', c)
  <2>1. announced'[c] = 0
    BY <1>1, <1>3, <1>5 DEF AnnouncedAfter
  <2> QED
    BY <1>2, <1>4, <1>5, <2>1
<1>6. CASE RowId(ledger, c) = RowId(ledger', c) /\ Desired(ledger)[c] # Desired(ledger')[c]
  BY <1>4, <1>6
<1>7. CASE RowId(ledger, c) = RowId(ledger', c) /\ Desired(ledger)[c] = Desired(ledger')[c]
  <2>1. c \in Allocated(ledger)
    BY <1>3, <1>7 DEF RowId, Allocated
  <2>2. announced'[c] = announced[c]
    BY <1>1, <1>3, <1>7 DEF AnnouncedAfter
  <2>3. \/ RowId(ledger, c) \in missed
        \/ \E q \in Call : RowId(ledger, c) \in Owed(q)
    BY <1>1, <1>2, <1>7, <2>1, <2>2 DEF FanOutExplained
  <2>4. CASE RowId(ledger, c) \in missed
    BY <1>1, <1>3, <1>7, <2>4
  <2>5. ASSUME NEW q \in Call, RowId(ledger, c) \in Owed(q)
        PROVE  RowId(ledger', c) \in Owed(q)'
    <3>1. q # p /\ pc'[q] = pc[q]
      BY <1>1, <2>5 DEF Owed, Commit
    <3>2. CASE pc[q] = "queueing"
      BY <1>1, <1>7, <2>5, <3>1, <3>2 DEF Owed
    <3>3. CASE pc[q] = "committed"
      <4>1. PICK d \in Allocated(ledger) :
                /\ RowId(ledger, c) = RowId(ledger, d)
                /\ ListedBefore(q, d) # Desired(ledger)[d]
        BY <2>5, <3>3 DEF Owed, Moved
      \* Ids are unique, so the debt is to c, and it is there after the commit.
      <4>2. d = c
        BY <1>1, <2>1, <4>1 DEF IdsAreUnique
      <4>3. ListedBefore(q, c)' = ListedBefore(q, c)
        BY <1>1, <1>7 DEF ListedBefore
      <4>4. RowId(ledger', c) \in Moved(q)'
        BY <1>2, <1>7, <4>1, <4>2, <4>3 DEF Moved
      <4> QED
        BY <3>1, <3>3, <4>4 DEF Owed
    <3> QED
      BY <2>5, <3>2, <3>3 DEF Owed
  <2> QED
    BY <2>3, <2>4, <2>5
<1> QED
  BY <1>5, <1>6, <1>7
\* A step of a call that owes nothing.
LEMMA NoDebtFanOut ==
    ASSUME FanOutExplained, NEW p \in Call, Owed(p) = {},
           UNCHANGED <<ledger, announced, missed>>,
           \A q \in Call \ {p} : UNCHANGED <<pc[q], before[q], changes[q]>>
    PROVE  FanOutExplained'
<1>1. \A q \in Call : Owed(q) \subseteq Owed(q)'
  BY OwedUnchanged
<1> QED
  BY <1>1, DebtsHandedOn

LEMMA EnqueueFanOut ==
    ASSUME IInv, FanOutExplained, NEW p \in Call, NEW id \in changes[p], Enqueue(p, id)
    PROVE  FanOutExplained'
<1>1. /\ pc[p] = "queueing" /\ pc' = pc /\ before' = before /\ ledger' = ledger
      /\ changes' = [changes EXCEPT ![p] = @ \ {id}] /\ changes \in [Call -> SUBSET Nat]
      /\ missed' = missed \ {id} /\ ledger # Null
      /\ announced' = [c \in Channel |-> IF RowId(ledger, c) = id THEN Desired(ledger)[c]
                                                                   ELSE announced[c]]
  BY DEF Enqueue, IInv, TypeOK, CallsHaveItem
<1>2. SUFFICES ASSUME NEW c \in Allocated(ledger), announced'[c] # Desired(ledger)[c]
               PROVE  \/ RowId(ledger, c) \in missed'
                      \/ \E q \in Call : RowId(ledger, c) \in Owed(q)'
  BY <1>1 DEF FanOutExplained
<1>3. RowId(ledger, c) # id /\ announced'[c] = announced[c]
  BY <1>1, <1>2 DEF Allocated
<1>4. \/ RowId(ledger, c) \in missed
      \/ \E q \in Call : RowId(ledger, c) \in Owed(q)
  BY <1>1, <1>2, <1>3 DEF FanOutExplained
<1>5. ASSUME NEW q \in Call, RowId(ledger, c) \in Owed(q)
      PROVE  RowId(ledger, c) \in Owed(q)'
  <2>1. CASE q = p
    BY <1>1, <1>3, <1>5, <2>1 DEF Owed
  <2>2. CASE q # p
    <3>1. Owed(q)' = Owed(q)
      BY <1>1, <2>2, OwedUnchanged
    <3> QED
      BY <1>5, <3>1
  <2> QED
    BY <2>1, <2>2
<1> QED
  BY <1>1, <1>3, <1>4, <1>5

LEMMA SkipEnqueueFanOut ==
    ASSUME IInv, FanOutExplained, NEW p \in Call, NEW id \in changes[p], SkipEnqueue(p, id)
    PROVE  FanOutExplained'
<1>1. /\ pc[p] = "queueing" /\ pc' = pc /\ before' = before /\ UNCHANGED <<ledger, announced>>
      /\ changes' = [changes EXCEPT ![p] = @ \ {id}] /\ changes \in [Call -> SUBSET Nat]
      /\ missed' = missed \cup {id}
  BY DEF SkipEnqueue, IInv, TypeOK
<1>2. Owed(p) \subseteq Owed(p)' \cup missed'
  BY <1>1 DEF Owed
<1>3. \A q \in Call \ {p} : Owed(q)' = Owed(q)
  BY <1>1, OwedUnchanged
<1> QED
  BY <1>1, <1>2, <1>3, DebtsHandedOn

LEMMA RereadFanOut ==
    ASSUME IInv, FanOutExplained, NEW p \in Call, Reread(p)
    PROVE  FanOutExplained'
<1>1. /\ pc[p] = "committed" /\ pc' = [pc EXCEPT ![p] = "queueing"] /\ before' = before
      /\ UNCHANGED <<ledger, announced, missed>>
      /\ changes' = [changes EXCEPT ![p] = Moved(p)] /\ changes \in [Call -> SUBSET Nat]
      /\ pc \in [Call -> Running \cup Idle]
  BY DEF Reread, Goto, IInv, TypeOK
<1>2. Owed(p)' = Owed(p)
  BY <1>1 DEF Owed
<1>3. \A q \in Call \ {p} : Owed(q)' = Owed(q)
  BY <1>1, OwedUnchanged
<1> QED
  BY <1>1, <1>2, <1>3, DebtsHandedOn

LEMMA CrashFanOut ==
    ASSUME IInv, FanOutExplained, NEW p \in Call, Crash(p)
    PROVE  FanOutExplained'
<1>1. /\ UNCHANGED <<ledger, announced>> /\ missed' = missed \cup Owed(p)
      /\ \A q \in Call \ {p} : UNCHANGED <<pc[q], before[q], changes[q]>>
  BY DEF Crash, Return, Goto, IInv, TypeOK
<1>2. \A q \in Call : Owed(q) \subseteq Owed(q)' \cup missed'
  BY <1>1, OwedUnchanged
<1> QED
  BY <1>1, <1>2, DebtsHandedOn

LEMMA CreateItemFanOut ==
    ASSUME IInv, FanOutExplained, NEW p \in Call, CreateItem(p)
    PROVE  FanOutExplained'
<1>1. CASE ledger = Null
  BY <1>1 DEF CreateItem, FanOutExplained, NewLedger, Allocated
<1>2. CASE ledger # Null
  <2>1. /\ Owed(p) = {} /\ UNCHANGED <<ledger, announced, missed>>
        /\ \A q \in Call \ {p} : UNCHANGED <<pc[q], before[q], changes[q]>>
    BY <1>2 DEF CreateItem, Return, Goto, IInv, TypeOK, Owed
  <2> QED
    BY <2>1, NoDebtFanOut
<1> QED
  BY <1>1, <1>2

LEMMA FanOutStep ==
    ASSUME IInv, IdsAreUnique, FanOutExplained, [Next]_vars
    PROVE  FanOutExplained'
<1> DEFINE Quiet(p) ==
        /\ Owed(p) = {} /\ UNCHANGED <<ledger, announced, missed>>
        /\ \A q \in Call \ {p} : UNCHANGED <<pc[q], before[q], changes[q]>>
<1>1. CASE UNCHANGED vars
  BY <1>1 DEF FanOutExplained, Owed, Moved, ListedBefore
<1>2. ASSUME NEW p \in Call, Quiet(p)
      PROVE  FanOutExplained'
  BY <1>2, NoDebtFanOut
<1>3. ASSUME NEW p \in Call, NEW r \in Request, Start(p, r)
      PROVE  Quiet(p)
  BY <1>3 DEF Start, Goto, IInv, TypeOK, Owed, Running
<1>4. ASSUME NEW p \in Call, IntakeLookup(p) \/ RecordIntake(p) \/ Read(p)
      PROVE  Quiet(p)
  BY <1>4 DEF IntakeLookup, RecordIntake, Read, Return, Goto, IInv, TypeOK, Owed
<1>5. ASSUME NEW p \in Call, Refuse(p) \/ RetryOrGiveUp(p) \/ Finish(p)
      PROVE  Quiet(p)
  BY <1>5 DEF Refuse, RetryOrGiveUp, Finish, Return, Goto, IInv, TypeOK, Owed
<1>6. ASSUME NEW p \in Call, CreateItem(p) \/ Commit(p) \/ Reread(p) \/ Crash(p)
      PROVE  FanOutExplained'
  BY <1>6, CreateItemFanOut, CommitFanOut, RereadFanOut, CrashFanOut
<1>7. ASSUME NEW p \in Call, NEW id \in changes[p], Enqueue(p, id) \/ SkipEnqueue(p, id)
      PROVE  FanOutExplained'
  BY <1>7, EnqueueFanOut, SkipEnqueueFanOut
<1> HIDE DEF Quiet
<1> QED
  BY <1>1, <1>2, <1>3, <1>4, <1>5, <1>6, <1>7 DEF Next

\* A channel advertises an old quantity only while somebody owes it a push, or because a
\* push was lost: calls that interleave never leave a channel behind between them.
THEOREM FanOutIsExplained == Spec => []FanOutExplained
<1>1. Init => IdsAreUnique /\ FanOutExplained
  <2> SUFFICES ASSUME Init PROVE IdsAreUnique /\ FanOutExplained
    OBVIOUS
  <2>1. Cardinality(Channel) \in Nat
    BY ChannelAssumption, FS_CardinalityType
  <2>2. IdsAreUnique
    BY <2>1, AtRestAssumption DEF Init, IdsAreUnique, FirstId, RowId, Allocated
  <2>3. FanOutExplained
    BY DEF Init, FanOutExplained
  <2> QED
    BY <2>2, <2>3
<1>2. IInv /\ IdsAreUnique /\ FanOutExplained /\ [Next]_vars
        => (IdsAreUnique /\ FanOutExplained)'
  BY IdsStep, FanOutStep
<1> QED
  BY <1>1, <1>2, IInvInvariant, PTL DEF Spec

-------------------------------------------------------------------------------
(* InventoryLedger implements AtomicLedger.  The instance brings its own copies of the
   operators of Allocation; they are the same operators. *)

LEMMA SameArithmetic ==
    /\ \A a, b : Atomic!Larger(a, b) = Larger(a, b) /\ Atomic!Smaller(a, b) = Smaller(a, b)
    /\ \A n : Atomic!OrZero(n) = OrZero(n)
    /\ \A b, code : Atomic!When(b, code) = When(b, code)
BY DEF Atomic!Larger, Larger, Atomic!Smaller, Smaller, Atomic!OrZero, OrZero, Atomic!When, When

LEMMA SameSum == \A h, S : Atomic!SumFunctionOnSet(h, S) = SumFunctionOnSet(h, S)
BY DEF Atomic!SumFunctionOnSet, SumFunctionOnSet, Atomic!FoldFunctionOnSet,
       FoldFunctionOnSet, Atomic!MapThenFoldSet, MapThenFoldSet

LEMMA SameRows ==
    \A l : /\ Atomic!Allocated(l) = Allocated(l)
           /\ Atomic!Fixed(l) = Fixed(l)
           /\ Atomic!Partition(l) = Partition(l)
           /\ \A c : Atomic!RowId(l, c) = RowId(l, c)
BY SameArithmetic
   DEF Atomic!Allocated, Allocated, Atomic!Fixed, Fixed, Atomic!Partition, Partition,
       Atomic!RowId, RowId

LEMMA SameRules == \A l : Atomic!IsLedgerValid(l) = IsLedgerValid(l)
<1>1. \A row : Atomic!RowIssues(row) = RowIssues(row)
  BY SameArithmetic DEF Atomic!RowIssues, RowIssues
<1>2. \A l : Atomic!SumFixedPartitions(l) = SumFixedPartitions(l)
  BY SameSum, SameRows DEF Atomic!SumFixedPartitions, SumFixedPartitions
<1>3. \A l : Atomic!ValidateLedger(l) = ValidateLedger(l)
  BY <1>1, <1>2, SameRows, SameArithmetic DEF Atomic!ValidateLedger, ValidateLedger
<1> QED
  BY <1>3 DEF Atomic!IsLedgerValid, IsLedgerValid

LEMMA SameSale ==
    \A l, s, q, r : Atomic!LedgerAfterSale(l, s, q, r) = LedgerAfterSale(l, s, q, r)
<1>1. \A h, c, r : Atomic!TrimmedBefore(h, c, r) = TrimmedBefore(h, c, r)
  BY DEF Atomic!TrimmedBefore, TrimmedBefore
<1>2. \A h, e, r : Atomic!Trimmed(h, e, r) = Trimmed(h, e, r)
  BY <1>1, SameSum, SameArithmetic DEF Atomic!Trimmed, Trimmed
<1>3. \A l, s, q : Atomic!PartitionAfterSelling(l, s, q) = PartitionAfterSelling(l, s, q)
  BY SameRows, SameArithmetic DEF Atomic!PartitionAfterSelling, PartitionAfterSelling
<1>4. \A l, s, q, r : Atomic!Reclaim(l, s, q, r) = Reclaim(l, s, q, r)
  BY <1>2, <1>3, SameSum, SameArithmetic DEF Atomic!Reclaim, Reclaim
<1> QED
  BY <1>3, <1>4, SameRows, SameArithmetic DEF Atomic!LedgerAfterSale, LedgerAfterSale

LEMMA SamePlans == \A l, r, i : Atomic!Plans(l, r, i) = Plans(l, r, i)
<1>1. \A a, n, m : Atomic!PlanIf(a, n, m) = PlanIf(a, n, m)
  BY DEF Atomic!PlanIf, PlanIf
<1>2. \A l, q : /\ Atomic!AdjustPlans(l, q) = AdjustPlans(l, q)
                /\ Atomic!CountPlans(l, q) = CountPlans(l, q)
                /\ Atomic!ReservePlans(l, q) = ReservePlans(l, q)
  BY <1>1 DEF Atomic!AdjustPlans, AdjustPlans, Atomic!CountPlans, CountPlans,
              Atomic!ReservePlans, ReservePlans
<1>3. \A l, r : /\ Atomic!UpsertPlans(l, r) = UpsertPlans(l, r)
                /\ Atomic!RemovePlans(l, r) = RemovePlans(l, r)
  BY <1>1, SameRows DEF Atomic!UpsertPlans, UpsertPlans, Atomic!RemovePlans, RemovePlans
<1>4. \A l, r, i : Atomic!SalePlans(l, r, i) = SalePlans(l, r, i)
  <2>1. Atomic!RowRank = RowRank
    BY DEF Atomic!RowRank, RowRank, Atomic!Cardinality, Cardinality
  <2> QED
    BY <1>1, <2>1, SameRows, SameSale DEF Atomic!SalePlans, SalePlans
<1> QED
  BY <1>2, <1>3, <1>4 DEF Atomic!Plans, Plans

LEMMA SameStored ==
    /\ \A n, r, i : Atomic!Stored(n, r, i) = Stored(n, r, i)
    /\ \A n : Atomic!NewLedger(n) = NewLedger(n)
    /\ Atomic!FirstId = FirstId
<1>1. \A row, i : Atomic!StoredRow(row, i) = StoredRow(row, i)
  BY SameArithmetic DEF Atomic!StoredRow, StoredRow
<1>2. \A n, r, i : Atomic!Stored(n, r, i) = Stored(n, r, i)
  BY <1>1 DEF Atomic!Stored, Stored
<1>3. (\A n : Atomic!NewLedger(n) = NewLedger(n)) /\ Atomic!FirstId = FirstId
  BY DEF Atomic!NewLedger, NewLedger, Atomic!FirstId, FirstId, Atomic!Cardinality, Cardinality
<1> QED
  BY <1>2, <1>3

-------------------------------------------------------------------------------

\* Only a sale looks at the row it was resolved to, and it has no plan unless the ledger
\* still holds that row.
LEMMA PlansOnTheRow ==
    ASSUME NEW l, NEW r \in RequestType, NEW i
    PROVE  Plans(l, r, i) \subseteq
             Plans(l, r, IF r.op = "sale" THEN RowId(l, r.channel) ELSE Null)
<1>1. CASE r.op = "sale"
  <2>1. SalePlans(l, r, i) \subseteq SalePlans(l, r, RowId(l, r.channel))
    <3>1. CASE i = RowId(l, r.channel)
      BY <3>1
    <3>2. CASE i # RowId(l, r.channel)
      BY <3>2 DEF SalePlans, PlanIf
    <3> QED
      BY <3>1, <3>2
  <2> QED
    BY <1>1, <2>1 DEF Plans
<1>2. CASE r.op # "sale"
  BY <1>2 DEF Plans, RequestType
<1> QED
  BY <1>1, <1>2

LEMMA CommitIsMutate ==
    ASSUME IInv, NEW p \in Call, Commit(p)
    PROVE  Atomic!Mutate(request[p])
<1>1. /\ ledger # Null /\ request[p] \in RequestType
      /\ plan[p] \in Plans(ledger, request[p], rowId[p])
      /\ IsLedgerValid(plan[p].next)
      /\ plan[p].movement \in Int \cup {Null}
  BY CommitFacts, RequestsTyped
<1>2. plan[p] \in Plans(ledger, request[p],
                        IF request[p].op = "sale" THEN RowId(ledger, request[p].channel)
                                                  ELSE Null)
  BY <1>1, PlansOnTheRow
<1>3. moved' + unrecorded' = moved + unrecorded + OrZero(plan[p].movement)
  BY <1>1 DEF Commit, IInv, TypeOK, OrZero
<1>4. /\ ledger' = Stored(plan[p].next, request[p], nextId)
      /\ nextId' = IF request[p].op = "upsert" /\ RowId(ledger, request[p].channel) = Null
                   THEN nextId + 1 ELSE nextId
  BY DEF Commit
<1> QED
  BY <1>1, <1>2, <1>3, <1>4, SamePlans, SameStored, SameRows, SameRules, SameArithmetic
     DEF Atomic!Mutate

LEMMA CreateItemIsCreate ==
    ASSUME IInv, NEW p \in Call, CreateItem(p)
    PROVE  Atomic!Create(request[p]) \/ UNCHANGED Atomic!vars
<1>1. CASE ledger = Null
  <2>1. /\ request[p] \in Request /\ request[p].op = "intake"
        /\ request[p].quantity \in Int
    BY RequestAssumption DEF IInv, CallsHaveRequests, CreateItem, Running, RequestType
  <2>2. moved' + unrecorded' = moved + unrecorded + request[p].quantity
    BY <1>1, <2>1 DEF CreateItem, IInv, TypeOK
  <2> QED
    BY <1>1, <2>1, <2>2, SameStored DEF CreateItem, Atomic!Create
<1>2. CASE ledger # Null
  BY <1>2 DEF CreateItem, Atomic!vars
<1> QED
  BY <1>1, <1>2

LEMMA RefinesStep ==
    ASSUME IInv, [Next]_vars
    PROVE  [Atomic!Next]_(Atomic!vars)
<1>1. CASE UNCHANGED <<ledger, nextId, moved, unrecorded>>
  BY <1>1 DEF Atomic!vars
<1>2. ASSUME NEW p \in Call, Commit(p)
      PROVE  [Atomic!Next]_(Atomic!vars)
  <2>1. request[p] \in Request
    BY <1>2, CommitFacts
  <2> QED
    BY <1>2, <2>1, CommitIsMutate DEF Atomic!Next
<1>3. ASSUME NEW p \in Call, CreateItem(p)
      PROVE  [Atomic!Next]_(Atomic!vars)
  <2>1. request[p] \in Request
    BY <1>3 DEF IInv, CallsHaveRequests, CreateItem, Running
  <2> QED
    BY <1>3, <2>1, CreateItemIsCreate DEF Atomic!Next
\* The movement of an intake was counted when the item was created.
<1>4. ASSUME NEW p \in Call, RecordIntake(p)
      PROVE  UNCHANGED Atomic!vars
  <2>1. request[p].quantity \in Int
    BY <1>4, RequestAssumption DEF IInv, CallsHaveRequests, RecordIntake, Running, RequestType
  <2>2. moved' + unrecorded' = moved + unrecorded
    BY <1>4, <2>1 DEF RecordIntake, IInv, TypeOK
  <2> QED
    BY <1>4, <2>2 DEF RecordIntake, Atomic!vars
<1>5. ASSUME NEW p \in Call,
             (\E r \in Request : Start(p, r)) \/ IntakeLookup(p) \/ Read(p) \/ Refuse(p)
      PROVE  UNCHANGED <<ledger, nextId, moved, unrecorded>>
  BY <1>5 DEF Start, IntakeLookup, Read, Refuse
<1>6. ASSUME NEW p \in Call, RetryOrGiveUp(p) \/ Reread(p) \/ Finish(p) \/ Crash(p)
      PROVE  UNCHANGED <<ledger, nextId, moved, unrecorded>>
  BY <1>6 DEF RetryOrGiveUp, Reread, Finish, Crash
<1>7. ASSUME NEW p \in Call, NEW id \in changes[p], Enqueue(p, id) \/ SkipEnqueue(p, id)
      PROVE  UNCHANGED <<ledger, nextId, moved, unrecorded>>
  BY <1>7 DEF Enqueue, SkipEnqueue
<1>8. CASE UNCHANGED vars
  BY <1>1, <1>8
<1> QED
  BY <1>1, <1>2, <1>3, <1>4, <1>5, <1>6, <1>7, <1>8 DEF Next

\* Interleaved, retried and killed calls are as good as calls that take effect at once.
THEOREM LedgerIsAtomic == Spec => ImplementsAtomicLedger
<1>1. Init => Atomic!Init
  <2> SUFFICES ASSUME Init PROVE Atomic!Init
    OBVIOUS
  <2>1. moved + unrecorded = IF ledger = Null THEN 0 ELSE ledger.quantityOnHand
    <3>1. ledger # Null => ledger.quantityOnHand \in Int
      BY AtRestAssumption DEF Init, LedgerView
    <3> QED
      BY <3>1 DEF Init
  <2> QED
    BY <2>1, SameStored DEF Init, Atomic!Init
<1>2. IInv /\ [Next]_vars => [Atomic!Next]_(Atomic!vars)
  BY RefinesStep
<1> QED
  BY <1>1, <1>2, IInvInvariant, PTL DEF Spec, ImplementsAtomicLedger, Atomic!Spec
===============================================================================
