----------------------------- MODULE MC_Allocation -----------------------------
(***************************************************************************)
(* A ledger to which a sale is applied, from every ledger of a bounded set *)
(* that keeps the rules, with the trimming loop written as the loop it is  *)
(* in the code to compare the closed form of Allocation with.  TLC checks  *)
(* the properties on small bounds; the theorems at the end hold for all.   *)
(***************************************************************************)
EXTENDS Allocation_proofs, TLC

CONSTANTS
    MaxOnHand,      \* largest quantityOnHand a ledger starts with
    MaxReserve,     \* largest reserve it starts with
    MaxSale,        \* largest sale
    Caps            \* the maxQuantity of pooled rows

ASSUME BoundsAssumption ==
    /\ MaxOnHand \in Nat /\ MaxReserve \in Nat /\ MaxSale \in Nat
    /\ Caps \subseteq Int \cup {Null}

VARIABLES ledger, lastSale

vars == <<ledger, lastSale>>

Rows ==
    {[id |-> 1, mode |-> "fixed", quantityAllocated |-> q, maxQuantity |-> Null] :
        q \in 0..MaxOnHand}
    \cup {[id |-> 1, mode |-> "pooled", quantityAllocated |-> Null, maxQuantity |-> m] :
        m \in Caps}

SmallLedgers ==
    [quantityOnHand: 0..MaxOnHand, reserveQuantity: 0..MaxReserve,
     allocations: [Channel -> Rows \cup {Null}]]

NoSale == [before |-> Null, seller |-> Null, quantity |-> 0, rank |-> Null,
           conflicts |-> {}]

Init == /\ ledger \in {l \in SmallLedgers : IsLedgerValid(l)}
        /\ lastSale = NoSale

Sale == \E c \in Allocated(ledger), quantity \in 1..MaxSale, rank \in RowRank :
            /\ lastSale = NoSale
            /\ ledger' = LedgerAfterSale(ledger, c, quantity, rank)
            /\ lastSale' = [before |-> ledger, seller |-> c, quantity |-> quantity,
                            rank |-> rank,
                            conflicts |-> SaleConflicts(ledger, c, quantity, rank)]

Next == Sale

Spec == Init /\ [][Next]_vars

-------------------------------------------------------------------------------
(***************************************************************************)
(* The loop of applySale, for comparison.                                  *)
(***************************************************************************)

\* One turn of the loop: the largest partition, the first of the largest, gives what it
\* can.
TrimOnce(left, rank) ==
    LET candidates == {c \in Channel : left.held[c] > 0}
        largest == CHOOSE c \in candidates :
                        \A d \in candidates :
                            \/ left.held[d] < left.held[c]
                            \/ left.held[d] = left.held[c] /\ rank[c] <= rank[d]
        taken == Smaller(left.excess, left.held[largest])
    IN  IF left.excess <= 0 \/ candidates = {}
        THEN left
        ELSE [held |-> [left.held EXCEPT ![largest] = @ - taken],
              excess |-> left.excess - taken]

\* A turn empties a partition or is the last, so there are no more turns than channels.
TrimLoop(held, excess, rank) ==
    LET after[n \in 0..Cardinality(Channel)] ==
            IF n = 0 THEN [held |-> held, excess |-> excess]
                     ELSE TrimOnce(after[n - 1], rank)
    IN  after[Cardinality(Channel)].held

LoopPartitions(before, seller, quantity, rank) ==
    LET held == PartitionAfterSelling(before, seller, quantity)
        onHand == Larger(0, before.quantityOnHand - quantity)
        missing == SumFunctionOnSet(held, Channel) + before.reserveQuantity - onHand
        fromReserve == Larger(0, Smaller(missing, before.reserveQuantity))
    IN  TrimLoop(held, missing - fromReserve, rank)

Sold == lastSale # NoSale

\* A sale from a ledger that keeps the rules leaves one that keeps them: on-hand covers
\* every fixed partition and the reserve, whatever was oversold (applySale, "Always
\* satisfies the invariant").
SaleRestoresRules == IsLedgerValid(ledger)

\* The closed form trims exactly what the loop of applySale trims, ties included.
TrimsLikeTheLoop ==
    Sold => Partition(ledger) = LoopPartitions(lastSale.before, lastSale.seller,
                                               lastSale.quantity, lastSale.rank)

\* "The lower quantity always wins": a sale on one channel never makes any channel, the
\* selling one included, advertise more than it did.
SaleNeverRaisesListing ==
    Sold => \A c \in Channel : Desired(ledger)[c] <= Desired(lastSale.before)[c]

\* Nothing disappears silently: the units by which on-hand and the commitments of the
\* other channels and the reserve fell, and the units sold beyond on-hand, are all
\* in the sale or in a conflict a human sees.
ConflictsAccountForEverything ==
    LET before == lastSale.before
        conflicts == lastSale.conflicts
    IN  Sold =>
          /\ before.quantityOnHand - ledger.quantityOnHand
                + Reported(conflicts, "oversell_on_hand") = lastSale.quantity
          /\ before.reserveQuantity - ledger.reserveQuantity
                = Reported(conflicts, "reserve_reduced")
          /\ SumFixedPartitions(before) - SumFixedPartitions(ledger)
                = Reported(conflicts, "partition_reduced")
                  + (IF lastSale.seller \in Fixed(before)
                     THEN lastSale.quantity - Reported(conflicts, "oversell_partition")
                     ELSE 0)

-------------------------------------------------------------------------------
(***************************************************************************)
(* Proofs, for every set of channels, every bound and every order of rows. *)
(***************************************************************************)

KeepsRules(l) == l \in LedgerView /\ IsLedgerValid(l)

\* The ledger is what the last sale made of one that kept the rules.
SaleInvariant ==
    /\ KeepsRules(ledger)
    /\ Sold =>
          /\ KeepsRules(lastSale.before)
          /\ lastSale.seller \in Channel /\ lastSale.quantity \in Nat
          /\ lastSale.rank \in RowRank
          /\ ledger = LedgerAfterSale(lastSale.before, lastSale.seller, lastSale.quantity,
                                      lastSale.rank)
          /\ lastSale.conflicts = SaleConflicts(lastSale.before, lastSale.seller,
                                                lastSale.quantity, lastSale.rank)

LEMMA SaleInvariantHolds == Spec => []SaleInvariant
<1>1. Init => SaleInvariant
  <2> SUFFICES ASSUME Init PROVE SaleInvariant
    OBVIOUS
  <2>1. Rows \subseteq AllocationView
    BY BoundsAssumption DEF Rows, AllocationView, Mode
  <2>2. SmallLedgers \subseteq LedgerView
    BY <2>1, BoundsAssumption DEF SmallLedgers, LedgerView
  <2>3. KeepsRules(ledger) /\ ~Sold
    BY <2>2 DEF Init, KeepsRules, Sold
  <2> QED  BY <2>3 DEF SaleInvariant
<1>2. SaleInvariant /\ [Next]_vars => SaleInvariant'
  <2> SUFFICES ASSUME SaleInvariant, [Next]_vars PROVE SaleInvariant'
    OBVIOUS
  <2>1. CASE Sale
    <3>1. PICK c \in Allocated(ledger), quantity \in 1..MaxSale, rank \in RowRank :
            /\ ledger' = LedgerAfterSale(ledger, c, quantity, rank)
            /\ lastSale' = [before |-> ledger, seller |-> c, quantity |-> quantity,
                            rank |-> rank,
                            conflicts |-> SaleConflicts(ledger, c, quantity, rank)]
      BY <2>1 DEF Sale
    <3>2. KeepsRules(ledger) /\ c \in Channel /\ quantity \in Nat
      BY BoundsAssumption DEF SaleInvariant, Allocated
    <3>3. KeepsRules(ledger')
      BY <3>1, <3>2, AfterSaleType, SaleKeepsRules DEF KeepsRules
    <3> QED  BY <3>1, <3>2, <3>3 DEF SaleInvariant, KeepsRules
  <2>2. CASE UNCHANGED vars
    BY <2>2 DEF SaleInvariant, KeepsRules, Sold, vars
  <2> QED  BY <2>1, <2>2 DEF Next
<1> QED  BY <1>1, <1>2, PTL DEF Spec

\* On-hand covers every fixed partition and the reserve after any sale (applySale).
THEOREM RulesAreRestored == Spec => []SaleRestoresRules
<1>1. SaleInvariant => SaleRestoresRules
  BY DEF SaleInvariant, KeepsRules, SaleRestoresRules
<1> QED  BY <1>1, SaleInvariantHolds, PTL

\* No sale makes a channel advertise more (applySale with computeListedQuantity).
THEOREM ListingIsNeverRaised == Spec => []SaleNeverRaisesListing
<1>1. SaleInvariant => SaleNeverRaisesListing
  BY SaleListsNoMore DEF SaleInvariant, KeepsRules, SaleNeverRaisesListing
<1> QED  BY <1>1, SaleInvariantHolds, PTL

\* Every unit that left the ledger is in the sale or in a conflict (applySale).
THEOREM NothingIsLostSilently == Spec => []ConflictsAccountForEverything
<1>1. SaleInvariant => ConflictsAccountForEverything
  <2> SUFFICES ASSUME SaleInvariant, Sold PROVE ConflictsAccountForEverything
    BY DEF ConflictsAccountForEverything
  <2> DEFINE before == lastSale.before
             seller == lastSale.seller
             quantity == lastSale.quantity
             rank == lastSale.rank
  <2>1. /\ before \in LedgerView /\ IsLedgerValid(before) /\ seller \in Channel
        /\ quantity \in Nat /\ rank \in RowRank
        /\ ledger = LedgerAfterSale(before, seller, quantity, rank)
        /\ lastSale.conflicts = SaleConflicts(before, seller, quantity, rank)
    BY DEF SaleInvariant, KeepsRules
  <2> HIDE DEF before, seller, quantity, rank
  <2>2. LET conflicts == lastSale.conflicts
        IN  /\ before.quantityOnHand - ledger.quantityOnHand
                 + Reported(conflicts, "oversell_on_hand") = quantity
            /\ before.reserveQuantity - ledger.reserveQuantity
                 = Reported(conflicts, "reserve_reduced")
            /\ SumFixedPartitions(before) - SumFixedPartitions(ledger)
                 = Reported(conflicts, "partition_reduced")
                   + (IF seller \in Fixed(before)
                      THEN quantity - Reported(conflicts, "oversell_partition")
                      ELSE 0)
    BY <2>1, SaleIsAccountedFor
  <2> QED  BY <2>2 DEF ConflictsAccountForEverything, before, seller, quantity
<1> QED  BY <1>1, SaleInvariantHolds, PTL
===============================================================================
