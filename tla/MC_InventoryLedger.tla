-------------------------- MODULE MC_InventoryLedger ---------------------------
(***************************************************************************)
(* InventoryLedger with two calls at once, two channels and a request of   *)
(* every kind, the partition and the cap chosen so that sales oversell,    *)
(* reclaim the reserve and trim a partition.                               *)
(***************************************************************************)
EXTENDS InventoryLedger, TLC

CONSTANTS c1, c2

Quantity(op, quantity) == [op |-> op, quantity |-> quantity]

Upsert(channel, mode, quantity, cap) ==
    [op |-> "upsert", channel |-> channel, mode |-> mode,
     quantityAllocated |-> quantity, maxQuantity |-> cap]

MCRequest ==
    {Quantity("intake", 2), Quantity("adjust", -1), Quantity("count", 3),
     Quantity("reserve", 1),
     Upsert(c1, "fixed", 1, Null), Upsert(c1, "pooled", Null, 1),
     [op |-> "remove", channel |-> c1],
     [op |-> "sale", channel |-> c1, quantity |-> 2],
     [op |-> "sale", channel |-> c2, quantity |-> 2]}

\* Three units, of which c1 keeps one and one is in reserve.
MCAtRest ==
    {[quantityOnHand |-> 3, reserveQuantity |-> 1,
      allocations |-> (c1 :> [id |-> 1, mode |-> "fixed", quantityAllocated |-> 1,
                              maxQuantity |-> Null])
                   @@ (c2 :> [id |-> 2, mode |-> "pooled", quantityAllocated |-> Null,
                              maxQuantity |-> Null])]}

MCChannel == {c1, c2}

Symmetry == Permutations(Call)
===============================================================================
