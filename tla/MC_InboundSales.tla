---------------------------- MODULE MC_InboundSales ----------------------------
(***************************************************************************)
(* A webhook that reports two sales, and an order file that repeats the    *)
(* second.                                                                 *)
(***************************************************************************)
EXTENDS InboundSales, TLC

CONSTANTS a, b, w, f

MCSalesIn == (w :> <<a, b>>) @@ (f :> <<b>>)

================================================================================
