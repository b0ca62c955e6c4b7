-------------------------- MODULE MCSalesSnapshot --------------------------
(* Two orders with a line each, and a line without an order.               *)
EXTENDS SalesSnapshot, TLC

CONSTANTS o1, o2, l1, l2, l3, none

MCOrder == {o1, o2}
MCLine == {l1, l2, l3}
MCOrderOf == (l1 :> o1) @@ (l2 :> o2) @@ (l3 :> none)
=============================================================================
