---------------------------- MODULE MCDailyRun ----------------------------
(* One daily source for the orders, one for the order lines, one weekly;   *)
(* the customers, products, stores and inventory chains have the shape of  *)
(* the orders chain.                                                       *)
EXTENDS DailyRun

CONSTANTS sales, sales_order_lines, suppliers

MCSource == {sales, sales_order_lines, suppliers}
MCWeekly == {suppliers}
MCJobSource == [j \in MCSource |-> j]
=============================================================================
