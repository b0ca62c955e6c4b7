-------------------------- MODULE MCSilverQuality --------------------------
(* Orders with their lines, and each other table by itself. A batch of     *)
(* these is any sequence of up to MaxRows of its rows, repeats included;   *)
(* of orders and lines, which multiply, the batches that differ in what    *)
(* the jobs and the gate can make of them.                                 *)
EXTENDS SilverQuality, Sequences

CONSTANT MaxRows

MCGroups == {{"orders", "order_lines"}} \cup {{t} : t \in Table \ {"orders", "order_lines"}}

Customer(id, tier, email) == [customer_id |-> id, loyalty_tier |-> tier, email |-> email]
Order(id, customer, status, ts) ==
  [order_id |-> id, customer_id |-> customer, order_status |-> status, updated_ts |-> ts]
Line(id, order, n, price) ==
  [order_line_id |-> id, order_id |-> order, quantity |-> n, unit_price |-> price]
Product(id, sku, price) == [product_id |-> id, sku |-> sku, unit_price |-> price]
Stock(store, product, day) == [store_id |-> store, product_id |-> product, snapshot_date |-> day]
Supply(supplier, sku) == [supplier_id |-> supplier, product_sku |-> sku]

o1 == Order("o1", "c1", "pending", 1)
o1Later == Order("o1", "c1", "shipped", 2)
o2 == Order("o2", Bad, "completed", 2)
o2Undated == Order("o2", "c1", Null, Bad)
l1 == Line("l1", "o1", 1, 5)
l1Moved == Line("l1", "o2", 2, 5)
l2 == Line("l2", "o2", 0, -1)
l2Unknown == Line("l2", Bad, Bad, 5)

MCOrders == {<<o1, o1Later>>, <<o2>>, <<o1Later, o2Undated, o1>>, <<o2Undated>>}
MCOrderLines == {<<l1, l2>>, <<l2, l2Unknown, l2>>, <<l2Unknown>>, <<l1, l1Moved>>}

RawRows ==
  [customers |-> {Customer("c1", "gold", "valid"), Customer("c1", "tin", "untidy"),
                  Customer("c2", Null, "spaces"), Customer(Bad, "gold", "valid"),
                  Customer("c2", "silver", "malformed")},
   products |-> {Product("p1", "sku1", 5), Product("p1", "sku2", Bad), Product("p2", "empty", 5),
                 Product(Bad, "sku1", -1)},
   stores |-> {[store_id |-> s] : s \in {"s1", "s2", Bad, Null}},
   inventory |-> {Stock("s1", "p1", "d1"), Stock("s1", "p1", "d2"), Stock("s2", "p1", "d1"),
                  Stock("s1", "p1", Bad), Stock("s1", Null, "d1")},
   suppliers |-> {Supply("v1", "sku1"), Supply("v2", "sku1"), Supply(Bad, "sku1"),
                  Supply(Null, "sku1"), Supply("v1", "empty")}]

MCTierShare == <<19, 20>>
MCEmailShare == <<9, 10>>
MCBatch ==
  [t \in Table |-> CASE t = "orders" -> MCOrders
                     [] t = "order_lines" -> MCOrderLines
                     [] OTHER -> UNION {[1..n -> RawRows[t]] : n \in 0..MaxRows}]
=============================================================================
