---------------------------- MODULE MCGoldBuild ----------------------------
(* Two customers, three days; alice has an order on each of the days 1 and *)
(* 2, bob one on day 3, the first day beyond the calendar. The contents of *)
(* a batch are chosen so that a version changes and changes back, a        *)
(* customer appears late or is missing from a batch, an order is cancelled *)
(* after it was billed, a store row or all the partitions are missing.     *)
EXTENDS GoldBuild

CONSTANTS alice, bob, gold1, basic, widget, shop, o1, o2, o3, l1, l2, l3

MCCustomer == {alice, bob}
MCAttr == {gold1, basic}
MCDate == 1..3
MCCalendar == 1..2
MCOrder == {o1, o2, o3}
MCLine == {l1, l2, l3}
MCOrderCustomer == [o \in MCOrder |-> IF o = o3 THEN bob ELSE alice]
MCOrderDate == [o \in MCOrder |-> CASE o = o1 -> 1 [] o = o2 -> 2 [] o = o3 -> 3]
MCOrderStore == [o \in MCOrder |-> shop]
MCLineOrder == [l \in MCLine |-> CASE l = l1 -> o1 [] l = l2 -> o2 [] l = l3 -> o3]
MCLineProduct == [l \in MCLine |-> widget]

Batch(customers, stores, orders) ==
  [customers |-> customers, products |-> {widget}, stores |-> stores, orders |-> orders,
   lines |-> {l \in MCLine : MCLineOrder[l] \in DOMAIN orders}]
AliceOnly(a) == [c \in {alice} |-> a]
Both(a, b) == [c \in MCCustomer |-> IF c = alice THEN a ELSE b]
Billed(S) == [o \in S |-> "billable"]

FirstDay == Batch(AliceOnly(gold1), {shop}, Billed({o1}))
Change == Batch(Both(basic, gold1), {shop}, Billed({o1, o2}))
Cancel == Batch(Both(gold1, gold1), {},
                [o \in MCOrder |-> IF o = o2 THEN "cancelled" ELSE "billable"])
MCSilver == {FirstDay, Change, Cancel, NoContent}
MCSilverSmall == {FirstDay, Change}
=============================================================================
