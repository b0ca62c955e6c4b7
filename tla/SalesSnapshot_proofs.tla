------------------------ MODULE SalesSnapshot_proofs ------------------------
(***************************************************************************)
(* Proofs about SalesSnapshot, for every set of orders and lines and any   *)
(* number of cleared runs.                                                 *)
(***************************************************************************)
EXTENDS SalesSnapshot, TLAPS

WithOrder(L) == {l \in L : HasOrder(l)}
OrdersOf(L) == {OrderOf[l] : l \in WithOrder(L)}

(* The lines a run must carry, `before', and their orders are in each      *)
(* object once a task of this run has written it; the lines without an     *)
(* order get as far as Bronze. A Bronze partition is written again when    *)
(* its source is cleared alone, while the line job may still read it: what *)
(* matters is that it was written since the run began.                     *)
Carried ==
  /\ "ingest_orders" \in done => OrdersOf(before) \subseteq landedOrders
  /\ "ingest_lines" \in done => before \subseteq landedLines
  /\ "bronze_orders" \in done => OrdersOf(before) \subseteq bronzeOrders
  /\ "bronze_lines" \in done \/ "silver_orders" \in done => before \subseteq bronzeLines
  /\ "silver_orders" \in done => OrdersOf(before) \subseteq silverOrders
  /\ "silver_lines" \in done => WithOrder(before) \subseteq silverLines

IInv ==
  /\ TypeOK
  /\ before \subseteq sourceLines
  /\ "silver_lines" \in done => "silver_orders" \in done
  /\ LinesHaveOrders
  /\ Carried

----------------------------------------------------------------------------
(* The tables, objects and bookkeeping of a batch keep their types, and    *)
(* the foreign key holds.                                                  *)
THEOREM TypeCorrect == Spec => []TypeOK
<1>1. Init => TypeOK
  BY SalesAssumption DEF Init, TypeOK, SalesAssumption
<1>2. TypeOK /\ [Next]_vars => TypeOK'
  <2> SUFFICES ASSUME TypeOK, [Next]_vars PROVE TypeOK'
    OBVIOUS
  <2> USE SalesAssumption DEF TypeOK, SalesAssumption, source, lake, BronzeDag, SilverDag
  <2>1. CASE PlaceOrder
    BY <2>1 DEF PlaceOrder
  <2>2. CASE AddLine
    BY <2>2 DEF AddLine
  <2>3. CASE RemoveLine
    BY <2>3 DEF RemoveLine
  <2>4. CASE RemoveOrder
    BY <2>4 DEF RemoveOrder
  <2>5. CASE IngestOrders
    BY <2>5 DEF IngestOrders, Runs
  <2>6. CASE IngestLines
    BY <2>6 DEF IngestLines, Runs
  <2>7. CASE OrdersToBronze
    BY <2>7 DEF OrdersToBronze, Runs
  <2>8. CASE LinesToBronze
    BY <2>8 DEF LinesToBronze, Runs
  <2>9. CASE OrdersToSilver
    BY <2>9 DEF OrdersToSilver, Runs
  <2>10. CASE LinesToSilver
    BY <2>10 DEF LinesToSilver, Runs
  <2>11. CASE ClearSome
    BY <2>11 DEF ClearSome
  <2>12. CASE ClearAll
    BY <2>12 DEF ClearAll
  <2>13. CASE UNCHANGED vars
    BY <2>13 DEF vars
  <2>14. QED
    BY <2>1, <2>2, <2>3, <2>4, <2>5, <2>6, <2>7, <2>8, <2>9, <2>10, <2>11, <2>12, <2>13
       DEF Next
<1>3. QED
  BY <1>1, <1>2, PTL DEF Spec

(* The induction step, given the types.                                    *)
LEMMA IInvStep == IInv /\ TypeOK' /\ [Next]_vars => IInv'
<1> SUFFICES ASSUME IInv, TypeOK', [Next]_vars PROVE IInv'
  OBVIOUS
<1> USE DEF IInv, Carried, LinesHaveOrders, OrdersOf, WithOrder, HasOrder, source, lake,
            BronzeDag, SilverDag
<1>1. CASE PlaceOrder
  BY <1>1 DEF PlaceOrder
<1>2. CASE AddLine
  BY <1>2 DEF AddLine
<1>3. CASE RemoveLine
  BY <1>3 DEF RemoveLine
<1>4. CASE RemoveOrder
  BY <1>4 DEF RemoveOrder
<1>5. CASE IngestOrders
  BY <1>5 DEF IngestOrders, Runs, TypeOK
<1>6. CASE IngestLines
  BY <1>6 DEF IngestLines, Runs
<1>7. CASE OrdersToBronze
  BY <1>7 DEF OrdersToBronze, Runs
<1>8. CASE LinesToBronze
  BY <1>8 DEF LinesToBronze, Runs
<1>9. CASE OrdersToSilver
  BY <1>9 DEF OrdersToSilver, Runs
<1>10. CASE LinesToSilver
  BY <1>10 DEF LinesToSilver, Runs
<1>11. CASE ClearSome
  BY <1>11 DEF ClearSome
<1>12. CASE ClearAll
  BY <1>12 DEF ClearAll
<1>13. CASE UNCHANGED vars
  BY <1>13 DEF vars
<1>14. QED
  BY <1>1, <1>2, <1>3, <1>4, <1>5, <1>6, <1>7, <1>8, <1>9, <1>10, <1>11, <1>12, <1>13
     DEF Next

(* The inductive invariant: what has been carried so far.                  *)
THEOREM InductiveInvariant == Spec => []IInv
<1>1. Init => IInv
  BY SalesAssumption
     DEF Init, IInv, TypeOK, Carried, LinesHaveOrders, OrdersOf, WithOrder, HasOrder,
         SalesAssumption
<1>2. IInv /\ TypeOK' /\ [Next]_vars => IInv'
  BY IInvStep
<1>3. QED
  BY <1>1, <1>2, TypeCorrect, PTL DEF Spec

(* Through any clearing of tasks and any traffic in the source, each       *)
(* Silver line has its order in Silver once the line job has run.          *)
THEOREM LinesHaveOrdersAlways == Spec => []LinesHaveOrders
BY InductiveInvariant, PTL DEF IInv

(* And a line of some order that was there when the run began, and still   *)
(* is, is one of them (SettledLinesArrive).                                *)
THEOREM SettledLinesArriveAlways == Spec => []SettledLinesArrive
<1>1. IInv => SettledLinesArrive
  BY DEF IInv, Carried, WithOrder, SettledLinesArrive
<1>2. QED
  BY <1>1, InductiveInvariant, PTL
=============================================================================
