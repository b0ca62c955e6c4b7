--------------------------- MODULE SalesSnapshot ---------------------------
(***************************************************************************)
(* Orders and order lines on one batch date. The source database keeps the *)
(* order a line refers to (a foreign key, which may be NULL), but the two  *)
(* tables are extracted by tasks that run beside each other, each with a   *)
(* query of its own; the Silver job of the lines runs after that of the    *)
(* orders and drops the lines without an order and those whose order is    *)
(* not in Silver.                                                          *)
(***************************************************************************)
EXTENDS Integers, FiniteSets

CONSTANTS
  Order, Line,
  NoOrder,   \* NULL: order_id is a foreign key that may be NULL
  OrderOf,   \* the order of each line
  MaxClears  \* bound: times an operator clears one of the DAG runs

ASSUME SalesAssumption ==
  NoOrder \notin Order /\ OrderOf \in [Line -> Order \cup {NoOrder}] /\ MaxClears \in Nat

HasOrder(l) == OrderOf[l] # NoOrder

VARIABLES
  sourceOrders, sourceLines,   \* tables of the source database
  landedOrders, landedLines,   \* landing files of the date
  bronzeOrders, bronzeLines,   \* Bronze partitions of the date
  silverOrders, silverLines,   \* Silver partitions of the date
  done,    \* tasks that have succeeded since their DAG run began
  clears,
  before   \* ghost: lines in the source when the Bronze DAG run began

source == <<sourceOrders, sourceLines>>
lake == <<landedOrders, landedLines, bronzeOrders, bronzeLines, silverOrders, silverLines>>
vars == <<source, lake, done, clears, before>>

BronzeDag == {"ingest_orders", "ingest_lines", "bronze_orders", "bronze_lines"}
SilverDag == {"silver_orders", "silver_lines"}

TypeOK ==
  /\ {sourceOrders, landedOrders, bronzeOrders, silverOrders} \subseteq SUBSET Order
  /\ {sourceLines, landedLines, bronzeLines, silverLines} \subseteq SUBSET Line
  /\ \A l \in sourceLines : OrderOf[l] \in sourceOrders \cup {NoOrder}
  /\ done \subseteq BronzeDag \cup SilverDag
  /\ clears \in 0..MaxClears
  /\ before \subseteq Line

Init ==
  /\ sourceOrders \in SUBSET Order
  /\ sourceLines \in SUBSET {l \in Line : OrderOf[l] \in sourceOrders \cup {NoOrder}}
  /\ landedOrders = {} /\ landedLines = {}
  /\ bronzeOrders = {} /\ bronzeLines = {}
  /\ silverOrders = {} /\ silverLines = {}
  /\ done = {} /\ clears = 0
  /\ before = sourceLines

----------------------------------------------------------------------------
(* The source database, in use all the while.                              *)

PlaceOrder ==
  /\ \E o \in Order \ sourceOrders : sourceOrders' = sourceOrders \cup {o}
  /\ UNCHANGED <<sourceLines, lake, done, clears, before>>
AddLine ==
  /\ \E l \in Line \ sourceLines :
       OrderOf[l] \in sourceOrders \cup {NoOrder} /\ sourceLines' = sourceLines \cup {l}
  /\ UNCHANGED <<sourceOrders, lake, done, clears, before>>
(* Lines and orders that go leave `before', which is about those that stay. *)
RemoveLine ==
  /\ \E l \in sourceLines : sourceLines' = sourceLines \ {l} /\ before' = before \ {l}
  /\ UNCHANGED <<sourceOrders, lake, done, clears>>
RemoveOrder ==
  /\ \E o \in sourceOrders :
       /\ \A l \in sourceLines : OrderOf[l] # o
       /\ sourceOrders' = sourceOrders \ {o}
  /\ UNCHANGED <<sourceLines, lake, done, clears, before>>

----------------------------------------------------------------------------
(* The tasks. A task that fails is run again and has written nothing, or   *)
(* has written what it would: neither is a step of its own.                *)

Runs(t, upstream) == t \notin done /\ upstream \subseteq done /\ done' = done \cup {t}

IngestOrders ==
  /\ Runs("ingest_orders", {}) /\ landedOrders' = sourceOrders
  /\ UNCHANGED <<source, landedLines, bronzeOrders, bronzeLines, silverOrders,
                 silverLines, clears, before>>
(* A plausible bug: the source is configured with the other table.         *)
IngestLinesFromOrders ==
  /\ Runs("ingest_lines", {}) /\ landedLines' = sourceOrders
  /\ UNCHANGED <<source, landedOrders, bronzeOrders, bronzeLines, silverOrders,
                 silverLines, clears, before>>

IngestLines ==
  /\ Runs("ingest_lines", {}) /\ landedLines' = sourceLines
  /\ UNCHANGED <<source, landedOrders, bronzeOrders, bronzeLines, silverOrders,
                 silverLines, clears, before>>
OrdersToBronze ==
  /\ Runs("bronze_orders", {"ingest_orders"}) /\ bronzeOrders' = landedOrders
  /\ UNCHANGED <<source, landedOrders, landedLines, bronzeLines, silverOrders,
                 silverLines, clears, before>>
LinesToBronze ==
  /\ Runs("bronze_lines", {"ingest_lines"}) /\ bronzeLines' = landedLines
  /\ UNCHANGED <<source, landedOrders, landedLines, bronzeOrders, silverOrders,
                 silverLines, clears, before>>

(* Plausible bugs: the lines do not wait for the orders; they are not      *)
(* joined with them.                                                       *)
LinesToSilverBesideOrders ==
  /\ Runs("silver_lines", BronzeDag)
  /\ (\E l \in bronzeLines : HasOrder(l)) /\ silverOrders # {}
  /\ silverLines' = {l \in bronzeLines : HasOrder(l) /\ OrderOf[l] \in silverOrders}
  /\ UNCHANGED <<source, landedOrders, landedLines, bronzeOrders, bronzeLines,
                 silverOrders, clears, before>>
LinesToSilverUnjoined ==
  /\ Runs("silver_lines", {"silver_orders"})
  /\ (\E l \in bronzeLines : HasOrder(l)) /\ silverOrders # {}
  /\ silverLines' = {l \in bronzeLines : HasOrder(l)}
  /\ UNCHANGED <<source, landedOrders, landedLines, bronzeOrders, bronzeLines,
                 silverOrders, clears, before>>

(* A job with an empty input raises: the frame lacks the columns it reads. *)
(* So does the line job when the order of every line is NULL.              *)
OrdersToSilver ==
  /\ Runs("silver_orders", BronzeDag) /\ bronzeOrders # {}
  /\ silverOrders' = bronzeOrders
  /\ UNCHANGED <<source, landedOrders, landedLines, bronzeOrders, bronzeLines,
                 silverLines, clears, before>>
LinesToSilver ==
  /\ Runs("silver_lines", {"silver_orders"})
  /\ (\E l \in bronzeLines : HasOrder(l)) /\ silverOrders # {}
  /\ silverLines' = {l \in bronzeLines : HasOrder(l) /\ OrderOf[l] \in silverOrders}
  /\ UNCHANGED <<source, landedOrders, landedLines, bronzeOrders, bronzeLines,
                 silverOrders, clears, before>>

(* An operator clears the tasks of one source, of one DAG or of the order  *)
(* lines, each with what follows it in its own DAG, or both DAG runs;      *)
(* objects already written stay.                                           *)
ClearSome ==
  /\ BronzeDag \cup SilverDag \subseteq done
  /\ clears < MaxClears /\ clears' = clears + 1
  /\ \E tasks \in {{"ingest_orders", "bronze_orders"}, {"ingest_lines", "bronze_lines"},
                   BronzeDag, SilverDag, {"silver_lines"}} :
       done' = done \ tasks
  /\ UNCHANGED <<source, lake, before>>
ClearAll ==
  /\ BronzeDag \subseteq done
  /\ clears < MaxClears /\ clears' = clears + 1
  /\ done' = {} /\ before' = sourceLines
  /\ UNCHANGED <<source, lake>>

Next ==
  \/ PlaceOrder \/ AddLine \/ RemoveLine \/ RemoveOrder
  \/ IngestOrders \/ IngestLines \/ OrdersToBronze \/ LinesToBronze
  \/ OrdersToSilver \/ LinesToSilver
  \/ ClearSome \/ ClearAll

Spec == Init /\ [][Next]_vars

----------------------------------------------------------------------------
(* Once the line job has run, each Silver line has its order in Silver:    *)
(* the join of fact_sales loses none, through cleared runs and whatever    *)
(* happened in the source between the two extractions.                     *)
LinesHaveOrders ==
  "silver_lines" \in done => \A l \in silverLines : OrderOf[l] \in silverOrders

(* A line of some order that was in the source when the run began, and     *)
(* still is, reaches Silver in that run. (One without an order never does: *)
(* the line job filters it out.)                                           *)
SettledLinesArrive ==
  "silver_lines" \in done => {l \in before : HasOrder(l)} \subseteq silverLines
=============================================================================
