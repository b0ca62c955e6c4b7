--------------------------- MODULE SilverQuality ---------------------------
(***************************************************************************)
(* Silver tables of one date, the jobs that write them, which Airflow may  *)
(* retry or clear at any time, ingestion that replaces their Bronze        *)
(* partitions, and the quality gate of the order lines, which reads two of *)
(* the tables one after the other. The other gates read one table: they    *)
(* are evaluated on the state (QualityGates).                              *)
(***************************************************************************)
EXTENDS QualityGates

CONSTANTS
  Groups,    \* sets of tables whose jobs read each other's output
  Batch,     \* Batch[t]: Bronze partitions, without the audit columns
  Idle,      \* nothing under way
  MaxLands,  \* bound: times a Bronze partition is written
  MaxWrites  \* bound: times a Silver partition is written

ASSUME QualityAssumption ==
  /\ Groups \subseteq SUBSET Table /\ {MaxLands, MaxWrites} \subseteq Nat
  /\ \A g \in Groups : "order_lines" \in g => "orders" \in g
ASSUME BatchAssumption ==
  \A t \in Table : \A b \in Batch[t] : \A i \in DOMAIN b :
    /\ DOMAIN b[i] = Columns[t]
    /\ \A c \in Columns[t] \cap Text : b[i][c] # Bad
    /\ \A c \in (Grain[t] \cup Required[t]) \ Text : b[i][c] # "empty"
    /\ t = "orders" => b[i].updated_ts \in Int \cup {Null, Bad}

(* The rows of a Silver partition and, as ghosts, where they come from: a  *)
(* Bronze partition and, of order lines, a version of the orders.          *)
Made(rows, from, orders) == [rows |-> rows, bronze |-> from, orders |-> orders]
Unjoined == 0

VARIABLES
  watched,  \* the group this behaviour is about
  bronze,
  silver,   \* what was made of it, see Made
  job,      \* what the attempt under way will write, or Idle
  gate,     \* what the order-line gate has read and said, or Idle
  lands, writes

vars == <<watched, bronze, silver, job, gate, lands, writes>>

Init ==
  /\ watched \in Groups
  /\ bronze = [t \in watched |-> NoRows]
  /\ silver = [t \in watched |-> Made(NoRows, NoRows, Unjoined)]
  /\ job = [t \in watched |-> Idle] /\ gate = Idle
  /\ lands = [t \in watched |-> 0] /\ writes = [t \in watched |-> 0]

(* write_bronze: one _ingested_at for all the rows of the partition.       *)
Ingested(df, at) ==
  [i \in DOMAIN df |->
     [c \in DOMAIN df[i] \cup {"_ingested_at"} |-> IF c = "_ingested_at" THEN at ELSE df[i][c]]]

Land(t) ==
  /\ lands[t] < MaxLands
  /\ lands' = [lands EXCEPT ![t] = @ + 1]
  /\ \E b \in Batch[t] : bronze' = [bronze EXCEPT ![t] = Ingested(b, lands'[t])]
  /\ UNCHANGED <<watched, silver, job, gate, writes>>

----------------------------------------------------------------------------
(* The jobs. An attempt reads and cleans, then writes; a retry or a        *)
(* cleared task reads again, and what the attempt before it had read is    *)
(* gone. An attempt that raises writes nothing.                            *)

ReadInputs(t) ==
  /\ t # "order_lines" /\ Inferable(bronze[t])
  /\ \E rows \in Choices(t, bronze[t]) :
       job' = [job EXCEPT ![t] = Made(rows, bronze[t], Unjoined)]
  /\ UNCHANGED <<watched, bronze, silver, gate, lands, writes>>

(* The order-line job also reads Silver orders, and infers their types.    *)
ReadLinesAndOrders ==
  /\ "order_lines" \in watched
  /\ Inferable(bronze["order_lines"]) /\ Inferable(silver["orders"].rows)
  /\ \E rows \in Choices("order_lines", bronze["order_lines"]) :
       job' = [job EXCEPT !["order_lines"] =
                 Made(JoinedWith(rows, OrderIds(silver["orders"].rows)),
                      bronze["order_lines"], writes["orders"])]
  /\ UNCHANGED <<watched, bronze, silver, gate, lands, writes>>

WriteSilver(t) ==
  /\ job[t] # Idle /\ writes[t] < MaxWrites
  /\ silver' = [silver EXCEPT ![t] = job[t]]
  /\ writes' = [writes EXCEPT ![t] = @ + 1]
  /\ job' = [job EXCEPT ![t] = Idle]
  /\ UNCHANGED <<watched, bronze, gate, lands>>

----------------------------------------------------------------------------
(* validate_silver_order_lines: the order ids first, then the lines. What  *)
(* it says is kept with the versions it read.                              *)

GateReadsOrders ==
  /\ "order_lines" \in watched
  /\ gate' = [ids |-> OrderIds(silver["orders"].rows), orders |-> writes["orders"],
              lines |-> Idle, said |-> Idle]
  /\ UNCHANGED <<watched, bronze, silver, job, lands, writes>>

GateReadsLines ==
  /\ gate # Idle /\ gate.said = Idle
  /\ gate' = [gate EXCEPT !.lines = silver["order_lines"],
                          !.said = SilverOrderLinesSuite(silver["order_lines"].rows, gate.ids)]
  /\ UNCHANGED <<watched, bronze, silver, job, lands, writes>>

Next ==
  \/ \E t \in watched : Land(t) \/ ReadInputs(t) \/ WriteSilver(t)
  \/ ReadLinesAndOrders
  \/ GateReadsOrders \/ GateReadsLines

Spec == Init /\ [][Next]_vars

----------------------------------------------------------------------------
(* The keys of docs/data_dictionary.md and, for suppliers, of the job's    *)
(* own description; and the columns without which it drops a row.          *)
NaturalKey ==
  [customers |-> {"customer_id"}, orders |-> {"order_id"}, order_lines |-> {"order_line_id"},
   products |-> {"product_id"}, stores |-> {"store_id"},
   inventory |-> {"store_id", "product_id", "snapshot_date"},
   suppliers |-> {"supplier_id", "product_sku"}]
Needed == [NaturalKey EXCEPT !.products = {"product_id", "sku"}, !.suppliers = {"product_sku"},
                             !.order_lines = {"order_line_id", "order_id"}]

Usable(t, r) == \A c \in Needed[t] : r[c] \notin {Null, Bad, "empty"}
Stands(r, raw, t) == \A c \in NaturalKey[t] : r[c] = Cast(raw[c])

(* Silver is typed: no cast column keeps raw text no cast accepted.        *)
TypeOK ==
  /\ watched \in Groups
  /\ lands \in [watched -> 0..MaxLands] /\ writes \in [watched -> 0..MaxWrites]
  /\ \A t \in watched :
       /\ DOMAIN silver[t].rows \subseteq DOMAIN silver[t].bronze
       /\ silver[t].orders \in 0..MaxWrites
       /\ \A k \in DOMAIN silver[t].rows : \A c \in DOMAIN silver[t].rows[k] :
            silver[t].rows[k][c] # Bad
  /\ gate # Idle => gate.orders \in 0..MaxWrites

(* A Silver table has one row for each key of the Bronze partition it was  *)
(* made of, and for no other; only order lines may be fewer, for want of   *)
(* their orders. However the rows that share a key came, in whatever order *)
(* and with whatever defects in other columns.                             *)
OneRowPerKey ==
  \A t \in watched :
    LET rows == silver[t].rows
        raw == silver[t].bronze
    IN  /\ \A j, k \in DOMAIN rows : SameKey(rows[j], rows[k], NaturalKey[t]) => j = k
        /\ \A k \in DOMAIN rows : \E i \in DOMAIN raw : Usable(t, raw[i]) /\ Stands(rows[k], raw[i], t)
        /\ t # "order_lines" =>
             \A i \in DOMAIN raw : Usable(t, raw[i]) => \E k \in DOMAIN rows : Stands(rows[k], raw[i], t)

(* The jobs and the suites agree on what Silver guarantees: on a partition *)
(* with rows the gates never fail for a key that is missing or repeated or *)
(* for an order status, whatever was ingested.                             *)
GuaranteedExpectationsHold ==
  \A t \in watched :
    DOMAIN silver[t].rows # {} =>
      LET df == silver[t].rows
          Keys(suite) == suite.key_known /\ suite.key_unique
      IN  CASE t = "customers" -> Keys(SilverCustomersSuite(df))
            [] t = "orders" -> Keys(SilverOrdersSuite(df)) /\ SilverOrdersSuite(df).status
            [] t = "order_lines" -> Keys(SilverOrderLinesSuite(df, {}))
            [] t = "products" -> Keys(SilverProductsSuite(df))
            [] t = "stores" -> Keys(SilverStoresSuite(df))
            [] OTHER -> TRUE

(* The gate blames the lines for missing orders only when it compared them *)
(* with another version of the orders than they were joined with: while    *)
(* nobody reruns the orders job, it raises no orphan alarm.                *)
OrphanAlarmIsStale ==
  gate # Idle /\ gate.said # Idle =>
    (DOMAIN gate.lines.rows # {} /\ ~gate.said.order => gate.orders # gate.lines.orders)

(* A retried or cleared orders job changes nothing when its Bronze         *)
(* partition has not: the rows of an order are ordered by updated_ts, and  *)
(* only rows updated at the same instant leave it a choice.                *)
Tied(df) ==
  \E i, j \in DOMAIN df :
    i # j /\ df[i].order_id = df[j].order_id /\ Cast(df[i].updated_ts) = Cast(df[j].updated_ts)
RerunIsStable ==
  [][ "orders" \in watched =>
        (silver'["orders"].bronze = silver["orders"].bronze /\ ~Tied(silver["orders"].bronze)
           => silver'["orders"] = silver["orders"]) ]_vars
=============================================================================
