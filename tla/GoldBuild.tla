----------------------------- MODULE GoldBuild -----------------------------
(***************************************************************************)
(* run_gold_build (pipelines/gold/runner.py) as the DAG openlake_gold_build *)
(* runs it: one Airflow run per batch date, six tables built and put one   *)
(* after the other in the Gold bucket, a crash possible between any two    *)
(* steps, and the whole task started over by Airflow (retries in           *)
(* DEFAULT_ARGS). There is no lock and no transaction: each table is one   *)
(* object, and put_bytes replaces it.                                      *)
(*                                                                         *)
(* Which schedules are allowed is a matter of three constants; the         *)
(* ordinary one is MaxActiveRuns = 1, Backfill = FALSE, SilverRerun =      *)
(* FALSE: the runs of successive days do not overlap.                      *)
(***************************************************************************)
EXTENDS DimCustomer, FiniteSets

CONSTANTS
  Product, Store,      \* natural keys, which are also the surrogate keys
  Order, Line,         \* order_id and order_line_id values
  OrderCustomer, OrderStore, OrderDate,   \* columns of an order
  LineOrder, LineProduct,                 \* columns of an order line
  SilverContent,       \* what the Silver partitions of one batch can hold
  Calendar,            \* the days build_dim_date generates
  MaxTries,            \* attempts of a task: 1 + retries
  MaxStarts,           \* bound on the number of Airflow runs started
  MaxActiveRuns,       \* runs of the DAG that may be active together
  Backfill,            \* may a run start for a batch before the latest one started
  SilverRerun          \* may a Silver partition be written again

ASSUME ReferenceAssumption ==
  /\ OrderCustomer \in [Order -> Customer]
  /\ OrderStore \in [Order -> Store]
  /\ OrderDate \in [Order -> Nat]
  /\ LineOrder \in [Line -> Order]
  /\ LineProduct \in [Line -> Product]
ASSUME KeyAssumption == Null \notin Customer \X Date
ASSUME BoundAssumption ==
  MaxTries \in Nat \ {0} /\ MaxStarts \in Nat /\ MaxActiveRuns \in Nat \ {0}
ASSUME ScheduleAssumption == Backfill \in BOOLEAN /\ SilverRerun \in BOOLEAN

(* The partitions of a batch: the customers (see DimCustomer), the         *)
(* products and stores present, the orders present with their status, the  *)
(* order lines present. The status is reduced to whether daily_sales_      *)
(* summary counts the order: cancelled and refunded orders it does not.    *)
Status == {"billable", "cancelled"}
Content == [customers : Partition, products : SUBSET Product, stores : SUBSET Store,
            orders : UNION {[S -> Status] : S \in SUBSET Order}, lines : SUBSET Line]
ASSUME ContentAssumption ==
  SilverContent \subseteq Content /\ \A content \in SilverContent : IsFiniteSet(content.lines)

NoContent == [customers |-> EmptyPartition, products |-> {}, stores |-> {},
              orders |-> [o \in {} |-> "billable"], lines |-> {}]

FactRow == [line : Line, order : Order, status : Status,
            customer_sk : (Customer \X Date) \cup {Null}, version : Nat \cup {Null},
            product_sk : Product \cup {Null}, store_sk : Store \cup {Null},
            date_key : Nat \cup {Null}]

VARIABLES
  silver,    \* silver[d]: the Silver partitions of batch d
  written,   \* the batches whose Silver partitions have been written
  gold,      \* the six Gold tables
  pc, tries, \* per run: next step, number of the attempt
  local,     \* per run: the row lists run_gold_build holds
  starts,    \* number of Airflow runs started, for the bound
  writes,    \* ghost: number of writes of dim_customer
  lastBatch, \* ghost: batch of the last write of dim_customer
  factBatch  \* ghost: batch of the last write of fact_sales

vars == <<silver, written, gold, pc, tries, local, starts, writes, lastBatch, factBatch>>

NoRows == [dates |-> {}, customers |-> {}, products |-> {}, stores |-> {}, facts |-> {}]
EmptyGold == [dim_date |-> {}, dim_customer |-> {}, dim_product |-> {}, dim_store |-> {},
              fact_sales |-> {}, daily_sales_summary |-> {}]

Init ==
  /\ silver = [d \in Date |-> NoContent]
  /\ written = {}
  /\ gold = EmptyGold
  /\ pc = [d \in Date |-> "idle"]
  /\ tries = [d \in Date |-> 0]
  /\ local = [d \in Date |-> NoRows]
  /\ starts = 0 /\ writes = 0 /\ lastBatch = 0 /\ factBatch = 0

----------------------------------------------------------------------------
(* The builders that are pure functions of what they read.                 *)

OrNull(x, S) == IF x \in S THEN x ELSE Null

(* Plausible bugs of Versions: the current version whatever the date; an   *)
(* inner join.                                                             *)
CurrentVersionOnly(customers, o) ==
  LET found == {r \in Current(customers) : r.id = OrderCustomer[o]}
  IN  IF found = {} THEN {[sk |-> Null, build |-> Null]}
      ELSE {[sk |-> r.sk, build |-> r.build] : r \in found}
VersionsInnerJoin(customers, o) ==
  {[sk |-> r.sk, build |-> r.build] :
     r \in PointInTime(customers, OrderCustomer[o], OrderDate[o])}

(* LEFT JOIN dim_customer: one row for each version in effect on the       *)
(* order's date, one row with NULL if there is none. `version' keeps apart *)
(* rows that would differ in no column.                                    *)
Versions(customers, o) ==
  LET found == PointInTime(customers, OrderCustomer[o], OrderDate[o])
  IN  IF found = {} THEN {[sk |-> Null, build |-> Null]}
      ELSE {[sk |-> r.sk, build |-> r.build] : r \in found}

FactRows(content, customers, products, stores, dates) ==
  IF content.lines = {} \/ DOMAIN content.orders = {} THEN {}
  ELSE UNION {
    LET o == LineOrder[l] IN
      {[line |-> l, order |-> o, status |-> content.orders[o],
        customer_sk |-> v.sk, version |-> v.build,
        product_sk |-> OrNull(LineProduct[l], products),
        store_sk |-> OrNull(OrderStore[o], stores),
        date_key |-> OrNull(OrderDate[o], dates)] : v \in Versions(customers, o)}
    : l \in {x \in content.lines : LineOrder[x] \in DOMAIN content.orders}}

(* The KPI aggregate, one row per (date_key, store_id). Of its measures,   *)
(* the number of distinct orders and the number of fact rows summed over   *)
(* (total_quantity and total_revenue add one term per fact row).           *)
SummaryRows(facts, stores) ==
  LET counted == {f \in facts : f.status # "cancelled"}
      StoreOf(f) == OrNull(f.store_sk, stores)
      Group(k) == {f \in counted : <<f.date_key, StoreOf(f)>> = k}
  IN  {[date_key |-> k[1], store_id |-> k[2],
        total_orders |-> Cardinality({f.order : f \in Group(k)}),
        summed_rows |-> Cardinality(Group(k))]
       : k \in {<<f.date_key, StoreOf(f)>> : f \in counted}}

----------------------------------------------------------------------------
Running == {"date", "read_customer", "write_customer", "product", "store",
            "fact", "summary"}
Active == {d \in Date : pc[d] \in Running}
Started == {d \in Date : pc[d] # "idle"}

(* The Silver DAG writes the partitions of batch d.                        *)
WriteSilver(d) ==
  /\ SilverRerun \/ d \notin written
  /\ \E content \in SilverContent : silver' = [silver EXCEPT ![d] = content]
  /\ written' = written \cup {d}
  /\ UNCHANGED <<gold, pc, tries, local, starts, writes, lastBatch, factBatch>>

(* A plausible bug of Start: no limit on the runs active together.         *)
StartUnlimited(d) ==
  /\ pc[d] \in {"idle", "success", "failed"}
  /\ d \in written
  /\ starts < MaxStarts
  /\ Backfill \/ \A e \in Started : e <= d
  /\ pc' = [pc EXCEPT ![d] = "date"]
  /\ tries' = [tries EXCEPT ![d] = 1]
  /\ starts' = starts + 1
  /\ UNCHANGED <<silver, written, gold, local, writes, lastBatch, factBatch>>

(* Airflow starts the run of batch d (its sensor has seen the Silver run). *)
Start(d) ==
  /\ pc[d] \in {"idle", "success", "failed"}
  /\ d \in written
  /\ starts < MaxStarts
  /\ Cardinality(Active) < MaxActiveRuns
  /\ Backfill \/ \A e \in Started : e <= d
  /\ pc' = [pc EXCEPT ![d] = "date"]
  /\ tries' = [tries EXCEPT ![d] = 1]
  /\ starts' = starts + 1
  /\ UNCHANGED <<silver, written, gold, local, writes, lastBatch, factBatch>>

Goto(d, step) == pc' = [pc EXCEPT ![d] = step]

(* dim_date is generated once, by the first run that finds it missing.     *)
BuildDimDate(d) ==
  LET rows == IF gold.dim_date = {} THEN Calendar ELSE gold.dim_date IN
  /\ pc[d] = "date"
  /\ local' = [local EXCEPT ![d].dates = rows]
  /\ gold' = [gold EXCEPT !.dim_date = rows]
  /\ Goto(d, "read_customer")
  /\ UNCHANGED <<silver, written, tries, starts, writes, lastBatch, factBatch>>

(* build_dim_customer: Silver and the existing table are read ...          *)
ReadDimCustomer(d) ==
  /\ pc[d] = "read_customer"
  /\ local' = [local EXCEPT ![d].customers =
       BuildDimCustomer(gold.dim_customer, silver[d].customers, d, writes)]
  /\ Goto(d, "write_customer")
  /\ UNCHANGED <<silver, written, gold, tries, starts, writes, lastBatch, factBatch>>

(* ... and the merged rows replace the table.                              *)
WriteDimCustomer(d) ==
  /\ pc[d] = "write_customer"
  /\ gold' = [gold EXCEPT !.dim_customer = local[d].customers]
  /\ writes' = writes + 1
  /\ lastBatch' = d
  /\ Goto(d, "product")
  /\ UNCHANGED <<silver, written, tries, local, starts, factBatch>>

(* Type 1: the partition of the batch, an empty one too, replaces the      *)
(* table.                                                                  *)
BuildDimProduct(d) ==
  /\ pc[d] = "product"
  /\ local' = [local EXCEPT ![d].products = silver[d].products]
  /\ gold' = [gold EXCEPT !.dim_product = silver[d].products]
  /\ Goto(d, "store")
  /\ UNCHANGED <<silver, written, tries, starts, writes, lastBatch, factBatch>>

BuildDimStore(d) ==
  /\ pc[d] = "store"
  /\ local' = [local EXCEPT ![d].stores = silver[d].stores]
  /\ gold' = [gold EXCEPT !.dim_store = silver[d].stores]
  /\ Goto(d, "fact")
  /\ UNCHANGED <<silver, written, tries, starts, writes, lastBatch, factBatch>>

(* The fact table is rebuilt from the run's own dimension rows, not from   *)
(* the Gold tables.                                                        *)
BuildFactSales(d) ==
  LET rows == FactRows(silver[d], local[d].customers, local[d].products,
                       local[d].stores, local[d].dates) IN
  /\ pc[d] = "fact"
  /\ local' = [local EXCEPT ![d].facts = rows]
  /\ gold' = [gold EXCEPT !.fact_sales = rows]
  /\ factBatch' = d
  /\ Goto(d, "summary")
  /\ UNCHANGED <<silver, written, tries, starts, writes, lastBatch>>

BuildDailySalesSummary(d) ==
  /\ pc[d] = "summary"
  /\ gold' = [gold EXCEPT !.daily_sales_summary =
                SummaryRows(local[d].facts, local[d].stores)]
  /\ local' = [local EXCEPT ![d] = NoRows]
  /\ Goto(d, "success")
  /\ UNCHANGED <<silver, written, tries, starts, writes, lastBatch, factBatch>>

(* Plausible bugs of Crash: one attempt too many; the retry resumes at the *)
(* step that failed, without the rows.                                     *)
CrashOneTryTooMany(d) ==
  /\ pc[d] \in Running
  /\ local' = [local EXCEPT ![d] = NoRows]
  /\ IF tries[d] <= MaxTries
     THEN Goto(d, "date") /\ tries' = [tries EXCEPT ![d] = @ + 1]
     ELSE Goto(d, "failed") /\ UNCHANGED tries
  /\ UNCHANGED <<silver, written, gold, starts, writes, lastBatch, factBatch>>
CrashResumesMidway(d) ==
  /\ pc[d] \in Running
  /\ local' = [local EXCEPT ![d] = NoRows]
  /\ IF tries[d] < MaxTries
     THEN tries' = [tries EXCEPT ![d] = @ + 1] /\ UNCHANGED pc
     ELSE Goto(d, "failed") /\ UNCHANGED tries
  /\ UNCHANGED <<silver, written, gold, starts, writes, lastBatch, factBatch>>

(* The task dies (an exception of the store or of DuckDB, a killed         *)
(* worker): its rows are lost, what it put stays. Airflow starts it over   *)
(* from the top, or gives up after MaxTries attempts.                      *)
Crash(d) ==
  /\ pc[d] \in Running
  /\ local' = [local EXCEPT ![d] = NoRows]
  /\ IF tries[d] < MaxTries
     THEN Goto(d, "date") /\ tries' = [tries EXCEPT ![d] = @ + 1]
     ELSE Goto(d, "failed") /\ UNCHANGED tries
  /\ UNCHANGED <<silver, written, gold, starts, writes, lastBatch, factBatch>>

Step(d) ==
  \/ BuildDimDate(d) \/ ReadDimCustomer(d) \/ WriteDimCustomer(d)
  \/ BuildDimProduct(d) \/ BuildDimStore(d)
  \/ BuildFactSales(d) \/ BuildDailySalesSummary(d)

Next == \E d \in Date : WriteSilver(d) \/ Start(d) \/ Step(d) \/ Crash(d)

Spec == Init /\ [][Next]_vars

----------------------------------------------------------------------------
TypeOK ==
  /\ silver \in [Date -> SilverContent \cup {NoContent}]
  /\ written \subseteq Date
  /\ gold.dim_customer \subseteq Row /\ gold.fact_sales \subseteq FactRow
  /\ gold.dim_date \in {{}, Calendar}
  /\ pc \in [Date -> Running \cup {"idle", "success", "failed"}]
  /\ tries \in [Date -> 0..MaxTries]
  /\ starts \in 0..MaxStarts
  /\ lastBatch \in Date \cup {0} /\ factBatch \in Date \cup {0}

(* "Grain: one row per order line" (fact_sales.py): the point-in-time join *)
(* never finds two versions for an order.                                  *)
FactGrain == \A f, g \in gold.fact_sales : f.line = g.line => f = g

(* The stored fact table and the stored dimension agree at every moment,   *)
(* in the middle of a run and after one that died between the two tables:  *)
(* the key in a fact row is the one version in effect on the order's date  *)
(* (NULL when there is none). Orders dated after the batch the facts were  *)
(* built from are left out: their version is not settled yet.              *)
FactAgreesWithDimension ==
  \A f \in gold.fact_sales :
    OrderDate[f.order] <= factBatch =>
      {r.sk : r \in PointInTime(gold.dim_customer, OrderCustomer[f.order], OrderDate[f.order])}
        = {f.customer_sk} \ {Null}

(* A rebuild of fact_sales does not rewrite the past: an order settled at  *)
(* the previous build keeps its customer version (fact_sales.py: joining   *)
(* on current attributes "would silently rewrite history").                *)
PastFactsStable ==
  [][\A f \in gold.fact_sales, g \in gold'.fact_sales :
       f.line = g.line /\ OrderDate[f.order] <= factBatch
         => f.customer_sk = g.customer_sk]_vars

(* Whatever crashed on the way, when the run of the latest batch has       *)
(* succeeded every table is what its Silver partitions say: the retries    *)
(* left no trace (pipelines/README.md: runner.py builds every table in     *)
(* dependency order for a batch_date).                                     *)
Settled(d) == pc[d] = "success" /\ Active = {} /\ \A e \in Started : e <= d
SuccessIsConsistent ==
  \A d \in Date : Settled(d) =>
    /\ gold.dim_product = silver[d].products
    /\ gold.dim_store = silver[d].stores
    /\ gold.fact_sales = FactRows(silver[d], gold.dim_customer, gold.dim_product,
                                  gold.dim_store, gold.dim_date)
    /\ gold.daily_sales_summary = SummaryRows(gold.fact_sales, gold.dim_store)

(* The summary counts every line of a billable order once: each is in one  *)
(* row, that of its date and store, none is lost by a missing dimension    *)
(* row (it is in a NULL group then), none is counted twice, and a row's    *)
(* measures are over its lines and their orders.                           *)
BilledLines(d) ==
  {l \in silver[d].lines :
     /\ LineOrder[l] \in DOMAIN silver[d].orders
     /\ silver[d].orders[LineOrder[l]] = "billable"}
GroupOf(l, d) == <<OrNull(OrderDate[LineOrder[l]], gold.dim_date),
                   OrNull(OrderStore[LineOrder[l]], silver[d].stores)>>
LinesIn(row, d) == {l \in BilledLines(d) : GroupOf(l, d) = <<row.date_key, row.store_id>>}

EachLineSummedOnce ==
  \A d \in Date : Settled(d) =>
    LET summary == gold.daily_sales_summary IN
    /\ \A l \in BilledLines(d) : \E row \in summary :
         \A other \in summary : l \in LinesIn(other, d) <=> other = row
    /\ \A row \in summary :
         /\ row.summed_rows = Cardinality(LinesIn(row, d))
         /\ row.total_orders = Cardinality({LineOrder[l] : l \in LinesIn(row, d)})

(* What a run may do to the versions already stored, in any order of runs  *)
(* and over any Silver contents: it drops none and rewrites no key or      *)
(* attribute ("full history tracked on email/name/loyalty_tier changes",   *)
(* dim_customer.py).                                                       *)
VersionsKept ==
  [][\A r \in gold.dim_customer :
       \E s \in gold'.dim_customer :
         r.sk = s.sk /\ r.attr = s.attr /\ r.build = s.build]_vars

(* Taken apart, crashed and retried, the build of dim_customer still is    *)
(* the atomic one of CustomerDimension: a retry builds the same batch      *)
(* again. All that is proved there holds of the stored table.              *)
Dimension == INSTANCE CustomerDimension WITH
  MaxBuilds <- MaxStarts * MaxTries,
  silver <- [d \in Date |-> silver[d].customers],
  dimCustomer <- gold.dim_customer,
  builds <- writes

ImplementsDimension == Dimension!Spec
=============================================================================
