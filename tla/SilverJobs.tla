---------------------------- MODULE SilverJobs ----------------------------
(***************************************************************************)
(* What the seven Silver jobs (spark/jobs/) make of a Bronze partition, as *)
(* operators. A frame is a function from row numbers to rows; a row is a   *)
(* record of columns. Only columns that some filter, key, order or         *)
(* expectation looks at are kept.                                          *)
(***************************************************************************)
EXTENDS Integers

CONSTANTS
  Null,   \* SQL NULL, and a field that is absent from a raw record
  Bad     \* raw text that no cast and no date format accepts

ASSUME ValueAssumption == Bad # Null /\ {Bad, Null} \cap (Int \cup {"valid", "empty", "unknown"}) = {}

Table == {"customers", "orders", "order_lines", "products", "stores",
          "inventory", "suppliers"}

(* The columns of the Bronze tables, and those that no job casts.          *)
Columns ==
  [customers |-> {"customer_id", "loyalty_tier", "email"},
   orders |-> {"order_id", "customer_id", "order_status", "updated_ts"},
   order_lines |-> {"order_line_id", "order_id", "quantity", "unit_price"},
   products |-> {"product_id", "sku", "unit_price"},
   stores |-> {"store_id"},
   inventory |-> {"store_id", "product_id", "snapshot_date"},
   suppliers |-> {"supplier_id", "product_sku"}]
Text == {"loyalty_tier", "email", "order_status", "sku", "product_sku"}

NoRows == [i \in {} |-> Null]

(* PySpark infers the type of a column from its values: it gives up on a   *)
(* column that is NULL in every row, and an empty frame has none of the    *)
(* columns that `clean' reads. Either way the job raises.                  *)
Inferable(df) ==
  /\ DOMAIN df # {}
  /\ \A i \in DOMAIN df : \A c \in DOMAIN df[i] : {df[j][c] : j \in DOMAIN df} # {Null}

----------------------------------------------------------------------------
(* Cleaning one row.                                                       *)

(* cast and to_date without ANSI mode, as in the Spark 3.5 of docker/spark. *)
Cast(v) == IF v = Bad THEN Null ELSE v

(* An email or a sku is its kind: only its layout is ever looked at.       *)
TrimAndLower(v) == CASE v = "untidy" -> "valid" [] v = "spaces" -> "empty" [] OTHER -> v
NullIfBlank(v) == IF v = "empty" THEN Null ELSE v

KnownStatuses == {"pending", "completed", "cancelled", "refunded"}

(* A plausible bug: an unlisted status is passed on.                       *)
ValidStatusAsIs(v) == v
ValidStatus(v) == IF v \in KnownStatuses THEN v ELSE "unknown"

CleanCustomer(r) ==
  [r EXCEPT !.customer_id = Cast(@), !.email = NullIfBlank(TrimAndLower(@))]
CleanOrder(r) ==
  [r EXCEPT !.order_id = Cast(@), !.customer_id = Cast(@), !.updated_ts = Cast(@),
            !.order_status = ValidStatus(@)]
CleanOrderLine(r) ==
  [r EXCEPT !.order_line_id = Cast(@), !.order_id = Cast(@),
            !.quantity = Cast(@), !.unit_price = Cast(@)]
CleanProduct(r) ==
  [r EXCEPT !.product_id = Cast(@), !.unit_price = Cast(@), !.sku = NullIfBlank(@)]
CleanStore(r) == [r EXCEPT !.store_id = Cast(@)]
CleanInventory(r) ==
  [r EXCEPT !.store_id = Cast(@), !.product_id = Cast(@), !.snapshot_date = Cast(@)]
(* A plausible bug: the supplier is left as text.                          *)
CleanSupplierUncast(r) == [r EXCEPT !.product_sku = NullIfBlank(@)]
CleanSupplier(r) ==
  [r EXCEPT !.supplier_id = Cast(@), !.product_sku = NullIfBlank(@)]

CleanRow(t, r) ==
  CASE t = "customers" -> CleanCustomer(r)
    [] t = "orders" -> CleanOrder(r)
    [] t = "order_lines" -> CleanOrderLine(r)
    [] t = "products" -> CleanProduct(r)
    [] t = "stores" -> CleanStore(r)
    [] t = "inventory" -> CleanInventory(r)
    [] t = "suppliers" -> CleanSupplier(r)

----------------------------------------------------------------------------
(* Dropping rows and keeping one of each key.                              *)

(* The columns a row is dropped for lacking.                               *)
Required ==
  [customers |-> {"customer_id"}, orders |-> {"order_id"},
   order_lines |-> {"order_line_id", "order_id"}, products |-> {"product_id", "sku"},
   stores |-> {"store_id"}, inventory |-> {"store_id", "product_id", "snapshot_date"},
   suppliers |-> {"product_sku"}]

(* A plausible bug: a catalog line belongs to a product, whoever sells it. *)
GrainOfProduct == [Required EXCEPT !.order_lines = {"order_line_id"}, !.products = {"product_id"}]

(* key_cols of dedup_latest: the grain of the Silver table.                *)
Grain ==
  [customers |-> {"customer_id"}, orders |-> {"order_id"},
   order_lines |-> {"order_line_id"}, products |-> {"product_id"},
   stores |-> {"store_id"}, inventory |-> {"store_id", "product_id", "snapshot_date"},
   suppliers |-> {"supplier_id", "product_sku"}]

(* order_col of dedup_latest. A plausible bug: the same for every table.   *)
OrderedByIngestion(t) == "_ingested_at"
OrderedBy(t) == IF t = "orders" THEN "updated_ts" ELSE "_ingested_at"

Cleaned(t, df) ==
  LET kept == {i \in DOMAIN df : \A c \in Required[t] : CleanRow(t, df[i])[c] # Null}
  IN  [i \in kept |-> CleanRow(t, df[i])]

(* PARTITION BY puts NULL keys together.                                   *)
SameKey(r, s, cols) == \A c \in cols : r[c] = s[c]

(* ORDER BY ... DESC puts NULL last.                                       *)
AtLeast(a, b) == b = Null \/ (a # Null /\ a >= b)

(* The sets of rows dedup_latest may keep: one row of each key, than which *)
(* none of the key is later. row_number leaves open which of several.      *)
DedupLatest(df, cols, col) ==
  {K \in SUBSET DOMAIN df :
     /\ \A i \in DOMAIN df : \E k \in K :
          SameKey(df[i], df[k], cols) /\ AtLeast(df[k][col], df[i][col])
     /\ \A j, k \in K : SameKey(df[j], df[k], cols) => j = k}

Rows(df, K) == [k \in K |-> df[k]]

Choices(t, df) ==
  {Rows(Cleaned(t, df), K) : K \in DedupLatest(Cleaned(t, df), Grain[t], OrderedBy(t))}

(* left_semi join of the order lines with the Silver orders. A plausible   *)
(* bug: a left join.                                                       *)
JoinedLeft(lines, ids) == lines
JoinedWith(lines, ids) ==
  Rows(lines, {k \in DOMAIN lines : lines[k].order_id \in ids})

OrderIds(orders) == {orders[k].order_id : k \in DOMAIN orders}
=============================================================================
