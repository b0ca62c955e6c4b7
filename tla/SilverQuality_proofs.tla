----------------------- MODULE SilverQuality_proofs -----------------------
(***************************************************************************)
(* Proofs about the Silver jobs and the quality gates, for every content   *)
(* of the Bronze partitions (BatchAssumption) and any number of rows,      *)
(* ingestions, reruns and reads of the gate.                               *)
(***************************************************************************)
EXTENDS SilverQuality, TLAPS

(* A row of a Bronze partition, with its audit column.                     *)
RawRow(t, r) ==
  /\ r = [c \in Columns[t] \cup {"_ingested_at"} |-> r[c]]
  /\ \A c \in Columns[t] \cap Text : r[c] # Bad
  /\ \A c \in (Grain[t] \cup Required[t]) \ Text : r[c] # "empty"
  /\ t = "orders" => r.updated_ts \in Int \cup {Null, Bad}
  /\ r["_ingested_at"] \in Nat

Landed(t, df) == \A i \in DOMAIN df : RawRow(t, df[i])

(* What a job makes: one of the choices its Bronze partition leaves it, of *)
(* which the order lines keep some rows only.                              *)
Faithful(t, m) ==
  /\ m = Made(m.rows, m.bronze, m.orders) /\ m.orders \in 0..MaxWrites
  /\ t = "order_lines" \/ m.orders = Unjoined
  /\ Landed(t, m.bronze)
  /\ \E rows \in Choices(t, m.bronze) :
       \E S \in SUBSET DOMAIN rows :
         m.rows = Rows(rows, S) /\ (t = "order_lines" \/ S = DOMAIN rows)

Shapes ==
  /\ watched \in Groups
  /\ lands \in [watched -> 0..MaxLands] /\ writes \in [watched -> 0..MaxWrites]
  /\ bronze = [t \in watched |-> bronze[t]]
  /\ silver = [t \in watched |-> silver[t]] /\ job = [t \in watched |-> job[t]]
  /\ \A t \in watched :
       /\ Landed(t, bronze[t]) /\ Faithful(t, silver[t])
       /\ job[t] # Idle => Faithful(t, job[t])

(* How versions of the orders travel: lines joined with the orders now in  *)
(* Silver, or with those the gate has read, have their orders there.       *)
UpToDate(m) ==
  /\ m.orders <= writes["orders"]
  /\ m.orders = writes["orders"] => OrderIds(m.rows) \subseteq OrderIds(silver["orders"].rows)
AgreesWithGate(m) ==
  gate # Idle /\ m.orders = gate.orders => OrderIds(m.rows) \subseteq gate.ids
GateReading ==
  gate # Idle =>
    /\ "order_lines" \in watched
    /\ gate = [ids |-> gate.ids, orders |-> gate.orders, lines |-> gate.lines, said |-> gate.said]
    /\ gate.orders \in 0..writes["orders"]
    /\ gate.orders = writes["orders"] => gate.ids = OrderIds(silver["orders"].rows)
    /\ gate.said # Idle =>
         /\ gate.said = SilverOrderLinesSuite(gate.lines.rows, gate.ids)
         /\ AgreesWithGate(gate.lines)
Versions ==
  "order_lines" \in watched =>
    /\ UpToDate(silver["order_lines"]) /\ AgreesWithGate(silver["order_lines"])
    /\ job["order_lines"] # Idle =>
         UpToDate(job["order_lines"]) /\ AgreesWithGate(job["order_lines"])

IInv == Shapes /\ GateReading /\ Versions

----------------------------------------------------------------------------
(* Cleaning a row: it is kept when its key is usable, and its key is that  *)
(* of the raw row; what is left is typed.                                  *)
LEMMA KeysAgree == ASSUME NEW t \in Table PROVE NaturalKey[t] = Grain[t] /\ Needed[t] = Required[t]
<1> USE DEF NaturalKey, Grain, Needed, Required
<1>1. CASE t = "customers" BY <1>1
<1>2. CASE t = "orders" BY <1>2
<1>3. CASE t = "order_lines" BY <1>3
<1>4. CASE t = "products" BY <1>4
<1>5. CASE t = "stores" BY <1>5
<1>6. CASE t = "inventory" BY <1>6
<1>7. CASE t = "suppliers" BY <1>7
<1>8. QED
  BY <1>1, <1>2, <1>3, <1>4, <1>5, <1>6, <1>7 DEF Table

LEMMA CleanedKeys ==
  ASSUME NEW t \in Table, NEW r, RawRow(t, r)
  PROVE  /\ (\A c \in Required[t] : CleanRow(t, r)[c] # Null) <=> Usable(t, r)
         /\ Usable(t, r) => \A c \in Grain[t] : CleanRow(t, r)[c] = Cast(r[c])
<1> USE ValueAssumption DEF RawRow, Usable, CleanRow, Cast, NullIfBlank, Columns, Text, Grain,
      Required, Needed, NaturalKey
<1>1. CASE t = "customers"
  BY <1>1 DEF CleanCustomer
<1>2. CASE t = "orders"
  BY <1>2 DEF CleanOrder
<1>3. CASE t = "order_lines"
  BY <1>3 DEF CleanOrderLine
<1>4. CASE t = "products"
  BY <1>4 DEF CleanProduct
<1>5. CASE t = "stores"
  BY <1>5 DEF CleanStore
<1>6. CASE t = "inventory"
  BY <1>6 DEF CleanInventory
<1>7. CASE t = "suppliers"
  BY <1>7 DEF CleanSupplier
<1>8. QED
  BY <1>1, <1>2, <1>3, <1>4, <1>5, <1>6, <1>7 DEF Table

LEMMA CleanedTyped ==
  ASSUME NEW t \in Table, NEW r, RawRow(t, r)
  PROVE  \A c \in DOMAIN CleanRow(t, r) : CleanRow(t, r)[c] # Bad
<1>1. \A v : Cast(v) # Bad
  BY ValueAssumption DEF Cast
<1>2. \A v : v # Bad =>
        NullIfBlank(TrimAndLower(v)) # Bad /\ NullIfBlank(v) # Bad /\ ValidStatus(v) # Bad
  BY ValueAssumption DEF NullIfBlank, TrimAndLower, ValidStatus
<1>3. r["_ingested_at"] # Bad
  BY ValueAssumption DEF RawRow
<1>4. /\ r = [c \in Columns[t] \cup {"_ingested_at"} |-> r[c]]
      /\ \A c \in Columns[t] \cap Text : r[c] # Bad
  BY DEF RawRow
<1> USE <1>1, <1>2, <1>3, <1>4 DEF CleanRow, Columns, Text
<1>5. CASE t = "customers"
  BY <1>5 DEF CleanCustomer
<1>6. CASE t = "orders"
  <2>1. /\ CleanRow(t, r) = CleanOrder(r) /\ r.order_status # Bad
        /\ DOMAIN r = {"order_id", "customer_id", "order_status", "updated_ts", "_ingested_at"}
    BY <1>6
  <2>2. DOMAIN CleanOrder(r) = DOMAIN r
    BY DEF CleanOrder
  <2>3. /\ CleanOrder(r)["order_id"] # Bad /\ CleanOrder(r)["customer_id"] # Bad
        /\ CleanOrder(r)["updated_ts"] # Bad /\ CleanOrder(r)["order_status"] # Bad
        /\ CleanOrder(r)["_ingested_at"] # Bad
    BY <2>1 DEF CleanOrder
  <2>4. QED
    BY <2>1, <2>2, <2>3
<1>7. CASE t = "order_lines"
  <2>1. /\ CleanRow(t, r) = CleanOrderLine(r)
        /\ DOMAIN r = {"order_line_id", "order_id", "quantity", "unit_price", "_ingested_at"}
    BY <1>7
  <2>2. DOMAIN CleanOrderLine(r) = DOMAIN r
    BY DEF CleanOrderLine
  <2>3. /\ CleanOrderLine(r)["order_line_id"] # Bad /\ CleanOrderLine(r)["order_id"] # Bad
        /\ CleanOrderLine(r)["quantity"] # Bad /\ CleanOrderLine(r)["unit_price"] # Bad
        /\ CleanOrderLine(r)["_ingested_at"] # Bad
    BY <2>1 DEF CleanOrderLine
  <2>4. QED
    BY <2>1, <2>2, <2>3
<1>8. CASE t = "products"
  BY <1>8 DEF CleanProduct
<1>9. CASE t = "stores"
  BY <1>9 DEF CleanStore
<1>10. CASE t = "inventory"
  BY <1>10 DEF CleanInventory
<1>11. CASE t = "suppliers"
  BY <1>11 DEF CleanSupplier
<1>12. QED
  BY <1>5, <1>6, <1>7, <1>8, <1>9, <1>10, <1>11 DEF Table

----------------------------------------------------------------------------
(* What a job makes, row by row: cleaned usable rows, one for each key.    *)
LEMMA MadeOfBronze ==
  ASSUME NEW t \in Table, NEW m, Faithful(t, m)
  PROVE  /\ \A k \in DOMAIN m.rows :
              k \in DOMAIN m.bronze /\ Usable(t, m.bronze[k]) /\ m.rows[k] = CleanRow(t, m.bronze[k])
         /\ \A j, k \in DOMAIN m.rows : SameKey(m.rows[j], m.rows[k], Grain[t]) => j = k
         /\ t # "order_lines" =>
              /\ m.rows \in Choices(t, m.bronze)
              /\ \A i \in DOMAIN m.bronze : Usable(t, m.bronze[i]) =>
                   \E k \in DOMAIN m.rows : SameKey(CleanRow(t, m.bronze[i]), m.rows[k], Grain[t])
<1> DEFINE df == Cleaned(t, m.bronze)
<1>0. PICK rows \in Choices(t, m.bronze) :
        \E S \in SUBSET DOMAIN rows :
          m.rows = Rows(rows, S) /\ (t = "order_lines" \/ S = DOMAIN rows)
  BY DEF Faithful
<1>1. PICK S \in SUBSET DOMAIN rows :
        m.rows = Rows(rows, S) /\ (t = "order_lines" \/ S = DOMAIN rows)
  BY <1>0
<1>2. PICK K \in DedupLatest(df, Grain[t], OrderedBy(t)) : rows = Rows(df, K)
  BY <1>1 DEF Choices
<1>3. /\ K \subseteq DOMAIN df
      /\ \A i \in DOMAIN df : \E k \in K : SameKey(df[i], df[k], Grain[t])
      /\ \A j, k \in K : SameKey(df[j], df[k], Grain[t]) => j = k
  BY <1>2 DEF DedupLatest
<1>4. \A i \in DOMAIN m.bronze : RawRow(t, m.bronze[i])
  BY DEF Faithful, Landed
<1>5. \A i : i \in DOMAIN df <=> i \in DOMAIN m.bronze /\ Usable(t, m.bronze[i])
  BY <1>4, CleanedKeys DEF Cleaned
<1>6. \A i \in DOMAIN df : df[i] = CleanRow(t, m.bronze[i])
  BY DEF Cleaned
<1> HIDE DEF df
<1>7. /\ DOMAIN rows = K /\ \A k \in K : rows[k] = df[k]
      /\ DOMAIN m.rows = S /\ \A k \in S : m.rows[k] = df[k]
  BY <1>1, <1>2 DEF Rows
<1>8. ASSUME t # "order_lines" PROVE m.rows = rows
  BY <1>1, <1>2, <1>7, <1>8 DEF Rows
<1>9. QED
  BY <1>1, <1>3, <1>5, <1>6, <1>7, <1>8

LEMMA OneRowPerKeyOf ==
  ASSUME NEW t \in Table, NEW m, Faithful(t, m)
  PROVE  /\ \A j, k \in DOMAIN m.rows : SameKey(m.rows[j], m.rows[k], NaturalKey[t]) => j = k
         /\ \A k \in DOMAIN m.rows :
              \E i \in DOMAIN m.bronze : Usable(t, m.bronze[i]) /\ Stands(m.rows[k], m.bronze[i], t)
         /\ t # "order_lines" =>
              \A i \in DOMAIN m.bronze : Usable(t, m.bronze[i]) =>
                \E k \in DOMAIN m.rows : Stands(m.rows[k], m.bronze[i], t)
<1>1. \A i \in DOMAIN m.bronze : Usable(t, m.bronze[i]) =>
        \A c \in NaturalKey[t] : CleanRow(t, m.bronze[i])[c] = Cast(m.bronze[i][c])
  BY CleanedKeys, KeysAgree DEF Faithful, Landed
<1>2. ASSUME NEW k \in DOMAIN m.rows
      PROVE  k \in DOMAIN m.bronze /\ Usable(t, m.bronze[k]) /\ Stands(m.rows[k], m.bronze[k], t)
  BY <1>1, MadeOfBronze DEF Stands
<1>3. ASSUME t # "order_lines", NEW i \in DOMAIN m.bronze, Usable(t, m.bronze[i])
      PROVE  \E k \in DOMAIN m.rows : Stands(m.rows[k], m.bronze[i], t)
  <2>1. PICK k \in DOMAIN m.rows : SameKey(CleanRow(t, m.bronze[i]), m.rows[k], Grain[t])
    BY <1>3, MadeOfBronze
  <2>2. QED
    BY <1>1, <1>3, <2>1, KeysAgree DEF SameKey, Stands
<1>4. QED
  BY <1>2, <1>3, MadeOfBronze, KeysAgree

(* Without ties on the column it is ordered by, a key has one latest row,  *)
(* and the orders job one choice.                                          *)
LEMMA NoTieNoChoice ==
  ASSUME NEW df, Landed("orders", df), ~Tied(df),
         NEW x \in Choices("orders", df), NEW y \in Choices("orders", df)
  PROVE  x = y
<1> DEFINE cleaned == Cleaned("orders", df)
           ts(i) == cleaned[i]["updated_ts"]
           Best == DedupLatest(cleaned, Grain["orders"], OrderedBy("orders"))
<1>1. \A i \in DOMAIN cleaned : i \in DOMAIN df /\ cleaned[i] = CleanOrder(df[i]) /\ RawRow("orders", df[i])
  BY DEF Cleaned, CleanRow, Landed
<1>2. \A i \in DOMAIN cleaned : Usable("orders", df[i]) /\ cleaned[i]["order_id"] = df[i]["order_id"]
  <2> TAKE i \in DOMAIN cleaned
  <2>1. RawRow("orders", df[i]) /\ Usable("orders", df[i])
    BY <1>1, CleanedKeys DEF Cleaned, Table
  <2>2. CleanRow("orders", df[i])["order_id"] = Cast(df[i]["order_id"])
    BY <2>1, CleanedKeys DEF Table, Grain
  <2>3. df[i]["order_id"] # Bad
    BY <2>1 DEF Usable, Needed, NaturalKey
  <2>4. QED
    BY <1>1, <2>1, <2>2, <2>3 DEF Cast, CleanRow
<1>3. \A i \in DOMAIN cleaned : ts(i) = Cast(df[i].updated_ts) /\ ts(i) \in Int \cup {Null}
  <2> TAKE i \in DOMAIN cleaned
  <2>1. /\ cleaned[i] = CleanOrder(df[i])
        /\ df[i] = [c \in Columns["orders"] \cup {"_ingested_at"} |-> df[i][c]]
        /\ df[i].updated_ts \in Int \cup {Null, Bad}
    BY <1>1 DEF RawRow
  <2>2. ts(i) = Cast(df[i].updated_ts)
    BY <2>1 DEF CleanOrder, Columns
  <2>3. QED
    BY <2>1, <2>2 DEF Cast
<1>4. \A i, j \in DOMAIN cleaned :
        SameKey(cleaned[i], cleaned[j], Grain["orders"]) /\ ts(i) = ts(j) => i = j
  BY <1>1, <1>2, <1>3 DEF Tied, SameKey, Grain
<1>5. \A i, j \in DOMAIN cleaned : AtLeast(ts(i), ts(j)) /\ AtLeast(ts(j), ts(i)) => ts(i) = ts(j)
  BY <1>3, ValueAssumption DEF AtLeast
<1>6. OrderedBy("orders") = "updated_ts"
  BY DEF OrderedBy
<1> HIDE DEF cleaned, ts
<1>7. ASSUME NEW K \in Best, NEW L \in Best PROVE K \subseteq L
  <2> SUFFICES ASSUME NEW k \in K PROVE k \in L
    OBVIOUS
  <2>1. /\ K \subseteq DOMAIN cleaned /\ L \subseteq DOMAIN cleaned
        /\ \A i, j \in K : SameKey(cleaned[i], cleaned[j], Grain["orders"]) => i = j
    BY <1>7 DEF DedupLatest
  <2>2. PICK l \in L : SameKey(cleaned[k], cleaned[l], Grain["orders"]) /\ AtLeast(ts(l), ts(k))
    BY <1>6, <1>7, <2>1 DEF DedupLatest, ts
  <2>3. PICK j \in K : SameKey(cleaned[l], cleaned[j], Grain["orders"]) /\ AtLeast(ts(j), ts(l))
    BY <1>6, <1>7, <2>1 DEF DedupLatest, ts
  <2>4. SameKey(cleaned[k], cleaned[j], Grain["orders"])
    BY <2>2, <2>3 DEF SameKey
  <2>5. j = k
    BY <2>1, <2>4
  <2>6. ts(k) = ts(l)
    BY <1>5, <2>1, <2>2, <2>3, <2>5
  <2>7. QED
    BY <1>4, <2>1, <2>2, <2>6
<1>8. PICK K \in Best : x = Rows(cleaned, K)
  BY DEF Choices, cleaned
<1>9. PICK L \in Best : y = Rows(cleaned, L)
  BY DEF Choices, cleaned
<1>10. QED
  BY <1>7, <1>8, <1>9

----------------------------------------------------------------------------
(* The inductive invariant.                                                *)

LEMMA TablesWatched ==
  ASSUME watched \in Groups
  PROVE  watched \subseteq Table /\ ("order_lines" \in watched => "orders" \in watched)
BY QualityAssumption

LEMMA NothingMade == ASSUME NEW t \in Table PROVE Faithful(t, Made(NoRows, NoRows, Unjoined))
<1> DEFINE df == Cleaned(t, NoRows)
<1>1. DOMAIN df = {} /\ DOMAIN NoRows = {}
  BY DEF Cleaned, NoRows
<1>2. {} \in DedupLatest(df, Grain[t], OrderedBy(t))
  BY <1>1 DEF DedupLatest
<1>3. Rows(df, {}) = NoRows /\ Rows(NoRows, {}) = NoRows
  BY DEF Rows, NoRows
<1>4. NoRows \in Choices(t, NoRows)
  BY <1>2, <1>3 DEF Choices
<1>5. \E S \in SUBSET DOMAIN NoRows : NoRows = Rows(NoRows, S) /\ S = DOMAIN NoRows
  BY <1>1, <1>3
<1>6. Landed(t, NoRows) /\ 0 \in 0..MaxWrites
  BY <1>1, QualityAssumption DEF Landed
<1>7. QED
  BY <1>4, <1>5, <1>6 DEF Faithful, Made, Unjoined

(* An attempt makes something faithful of a Bronze partition.              *)
LEMMA AttemptFaithful ==
  ASSUME NEW t \in Table, NEW b, Landed(t, b), NEW rows \in Choices(t, b)
  PROVE  /\ t # "order_lines" => Faithful(t, Made(rows, b, Unjoined))
         /\ t = "order_lines" =>
              \A ids : \A n \in 0..MaxWrites : Faithful(t, Made(JoinedWith(rows, ids), b, n))
<1>1. PICK K : rows = Rows(Cleaned(t, b), K)
  BY DEF Choices
<1>2. rows = Rows(rows, DOMAIN rows)
  BY <1>1 DEF Rows
<1>3. t # "order_lines" => Faithful(t, Made(rows, b, Unjoined))
  BY <1>2, QualityAssumption DEF Faithful, Made, Unjoined
<1>4. ASSUME t = "order_lines", NEW ids, NEW n \in 0..MaxWrites PROVE Faithful(t, Made(JoinedWith(rows, ids), b, n))
  <2> DEFINE S == {k \in DOMAIN rows : rows[k].order_id \in ids}
  <2>1. S \in SUBSET DOMAIN rows /\ JoinedWith(rows, ids) = Rows(rows, S)
    BY DEF JoinedWith
  <2>2. QED
    BY <1>4, <2>1 DEF Faithful, Made
<1>5. QED
  BY <1>3, <1>4

LEMMA IngestedLanded ==
  ASSUME NEW t \in Table, NEW b \in Batch[t], NEW at \in Nat
  PROVE  Landed(t, Ingested(b, at))
<1> SUFFICES ASSUME NEW i \in DOMAIN b PROVE RawRow(t, Ingested(b, at)[i])
  BY DEF Landed, Ingested
<1> DEFINE r == Ingested(b, at)[i]
<1>1. r = [c \in Columns[t] \cup {"_ingested_at"} |-> IF c = "_ingested_at" THEN at ELSE b[i][c]]
  BY BatchAssumption DEF Ingested
<1>2. \A c \in Columns[t] : c # "_ingested_at"
  BY DEF Columns, Table
<1>3. \A c \in Columns[t] : r[c] = b[i][c]
  BY <1>1, <1>2
<1>4. Grain[t] \cup Required[t] \subseteq Columns[t]
  <2> USE DEF Grain, Required, Columns
  <2>1. CASE t \in {"customers", "orders", "stores"}
    BY <2>1
  <2>2. CASE t = "order_lines"
    BY <2>2
  <2>3. CASE t = "products"
    BY <2>3
  <2>4. CASE t = "inventory"
    BY <2>4
  <2>5. CASE t = "suppliers"
    BY <2>5
  <2>6. QED
    BY <2>1, <2>2, <2>3, <2>4, <2>5 DEF Table
<1>5. t = "orders" => r.updated_ts = b[i].updated_ts
  BY <1>3 DEF Columns
<1>6. r["_ingested_at"] = at
  BY <1>1
<1>7. r = [c \in Columns[t] \cup {"_ingested_at"} |-> r[c]]
  BY <1>1
<1> HIDE DEF r
<1>8. QED
  BY <1>3, <1>4, <1>5, <1>6, <1>7, BatchAssumption DEF RawRow, r

LEMMA ShapesStep == Shapes /\ [Next]_vars => Shapes'
<1> SUFFICES ASSUME Shapes, [Next]_vars PROVE Shapes'
  OBVIOUS
<1>1. watched \subseteq Table /\ ("order_lines" \in watched => "orders" \in watched)
  BY TablesWatched DEF Shapes
<1>2. ASSUME NEW t \in watched, Land(t) PROVE Shapes'
  <2>1. PICK b \in Batch[t] : bronze' = [bronze EXCEPT ![t] = Ingested(b, lands'[t])]
    BY <1>2 DEF Land
  <2>2. lands'[t] \in Nat /\ lands' \in [watched -> 0..MaxLands]
    BY <1>2, QualityAssumption DEF Land, Shapes
  <2>3. Landed(t, Ingested(b, lands'[t]))
    BY <1>1, <2>2, IngestedLanded
  <2>4. QED
    BY <1>2, <2>1, <2>2, <2>3 DEF Land, Shapes
<1>3. ASSUME NEW t \in watched, ReadInputs(t) PROVE Shapes'
  <2>1. PICK rows \in Choices(t, bronze[t]) :
          job' = [job EXCEPT ![t] = Made(rows, bronze[t], Unjoined)]
    BY <1>3 DEF ReadInputs
  <2>2. Faithful(t, Made(rows, bronze[t], Unjoined))
    BY <1>1, <1>3, AttemptFaithful DEF ReadInputs, Shapes
  <2>3. QED
    BY <1>3, <2>1, <2>2 DEF ReadInputs, Shapes
<1>4. ASSUME ReadLinesAndOrders PROVE Shapes'
  <2>1. "order_lines" \in watched /\ "orders" \in watched
    BY <1>1, <1>4 DEF ReadLinesAndOrders
  <2> DEFINE M(rows) == Made(JoinedWith(rows, OrderIds(silver["orders"].rows)),
                             bronze["order_lines"], writes["orders"])
  <2>2. PICK rows \in Choices("order_lines", bronze["order_lines"]) :
          job' = [job EXCEPT !["order_lines"] = M(rows)]
    BY <1>4 DEF ReadLinesAndOrders
  <2>3. writes["orders"] \in 0..MaxWrites
    BY <2>1 DEF Shapes
  <2>4. Faithful("order_lines", M(rows))
    BY <1>1, <2>1, <2>3, AttemptFaithful DEF Shapes
  <2> HIDE DEF M
  <2>5. QED
    BY <1>4, <2>1, <2>2, <2>4 DEF ReadLinesAndOrders, Shapes
<1>5. ASSUME NEW t \in watched, WriteSilver(t) PROVE Shapes'
  <2>1. writes' \in [watched -> 0..MaxWrites]
    BY <1>5, QualityAssumption DEF WriteSilver, Shapes
  <2>2. Faithful(t, job[t])
    BY <1>5 DEF WriteSilver, Shapes
  <2>3. QED
    BY <1>5, <2>1, <2>2 DEF WriteSilver, Shapes
<1>6. CASE GateReadsOrders
  BY <1>6 DEF GateReadsOrders, Shapes
<1>7. CASE GateReadsLines
  BY <1>7 DEF GateReadsLines, Shapes
<1>8. CASE UNCHANGED vars
  BY <1>8 DEF vars, Shapes
<1>9. QED
  BY <1>2, <1>3, <1>4, <1>5, <1>6, <1>7, <1>8 DEF Next

(* Lines joined with the orders now in Silver have them there; and when    *)
(* the gate has read those same orders, it has read their ids.             *)
LEMMA JoinedUpToDate ==
  ASSUME GateReading, NEW rows, NEW b, writes["orders"] \in Nat,
         NEW m, m = Made(JoinedWith(rows, OrderIds(silver["orders"].rows)), b, writes["orders"])
  PROVE  UpToDate(m) /\ AgreesWithGate(m)
<1>1. OrderIds(m.rows) \subseteq OrderIds(silver["orders"].rows) /\ m.orders = writes["orders"]
  BY DEF Made, OrderIds, JoinedWith, Rows
<1>2. QED
  BY <1>1 DEF UpToDate, AgreesWithGate, GateReading

LEMMA GateStep ==
  ASSUME IInv, Shapes', [Next]_vars
  PROVE  GateReading' /\ Versions'
<1>1. "order_lines" \in watched => "orders" \in watched
  BY TablesWatched DEF IInv, Shapes
<1>2. \A t \in watched : writes[t] \in Nat
  BY QualityAssumption DEF IInv, Shapes
<1>3. \A t \in watched : silver[t].orders \in Nat /\ (job[t] # Idle => job[t].orders \in Nat)
  BY QualityAssumption DEF IInv, Shapes, Faithful
<1> DEFINE lineJob == job["order_lines"]
(* Whatever leaves the gate, the orders and the order lines alone.         *)
<1>4. ASSUME UNCHANGED <<watched, gate>>,
             "order_lines" \in watched =>
               /\ silver'["orders"] = silver["orders"] /\ silver'["order_lines"] = silver["order_lines"]
               /\ writes'["orders"] = writes["orders"] /\ lineJob' = lineJob
      PROVE  GateReading' /\ Versions'
  BY <1>4 DEF IInv, GateReading, Versions, UpToDate, AgreesWithGate
<1>5. ASSUME NEW t \in watched, Land(t) PROVE GateReading' /\ Versions'
  BY <1>4, <1>5 DEF Land
<1>6. ASSUME NEW t \in watched, ReadInputs(t) PROVE GateReading' /\ Versions'
  BY <1>4, <1>6 DEF ReadInputs, IInv, Shapes
<1>7. ASSUME ReadLinesAndOrders PROVE GateReading' /\ Versions'
  <2>1. "order_lines" \in watched /\ "orders" \in watched /\ UNCHANGED <<watched, silver, gate, writes>>
    BY <1>1, <1>7 DEF ReadLinesAndOrders
  <2>2. PICK rows \in Choices("order_lines", bronze["order_lines"]) :
          lineJob' = Made(JoinedWith(rows, OrderIds(silver["orders"].rows)),
                          bronze["order_lines"], writes["orders"])
    BY <1>7 DEF ReadLinesAndOrders, IInv, Shapes
  <2>3. UpToDate(lineJob') /\ AgreesWithGate(lineJob')
    BY <1>2, <2>1, <2>2, JoinedUpToDate DEF IInv
  <2>4. QED
    BY <2>1, <2>3 DEF IInv, GateReading, Versions, UpToDate, AgreesWithGate
<1>8. ASSUME NEW t \in watched, WriteSilver(t) PROVE GateReading' /\ Versions'
  <2>1. /\ silver' = [silver EXCEPT ![t] = job[t]] /\ job' = [job EXCEPT ![t] = Idle]
        /\ writes' = [writes EXCEPT ![t] = @ + 1] /\ job[t] # Idle
        /\ UNCHANGED <<watched, gate>>
    BY <1>8 DEF WriteSilver
  <2>2. CASE t = "orders"
    <3>1. writes'["orders"] = writes["orders"] + 1 /\ writes["orders"] \in Nat
      BY <1>2, <2>1, <2>2 DEF IInv, Shapes
    <3>2. "order_lines" \in watched =>
            silver'["order_lines"] = silver["order_lines"] /\ lineJob' = lineJob
      BY <2>1, <2>2 DEF IInv, Shapes
    <3>3. gate # Idle => gate.orders \in Nat /\ gate.orders < writes'["orders"]
      BY <3>1 DEF IInv, GateReading
    <3>4. GateReading'
      BY <2>1, <3>1, <3>3 DEF IInv, GateReading, AgreesWithGate
    <3>5. ASSUME "order_lines" \in watched
          PROVE  /\ silver["order_lines"].orders < writes'["orders"]
                 /\ lineJob # Idle => lineJob.orders < writes'["orders"]
      BY <1>3, <3>1, <3>5 DEF IInv, Versions, UpToDate
    <3>6. Versions'
      BY <1>3, <2>1, <3>1, <3>2, <3>5 DEF IInv, Versions, UpToDate, AgreesWithGate
    <3>7. QED
      BY <3>4, <3>6
  <2>3. CASE t = "order_lines"
    <3>1. /\ silver'["order_lines"] = lineJob /\ silver'["orders"] = silver["orders"]
          /\ lineJob' = Idle /\ writes'["orders"] = writes["orders"]
      BY <1>1, <2>1, <2>3 DEF IInv, Shapes
    <3>2. QED
      BY <2>1, <2>3, <3>1 DEF IInv, GateReading, Versions, UpToDate, AgreesWithGate
  <2>4. CASE t \notin {"orders", "order_lines"}
    <3>1. "order_lines" \in watched =>
            /\ silver'["orders"] = silver["orders"] /\ silver'["order_lines"] = silver["order_lines"]
            /\ writes'["orders"] = writes["orders"] /\ lineJob' = lineJob
      BY <1>1, <2>1, <2>4 DEF IInv, Shapes
    <3>2. QED
      BY <1>4, <2>1, <3>1
  <2>5. QED
    BY <2>2, <2>3, <2>4
<1>9. ASSUME GateReadsOrders PROVE GateReading' /\ Versions'
  BY <1>1, <1>2, <1>9 DEF GateReadsOrders, IInv, GateReading, Versions, UpToDate, AgreesWithGate
<1>10. ASSUME GateReadsLines PROVE GateReading' /\ Versions'
  <2>1. "order_lines" \in watched /\ UNCHANGED <<watched, silver, job, writes>>
    BY <1>10 DEF GateReadsLines, IInv, GateReading
  <2>2. /\ gate'.ids = gate.ids /\ gate'.orders = gate.orders
        /\ gate'.lines = silver["order_lines"]
        /\ gate'.said = SilverOrderLinesSuite(silver["order_lines"].rows, gate.ids)
        /\ gate' = [ids |-> gate'.ids, orders |-> gate'.orders, lines |-> gate'.lines, said |-> gate'.said]
    BY <1>10 DEF GateReadsLines, IInv, GateReading
  <2>3. QED
    BY <1>10, <2>1, <2>2 DEF GateReadsLines, IInv, GateReading, Versions, UpToDate, AgreesWithGate
<1>11. CASE UNCHANGED vars
  BY <1>4, <1>11 DEF vars
<1>12. QED
  BY <1>5, <1>6, <1>7, <1>8, <1>9, <1>10, <1>11 DEF Next

(* The inductive invariant: every table and every attempt is faithful to   *)
(* a Bronze partition, and the lines to the orders they were joined with.  *)
THEOREM InductiveInvariant == Spec => []IInv
<1>1. Init => IInv
  <2> SUFFICES ASSUME Init PROVE IInv
    OBVIOUS
  <2>1. watched \subseteq Table /\ ("order_lines" \in watched => "orders" \in watched)
    BY TablesWatched DEF Init
  <2>2. \A t \in watched : bronze[t] = NoRows /\ silver[t] = Made(NoRows, NoRows, Unjoined) /\ job[t] = Idle
    BY DEF Init
  <2>3. \A t \in watched : Faithful(t, Made(NoRows, NoRows, Unjoined)) /\ Landed(t, NoRows)
    BY <2>1, NothingMade DEF Landed, NoRows
  <2>4. Shapes
    BY <2>2, <2>3, QualityAssumption DEF Init, Shapes
  <2>5. Versions
    BY <2>1, <2>2 DEF Init, Versions, UpToDate, AgreesWithGate, Made, OrderIds, NoRows, Unjoined
  <2>6. QED
    BY <2>4, <2>5 DEF Init, IInv, GateReading
<1>2. IInv /\ [Next]_vars => IInv'
  BY ShapesStep, GateStep DEF IInv
<1>3. QED
  BY <1>1, <1>2, PTL DEF Spec

----------------------------------------------------------------------------
(* Silver is typed, whatever text the sources sent.                        *)
THEOREM TypeCorrect == Spec => []TypeOK
<1>1. IInv => TypeOK
  <2> SUFFICES ASSUME IInv PROVE TypeOK
    OBVIOUS
  <2>1. watched \subseteq Table
    BY TablesWatched DEF IInv, Shapes
  <2>2. ASSUME NEW t \in watched
        PROVE  /\ DOMAIN silver[t].rows \subseteq DOMAIN silver[t].bronze
               /\ silver[t].orders \in 0..MaxWrites
               /\ \A k \in DOMAIN silver[t].rows : \A c \in DOMAIN silver[t].rows[k] :
                    silver[t].rows[k][c] # Bad
    <3>1. t \in Table /\ Faithful(t, silver[t])
      BY <2>1 DEF IInv, Shapes
    <3>2. \A k \in DOMAIN silver[t].rows :
            /\ k \in DOMAIN silver[t].bronze /\ RawRow(t, silver[t].bronze[k])
            /\ silver[t].rows[k] = CleanRow(t, silver[t].bronze[k])
      BY <3>1, MadeOfBronze DEF Faithful, Landed
    <3>3. QED
      BY <3>1, <3>2, CleanedTyped DEF Faithful
  <2>3. gate # Idle => gate.orders \in 0..MaxWrites
    BY TablesWatched, QualityAssumption DEF IInv, Shapes, GateReading
  <2>4. QED
    BY <2>2, <2>3 DEF IInv, Shapes, TypeOK
<1>2. QED
  BY <1>1, InductiveInvariant, PTL

(* Every Silver table has one row for each usable key of its Bronze        *)
(* partition, and for no other.                                            *)
THEOREM OneRowPerKeyAlways == Spec => []OneRowPerKey
<1>1. IInv => OneRowPerKey
  <2> SUFFICES ASSUME IInv, NEW t \in watched
               PROVE  /\ t \in Table /\ Faithful(t, silver[t])
    BY OneRowPerKeyOf DEF OneRowPerKey
  <2>1. QED
    BY TablesWatched DEF IInv, Shapes
<1>2. QED
  BY <1>1, InductiveInvariant, PTL

(* What the jobs guarantee is what the suites expect: on a table with rows *)
(* no gate fails for a missing or repeated key or an order status.         *)
THEOREM GuaranteedExpectationsAlwaysHold == Spec => []GuaranteedExpectationsHold
<1>1. IInv => GuaranteedExpectationsHold
  <2> SUFFICES ASSUME IInv, NEW t \in watched, DOMAIN silver[t].rows # {}
               PROVE  LET df == silver[t].rows
                          Keys(suite) == suite.key_known /\ suite.key_unique
                      IN  CASE t = "customers" -> Keys(SilverCustomersSuite(df))
                            [] t = "orders" -> Keys(SilverOrdersSuite(df)) /\ SilverOrdersSuite(df).status
                            [] t = "order_lines" -> Keys(SilverOrderLinesSuite(df, {}))
                            [] t = "products" -> Keys(SilverProductsSuite(df))
                            [] t = "stores" -> Keys(SilverStoresSuite(df))
                            [] OTHER -> TRUE
    BY DEF GuaranteedExpectationsHold
  <2> DEFINE df == silver[t].rows
             raw == silver[t].bronze
  <2>1. t \in Table /\ Faithful(t, silver[t]) /\ HasColumns(df)
    BY TablesWatched DEF IInv, Shapes, HasColumns
  <2>2. \A k \in DOMAIN df : RawRow(t, raw[k]) /\ Usable(t, raw[k]) /\ df[k] = CleanRow(t, raw[k])
    BY <2>1, MadeOfBronze DEF Faithful, Landed
  <2>3. \A k \in DOMAIN df : \A c \in Required[t] : df[k][c] # Null
    BY <2>1, <2>2, CleanedKeys
  <2>4. \A j, k \in DOMAIN df : SameKey(df[j], df[k], Grain[t]) => j = k
    BY <2>1, MadeOfBronze
  <2>5. ASSUME NEW c, c \in Required[t], Grain[t] = {c}
        PROVE  NotBeNull(df, c) /\ BeUnique(df, c)
    BY <2>1, <2>3, <2>4, <2>5 DEF NotBeNull, BeUnique, Known, SameKey
  <2> HIDE DEF df
  <2>6. CASE t = "customers"
    <3>1. NotBeNull(df, "customer_id") /\ BeUnique(df, "customer_id")
      BY <2>5, <2>6 DEF Required, Grain
    <3>2. QED
      BY <2>6, <3>1 DEF SilverCustomersSuite, df
  <2>7. CASE t = "orders"
    <3>1. NotBeNull(df, "order_id") /\ BeUnique(df, "order_id")
      BY <2>5, <2>7 DEF Required, Grain
    <3>2. ASSUME NEW k \in DOMAIN df PROVE df[k]["order_status"] \in OrderStatuses
      <4>1. \A v : ValidStatus(v) \in OrderStatuses
        BY DEF ValidStatus, KnownStatuses, OrderStatuses
      <4>2. df[k] = CleanOrder(raw[k])
        BY <2>2, <2>7 DEF CleanRow, df
      <4>3. "order_status" \in DOMAIN raw[k]
        <5>1. RawRow("orders", raw[k])
          BY <2>2, <2>7 DEF df
        <5>2. QED
          BY <5>1 DEF RawRow, Columns
      <4>4. CleanOrder(raw[k])["order_status"] = ValidStatus(raw[k]["order_status"])
        BY <4>3 DEF CleanOrder
      <4>5. QED
        BY <4>1, <4>2, <4>4
    <3>3. All(df, "order_status", OrderStatuses)
      BY <2>1, <3>2 DEF All, Known
    <3>4. QED
      BY <2>7, <3>1, <3>3 DEF SilverOrdersSuite, df
  <2>8. CASE t = "order_lines"
    <3>1. NotBeNull(df, "order_line_id") /\ BeUnique(df, "order_line_id")
      BY <2>5, <2>8 DEF Required, Grain
    <3>2. QED
      BY <2>8, <3>1 DEF SilverOrderLinesSuite, df
  <2>9. CASE t = "products"
    <3>1. NotBeNull(df, "product_id") /\ BeUnique(df, "product_id")
      BY <2>5, <2>9 DEF Required, Grain
    <3>2. QED
      BY <2>9, <3>1 DEF SilverProductsSuite, df
  <2>10. CASE t = "stores"
    <3>1. NotBeNull(df, "store_id") /\ BeUnique(df, "store_id")
      BY <2>5, <2>10 DEF Required, Grain
    <3>2. QED
      BY <2>10, <3>1 DEF SilverStoresSuite, df
  <2>11. QED
    BY <2>1, <2>6, <2>7, <2>8, <2>9, <2>10 DEF Table
<1>2. QED
  BY <1>1, InductiveInvariant, PTL

(* An orphan alarm always means that the orders the gate read are not      *)
(* those the lines were joined with.                                       *)
THEOREM OrphanAlarmIsAlwaysStale == Spec => []OrphanAlarmIsStale
<1>1. IInv => OrphanAlarmIsStale
  <2> SUFFICES ASSUME IInv, gate # Idle, gate.said # Idle, gate.orders = gate.lines.orders,
                      DOMAIN gate.lines.rows # {}
               PROVE  gate.said.order
    BY DEF OrphanAlarmIsStale
  <2>1. /\ gate.said = SilverOrderLinesSuite(gate.lines.rows, gate.ids)
        /\ OrderIds(gate.lines.rows) \subseteq gate.ids
    BY DEF IInv, GateReading, AgreesWithGate
  <2>2. gate.said.order = All(gate.lines.rows, "order_id", gate.ids)
    BY <2>1 DEF SilverOrderLinesSuite
  <2>3. All(gate.lines.rows, "order_id", gate.ids)
    BY <2>1 DEF All, HasColumns, Known, OrderIds
  <2>4. QED
    BY <2>2, <2>3
<1>2. QED
  BY <1>1, InductiveInvariant, PTL

(* A rerun of the orders job over the same Bronze partition changes        *)
(* nothing unless the partition leaves it a choice.                        *)
THEOREM RerunIsAlwaysStable == Spec => RerunIsStable
<1> DEFINE Stable ==
      "orders" \in watched =>
        (silver'["orders"].bronze = silver["orders"].bronze /\ ~Tied(silver["orders"].bronze)
           => silver'["orders"] = silver["orders"])
<1>1. IInv /\ IInv' /\ [Next]_vars => Stable
  <2> SUFFICES ASSUME IInv, IInv', [Next]_vars, "orders" \in watched,
                      silver'["orders"].bronze = silver["orders"].bronze,
                      ~Tied(silver["orders"].bronze)
               PROVE  silver'["orders"] = silver["orders"]
    OBVIOUS
  <2>1. watched' = watched
    BY DEF Next, Land, ReadInputs, ReadLinesAndOrders, WriteSilver, GateReadsOrders, GateReadsLines, vars
  <2>2. Faithful("orders", silver["orders"]) /\ Faithful("orders", silver'["orders"])
    BY <2>1 DEF IInv, Shapes
  <2>3. silver["orders"].orders = silver'["orders"].orders
    BY <2>2 DEF Faithful
  <2>4. silver["orders"].rows = silver'["orders"].rows
    BY <2>2, MadeOfBronze, NoTieNoChoice DEF Faithful, Table
  <2>5. QED
    BY <2>2, <2>3, <2>4 DEF Faithful
<1>2. QED
  BY <1>1, InductiveInvariant, PTL DEF Spec, RerunIsStable
=============================================================================
