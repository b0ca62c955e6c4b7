--------------------------- MODULE DbtDimension ---------------------------
(***************************************************************************)
(* The two Gold customer dimensions side by side: the one the Python build *)
(* keeps (CustomerDimension, on its schedule) and the dbt snapshot over    *)
(* the same Silver partitions (dbt/). The snapshot reads the most recent   *)
(* batch whenever it runs and stamps its versions with the clock; the      *)
(* build stamps them with batch dates.                                     *)
(***************************************************************************)
EXTENDS CustomerDimension

CONSTANT LastDay   \* bound on the calendar

ASSUME CalendarAssumption == LastDay \in Nat \ {0}

VARIABLES
  today,
  snapshot,  \* dbt: dim_customer_snapshot
  lastSnap,  \* ghost: the instant of the last snapshot, 0 before the first
  snapped,   \* ghost: the batches snapshots have read
  built      \* ghost: the batches, not empty, that the Python build has merged

dbtVars == <<today, snapshot, lastSnap, snapped, built>>

(* A day has two instants: before its dbt snapshot, and from it on.        *)
Day(instant) == instant \div 2
Now == 2 * today + 1
Instant == 1..2 * LastDay + 1

Version == [id : Customer, attr : Attr, from : Instant, to : Instant \cup {Null}]

DbtTypeOK ==
  /\ today \in 1..LastDay /\ lastSnap \in {0} \cup Instant
  /\ snapshot \subseteq Version
  /\ snapped \subseteq written /\ built \subseteq written

DbtInit ==
  /\ Init
  /\ today = 1 /\ snapshot = {} /\ lastSnap = 0 /\ snapped = {} /\ built = {}

Tick ==
  /\ today < LastDay /\ today' = today + 1
  /\ UNCHANGED <<vars, snapshot, lastSnap, snapped, built>>

(* The DAGs of a date run when its day is over.                            *)
WriteDaily(d, incoming) ==
  /\ d < today /\ WriteOnce(d, incoming)
  /\ UNCHANGED dbtVars

BuildDaily(d) ==
  /\ BuildInOrder(d)
  /\ built' = IF DOMAIN silver[d] = {} THEN built ELSE built \cup {d}
  /\ UNCHANGED <<today, snapshot, lastSnap, snapped>>

----------------------------------------------------------------------------
(* The source of the snapshot: dense_rank() over batch_date desc = 1. It   *)
(* ranks rows, so a batch without any is not the most recent one.          *)
HasRows(d) == DOMAIN silver[d] # {}
MostRecent == {d \in written : HasRows(d) /\ \A e \in written : HasRows(e) => e <= d}

Open(table) == {v \in table : v.to = Null}

(* A plausible bug: a version opens at the beginning of time.              *)
VersionSinceEver(c, a, at) == [id |-> c, attr |-> a, from |-> 1, to |-> Null]
OpenVersion(c, a, at) == [id |-> c, attr |-> a, from |-> at, to |-> Null]

(* A plausible bug: versions of customers no longer there are closed too   *)
(* (invalidate_hard_deletes).                                              *)
SnapshotWithDeletes(table, incoming, at) ==
  LET changed == {v \in Open(table) : v.id \in DOMAIN incoming => v.attr # incoming[v.id]}
      unchanged == {v.id : v \in Open(table) \ changed}
  IN  (table \ changed)
        \cup {[v EXCEPT !.to = at] : v \in changed}
        \cup {OpenVersion(c, incoming[c], at) : c \in DOMAIN incoming \ unchanged}

(* dbt's check strategy on check_cols: a changed row is closed and         *)
(* inserted again, a new one inserted; one no longer there stays open.     *)
SnapshotOf(table, incoming, at) ==
  LET changed == {v \in Open(table) : v.id \in DOMAIN incoming /\ v.attr # incoming[v.id]}
      unchanged == {v.id : v \in Open(table) \ changed}
  IN  (table \ changed)
        \cup {[v EXCEPT !.to = at] : v \in changed}
        \cup {OpenVersion(c, incoming[c], at) : c \in DOMAIN incoming \ unchanged}

(* dbt snapshot, once a day at most.                                       *)
Snapshot ==
  /\ lastSnap < Now
  /\ \E d \in MostRecent :
       /\ snapshot' = SnapshotOf(snapshot, silver[d], Now)
       /\ snapped' = snapped \cup {d}
  /\ lastSnap' = Now
  /\ UNCHANGED <<vars, today, built>>

DbtNext ==
  \/ Tick
  \/ \E d \in Date, incoming \in Partition : WriteDaily(d, incoming)
  \/ \E d \in Date : BuildDaily(d)
  \/ Snapshot

DbtSpec == DbtInit /\ [][DbtNext]_<<vars, dbtVars>>

----------------------------------------------------------------------------
(* models/marts/fact_sales.sql: the version of an order's customer, by the *)
(* full timestamp and with the end excluded.                               *)
Covers(v, instant) == v.from <= instant /\ (v.to = Null \/ instant < v.to)
AttrsAt(c, instant) == {v.attr : v \in {w \in snapshot : w.id = c /\ Covers(w, instant)}}
LookupAt(c, instant) ==
  IF AttrsAt(c, instant) = {} THEN Null ELSE CHOOSE a \in Attr : a \in AttrsAt(c, instant)

SnapshotHistory == INSTANCE CustomerHistory WITH
  Date <- Instant, last <- lastSnap,
  asOf <- [c \in Customer |-> [i \in Instant |-> LookupAt(c, i)]]

(* The snapshot keeps the same promise as the Python dimension, over       *)
(* instants in place of days: what it reads holds from then on, and what   *)
(* it said of earlier orders never changes.                                *)
SnapshotImplementsHistory == SnapshotHistory!Spec

(* An order has one version of its customer at most (unique order_line_id, *)
(* dbt/models/marts/_marts.yml:34), and never attributes he was given on a *)
(* later day than the order's.                                             *)
NoLookAhead ==
  \A v, w \in snapshot : \A i \in Instant :
    Covers(v, i) /\ Covers(w, i) =>
      /\ v.id = w.id => v = w
      /\ \E d \in snapped : d < Day(i) /\ v.id \in DOMAIN silver[d] /\ silver[d][v.id] = v.attr

(* The two Gold layers agree on orders to come: when the Python build has  *)
(* merged the batches the snapshots have read, and no others, the open     *)
(* versions of the two are of the same customers and say the same.         *)
GoldsAgree ==
  built = snapped =>
    {<<r.id, r.attr>> : r \in Current(dimCustomer)} = {<<v.id, v.attr>> : v \in Open(snapshot)}
=============================================================================
