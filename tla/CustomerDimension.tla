------------------------- MODULE CustomerDimension -------------------------
(***************************************************************************)
(* The life of the Gold dim_customer table under a sequence of builds.     *)
(* Each build reads the Silver customers partition of its batch_date and   *)
(* the existing table, merges them and overwrites the table; here the      *)
(* three are one step (GoldBuild takes them apart).                        *)
(*                                                                         *)
(* Three environments:                                                     *)
(*  - Spec: the schedule. Batches are built in date order, a batch may be  *)
(*    built again (a task retry, a cleared task) until a later one has     *)
(*    been built, and a Silver partition does not change once written.     *)
(*  - InOrderSpec: batches are built in date order, but the Silver job of  *)
(*    any batch may run again and write something else.                    *)
(*  - AnyOrderSpec: any batch may be built at any time and a Silver        *)
(*    partition may be rewritten ("each layer can be backfilled or rerun   *)
(*    independently", airflow/README.md).                                  *)
(***************************************************************************)
EXTENDS DimCustomer

CONSTANT MaxBuilds   \* bound on the number of builds in a behaviour

ASSUME MaxBuildsAssumption == MaxBuilds \in Nat

VARIABLES
  silver,       \* silver[d]: customers partition of batch d
  written,      \* the batches whose Silver partition has been written
  dimCustomer,  \* the Gold table
  lastBatch,    \* ghost: the latest batch built, 0 before the first
  builds        \* ghost: number of builds so far

vars == <<silver, written, dimCustomer, lastBatch, builds>>

TypeOK ==
  /\ silver \in [Date -> Partition]
  /\ written \subseteq Date
  /\ dimCustomer \subseteq Row
  /\ lastBatch \in Nat
  /\ builds \in Nat

Init ==
  /\ silver = [d \in Date |-> EmptyPartition]
  /\ written = {}
  /\ dimCustomer = {}
  /\ lastBatch = 0
  /\ builds = 0

(* The Silver job of batch d writes its partition.                         *)
WriteSilver(d, incoming) ==
  /\ silver' = [silver EXCEPT ![d] = incoming]
  /\ written' = written \cup {d}
  /\ UNCHANGED <<dimCustomer, lastBatch, builds>>

(* build_dim_customer(d) followed by write_gold_table. A partition that    *)
(* was never written reads as an empty one.                                *)
Build(d) ==
  /\ builds < MaxBuilds
  /\ dimCustomer' = BuildDimCustomer(dimCustomer, silver[d], d, builds)
  /\ lastBatch' = d
  /\ builds' = builds + 1
  /\ UNCHANGED <<silver, written>>

WriteOnce(d, incoming) == d \notin written /\ WriteSilver(d, incoming)
BuildInOrder(d) == d \in written /\ d >= lastBatch /\ Build(d)

Next ==
  \/ \E d \in Date, incoming \in Partition : WriteOnce(d, incoming)
  \/ \E d \in Date : BuildInOrder(d)

Spec == Init /\ [][Next]_vars

InOrderNext ==
  \/ \E d \in Date, incoming \in Partition : WriteSilver(d, incoming)
  \/ \E d \in Date : BuildInOrder(d)

InOrderSpec == Init /\ [][InOrderNext]_vars

AnyOrderNext ==
  \/ \E d \in Date, incoming \in Partition : WriteSilver(d, incoming)
  \/ \E d \in Date : Build(d)

AnyOrderSpec == Init /\ [][AnyOrderNext]_vars

----------------------------------------------------------------------------
(* Whatever the order of builds, a customer has at most one current        *)
(* version, and current versions are exactly the open-ended ones: the      *)
(* merge expires the old version in the same table it inserts the new one. *)
OneCurrentVersion ==
  /\ \A r \in dimCustomer : r.cur <=> r.end = Null
  /\ \A r, s \in Current(dimCustomer) : r.id = s.id => r = s

(* Surrogate keys identify versions (dbt's unique test on customer_sk,     *)
(* dbt/models/marts/_marts.yml:14).                                        *)
SurrogateKeyUnique ==
  \A r, s \in dimCustomer : r.sk = s.sk => r = s

(* No day belongs to two versions of a customer, so the point-in-time join *)
(* of fact_sales cannot multiply an order line.                            *)
Before(r, s) == r.end # Null /\ r.end < s.eff
OneVersionAtATime ==
  \A r, s \in dimCustomer : r.id = s.id /\ r # s => Before(r, s) \/ Before(s, r)

(* From the day a customer first appears on, every day belongs to some     *)
(* version: a closed version is followed, the next day, by another one.    *)
NoGaps ==
  \A r \in dimCustomer :
    r.end # Null => \E s \in dimCustomer : s.id = r.id /\ s.eff = r.end + 1

(* What a build may do to the rows already there, in any order of builds:  *)
(* it drops none, rewrites nothing of a closed version, and of an open one *)
(* only its end (pipelines/gold/dim_customer.py: insert-and-expire).       *)
SameVersion(r, s) ==
  /\ r.sk = s.sk /\ r.id = s.id /\ r.attr = s.attr
  /\ r.eff = s.eff /\ r.build = s.build
HistoryKeptStep ==
  /\ Historical(dimCustomer) \subseteq dimCustomer'
  /\ \A r \in Current(dimCustomer) : \E s \in dimCustomer' : SameVersion(r, s)
HistoryKept == [][HistoryKeptStep]_vars

(* Building the batch that was just built again (a retry after a crash     *)
(* further down run_gold_build) changes nothing, when its Silver partition *)
(* has not changed.                                                        *)
RebuildIsNoOp ==
  lastBatch > 0 =>
    BuildDimCustomer(dimCustomer, silver[lastBatch], lastBatch, builds) = dimCustomer

----------------------------------------------------------------------------
(* The inductive invariant of InOrderSpec. The intervals stay disjoint     *)
(* because every version started at or before the last batch and every     *)
(* closed one ended before it, so the cut made at the next batch day is    *)
(* after both. Building a rewritten batch again closes the version the     *)
(* first build of it opened before its first day: its interval is empty.   *)
Dated ==
  \A r \in dimCustomer :
    /\ r.sk = <<r.id, r.eff>>
    /\ r.cur <=> r.end = Null
    /\ r.eff <= lastBatch
    /\ r.end # Null => r.end < lastBatch

InOrderInv ==
  /\ TypeOK
  /\ Dated
  /\ OneVersionAtATime
  /\ NoGaps

(* ... and of Spec, where no interval is empty: the last batch is absorbed *)
(* in the table, which is what makes building it again a no-op.            *)
NoneEmpty == \A r \in dimCustomer : r.end # Null => r.eff <= r.end

Absorbed ==
  lastBatch > 0 =>
    \A c \in DOMAIN silver[lastBatch] :
      \E r \in Current(dimCustomer) : r.id = c /\ r.attr = silver[lastBatch][c]

LastBatchWritten == lastBatch > 0 => lastBatch \in written

IInv ==
  /\ InOrderInv
  /\ NoneEmpty
  /\ LastBatchWritten
  /\ Absorbed

----------------------------------------------------------------------------
(* The value of customer c on `day' according to the table: that of the    *)
(* version in effect, unique by OneVersionAtATime.                         *)
AttrsOn(table, c, day) == {r.attr : r \in PointInTime(table, c, day)}
Lookup(table, c, day) ==
  IF AttrsOn(table, c, day) = {} THEN Null
  ELSE CHOOSE a \in Attr : a \in AttrsOn(table, c, day)

History == INSTANCE CustomerHistory WITH
  asOf <- [c \in Customer |-> [day \in Date |-> Lookup(dimCustomer, c, day)]],
  last <- lastBatch

(* The table implements the as-of history: a build of batch d changes what *)
(* is known from d on, to what the partition says, and nothing before d.   *)
ImplementsHistory == History!Spec

(* Over Silver partitions that may be rewritten it still implements the    *)
(* history whose last batch may be revised.                                *)
ImplementsRevisableHistory == History!RevisableSpec
=============================================================================
