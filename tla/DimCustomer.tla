---------------------------- MODULE DimCustomer ----------------------------
(***************************************************************************)
(* The Type 2 customer dimension as a pure function of its inputs: what    *)
(* build_dim_customer (pipelines/gold/dim_customer.py) returns for the     *)
(* existing Gold table and one Silver customers partition, and the         *)
(* point-in-time lookup fact_sales makes into the result.                  *)
(*                                                                         *)
(* A Silver partition holds one row per customer_id (dedup_latest), so it  *)
(* is a function from the customers present to their tracked attributes.   *)
(* The four tracked columns (email, first name, last name, loyalty tier)   *)
(* are one value: IS DISTINCT FROM on any of them is inequality of it.     *)
(* The surrogate key hash(customer_id | batch_date) is the pair it hashes. *)
(*                                                                         *)
(* A Gold table is a bag (UNION ALL keeps equal rows), modelled as a set   *)
(* of rows that carry the ordinal of the build that inserted them: a build *)
(* inserts at most one row per customer, so `build' tells copies apart.    *)
(***************************************************************************)
EXTENDS Integers

CONSTANTS
  Customer,   \* customer_id values
  Attr,       \* values of the tracked columns taken together
  Date,       \* batch dates, as day numbers
  Null        \* SQL NULL

ASSUME DateAssumption == Date \subseteq Nat \ {0}
ASSUME NullAssumption == Null \notin Int

(* A parsed Silver customers partition; the empty function is a missing    *)
(* or an empty one (read_silver returns [] for both).                      *)
Partition == UNION {[S -> Attr] : S \in SUBSET Customer}
EmptyPartition == [c \in {} |-> Null]

Row == [sk : Customer \X Date, id : Customer, attr : Attr, eff : Date,
        end : Int \cup {Null}, cur : BOOLEAN, build : Nat]

(* Plausible bugs of NewVersion: effective from the day before the batch;  *)
(* keyed by the customer alone, as the Type 1 dimensions are.              *)
NewVersionFromDayBefore(c, a, d, n) ==
  [sk |-> <<c, d>>, id |-> c, attr |-> a, eff |-> d - 1,
   end |-> Null, cur |-> TRUE, build |-> n]
NewVersionKeyedByCustomer(c, a, d, n) ==
  [sk |-> <<c, 1>>, id |-> c, attr |-> a, eff |-> d,
   end |-> Null, cur |-> TRUE, build |-> n]

(* A version inserted by the run of batch_date d, open ended and current.  *)
NewVersion(c, a, d, n) ==
  [sk |-> <<c, d>>, id |-> c, attr |-> a, eff |-> d,
   end |-> Null, cur |-> TRUE, build |-> n]

Current(table) == {r \in table : r.cur}
Historical(table) == {r \in table : ~r.cur}

(* A plausible bug of ChangedIds: compares with every version, not the     *)
(* current one.                                                            *)
ChangedFromAnyVersion(table, incoming) ==
  {c \in DOMAIN incoming : \E e \in table : e.id = c /\ e.attr # incoming[c]}

ChangedIds(table, incoming) ==
  {c \in DOMAIN incoming :
     \E e \in Current(table) : e.id = c /\ e.attr # incoming[c]}

NewIds(table, incoming) ==
  {c \in DOMAIN incoming : \A e \in Current(table) : e.id # c}

(* Plausible bugs of Expire: closed on the batch day itself; closed a day  *)
(* early; the flag left on.                                                *)
ExpireOnBatchDay(r, d) == [r EXCEPT !.end = d, !.cur = FALSE]
ExpireTwoDaysBefore(r, d) == [r EXCEPT !.end = d - 2, !.cur = FALSE]
ExpireStillCurrent(r, d) == [r EXCEPT !.end = d - 1]

(* The day before the batch closes the interval of a superseded version.   *)
Expire(r, d) == [r EXCEPT !.end = d - 1, !.cur = FALSE]

Expired(table, incoming, d) ==
  {Expire(r, d) : r \in {e \in Current(table) : e.id \in ChangedIds(table, incoming)}}

(* A plausible bug of UntouchedCurrent: a customer missing from the batch  *)
(* is dropped.                                                             *)
UntouchedIncoming(table, incoming) ==
  {r \in Current(table) :
     r.id \in DOMAIN incoming \ ChangedIds(table, incoming)}

UntouchedCurrent(table, incoming) ==
  {r \in Current(table) : r.id \notin ChangedIds(table, incoming)}

NewVersions(table, incoming, d, n) ==
  {NewVersion(c, incoming[c], d, n) :
     c \in ChangedIds(table, incoming) \cup NewIds(table, incoming)}

(* A plausible bug of Merge: the historical rows are left out of the       *)
(* union.                                                                  *)
MergeWithoutHistory(table, incoming, d, n) ==
  Expired(table, incoming, d)
    \cup UntouchedCurrent(table, incoming) \cup NewVersions(table, incoming, d, n)

Merge(table, incoming, d, n) ==
  Historical(table) \cup Expired(table, incoming, d)
    \cup UntouchedCurrent(table, incoming) \cup NewVersions(table, incoming, d, n)

(* First-ever run: every incoming customer is a brand-new current row.     *)
Bootstrap(incoming, d, n) ==
  {NewVersion(c, incoming[c], d, n) : c \in DOMAIN incoming}

BuildDimCustomer(table, incoming, d, n) ==
  IF DOMAIN incoming = {} THEN table
  ELSE IF table = {} THEN Bootstrap(incoming, d, n)
  ELSE Merge(table, incoming, d, n)

----------------------------------------------------------------------------
(* Plausible bugs of Effective: an open start only; the end excluded, as   *)
(* the dbt model compares timestamps.                                      *)
EffectiveSince(r, day) == r.eff <= day
EffectiveHalfOpen(r, day) == r.eff <= day /\ (r.end = Null \/ day < r.end)

(* The versions of customer c in effect on `day': fact_sales joins an      *)
(* order to every one of them (dates compared inclusively at both ends).   *)
Effective(r, day) == r.eff <= day /\ (r.end = Null \/ day <= r.end)
PointInTime(table, c, day) == {r \in table : r.id = c /\ Effective(r, day)}
=============================================================================
