--------------------- MODULE CustomerDimension_proofs ---------------------
(***************************************************************************)
(* Proofs about the Type 2 customer dimension, for every set of customers, *)
(* attributes and batch dates and any number of builds.                    *)
(***************************************************************************)
EXTENDS CustomerDimension, TLAPS

----------------------------------------------------------------------------
(* The merge, row by row.                                                  *)

(* The bootstrap branch and the early return of build_dim_customer are     *)
(* special cases of the merge: one formula describes all three.            *)
LEMMA BuildIsMerge ==
  ASSUME NEW T \in SUBSET Row, NEW inc \in Partition, NEW d \in Date, NEW n \in Nat
  PROVE  BuildDimCustomer(T, inc, d, n) = Merge(T, inc, d, n)
<1>1. CASE DOMAIN inc = {}
  <2>1. ChangedIds(T, inc) = {} /\ NewIds(T, inc) = {}
    BY <1>1 DEF ChangedIds, NewIds
  <2>2. Expired(T, inc, d) = {} /\ NewVersions(T, inc, d, n) = {}
    BY <2>1 DEF Expired, NewVersions
  <2>3. UntouchedCurrent(T, inc) = Current(T)
    BY <2>1 DEF UntouchedCurrent, Current
  <2>4. Historical(T) \cup Current(T) = T
    BY DEF Historical, Current
  <2>5. QED
    BY <1>1, <2>2, <2>3, <2>4 DEF BuildDimCustomer, Merge
<1>2. CASE DOMAIN inc # {} /\ T = {}
  <2>1. Historical(T) = {} /\ Current(T) = {}
    BY <1>2 DEF Historical, Current
  <2>2. ChangedIds(T, inc) = {} /\ NewIds(T, inc) = DOMAIN inc
    BY <2>1 DEF ChangedIds, NewIds
  <2>3. Expired(T, inc, d) = {} /\ UntouchedCurrent(T, inc) = {}
    BY <2>1, <2>2 DEF Expired, UntouchedCurrent
  <2>4. NewVersions(T, inc, d, n) = Bootstrap(inc, d, n)
    BY <2>2 DEF NewVersions, Bootstrap
  <2>5. QED
    BY <1>2, <2>1, <2>3, <2>4 DEF BuildDimCustomer, Merge
<1>3. CASE DOMAIN inc # {} /\ T # {}
  BY <1>3 DEF BuildDimCustomer
<1>4. QED
  BY <1>1, <1>2, <1>3

(* A row of the merged table is an old row left alone, an old current row  *)
(* just expired, or a version just inserted.                               *)
Kept(T, inc, r) == r \in T /\ (r.cur => r.id \notin ChangedIds(T, inc))
JustExpired(T, inc, d, r) ==
  \E e \in T : e.cur /\ e.id \in ChangedIds(T, inc) /\ r = Expire(e, d)
JustInserted(T, inc, d, n, r) ==
  \E c \in ChangedIds(T, inc) \cup NewIds(T, inc) : r = NewVersion(c, inc[c], d, n)

LEMMA MergeRow ==
  ASSUME NEW T, NEW inc, NEW d, NEW n, NEW r
  PROVE  r \in Merge(T, inc, d, n) <=>
           \/ Kept(T, inc, r)
           \/ JustExpired(T, inc, d, r)
           \/ JustInserted(T, inc, d, n, r)
<1>1. r \in Expired(T, inc, d) <=> JustExpired(T, inc, d, r)
  BY DEF Expired, JustExpired, Current
<1>2. r \in NewVersions(T, inc, d, n) <=> JustInserted(T, inc, d, n, r)
  BY DEF NewVersions, JustInserted
<1>3. r \in Historical(T) \cup UntouchedCurrent(T, inc) <=> Kept(T, inc, r)
  BY DEF Historical, UntouchedCurrent, Current, Kept
<1>4. QED
  BY <1>1, <1>2, <1>3 DEF Merge

(* Field by field, what Expire and NewVersion make.                        *)
LEMMA ExpireFields ==
  ASSUME NEW r \in Row, NEW d \in Date
  PROVE  /\ Expire(r, d) \in Row
         /\ Expire(r, d).sk = r.sk /\ Expire(r, d).id = r.id
         /\ Expire(r, d).attr = r.attr /\ Expire(r, d).eff = r.eff
         /\ Expire(r, d).build = r.build
         /\ Expire(r, d).end = d - 1 /\ Expire(r, d).cur = FALSE
<1>1. d - 1 \in Int
  BY DateAssumption
<1>2. [r EXCEPT !.end = d - 1] \in Row
  BY <1>1 DEF Row
<1>3. [[r EXCEPT !.end = d - 1] EXCEPT !.cur = FALSE] \in Row
  BY <1>2 DEF Row
<1>4. Expire(r, d) = [[r EXCEPT !.end = d - 1] EXCEPT !.cur = FALSE]
  BY DEF Expire
<1>5. QED
  BY <1>2, <1>3, <1>4 DEF Row

LEMMA NewVersionFields ==
  ASSUME NEW c \in Customer, NEW a \in Attr, NEW d \in Date, NEW n \in Nat
  PROVE  /\ NewVersion(c, a, d, n) \in Row
         /\ NewVersion(c, a, d, n).sk = <<c, d>> /\ NewVersion(c, a, d, n).id = c
         /\ NewVersion(c, a, d, n).attr = a /\ NewVersion(c, a, d, n).eff = d
         /\ NewVersion(c, a, d, n).end = Null /\ NewVersion(c, a, d, n).cur = TRUE
BY DEF NewVersion, Row

LEMMA PartitionValues ==
  ASSUME NEW inc \in Partition, NEW c \in DOMAIN inc
  PROVE  c \in Customer /\ inc[c] \in Attr
BY DEF Partition

LEMMA EmptyIsPartition == EmptyPartition \in Partition
<1>1. EmptyPartition \in [{} -> Attr]
  BY DEF EmptyPartition
<1>2. QED
  BY <1>1 DEF Partition

LEMMA MergeType ==
  ASSUME NEW T \in SUBSET Row, NEW inc \in Partition, NEW d \in Date, NEW n \in Nat
  PROVE  Merge(T, inc, d, n) \in SUBSET Row
<1> SUFFICES ASSUME NEW r \in Merge(T, inc, d, n) PROVE r \in Row
  OBVIOUS
<1>1. CASE Kept(T, inc, r)
  BY <1>1 DEF Kept
<1>2. CASE JustExpired(T, inc, d, r)
  BY <1>2, ExpireFields DEF JustExpired
<1>3. CASE JustInserted(T, inc, d, n, r)
  <2>1. PICK c \in ChangedIds(T, inc) \cup NewIds(T, inc) : r = NewVersion(c, inc[c], d, n)
    BY <1>3 DEF JustInserted
  <2>2. c \in DOMAIN inc
    BY DEF ChangedIds, NewIds
  <2>3. QED
    BY <2>1, <2>2, PartitionValues, NewVersionFields
<1>4. QED
  BY <1>1, <1>2, <1>3, MergeRow

----------------------------------------------------------------------------
(* Type correctness.                                                       *)

LEMMA BuildIsMergeStep ==
  ASSUME TypeOK, NEW d \in Date, Build(d)
  PROVE  /\ silver[d] \in Partition
         /\ dimCustomer' = Merge(dimCustomer, silver[d], d, builds)
BY BuildIsMerge DEF TypeOK, Build

LEMMA InitType == Init => TypeOK
BY EmptyIsPartition DEF Init, TypeOK

LEMMA StepType == TypeOK /\ [AnyOrderNext]_vars => TypeOK'
<1> SUFFICES ASSUME TypeOK, [AnyOrderNext]_vars PROVE TypeOK'
  OBVIOUS
<1>1. ASSUME NEW d \in Date, NEW incoming \in Partition, WriteSilver(d, incoming)
      PROVE  TypeOK'
  BY <1>1 DEF TypeOK, WriteSilver
<1>2. ASSUME NEW d \in Date, Build(d)
      PROVE  TypeOK'
  <2>1. dimCustomer' \in SUBSET Row
    BY <1>2, BuildIsMergeStep, MergeType DEF TypeOK
  <2>2. QED
    BY <1>2, <2>1, DateAssumption DEF TypeOK, Build
<1>3. CASE UNCHANGED vars
  BY <1>3 DEF TypeOK, vars
<1>4. QED
  BY <1>1, <1>2, <1>3 DEF AnyOrderNext

(* The schedule is one of the orders: what holds of a step in any order    *)
(* holds of a scheduled step.                                              *)
LEMMA ScheduleIsAnOrder == [Next]_vars => [AnyOrderNext]_vars
BY DEF Next, AnyOrderNext, WriteOnce, BuildInOrder

(* Every reachable state under the schedule is well typed.                 *)
THEOREM TypeCorrect == Spec => []TypeOK
<1>1. TypeOK /\ [Next]_vars => TypeOK'
  BY StepType, ScheduleIsAnOrder
<1>2. QED
  BY InitType, <1>1, PTL DEF Spec

(* ... and under builds in any order.                                      *)
THEOREM TypeCorrectAnyOrder == AnyOrderSpec => []TypeOK
BY InitType, StepType, PTL DEF AnyOrderSpec

----------------------------------------------------------------------------
(* In whatever order batches are built, and whatever their Silver          *)
(* partitions turn into, a customer keeps at most one current version.     *)

LEMMA MergeKeepsOneCurrent ==
  ASSUME TypeOK, OneCurrentVersion, NEW d \in Date, Build(d)
  PROVE  OneCurrentVersion'
<1> DEFINE T == dimCustomer
           inc == silver[d]
           n == builds
<1>1. dimCustomer' = Merge(T, inc, d, n) /\ inc \in Partition /\ T \in SUBSET Row /\ n \in Nat
  BY BuildIsMergeStep DEF TypeOK
<1>2. ASSUME NEW r \in dimCustomer', JustInserted(T, inc, d, n, r)
      PROVE  /\ r.id \in ChangedIds(T, inc) \cup NewIds(T, inc)
             /\ r = NewVersion(r.id, inc[r.id], d, n)
             /\ r.cur = TRUE /\ r.end = Null
  <2>1. PICK c \in ChangedIds(T, inc) \cup NewIds(T, inc) : r = NewVersion(c, inc[c], d, n)
    BY <1>2 DEF JustInserted
  <2>2. r.id = c /\ r.cur = TRUE /\ r.end = Null
    BY <2>1 DEF NewVersion
  <2>3. QED
    BY <2>1, <2>2
<1>3. ASSUME NEW r \in dimCustomer', JustExpired(T, inc, d, r)
      PROVE  r.cur = FALSE /\ r.end # Null
  <2>1. PICK e \in T : r = Expire(e, d)
    BY <1>3 DEF JustExpired
  <2>2. r.cur = FALSE /\ r.end = d - 1
    BY <1>1, <2>1, ExpireFields
  <2>3. QED
    BY <2>2, DateAssumption, NullAssumption
<1>4. ASSUME NEW r \in dimCustomer' PROVE r.cur <=> r.end = Null
  <2>1. CASE Kept(T, inc, r)
    BY <2>1 DEF Kept, OneCurrentVersion
  <2>2. CASE JustExpired(T, inc, d, r)
    BY <2>2, <1>3
  <2>3. CASE JustInserted(T, inc, d, n, r)
    BY <2>3, <1>2
  <2>4. QED
    BY <1>1, <2>1, <2>2, <2>3, MergeRow
<1>5. ASSUME NEW r \in Current(dimCustomer'), NEW s \in Current(dimCustomer'), r.id = s.id
      PROVE  r = s
  <2>1. r \in dimCustomer' /\ s \in dimCustomer' /\ r.cur /\ s.cur
    BY DEF Current
  <2>2. /\ Kept(T, inc, r) \/ JustInserted(T, inc, d, n, r)
        /\ Kept(T, inc, s) \/ JustInserted(T, inc, d, n, s)
    BY <1>1, <1>3, <2>1, MergeRow
  <2>3. CASE Kept(T, inc, r) /\ Kept(T, inc, s)
    BY <1>5, <2>1, <2>3 DEF Kept, OneCurrentVersion, Current
  <2>4. CASE JustInserted(T, inc, d, n, r) /\ JustInserted(T, inc, d, n, s)
    BY <1>2, <1>5, <2>1, <2>4
  <2>5. ASSUME NEW x \in dimCustomer', NEW y \in dimCustomer', x.cur, x.id = y.id,
               Kept(T, inc, x), JustInserted(T, inc, d, n, y)
        PROVE  FALSE
    <3>1. x \in Current(T) /\ x.id \notin ChangedIds(T, inc)
      BY <2>5 DEF Kept, Current
    <3>2. x.id \in NewIds(T, inc)
      BY <1>2, <2>5, <3>1
    <3>3. QED
      BY <3>1, <3>2 DEF NewIds
  <2>6. QED
    BY <1>5, <2>1, <2>2, <2>3, <2>4, <2>5
<1>6. QED
  BY <1>4, <1>5 DEF OneCurrentVersion

(* At most one current version per customer, and current = open ended, for *)
(* builds in any order, over any Silver partitions.                        *)
THEOREM OneCurrentVersionAlways == AnyOrderSpec => []OneCurrentVersion
<1>1. Init => OneCurrentVersion
  BY DEF Init, OneCurrentVersion, Current
<1>2. TypeOK /\ OneCurrentVersion /\ [AnyOrderNext]_vars => OneCurrentVersion'
  <2> SUFFICES ASSUME TypeOK, OneCurrentVersion, [AnyOrderNext]_vars
               PROVE  OneCurrentVersion'
    OBVIOUS
  <2>1. ASSUME NEW d \in Date, NEW incoming \in Partition, WriteSilver(d, incoming)
        PROVE  OneCurrentVersion'
    BY <2>1 DEF WriteSilver, OneCurrentVersion
  <2>2. ASSUME NEW d \in Date, Build(d)
        PROVE  OneCurrentVersion'
    BY <2>2, MergeKeepsOneCurrent
  <2>3. CASE UNCHANGED vars
    BY <2>3 DEF vars, OneCurrentVersion
  <2>4. QED
    BY <2>1, <2>2, <2>3 DEF AnyOrderNext
<1>3. QED
  BY <1>1, <1>2, TypeCorrectAnyOrder, PTL DEF AnyOrderSpec

----------------------------------------------------------------------------
(* No build drops a row, rewrites a closed version, or changes of an open  *)
(* one anything but its end.                                               *)
THEOREM HistoryKeptAlways == AnyOrderSpec => HistoryKept
<1>1. TypeOK /\ [AnyOrderNext]_vars => [HistoryKeptStep]_vars
  <2> SUFFICES ASSUME TypeOK, [AnyOrderNext]_vars PROVE [HistoryKeptStep]_vars
    OBVIOUS
  <2>1. ASSUME NEW d \in Date, NEW incoming \in Partition, WriteSilver(d, incoming)
        PROVE  HistoryKeptStep
    BY <2>1 DEF WriteSilver, HistoryKeptStep, SameVersion, Historical, Current
  <2>2. ASSUME NEW d \in Date, Build(d)
        PROVE  HistoryKeptStep
    <3> DEFINE T == dimCustomer
               inc == silver[d]
    <3>1. dimCustomer' = Merge(T, inc, d, builds) /\ T \in SUBSET Row
      BY <2>2, BuildIsMergeStep DEF TypeOK
    <3>2. Historical(T) \subseteq dimCustomer'
      BY <3>1, MergeRow DEF Historical, Kept
    <3>3. ASSUME NEW r \in Current(T) PROVE \E s \in dimCustomer' : SameVersion(r, s)
      <4>1. r \in T /\ r.cur /\ r \in Row
        BY <3>1 DEF Current
      <4>2. CASE r.id \in ChangedIds(T, inc)
        <5>1. Expire(r, d) \in dimCustomer'
          BY <3>1, <4>1, <4>2, MergeRow DEF JustExpired
        <5>2. SameVersion(r, Expire(r, d))
          BY <4>1, ExpireFields DEF SameVersion
        <5>3. QED
          BY <5>1, <5>2
      <4>3. CASE r.id \notin ChangedIds(T, inc)
        BY <3>1, <4>1, <4>3, MergeRow DEF Kept, SameVersion
      <4>4. QED
        BY <4>2, <4>3
    <3>4. QED
      BY <3>2, <3>3 DEF HistoryKeptStep
  <2>3. QED
    BY <2>1, <2>2 DEF AnyOrderNext
<1>2. QED
  BY <1>1, TypeCorrectAnyOrder, PTL DEF AnyOrderSpec, HistoryKept

----------------------------------------------------------------------------
(* Builds in order: the versions of a customer partition the days, even if *)
(* a Silver partition is rewritten between two builds of it. A build is    *)
(* the merge of some partition, no earlier than the last, into the table.  *)

Merging(d, inc, n) ==
  /\ d >= lastBatch
  /\ dimCustomer' = Merge(dimCustomer, inc, d, n)
  /\ lastBatch' = d

LEMMA BuildMerges ==
  ASSUME TypeOK, NEW d \in Date, BuildInOrder(d)
  PROVE  silver[d] \in Partition /\ builds \in Nat /\ Merging(d, silver[d], builds)
<1>1. Build(d) /\ d >= lastBatch
  BY DEF BuildInOrder
<1>2. QED
  BY <1>1, BuildIsMergeStep DEF Merging, TypeOK, Build

(* Disjoint intervals leave at most one current row per customer: two open *)
(* ones always meet.                                                       *)
LEMMA OneCurrentFromDisjoint ==
  ASSUME Dated, OneVersionAtATime
  PROVE  \A r, s \in Current(dimCustomer) : r.id = s.id => r = s
BY DEF Dated, OneVersionAtATime, Before, Current

(* What such a build puts in the table, row by row: a kept row             *)
(* is untouched; an expired one was current and now ends the day before    *)
(* the batch; an inserted one starts on the batch day and is open.         *)
RowAfter(d, inc, n, r) ==
  \/ r \in dimCustomer /\ (r.cur => r.id \notin ChangedIds(dimCustomer, inc))
  \/ \E e \in dimCustomer :
       /\ e.cur /\ e.id \in ChangedIds(dimCustomer, inc)
       /\ r = Expire(e, d)
       /\ r.id = e.id /\ r.sk = e.sk /\ r.eff = e.eff
       /\ r.end = d - 1 /\ r.cur = FALSE
  \/ /\ r.id \in ChangedIds(dimCustomer, inc) \cup NewIds(dimCustomer, inc)
     /\ r = NewVersion(r.id, inc[r.id], d, n)
     /\ r.sk = <<r.id, d>> /\ r.attr = inc[r.id] /\ r.eff = d
     /\ r.end = Null /\ r.cur = TRUE

LEMMA InOrderRow ==
  ASSUME InOrderInv, NEW d \in Date, NEW inc \in Partition, NEW n \in Nat,
         Merging(d, inc, n), NEW r \in dimCustomer'
  PROVE  RowAfter(d, inc, n, r)
<1> DEFINE T == dimCustomer
<1>1. dimCustomer' = Merge(T, inc, d, n) /\ T \in SUBSET Row
  BY DEF Merging, InOrderInv, TypeOK
<1>2. CASE Kept(T, inc, r)
  BY <1>2 DEF Kept, RowAfter
<1>3. CASE JustExpired(T, inc, d, r)
  <2>1. PICK e \in T : e.cur /\ e.id \in ChangedIds(T, inc) /\ r = Expire(e, d)
    BY <1>3 DEF JustExpired
  <2>2. /\ r.id = e.id /\ r.sk = e.sk /\ r.eff = e.eff
        /\ r.end = d - 1 /\ r.cur = FALSE
    BY <1>1, <2>1, ExpireFields
  <2>3. QED
    BY <2>1, <2>2 DEF RowAfter
<1>4. CASE JustInserted(T, inc, d, n, r)
  <2>1. PICK c \in ChangedIds(T, inc) \cup NewIds(T, inc) : r = NewVersion(c, inc[c], d, n)
    BY <1>4 DEF JustInserted
  <2>2. /\ r.id = c /\ r.sk = <<c, d>> /\ r.attr = inc[c] /\ r.eff = d
        /\ r.end = Null /\ r.cur = TRUE
    BY <2>1 DEF NewVersion
  <2>3. QED
    BY <2>1, <2>2 DEF RowAfter
<1>5. QED
  BY <1>1, <1>2, <1>3, <1>4, MergeRow DEF RowAfter

LEMMA InOrderDated ==
  ASSUME InOrderInv, NEW d \in Date, NEW inc \in Partition, NEW n \in Nat,
         Merging(d, inc, n)
  PROVE  Dated'
<1> SUFFICES ASSUME NEW r \in dimCustomer'
             PROVE  /\ r.sk = <<r.id, r.eff>>
                    /\ r.cur <=> r.end = Null
                    /\ r.eff <= d
                    /\ r.end # Null => r.end < d
  BY DEF Dated, Merging
<1>1. d \in Nat /\ lastBatch \in Nat /\ d >= lastBatch
  BY DateAssumption DEF InOrderInv, TypeOK, Merging
<1>2. ASSUME NEW e \in dimCustomer
      PROVE  /\ e.sk = <<e.id, e.eff>> /\ e.eff \in Nat /\ e.eff <= lastBatch
             /\ e.cur <=> e.end = Null
             /\ e.end # Null => e.end \in Int /\ e.end < lastBatch
  BY DateAssumption DEF InOrderInv, TypeOK, Dated, Row
<1>3. CASE r \in dimCustomer
  BY <1>1, <1>2, <1>3
<1>4. ASSUME NEW e \in dimCustomer, r.id = e.id, r.sk = e.sk, r.eff = e.eff,
             r.end = d - 1, r.cur = FALSE
      PROVE  /\ r.sk = <<r.id, r.eff>> /\ r.cur = FALSE /\ r.end # Null
             /\ r.eff <= d /\ r.end < d
  BY <1>1, <1>2, <1>4, NullAssumption
<1>5. CASE r.sk = <<r.id, d>> /\ r.eff = d /\ r.end = Null /\ r.cur = TRUE
  BY <1>1, <1>5
<1>6. \/ r \in dimCustomer
      \/ \E e \in dimCustomer : /\ r.id = e.id /\ r.sk = e.sk /\ r.eff = e.eff
                                /\ r.end = d - 1 /\ r.cur = FALSE
      \/ r.sk = <<r.id, d>> /\ r.eff = d /\ r.end = Null /\ r.cur = TRUE
  BY InOrderRow DEF RowAfter
<1>7. QED
  BY <1>3, <1>4, <1>5, <1>6

LEMMA InOrderDisjoint ==
  ASSUME InOrderInv, NEW d \in Date, NEW inc \in Partition, NEW n \in Nat,
         Merging(d, inc, n)
  PROVE  OneVersionAtATime'
<1> DEFINE T == dimCustomer
           Changed == ChangedIds(dimCustomer, inc)
           New == NewIds(dimCustomer, inc)
           Keep(r) == r \in T /\ (r.cur => r.id \notin Changed)
           ExpiredFrom(r, e) == /\ e \in T /\ e.cur /\ e.id \in Changed /\ r = Expire(e, d)
                                /\ r.id = e.id /\ r.eff = e.eff /\ r.end = d - 1
           Insert(r) == /\ r.id \in Changed \cup New
                        /\ r = NewVersion(r.id, inc[r.id], d, n)
                        /\ r.eff = d
<1>1. d \in Nat /\ lastBatch \in Nat /\ d >= lastBatch
  BY DateAssumption DEF InOrderInv, TypeOK, Merging
<1>2. ASSUME NEW e \in T
      PROVE  /\ e.cur <=> e.end = Null
             /\ e.end # Null => e.end \in Int /\ e.end < lastBatch
  BY DEF InOrderInv, TypeOK, Dated, Row
<1>3. \A r, s \in T : r.id = s.id /\ r # s => Before(r, s) \/ Before(s, r)
  BY DEF InOrderInv, OneVersionAtATime
<1>4. ASSUME NEW r \in dimCustomer'
      PROVE  Keep(r) \/ (\E e \in T : ExpiredFrom(r, e)) \/ Insert(r)
  <2>1. CASE r \in T /\ (r.cur => r.id \notin Changed)
    BY <2>1
  <2>2. ASSUME NEW e \in T, e.cur, e.id \in Changed, r = Expire(e, d),
               r.id = e.id, r.eff = e.eff, r.end = d - 1
        PROVE  \E f \in T : ExpiredFrom(r, f)
    BY <2>2
  <2>3. CASE /\ r.id \in Changed \cup New /\ r = NewVersion(r.id, inc[r.id], d, n)
             /\ r.eff = d
    BY <2>3
  <2>4. RowAfter(d, inc, n, r)
    BY InOrderRow
  <2>5. QED
    BY <2>1, <2>2, <2>3, <2>4 DEF RowAfter
<1>5. ASSUME NEW r, NEW s, r.id = s.id, Keep(r), NEW e \in T, ExpiredFrom(s, e)
      PROVE  Before(r, s)
  <2>1. r # e /\ r.id = e.id /\ e.end = Null
    BY <1>2, <1>5
  <2>2. Before(r, e)
    BY <1>3, <1>5, <2>1 DEF Before
  <2>3. QED
    BY <1>5, <2>2 DEF Before
<1>6. ASSUME NEW r, NEW s, r.id = s.id, Keep(r), Insert(s)
      PROVE  Before(r, s)
  <2>1. r.cur => r \in Current(T)
    BY <1>6 DEF Current
  <2>2. ~ r.cur
    BY <1>6, <2>1 DEF NewIds
  <2>3. r.end # Null /\ r.end \in Int /\ r.end < lastBatch
    BY <1>2, <1>6, <2>2
  <2>4. QED
    BY <1>1, <1>6, <2>3 DEF Before
<1>7. ASSUME NEW r, NEW s, NEW e \in T, ExpiredFrom(r, e), Insert(s)
      PROVE  Before(r, s)
  BY <1>1, <1>7, NullAssumption DEF Before
<1>8. ASSUME NEW r, NEW s, r.id = s.id,
             NEW e \in T, ExpiredFrom(r, e), NEW f \in T, ExpiredFrom(s, f)
      PROVE  r = s
  <2>1. e \in Current(T) /\ f \in Current(T) /\ e.id = f.id
    BY <1>8 DEF Current
  <2>2. e = f
    BY <2>1, OneCurrentFromDisjoint DEF InOrderInv
  <2>3. QED
    BY <1>8, <2>2
<1>9. ASSUME NEW r, NEW s, r.id = s.id, Insert(r), Insert(s)
      PROVE  r = s
  BY <1>9
<1>10. SUFFICES ASSUME NEW r \in dimCustomer', NEW s \in dimCustomer', r.id = s.id, r # s
                PROVE  Before(r, s) \/ Before(s, r)
  BY DEF OneVersionAtATime, Before
<1>11. CASE Keep(r)
  <2>1. CASE Keep(s)
    BY <1>3, <1>10, <1>11, <2>1
  <2>2. CASE \E e \in T : ExpiredFrom(s, e)
    BY <1>5, <1>10, <1>11, <2>2
  <2>3. CASE Insert(s)
    BY <1>6, <1>10, <1>11, <2>3
  <2>4. QED
    BY <1>4, <2>1, <2>2, <2>3
<1>12. CASE \E e \in T : ExpiredFrom(r, e)
  <2>1. CASE Keep(s)
    BY <1>5, <1>10, <1>12, <2>1
  <2>2. CASE \E e \in T : ExpiredFrom(s, e)
    BY <1>8, <1>10, <1>12, <2>2
  <2>3. CASE Insert(s)
    BY <1>7, <1>12, <2>3
  <2>4. QED
    BY <1>4, <2>1, <2>2, <2>3
<1>13. CASE Insert(r)
  <2>1. CASE Keep(s)
    BY <1>6, <1>10, <1>13, <2>1
  <2>2. CASE \E e \in T : ExpiredFrom(s, e)
    BY <1>7, <1>13, <2>2
  <2>3. CASE Insert(s)
    BY <1>9, <1>10, <1>13, <2>3
  <2>4. QED
    BY <1>4, <2>1, <2>2, <2>3
<1>14. QED
  BY <1>4, <1>11, <1>12, <1>13

LEMMA InOrderNoGaps ==
  ASSUME InOrderInv, NEW d \in Date, NEW inc \in Partition, NEW n \in Nat,
         Merging(d, inc, n)
  PROVE  NoGaps'
<1> DEFINE T == dimCustomer
<1>1. dimCustomer' = Merge(T, inc, d, n) /\ T \in SUBSET Row
  BY DEF Merging, InOrderInv, TypeOK
<1>2. ASSUME NEW e \in T
      PROVE  \E s \in dimCustomer' : s.id = e.id /\ s.eff = e.eff
  <2>1. CASE e.cur /\ e.id \in ChangedIds(T, inc)
    <3>1. Expire(e, d) \in dimCustomer'
      BY <1>1, <2>1, MergeRow DEF JustExpired
    <3>2. Expire(e, d).id = e.id /\ Expire(e, d).eff = e.eff
      BY <1>1, ExpireFields
    <3>3. QED
      BY <3>1, <3>2
  <2>2. CASE ~(e.cur /\ e.id \in ChangedIds(T, inc))
    BY <1>1, <2>2, MergeRow DEF Kept
  <2>3. QED
    BY <2>1, <2>2
<1>3. SUFFICES ASSUME NEW r \in dimCustomer', r.end # Null
               PROVE  \E s \in dimCustomer' : s.id = r.id /\ s.eff = r.end + 1
  BY DEF NoGaps
<1>4. CASE r \in T
  <2>1. PICK e \in T : e.id = r.id /\ e.eff = r.end + 1
    BY <1>3, <1>4 DEF InOrderInv, NoGaps
  <2>2. QED
    BY <1>2, <2>1
<1>5. ASSUME NEW e \in T, e.cur, e.id \in ChangedIds(T, inc), r.id = e.id, r.end = d - 1
      PROVE  \E s \in dimCustomer' : s.id = r.id /\ s.eff = r.end + 1
  <2> DEFINE s == NewVersion(r.id, inc[r.id], d, n)
  <2>1. s \in dimCustomer'
    BY <1>1, <1>5, MergeRow DEF JustInserted
  <2>2. s.id = r.id /\ s.eff = d
    BY DEF NewVersion
  <2>3. r.end + 1 = d
    BY <1>5, DateAssumption
  <2>4. QED
    BY <2>1, <2>2, <2>3
<1>6. QED
  BY <1>3, <1>4, <1>5, InOrderRow DEF RowAfter

(* Every customer of the partition merged has a current version with the   *)
(* attributes of the partition.                                            *)
LEMMA InOrderLearned ==
  ASSUME InOrderInv, NEW d \in Date, NEW inc \in Partition, NEW n \in Nat,
         Merging(d, inc, n), NEW c \in DOMAIN inc
  PROVE  \E r \in dimCustomer' : r.cur /\ r.id = c /\ r.attr = inc[c]
<1> DEFINE T == dimCustomer
<1>1. dimCustomer' = Merge(T, inc, d, n)
  BY DEF Merging
<1>2. CASE c \in ChangedIds(T, inc) \cup NewIds(T, inc)
  <2> DEFINE s == NewVersion(c, inc[c], d, n)
  <2>1. s \in dimCustomer'
    BY <1>1, <1>2, MergeRow DEF JustInserted
  <2>2. s.cur = TRUE /\ s.id = c /\ s.attr = inc[c]
    BY DEF NewVersion
  <2>3. QED
    BY <2>1, <2>2
<1>3. CASE c \notin ChangedIds(T, inc) \cup NewIds(T, inc)
  <2>1. PICK e \in Current(T) : e.id = c
    BY <1>3 DEF NewIds
  <2>2. e.attr = inc[c]
    BY <1>3, <2>1 DEF ChangedIds
  <2>3. e \in T /\ e.cur /\ e.id \notin ChangedIds(T, inc)
    BY <1>3, <2>1 DEF Current
  <2>4. e \in dimCustomer'
    BY <1>1, <2>3, MergeRow DEF Kept
  <2>5. QED
    BY <2>1, <2>2, <2>3, <2>4
<1>4. QED
  BY <1>2, <1>3

(* The invariant of builds in order.                                       *)
LEMMA InOrderInit == Init => InOrderInv
BY InitType DEF Init, InOrderInv, Dated, OneVersionAtATime, NoGaps

LEMMA InOrderStep == InOrderInv /\ [InOrderNext]_vars => InOrderInv'
<1> SUFFICES ASSUME InOrderInv, [InOrderNext]_vars PROVE InOrderInv'
  OBVIOUS
<1>1. TypeOK'
  <2>1. [AnyOrderNext]_vars
    BY DEF InOrderNext, AnyOrderNext, BuildInOrder
  <2>2. QED
    BY <2>1, StepType DEF InOrderInv
<1>2. CASE dimCustomer' = dimCustomer /\ lastBatch' = lastBatch
  BY <1>1, <1>2 DEF InOrderInv, Dated, OneVersionAtATime, NoGaps
<1>3. ASSUME NEW d \in Date, BuildInOrder(d)
      PROVE  InOrderInv'
  <2>1. silver[d] \in Partition /\ builds \in Nat /\ Merging(d, silver[d], builds)
    BY <1>3, BuildMerges DEF InOrderInv
  <2>2. Dated' /\ OneVersionAtATime' /\ NoGaps'
    BY <2>1, InOrderDated, InOrderDisjoint, InOrderNoGaps
  <2>3. QED
    BY <1>1, <2>2 DEF InOrderInv
<1>4. QED
  BY <1>2, <1>3 DEF InOrderNext, WriteSilver, vars

(* The schedule is an order of builds.                                     *)
LEMMA ScheduleIsInOrder == [Next]_vars => [InOrderNext]_vars
BY DEF Next, InOrderNext, WriteOnce

(* The invariant the next two results rest on holds of every state that    *)
(* builds in order reach, whatever becomes of the Silver partitions.       *)
THEOREM InOrderInvariant == InOrderSpec => []InOrderInv
BY InOrderInit, InOrderStep, PTL DEF InOrderSpec

(* No day belongs to two versions of a customer, even when the partition   *)
(* of the last batch is rewritten and the batch built again (customer_sk   *)
(* does not identify a version then).                                      *)
THEOREM OneVersionAtATimeInOrder == InOrderSpec => []OneVersionAtATime
<1>1. InOrderInv => OneVersionAtATime
  BY DEF InOrderInv
<1>2. QED
  BY <1>1, InOrderInvariant, PTL

(* ... and a closed version is followed on the next day.                   *)
THEOREM NoGapsInOrder == InOrderSpec => []NoGaps
<1>1. InOrderInv => NoGaps
  BY DEF InOrderInv
<1>2. QED
  BY <1>1, InOrderInvariant, PTL

----------------------------------------------------------------------------
(* The schedule: Silver partitions do not change once written.             *)

(* Building the last batch again finds nothing changed and nothing new, so *)
(* every row is kept and none inserted.                                    *)
LEMMA AbsorbedMergeIsNoOp ==
  ASSUME IInv, lastBatch > 0, NEW n
  PROVE  Merge(dimCustomer, silver[lastBatch], lastBatch, n) = dimCustomer
<1> DEFINE T == dimCustomer
           inc == silver[lastBatch]
<1>1. ASSUME NEW c \in DOMAIN inc
      PROVE  \E r \in Current(T) : r.id = c /\ r.attr = inc[c]
  BY DEF IInv, Absorbed
<1>2. \A r, s \in Current(T) : r.id = s.id => r = s
  BY OneCurrentFromDisjoint DEF IInv, InOrderInv
<1>3. ChangedIds(T, inc) = {}
  <2> SUFFICES ASSUME NEW c \in DOMAIN inc, NEW e \in Current(T),
                      e.id = c, e.attr # inc[c]
               PROVE  FALSE
    BY DEF ChangedIds
  <2>1. PICK r \in Current(T) : r.id = c /\ r.attr = inc[c]
    BY <1>1
  <2>2. QED
    BY <1>2, <2>1
<1>4. NewIds(T, inc) = {}
  BY <1>1 DEF NewIds
<1>5. Expired(T, inc, lastBatch) = {} /\ NewVersions(T, inc, lastBatch, n) = {}
  BY <1>3, <1>4 DEF Expired, NewVersions
<1>6. UntouchedCurrent(T, inc) = Current(T)
  BY <1>3 DEF UntouchedCurrent, Current
<1>7. Historical(T) \cup Current(T) = T
  BY DEF Historical, Current
<1>8. QED
  BY <1>5, <1>6, <1>7 DEF Merge

LEMMA LaterBatchNoneEmpty ==
  ASSUME IInv, NEW d \in Date, d > lastBatch, BuildInOrder(d)
  PROVE  NoneEmpty'
<1>1. InOrderInv /\ Merging(d, silver[d], builds) /\ silver[d] \in Partition /\ builds \in Nat
  BY BuildMerges DEF IInv, InOrderInv
<1>2. d \in Nat /\ lastBatch \in Nat
  BY DateAssumption DEF IInv, InOrderInv, TypeOK
<1>3. ASSUME NEW e \in dimCustomer PROVE e.eff \in Nat /\ e.eff <= d - 1
  <2>1. e \in Row /\ e.eff <= lastBatch
    BY DEF IInv, InOrderInv, Dated, TypeOK
  <2>2. e.eff \in Nat
    BY <2>1, DateAssumption DEF Row
  <2>3. QED
    BY <1>2, <2>1, <2>2
<1>4. ASSUME NEW r \in dimCustomer', r.end # Null PROVE r.eff <= r.end
  <2>1. \/ r \in dimCustomer
        \/ \E e \in dimCustomer : r.eff = e.eff /\ r.end = d - 1
        \/ r.end = Null
    BY <1>1, InOrderRow DEF RowAfter
  <2>2. QED
    BY <1>3, <1>4, <2>1 DEF IInv, NoneEmpty
<1>5. QED
  BY <1>4 DEF NoneEmpty

LEMMA BuildAbsorbs ==
  ASSUME InOrderInv, NEW d \in Date, BuildInOrder(d)
  PROVE  Absorbed'
<1>1. Merging(d, silver[d], builds) /\ silver[d] \in Partition /\ builds \in Nat
  BY BuildMerges DEF InOrderInv
<1>2. lastBatch' = d /\ silver' = silver
  BY DEF BuildInOrder, Build
<1>3. QED
  BY <1>1, <1>2, InOrderLearned DEF Absorbed, Current

LEMMA IInvInit == Init => IInv
BY InOrderInit DEF Init, IInv, NoneEmpty, LastBatchWritten, Absorbed

LEMMA IInvStep == IInv /\ [Next]_vars => IInv'
<1> SUFFICES ASSUME IInv, [Next]_vars PROVE IInv'
  OBVIOUS
<1>1. InOrderInv'
  BY InOrderStep, ScheduleIsInOrder DEF IInv
<1>2. ASSUME NEW d \in Date, NEW incoming \in Partition, WriteOnce(d, incoming)
      PROVE  IInv'
  <2>1. lastBatch > 0 => silver'[lastBatch] = silver[lastBatch]
    BY <1>2 DEF WriteOnce, WriteSilver, IInv, InOrderInv, LastBatchWritten, TypeOK
  <2>2. /\ dimCustomer' = dimCustomer /\ lastBatch' = lastBatch
        /\ written \subseteq written'
    BY <1>2 DEF WriteOnce, WriteSilver
  <2>3. Absorbed'
    BY <2>1, <2>2 DEF IInv, Absorbed, Current
  <2>4. NoneEmpty' /\ LastBatchWritten'
    BY <2>2 DEF IInv, NoneEmpty, LastBatchWritten
  <2>5. QED
    BY <1>1, <2>3, <2>4 DEF IInv
<1>3. ASSUME NEW d \in Date, BuildInOrder(d)
      PROVE  IInv'
  <2>1. /\ Build(d) /\ d \in written /\ d >= lastBatch
        /\ lastBatch' = d /\ silver' = silver /\ written' = written
    BY <1>3 DEF BuildInOrder, Build
  <2>2. LastBatchWritten' /\ Absorbed'
    BY <1>3, <2>1, BuildAbsorbs DEF LastBatchWritten, IInv
  <2>3. CASE d > lastBatch
    BY <1>1, <1>3, <2>2, <2>3, LaterBatchNoneEmpty DEF IInv
  <2>4. CASE d = lastBatch
    <3>1. dimCustomer' = dimCustomer
      BY <2>1, <2>4, BuildIsMergeStep, AbsorbedMergeIsNoOp, DateAssumption DEF IInv, InOrderInv
    <3>2. QED
      BY <1>1, <2>2, <3>1 DEF IInv, NoneEmpty
  <2>5. d \in Nat /\ lastBatch \in Nat
    BY DateAssumption DEF IInv, InOrderInv, TypeOK
  <2>6. QED
    BY <2>1, <2>3, <2>4, <2>5
<1>4. CASE UNCHANGED vars
  BY <1>1, <1>4 DEF vars, IInv, NoneEmpty, LastBatchWritten, Absorbed, Current
<1>5. QED
  BY <1>2, <1>3, <1>4 DEF Next

(* The invariant the results below rest on holds of every scheduled state. *)
THEOREM InductiveInvariant == Spec => []IInv
BY IInvInit, IInvStep, PTL DEF Spec

(* customer_sk identifies a version: two versions with one key would start *)
(* on the same day, and both would be in effect on it.                     *)
THEOREM SurrogateKeyUniqueAlways == Spec => []SurrogateKeyUnique
<1>1. IInv => SurrogateKeyUnique
  <2> SUFFICES ASSUME IInv, NEW r \in dimCustomer, NEW s \in dimCustomer,
                      r.sk = s.sk, r # s
               PROVE  FALSE
    BY DEF SurrogateKeyUnique
  <2>1. r.id = s.id /\ r.eff = s.eff
    BY DEF IInv, InOrderInv, Dated
  <2>2. Before(r, s) \/ Before(s, r)
    BY <2>1 DEF IInv, InOrderInv, OneVersionAtATime
  <2>3. /\ r.eff \in Nat /\ (r.end # Null => r.end \in Int /\ r.eff <= r.end)
        /\ s.eff \in Nat /\ (s.end # Null => s.end \in Int /\ s.eff <= s.end)
    BY DateAssumption DEF IInv, InOrderInv, NoneEmpty, TypeOK, Row
  <2>4. QED
    BY <2>1, <2>2, <2>3 DEF Before
<1>2. QED
  BY <1>1, InductiveInvariant, PTL

(* Building the last batch again (a retry) leaves the table as it is.      *)
THEOREM RebuildIsNoOpAlways == Spec => []RebuildIsNoOp
<1>1. IInv => RebuildIsNoOp
  <2> SUFFICES ASSUME IInv, lastBatch > 0
               PROVE  BuildDimCustomer(dimCustomer, silver[lastBatch], lastBatch, builds)
                        = dimCustomer
    BY DEF RebuildIsNoOp
  <2>1. lastBatch \in Date
    BY DEF IInv, InOrderInv, LastBatchWritten, TypeOK
  <2>2. BuildDimCustomer(dimCustomer, silver[lastBatch], lastBatch, builds)
          = Merge(dimCustomer, silver[lastBatch], lastBatch, builds)
    BY <2>1, BuildIsMerge DEF IInv, InOrderInv, TypeOK
  <2>3. QED
    BY <2>2, AbsorbedMergeIsNoOp
<1>2. QED
  BY <1>1, InductiveInvariant, PTL

(* A build keeps the versions of the days before its batch.                *)
LEMMA InOrderKeepsPast ==
  ASSUME InOrderInv, NEW d \in Date, NEW inc \in Partition, NEW n \in Nat,
         Merging(d, inc, n), NEW c, NEW day \in Nat, day < d
  PROVE  {r.sk : r \in PointInTime(dimCustomer', c, day)}
           = {r.sk : r \in PointInTime(dimCustomer, c, day)}
<1> DEFINE T == dimCustomer
<1>1. dimCustomer' = Merge(T, inc, d, n) /\ T \in SUBSET Row
  BY DEF Merging, InOrderInv, TypeOK
<1>2. d \in Nat /\ lastBatch \in Nat
  BY DateAssumption DEF InOrderInv, TypeOK
<1>3. ASSUME NEW e \in T
      PROVE  /\ e \in Row /\ e.eff \in Nat
             /\ e.cur <=> e.end = Null
             /\ e.end # Null => e.end \in Int
  BY DateAssumption DEF InOrderInv, TypeOK, Dated, Row
<1>4. ASSUME NEW r \in dimCustomer', r.id = c, Effective(r, day)
      PROVE  \E e \in T : e.id = c /\ Effective(e, day) /\ e.sk = r.sk
  <2>1. CASE r \in T
    BY <1>4, <2>1
  <2>2. ASSUME NEW e \in T, e.cur, r = Expire(e, d)
        PROVE  \E f \in T : f.id = c /\ Effective(f, day) /\ f.sk = r.sk
    <3>1. r.id = e.id /\ r.sk = e.sk /\ r.eff = e.eff
      BY <1>3, <2>2, ExpireFields
    <3>2. Effective(e, day)
      BY <1>3, <1>4, <2>2, <3>1 DEF Effective
    <3>3. QED
      BY <1>4, <3>1, <3>2
  <2>3. CASE r.eff = d
    BY <1>2, <1>4, <2>3 DEF Effective
  <2>4. QED
    BY <2>1, <2>2, <2>3, InOrderRow DEF RowAfter
<1>5. ASSUME NEW e \in T, e.id = c, Effective(e, day)
      PROVE  \E r \in dimCustomer' : r.id = c /\ Effective(r, day) /\ r.sk = e.sk
  <2>1. CASE e.cur /\ c \in ChangedIds(T, inc)
    <3>1. Expire(e, d) \in dimCustomer'
      BY <1>1, <1>5, <2>1, MergeRow DEF JustExpired
    <3>2. /\ Expire(e, d).id = c /\ Expire(e, d).sk = e.sk
          /\ Expire(e, d).eff = e.eff /\ Expire(e, d).end = d - 1
      BY <1>3, <1>5, ExpireFields
    <3>3. Effective(Expire(e, d), day)
      BY <1>2, <1>5, <3>2 DEF Effective
    <3>4. QED
      BY <3>1, <3>2, <3>3
  <2>2. CASE ~(e.cur /\ c \in ChangedIds(T, inc))
    BY <1>1, <1>5, <2>2, MergeRow DEF Kept
  <2>3. QED
    BY <2>1, <2>2
<1> DEFINE Keys(t) == {r.sk : r \in PointInTime(t, c, day)}
<1>6. Keys(dimCustomer') \subseteq Keys(T)
  BY <1>4 DEF PointInTime
<1>7. Keys(T) \subseteq Keys(dimCustomer')
  BY <1>5 DEF PointInTime
<1>8. QED
  BY <1>6, <1>7

LEMMA BuildKeepsPast ==
  ASSUME IInv, NEW d \in Date, BuildInOrder(d), NEW c, NEW day \in Nat, day <= lastBatch
  PROVE  {r.sk : r \in PointInTime(dimCustomer', c, day)}
           = {r.sk : r \in PointInTime(dimCustomer, c, day)}
<1>0. Merging(d, silver[d], builds) /\ silver[d] \in Partition /\ builds \in Nat
  BY BuildMerges DEF IInv, InOrderInv
<1>1. Build(d) /\ d \in Nat /\ lastBatch \in Nat /\ d >= lastBatch /\ d > 0
  BY DateAssumption DEF IInv, InOrderInv, TypeOK, BuildInOrder
<1>2. CASE d > lastBatch
  <2>1. day < d
    BY <1>1, <1>2
  <2>2. QED
    BY <1>0, <2>1, InOrderKeepsPast DEF IInv
<1>3. CASE d = lastBatch
  <2>1. dimCustomer' = dimCustomer
    BY <1>1, <1>3, BuildIsMergeStep, AbsorbedMergeIsNoOp DEF IInv, InOrderInv
  <2>2. QED
    BY <2>1
<1>4. d > lastBatch \/ d = lastBatch
  BY <1>1
<1>5. QED
  BY <1>2, <1>3, <1>4

(* On no day is a customer's version in doubt.                             *)
LEMMA OneInEffect ==
  ASSUME InOrderInv, NEW c, NEW day \in Nat,
         NEW r \in PointInTime(dimCustomer, c, day), NEW s \in PointInTime(dimCustomer, c, day)
  PROVE  r = s
<1>1. /\ r \in dimCustomer /\ s \in dimCustomer /\ r.id = s.id
      /\ Effective(r, day) /\ Effective(s, day)
  BY DEF PointInTime
<1>2. /\ r.eff \in Nat /\ s.eff \in Nat
      /\ r.end # Null => r.end \in Int
      /\ s.end # Null => s.end \in Int
  BY <1>1, DateAssumption DEF InOrderInv, TypeOK, Row
<1>3. ~Before(r, s) /\ ~Before(s, r)
  BY <1>1, <1>2 DEF Before, Effective
<1>4. QED
  BY <1>1, <1>3 DEF InOrderInv, OneVersionAtATime

----------------------------------------------------------------------------
(* The table implements the as-of history.                                 *)

(* A build of batch d makes the partition the answer from day d on *)
(* for the customers in it, and changes no other answer.                   *)
LEMMA InOrderAnswers ==
  ASSUME InOrderInv, NEW d \in Date, NEW inc \in Partition, NEW n \in Nat,
         Merging(d, inc, n),
         NEW c \in Customer, NEW day \in Date
  PROVE  AttrsOn(dimCustomer', c, day) =
           IF day >= d /\ c \in DOMAIN inc THEN {inc[c]}
           ELSE AttrsOn(dimCustomer, c, day)
<1> DEFINE T == dimCustomer
<1>1. dimCustomer' = Merge(T, inc, d, n) /\ T \in SUBSET Row /\ lastBatch' = d
  BY DEF InOrderInv, TypeOK, Merging
<1>2. d \in Nat /\ lastBatch \in Nat /\ d >= lastBatch /\ day \in Nat
  BY DateAssumption DEF InOrderInv, TypeOK, Merging
<1>3. ASSUME NEW e \in T
      PROVE  /\ e \in Row /\ e.eff \in Nat /\ e.eff <= lastBatch
             /\ e.cur <=> e.end = Null
             /\ e.end # Null => e.end \in Int /\ e.end < lastBatch
  BY DateAssumption DEF InOrderInv, TypeOK, Dated, Row
<1>4. ChangedIds(T, inc) \subseteq DOMAIN inc /\ NewIds(T, inc) \subseteq DOMAIN inc
  BY DEF ChangedIds, NewIds
<1>5. CASE day >= d /\ c \in DOMAIN inc
  <2>1. ASSUME NEW r \in dimCustomer', r.id = c, Effective(r, day)
        PROVE  r.attr = inc[c]
    <3>1. CASE r \in T /\ (r.cur => r.id \notin ChangedIds(T, inc))
      <4>1. r.cur
        BY <1>2, <1>3, <1>5, <2>1, <3>1 DEF Effective
      <4>2. r \in Current(T) /\ c \notin ChangedIds(T, inc)
        BY <2>1, <3>1, <4>1 DEF Current
      <4>3. QED
        BY <1>5, <2>1, <4>2 DEF ChangedIds
    <3>2. CASE r.end = d - 1
      BY <1>2, <1>5, <2>1, <3>2, NullAssumption DEF Effective
    <3>3. CASE r.attr = inc[r.id]
      BY <2>1, <3>3
    <3>4. QED
      BY <3>1, <3>2, <3>3, InOrderRow DEF RowAfter
  <2>2. PICK r \in dimCustomer' : r.cur /\ r.id = c /\ r.attr = inc[c]
    BY <1>5, InOrderLearned
  <2>3. Effective(r, day)
    <3>1. r.end = Null /\ r.eff <= d
      BY <1>1, <2>2, InOrderDated DEF Dated
    <3>2. r.eff \in Nat
      <4>1. dimCustomer' \in SUBSET Row
        BY <1>1, MergeType
      <4>2. QED
        BY <4>1, DateAssumption DEF Row
    <3>3. QED
      BY <1>2, <1>5, <3>1, <3>2 DEF Effective
  <2>4. AttrsOn(dimCustomer', c, day) = {inc[c]}
    BY <2>1, <2>2, <2>3 DEF AttrsOn, PointInTime
  <2>5. QED
    BY <1>5, <2>4
<1>6. CASE ~(day >= d /\ c \in DOMAIN inc)
  <2>1. ASSUME NEW r \in dimCustomer', r.id = c, Effective(r, day)
        PROVE  \E e \in T : e.id = c /\ Effective(e, day) /\ e.attr = r.attr
    <3>1. CASE r \in T
      BY <2>1, <3>1
    <3>2. ASSUME NEW e \in T, e.cur, r = Expire(e, d)
          PROVE  \E f \in T : f.id = c /\ Effective(f, day) /\ f.attr = r.attr
      <4>1. r.id = e.id /\ r.attr = e.attr /\ r.eff = e.eff
        BY <1>3, <3>2, ExpireFields
      <4>2. Effective(e, day)
        BY <1>3, <2>1, <3>2, <4>1 DEF Effective
      <4>3. QED
        BY <2>1, <4>1, <4>2
    <3>3. CASE r.id \in ChangedIds(T, inc) \cup NewIds(T, inc) /\ r.eff = d
      BY <1>2, <1>4, <1>6, <2>1, <3>3 DEF Effective
    <3>4. QED
      BY <3>1, <3>2, <3>3, InOrderRow DEF RowAfter
  <2>2. ASSUME NEW e \in T, e.id = c, Effective(e, day)
        PROVE  \E r \in dimCustomer' : r.id = c /\ Effective(r, day) /\ r.attr = e.attr
    <3>1. CASE e.cur /\ c \in ChangedIds(T, inc)
      <4>1. Expire(e, d) \in dimCustomer'
        BY <1>1, <2>2, <3>1, MergeRow DEF JustExpired
      <4>2. /\ Expire(e, d).id = c /\ Expire(e, d).attr = e.attr
            /\ Expire(e, d).eff = e.eff /\ Expire(e, d).end = d - 1
        BY <1>3, <2>2, ExpireFields
      <4>3. day <= d - 1
        BY <1>2, <1>4, <1>6, <3>1
      <4>4. Effective(Expire(e, d), day)
        BY <2>2, <4>2, <4>3 DEF Effective
      <4>5. QED
        BY <4>1, <4>2, <4>4
    <3>2. CASE ~(e.cur /\ c \in ChangedIds(T, inc))
      BY <1>1, <2>2, <3>2, MergeRow DEF Kept
    <3>3. QED
      BY <3>1, <3>2
  <2>3. AttrsOn(dimCustomer', c, day) = AttrsOn(T, c, day)
    BY <2>1, <2>2 DEF AttrsOn, PointInTime
  <2>4. QED
    BY <1>6, <2>3
<1>7. QED
  BY <1>5, <1>6

LEMMA InOrderLearns ==
  ASSUME InOrderInv, NEW d \in Date, NEW inc \in Partition, NEW n \in Nat,
         Merging(d, inc, n)
  PROVE  History!Learn(d, inc)
<1>1. lastBatch' = d
  BY DEF Merging
<1>2. ASSUME NEW c \in Customer, NEW day \in Date
      PROVE  Lookup(dimCustomer', c, day) =
               IF day >= d /\ c \in DOMAIN inc THEN inc[c]
               ELSE Lookup(dimCustomer, c, day)
  <2>1. CASE day >= d /\ c \in DOMAIN inc
    <3>1. AttrsOn(dimCustomer', c, day) = {inc[c]} /\ inc[c] \in Attr
      BY <1>1, <2>1, InOrderAnswers, PartitionValues
    <3>2. Lookup(dimCustomer', c, day) = inc[c]
      BY <3>1 DEF Lookup
    <3>3. QED
      BY <2>1, <3>2
  <2>2. CASE ~(day >= d /\ c \in DOMAIN inc)
    <3>1. AttrsOn(dimCustomer', c, day) = AttrsOn(dimCustomer, c, day)
      BY <2>2, InOrderAnswers
    <3>2. Lookup(dimCustomer', c, day) = Lookup(dimCustomer, c, day)
      BY <3>1 DEF Lookup
    <3>3. QED
      BY <2>2, <3>2
  <2>3. QED
    BY <2>1, <2>2
<1>3. QED
  BY <1>1, <1>2 DEF History!Learn

LEMMA NothingKnown == Init => History!Init
<1> SUFFICES ASSUME Init PROVE History!Init
  OBVIOUS
<1>1. ASSUME NEW c \in Customer, NEW day \in Date
      PROVE  Lookup(dimCustomer, c, day) = Null
  BY DEF Init, Lookup, AttrsOn, PointInTime
<1>2. QED
  BY <1>1 DEF Init, History!Init

(* Whatever becomes of the Silver partitions, builds in order implement    *)
(* the history whose last batch may be revised: a build of batch d changes *)
(* what is known from day d on, for the customers in its partition, and    *)
(* never what was known of an earlier day.                                 *)
THEOREM RevisableRefinement == InOrderSpec => ImplementsRevisableHistory
<1>1. Init => History!Init
  BY NothingKnown
<1>2. InOrderInv /\ [InOrderNext]_vars => [History!RevisableNext]_(History!hvars)
  <2> SUFFICES ASSUME InOrderInv, [InOrderNext]_vars
               PROVE  [History!RevisableNext]_(History!hvars)
    OBVIOUS
  <2>1. CASE dimCustomer' = dimCustomer /\ lastBatch' = lastBatch
    BY <2>1 DEF History!hvars
  <2>2. ASSUME NEW d \in Date, BuildInOrder(d)
        PROVE  History!RevisableNext
    <3>1. silver[d] \in Partition /\ builds \in Nat /\ Merging(d, silver[d], builds)
      BY <2>2, BuildMerges DEF InOrderInv
    <3>2. History!LoadOrRevise(d, silver[d])
      BY <3>1, InOrderLearns DEF Merging, History!LoadOrRevise
    <3>3. \E S \in SUBSET Customer : silver[d] \in [S -> Attr]
      BY <3>1 DEF Partition
    <3>4. QED
      BY <3>2, <3>3 DEF History!RevisableNext
  <2>3. QED
    BY <2>1, <2>2 DEF InOrderNext, WriteSilver, vars
<1>3. QED
  BY <1>1, <1>2, InOrderInvariant, PTL DEF InOrderSpec, ImplementsRevisableHistory,
     History!RevisableSpec

(* Under the schedule the dimension answers every as-of question the way   *)
(* the sequence of Silver partitions says: the first build of a batch is a *)
(* load of it, every other step changes no answer.                         *)
THEOREM Refinement == Spec => ImplementsHistory
<1>1. Init => History!Init
  BY NothingKnown
<1>2. IInv /\ IInv' /\ [Next]_vars => [History!Next]_(History!hvars)
  <2> SUFFICES ASSUME IInv, [Next]_vars PROVE [History!Next]_(History!hvars)
    OBVIOUS
  <2>1. CASE dimCustomer' = dimCustomer /\ lastBatch' = lastBatch
    BY <2>1 DEF History!hvars
  <2>2. ASSUME NEW d \in Date, NEW incoming \in Partition, WriteOnce(d, incoming)
        PROVE  dimCustomer' = dimCustomer /\ lastBatch' = lastBatch
    BY <2>2 DEF WriteOnce, WriteSilver
  <2>3. ASSUME NEW d \in Date, BuildInOrder(d)
        PROVE  [History!Next]_(History!hvars)
    <3>1. /\ Build(d) /\ d >= lastBatch /\ lastBatch' = d
          /\ d \in Nat /\ lastBatch \in Nat /\ d > 0
      BY <2>3, DateAssumption DEF BuildInOrder, Build, IInv, InOrderInv, TypeOK
    <3>2. CASE d > lastBatch
      <4>1. History!Load(d, silver[d])
        BY <2>3, <3>2, BuildMerges, InOrderLearns DEF IInv, InOrderInv, History!Load
      <4>2. \E S \in SUBSET Customer : silver[d] \in [S -> Attr]
        BY <2>3, BuildMerges DEF Partition, IInv, InOrderInv
      <4>3. QED
        BY <4>1, <4>2 DEF History!Next
    <3>3. CASE d = lastBatch
      <4>1. dimCustomer' = dimCustomer
        BY <3>1, <3>3, BuildIsMergeStep, AbsorbedMergeIsNoOp DEF IInv, InOrderInv
      <4>2. QED
        BY <2>1, <3>1, <3>3, <4>1
    <3>4. QED
      BY <3>1, <3>2, <3>3
  <2>4. CASE UNCHANGED vars
    BY <2>1, <2>4 DEF vars
  <2>5. QED
    BY <2>1, <2>2, <2>3, <2>4 DEF Next
<1>3. QED
  BY <1>1, <1>2, InductiveInvariant, PTL DEF Spec, ImplementsHistory, History!Spec
=============================================================================
