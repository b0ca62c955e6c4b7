------------------------ MODULE DbtDimension_proofs ------------------------
(***************************************************************************)
(* Proofs about the two Gold customer dimensions side by side, for every   *)
(* set of customers, attributes and batches and any calendar. What is      *)
(* proved of the Python dimension under its schedule holds here too        *)
(* (ScheduleIsKept); the rest is about the dbt snapshot.                   *)
(***************************************************************************)
EXTENDS DbtDimension, CustomerDimension_proofs

(* The daily jobs are the schedule of CustomerDimension, on a calendar;    *)
(* the snapshot leaves its variables alone.                                *)
LEMMA StepIsScheduled == [DbtNext]_<<vars, dbtVars>> => [Next]_vars
BY DEF DbtNext, Next, Tick, WriteDaily, BuildDaily, Snapshot, vars

(* The composition of the two dimensions implements the schedule, so what  *)
(* is proved of CustomerDimension under its schedule holds in it.          *)
THEOREM ScheduleIsKept == DbtSpec => Spec
<1>1. DbtInit => Init
  BY DEF DbtInit
<1>2. QED
  BY <1>1, StepIsScheduled, PTL DEF DbtSpec, Spec

(* So the Python dimension keeps its own invariant.                        *)
LEMMA PythonInvariant == DbtSpec => []IInv
BY ScheduleIsKept, InductiveInvariant, PTL

----------------------------------------------------------------------------
(* The inductive invariant of the snapshot: versions end before they are   *)
(* opened again, and each says what some batch read by then says.          *)
EndsBy(v, w) == v.to # Null /\ v.to <= w.from
SnapshotIInv ==
  /\ DbtTypeOK
  /\ lastSnap <= Now
  /\ \A d \in written : d < today
  /\ \A v \in snapshot :
       /\ v.from <= lastSnap
       /\ v.to # Null => v.from < v.to /\ v.to <= lastSnap
       /\ \E d \in snapped : d < Day(v.from) /\ v.id \in DOMAIN silver[d] /\ silver[d][v.id] = v.attr
  /\ \A v, w \in snapshot : v.id = w.id /\ v # w => EndsBy(v, w) \/ EndsBy(w, v)

(* A row of the new snapshot is an old one left alone, one just closed or  *)
(* one just opened.                                                        *)
Stale(table, inc, v) ==
  v \in table /\ v.to = Null /\ v.id \in DOMAIN inc /\ v.attr # inc[v.id]
Opened(table, inc, at, v) ==
  \E c \in DOMAIN inc :
    v = OpenVersion(c, inc[c], at) /\ \A e \in table : e.to = Null /\ e.id = c => e.attr # inc[c]

LEMMA SnapshotRow ==
  ASSUME NEW table, NEW inc, NEW at, NEW v
  PROVE  v \in SnapshotOf(table, inc, at) <=>
           \/ v \in table /\ ~Stale(table, inc, v)
           \/ \E e : Stale(table, inc, e) /\ v = [e EXCEPT !.to = at]
           \/ Opened(table, inc, at, v)
<1> DEFINE changed == {e \in Open(table) : e.id \in DOMAIN inc /\ e.attr # inc[e.id]}
           unchanged == {e.id : e \in Open(table) \ changed}
<1>1. \A e : e \in changed <=> Stale(table, inc, e)
  BY DEF Open, Stale
<1>2. \A c \in DOMAIN inc :
        c \notin unchanged <=> \A e \in table : e.to = Null /\ e.id = c => e.attr # inc[c]
  BY DEF Open
<1>3. SnapshotOf(table, inc, at) =
        (table \ changed) \cup {[e EXCEPT !.to = at] : e \in changed}
          \cup {OpenVersion(c, inc[c], at) : c \in DOMAIN inc \ unchanged}
  BY DEF SnapshotOf
<1> HIDE DEF changed, unchanged
<1>4. QED
  BY <1>1, <1>2, <1>3 DEF Opened

LEMMA ClosedFields ==
  ASSUME NEW e \in Version, NEW at \in Instant, NEW v, v = [e EXCEPT !.to = at]
  PROVE  v \in Version /\ v.id = e.id /\ v.attr = e.attr /\ v.from = e.from /\ v.to = at
BY DEF Version

LEMMA OpenFields ==
  ASSUME NEW c \in Customer, NEW a \in Attr, NEW at \in Instant
  PROVE  /\ OpenVersion(c, a, at) \in Version
         /\ OpenVersion(c, a, at).id = c /\ OpenVersion(c, a, at).attr = a
         /\ OpenVersion(c, a, at).from = at /\ OpenVersion(c, a, at).to = Null
BY DEF OpenVersion, Version

LEMMA InstantFacts ==
  /\ \A i \in Instant : i \in Int /\ i # Null
  /\ today \in 1..LastDay => Now \in Instant /\ Day(Now) = today
BY NullAssumption, CalendarAssumption DEF Instant, Now, Day

(* What one run of the snapshot does to the invariant.                     *)
LEMMA SnapshotKeepsInvariant ==
  ASSUME IInv, SnapshotIInv, NEW d \in MostRecent, lastSnap < Now,
         snapshot' = SnapshotOf(snapshot, silver[d], Now), snapped' = snapped \cup {d},
         lastSnap' = Now, UNCHANGED <<vars, today, built>>
  PROVE  SnapshotIInv'
<1> DEFINE inc == silver[d]
           at == Now
<1>1. d \in written /\ d < today /\ inc \in Partition /\ d \in Date
  BY DEF MostRecent, SnapshotIInv, IInv, InOrderInv, TypeOK
<1>2. at \in Instant /\ Day(at) = today /\ lastSnap \in Int /\ lastSnap < at
  BY InstantFacts, NullAssumption DEF SnapshotIInv, DbtTypeOK, Instant
<1>3. \A v \in snapshot : v \in Version /\ v.from \in Int /\ v.from < at
        /\ (v.to # Null => v.to \in Int /\ v.to < at)
  BY <1>2, InstantFacts DEF SnapshotIInv, DbtTypeOK, Version
<1>4. Now' = at /\ silver' = silver /\ written' = written /\ today' = today
  BY DEF Now, vars
<1> HIDE DEF at
<1>5. ASSUME NEW v \in snapshot'
      PROVE  \/ v \in snapshot /\ ~Stale(snapshot, inc, v)
             \/ \E e \in snapshot : /\ Stale(snapshot, inc, e) /\ v \in Version /\ v.id = e.id
                                    /\ v.attr = e.attr /\ v.from = e.from /\ v.to = at
                                    /\ v = [e EXCEPT !.to = at]
             \/ /\ v \in Version /\ v.id \in DOMAIN inc /\ v.attr = inc[v.id] /\ v.from = at /\ v.to = Null
                /\ v = OpenVersion(v.id, inc[v.id], at)
                /\ \A e \in snapshot : e.to = Null /\ e.id = v.id => e.attr # inc[v.id]
  <2>1. CASE \E e : Stale(snapshot, inc, e) /\ v = [e EXCEPT !.to = at]
    BY <1>2, <1>3, <2>1, ClosedFields DEF Stale
  <2>2. CASE Opened(snapshot, inc, at, v)
    BY <1>1, <1>2, <2>2, OpenFields, PartitionValues DEF Opened
  <2>3. QED
    BY <2>1, <2>2, SnapshotRow DEF at
<1>6. DbtTypeOK'
  <2>1. snapshot' \subseteq Version
    BY <1>3, <1>5
  <2>2. QED
    BY <1>1, <1>2, <2>1 DEF SnapshotIInv, DbtTypeOK, vars, at
<1>7. ASSUME NEW v \in snapshot'
      PROVE  /\ v.from <= lastSnap'
             /\ v.to # Null => v.from < v.to /\ v.to <= lastSnap'
             /\ \E b \in snapped' : b < Day(v.from) /\ v.id \in DOMAIN silver[b] /\ silver[b][v.id] = v.attr
  <2>1. lastSnap' = at
    BY DEF at
  <2>2. CASE v \in snapshot
    BY <1>2, <1>3, <1>4, <2>1, <2>2, InstantFacts DEF SnapshotIInv
  <2>3. CASE \E e \in snapshot : v.id = e.id /\ v.attr = e.attr /\ v.from = e.from /\ v.to = at
    BY <1>2, <1>3, <1>4, <2>1, <2>3, InstantFacts DEF SnapshotIInv
  <2>4. CASE v.id \in DOMAIN inc /\ v.attr = inc[v.id] /\ v.from = at /\ v.to = Null
    BY <1>1, <1>2, <1>4, <2>1, <2>4, InstantFacts
  <2>5. QED
    BY <1>5, <2>2, <2>3, <2>4
<1>8. ASSUME NEW v \in snapshot', NEW w \in snapshot', v.id = w.id, v # w
      PROVE  EndsBy(v, w) \/ EndsBy(w, v)
  <2> DEFINE Old(x) == \E e \in snapshot : e.id = x.id /\ e.from = x.from
                         /\ (IF Stale(snapshot, inc, e) THEN x = [e EXCEPT !.to = at] /\ x.to = at ELSE x = e)
             New(x) == /\ x = OpenVersion(x.id, inc[x.id], at) /\ x.from = at
                       /\ x.id \in DOMAIN inc
                       /\ \A e \in snapshot : e.to = Null /\ e.id = x.id => e.attr # inc[x.id]
  <2>1. \A x \in snapshot' : Old(x) \/ New(x)
    BY <1>5
  <2>2. ASSUME NEW x, NEW y, Old(x), Old(y), x.id = y.id, x # y PROVE EndsBy(x, y) \/ EndsBy(y, x)
    <3>1. PICK e \in snapshot : e.id = x.id /\ e.from = x.from
            /\ (IF Stale(snapshot, inc, e) THEN x = [e EXCEPT !.to = at] /\ x.to = at ELSE x = e)
      BY <2>2
    <3>2. PICK f \in snapshot : f.id = y.id /\ f.from = y.from
            /\ (IF Stale(snapshot, inc, f) THEN y = [f EXCEPT !.to = at] /\ y.to = at ELSE y = f)
      BY <2>2
    <3>3. e # f /\ (EndsBy(e, f) \/ EndsBy(f, e))
      BY <2>2, <3>1, <3>2 DEF SnapshotIInv
    <3>4. QED
      BY <3>1, <3>2, <3>3 DEF EndsBy, Stale
  <2>3. ASSUME NEW x, NEW y, Old(x), New(y), x.id = y.id PROVE EndsBy(x, y)
    <3>1. PICK e \in snapshot : e.id = x.id /\ e.from = x.from
            /\ (IF Stale(snapshot, inc, e) THEN x = [e EXCEPT !.to = at] /\ x.to = at ELSE x = e)
      BY <2>3
    <3>2. CASE Stale(snapshot, inc, e)
      BY <1>2, <2>3, <3>1, <3>2, InstantFacts DEF EndsBy
    <3>3. CASE ~Stale(snapshot, inc, e)
      <4>1. e.to # Null
        BY <2>3, <3>1, <3>3 DEF Stale
      <4>2. e.to \in Int /\ e.to < at /\ at \in Int
        BY <1>2, <1>3, <4>1, InstantFacts
      <4>3. QED
        BY <2>3, <3>1, <3>3, <4>1, <4>2 DEF EndsBy
    <3>4. QED
      BY <3>2, <3>3
  <2>4. ASSUME NEW x, NEW y, New(x), New(y), x.id = y.id PROVE x = y
    BY <2>4
  <2> HIDE DEF Old, New
  <2>5. QED
    BY <1>8, <2>1, <2>2, <2>3, <2>4
<1>9. lastSnap' <= Now' /\ \A b \in written' : b < today'
  <2>1. lastSnap' = at /\ Now' = at /\ at \in Int
    BY <1>2, <1>4, InstantFacts DEF at
  <2>2. QED
    BY <1>4, <2>1 DEF SnapshotIInv
<1>10. QED
  BY <1>4, <1>6, <1>7, <1>8, <1>9 DEF SnapshotIInv

(* Batches already read are not written again.                             *)
LEMMA ReadBatchesStand ==
  ASSUME TypeOK, NEW d \in Date, NEW incoming \in Partition, WriteDaily(d, incoming)
  PROVE  /\ \A e \in written : silver'[e] = silver[e]
         /\ written' = written \cup {d} /\ d < today /\ d \notin written
         /\ UNCHANGED <<dimCustomer, lastBatch, dbtVars>>
BY DEF WriteDaily, WriteOnce, WriteSilver, TypeOK

LEMMA SnapshotIInvStep ==
  IInv /\ SnapshotIInv /\ [DbtNext]_<<vars, dbtVars>> => SnapshotIInv'
<1> SUFFICES ASSUME IInv, SnapshotIInv, [DbtNext]_<<vars, dbtVars>> PROVE SnapshotIInv'
  OBVIOUS
<1>1. today \in Int /\ lastSnap \in Int
  BY InstantFacts DEF SnapshotIInv, DbtTypeOK, Instant
<1>2. ASSUME UNCHANGED <<snapshot, lastSnap, snapped>>, today' \in 1..LastDay, today <= today',
             \A e \in written : silver'[e] = silver[e],
             \A d \in written' : d < today',
             snapped \subseteq written', built' \subseteq written'
      PROVE  SnapshotIInv'
  <2>1. lastSnap' <= Now'
    BY <1>1, <1>2 DEF SnapshotIInv, Now
  <2>2. DbtTypeOK'
    BY <1>2 DEF SnapshotIInv, DbtTypeOK
  <2>3. \A d \in snapped : silver'[d] = silver[d]
    BY <1>2 DEF SnapshotIInv, DbtTypeOK
  <2>4. QED
    BY <1>2, <2>1, <2>2, <2>3 DEF SnapshotIInv, EndsBy
<1>3. CASE Tick
  BY <1>1, <1>2, <1>3, CalendarAssumption, DateAssumption
     DEF Tick, vars, SnapshotIInv, DbtTypeOK, IInv, InOrderInv, TypeOK
<1>4. ASSUME NEW d \in Date, NEW incoming \in Partition, WriteDaily(d, incoming) PROVE SnapshotIInv'
  <2>1. /\ \A e \in written : silver'[e] = silver[e]
        /\ written' = written \cup {d} /\ d < today /\ UNCHANGED dbtVars
    BY <1>4, ReadBatchesStand DEF IInv, InOrderInv
  <2>2. QED
    BY <1>1, <1>2, <2>1 DEF dbtVars, SnapshotIInv, DbtTypeOK
<1>5. ASSUME NEW d \in Date, BuildDaily(d) PROVE SnapshotIInv'
  <2>1. /\ d \in written /\ UNCHANGED <<silver, written, today, snapshot, lastSnap, snapped>>
        /\ built' \subseteq built \cup {d}
    BY <1>5 DEF BuildDaily, BuildInOrder, Build
  <2>2. QED
    BY <1>1, <1>2, <2>1 DEF SnapshotIInv, DbtTypeOK
<1>6. CASE Snapshot
  <2>1. PICK d \in MostRecent : snapshot' = SnapshotOf(snapshot, silver[d], Now) /\ snapped' = snapped \cup {d}
    BY <1>6 DEF Snapshot
  <2>2. QED
    BY <1>6, <2>1, SnapshotKeepsInvariant DEF Snapshot
<1>7. CASE UNCHANGED <<vars, dbtVars>>
  BY <1>1, <1>2, <1>7 DEF vars, dbtVars, SnapshotIInv, DbtTypeOK
<1>8. QED
  BY <1>3, <1>4, <1>5, <1>6, <1>7 DEF DbtNext

(* In every reachable state the versions of a snapshot are disjoint and    *)
(* each says what some batch read by its opening says.                     *)
THEOREM SnapshotInvariant == DbtSpec => []SnapshotIInv
<1>1. DbtInit => SnapshotIInv
  BY CalendarAssumption DEF DbtInit, Init, SnapshotIInv, DbtTypeOK, Now
<1>2. QED
  BY <1>1, SnapshotIInvStep, PythonInvariant, PTL DEF DbtSpec

(* The snapshot is well typed and reads written batches only.              *)
THEOREM DbtTypeCorrect == DbtSpec => []DbtTypeOK
<1>1. SnapshotIInv => DbtTypeOK
  BY DEF SnapshotIInv
<1>2. QED
  BY <1>1, SnapshotInvariant, PTL

(* An order finds one version of its customer at most, and no attributes   *)
(* of a later day than its own.                                            *)
THEOREM NoLookAheadEver == DbtSpec => []NoLookAhead
<1>1. IInv /\ SnapshotIInv => NoLookAhead
  <2> SUFFICES ASSUME IInv, SnapshotIInv, NEW v \in snapshot, NEW w \in snapshot, NEW i \in Instant,
                      Covers(v, i), Covers(w, i)
               PROVE  /\ v.id = w.id => v = w
                      /\ \E d \in snapped : d < Day(i) /\ v.id \in DOMAIN silver[d] /\ silver[d][v.id] = v.attr
    BY DEF NoLookAhead
  <2>1. v \in Version /\ w \in Version /\ i \in Int
    BY InstantFacts DEF SnapshotIInv, DbtTypeOK
  <2>2. v.from \in Int /\ w.from \in Int /\ (v.to # Null => v.to \in Int) /\ (w.to # Null => w.to \in Int)
    BY <2>1, InstantFacts DEF Version
  <2>3. v.id = w.id => v = w
    BY <2>1, <2>2 DEF SnapshotIInv, EndsBy, Covers
  <2>4. PICK d \in snapped : d < Day(v.from) /\ v.id \in DOMAIN silver[d] /\ silver[d][v.id] = v.attr
    BY DEF SnapshotIInv
  <2>5. Day(v.from) <= Day(i) /\ Day(v.from) \in Int /\ Day(i) \in Int
    BY <2>1, <2>2 DEF Covers, Day
  <2>6. d \in Int
    BY DateAssumption DEF IInv, InOrderInv, TypeOK, SnapshotIInv, DbtTypeOK
  <2>7. QED
    BY <2>3, <2>4, <2>5, <2>6
<1>2. QED
  BY <1>1, PythonInvariant, SnapshotInvariant, PTL

----------------------------------------------------------------------------
(* What the versions of customer c say of an instant after a snapshot of   *)
(* batch d: from the snapshot on, what the batch says of him, if anything; *)
(* otherwise what they said before.                                        *)
LEMMA SnapshotAnswers ==
  ASSUME IInv, SnapshotIInv, NEW d \in MostRecent, lastSnap < Now,
         snapshot' = SnapshotOf(snapshot, silver[d], Now),
         NEW c \in Customer, NEW i \in Instant
  PROVE  AttrsAt(c, i)' =
           IF i >= Now /\ c \in DOMAIN silver[d] THEN {silver[d][c]} ELSE AttrsAt(c, i)
<1> DEFINE inc == silver[d]
           at == Now
           Says(table, a) == \E v \in table : v.id = c /\ v.attr = a /\ Covers(v, i)
<1>1. inc \in Partition /\ at \in Instant /\ at \in Int /\ i \in Int /\ at # Null
  BY InstantFacts DEF MostRecent, IInv, InOrderInv, TypeOK, SnapshotIInv, DbtTypeOK
<1>2. \A v \in snapshot : v \in Version /\ v.from \in Int /\ v.from < at
        /\ (v.to # Null => v.to \in Int /\ v.to < at)
  BY <1>1, InstantFacts DEF SnapshotIInv, DbtTypeOK, Version, Instant
<1>3. \A b : b \in DOMAIN inc => b \in Customer /\ inc[b] \in Attr
  BY <1>1, PartitionValues
<1> HIDE DEF at, inc
<1>4. \A v : v \in snapshot' <=> \/ v \in snapshot /\ ~Stale(snapshot, inc, v)
                                 \/ \E e : Stale(snapshot, inc, e) /\ v = [e EXCEPT !.to = at]
                                 \/ Opened(snapshot, inc, at, v)
  BY SnapshotRow DEF at, inc
<1>5. ASSUME NEW e, Stale(snapshot, inc, e)
      PROVE  /\ [e EXCEPT !.to = at].id = e.id /\ [e EXCEPT !.to = at].attr = e.attr
             /\ Covers([e EXCEPT !.to = at], i) <=> Covers(e, i) /\ i < at
  <2>1. e \in Version /\ e.to = Null
    BY <1>2, <1>5 DEF Stale
  <2>2. QED
    BY <1>1, <2>1, ClosedFields DEF Covers
<1>6. ASSUME NEW b \in DOMAIN inc
      PROVE  /\ OpenVersion(b, inc[b], at).id = b /\ OpenVersion(b, inc[b], at).attr = inc[b]
             /\ Covers(OpenVersion(b, inc[b], at), i) <=> i >= at
  BY <1>1, <1>3, OpenFields DEF Covers
<1>7. CASE i >= at /\ c \in DOMAIN inc
  <2>1. ASSUME NEW v \in snapshot', v.id = c, Covers(v, i) PROVE v.attr = inc[c]
    <3>1. CASE v \in snapshot /\ ~Stale(snapshot, inc, v)
      BY <1>1, <1>2, <1>7, <2>1, <3>1 DEF Stale, Covers
    <3>2. CASE \E e : Stale(snapshot, inc, e) /\ v = [e EXCEPT !.to = at]
      BY <1>1, <1>5, <1>7, <2>1, <3>2
    <3>3. CASE Opened(snapshot, inc, at, v)
      BY <1>6, <2>1, <3>3 DEF Opened
    <3>4. QED
      BY <1>4, <3>1, <3>2, <3>3
  <2>2. \E v \in snapshot' : v.id = c /\ v.attr = inc[c] /\ Covers(v, i)
    <3>1. CASE \E e \in snapshot : e.to = Null /\ e.id = c /\ e.attr = inc[c]
      BY <1>1, <1>2, <1>4, <1>7, <3>1 DEF Stale, Covers
    <3>2. CASE \A e \in snapshot : e.to = Null /\ e.id = c => e.attr # inc[c]
      BY <1>4, <1>6, <1>7, <3>2 DEF Opened
    <3>3. QED
      BY <3>1, <3>2
  <2>3. AttrsAt(c, i)' = {inc[c]}
    BY <2>1, <2>2 DEF AttrsAt
  <2>4. QED
    BY <1>7, <2>3 DEF at, inc
<1>8. CASE ~(i >= at /\ c \in DOMAIN inc)
  <2>1. ASSUME NEW a PROVE Says(snapshot', a) <=> Says(snapshot, a)
    <3>1. ASSUME NEW v \in snapshot', v.id = c, v.attr = a, Covers(v, i) PROVE Says(snapshot, a)
      <4>1. CASE \E e : Stale(snapshot, inc, e) /\ v = [e EXCEPT !.to = at]
        BY <1>5, <3>1, <4>1 DEF Stale
      <4>2. CASE Opened(snapshot, inc, at, v)
        BY <1>6, <1>8, <3>1, <4>2 DEF Opened
      <4>3. QED
        BY <1>4, <3>1, <4>1, <4>2
    <3>2. ASSUME NEW v \in snapshot, v.id = c, v.attr = a, Covers(v, i) PROVE Says(snapshot', a)
      <4>1. CASE Stale(snapshot, inc, v)
        <5>1. i < at
          BY <1>1, <1>8, <3>2, <4>1 DEF Stale
        <5>2. QED
          BY <1>4, <1>5, <3>2, <4>1, <5>1
      <4>2. CASE ~Stale(snapshot, inc, v)
        BY <1>4, <3>2, <4>2
      <4>3. QED
        BY <4>1, <4>2
    <3>3. QED
      BY <3>1, <3>2
  <2>2. AttrsAt(c, i)' = AttrsAt(c, i)
    BY <2>1 DEF AttrsAt
  <2>3. QED
    BY <1>8, <2>2 DEF at, inc
<1>9. QED
  BY <1>7, <1>8

(* The snapshot implements the as-of history, over instants: a snapshot is *)
(* a load of the batch it reads, every other step changes no answer.       *)
THEOREM SnapshotRefinement == DbtSpec => SnapshotImplementsHistory
<1>1. DbtInit => SnapshotHistory!Init
  BY DEF DbtInit, SnapshotHistory!Init, LookupAt, AttrsAt
<1>2. IInv /\ SnapshotIInv /\ [DbtNext]_<<vars, dbtVars>> => [SnapshotHistory!Next]_(SnapshotHistory!hvars)
  <2> SUFFICES ASSUME IInv, SnapshotIInv, [DbtNext]_<<vars, dbtVars>>
               PROVE  [SnapshotHistory!Next]_(SnapshotHistory!hvars)
    OBVIOUS
  <2>1. CASE snapshot' = snapshot /\ lastSnap' = lastSnap
    BY <2>1 DEF SnapshotHistory!hvars, LookupAt, AttrsAt
  <2>2. CASE Snapshot
    <3>1. PICK d \in MostRecent : snapshot' = SnapshotOf(snapshot, silver[d], Now)
      BY <2>2 DEF Snapshot
    <3>2. lastSnap < Now /\ lastSnap' = Now /\ Now \in Instant /\ Now \in Int /\ lastSnap \in Int
      BY <2>2, InstantFacts DEF Snapshot, SnapshotIInv, DbtTypeOK, Instant
    <3>3. silver[d] \in Partition
      BY DEF MostRecent, IInv, InOrderInv, TypeOK
    <3>4. ASSUME NEW c \in Customer, NEW i \in Instant
          PROVE  LookupAt(c, i)' = IF i >= Now /\ c \in DOMAIN silver[d] THEN silver[d][c] ELSE LookupAt(c, i)
      <4>1. AttrsAt(c, i)' = IF i >= Now /\ c \in DOMAIN silver[d] THEN {silver[d][c]} ELSE AttrsAt(c, i)
        BY <3>1, <3>2, SnapshotAnswers
      <4>2. c \in DOMAIN silver[d] => silver[d][c] \in Attr
        BY <3>3, PartitionValues
      <4>3. CASE i >= Now /\ c \in DOMAIN silver[d]
        <5>1. AttrsAt(c, i)' = {silver[d][c]} /\ silver[d][c] \in Attr
          BY <4>1, <4>2, <4>3
        <5>2. LookupAt(c, i)' = silver[d][c]
          BY <5>1 DEF LookupAt
        <5>3. QED
          BY <4>3, <5>2
      <4>4. CASE ~(i >= Now /\ c \in DOMAIN silver[d])
        <5>1. AttrsAt(c, i)' = AttrsAt(c, i)
          BY <4>1, <4>4
        <5>2. LookupAt(c, i)' = LookupAt(c, i)
          BY <5>1 DEF LookupAt
        <5>3. QED
          BY <4>4, <5>2
      <4>5. QED
        BY <4>3, <4>4
    <3>5. SnapshotHistory!Load(Now, silver[d])
      BY <3>2, <3>4 DEF SnapshotHistory!Load, SnapshotHistory!Learn
    <3>6. \E S \in SUBSET Customer : silver[d] \in [S -> Attr]
      BY <3>3 DEF Partition
    <3>7. QED
      BY <3>2, <3>5, <3>6 DEF SnapshotHistory!Next
  <2>3. QED
    BY <2>1, <2>2 DEF DbtNext, Tick, WriteDaily, BuildDaily, dbtVars
<1>3. QED
  BY <1>1, <1>2, PythonInvariant, SnapshotInvariant, PTL
     DEF DbtSpec, SnapshotImplementsHistory, SnapshotHistory!Spec

----------------------------------------------------------------------------
(* What each Gold holds of a customer is what the latest of the batches it *)
(* has read, among those he is in, says of him.                            *)
Said(parts, batches, c, a) ==
  \E d \in batches :
    /\ c \in DOMAIN parts[d] /\ parts[d][c] = a
    /\ \A e \in batches : c \in DOMAIN parts[e] => e <= d
HeldByPython(dim, c, a) == \E r \in dim : r.cur = TRUE /\ r.id = c /\ r.attr = a
HeldByDbt(snap, c, a) == \E v \in snap : v.to = Null /\ v.id = c /\ v.attr = a

LatestIInv ==
  /\ built \subseteq written
  /\ \A e \in built : e <= lastBatch
  /\ lastBatch > 0 /\ HasRows(lastBatch) => lastBatch \in built
  /\ \A e \in snapped : HasRows(e)
  /\ \A c, a : HeldByPython(dimCustomer, c, a) <=> Said(silver, built, c, a)
  /\ \A c, a : HeldByDbt(snapshot, c, a) <=> Said(silver, snapped, c, a)

(* A batch later than those read before has the last word on its own       *)
(* customers, and none on the others.                                      *)
LEMMA LaterBatchSays ==
  ASSUME NEW parts, NEW batches, NEW d, d \in Int, batches \subseteq Int, \A e \in batches : e <= d,
         NEW c, NEW a
  PROVE  Said(parts, batches \cup {d}, c, a) <=>
           IF c \in DOMAIN parts[d] THEN a = parts[d][c] ELSE Said(parts, batches, c, a)
BY DEF Said

(* The same of what a merge holds.                                         *)
LEMMA MergeHolds ==
  ASSUME NEW T \in SUBSET Row, NEW inc \in Partition, NEW d \in Date, NEW n \in Nat, NEW c, NEW a
  PROVE  HeldByPython(Merge(T, inc, d, n), c, a) <=>
           IF c \in DOMAIN inc THEN a = inc[c] ELSE HeldByPython(T, c, a)
<1> DEFINE M == Merge(T, inc, d, n)
<1>1. \A r : r \in M <=> Kept(T, inc, r) \/ JustExpired(T, inc, d, r) \/ JustInserted(T, inc, d, n, r)
  BY MergeRow
<1>2. \A r : JustExpired(T, inc, d, r) => ~r.cur
  BY ExpireFields DEF JustExpired
<1>3. \A b \in DOMAIN inc :
        /\ NewVersion(b, inc[b], d, n).id = b
        /\ NewVersion(b, inc[b], d, n).attr = inc[b]
        /\ NewVersion(b, inc[b], d, n).cur = TRUE
  BY DEF NewVersion
<1>4. ChangedIds(T, inc) \cup NewIds(T, inc) \subseteq DOMAIN inc
  BY DEF ChangedIds, NewIds
<1> HIDE DEF M
<1>5. CASE c \in DOMAIN inc
  <2>1. ASSUME NEW r \in M, r.cur, r.id = c PROVE r.attr = inc[c]
    <3>1. CASE Kept(T, inc, r)
      BY <1>5, <2>1, <3>1 DEF Kept, ChangedIds, Current
    <3>2. CASE JustInserted(T, inc, d, n, r)
      BY <1>3, <1>4, <2>1, <3>2 DEF JustInserted
    <3>3. QED
      BY <1>1, <1>2, <2>1, <3>1, <3>2
  <2>2. \E r \in M : r.cur /\ r.id = c /\ r.attr = inc[c]
    <3>1. CASE c \in ChangedIds(T, inc) \cup NewIds(T, inc)
      BY <1>1, <1>3, <1>4, <3>1 DEF JustInserted
    <3>2. CASE c \notin ChangedIds(T, inc) \cup NewIds(T, inc)
      <4>1. PICK e \in T : e.cur /\ e.id = c
        BY <1>5, <3>2 DEF NewIds, Current
      <4>2. e.attr = inc[c] /\ Kept(T, inc, e)
        BY <1>5, <3>2, <4>1 DEF Kept, ChangedIds, Current
      <4>3. QED
        BY <1>1, <4>1, <4>2
    <3>3. QED
      BY <3>1, <3>2
  <2>3. QED
    BY <1>5, <2>1, <2>2 DEF M, HeldByPython
<1>6. CASE c \notin DOMAIN inc
  <2>1. ASSUME NEW r, r.cur, r.id = c PROVE r \in M <=> r \in T
    <3>1. ~JustInserted(T, inc, d, n, r)
      BY <1>3, <1>4, <1>6, <2>1 DEF JustInserted
    <3>2. QED
      BY <1>1, <1>2, <1>4, <1>6, <2>1, <3>1 DEF Kept
  <2>2. QED
    BY <1>6, <2>1 DEF M, HeldByPython
<1>7. QED
  BY <1>5, <1>6

(* And of what a snapshot leaves open.                                     *)
LEMMA SnapshotHolds ==
  ASSUME NEW T \in SUBSET Version, NEW inc \in Partition, NEW at \in Instant, NEW c, NEW a
  PROVE  HeldByDbt(SnapshotOf(T, inc, at), c, a) <=>
           IF c \in DOMAIN inc THEN a = inc[c] ELSE HeldByDbt(T, c, a)
<1> DEFINE S == SnapshotOf(T, inc, at)
<1>1. \A v : v \in S <=> \/ v \in T /\ ~Stale(T, inc, v)
                         \/ \E e : Stale(T, inc, e) /\ v = [e EXCEPT !.to = at]
                         \/ Opened(T, inc, at, v)
  BY SnapshotRow
<1>2. \A v : (\E e : Stale(T, inc, e) /\ v = [e EXCEPT !.to = at]) => v.to # Null
  BY ClosedFields, InstantFacts DEF Stale
<1>3. \A b \in DOMAIN inc :
        LET v == OpenVersion(b, inc[b], at) IN v.id = b /\ v.attr = inc[b] /\ v.to = Null
  BY PartitionValues, OpenFields
<1> HIDE DEF S
<1>4. CASE c \in DOMAIN inc
  <2>1. ASSUME NEW v \in S, v.to = Null, v.id = c PROVE v.attr = inc[c]
    BY <1>1, <1>2, <1>3, <1>4, <2>1 DEF Stale, Opened
  <2>2. \E v \in S : v.to = Null /\ v.id = c /\ v.attr = inc[c]
    <3>1. CASE \E e \in T : e.to = Null /\ e.id = c /\ e.attr = inc[c]
      BY <1>1, <3>1 DEF Stale
    <3>2. CASE \A e \in T : e.to = Null /\ e.id = c => e.attr # inc[c]
      BY <1>1, <1>3, <1>4, <3>2 DEF Opened
    <3>3. QED
      BY <3>1, <3>2
  <2>3. QED
    BY <1>4, <2>1, <2>2 DEF S, HeldByDbt
<1>5. CASE c \notin DOMAIN inc
  <2>1. ASSUME NEW v, v.to = Null, v.id = c PROVE v \in S <=> v \in T
    BY <1>1, <1>2, <1>3, <1>5, <2>1 DEF Stale, Opened
  <2>2. QED
    BY <1>5, <2>1 DEF S, HeldByDbt
<1>6. QED
  BY <1>4, <1>5

LEMMA LatestIInvStep ==
  IInv /\ SnapshotIInv /\ LatestIInv /\ [DbtNext]_<<vars, dbtVars>> => LatestIInv'
<1> SUFFICES ASSUME IInv, SnapshotIInv, LatestIInv, [DbtNext]_<<vars, dbtVars>> PROVE LatestIInv'
  OBVIOUS
<1>1. /\ written \subseteq Int /\ lastBatch \in Int /\ snapped \subseteq written /\ built \subseteq written
      /\ lastBatch > 0 => lastBatch \in written
  BY DateAssumption DEF IInv, InOrderInv, TypeOK, SnapshotIInv, DbtTypeOK, LatestIInv,
                        LastBatchWritten
<1>2. ASSUME UNCHANGED <<dimCustomer, lastBatch, snapshot, snapped, built>>, written \subseteq written',
             \A e \in written : silver'[e] = silver[e]
      PROVE  LatestIInv'
  <2>1. ASSUME NEW c, NEW a
        PROVE  /\ HeldByPython(dimCustomer', c, a) <=> Said(silver', built', c, a)
               /\ HeldByDbt(snapshot', c, a) <=> Said(silver', snapped', c, a)
    <3>1. Said(silver', built, c, a) <=> Said(silver, built, c, a)
      BY <1>1, <1>2 DEF Said
    <3>2. Said(silver', snapped, c, a) <=> Said(silver, snapped, c, a)
      BY <1>1, <1>2 DEF Said
    <3>3. HeldByPython(dimCustomer, c, a) <=> Said(silver, built, c, a)
      BY DEF LatestIInv
    <3>4. HeldByDbt(snapshot, c, a) <=> Said(silver, snapped, c, a)
      BY DEF LatestIInv
    <3>5. /\ dimCustomer' = dimCustomer /\ snapshot' = snapshot
          /\ built' = built /\ snapped' = snapped
      BY <1>2
    <3>6. QED
      BY <3>1, <3>2, <3>3, <3>4, <3>5
  <2>2. /\ lastBatch > 0 => silver'[lastBatch] = silver[lastBatch]
        /\ \A e \in snapped : silver'[e] = silver[e]
    BY <1>1, <1>2
  <2>3. /\ built' \subseteq written'
        /\ \A e \in built' : e <= lastBatch'
        /\ lastBatch' > 0 /\ DOMAIN silver'[lastBatch'] # {} => lastBatch' \in built'
        /\ \A e \in snapped' : DOMAIN silver'[e] # {}
    BY <1>1, <1>2, <2>2 DEF LatestIInv, HasRows
  <2>4. QED
    BY <2>1, <2>3 DEF LatestIInv, HasRows
<1>3. CASE Tick
  BY <1>2, <1>3 DEF Tick, vars
<1>4. ASSUME NEW d \in Date, NEW incoming \in Partition, WriteDaily(d, incoming) PROVE LatestIInv'
  BY <1>2, <1>4, ReadBatchesStand DEF IInv, InOrderInv, dbtVars
<1>5. ASSUME NEW d \in Date, BuildDaily(d) PROVE LatestIInv'
  <2>1. /\ Build(d) /\ d \in written /\ d >= lastBatch /\ lastBatch' = d
        /\ UNCHANGED <<silver, written, snapshot, snapped>>
        /\ built' = IF HasRows(d) THEN built \cup {d} ELSE built
    BY <1>5 DEF BuildDaily, BuildInOrder, Build, HasRows
  <2>2. d \in Int /\ d > 0 /\ builds \in Nat /\ dimCustomer \in SUBSET Row /\ silver[d] \in Partition
    BY DateAssumption DEF IInv, InOrderInv, TypeOK
  <2>3. dimCustomer' = Merge(dimCustomer, silver[d], d, builds)
    BY <2>1, BuildIsMergeStep DEF IInv, InOrderInv
  <2>4. \A c, a : HeldByPython(dimCustomer', c, a) <=>
          IF c \in DOMAIN silver[d] THEN a = silver[d][c] ELSE HeldByPython(dimCustomer, c, a)
    BY <2>2, <2>3, MergeHolds
  <2>5. \A e \in built : e <= d
    BY <1>1, <2>1, <2>2 DEF LatestIInv
  <2>6. \A c, a : Said(silver, built', c, a) <=>
          IF c \in DOMAIN silver[d] THEN a = silver[d][c] ELSE Said(silver, built, c, a)
    <3>1. CASE HasRows(d)
      BY <1>1, <2>1, <2>2, <2>5, <3>1, LaterBatchSays
    <3>2. CASE ~HasRows(d)
      BY <2>1, <3>2 DEF HasRows
    <3>3. QED
      BY <3>1, <3>2
  <2>7. \A c, a : HeldByPython(dimCustomer', c, a) <=> Said(silver, built', c, a)
    BY <2>4, <2>6 DEF LatestIInv
  <2>8. QED
    BY <1>1, <2>1, <2>2, <2>5, <2>7 DEF LatestIInv, HasRows
<1>6. CASE Snapshot
  <2>1. PICK d \in MostRecent : snapshot' = SnapshotOf(snapshot, silver[d], Now) /\ snapped' = snapped \cup {d}
    BY <1>6 DEF Snapshot
  <2>2. UNCHANGED <<silver, written, dimCustomer, lastBatch, built>>
    BY <1>6 DEF Snapshot, vars
  <2>3. /\ d \in Int /\ d \in written /\ silver[d] \in Partition /\ Now \in Instant
        /\ snapshot \in SUBSET Version /\ HasRows(d)
    BY <1>1, InstantFacts DEF MostRecent, IInv, InOrderInv, TypeOK, SnapshotIInv, DbtTypeOK
  <2>4. \A e \in snapped : e <= d
    BY <1>1 DEF LatestIInv, MostRecent
  <2>5. \A c, a : HeldByDbt(snapshot', c, a) <=>
          IF c \in DOMAIN silver[d] THEN a = silver[d][c] ELSE HeldByDbt(snapshot, c, a)
    BY <2>1, <2>3, SnapshotHolds
  <2>6. \A c, a : Said(silver, snapped', c, a) <=>
          IF c \in DOMAIN silver[d] THEN a = silver[d][c] ELSE Said(silver, snapped, c, a)
    BY <1>1, <2>1, <2>3, <2>4, LaterBatchSays
  <2>7. \A c, a : HeldByDbt(snapshot', c, a) <=> Said(silver, snapped', c, a)
    BY <2>5, <2>6 DEF LatestIInv
  <2>8. QED
    BY <2>1, <2>2, <2>3, <2>7 DEF LatestIInv, HasRows
<1>7. CASE UNCHANGED <<vars, dbtVars>>
  BY <1>2, <1>7 DEF vars, dbtVars
<1>8. QED
  BY <1>3, <1>4, <1>5, <1>6, <1>7 DEF DbtNext

(* When the two have read the same batches they hold the same versions     *)
(* open, of the same customers.                                            *)
THEOREM GoldsAlwaysAgree == DbtSpec => []GoldsAgree
<1>1. DbtInit => LatestIInv
  BY DEF DbtInit, Init, LatestIInv, HeldByPython, HeldByDbt, Said
<1>2. DbtSpec => []LatestIInv
  BY <1>1, LatestIInvStep, PythonInvariant, SnapshotInvariant, PTL DEF DbtSpec
<1>3. IInv /\ LatestIInv => GoldsAgree
  <2> SUFFICES ASSUME IInv, LatestIInv, built = snapped
               PROVE  {<<r.id, r.attr>> : r \in Current(dimCustomer)} = {<<v.id, v.attr>> : v \in Open(snapshot)}
    BY DEF GoldsAgree
  <2>1. \A c, a : HeldByPython(dimCustomer, c, a) <=> HeldByDbt(snapshot, c, a)
    BY DEF LatestIInv
  <2>2. \A r \in dimCustomer : r.cur \in BOOLEAN
    BY DEF IInv, InOrderInv, TypeOK, Row
  <2>3. ASSUME NEW r \in Current(dimCustomer)
        PROVE  \E v \in Open(snapshot) : v.id = r.id /\ v.attr = r.attr
    <3>1. HeldByPython(dimCustomer, r.id, r.attr)
      BY <2>2, <2>3 DEF HeldByPython, Current
    <3>2. QED
      BY <2>1, <3>1 DEF HeldByDbt, Open
  <2>4. ASSUME NEW v \in Open(snapshot)
        PROVE  \E r \in Current(dimCustomer) : r.id = v.id /\ r.attr = v.attr
    <3>1. HeldByDbt(snapshot, v.id, v.attr)
      BY <2>4 DEF HeldByDbt, Open
    <3>2. QED
      BY <2>1, <3>1 DEF HeldByPython, Current
  <2>5. QED
    BY <2>3, <2>4
<1>4. QED
  BY <1>2, <1>3, PythonInvariant, PTL
=============================================================================
