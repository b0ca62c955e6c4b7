------------------------- MODULE Ingestion_proofs --------------------------
(***************************************************************************)
(* Proofs about the customers source, for any records, page size, numbers  *)
(* of attempts and reruns, and any additions and removals at the source;   *)
(* and about the suppliers source, for any drops, weeks and failures. The  *)
(* two have the objects of a source and what a batch becomes in Silver in  *)
(* common; for the rest Spec is the one's, Catalog!Spec the other's.       *)
(***************************************************************************)
EXTENDS CustomerFeed, SupplierDrops, FiniteSetTheorems, TLAPS

CONSTANTS MaxWeeks, MaxLines
VARIABLES week, read, records

Catalog == INSTANCE SupplierCatalog

(* The instance's own copies of the shared operators are these.            *)
LEMMA SharedOperators ==
  /\ Catalog!objects = objects
  /\ \A rows, t : Catalog!BronzeRows(rows, t) = BronzeRows(rows, t)
  /\ \A rows : Catalog!SilverChoices(rows) = SilverChoices(rows)
BY DEF Catalog!objects, objects, Catalog!BronzeRows, BronzeRows, Catalog!SilverChoices,
       SilverChoices, Catalog!KeysOf, KeysOf, Catalog!Latest, Latest

(* Sequences of records, by position.                                      *)
LEMMA ElementsFinite ==
  ASSUME NEW s \in Seq(Record)
  PROVE  IsFiniteSet(Elements(s))
<1>1. s \in Surjection(1..Len(s), Elements(s))
  BY DEF Surjection, Elements
<1>2. QED
  BY <1>1, FS_Surjection, FS_Interval

LEMMA ConcatFields ==
  ASSUME NEW s \in Seq(Record), NEW t \in Seq(Record)
  PROVE  /\ s \o t \in Seq(Record) /\ Len(s \o t) = Len(s) + Len(t)
         /\ \A i \in 1..Len(s) : (s \o t)[i] = s[i]
         /\ \A i \in 1..Len(t) : (s \o t)[Len(s) + i] = t[i]
OBVIOUS

LEMMA ConcatElements ==
  ASSUME NEW s \in Seq(Record), NEW t \in Seq(Record)
  PROVE  /\ s \o t \in Seq(Record)
         /\ Elements(s \o t) = Elements(s) \cup Elements(t)
         /\ Distinct(s) /\ Distinct(t) /\ Elements(s) \cap Elements(t) = {} => Distinct(s \o t)
<1>1. /\ s \o t \in Seq(Record) /\ Len(s \o t) = Len(s) + Len(t)
      /\ \A i \in 1..Len(s) : (s \o t)[i] = s[i]
      /\ \A i \in 1..Len(t) : (s \o t)[Len(s) + i] = t[i]
  BY ConcatFields
<1>2. DOMAIN s = 1..Len(s) /\ DOMAIN t = 1..Len(t) /\ DOMAIN (s \o t) = 1..(Len(s) + Len(t))
  BY <1>1
<1>3. \A i \in 1..(Len(s) + Len(t)) :
        \/ i \in 1..Len(s) /\ (s \o t)[i] = s[i]
        \/ i - Len(s) \in 1..Len(t) /\ (s \o t)[i] = t[i - Len(s)]
  <2> TAKE i \in 1..(Len(s) + Len(t))
  <2>1. CASE i <= Len(s)
    BY <1>1, <2>1
  <2>2. CASE i > Len(s)
    <3>1. i - Len(s) \in 1..Len(t) /\ i = Len(s) + (i - Len(s))
      BY <2>2
    <3>2. QED
      BY <1>1, <3>1
  <2>3. QED
    BY <2>1, <2>2
<1>4. Elements(s \o t) = Elements(s) \cup Elements(t)
  <2>1. ASSUME NEW x \in Elements(s \o t) PROVE x \in Elements(s) \cup Elements(t)
    BY <1>2, <1>3, <2>1 DEF Elements
  <2>2. ASSUME NEW x \in Elements(s) PROVE x \in Elements(s \o t)
    BY <1>1, <1>2, <2>2 DEF Elements
  <2>3. ASSUME NEW x \in Elements(t) PROVE x \in Elements(s \o t)
    <3>1. PICK i \in 1..Len(t) : x = t[i]
      BY <1>2, <2>3 DEF Elements
    <3>2. Len(s) + i \in 1..(Len(s) + Len(t))
      OBVIOUS
    <3>3. QED
      BY <1>1, <1>2, <3>1, <3>2 DEF Elements
  <2>4. QED
    BY <2>1, <2>2, <2>3
<1>5. ASSUME Distinct(s), Distinct(t), Elements(s) \cap Elements(t) = {},
             NEW i \in DOMAIN (s \o t), NEW j \in DOMAIN (s \o t), i # j
      PROVE  (s \o t)[i] # (s \o t)[j]
  <2>1. \A m \in 1..Len(s), n \in 1..Len(t) : s[m] # t[n]
    BY <1>2, <1>5 DEF Elements
  <2>2. QED
    BY <1>2, <1>3, <1>5, <2>1 DEF Distinct
<1>6. QED
  BY <1>1, <1>4, <1>5 DEF Distinct

LEMMA RemoveAtFields ==
  ASSUME NEW s \in Seq(Record), NEW i \in DOMAIN s
  PROVE  /\ RemoveAt(s, i) \in Seq(Record)
         /\ Len(RemoveAt(s, i)) = Len(s) - 1
         /\ \A j \in 1..(Len(s) - 1) :
              RemoveAt(s, i)[j] = IF j < i THEN s[j] ELSE s[j + 1]
<1> DEFINE a == SubSeq(s, 1, i - 1)
           b == SubSeq(s, i + 1, Len(s))
<1>1. i \in 1..Len(s) /\ Len(s) \in Nat
  OBVIOUS
<1>2. a \in Seq(Record) /\ Len(a) = i - 1 /\ \A j \in 1..(i - 1) : a[j] = s[j]
  BY <1>1
<1>3. b \in Seq(Record) /\ Len(b) = Len(s) - i /\ \A j \in 1..(Len(s) - i) : b[j] = s[i + j]
  BY <1>1
<1> HIDE DEF a, b
<1>4. /\ a \o b \in Seq(Record) /\ Len(a \o b) = Len(a) + Len(b)
      /\ \A j \in 1..Len(a) : (a \o b)[j] = a[j]
      /\ \A j \in 1..Len(b) : (a \o b)[Len(a) + j] = b[j]
  BY <1>2, <1>3, ConcatFields
<1>5. \A j \in 1..(Len(s) - 1) : (a \o b)[j] = IF j < i THEN s[j] ELSE s[j + 1]
  <2> TAKE j \in 1..(Len(s) - 1)
  <2>1. CASE j < i
    BY <1>1, <1>2, <1>4, <2>1
  <2>2. CASE ~(j < i)
    <3>1. /\ j - (i - 1) \in 1..(Len(s) - i) /\ i + (j - (i - 1)) = j + 1
          /\ Len(a) + (j - (i - 1)) = j
      <4>1. \A l \in Nat : \A x \in 1..l, y \in 1..(l - 1) : ~(y < x) =>
              /\ y - (x - 1) \in 1..(l - x) /\ x + (y - (x - 1)) = y + 1
              /\ (x - 1) + (y - (x - 1)) = y
        OBVIOUS
      <4>2. Len(s) \in Nat /\ i \in 1..Len(s)
        BY <1>1
      <4>3. Len(a) = i - 1
        BY <1>2
      <4>4. j \in 1..(Len(s) - 1)
        OBVIOUS
      <4>5. /\ j - (i - 1) \in 1..(Len(s) - i) /\ i + (j - (i - 1)) = j + 1
            /\ (i - 1) + (j - (i - 1)) = j
        BY <2>2, <4>1, <4>2, <4>4
      <4>6. QED
        BY <4>3, <4>5
    <3>2. (a \o b)[j] = b[j - (i - 1)]
      BY <1>3, <1>4, <3>1
    <3>3. QED
      BY <1>3, <2>2, <3>1, <3>2
  <2>3. QED
    BY <2>1, <2>2
<1>6. RemoveAt(s, i) = a \o b
  BY DEF RemoveAt, a, b
<1>7. Len(a \o b) = Len(s) - 1
  BY <1>1, <1>2, <1>3, <1>4
<1>8. QED
  BY <1>4, <1>5, <1>6, <1>7
----------------------------------------------------------------------------
(* The records the API has at the first n places.                          *)
Seen(n) == {source[i] : i \in {j \in DOMAIN source : j <= n}}
Offset == (page - 1) * PageSize

Shape ==
  /\ source \in Seq(Record) /\ Distinct(source)
  /\ fetched \in Seq(Record)
  /\ page \in Nat \ {0}
  /\ asked \subseteq Elements(source)
  /\ gone \cap Elements(source) = {}

(* What an attempt under way has fetched: as many records as the places    *)
(* before the next page, since only a full page has a next one; and those  *)
(* of them that are still there are at these places.                       *)
Fetching ==
  pc = "fetch" =>
    /\ Distinct(fetched) /\ Len(fetched) = Offset
    /\ Elements(fetched) \subseteq Elements(source) \cup gone
    /\ Elements(fetched) \cap Elements(source) \subseteq Seen(Offset)

Landed ==
  pc \in {"to_bronze", "silver", "done"} =>
    /\ landing \in Seq(Record) /\ Distinct(landing)
    /\ Cardinality(asked \ Elements(landing)) <= Cardinality(gone \cap Elements(landing))

LEMMA OffsetType ==
  ASSUME page \in Nat \ {0}
  PROVE  Offset \in Nat /\ page * PageSize \in Nat /\ page * PageSize = Offset + PageSize
BY FeedAssumption DEF Offset

LEMMA SeenFinite ==
  ASSUME source \in Seq(Record), NEW n
  PROVE  IsFiniteSet(Seen(n)) /\ Seen(n) \subseteq Elements(source)
<1>1. Seen(n) \subseteq Elements(source)
  BY DEF Seen, Elements
<1>2. QED
  BY <1>1, ElementsFinite, FS_Subset

(* At the first n places there are no more than n records.                 *)
LEMMA SeenCardinality ==
  ASSUME source \in Seq(Record), NEW n \in Nat
  PROVE  Cardinality(Seen(n)) <= n /\ Cardinality(Seen(n)) \in Nat
<1> DEFINE places == {j \in DOMAIN source : j <= n}
           f == [j \in places |-> source[j]]
<1>1. places \in SUBSET (1..n) /\ IsFiniteSet(1..n) /\ Cardinality(1..n) = n
  <2>1. places \in SUBSET (1..n)
    OBVIOUS
  <2>2. IsFiniteSet(1..n) /\ Cardinality(1..n) = IF 1 > n THEN 0 ELSE n - 1 + 1
    BY FS_Interval
  <2>3. QED
    BY <2>1, <2>2
<1>2. IsFiniteSet(places) /\ Cardinality(places) <= n /\ Cardinality(places) \in Nat
  BY <1>1, FS_Subset, FS_CardinalityType
<1>3. f \in Surjection(places, Seen(n))
  BY DEF Surjection, Seen
<1>4. IsFiniteSet(Seen(n)) /\ Cardinality(Seen(n)) <= Cardinality(places)
  BY <1>2, <1>3, FS_Surjection
<1>5. Cardinality(Seen(n)) \in Nat
  BY <1>4, FS_CardinalityType
<1>6. QED
  BY <1>2, <1>4, <1>5

(* A sequence without repeats has as many elements as places.              *)
LEMMA DistinctCardinality ==
  ASSUME NEW s \in Seq(Record), Distinct(s)
  PROVE  IsFiniteSet(Elements(s)) /\ Cardinality(Elements(s)) = Len(s)
<1>1. s \in Surjection(1..Len(s), Elements(s))
  BY DEF Surjection, Elements
<1>2. s \in Injection(1..Len(s), Elements(s))
  BY <1>1 DEF Injection, IsInjective, Surjection, Distinct
<1>3. IsFiniteSet(1..Len(s)) /\ Cardinality(1..Len(s)) = IF 1 > Len(s) THEN 0 ELSE Len(s) - 1 + 1
  BY FS_Interval
<1>4. Cardinality(1..Len(s)) = Len(s)
  BY <1>3
<1>5. QED
  BY <1>1, <1>2, <1>3, <1>4, FS_Surjection

(* The records missed are places taken by records that went: the fetched   *)
(* ones still there are at the places before the offset, and those that    *)
(* are not are the difference.                                             *)
LEMMA MissedAreGone ==
  ASSUME Shape, Fetching, pc = "fetch"
  PROVE  /\ IsFiniteSet(Seen(Offset) \ Elements(fetched))
         /\ Cardinality(Seen(Offset) \ Elements(fetched))
              <= Cardinality(gone \cap Elements(fetched))
<1> DEFINE F == Elements(fetched)
           S == Seen(Offset)
           Still == F \cap Elements(source)
           Lost == gone \cap F
<1>1. Offset \in Nat /\ source \in Seq(Record)
  BY OffsetType DEF Shape
<1>2. /\ IsFiniteSet(S) /\ S \subseteq Elements(source)
      /\ Cardinality(S) <= Offset /\ Cardinality(S) \in Nat
  BY <1>1, SeenFinite, SeenCardinality
<1>3. IsFiniteSet(F) /\ Cardinality(F) = Offset
  BY DistinctCardinality DEF Shape, Fetching
<1>4. F = Still \cup Lost /\ Still \cap Lost = {} /\ S \cap F = Still
  BY <1>2 DEF Shape, Fetching
<1>5. IsFiniteSet(Still) /\ IsFiniteSet(Lost)
  BY <1>3, FS_Subset
<1> HIDE DEF F, S, Still, Lost
<1>6. Cardinality(F) = Cardinality(Still) + Cardinality(Lost)
  <2>1. Cardinality(Still \cup Lost)
          = Cardinality(Still) + Cardinality(Lost) - Cardinality(Still \cap Lost)
    BY <1>5, FS_Union
  <2>2. Cardinality(Still) \in Nat /\ Cardinality(Lost) \in Nat /\ Cardinality({}) = 0
    BY <1>5, FS_CardinalityType, FS_EmptySet
  <2>3. /\ Cardinality(Still \cup Lost) = Cardinality(F)
        /\ Cardinality(Still \cap Lost) = Cardinality({})
    BY <1>4, Zenon
  <2>4. QED
    BY <2>1, <2>2, <2>3
<1>7. IsFiniteSet(S \ F) /\ Cardinality(S \ F) = Cardinality(S) - Cardinality(Still)
  <2>1. IsFiniteSet(S \ F) /\ Cardinality(S \ F) = Cardinality(S) - Cardinality(S \cap F)
    BY <1>2, FS_Difference
  <2>2. Cardinality(S \cap F) = Cardinality(Still)
    BY <1>4, Zenon
  <2>3. QED
    BY <2>1, <2>2
<1>8. Cardinality(Still) \in Nat /\ Cardinality(Lost) \in Nat
  BY <1>5, FS_CardinalityType
<1>9. Cardinality(S \ F) <= Cardinality(Lost)
  BY <1>1, <1>2, <1>3, <1>6, <1>7, <1>8
<1>10. QED
  BY <1>7, <1>9 DEF F, S, Lost

(* The records of a page are those between two offsets.                    *)
LEMMA PageFields ==
  ASSUME Shape
  PROVE  /\ PageData(page) \in Seq(Record) /\ Distinct(PageData(page))
         /\ HasNext(page) => Len(PageData(page)) = PageSize
         /\ Elements(PageData(page)) \cap Seen(Offset) = {}
         /\ Seen(page * PageSize) = Seen(Offset) \cup Elements(PageData(page))
<1> DEFINE from == Offset
           to == IF page * PageSize < Len(source) THEN page * PageSize ELSE Len(source)
           data == SubSeq(source, from + 1, to)
<1>1. /\ Offset \in Nat /\ page * PageSize \in Nat /\ page * PageSize >= Offset
      /\ Len(source) \in Nat /\ DOMAIN source = 1..Len(source)
  BY OffsetType, FeedAssumption DEF Shape
<1>2. from \in Nat /\ to \in Nat /\ to <= Len(source)
  BY <1>1
<1>3. PageData(page) = data
  BY DEF PageData, Offset
<1>4. /\ \A i \in DOMAIN source : i <= page * PageSize <=> i <= from \/ (from < i /\ i <= to)
      /\ \A i \in (from + 1)..to : i \in DOMAIN source
  BY <1>1
<1> HIDE DEF from, to
<1>5. /\ data \in Seq(Record)
      /\ Len(data) = IF from + 1 <= to THEN to - from ELSE 0
      /\ \A i \in 1..(to - from) : data[i] = source[from + i]
  <2>1. source \in Seq(Record)
    BY DEF Shape
  <2>2. \A i \in (from + 1)..to : i \in 1..Len(source)
    BY <1>1, <1>2
  <2>3. data \in Seq(Record)
    BY <1>2, <2>1, <2>2
  <2>4. Len(data) = IF from + 1 <= to THEN to - from ELSE 0
    BY <1>2, <2>1
  <2>5. \A i \in 1..(to - from) : data[i] = source[from + i]
    BY <1>2, <2>1
  <2>6. QED
    BY <2>3, <2>4, <2>5
<1>6. DOMAIN data = 1..(to - from)
  BY <1>2, <1>5
<1> HIDE DEF data
<1>7. \A i \in 1..(to - from) : from + i \in DOMAIN source /\ from + i > from /\ from + i <= to
  BY <1>1, <1>2
<1>8. Elements(data) = {source[i] : i \in {j \in DOMAIN source : from < j /\ j <= to}}
  <2>1. ASSUME NEW x \in Elements(data)
        PROVE  x \in {source[i] : i \in {j \in DOMAIN source : from < j /\ j <= to}}
    BY <1>5, <1>6, <1>7, <2>1 DEF Elements
  <2>2. ASSUME NEW j \in DOMAIN source, from < j, j <= to PROVE source[j] \in Elements(data)
    <3>1. j - from \in 1..(to - from) /\ from + (j - from) = j
      BY <1>1, <1>2, <2>2
    <3>2. QED
      BY <1>5, <1>6, <3>1 DEF Elements
  <2>3. QED
    BY <2>1, <2>2
<1>9. Distinct(data)
  <2> SUFFICES ASSUME NEW i \in 1..(to - from), NEW j \in 1..(to - from), i # j
               PROVE  data[i] # data[j]
    BY <1>6 DEF Distinct
  <2>1. from + i # from + j /\ from + i \in DOMAIN source /\ from + j \in DOMAIN source
    BY <1>2, <1>7
  <2>2. source[from + i] # source[from + j]
    BY <2>1 DEF Shape, Distinct
  <2>3. QED
    BY <1>5, <2>2
<1>10. Elements(data) \cap Seen(Offset) = {}
  BY <1>1, <1>2, <1>8 DEF Seen, Shape, Distinct, from
<1>11. Seen(page * PageSize) = Seen(Offset) \cup Elements(data)
  BY <1>4, <1>8 DEF Seen, from
<1>12. HasNext(page) => Len(data) = PageSize
  <2> SUFFICES ASSUME page * PageSize < Len(source) PROVE Len(data) = PageSize
    BY DEF HasNext
  <2>1. to = page * PageSize /\ from = Offset
    BY DEF to, from
  <2>2. page * PageSize = Offset + PageSize /\ PageSize \in Nat \ {0}
    BY OffsetType, FeedAssumption DEF Shape
  <2>3. QED
    BY <1>1, <1>5, <2>1, <2>2
<1>13. QED
  BY <1>3, <1>5, <1>9, <1>10, <1>11, <1>12

LEMMA FetchKeeps ==
  ASSUME Shape, Fetching, FetchPage
  PROVE  /\ fetched' \in Seq(Record) /\ Distinct(fetched')
         /\ HasNext(page) => Len(fetched') = page * PageSize
         /\ Elements(fetched') \subseteq Elements(source) \cup gone
         /\ Elements(fetched') \cap Elements(source) \subseteq Seen(page * PageSize)
         /\ IsFiniteSet(Seen(page * PageSize) \ Elements(fetched'))
         /\ Cardinality(Seen(page * PageSize) \ Elements(fetched'))
              <= Cardinality(gone \cap Elements(fetched'))
<1> DEFINE data == PageData(page)
           F == Elements(fetched)
<1>1. /\ data \in Seq(Record) /\ Distinct(data) /\ Elements(data) \cap Seen(Offset) = {}
      /\ Seen(page * PageSize) = Seen(Offset) \cup Elements(data)
      /\ HasNext(page) => Len(data) = PageSize
  BY PageFields
<1>2. /\ Distinct(fetched) /\ F \subseteq Elements(source) \cup gone
      /\ F \cap Elements(source) \subseteq Seen(Offset) /\ Len(fetched) = Offset
      /\ IsFiniteSet(Seen(Offset) \ F)
      /\ Cardinality(Seen(Offset) \ F) <= Cardinality(gone \cap F)
  BY MissedAreGone DEF FetchPage, Fetching
<1>3. fetched' = fetched \o data /\ fetched \in Seq(Record)
  BY DEF FetchPage, Shape
<1>4. Elements(data) \subseteq Elements(source)
  BY <1>1, SeenFinite DEF Shape
<1>5. F \cap Elements(data) = {} /\ gone \cap Elements(data) = {}
  BY <1>1, <1>2, <1>4 DEF Shape
<1>6. HasNext(page) => Len(fetched') = page * PageSize
  BY <1>1, <1>2, <1>3, ConcatFields, OffsetType DEF Shape
<1> HIDE DEF data, F
<1>7. fetched' \in Seq(Record) /\ Elements(fetched') = F \cup Elements(data) /\ Distinct(fetched')
  BY <1>1, <1>2, <1>3, <1>5, ConcatElements DEF F
<1>8. Seen(page * PageSize) \ Elements(fetched') = Seen(Offset) \ F
  BY <1>1, <1>7
<1>9. gone \cap Elements(fetched') = gone \cap F
  BY <1>5, <1>7
<1>10. QED
  BY <1>1, <1>2, <1>4, <1>6, <1>7, <1>8, <1>9

(* When a record goes the others keep their places or move up by one.      *)
LEMMA ShrinkFields ==
  ASSUME Shape, NEW i \in DOMAIN source, source' = RemoveAt(source, i)
  PROVE  /\ source' \in Seq(Record) /\ Distinct(source')
         /\ Elements(source') = Elements(source) \ {source[i]}
         /\ \A n \in Nat : Seen(n) \ {source[i]} \subseteq Seen(n)'
<1> DEFINE l == Len(source)
<1>1. l \in Nat /\ i \in 1..l /\ DOMAIN source = 1..l
  BY DEF Shape
<1>2. /\ source' \in Seq(Record) /\ Len(source') = l - 1 /\ DOMAIN source' = 1..(l - 1)
      /\ \A j \in 1..(l - 1) : source'[j] = IF j < i THEN source[j] ELSE source[j + 1]
  <2>1. /\ source' \in Seq(Record) /\ Len(source') = l - 1
        /\ \A j \in 1..(l - 1) : source'[j] = IF j < i THEN source[j] ELSE source[j + 1]
    BY RemoveAtFields DEF Shape
  <2>2. DOMAIN source' = 1..(l - 1)
    BY <2>1
  <2>3. QED
    BY <2>1, <2>2
<1> HIDE DEF l
<1>3. \A j \in 1..(l - 1) : j \in 1..l /\ j + 1 \in 1..l
  BY <1>1
<1>4. \A j, k \in 1..l : j # k => source[j] # source[k]
  BY <1>1 DEF Shape, Distinct
(* Each record but the one removed keeps its place or moves up by one.     *)
<1>5. ASSUME NEW j \in 1..l, j # i
      PROVE  \E k \in 1..(l - 1) : source'[k] = source[j] /\ k = IF j < i THEN j ELSE j - 1
  <2>1. CASE j < i
    <3>1. j \in 1..(l - 1)
      BY <1>1, <2>1
    <3>2. QED
      BY <1>2, <2>1, <3>1
  <2>2. CASE ~(j < i)
    <3>1. j - 1 \in 1..(l - 1) /\ ~(j - 1 < i) /\ (j - 1) + 1 = j
      BY <1>1, <1>5, <2>2
    <3>2. QED
      BY <1>2, <2>2, <3>1
  <2>3. QED
    BY <2>1, <2>2
<1>6. ASSUME NEW k \in 1..(l - 1)
      PROVE  \E j \in 1..l : j # i /\ source'[k] = source[j] /\ j = IF k < i THEN k ELSE k + 1
  <2>1. CASE k < i
    BY <1>1, <1>2, <1>3, <2>1
  <2>2. CASE ~(k < i)
    BY <1>1, <1>2, <1>3, <2>2
  <2>3. QED
    BY <2>1, <2>2
<1>7. Distinct(source')
  <2> SUFFICES ASSUME NEW j \in 1..(l - 1), NEW k \in 1..(l - 1), j # k
               PROVE  source'[j] # source'[k]
    BY <1>2 DEF Distinct
  <2>1. PICK x \in 1..l : source'[j] = source[x] /\ x = IF j < i THEN j ELSE j + 1
    BY <1>6
  <2>2. PICK y \in 1..l : source'[k] = source[y] /\ y = IF k < i THEN k ELSE k + 1
    BY <1>6
  <2>3. x # y
    BY <1>1, <2>1, <2>2
  <2>4. QED
    BY <1>4, <2>1, <2>2, <2>3
<1>8. Elements(source') = Elements(source) \ {source[i]}
  <2>1. ASSUME NEW x \in Elements(source') PROVE x \in Elements(source) \ {source[i]}
    <3>1. PICK k \in 1..(l - 1) : x = source'[k]
      BY <1>2, <2>1 DEF Elements
    <3>2. PICK j \in 1..l : j # i /\ x = source[j]
      BY <1>6, <3>1
    <3>3. QED
      BY <1>1, <1>4, <3>2 DEF Elements
  <2>2. ASSUME NEW x \in Elements(source), x # source[i] PROVE x \in Elements(source')
    <3>1. PICK j \in 1..l : j # i /\ x = source[j]
      BY <1>1, <2>2 DEF Elements
    <3>2. PICK k \in 1..(l - 1) : source'[k] = x
      BY <1>5, <3>1
    <3>3. QED
      BY <1>2, <3>2 DEF Elements
  <2>3. QED
    BY <2>1, <2>2
<1>9. ASSUME NEW n \in Nat, NEW j \in 1..l, j <= n, source[j] # source[i]
      PROVE  source[j] \in Seen(n)'
  <2>1. PICK k \in 1..(l - 1) : source'[k] = source[j] /\ k = IF j < i THEN j ELSE j - 1
    BY <1>5, <1>9
  <2>2. k <= n
    BY <1>9, <2>1
  <2>3. QED
    BY <1>2, <2>1, <2>2 DEF Seen
<1>10. QED
  BY <1>1, <1>2, <1>7, <1>8, <1>9 DEF Seen
----------------------------------------------------------------------------
(* What a batch becomes in Silver: a row for each key landed, of a record  *)
(* landed with that key, whichever of several the job keeps.               *)
LEMMA SilverOfLanding ==
  ASSUME landing \in Seq(Record), NEW t, NEW s \in SilverChoices(BronzeRows(landing, t))
  PROVE  /\ DOMAIN s = {KeyOf[r] : r \in Elements(landing)} \ {NoKey}
         /\ \A k \in DOMAIN s : s[k] \in Elements(landing) /\ KeyOf[s[k]] = k
<1> DEFINE rows == BronzeRows(landing, t)
<1>1. DOMAIN rows = DOMAIN landing /\ \A i \in DOMAIN rows : rows[i].record = landing[i]
  BY DEF BronzeRows
<1> HIDE DEF rows
<1>2. KeysOf(rows) = {KeyOf[r] : r \in Elements(landing)} \ {NoKey}
  BY <1>1 DEF KeysOf, Elements
<1>3. s \in SilverChoices(rows)
  BY DEF rows
<1>4. s \in [KeysOf(rows) -> Record]
      /\ \A k \in KeysOf(rows) : \E i \in Latest(rows, k) : s[k] = rows[i].record
  BY <1>3 DEF SilverChoices
<1>5. ASSUME NEW k \in KeysOf(rows) PROVE s[k] \in Elements(landing) /\ KeyOf[s[k]] = k
  <2>1. PICK i \in Latest(rows, k) : s[k] = rows[i].record
    BY <1>4
  <2>2. i \in DOMAIN landing /\ s[k] = landing[i] /\ KeyOf[s[k]] = k
    BY <1>1, <2>1 DEF Latest
  <2>3. QED
    BY <2>2 DEF Elements
<1>6. QED
  BY <1>2, <1>4, <1>5
----------------------------------------------------------------------------
(* The inductive invariant. LandingIsWhole is not inductive: what is       *)
(* missing from the landing file is known only from how the fetched pages  *)
(* lie against the source while it changes.                                *)
Loaded == pc = "silver" => bronze = BronzeRows(landing, reruns)
IInv == Shape /\ Fetching /\ Landed /\ Loaded /\ SilverIsOfThisBatch

LEMMA IInvInit == Init => IInv
<1> SUFFICES ASSUME Init PROVE IInv
  OBVIOUS
<1>1. source \in Seq(Record) /\ Distinct(source)
  <2>1. PICK n \in 0..Cardinality(Record) : source \in {s \in [1..n -> Record] : Distinct(s)}
    BY DEF Init
  <2>2. n \in Nat
    BY <2>1
  <2>3. source \in [1..n -> Record] /\ Distinct(source)
    BY <2>1
  <2>4. source \in Seq(Record)
    BY <2>2, <2>3
  <2>5. QED
    BY <2>3, <2>4
<1>2. Shape
  BY <1>1 DEF Init, Shape, Elements
<1>3. pc = "ingest"
  BY DEF Init
<1>4. QED
  BY <1>2, <1>3 DEF IInv, Fetching, Landed, Loaded, SilverIsOfThisBatch

LEMMA ShrinkStep == IInv /\ SourceShrinks => IInv'
<1> SUFFICES ASSUME IInv, SourceShrinks PROVE IInv'
  OBVIOUS
<1>1. Shape /\ Fetching /\ pc \in {"ingest", "fetch"}
  BY DEF IInv, SourceShrinks
<1>2. PICK i \in DOMAIN source :
        /\ source' = RemoveAt(source, i)
        /\ asked' = asked \ {source[i]} /\ gone' = gone \cup {source[i]}
  BY DEF SourceShrinks
<1>3. UNCHANGED <<pc, page, fetched>>
  BY DEF SourceShrinks
<1>4. /\ source' \in Seq(Record) /\ Distinct(source')
      /\ Elements(source') = Elements(source) \ {source[i]}
      /\ \A n \in Nat : Seen(n) \ {source[i]} \subseteq Seen(n)'
  BY <1>1, <1>2, ShrinkFields
<1>5. Shape'
  BY <1>1, <1>2, <1>3, <1>4 DEF Shape
<1>6. Fetching'
  <2> SUFFICES ASSUME pc = "fetch" PROVE Fetching'
    BY <1>3 DEF Fetching
  <2>1. Offset \in Nat /\ Offset' = Offset
    BY <1>1, <1>3, OffsetType DEF Offset, Shape
  <2>2. Seen(Offset) \ {source[i]} \subseteq Seen(Offset)'
    <3>1. Seen(Offset)' = {source'[j] : j \in {k \in DOMAIN source' : k <= Offset}}
      BY <2>1 DEF Seen
    <3>2. Seen(Offset) \ {source[i]}
            \subseteq {source'[j] : j \in {k \in DOMAIN source' : k <= Offset}}
      BY <1>4, <2>1 DEF Seen
    <3>3. QED
      BY <3>1, <3>2
  <2>3. /\ Distinct(fetched) /\ Len(fetched) = Offset
        /\ Elements(fetched) \subseteq Elements(source) \cup gone
        /\ Elements(fetched) \cap Elements(source) \subseteq Seen(Offset)
    BY <1>1 DEF Fetching
  <2>4. Elements(fetched) \subseteq Elements(source') \cup gone'
    BY <1>2, <1>4, <2>3
  <2>5. Elements(fetched) \cap Elements(source') \subseteq Seen(Offset)'
    BY <1>4, <2>2, <2>3
  <2>6. QED
    BY <1>3, <2>1, <2>3, <2>4, <2>5 DEF Fetching
<1>7. QED
  BY <1>1, <1>3, <1>5, <1>6 DEF IInv, Landed, Loaded, SilverIsOfThisBatch

LEMMA GrowStep == IInv /\ SourceGrows => IInv'
<1> SUFFICES ASSUME IInv, SourceGrows PROVE IInv'
  OBVIOUS
<1>1. Shape /\ Fetching /\ pc \in {"ingest", "fetch"}
  BY DEF IInv, SourceGrows
<1>2. PICK r \in Record \ (Elements(source) \cup gone) : source' = Append(source, r)
  BY DEF SourceGrows
<1>3. UNCHANGED <<pc, page, fetched, asked, gone>>
  BY DEF SourceGrows
<1>4. /\ source \in Seq(Record) /\ DOMAIN source = 1..Len(source) /\ Len(source) \in Nat
      /\ source' \in Seq(Record) /\ DOMAIN source' = 1..(Len(source) + 1)
      /\ \A j \in 1..Len(source) : source'[j] = source[j]
      /\ source'[Len(source) + 1] = r
  BY <1>1, <1>2 DEF Shape
<1>5. \A j \in DOMAIN source' : j \in DOMAIN source \/ j = Len(source) + 1
  BY <1>4
<1>6. Elements(source') = Elements(source) \cup {r}
  BY <1>4, <1>5 DEF Elements
<1>7. \A j \in DOMAIN source : source[j] # r
  BY <1>2 DEF Elements
<1>8. Distinct(source')
  BY <1>1, <1>4, <1>5, <1>7 DEF Distinct, Shape
<1>9. Shape'
  BY <1>1, <1>2, <1>3, <1>4, <1>6, <1>8 DEF Shape
<1>10. Fetching'
  <2> SUFFICES ASSUME pc = "fetch" PROVE Fetching'
    BY <1>3 DEF Fetching
  <2>1. Offset' = Offset
    BY <1>3 DEF Offset
  <2>2. Seen(Offset) \subseteq Seen(Offset)'
    <3>1. Seen(Offset)' = {source'[j] : j \in {k \in DOMAIN source' : k <= Offset}}
      BY <2>1 DEF Seen
    <3>2. \A j \in DOMAIN source : j \in DOMAIN source' /\ source'[j] = source[j]
      BY <1>4
    <3>3. QED
      BY <3>1, <3>2 DEF Seen
  <2>3. /\ Distinct(fetched) /\ Len(fetched) = Offset
        /\ Elements(fetched) \subseteq Elements(source) \cup gone
        /\ Elements(fetched) \cap Elements(source) \subseteq Seen(Offset)
    BY <1>1 DEF Fetching
  <2>4. r \notin Elements(fetched)
    BY <1>2, <2>3
  <2>5. QED
    BY <1>3, <1>6, <2>1, <2>2, <2>3, <2>4 DEF Fetching
<1>11. QED
  BY <1>1, <1>3, <1>9, <1>10 DEF IInv, Landed, Loaded, SilverIsOfThisBatch

LEMMA FetchStep == IInv /\ FetchPage => IInv'
<1> SUFFICES ASSUME IInv, FetchPage PROVE IInv'
  OBVIOUS
<1>1. Shape /\ Fetching /\ pc = "fetch" /\ UNCHANGED <<source, asked, gone>>
  BY DEF IInv, FetchPage
<1>2. /\ fetched' \in Seq(Record) /\ Distinct(fetched')
      /\ HasNext(page) => Len(fetched') = page * PageSize
      /\ Elements(fetched') \subseteq Elements(source) \cup gone
      /\ Elements(fetched') \cap Elements(source) \subseteq Seen(page * PageSize)
      /\ IsFiniteSet(Seen(page * PageSize) \ Elements(fetched'))
      /\ Cardinality(Seen(page * PageSize) \ Elements(fetched'))
           <= Cardinality(gone \cap Elements(fetched'))
  BY <1>1, FetchKeeps
<1>3. CASE HasNext(page)
  <2>1. page' = page + 1 /\ pc' = "fetch"
    BY <1>1, <1>3 DEF FetchPage
  <2>2. Shape'
    BY <1>1, <1>2, <2>1 DEF Shape
  <2>3. Offset' = page * PageSize
    BY <1>1, <2>1, FeedAssumption DEF Offset, Shape
  <2>4. Seen(Offset)' = Seen(page * PageSize)
    BY <1>1, <2>3 DEF Seen
  <2>5. Fetching'
    BY <1>1, <1>2, <1>3, <2>3, <2>4 DEF Fetching
  <2>6. QED
    BY <2>1, <2>2, <2>5 DEF IInv, Landed, Loaded, SilverIsOfThisBatch
<1>4. CASE ~HasNext(page)
  <2>1. page' = page /\ pc' = "to_bronze" /\ landing' = fetched'
    BY <1>4 DEF FetchPage
  <2>2. Shape'
    BY <1>1, <1>2, <2>1 DEF Shape
  <2>3. Elements(source) \subseteq Seen(page * PageSize)
    <3>1. page * PageSize \in Nat /\ Len(source) \in Nat /\ DOMAIN source = 1..Len(source)
      BY <1>1, OffsetType DEF Shape
    <3>2. \A j \in DOMAIN source : j <= page * PageSize
      BY <1>4, <3>1 DEF HasNext
    <3>3. QED
      BY <3>2 DEF Seen, Elements
  <2>4. asked \ Elements(fetched') \in SUBSET (Seen(page * PageSize) \ Elements(fetched'))
    BY <1>1, <2>3 DEF Shape
  <2> DEFINE missing == asked \ Elements(fetched')
             unseen == Seen(page * PageSize) \ Elements(fetched')
             lost == gone \cap Elements(fetched')
  <2>5. IsFiniteSet(lost)
    BY <1>2, ElementsFinite, FS_Subset
  <2> HIDE DEF missing, unseen, lost
  <2>6. missing \in SUBSET unseen /\ IsFiniteSet(unseen) /\ Cardinality(unseen) <= Cardinality(lost)
    BY <1>2, <2>4 DEF missing, unseen, lost
  <2>7. Cardinality(missing) <= Cardinality(unseen) /\ IsFiniteSet(missing)
    BY <2>6, FS_Subset
  <2>8. /\ Cardinality(missing) \in Nat /\ Cardinality(unseen) \in Nat
        /\ Cardinality(lost) \in Nat
    BY <2>5, <2>6, <2>7, FS_CardinalityType
  <2>9. Cardinality(missing) <= Cardinality(lost)
    BY <2>6, <2>7, <2>8
  <2>10. Landed'
    BY <1>1, <1>2, <2>1, <2>9 DEF Landed, missing, lost
  <2>11. QED
    BY <2>1, <2>2, <2>10 DEF IInv, Fetching, Loaded, SilverIsOfThisBatch
<1>5. QED
  BY <1>3, <1>4

LEMMA SilverStep == IInv /\ ToSilver => IInv'
<1> SUFFICES ASSUME IInv, ToSilver PROVE IInv'
  OBVIOUS
<1>1. /\ pc = "silver" /\ UNCHANGED <<source, page, fetched, landing, asked, gone>>
      /\ \/ pc' = "failed"
         \/ pc' = "done" /\ silver' \in SilverChoices(bronze)
  BY DEF ToSilver
<1>2. Shape' /\ Fetching' /\ Loaded'
  BY <1>1 DEF IInv, Shape, Fetching, Loaded
<1>3. Landed'
  BY <1>1 DEF IInv, Landed
<1>4. SilverIsOfThisBatch'
  <2> SUFFICES ASSUME pc' = "done" PROVE SilverIsOfThisBatch'
    BY DEF SilverIsOfThisBatch
  <2>1. landing \in Seq(Record) /\ silver' \in SilverChoices(BronzeRows(landing, reruns))
    BY <1>1 DEF IInv, Landed, Loaded
  <2>2. /\ DOMAIN silver' = {KeyOf[r] : r \in Elements(landing)} \ {NoKey}
        /\ \A k \in DOMAIN silver' : silver'[k] \in Elements(landing) /\ KeyOf[silver'[k]] = k
    BY <2>1, SilverOfLanding
  <2>3. QED
    BY <1>1, <2>2 DEF SilverIsOfThisBatch
<1>5. QED
  BY <1>2, <1>3, <1>4 DEF IInv

LEMMA IInvStep == IInv /\ [Next]_vars => IInv'
<1> SUFFICES ASSUME IInv, [Next]_vars PROVE IInv'
  OBVIOUS
<1>1. CASE BeginExtract
  <2>1. /\ page' = 1 /\ fetched' = <<>> /\ pc' = "fetch" /\ source' = source
        /\ asked' = Elements(source) /\ gone' = {}
    BY <1>1 DEF BeginExtract
  <2>2. Shape'
    BY <2>1 DEF IInv, Shape
  <2>3. Offset' = 0
    BY <2>1, FeedAssumption DEF Offset
  <2>4. Fetching'
    BY <2>1, <2>3 DEF Fetching, Elements, Distinct
  <2>5. QED
    BY <2>1, <2>2, <2>4 DEF IInv, Landed, Loaded, SilverIsOfThisBatch
<1>2. CASE FetchTransientError
  BY <1>2 DEF FetchTransientError, objects, IInv, Shape, Fetching, Offset, Seen, Landed, Loaded,
              SilverIsOfThisBatch
<1>3. CASE AttemptFails
  BY <1>3 DEF AttemptFails, objects, IInv, Shape, Fetching, Landed, Loaded, SilverIsOfThisBatch
<1>4. CASE ToBronze
  BY <1>4 DEF ToBronze, IInv, Shape, Fetching, Landed, Loaded, SilverIsOfThisBatch
<1>5. CASE Rerun
  BY <1>5 DEF Rerun, objects, IInv, Shape, Fetching, Landed, Loaded, SilverIsOfThisBatch
<1>6. CASE UNCHANGED vars
  BY <1>6 DEF vars, objects, IInv, Shape, Fetching, Offset, Seen, Landed, Loaded,
              SilverIsOfThisBatch
<1>7. QED
  BY <1>1, <1>2, <1>3, <1>4, <1>5, <1>6, ShrinkStep, GrowStep, FetchStep, SilverStep DEF Next

(* The invariant holds in every reachable state.                           *)
THEOREM InductiveInvariant == Spec => []IInv
BY IInvInit, IInvStep, PTL DEF Spec

(* However often pages and attempts are retried, and whatever comes and    *)
(* goes at the source, a landing file repeats nothing, and misses no more  *)
(* records than went after they had been fetched.                          *)
THEOREM LandingIsWholeAlways == Spec => []LandingIsWhole
<1>1. IInv => LandingIsWhole
  BY DEF IInv, Landed, LandingIsWhole
<1>2. QED
  BY <1>1, InductiveInvariant, PTL

(* Silver is what this extraction landed, and all of it.                   *)
THEOREM SilverIsOfThisBatchAlways == Spec => []SilverIsOfThisBatch
<1>1. IInv => SilverIsOfThisBatch
  BY DEF IInv
<1>2. QED
  BY <1>1, InductiveInvariant, PTL

----------------------------------------------------------------------------
(* The suppliers source. What has been read is the lines of the files read *)
(* so far; a file dropped meanwhile is none of them.                       *)
ReadSoFar ==
  pc = "read" =>
    /\ read \in 0..listed /\ records \in Seq(Record)
    /\ Elements(records) = LinesOf(read)

Batch ==
  /\ pc \in {"to_bronze", "silver"} =>
       landing \in Seq(Record) /\ Elements(landing) = LinesOf(listed)
  /\ pc = "silver" => bronze = BronzeRows(landing, week)

CatalogInv ==
  /\ files \in Seq(Seq(Record)) /\ listed \in 0..Len(files)
  /\ pc # "idle" => silver = Absent
  /\ ReadSoFar /\ Batch /\ CatalogIsWhole

(* One more file adds its lines; one more drop adds none to the files      *)
(* before it.                                                              *)
LEMMA LinesOfNext ==
  ASSUME files \in Seq(Seq(Record)), NEW n \in 0..(Len(files) - 1)
  PROVE  LinesOf(n + 1) = LinesOf(n) \cup Elements(files[n + 1])
<1>1. 1..(n + 1) = (1..n) \cup {n + 1}
  OBVIOUS
<1>2. ToSet(files[n + 1]) = Elements(files[n + 1])
  BY DEF ToSet, Elements
<1>3. QED
  BY <1>1, <1>2 DEF LinesOf

LEMMA LinesOfKept ==
  ASSUME files \in Seq(Seq(Record)), NEW f \in Seq(Record), files' = Append(files, f)
  PROVE  /\ files' \in Seq(Seq(Record)) /\ Len(files') = Len(files) + 1
         /\ \A n \in 0..Len(files) : UNION {ToSet(files'[i]) : i \in 1..n} = LinesOf(n)
<1>1. /\ files' \in Seq(Seq(Record)) /\ Len(files') = Len(files) + 1
      /\ \A i \in 1..Len(files) : files'[i] = files[i]
  OBVIOUS
<1>2. ASSUME NEW n \in 0..Len(files) PROVE UNION {ToSet(files'[i]) : i \in 1..n} = LinesOf(n)
  <2>1. \A i \in 1..n : files'[i] = files[i]
    BY <1>1
  <2>2. QED
    BY <2>1 DEF LinesOf
<1>3. QED
  BY <1>1, <1>2

LEMMA CatalogStep == CatalogInv /\ [Catalog!Next]_(Catalog!vars) => CatalogInv'
<1> SUFFICES ASSUME CatalogInv, [Catalog!Next]_(Catalog!vars) PROVE CatalogInv'
  OBVIOUS
<1>1. files \in Seq(Seq(Record)) /\ listed \in 0..Len(files) /\ Len(files) \in Nat
  BY DEF CatalogInv
<1>2. CASE Catalog!DropFile
  <2>1. PICK n \in 1..MaxLines : \E f \in [1..n -> Record] : files' = Append(files, f)
    BY <1>2 DEF Catalog!DropFile
  <2>2. PICK f \in [1..n -> Record] : f \in Seq(Record) /\ files' = Append(files, f)
    BY <2>1
  <2>3. /\ files' \in Seq(Seq(Record)) /\ Len(files') = Len(files) + 1
        /\ \A m \in 0..Len(files) : UNION {ToSet(files'[i]) : i \in 1..m} = LinesOf(m)
    BY <1>1, <2>2, LinesOfKept
  <2>4. UNCHANGED <<pc, week, listed, read, records, landing, bronze, silver>>
    BY <1>2 DEF Catalog!DropFile, Catalog!objects
  <2>5. /\ LinesOf(listed)' = LinesOf(listed)
        /\ pc = "read" => LinesOf(read)' = LinesOf(read)
    <3>1. /\ LinesOf(listed)' = UNION {ToSet(files'[i]) : i \in 1..listed}
          /\ LinesOf(read)' = UNION {ToSet(files'[i]) : i \in 1..read}
      BY <2>4 DEF LinesOf
    <3>2. pc = "read" => read \in 0..Len(files)
      BY <1>1 DEF CatalogInv, ReadSoFar
    <3>3. QED
      BY <1>1, <2>3, <3>1, <3>2
  <2>6. QED
    BY <1>1, <2>3, <2>4, <2>5 DEF CatalogInv, ReadSoFar, Batch, CatalogIsWhole
<1>3. CASE Catalog!ReadFile
  <2>1. /\ pc = "read" /\ read < listed /\ records' = records \o files[read + 1]
        /\ read' = read + 1
        /\ UNCHANGED <<files, pc, week, listed, landing, bronze, silver>>
    BY <1>3 DEF Catalog!ReadFile, Catalog!objects
  <2>2. /\ read \in 0..(Len(files) - 1) /\ records \in Seq(Record)
        /\ Elements(records) = LinesOf(read) /\ read + 1 \in 0..listed
    BY <1>1, <2>1 DEF CatalogInv, ReadSoFar
  <2>3. files[read + 1] \in Seq(Record)
    BY <1>1, <2>2
  <2>4. /\ records' \in Seq(Record)
        /\ Elements(records') = Elements(records) \cup Elements(files[read + 1])
    BY <2>1, <2>2, <2>3, ConcatElements
  <2>5. LinesOf(read + 1) = LinesOf(read) \cup Elements(files[read + 1])
    BY <1>1, <2>2, LinesOfNext
  <2>6. LinesOf(read)' = LinesOf(read + 1) /\ LinesOf(listed)' = LinesOf(listed)
    BY <2>1 DEF LinesOf
  <2>7. QED
    BY <2>1, <2>2, <2>4, <2>5, <2>6 DEF CatalogInv, ReadSoFar, Batch, CatalogIsWhole
<1>4. CASE Catalog!ToSilver
  <2>1. /\ pc = "silver" /\ UNCHANGED <<files, week, listed, read, records, landing, bronze>>
        /\ \/ pc' = "failed" /\ silver' = silver
           \/ pc' = "idle" /\ silver' \in SilverChoices(bronze)
    BY <1>4, SharedOperators DEF Catalog!ToSilver
  <2>2. LinesOf(listed)' = LinesOf(listed)
    BY <2>1 DEF LinesOf
  <2>3. CASE pc' = "failed" /\ silver' = silver
    BY <2>1, <2>2, <2>3 DEF CatalogInv, ReadSoFar, Batch, CatalogIsWhole
  <2>4. CASE pc' = "idle" /\ silver' \in SilverChoices(bronze)
    <3>1. /\ landing \in Seq(Record) /\ Elements(landing) = LinesOf(listed)
          /\ silver' \in SilverChoices(BronzeRows(landing, week))
      BY <2>1, <2>4 DEF CatalogInv, Batch
    <3>2. /\ DOMAIN silver' = {KeyOf[r] : r \in Elements(landing)} \ {NoKey}
          /\ \A k \in DOMAIN silver' : silver'[k] \in Elements(landing) /\ KeyOf[silver'[k]] = k
      BY <3>1, SilverOfLanding
    <3>3. CatalogIsWhole'
      BY <2>2, <3>1, <3>2 DEF CatalogIsWhole
    <3>4. QED
      BY <2>1, <2>4, <3>3 DEF CatalogInv, ReadSoFar, Batch
  <2>5. QED
    BY <2>1, <2>3, <2>4
<1>5. CASE Catalog!BeginWeek \/ Catalog!AttemptFails \/ Catalog!Land \/ Catalog!ToBronze
  <2>1. UNCHANGED <<files, listed, read, records>> /\ pc' \notin {"idle", "read"}
    BY <1>5 DEF Catalog!BeginWeek, Catalog!AttemptFails, Catalog!Land, Catalog!ToBronze
  <2>2. LinesOf(listed)' = LinesOf(listed)
    BY <2>1 DEF LinesOf
  <2>3. silver' = Absent
    BY <1>5 DEF Catalog!BeginWeek, Catalog!AttemptFails, Catalog!Land, Catalog!ToBronze,
                CatalogInv, Catalog!objects
  <2>4. CASE Catalog!Land
    BY <1>1, <2>1, <2>2, <2>3, <2>4 DEF Catalog!Land, CatalogInv, ReadSoFar, Batch, CatalogIsWhole
  <2>5. CASE Catalog!ToBronze
    BY <1>1, <2>1, <2>2, <2>3, <2>5, SharedOperators
       DEF Catalog!ToBronze, CatalogInv, ReadSoFar, Batch, CatalogIsWhole
  <2>6. CASE Catalog!BeginWeek \/ Catalog!AttemptFails
    <3>1. pc' \in {"ingest", "failed"}
      BY <2>6 DEF Catalog!BeginWeek, Catalog!AttemptFails
    <3>2. QED
      BY <1>1, <2>1, <2>3, <3>1 DEF CatalogInv, ReadSoFar, Batch, CatalogIsWhole
  <2>7. QED
    BY <1>5, <2>4, <2>5, <2>6
<1>6. CASE Catalog!ListFiles
  <2>1. /\ pc = "ingest" /\ pc' = "read" /\ listed' = Len(files) /\ read' = 0 /\ records' = <<>>
        /\ UNCHANGED <<files, week, landing, bronze, silver>>
    BY <1>6 DEF Catalog!ListFiles, Catalog!objects
  <2>2. Elements(records') = LinesOf(read)'
    BY <2>1 DEF Elements, LinesOf
  <2>3. QED
    BY <1>1, <2>1, <2>2 DEF CatalogInv, ReadSoFar, Batch, CatalogIsWhole
<1>7. CASE UNCHANGED Catalog!vars
  BY <1>7 DEF Catalog!vars, Catalog!objects, CatalogInv, ReadSoFar, Batch, CatalogIsWhole, LinesOf
<1>8. QED
  BY <1>2, <1>3, <1>4, <1>5, <1>6, <1>7 DEF Catalog!Next

(* The invariant of the weekly runs holds in every reachable state.        *)
THEOREM CatalogInvariant == Catalog!Spec => []CatalogInv
<1>1. Catalog!Init => CatalogInv
  BY DEF Catalog!Init, CatalogInv, ReadSoFar, Batch, CatalogIsWhole
<1>2. QED
  BY <1>1, CatalogStep, PTL DEF Catalog!Spec

(* Whatever is dropped while the files are read, and whatever fails on the *)
(* way, the week's Silver table has every product of every drop listed,    *)
(* and rows of these drops only.                                           *)
THEOREM CatalogIsWholeAlways == Catalog!Spec => []CatalogIsWhole
<1>1. CatalogInv => CatalogIsWhole
  BY DEF CatalogInv
<1>2. QED
  BY <1>1, CatalogInvariant, PTL
=============================================================================
