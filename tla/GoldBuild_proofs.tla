------------------------- MODULE GoldBuild_proofs -------------------------
(***************************************************************************)
(* Proofs about the Gold build under the ordinary schedule (one run at a   *)
(* time, in the order of the batches, over Silver partitions that do not   *)
(* change), for any contents, any number of runs and retries and a crash   *)
(* at any point. What is proved of the dimension in CustomerDimension_     *)
(* proofs is carried over to the table the runs store. The last two        *)
(* theorems need less of the schedule: that runs take turns, and that they *)
(* take them in the order of the batches.                                  *)
(***************************************************************************)
EXTENDS GoldBuild, FiniteSetTheorems, TLAPS

D == INSTANCE CustomerDimension_proofs WITH
  MaxBuilds <- MaxStarts * MaxTries,
  silver <- [d \in Date |-> silver[d].customers],
  dimCustomer <- gold.dim_customer,
  builds <- writes

InTurns == MaxActiveRuns = 1
InOrder == InTurns /\ Backfill = FALSE
Scheduled == InOrder /\ SilverRerun = FALSE

(* The operators of DimCustomer are the same wherever they are instanced.  *)
LEMMA SameBuild ==
  \A T, inc, d, n :
    /\ D!BuildDimCustomer(T, inc, d, n) = BuildDimCustomer(T, inc, d, n)
    /\ Dimension!BuildDimCustomer(T, inc, d, n) = BuildDimCustomer(T, inc, d, n)
<1>1. \A T, inc, d, n : D!BuildDimCustomer(T, inc, d, n) = BuildDimCustomer(T, inc, d, n)
  BY DEF D!BuildDimCustomer, BuildDimCustomer, D!Merge, Merge, D!Bootstrap, Bootstrap,
         D!NewVersion, NewVersion, D!Historical, Historical, D!Expired, Expired, D!Expire, Expire,
         D!Current, Current, D!ChangedIds, ChangedIds, D!UntouchedCurrent, UntouchedCurrent,
         D!NewVersions, NewVersions, D!NewIds, NewIds
<1>2. \A T, inc, d, n : Dimension!BuildDimCustomer(T, inc, d, n) = BuildDimCustomer(T, inc, d, n)
  BY DEF Dimension!BuildDimCustomer, BuildDimCustomer, Dimension!Merge, Merge,
         Dimension!Bootstrap, Bootstrap, Dimension!NewVersion, NewVersion,
         Dimension!Historical, Historical, Dimension!Expired, Expired, Dimension!Expire, Expire,
         Dimension!Current, Current, Dimension!ChangedIds, ChangedIds,
         Dimension!UntouchedCurrent, UntouchedCurrent, Dimension!NewVersions, NewVersions,
         Dimension!NewIds, NewIds
<1>3. QED
  BY <1>1, <1>2

LEMMA SamePartition == D!Partition = Partition /\ Dimension!Partition = Partition
BY DEF D!Partition, Dimension!Partition, Partition

LEMMA SamePointInTime == \A T, c, day : D!PointInTime(T, c, day) = PointInTime(T, c, day)
BY DEF D!PointInTime, PointInTime, D!Effective, Effective

LEMMA BuildsNumber == MaxStarts * MaxTries \in Nat
BY BoundAssumption
----------------------------------------------------------------------------
(* The shape of the state.                                                 *)
IsRows(l) ==
  l = [dates |-> l.dates, customers |-> l.customers, products |-> l.products,
       stores |-> l.stores, facts |-> l.facts]
IsGold ==
  gold = [dim_date |-> gold.dim_date, dim_customer |-> gold.dim_customer,
          dim_product |-> gold.dim_product, dim_store |-> gold.dim_store,
          fact_sales |-> gold.fact_sales, daily_sales_summary |-> gold.daily_sales_summary]
Shape ==
  /\ silver \in [Date -> Content] /\ written \subseteq Date
  /\ IsGold
  /\ local = [d \in Date |-> local[d]] /\ \A d \in Date : IsRows(local[d])
  /\ pc \in [Date -> Running \cup {"idle", "success", "failed"}]
  /\ tries \in [Date -> 0..MaxTries]
  /\ starts \in 0..MaxStarts /\ writes \in Nat

LEMMA ShapeInit == Init => Shape
<1> SUFFICES ASSUME Init PROVE Shape
  OBVIOUS
<1>1. NoContent \in Content
  <2>1. EmptyPartition \in Partition
    <3>1. EmptyPartition \in [{} -> Attr]
      BY DEF EmptyPartition
    <3>2. QED
      BY <3>1 DEF Partition
  <2>2. [o \in {} |-> "billable"] \in UNION {[S -> Status] : S \in SUBSET Order}
    <3>1. [o \in {} |-> "billable"] \in [{} -> Status]
      OBVIOUS
    <3>2. QED
      BY <3>1
  <2>3. QED
    BY <2>1, <2>2 DEF NoContent, Content
<1>2. QED
  BY <1>1, BoundAssumption
     DEF Init, Shape, IsGold, IsRows, EmptyGold, NoRows

LEMMA ShapeStep == Shape /\ [Next]_vars => Shape'
<1> SUFFICES ASSUME Shape, [Next]_vars PROVE Shape'
  OBVIOUS
<1>1. ASSUME NEW d \in Date, WriteSilver(d) PROVE Shape'
  BY <1>1, ContentAssumption DEF WriteSilver, Shape, IsGold, IsRows
<1>2. ASSUME NEW d \in Date, Start(d) PROVE Shape'
  <2>1. 1 \in 0..MaxTries /\ starts + 1 \in 0..MaxStarts
    BY <1>2, BoundAssumption DEF Start, Shape
  <2>2. QED
    BY <1>2, <2>1 DEF Start, Shape, IsGold, IsRows, Running
<1>3. ASSUME NEW d \in Date, Step(d) PROVE Shape'
  <2>1. silver' = silver /\ written' = written /\ tries' = tries /\ starts' = starts
    BY <1>3 DEF Step, BuildDimDate, ReadDimCustomer, WriteDimCustomer, BuildDimProduct,
                BuildDimStore, BuildFactSales, BuildDailySalesSummary
  <2>2. writes' \in Nat
    BY <1>3 DEF Shape, Step, BuildDimDate, ReadDimCustomer, WriteDimCustomer, BuildDimProduct,
                BuildDimStore, BuildFactSales, BuildDailySalesSummary
  <2>3. \E p \in Running \cup {"success"} : pc' = [pc EXCEPT ![d] = p]
    BY <1>3 DEF Step, BuildDimDate, ReadDimCustomer, WriteDimCustomer, BuildDimProduct,
                BuildDimStore, BuildFactSales, BuildDailySalesSummary, Goto, Running
  <2>4. IsGold'
    BY <1>3 DEF Shape, Step, BuildDimDate, ReadDimCustomer, WriteDimCustomer, BuildDimProduct,
                BuildDimStore, BuildFactSales, BuildDailySalesSummary, IsGold
  <2>5. (local = [e \in Date |-> local[e]])' /\ \A e \in Date : IsRows(local[e])'
    BY <1>3 DEF Shape, Step, BuildDimDate, ReadDimCustomer, WriteDimCustomer, BuildDimProduct,
                BuildDimStore, BuildFactSales, BuildDailySalesSummary, IsRows, NoRows
  <2>6. QED
    BY <2>1, <2>2, <2>3, <2>4, <2>5 DEF Shape
<1>4. ASSUME NEW d \in Date, Crash(d) PROVE Shape'
  <2>1. tries' \in [Date -> 0..MaxTries]
    BY <1>4, BoundAssumption DEF Crash, Shape
  <2>2. pc' \in [Date -> Running \cup {"idle", "success", "failed"}]
    BY <1>4 DEF Crash, Shape, Goto, Running
  <2>3. QED
    BY <1>4, <2>1, <2>2 DEF Crash, Shape, IsGold, IsRows, NoRows
<1>5. CASE UNCHANGED vars
  BY <1>5 DEF vars, Shape, IsGold, IsRows
<1>6. QED
  BY <1>1, <1>2, <1>3, <1>4, <1>5 DEF Next
----------------------------------------------------------------------------
(* Runs take turns, each for a batch no earlier than those before it.      *)
Turn ==
  /\ \A d, e \in Active : d = e
  /\ \A d \in Active : \A e \in Started : e <= d
  /\ Started \subseteq written
  /\ lastBatch \in Started \cup {0}
  /\ \A d \in Active : pc[d] \in {"product", "store", "fact", "summary"} => lastBatch = d

LEMMA NoneActive ==
  ASSUME Turn, InTurns, Cardinality(Active) < MaxActiveRuns
  PROVE  Active = {}
<1>1. IsFiniteSet(Active)
  <2>1. CASE Active = {}
    BY <2>1, FS_EmptySet
  <2>2. ASSUME NEW d \in Active PROVE IsFiniteSet(Active)
    <3>1. Active = {d}
      BY DEF Turn
    <3>2. QED
      BY <3>1, FS_Singleton
  <2>3. QED
    BY <2>1, <2>2
<1>2. Cardinality(Active) \in Nat /\ Cardinality(Active) < 1
  BY <1>1, FS_CardinalityType DEF InTurns
<1>3. QED
  BY <1>1, <1>2, FS_EmptySet

LEMMA TurnStep ==
  ASSUME Shape, Turn, InOrder, [Next]_vars PROVE Turn'
<1>0. Date \subseteq Nat /\ pc \in [Date -> Running \cup {"idle", "success", "failed"}]
  BY DateAssumption DEF Shape
<1>1. ASSUME NEW d \in Date, WriteSilver(d) PROVE Turn'
  BY <1>1 DEF WriteSilver, Turn, Active, Started
<1>2. ASSUME NEW d \in Date, Start(d) PROVE Turn'
  <2>1. Active = {} /\ (\A e \in Started : e <= d) /\ d \in written
        /\ pc' = [pc EXCEPT ![d] = "date"] /\ UNCHANGED <<written, lastBatch>>
    BY <1>2, NoneActive DEF Start, InOrder
  <2>2. Active' = {d} /\ Started' = Started \cup {d} /\ pc'[d] = "date"
    BY <1>0, <2>1 DEF Active, Started, Running
  <2>3. \A e \in Started' : e <= d
    BY <1>0, <2>1, <2>2
  <2>4. QED
    BY <2>1, <2>2, <2>3 DEF Turn
<1>3. ASSUME NEW d \in Date, NEW p, pc[d] \in Running, p # "idle", pc' = [pc EXCEPT ![d] = p],
             written' = written, lastBatch' \in {lastBatch, d},
             p \in {"product", "store", "fact", "summary"} =>
               \/ lastBatch' = d
               \/ lastBatch' = lastBatch /\ pc[d] \in {"product", "store", "fact", "summary"}
      PROVE  Turn'
  <2>1. d \in Active /\ Active' \subseteq Active /\ Started' = Started
    BY <1>0, <1>3 DEF Active, Started, Running
  <2>2. lastBatch' \in Started' \cup {0}
    BY <1>3, <2>1 DEF Turn, Active, Started, Running
  <2>3. \A e \in Active' : e = d /\ pc'[e] = p
    BY <1>0, <1>3, <2>1 DEF Turn
  <2>4. QED
    BY <1>3, <2>1, <2>2, <2>3 DEF Turn
<1>4. ASSUME NEW d \in Date, Step(d) PROVE Turn'
  <2>1. CASE BuildDimDate(d)
    BY <2>1, <1>3 DEF BuildDimDate, Goto, Running
  <2>2. CASE ReadDimCustomer(d)
    BY <2>2, <1>3 DEF ReadDimCustomer, Goto, Running
  <2>3. CASE WriteDimCustomer(d)
    BY <2>3, <1>3 DEF WriteDimCustomer, Goto, Running
  <2>4. CASE BuildDimProduct(d)
    BY <2>4, <1>3 DEF BuildDimProduct, Goto, Running
  <2>5. CASE BuildDimStore(d)
    BY <2>5, <1>3 DEF BuildDimStore, Goto, Running
  <2>6. CASE BuildFactSales(d)
    BY <2>6, <1>3 DEF BuildFactSales, Goto, Running
  <2>7. CASE BuildDailySalesSummary(d)
    <3>1. /\ pc[d] \in Running /\ pc' = [pc EXCEPT ![d] = "success"]
          /\ written' = written /\ lastBatch' = lastBatch
      BY <2>7 DEF BuildDailySalesSummary, Goto, Running
    <3>2. QED
      BY <3>1, <1>3
  <2>8. QED
    BY <1>4, <2>1, <2>2, <2>3, <2>4, <2>5, <2>6, <2>7 DEF Step
<1>5. ASSUME NEW d \in Date, Crash(d) PROVE Turn'
  BY <1>5, <1>3 DEF Crash, Goto
<1>6. CASE UNCHANGED vars
  BY <1>6 DEF vars, Turn, Active, Started
<1>7. QED
  BY <1>1, <1>2, <1>4, <1>5, <1>6 DEF Next

(* An attempt writes the dimension once: the writes so far are no more     *)
(* than the attempts.                                                      *)
BeforeWrite(d) == pc[d] \in {"date", "read_customer", "write_customer"}
Budget ==
  /\ Active = {} => writes <= starts * MaxTries
  /\ \A d \in Active :
       /\ starts >= 1
       /\ writes <= (starts - 1) * MaxTries + tries[d]
       /\ BeforeWrite(d) => writes <= (starts - 1) * MaxTries + tries[d] - 1

LEMMA Products ==
  /\ \A s \in Nat : s * MaxTries \in Nat /\ (s + 1) * MaxTries = s * MaxTries + MaxTries
  /\ \A s \in Nat : s >= 1 => /\ (s - 1) * MaxTries \in Nat
                              /\ s * MaxTries = (s - 1) * MaxTries + MaxTries
  /\ \A s \in 0..MaxStarts : s * MaxTries <= MaxStarts * MaxTries
<1>1. MaxTries \in Nat /\ MaxStarts \in Nat
  BY BoundAssumption
<1>2. \A s \in Nat : s * MaxTries \in Nat /\ (s + 1) * MaxTries = s * MaxTries + MaxTries
  BY <1>1
<1>3. \A s \in Nat : s >= 1 => /\ (s - 1) * MaxTries \in Nat
                              /\ s * MaxTries = (s - 1) * MaxTries + MaxTries
  BY <1>1
<1>4. \A s \in 0..MaxStarts : s * MaxTries <= MaxStarts * MaxTries
  <2> SUFFICES ASSUME NEW s \in 0..MaxStarts PROVE s * MaxTries <= MaxStarts * MaxTries
    OBVIOUS
  <2>1. (MaxStarts - s) * MaxTries \in Nat
    BY <1>1
  <2>2. MaxStarts * MaxTries = s * MaxTries + (MaxStarts - s) * MaxTries
    BY <1>1
  <2>3. QED
    BY <1>1, <2>1, <2>2
<1>5. QED
  BY <1>2, <1>3, <1>4

LEMMA BudgetStep ==
  ASSUME Shape, Turn, Scheduled, Budget, [Next]_vars PROVE Budget'
<1> DEFINE Spent == (starts - 1) * MaxTries
           All == starts * MaxTries
<1>0. /\ MaxTries \in Nat \ {0} /\ starts \in Nat /\ writes \in Nat
      /\ pc \in [Date -> Running \cup {"idle", "success", "failed"}]
      /\ tries \in [Date -> 0..MaxTries]
  BY BoundAssumption DEF Shape
<1>p. starts >= 1 => Spent \in Nat /\ All = Spent + MaxTries
  BY <1>0, Products
<1>1. ASSUME NEW d \in Date, WriteSilver(d) PROVE Budget'
  BY <1>1 DEF WriteSilver, Budget, Active, BeforeWrite
<1>2. ASSUME NEW d \in Date, Start(d) PROVE Budget'
  <2>1. /\ Active = {} /\ pc' = [pc EXCEPT ![d] = "date"] /\ tries' = [tries EXCEPT ![d] = 1]
        /\ starts' = starts + 1 /\ writes' = writes
    BY <1>2, NoneActive DEF Start, Scheduled, InOrder
  <2>2. /\ Active' = {d} /\ pc'[d] = "date" /\ tries'[d] = 1
    BY <1>0, <2>1 DEF Active, Running
  <2>3. writes <= All /\ starts' - 1 = starts /\ starts' >= 1
    BY <1>0, <2>1 DEF Budget
  <2>4. BeforeWrite(d)'
    BY <2>2 DEF BeforeWrite
  <2>5. All \in Nat
    BY <1>0, Products
  <2> HIDE DEF All
  <2>6. writes' <= All + tries'[d] - 1 /\ writes' <= All + tries'[d]
    BY <1>0, <2>1, <2>2, <2>3, <2>5
  <2> USE DEF All
  <2>7. QED
    BY <2>2, <2>3, <2>4, <2>6 DEF Budget
<1>3. ASSUME NEW d, starts' = starts, starts >= 1, Active' = {d},
             writes' <= Spent + tries'[d],
             BeforeWrite(d)' => writes' <= Spent + tries'[d] - 1
      PROVE  Budget'
  BY <1>3 DEF Budget
<1>r. ASSUME starts' = starts, Active' = {}, writes' <= All
      PROVE  Budget'
  BY <1>r DEF Budget
<1>4. ASSUME NEW d \in Date, Step(d) PROVE Budget'
  <2>1. /\ d \in Active /\ Active = {d} /\ starts' = starts /\ tries' = tries /\ starts >= 1
        /\ writes <= Spent + tries[d]
        /\ BeforeWrite(d) => writes <= Spent + tries[d] - 1
        /\ tries[d] \in 0..MaxTries
    <3>1. d \in Active /\ starts' = starts /\ tries' = tries
      BY <1>4 DEF Step, BuildDimDate, ReadDimCustomer, WriteDimCustomer, BuildDimProduct,
                  BuildDimStore, BuildFactSales, BuildDailySalesSummary, Active, Running
    <3>2. QED
      BY <1>0, <3>1 DEF Turn, Budget
  <2>2. ASSUME NEW p \in Running, pc' = [pc EXCEPT ![d] = p]
        PROVE  Active' = {d} /\ pc'[d] = p
    BY <1>0, <2>1, <2>2 DEF Active
  <2>3. CASE BuildDimDate(d) \/ ReadDimCustomer(d)
    <3>1. PICK p \in {"read_customer", "write_customer"} :
            pc' = [pc EXCEPT ![d] = p] /\ writes' = writes /\ BeforeWrite(d)
      BY <2>3 DEF BuildDimDate, ReadDimCustomer, Goto, BeforeWrite
    <3>2. p \in Running /\ Active' = {d} /\ BeforeWrite(d)'
      BY <3>1, <2>2 DEF BeforeWrite, Running
    <3>3. QED
      BY <1>3, <2>1, <3>1, <3>2
  <2>4. CASE WriteDimCustomer(d)
    <3>1. pc' = [pc EXCEPT ![d] = "product"] /\ writes' = writes + 1 /\ BeforeWrite(d)
      BY <2>4 DEF WriteDimCustomer, Goto, BeforeWrite
    <3>2. "product" \in Running /\ Active' = {d} /\ ~BeforeWrite(d)'
      BY <3>1, <2>2 DEF BeforeWrite, Running
    <3> HIDE DEF Spent, All
    <3>3. writes' <= Spent + tries'[d]
      BY <1>0, <1>p, <2>1, <3>1
    <3> USE DEF Spent, All
    <3>4. QED
      BY <1>3, <2>1, <3>1, <3>2, <3>3
  <2>5. CASE BuildDimProduct(d) \/ BuildDimStore(d) \/ BuildFactSales(d)
    <3>1. PICK p \in {"store", "fact", "summary"} :
            pc' = [pc EXCEPT ![d] = p] /\ writes' = writes /\ ~BeforeWrite(d)
      BY <2>5 DEF BuildDimProduct, BuildDimStore, BuildFactSales, Goto, BeforeWrite
    <3>2. p \in Running /\ Active' = {d} /\ ~BeforeWrite(d)'
      BY <3>1, <2>2 DEF BeforeWrite, Running
    <3>3. QED
      BY <1>3, <2>1, <3>1, <3>2
  <2>6. CASE BuildDailySalesSummary(d)
    <3>1. pc' = [pc EXCEPT ![d] = "success"] /\ writes' = writes
      BY <2>6 DEF BuildDailySalesSummary, Goto
    <3>2. "success" \notin Running /\ Active' = {}
      BY <1>0, <2>1, <3>1 DEF Active, Running
    <3> HIDE DEF Spent, All
    <3>3. writes' <= All
      BY <1>0, <1>p, <2>1, <3>1
    <3> USE DEF Spent, All
    <3>4. QED
      BY <1>r, <2>1, <3>1, <3>2, <3>3
  <2>7. QED
    BY <1>4, <2>3, <2>4, <2>5, <2>6 DEF Step
<1>5. ASSUME NEW d \in Date, Crash(d) PROVE Budget'
  <2>1. /\ d \in Active /\ Active = {d} /\ starts' = starts /\ writes' = writes /\ starts >= 1
        /\ writes <= Spent + tries[d]
        /\ BeforeWrite(d) => writes <= Spent + tries[d] - 1
        /\ tries[d] \in 0..MaxTries
    <3>1. d \in Active /\ starts' = starts /\ writes' = writes
      BY <1>5 DEF Crash, Active
    <3>2. QED
      BY <1>0, <3>1 DEF Turn, Budget
  <2>2. CASE tries[d] < MaxTries
    <3>1. pc' = [pc EXCEPT ![d] = "date"] /\ tries' = [tries EXCEPT ![d] = @ + 1]
      BY <1>5, <2>2 DEF Crash, Goto
    <3>2. Active' = {d} /\ pc'[d] = "date" /\ "date" \in Running /\ tries'[d] = tries[d] + 1
      BY <1>0, <2>1, <3>1 DEF Active, Running
    <3>3. BeforeWrite(d)'
      BY <3>2 DEF BeforeWrite
    <3> HIDE DEF Spent, All
    <3>4. writes' <= Spent + tries'[d] - 1 /\ writes' <= Spent + tries'[d]
      BY <1>0, <1>p, <2>1, <3>2
    <3> USE DEF Spent, All
    <3>5. QED
      BY <1>3, <2>1, <3>1, <3>2, <3>3, <3>4
  <2>3. CASE ~(tries[d] < MaxTries)
    <3>1. pc' = [pc EXCEPT ![d] = "failed"]
      BY <1>5, <2>3 DEF Crash, Goto
    <3>2. "failed" \notin Running /\ Active' = {}
      BY <1>0, <2>1, <3>1 DEF Active, Running
    <3> HIDE DEF Spent, All
    <3>3. writes' <= All
      BY <1>0, <1>p, <2>1
    <3> USE DEF Spent, All
    <3>4. QED
      BY <1>r, <2>1, <3>1, <3>2, <3>3
  <2>4. QED
    BY <2>2, <2>3
<1>6. CASE UNCHANGED vars
  BY <1>6 DEF vars, Budget, Active, BeforeWrite
<1>7. QED
  BY <1>1, <1>2, <1>4, <1>5, <1>6 DEF Next

LEMMA WriteWithinBudget ==
  ASSUME Shape, Turn, Scheduled, Budget, NEW d \in Date, WriteDimCustomer(d)
  PROVE  writes < MaxStarts * MaxTries
<1> DEFINE Spent == (starts - 1) * MaxTries
           All == starts * MaxTries
           Total == MaxStarts * MaxTries
<1>1. /\ MaxTries \in Nat \ {0} /\ starts \in 0..MaxStarts /\ starts \in Nat
      /\ writes \in Nat /\ MaxStarts \in Nat /\ tries[d] \in 0..MaxTries
  BY BoundAssumption DEF Shape
<1>2. d \in Active /\ BeforeWrite(d)
  BY DEF WriteDimCustomer, Active, Running, BeforeWrite
<1>3. starts >= 1 /\ writes <= Spent + tries[d] - 1
  BY <1>2 DEF Budget
<1>4. Spent \in Nat /\ All = Spent + MaxTries /\ All <= Total /\ Total \in Nat
  BY <1>1, <1>3, Products
<1> HIDE DEF Spent, All, Total
<1>5. writes < Total
  BY <1>1, <1>3, <1>4
<1>6. QED
  BY <1>5 DEF Total
----------------------------------------------------------------------------
(* What a run holds is what the Gold tables hold, once it has put them;    *)
(* the customers it has merged and not yet put are the merge of what is    *)
(* there.                                                                  *)
Held ==
  \A d \in Active :
    /\ pc[d] # "date" => local[d].dates = gold.dim_date
    /\ pc[d] = "write_customer" =>
         local[d].customers = BuildDimCustomer(gold.dim_customer, silver[d].customers, d, writes)
    /\ pc[d] \in {"product", "store", "fact"} => local[d].customers = gold.dim_customer
    /\ pc[d] \in {"store", "fact", "summary"} =>
         local[d].products = gold.dim_product /\ gold.dim_product = silver[d].products
    /\ pc[d] \in {"fact", "summary"} =>
         local[d].stores = gold.dim_store /\ gold.dim_store = silver[d].stores
    /\ pc[d] = "summary" =>
         /\ local[d].facts = gold.fact_sales
         /\ gold.fact_sales = FactRows(silver[d], gold.dim_customer, gold.dim_product,
                                       gold.dim_store, gold.dim_date)

(* A step of the one active run, whichever it is, leaves Held to show for  *)
(* that run only.                                                          *)
LEMMA HeldStep ==
  ASSUME Shape, Turn, Scheduled, Held, [Next]_vars PROVE Held'
<1>0. /\ pc \in [Date -> Running \cup {"idle", "success", "failed"}]
      /\ IsGold /\ local = [d \in Date |-> local[d]] /\ \A d \in Date : IsRows(local[d])
  BY DEF Shape
<1>1. ASSUME NEW d \in Date, WriteSilver(d) PROVE Held'
  <2>1. d \notin written /\ \A e \in Active : e # d
    BY <1>1 DEF WriteSilver, Scheduled, Turn, Active, Started, Running
  <2>2. \A e \in Date : e # d => silver'[e] = silver[e]
    BY <1>1 DEF WriteSilver, Shape
  <2>3. UNCHANGED <<pc, gold, local, writes>> /\ Active' = Active
    BY <1>1 DEF WriteSilver, Active
  <2>4. QED
    BY <2>1, <2>2, <2>3 DEF Held, Active
<1>2. ASSUME NEW d \in Date, Start(d) PROVE Held'
  <2>1. Active' = {d} /\ pc'[d] = "date"
    BY <1>0, <1>2, NoneActive DEF Start, Active, Running, Scheduled, InOrder
  <2>2. QED
    BY <2>1 DEF Held
<1>3. ASSUME NEW d \in Date, Step(d) PROVE Held'
  <2>1. /\ d \in Active /\ Active = {d} /\ silver' = silver
        /\ pc' = [pc EXCEPT ![d] = pc'[d]] /\ Active' \subseteq {d}
    <3>1. d \in Active /\ silver' = silver
      BY <1>3 DEF Step, BuildDimDate, ReadDimCustomer, WriteDimCustomer, BuildDimProduct,
                  BuildDimStore, BuildFactSales, BuildDailySalesSummary, Active, Running
    <3>2. \E p : pc' = [pc EXCEPT ![d] = p]
      BY <1>3 DEF Step, BuildDimDate, ReadDimCustomer, WriteDimCustomer, BuildDimProduct,
                  BuildDimStore, BuildFactSales, BuildDailySalesSummary, Goto
    <3>3. QED
      BY <1>0, <3>1, <3>2 DEF Turn, Active
  <2>2. CASE BuildDimDate(d)
    <3>1. /\ pc'[d] = "read_customer" /\ local'[d].dates = gold'.dim_date
      BY <1>0, <2>1, <2>2 DEF BuildDimDate, Goto, IsGold, IsRows
    <3>2. QED
      BY <2>1, <3>1 DEF Held
  <2>3. CASE ReadDimCustomer(d)
    <3>1. /\ pc[d] = "read_customer" /\ pc'[d] = "write_customer"
          /\ gold' = gold /\ writes' = writes
          /\ local'[d].dates = local[d].dates
          /\ local'[d].customers
               = BuildDimCustomer(gold.dim_customer, silver[d].customers, d, writes)
      BY <1>0, <2>1, <2>3 DEF ReadDimCustomer, Goto, IsRows
    <3>2. QED
      BY <2>1, <3>1 DEF Held
  <2>4. CASE WriteDimCustomer(d)
    <3>1. /\ pc[d] = "write_customer" /\ pc'[d] = "product" /\ local' = local
          /\ gold'.dim_date = gold.dim_date /\ gold'.dim_customer = local[d].customers
      BY <1>0, <2>1, <2>4 DEF WriteDimCustomer, Goto, IsGold
    <3>2. QED
      BY <2>1, <3>1 DEF Held
  <2>5. CASE BuildDimProduct(d)
    <3>1. /\ pc[d] = "product" /\ pc'[d] = "store"
          /\ local'[d].dates = local[d].dates /\ local'[d].customers = local[d].customers
          /\ local'[d].products = silver[d].products
          /\ gold'.dim_date = gold.dim_date /\ gold'.dim_customer = gold.dim_customer
          /\ gold'.dim_product = silver[d].products
      BY <1>0, <2>1, <2>5 DEF BuildDimProduct, Goto, IsGold, IsRows
    <3>2. QED
      BY <2>1, <3>1 DEF Held
  <2>6. CASE BuildDimStore(d)
    <3>1. /\ pc[d] = "store" /\ pc'[d] = "fact"
          /\ local'[d].dates = local[d].dates /\ local'[d].customers = local[d].customers
          /\ local'[d].products = local[d].products /\ local'[d].stores = silver[d].stores
          /\ gold'.dim_date = gold.dim_date /\ gold'.dim_customer = gold.dim_customer
          /\ gold'.dim_product = gold.dim_product /\ gold'.dim_store = silver[d].stores
      BY <1>0, <2>1, <2>6 DEF BuildDimStore, Goto, IsGold, IsRows
    <3>2. QED
      BY <2>1, <3>1 DEF Held
  <2>7. CASE BuildFactSales(d)
    <3> DEFINE rows == FactRows(silver[d], local[d].customers, local[d].products,
                                local[d].stores, local[d].dates)
    <3> HIDE DEF rows
    <3>1. /\ pc[d] = "fact" /\ pc'[d] = "summary"
          /\ local'[d].dates = local[d].dates
          /\ local'[d].products = local[d].products /\ local'[d].stores = local[d].stores
          /\ local'[d].facts = rows
          /\ gold'.dim_date = gold.dim_date /\ gold'.dim_customer = gold.dim_customer
          /\ gold'.dim_product = gold.dim_product /\ gold'.dim_store = gold.dim_store
          /\ gold'.fact_sales = rows
      BY <1>0, <2>1, <2>7 DEF BuildFactSales, Goto, IsGold, IsRows, rows
    <3>2. rows = FactRows(silver[d], gold.dim_customer, gold.dim_product, gold.dim_store,
                          gold.dim_date)
      BY <2>1, <3>1 DEF Held, rows
    <3>3. QED
      BY <2>1, <3>1, <3>2 DEF Held
  <2>8. CASE BuildDailySalesSummary(d)
    <3>1. pc'[d] = "success" /\ d \notin Active'
      BY <1>0, <2>1, <2>8 DEF BuildDailySalesSummary, Goto, Active, Running
    <3>2. QED
      BY <2>1, <3>1 DEF Held
  <2>9. QED
    BY <1>3, <2>2, <2>3, <2>4, <2>5, <2>6, <2>7, <2>8 DEF Step
<1>4. ASSUME NEW d \in Date, Crash(d) PROVE Held'
  <2>1. d \in Active /\ Active = {d} /\ (pc'[d] = "date" \/ pc'[d] = "failed")
        /\ \A e \in Date : e # d => pc'[e] = pc[e]
    BY <1>0, <1>4 DEF Crash, Goto, Active, Turn
  <2>2. \A e \in Active' : pc'[e] = "date"
    BY <2>1 DEF Active, Running
  <2>3. QED
    BY <2>2 DEF Held
<1>5. CASE UNCHANGED vars
  BY <1>5 DEF vars, Held, Active
<1>6. QED
  BY <1>1, <1>2, <1>3, <1>4, <1>5 DEF Next
----------------------------------------------------------------------------
(* Every step is one of the atomic build's, or leaves its state alone.     *)
LEMMA StepMaps ==
  ASSUME Shape, Turn, Scheduled, Budget, Held, [Next]_vars
  PROVE  [D!Next]_D!vars
<1>0. /\ pc \in [Date -> Running \cup {"idle", "success", "failed"}] /\ IsGold
      /\ silver \in [Date -> Content]
  BY DEF Shape
<1>1. ASSUME NEW d \in Date, WriteSilver(d) PROVE [D!Next]_D!vars
  <2>1. PICK content \in SilverContent : silver' = [silver EXCEPT ![d] = content]
    BY <1>1 DEF WriteSilver
  <2>2. content.customers \in Partition
    BY ContentAssumption DEF Content
  <2>3. [e \in Date |-> silver'[e].customers]
          = [[e \in Date |-> silver[e].customers] EXCEPT ![d] = content.customers]
    BY <1>0, <2>1
  <2>4. d \notin written /\ written' = written \cup {d}
        /\ UNCHANGED <<gold, lastBatch, writes>>
    BY <1>1 DEF WriteSilver, Scheduled
  <2>5. D!WriteOnce(d, content.customers)
    BY <2>3, <2>4 DEF D!WriteOnce, D!WriteSilver
  <2>6. content.customers \in D!Partition
    BY <2>2, SamePartition
  <2>7. QED
    BY <2>5, <2>6 DEF D!Next
<1>2. ASSUME NEW d \in Date, WriteDimCustomer(d) PROVE [D!Next]_D!vars
  <2>1. d \in Active
    BY <1>2 DEF WriteDimCustomer, Active, Running
  <2>2. d \in written /\ d >= lastBatch
    BY <2>1, DateAssumption DEF Turn, Active, Started, Running
  <2>3. gold'.dim_customer = local[d].customers /\ pc[d] = "write_customer"
        /\ lastBatch' = d /\ writes' = writes + 1 /\ UNCHANGED <<silver, written>>
    BY <1>0, <1>2 DEF WriteDimCustomer, IsGold
  <2>4. gold'.dim_customer
          = D!BuildDimCustomer(gold.dim_customer, silver[d].customers, d, writes)
    BY <2>1, <2>3, SameBuild DEF Held
  <2>5. [e \in Date |-> silver[e].customers][d] = silver[d].customers
    OBVIOUS
  <2>6. D!Build(d)
    BY <1>2, <2>3, <2>4, <2>5, WriteWithinBudget DEF D!Build
  <2>7. QED
    BY <2>2, <2>6 DEF D!Next, D!BuildInOrder
<1>3. ASSUME silver' = silver, written' = written, gold'.dim_customer = gold.dim_customer,
             lastBatch' = lastBatch, writes' = writes
      PROVE  [D!Next]_D!vars
  BY <1>3 DEF D!vars
<1>4. ASSUME NEW d \in Date, Start(d) \/ Crash(d) PROVE [D!Next]_D!vars
  BY <1>3, <1>4 DEF Start, Crash
<1>5. ASSUME NEW d \in Date, Step(d), ~WriteDimCustomer(d) PROVE [D!Next]_D!vars
  <2>1. UNCHANGED <<silver, written, lastBatch, writes>>
    BY <1>5 DEF Step, BuildDimDate, ReadDimCustomer, BuildDimProduct,
                BuildDimStore, BuildFactSales, BuildDailySalesSummary
  <2>2. gold'.dim_customer = gold.dim_customer
    BY <1>0, <1>5 DEF Step, BuildDimDate, ReadDimCustomer, BuildDimProduct,
                BuildDimStore, BuildFactSales, BuildDailySalesSummary, IsGold
  <2>3. QED
    BY <1>3, <2>1, <2>2
<1>6. CASE UNCHANGED vars
  BY <1>3, <1>6 DEF vars
<1>7. QED
  BY <1>1, <1>2, <1>4, <1>5, <1>6 DEF Next
----------------------------------------------------------------------------
(* The keys of the versions of the customer of f in effect on the date of  *)
(* its order.                                                              *)
Keys(table, f) ==
  {r.sk : r \in PointInTime(table, OrderCustomer[f.order], OrderDate[f.order])}

FactShape ==
  /\ factBatch \in Nat /\ lastBatch \in Nat /\ factBatch <= lastBatch
  /\ \A f \in gold.fact_sales : f.line \in Line /\ f.order = LineOrder[f.line]

LEMMA DimensionRows ==
  D!InOrderInv => gold.dim_customer \subseteq D!Row /\ lastBatch \in Nat
BY DEF D!InOrderInv, D!TypeOK

LEMMA ScheduleIsInOrder == D!IInv => D!InOrderInv
BY DEF D!IInv

(* The rows fact_sales is built of, one for each order line.               *)
LEMMA FactRowsGrain ==
  ASSUME D!InOrderInv, Shape, NEW d \in Date, NEW products, NEW stores, NEW dates
  PROVE  LET rows == FactRows(silver[d], gold.dim_customer, products, stores, dates) IN
         /\ \A f \in rows : /\ f.line \in Line /\ f.order = LineOrder[f.line]
                            /\ Keys(gold.dim_customer, f) = {f.customer_sk} \ {Null}
         /\ \A f, g \in rows : f.line = g.line => f = g
<1> DEFINE rows == FactRows(silver[d], gold.dim_customer, products, stores, dates)
           T == gold.dim_customer
           Found(o) == PointInTime(T, OrderCustomer[o], OrderDate[o])
           FactOf(l, v) ==
             [line |-> l, order |-> LineOrder[l], status |-> silver[d].orders[LineOrder[l]],
              customer_sk |-> v.sk, version |-> v.build,
              product_sk |-> OrNull(LineProduct[l], products),
              store_sk |-> OrNull(OrderStore[LineOrder[l]], stores),
              date_key |-> OrNull(OrderDate[LineOrder[l]], dates)]
<1>1. ASSUME NEW f \in rows
      PROVE  \E l \in Line : \E v \in Versions(T, LineOrder[l]) : f = FactOf(l, v)
  <2>1. silver[d].lines \subseteq Line
    BY DEF Shape, Content
  <2>2. QED
    BY <1>1, <2>1 DEF FactRows
<1>2. ASSUME NEW o \in Order, NEW r \in Found(o), NEW s \in Found(o) PROVE r = s
  <2>1. OrderDate[o] \in Nat
    BY ReferenceAssumption
  <2>2. Found(o) = D!PointInTime(T, OrderCustomer[o], OrderDate[o])
    BY SamePointInTime
  <2> HIDE DEF Found
  <2>3. r \in D!PointInTime(T, OrderCustomer[o], OrderDate[o])
        /\ s \in D!PointInTime(T, OrderCustomer[o], OrderDate[o])
    BY <1>2, <2>2
  <2>4. QED
    BY <2>1, <2>3, D!OneInEffect, DateAssumption, NullAssumption, BuildsNumber
<1>3. ASSUME NEW o \in Order, NEW v \in Versions(T, o), NEW w \in Versions(T, o) PROVE v = w
  BY <1>2, <1>3 DEF Versions
<1>4. ASSUME NEW o \in Order, NEW v \in Versions(T, o)
      PROVE  {r.sk : r \in Found(o)} = {v.sk} \ {Null}
  <2>1. CASE Found(o) = {}
    BY <1>4, <2>1 DEF Versions
  <2>2. ASSUME NEW r \in Found(o) PROVE {x.sk : x \in Found(o)} = {v.sk} \ {Null}
    <3>1. Found(o) = {r}
      BY <1>2, <2>2
    <3>2. v.sk = r.sk
      BY <1>4, <3>1 DEF Versions
    <3>3. r \in D!Row
      BY <2>2, DimensionRows DEF PointInTime
    <3>4. r.sk # Null
      BY <3>3, KeyAssumption DEF D!Row
    <3>5. QED
      BY <3>1, <3>2, <3>4
  <2>3. QED
    BY <2>1, <2>2
<1>5. ASSUME NEW f \in rows
      PROVE  f.line \in Line /\ f.order = LineOrder[f.line]
             /\ Keys(T, f) = {f.customer_sk} \ {Null}
  <2>0. PICK l \in Line : \E v \in Versions(T, LineOrder[l]) : f = FactOf(l, v)
    BY <1>1, <1>5
  <2>1. PICK v \in Versions(T, LineOrder[l]) : f = FactOf(l, v)
    BY <2>0
  <2>2. f.line = l /\ f.order = LineOrder[l] /\ f.customer_sk = v.sk
    BY <2>1
  <2>3. LineOrder[l] \in Order
    BY ReferenceAssumption
  <2>4. {r.sk : r \in Found(LineOrder[l])} = {v.sk} \ {Null}
    BY <2>1, <2>3, <1>4
  <2>5. QED
    BY <2>2, <2>4 DEF Keys
<1>6. ASSUME NEW f \in rows, NEW g \in rows, f.line = g.line PROVE f = g
  <2>l. PICK l \in Line : \E v \in Versions(T, LineOrder[l]) : f = FactOf(l, v)
    BY <1>1, <1>6
  <2>1. PICK v \in Versions(T, LineOrder[l]) : f = FactOf(l, v)
    BY <2>l
  <2>m. PICK m \in Line : \E w \in Versions(T, LineOrder[m]) : g = FactOf(m, w)
    BY <1>1, <1>6
  <2>2. PICK w \in Versions(T, LineOrder[m]) : g = FactOf(m, w)
    BY <2>m
  <2>3. l = m /\ LineOrder[l] \in Order
    BY <1>6, <2>1, <2>2, ReferenceAssumption
  <2>4. v = w
    BY <1>3, <2>1, <2>2, <2>3
  <2>5. QED
    BY <2>1, <2>2, <2>3, <2>4
<1> HIDE DEF rows
<1>7. /\ \A f \in rows : /\ f.line \in Line /\ f.order = LineOrder[f.line]
                         /\ Keys(T, f) = {f.customer_sk} \ {Null}
      /\ \A f, g \in rows : f.line = g.line => f = g
  BY <1>5, <1>6
<1>8. QED
  BY <1>7 DEF rows

(* The merge of a batch leaves the past as fact_sales has joined it.       *)
LEMMA WriteKeepsKeys ==
  ASSUME Shape, Turn, Scheduled, Budget, Held, D!IInv, FactShape,
         NEW d \in Date, WriteDimCustomer(d),
         NEW f \in gold.fact_sales, OrderDate[f.order] <= factBatch
  PROVE  Keys(gold'.dim_customer, f) = Keys(gold.dim_customer, f)
<1> DEFINE c == OrderCustomer[f.order]
           day == OrderDate[f.order]
<1>1. day \in Nat /\ day <= lastBatch
  BY ReferenceAssumption DEF FactShape
<1>2. D!BuildInOrder(d)
  <2>1. d \in Active
    BY DEF WriteDimCustomer, Active, Running
  <2>2. d \in written /\ d >= lastBatch
    BY <2>1, DateAssumption DEF Turn, Active, Started, Running
  <2>3. gold'.dim_customer = local[d].customers /\ pc[d] = "write_customer"
        /\ lastBatch' = d /\ writes' = writes + 1 /\ UNCHANGED <<silver, written>>
    BY DEF WriteDimCustomer, Shape, IsGold
  <2>4. gold'.dim_customer
          = D!BuildDimCustomer(gold.dim_customer, silver[d].customers, d, writes)
    BY <2>1, <2>3, SameBuild DEF Held
  <2>5. [e \in Date |-> silver[e].customers][d] = silver[d].customers
    OBVIOUS
  <2>6. QED
    BY <2>2, <2>3, <2>4, <2>5, WriteWithinBudget DEF D!BuildInOrder, D!Build
<1> HIDE DEF c, day
<1>3. {r.sk : r \in D!PointInTime(gold'.dim_customer, c, day)}
        = {r.sk : r \in D!PointInTime(gold.dim_customer, c, day)}
  BY <1>1, <1>2, D!BuildKeepsPast, DateAssumption, NullAssumption, BuildsNumber
<1>4. {r.sk : r \in PointInTime(gold'.dim_customer, c, day)}
        = {r.sk : r \in PointInTime(gold.dim_customer, c, day)}
  BY <1>3, SamePointInTime
<1>5. QED
  BY <1>4 DEF Keys, c, day

Facts == FactShape /\ FactGrain /\ FactAgreesWithDimension

LEMMA AgreesIsKeys ==
  FactAgreesWithDimension <=>
    \A f \in gold.fact_sales : OrderDate[f.order] <= factBatch =>
      Keys(gold.dim_customer, f) = {f.customer_sk} \ {Null}
BY DEF FactAgreesWithDimension, Keys

(* The facts are written where the dimension is not, and the other way     *)
(* round; the batch of the facts is never after the dimension's.           *)
LEMMA FactWrite ==
  ASSUME Shape, Turn, Scheduled, Budget, Held, D!IInv, Facts, NEW d \in Date, BuildFactSales(d)
  PROVE  /\ gold'.fact_sales = FactRows(silver[d], gold.dim_customer, local[d].products,
                                        local[d].stores, local[d].dates)
         /\ gold'.dim_customer = gold.dim_customer
         /\ lastBatch = d /\ factBatch' = d /\ factBatch <= d /\ UNCHANGED lastBatch
<1>1. d \in Active /\ pc[d] = "fact"
  BY DEF BuildFactSales, Active, Running
<1>2. local[d].customers = gold.dim_customer /\ lastBatch = d /\ factBatch <= lastBatch
  BY <1>1 DEF Held, Turn, Facts, FactShape
<1> DEFINE rows == FactRows(silver[d], local[d].customers, local[d].products,
                            local[d].stores, local[d].dates)
<1> HIDE DEF rows
<1>3. gold' = [gold EXCEPT !.fact_sales = rows] /\ factBatch' = d /\ lastBatch' = lastBatch
  BY DEF BuildFactSales, rows
<1>4. gold'.fact_sales = rows /\ gold'.dim_customer = gold.dim_customer
  BY <1>3 DEF Shape, IsGold
<1>5. QED
  BY <1>2, <1>3, <1>4 DEF rows

LEMMA FactsKept ==
  ASSUME Facts, gold'.fact_sales = gold.fact_sales, factBatch' = factBatch,
         lastBatch' \in Nat, lastBatch' >= lastBatch,
         \A f \in gold.fact_sales : OrderDate[f.order] <= factBatch =>
           Keys(gold'.dim_customer, f) = Keys(gold.dim_customer, f)
  PROVE  Facts'
<1>1. FactShape' /\ FactGrain'
  BY DEF Facts, FactShape, FactGrain
<1>2. \A f \in gold'.fact_sales : OrderDate[f.order] <= factBatch' =>
        Keys(gold'.dim_customer, f) = {f.customer_sk} \ {Null}
  BY AgreesIsKeys DEF Facts
<1>3. FactAgreesWithDimension'
  BY <1>2 DEF FactAgreesWithDimension, Keys
<1>4. QED
  BY <1>1, <1>3 DEF Facts

LEMMA FactsStep ==
  ASSUME Shape, Turn, Scheduled, Budget, Held, D!IInv, Facts, [Next]_vars
  PROVE  Facts'
<1>0. IsGold /\ lastBatch \in Nat /\ lastBatch >= lastBatch
  BY DEF Shape, Facts, FactShape
<1>1. ASSUME gold'.fact_sales = gold.fact_sales, gold'.dim_customer = gold.dim_customer,
             UNCHANGED <<factBatch, lastBatch>>
      PROVE  Facts'
  BY <1>0, <1>1, FactsKept
<1>2. ASSUME NEW d \in Date, WriteSilver(d) \/ Start(d) \/ Crash(d) PROVE Facts'
  BY <1>1, <1>2 DEF WriteSilver, Start, Crash
<1>3. ASSUME NEW d \in Date, WriteDimCustomer(d) PROVE Facts'
  <2>1. gold'.fact_sales = gold.fact_sales /\ factBatch' = factBatch /\ lastBatch' = d
    BY <1>0, <1>3 DEF WriteDimCustomer, IsGold
  <2>2. d \in Active
    BY <1>3 DEF WriteDimCustomer, Active, Running
  <2>3. d \in Nat /\ d >= lastBatch
    BY <2>2, DateAssumption DEF Turn, Active, Started, Running
  <2>4. \A f \in gold.fact_sales : OrderDate[f.order] <= factBatch =>
          Keys(gold'.dim_customer, f) = Keys(gold.dim_customer, f)
    BY <1>3, WriteKeepsKeys DEF Facts
  <2>5. QED
    BY <2>1, <2>3, <2>4, FactsKept
<1>4. ASSUME NEW d \in Date, BuildFactSales(d) PROVE Facts'
  <2> DEFINE rows == gold'.fact_sales
  <2>1. /\ rows = FactRows(silver[d], gold.dim_customer, local[d].products,
                           local[d].stores, local[d].dates)
        /\ gold'.dim_customer = gold.dim_customer
        /\ lastBatch = d /\ factBatch' = d /\ lastBatch' = lastBatch
    BY <1>4, FactWrite
  <2> HIDE DEF rows
  <2>2. /\ \A f \in rows : /\ f.line \in Line /\ f.order = LineOrder[f.line]
                           /\ Keys(gold.dim_customer, f) = {f.customer_sk} \ {Null}
        /\ \A f, g \in rows : f.line = g.line => f = g
    BY <2>1, FactRowsGrain, ScheduleIsInOrder
  <2>3. FactShape' /\ FactGrain'
    BY <1>0, <2>1, <2>2 DEF FactShape, FactGrain, rows
  <2>4. FactAgreesWithDimension'
    <3>1. \A f \in rows : Keys(gold'.dim_customer, f) = {f.customer_sk} \ {Null}
      BY <2>1, <2>2
    <3>2. QED
      BY <3>1 DEF FactAgreesWithDimension, Keys, rows
  <2>5. QED
    BY <2>3, <2>4 DEF Facts
<1>5. ASSUME NEW d \in Date, Step(d), ~WriteDimCustomer(d), ~BuildFactSales(d) PROVE Facts'
  <2>1. /\ gold'.fact_sales = gold.fact_sales /\ gold'.dim_customer = gold.dim_customer
        /\ UNCHANGED <<factBatch, lastBatch>>
    BY <1>0, <1>5 DEF Step, BuildDimDate, ReadDimCustomer, BuildDimProduct,
                      BuildDimStore, BuildDailySalesSummary, IsGold
  <2>2. QED
    BY <1>1, <2>1
<1>6. CASE UNCHANGED vars
  BY <1>1, <1>6 DEF vars
<1>7. QED
  BY <1>2, <1>3, <1>4, <1>5, <1>6 DEF Next

(* What one step may do to the customer key of a settled order.            *)
PastFactsKept ==
  \A f \in gold.fact_sales, g \in gold'.fact_sales :
    f.line = g.line /\ OrderDate[f.order] <= factBatch => f.customer_sk = g.customer_sk

LEMMA PastFactsStep ==
  ASSUME Shape, Turn, Scheduled, Budget, Held, D!IInv, Facts, [Next]_vars
  PROVE  PastFactsKept
<1> SUFFICES ASSUME NEW f \in gold.fact_sales, NEW g \in gold'.fact_sales,
                    f.line = g.line, OrderDate[f.order] <= factBatch
             PROVE  f.customer_sk = g.customer_sk
  BY DEF PastFactsKept
<1>1. CASE gold'.fact_sales = gold.fact_sales
  BY <1>1 DEF Facts, FactGrain
<1>2. ASSUME NEW d \in Date, BuildFactSales(d) PROVE f.customer_sk = g.customer_sk
  <2> DEFINE rows == gold'.fact_sales
  <2>1. rows = FactRows(silver[d], gold.dim_customer, local[d].products,
                        local[d].stores, local[d].dates)
    BY <1>2, FactWrite
  <2> HIDE DEF rows
  <2>r. \A r \in rows : r.order = LineOrder[r.line]
                       /\ Keys(gold.dim_customer, r) = {r.customer_sk} \ {Null}
    BY <2>1, FactRowsGrain, ScheduleIsInOrder
  <2>2. g.order = LineOrder[g.line] /\ Keys(gold.dim_customer, g) = {g.customer_sk} \ {Null}
    BY <2>r DEF rows
  <2>3. f.order = LineOrder[f.line] /\ Keys(gold.dim_customer, f) = {f.customer_sk} \ {Null}
    BY AgreesIsKeys DEF Facts, FactShape
  <2>4. Keys(gold.dim_customer, f) = Keys(gold.dim_customer, g)
    BY <2>2, <2>3 DEF Keys
  <2>5. {f.customer_sk} \ {Null} = {g.customer_sk} \ {Null}
    BY <2>2, <2>3, <2>4
  <2>6. \A a, b : {a} \ {Null} = {b} \ {Null} => a = b
    OBVIOUS
  <2>7. QED
    BY <2>5, <2>6
<1>3. ASSUME NEW d \in Date, WriteSilver(d) \/ Start(d) \/ Crash(d) PROVE gold' = gold
  BY <1>3 DEF WriteSilver, Start, Crash
<1>4. ASSUME NEW d \in Date, Step(d), ~BuildFactSales(d) PROVE gold'.fact_sales = gold.fact_sales
  BY <1>4 DEF Step, BuildDimDate, ReadDimCustomer, WriteDimCustomer, BuildDimProduct,
              BuildDimStore, BuildDailySalesSummary, IsGold, Shape
<1>5. QED
  BY <1>1, <1>2, <1>3, <1>4 DEF Next, vars

(* The run that succeeds has put every table from what its partitions and  *)
(* the tables it holds say, and nothing is put until the next run starts.  *)
Consistent(d) ==
  /\ gold.dim_product = silver[d].products
  /\ gold.dim_store = silver[d].stores
  /\ gold.fact_sales = FactRows(silver[d], gold.dim_customer, gold.dim_product,
                                gold.dim_store, gold.dim_date)
  /\ gold.daily_sales_summary = SummaryRows(gold.fact_sales, gold.dim_store)

LEMMA SuccessStep ==
  ASSUME Shape, Turn, Scheduled, Held, SuccessIsConsistent, [Next]_vars
  PROVE  SuccessIsConsistent'
<1>0. pc \in [Date -> Running \cup {"idle", "success", "failed"}] /\ IsGold /\ Date \subseteq Nat
  BY DateAssumption DEF Shape
<1>1. SuccessIsConsistent <=> \A e \in Date : Settled(e) => Consistent(e)
  BY DEF SuccessIsConsistent, Consistent
<1>2. SUFFICES ASSUME NEW e \in Date, Settled(e)' PROVE Consistent(e)'
  BY DEF SuccessIsConsistent, Consistent
<1>3. ASSUME NEW d \in Date, WriteSilver(d) PROVE Consistent(e)'
  <2>1. Settled(e) /\ e \in Started
    BY <1>2, <1>3 DEF WriteSilver, Settled, Active, Started
  <2>2. e # d
    BY <1>3, <2>1 DEF WriteSilver, Scheduled, Turn
  <2>3. silver'[e] = silver[e] /\ gold' = gold
    BY <1>3, <2>2 DEF WriteSilver, Shape
  <2>4. QED
    BY <1>1, <2>1, <2>3 DEF Consistent
<1>4. ASSUME NEW d \in Date, Start(d) PROVE FALSE
  <2>1. d \in Active'
    BY <1>0, <1>4 DEF Start, Active, Running
  <2>2. QED
    BY <1>2, <2>1 DEF Settled
<1>5. ASSUME NEW d \in Date, NEW p, d \in Active, pc' = [pc EXCEPT ![d] = p], p # "idle"
      PROVE  p = "success" /\ e = d
  <2>1. d \in Started' /\ \A x \in Started : x <= d
    BY <1>0, <1>5 DEF Started, Active, Turn
  <2>2. e \in Started
    BY <1>0, <1>2, <1>5 DEF Settled, Started, Active, Running
  <2>3. d <= e /\ e <= d
    BY <1>2, <2>1, <2>2 DEF Settled
  <2>4. d = e
    BY <1>0, <2>3
  <2>5. QED
    BY <1>0, <1>2, <1>5, <2>4 DEF Settled
<1>6. ASSUME NEW d \in Date, Crash(d) PROVE FALSE
  <2>1. d \in Active
    BY <1>6 DEF Crash, Active
  <2>2. PICK p \in {"date", "failed"} : pc' = [pc EXCEPT ![d] = p]
    BY <1>6 DEF Crash, Goto
  <2>3. QED
    BY <1>5, <2>1, <2>2
<1>7. ASSUME NEW d \in Date, Step(d), ~BuildDailySalesSummary(d) PROVE FALSE
  <2>1. d \in Active
    BY <1>7 DEF Step, BuildDimDate, ReadDimCustomer, WriteDimCustomer, BuildDimProduct,
                BuildDimStore, BuildFactSales, Active, Running
  <2>2. PICK p \in Running : pc' = [pc EXCEPT ![d] = p]
    BY <1>7 DEF Step, BuildDimDate, ReadDimCustomer, WriteDimCustomer, BuildDimProduct,
                BuildDimStore, BuildFactSales, Goto, Running
  <2>3. p = "success"
    BY <1>5, <2>1, <2>2 DEF Running
  <2>4. QED
    BY <2>2, <2>3 DEF Running
<1>8. ASSUME NEW d \in Date, BuildDailySalesSummary(d) PROVE Consistent(e)'
  <2>1. d \in Active /\ pc[d] = "summary" /\ pc' = [pc EXCEPT ![d] = "success"]
    BY <1>8 DEF BuildDailySalesSummary, Goto, Active, Running
  <2>2. e = d
    BY <1>5, <2>1
  <2>3. /\ local[d].facts = gold.fact_sales /\ local[d].stores = gold.dim_store
        /\ gold.dim_product = silver[d].products /\ gold.dim_store = silver[d].stores
        /\ gold.fact_sales = FactRows(silver[d], gold.dim_customer, gold.dim_product,
                                      gold.dim_store, gold.dim_date)
    BY <2>1 DEF Held
  <2> DEFINE rows == SummaryRows(local[d].facts, local[d].stores)
  <2> HIDE DEF rows
  <2>4. gold' = [gold EXCEPT !.daily_sales_summary = rows] /\ silver' = silver
    BY <1>8 DEF BuildDailySalesSummary, rows
  <2>5. /\ gold'.dim_product = gold.dim_product /\ gold'.dim_store = gold.dim_store
        /\ gold'.dim_customer = gold.dim_customer /\ gold'.dim_date = gold.dim_date
        /\ gold'.fact_sales = gold.fact_sales /\ gold'.daily_sales_summary = rows
    BY <1>0, <2>4 DEF IsGold
  <2>6. rows = SummaryRows(gold.fact_sales, gold.dim_store)
    BY <2>3 DEF rows
  <2>7. QED
    BY <2>2, <2>3, <2>4, <2>5, <2>6 DEF Consistent
<1>9. CASE UNCHANGED vars
  <2>1. Settled(e) /\ silver' = silver /\ gold' = gold
    BY <1>2, <1>9 DEF vars, Settled, Active, Started
  <2>2. QED
    BY <1>1, <2>1 DEF Consistent
<1>10. QED
  BY <1>3, <1>4, <1>6, <1>7, <1>8, <1>9 DEF Next
----------------------------------------------------------------------------
(* The inductive invariant of the ordinary schedule. Turn and Held are     *)
(* what makes the build, taken apart, the atomic one; D!IInv then holds of *)
(* the stored table, and with it the facts are of the grain they claim.    *)
IInv == Shape /\ Turn /\ Budget /\ Held /\ D!IInv /\ Facts /\ SuccessIsConsistent

LEMMA IInvInit == Init => IInv
<1> SUFFICES ASSUME Init PROVE IInv
  OBVIOUS
<1>1. Active = {} /\ Started = {}
  BY DEF Init, Active, Started, Running
<1>2. Shape /\ Turn /\ Held /\ SuccessIsConsistent
  <2>1. Shape
    BY ShapeInit
  <2>2. Turn
    BY <1>1 DEF Turn, Init
  <2>3. Held
    BY <1>1 DEF Held
  <2>4. \A d \in Date : pc[d] = "idle"
    BY DEF Init
  <2>5. SuccessIsConsistent
    BY <2>4 DEF SuccessIsConsistent, Settled
  <2>6. QED
    BY <2>1, <2>2, <2>3, <2>5
<1>3. Budget
  <2>1. 0 <= 0 * MaxTries
    BY BoundAssumption
  <2>2. QED
    BY <1>1, <2>1 DEF Budget, Init
<1>4. D!IInv
  <2>1. [d \in Date |-> silver[d].customers] = [d \in Date |-> D!EmptyPartition]
    BY DEF Init, NoContent, EmptyPartition, D!EmptyPartition
  <2>2. D!Init
    BY <2>1 DEF Init, EmptyGold, D!Init
  <2>3. QED
    BY <2>2, D!IInvInit, DateAssumption, NullAssumption, BuildsNumber
<1>5. Facts
  BY DEF Init, EmptyGold, Facts, FactShape, FactGrain, FactAgreesWithDimension
<1>6. QED
  BY <1>2, <1>3, <1>4, <1>5 DEF IInv

LEMMA IInvStep == Scheduled /\ IInv /\ [Next]_vars => IInv'
<1> SUFFICES ASSUME Scheduled, IInv, [Next]_vars PROVE IInv'
  OBVIOUS
<1>1. Shape /\ Turn /\ Budget /\ Held /\ D!IInv /\ Facts /\ SuccessIsConsistent
  BY DEF IInv
<1>2. Shape' /\ Turn' /\ Held' /\ SuccessIsConsistent'
  BY <1>1, ShapeStep, TurnStep, HeldStep, SuccessStep DEF Scheduled
<1>3. Budget'
  BY <1>1, BudgetStep
<1>4. [D!Next]_D!vars
  BY <1>1, StepMaps
<1>5. D!IInv'
  BY <1>1, <1>4, D!IInvStep, DateAssumption, NullAssumption, BuildsNumber
<1>6. Facts'
  BY <1>1, FactsStep
<1>7. QED
  BY <1>2, <1>3, <1>5, <1>6 DEF IInv

(* Under the schedule the invariant holds in every reachable state.        *)
THEOREM InductiveInvariant == ASSUME Scheduled PROVE Spec => []IInv
<1>1. Init => IInv
  BY IInvInit
<1>2. IInv /\ [Next]_vars => IInv'
  BY IInvStep
<1>3. QED
  BY <1>1, <1>2, PTL DEF Spec

(* However the build is interrupted and retried, the stored customer       *)
(* dimension is the one the atomic build of each batch makes.              *)
THEOREM DimensionRefinement == ASSUME Scheduled PROVE Spec => ImplementsDimension
<1>1. Init => Dimension!Init
  BY DEF Init, EmptyGold, NoContent, EmptyPartition, Dimension!Init, Dimension!EmptyPartition
<1>2. IInv /\ [Next]_vars => [Dimension!Next]_Dimension!vars
  <2> SUFFICES ASSUME IInv, [Next]_vars PROVE [Dimension!Next]_Dimension!vars
    OBVIOUS
  <2>1. [D!Next]_D!vars
    BY StepMaps DEF IInv
  <2>2. CASE UNCHANGED D!vars
    BY <2>2 DEF D!vars, Dimension!vars
  <2>3. ASSUME NEW d \in Date, NEW incoming \in D!Partition, D!WriteOnce(d, incoming)
        PROVE  Dimension!Next
    <3>1. incoming \in Dimension!Partition
      BY <2>3, SamePartition
    <3>2. Dimension!WriteOnce(d, incoming)
      BY <2>3 DEF D!WriteOnce, D!WriteSilver, Dimension!WriteOnce, Dimension!WriteSilver
    <3>3. QED
      BY <3>1, <3>2 DEF Dimension!Next
  <2>4. ASSUME NEW d \in Date, D!BuildInOrder(d) PROVE Dimension!Next
    <3>1. /\ d \in written /\ d >= lastBatch /\ writes < MaxStarts * MaxTries
          /\ lastBatch' = d /\ writes' = writes + 1 /\ written' = written
          /\ [x \in Date |-> silver'[x].customers] = [x \in Date |-> silver[x].customers]
          /\ gold'.dim_customer
               = D!BuildDimCustomer(gold.dim_customer, silver[d].customers, d, writes)
      BY <2>4 DEF D!BuildInOrder, D!Build
    <3>2. gold'.dim_customer
            = Dimension!BuildDimCustomer(gold.dim_customer, silver[d].customers, d, writes)
      BY <3>1, SameBuild
    <3>3. Dimension!BuildInOrder(d)
      BY <3>1, <3>2 DEF Dimension!BuildInOrder, Dimension!Build
    <3>4. QED
      BY <3>3 DEF Dimension!Next
  <2>5. QED
    BY <2>1, <2>2, <2>3, <2>4 DEF D!Next
<1>3. QED
  BY <1>1, <1>2, InductiveInvariant, PTL DEF Spec, ImplementsDimension, Dimension!Spec

(* The stored facts and the stored dimension agree at every moment, in the *)
(* middle of a run and after one that died.                                *)
THEOREM FactAgreesWithDimensionAlways ==
  ASSUME Scheduled PROVE Spec => []FactAgreesWithDimension
<1>1. IInv => FactAgreesWithDimension
  BY DEF IInv, Facts
<1>2. QED
  BY <1>1, InductiveInvariant, PTL

(* After a success every table is what its Silver partitions say.          *)
THEOREM SuccessIsConsistentAlways ==
  ASSUME Scheduled PROVE Spec => []SuccessIsConsistent
<1>1. IInv => SuccessIsConsistent
  BY DEF IInv
<1>2. QED
  BY <1>1, InductiveInvariant, PTL

(* A rebuild keeps the customer version of every settled order.            *)
THEOREM PastFactsStableAlways == ASSUME Scheduled PROVE Spec => PastFactsStable
<1>1. IInv /\ [Next]_vars => PastFactsKept
  BY PastFactsStep DEF IInv
<1>2. IInv /\ [Next]_vars =>
        [\A f \in gold.fact_sales, g \in gold'.fact_sales :
           f.line = g.line /\ OrderDate[f.order] <= factBatch
             => f.customer_sk = g.customer_sk]_vars
  BY <1>1 DEF PastFactsKept
<1>3. QED
  BY <1>2, InductiveInvariant, PTL DEF Spec, PastFactsStable
----------------------------------------------------------------------------
(* Type correctness rests on the invariant: a key in a fact row is that of *)
(* a row of the dimension.                                                 *)
LEMMA FactRowsType ==
  ASSUME D!IInv, Shape, NEW d \in Date, NEW products, NEW stores, NEW dates
  PROVE  FactRows(silver[d], gold.dim_customer, products, stores, dates) \subseteq FactRow
<1> DEFINE T == gold.dim_customer
<1> SUFFICES ASSUME NEW f \in FactRows(silver[d], T, products, stores, dates)
             PROVE  f \in FactRow
  OBVIOUS
<1>1. silver[d] \in Content
  BY DEF Shape
<1>2. PICK l \in silver[d].lines :
        /\ LineOrder[l] \in DOMAIN silver[d].orders
        /\ \E v \in Versions(T, LineOrder[l]) :
             f = [line |-> l, order |-> LineOrder[l], status |-> silver[d].orders[LineOrder[l]],
                  customer_sk |-> v.sk, version |-> v.build,
                  product_sk |-> OrNull(LineProduct[l], products),
                  store_sk |-> OrNull(OrderStore[LineOrder[l]], stores),
                  date_key |-> OrNull(OrderDate[LineOrder[l]], dates)]
  BY DEF FactRows
<1>3. PICK v \in Versions(T, LineOrder[l]) :
        f = [line |-> l, order |-> LineOrder[l], status |-> silver[d].orders[LineOrder[l]],
             customer_sk |-> v.sk, version |-> v.build,
             product_sk |-> OrNull(LineProduct[l], products),
             store_sk |-> OrNull(OrderStore[LineOrder[l]], stores),
             date_key |-> OrNull(OrderDate[LineOrder[l]], dates)]
  BY <1>2
<1>4. l \in Line /\ LineOrder[l] \in Order
  BY <1>1, <1>2, ReferenceAssumption DEF Content
<1>5. silver[d].orders[LineOrder[l]] \in Status
  <2>1. PICK S \in SUBSET Order : silver[d].orders \in [S -> Status]
    BY <1>1 DEF Content
  <2>2. QED
    BY <1>2, <2>1
<1>6. v.sk \in (Customer \X Date) \cup {Null} /\ v.build \in Nat \cup {Null}
  <2>1. T \subseteq D!Row
    BY DimensionRows, ScheduleIsInOrder
  <2>2. \A r \in T : r.sk \in Customer \X Date /\ r.build \in Nat
    BY <2>1 DEF D!Row
  <2>3. QED
    BY <1>3, <2>2 DEF Versions, PointInTime
<1>7. /\ OrNull(LineProduct[l], products) \in Product \cup {Null}
      /\ OrNull(OrderStore[LineOrder[l]], stores) \in Store \cup {Null}
      /\ OrNull(OrderDate[LineOrder[l]], dates) \in Nat \cup {Null}
  BY <1>4, ReferenceAssumption DEF OrNull
<1>8. QED
  BY <1>3, <1>4, <1>5, <1>6, <1>7 DEF FactRow

(* What TypeOK says of a state beyond IInv.                                *)
Typed ==
  /\ silver \in [Date -> SilverContent \cup {NoContent}]
  /\ gold.fact_sales \subseteq FactRow
  /\ gold.dim_date \in {{}, Calendar}
  /\ lastBatch \in Date \cup {0} /\ factBatch \in Date \cup {0}

LEMMA TypedStep == IInv /\ Scheduled /\ Typed /\ [Next]_vars => Typed'
<1> SUFFICES ASSUME IInv, Scheduled, Typed, [Next]_vars PROVE Typed'
  OBVIOUS
<1>0. Shape /\ Turn /\ Budget /\ Held /\ D!IInv /\ Facts /\ IsGold
  BY DEF IInv, Shape
<1>1. ASSUME NEW d \in Date, WriteSilver(d) PROVE Typed'
  BY <1>1 DEF WriteSilver, Typed
<1>2. ASSUME NEW d \in Date, Start(d) \/ Crash(d) PROVE Typed'
  BY <1>2 DEF Start, Crash, Typed
<1>3. ASSUME NEW d \in Date, BuildFactSales(d) PROVE Typed'
  <2> DEFINE rows == gold'.fact_sales
  <2>1. rows = FactRows(silver[d], gold.dim_customer, local[d].products,
                        local[d].stores, local[d].dates)
    BY <1>0, <1>3, FactWrite
  <2> HIDE DEF rows
  <2>2. rows \subseteq FactRow
    BY <1>0, <2>1, FactRowsType
  <2>3. gold'.dim_date = gold.dim_date /\ silver' = silver /\ lastBatch' = lastBatch
        /\ factBatch' = d
    BY <1>0, <1>3 DEF BuildFactSales, IsGold
  <2>4. QED
    BY <2>2, <2>3 DEF Typed, rows
<1>4. ASSUME NEW d \in Date, Step(d), ~BuildFactSales(d) PROVE Typed'
  <2>1. silver' = silver /\ factBatch' = factBatch /\ lastBatch' \in {lastBatch, d}
    BY <1>4 DEF Step, BuildDimDate, ReadDimCustomer, WriteDimCustomer, BuildDimProduct,
                BuildDimStore, BuildDailySalesSummary
  <2>2. gold'.fact_sales = gold.fact_sales /\ gold'.dim_date \in {gold.dim_date, Calendar}
    BY <1>0, <1>4 DEF Step, BuildDimDate, ReadDimCustomer, WriteDimCustomer, BuildDimProduct,
                BuildDimStore, BuildDailySalesSummary, IsGold
  <2>3. QED
    BY <2>1, <2>2 DEF Typed
<1>5. CASE UNCHANGED vars
  BY <1>5 DEF vars, Typed
<1>6. QED
  BY <1>1, <1>2, <1>3, <1>4, <1>5 DEF Next

(* Every reachable state is well typed.                                    *)
THEOREM TypeCorrect == ASSUME Scheduled PROVE Spec => []TypeOK
<1>1. Init => Typed
  BY DEF Init, EmptyGold, Typed
<1>2. IInv /\ Typed /\ [Next]_vars => Typed'
  BY TypedStep
<1>3. IInv /\ Typed => TypeOK
  <2> SUFFICES ASSUME IInv, Typed PROVE TypeOK
    OBVIOUS
  <2>1. D!Row = Row
    BY DEF D!Row, Row
  <2>2. gold.dim_customer \subseteq Row
    BY <2>1, DimensionRows, ScheduleIsInOrder DEF IInv
  <2>3. QED
    BY <2>2 DEF IInv, Shape, Typed, TypeOK
<1>4. QED
  BY <1>1, <1>2, <1>3, InductiveInvariant, PTL DEF Spec
----------------------------------------------------------------------------
(* The summary. Facts and lines of known orders correspond one to one, so  *)
(* a group of facts has as many members as the lines it stands for.        *)
KnownLines(d) == {l \in silver[d].lines : LineOrder[l] \in DOMAIN silver[d].orders}

LEMMA FactsOfLines ==
  ASSUME D!IInv, Shape, NEW d \in Date, NEW products, NEW stores, NEW dates
  PROVE  LET rows == FactRows(silver[d], gold.dim_customer, products, stores, dates) IN
         /\ \A f \in rows :
              /\ f.line \in KnownLines(d)
              /\ f.order = LineOrder[f.line] /\ f.status = silver[d].orders[f.order]
              /\ f.store_sk = OrNull(OrderStore[f.order], stores)
              /\ f.date_key = OrNull(OrderDate[f.order], dates)
         /\ \A l \in KnownLines(d) : \E f \in rows : f.line = l
         /\ \A f, g \in rows : f.line = g.line => f = g
<1> DEFINE T == gold.dim_customer
           rows == FactRows(silver[d], T, products, stores, dates)
           FactOf(l, v) ==
             [line |-> l, order |-> LineOrder[l], status |-> silver[d].orders[LineOrder[l]],
              customer_sk |-> v.sk, version |-> v.build,
              product_sk |-> OrNull(LineProduct[l], products),
              store_sk |-> OrNull(OrderStore[LineOrder[l]], stores),
              date_key |-> OrNull(OrderDate[LineOrder[l]], dates)]
<1>1. \A f \in rows : \E l \in KnownLines(d) : \E v \in Versions(T, LineOrder[l]) : f = FactOf(l, v)
  BY DEF FactRows, KnownLines
<1>2. \A o : \E v : v \in Versions(T, o)
  BY DEF Versions
<1>3. \A l \in KnownLines(d) : \A v \in Versions(T, LineOrder[l]) : FactOf(l, v) \in rows
  BY DEF FactRows, KnownLines
<1>4. \A f, g \in rows : f.line = g.line => f = g
  BY FactRowsGrain, ScheduleIsInOrder
<1> HIDE DEF rows
<1>5. \A l, v : /\ FactOf(l, v).line = l /\ FactOf(l, v).order = LineOrder[l]
              /\ FactOf(l, v).status = silver[d].orders[LineOrder[l]]
              /\ FactOf(l, v).store_sk = OrNull(OrderStore[LineOrder[l]], stores)
              /\ FactOf(l, v).date_key = OrNull(OrderDate[LineOrder[l]], dates)
  OBVIOUS
<1> HIDE DEF FactOf
<1>6. \A l \in KnownLines(d) : \E f \in rows : f.line = l
  BY <1>2, <1>3, <1>5
<1>7. \A f \in rows :
        /\ f.line \in KnownLines(d)
        /\ f.order = LineOrder[f.line] /\ f.status = silver[d].orders[f.order]
        /\ f.store_sk = OrNull(OrderStore[f.order], stores)
        /\ f.date_key = OrNull(OrderDate[f.order], dates)
  BY <1>1, <1>5
<1>8. QED
  BY <1>4, <1>6, <1>7 DEF rows

LEMMA SummedOnce ==
  ASSUME IInv, Typed, NEW d \in Date, Settled(d)
  PROVE  LET summary == gold.daily_sales_summary IN
         /\ \A l \in BilledLines(d) : \E row \in summary :
              \A other \in summary : l \in LinesIn(other, d) <=> other = row
         /\ \A row \in summary :
              /\ row.summed_rows = Cardinality(LinesIn(row, d))
              /\ row.total_orders = Cardinality({LineOrder[l] : l \in LinesIn(row, d)})
<1> DEFINE stores == silver[d].stores
           dates == gold.dim_date
           facts == gold.fact_sales
           counted == {f \in facts : f.status # "cancelled"}
           KeyOf(f) == <<f.date_key, OrNull(f.store_sk, stores)>>
           Group(k) == {f \in counted : KeyOf(f) = k}
           Lines(k) == {l \in BilledLines(d) : GroupOf(l, d) = k}
           SumRow(k) == [date_key |-> k[1], store_id |-> k[2],
                         total_orders |-> Cardinality({f.order : f \in Group(k)}),
                         summed_rows |-> Cardinality(Group(k))]
<1>1. /\ \A f \in facts :
           /\ f.line \in KnownLines(d)
           /\ f.order = LineOrder[f.line] /\ f.status = silver[d].orders[f.order]
           /\ f.store_sk = OrNull(OrderStore[f.order], stores)
           /\ f.date_key = OrNull(OrderDate[f.order], dates)
      /\ \A l \in KnownLines(d) : \E f \in facts : f.line = l
      /\ \A f, g \in facts : f.line = g.line => f = g
  <2> DEFINE built == FactRows(silver[d], gold.dim_customer, gold.dim_product, stores, dates)
  <2>1. D!IInv /\ Shape
    BY DEF IInv
  <2>2. /\ \A f \in built :
             /\ f.line \in KnownLines(d)
             /\ f.order = LineOrder[f.line] /\ f.status = silver[d].orders[f.order]
             /\ f.store_sk = OrNull(OrderStore[f.order], stores)
             /\ f.date_key = OrNull(OrderDate[f.order], dates)
        /\ \A l \in KnownLines(d) : \E f \in built : f.line = l
        /\ \A f, g \in built : f.line = g.line => f = g
    BY <2>1, FactsOfLines
  <2>3. facts = built
    BY DEF IInv, SuccessIsConsistent
  <2> HIDE DEF facts, built, stores, dates
  <2>4. QED
    BY <2>2, <2>3
<1>2. gold.daily_sales_summary = {SumRow(k) : k \in {KeyOf(f) : f \in counted}}
  <2>1. gold.daily_sales_summary = SummaryRows(facts, stores)
    BY DEF IInv, SuccessIsConsistent
  <2>2. QED
    BY <2>1 DEF SummaryRows
<1>3. /\ IsFiniteSet(silver[d].lines)
      /\ \A o \in DOMAIN silver[d].orders : silver[d].orders[o] \in Status
  <2>1. silver[d] \in Content
    BY DEF IInv, Shape
  <2>2. silver[d] \in SilverContent \/ silver[d].lines = {}
    BY DEF Typed, NoContent
  <2>3. IsFiniteSet(silver[d].lines)
    BY <2>2, ContentAssumption, FS_EmptySet
  <2>4. PICK S \in SUBSET Order : silver[d].orders \in [S -> Status]
    BY <2>1 DEF Content
  <2>5. QED
    BY <2>3, <2>4
<1> HIDE DEF facts, stores, dates
(* A fact is counted where its line is billed, in the group of its line.   *)
<1>4. \A f \in facts : f \in counted <=> f.line \in BilledLines(d)
  BY <1>1, <1>3 DEF BilledLines, KnownLines, Status
<1>5. \A f \in facts : KeyOf(f) = GroupOf(f.line, d)
  <2>1. \A x, S : OrNull(OrNull(x, S), S) = OrNull(x, S)
    BY DEF OrNull
  <2>2. QED
    BY <1>1, <2>1 DEF GroupOf, stores, dates
<1>6. \A l \in BilledLines(d) : \E f \in facts : f.line = l
  BY <1>1 DEF BilledLines, KnownLines
<1> HIDE DEF KeyOf
<1>7. ASSUME NEW k
      PROVE  /\ Cardinality(Group(k)) = Cardinality(Lines(k))
             /\ {f.order : f \in Group(k)} = {LineOrder[l] : l \in Lines(k)}
  <2> DEFINE fact == [l \in Lines(k) |-> CHOOSE f \in facts : f.line = l]
  <2>1. \A l \in Lines(k) : fact[l] \in facts /\ fact[l].line = l
    BY <1>6
  <2> HIDE DEF fact
  <2>2. \A l \in Lines(k) : fact[l] \in Group(k)
    BY <1>4, <1>5, <2>1
  <2>3. \A f \in Group(k) : f.line \in Lines(k) /\ fact[f.line] = f
    <3>1. \A f \in Group(k) : f \in facts /\ f.line \in Lines(k)
      BY <1>4, <1>5
    <3>2. QED
      BY <1>1, <2>1, <3>1
  <2>4. fact \in Bijection(Lines(k), Group(k))
    <3>1. fact \in [Lines(k) -> Group(k)]
      BY <2>2 DEF fact
    <3>2. \A l, m \in Lines(k) : fact[l] = fact[m] => l = m
      BY <2>1
    <3>3. \A f \in Group(k) : \E l \in Lines(k) : fact[l] = f
      BY <2>3
    <3> HIDE DEF Lines, Group
    <3>4. QED
      BY <3>1, <3>2, <3>3 DEF Bijection, Injection, Surjection, IsInjective
  <2>5. IsFiniteSet(Lines(k))
    <3>1. Lines(k) \subseteq silver[d].lines
      BY DEF BilledLines
    <3>2. QED
      BY <1>3, <3>1, FS_Subset
  <2>6. Cardinality(Group(k)) = Cardinality(Lines(k))
    <3> HIDE DEF Lines, Group
    <3>1. ExistsBijection(Lines(k), Group(k))
      BY <2>4 DEF ExistsBijection
    <3>2. QED
      BY <2>5, <3>1, FS_Bijection
  <2>7. \A f \in Group(k) : f.order = LineOrder[f.line]
    BY <1>1
  <2>8. {f.order : f \in Group(k)} = {LineOrder[l] : l \in Lines(k)}
    <3> HIDE DEF Lines, Group
    <3>1. QED
      BY <2>1, <2>2, <2>3, <2>7
  <2>9. QED
    BY <2>6, <2>8
<1>8. ASSUME NEW row \in gold.daily_sales_summary
      PROVE  LET k == <<row.date_key, row.store_id>> IN
             /\ row = SumRow(k) /\ LinesIn(row, d) = Lines(k)
  <2>1. PICK f \in counted : row = SumRow(KeyOf(f))
    BY <1>2
  <2>2. <<row.date_key, row.store_id>> = KeyOf(f)
    BY <2>1 DEF KeyOf
  <2>3. QED
    BY <2>1, <2>2 DEF LinesIn
<1>9. ASSUME NEW row \in gold.daily_sales_summary
      PROVE  /\ row.summed_rows = Cardinality(LinesIn(row, d))
             /\ row.total_orders = Cardinality({LineOrder[l] : l \in LinesIn(row, d)})
  <2> DEFINE k == <<row.date_key, row.store_id>>
  <2>1. row = SumRow(k) /\ LinesIn(row, d) = Lines(k)
    BY <1>8
  <2>2. row.summed_rows = Cardinality(Group(k))
        /\ row.total_orders = Cardinality({f.order : f \in Group(k)})
    BY <2>1
  <2> HIDE DEF k, Group, Lines, SumRow
  <2>3. QED
    BY <1>7, <2>1, <2>2
<1>10. ASSUME NEW l \in BilledLines(d)
       PROVE  \E row \in gold.daily_sales_summary :
                \A other \in gold.daily_sales_summary : l \in LinesIn(other, d) <=> other = row
  <2> DEFINE k == GroupOf(l, d)
  <2>1. PICK f \in counted : KeyOf(f) = k
    BY <1>4, <1>5, <1>6
  <2>2. SumRow(k) \in gold.daily_sales_summary
    BY <1>2, <2>1
  <2>3. k = <<SumRow(k).date_key, SumRow(k).store_id>>
    BY DEF GroupOf
  <2> HIDE DEF SumRow
  <2>4. l \in LinesIn(SumRow(k), d)
    BY <2>3 DEF LinesIn
  <2>5. ASSUME NEW other \in gold.daily_sales_summary, l \in LinesIn(other, d) PROVE other = SumRow(k)
    <3>1. k = <<other.date_key, other.store_id>>
      BY <2>5 DEF LinesIn
    <3>2. QED
      BY <1>8, <3>1
  <2>6. QED
    BY <2>2, <2>4, <2>5
<1>11. QED
  BY <1>9, <1>10

(* After a success the summary has every line of a billable order once, in *)
(* the row of its date and store.                                          *)
THEOREM EachLineSummedOnceAlways ==
  ASSUME Scheduled PROVE Spec => []EachLineSummedOnce
<1>1. Init => Typed
  BY DEF Init, EmptyGold, Typed
<1>2. IInv /\ Typed /\ [Next]_vars => Typed'
  BY TypedStep
<1>3. IInv /\ Typed => EachLineSummedOnce
  BY SummedOnce DEF EachLineSummedOnce
<1>4. QED
  BY <1>1, <1>2, <1>3, InductiveInvariant, PTL DEF Spec
----------------------------------------------------------------------------
(* Without the schedule: batches built in any order, over Silver           *)
(* partitions that change, but one run at a time. The versions overlap     *)
(* then and the keys repeat, but no version is lost.                       *)
LEMMA BuildKeepsVersions ==
  ASSUME NEW T \in SUBSET Row, NEW inc \in Partition, NEW d \in Date, NEW n \in Nat, NEW r \in T
  PROVE  \E s \in BuildDimCustomer(T, inc, d, n) :
           r.sk = s.sk /\ r.attr = s.attr /\ r.build = s.build
<1>1. CASE DOMAIN inc = {}
  BY <1>1 DEF BuildDimCustomer
<1>2. CASE DOMAIN inc # {}
  <2>1. BuildDimCustomer(T, inc, d, n) = Merge(T, inc, d, n)
    BY <1>2 DEF BuildDimCustomer
  <2>2. CASE ~r.cur \/ r.id \notin ChangedIds(T, inc)
    <3>1. r \in Merge(T, inc, d, n)
      BY <2>2 DEF Merge, Historical, UntouchedCurrent, Current
    <3>2. QED
      BY <2>1, <3>1
  <2>3. CASE r.cur /\ r.id \in ChangedIds(T, inc)
    <3>1. Expire(r, d) \in Merge(T, inc, d, n)
      BY <2>3 DEF Merge, Expired, Current
    <3>2. /\ Expire(r, d).sk = r.sk /\ Expire(r, d).attr = r.attr
          /\ Expire(r, d).build = r.build
      BY DEF Expire, Row
    <3>3. QED
      BY <2>1, <3>1, <3>2
  <2>4. QED
    BY <2>2, <2>3
<1>3. QED
  BY <1>1, <1>2

LEMMA BuildType ==
  ASSUME NEW T \in SUBSET Row, NEW inc \in Partition, NEW d \in Date, NEW n \in Nat
  PROVE  BuildDimCustomer(T, inc, d, n) \subseteq Row
<1>1. T \in SUBSET D!Row /\ inc \in D!Partition
  BY SamePartition DEF D!Row, Row
<1>2. D!BuildDimCustomer(T, inc, d, n) = D!Merge(T, inc, d, n)
  BY <1>1, D!BuildIsMerge, DateAssumption, NullAssumption, BuildsNumber
<1>3. D!Merge(T, inc, d, n) \in SUBSET D!Row
  BY <1>1, D!MergeType, DateAssumption, NullAssumption, BuildsNumber
<1>4. QED
  BY <1>2, <1>3, SameBuild DEF D!Row, Row

(* What a run is about to put is a merge of the table that is stored, with *)
(* the partition as it was when the run read it.                           *)
Merging(d) ==
  pc[d] = "write_customer" =>
    \E inc \in Partition :
      local[d].customers = BuildDimCustomer(gold.dim_customer, inc, d, writes)
TurnsInv ==
  /\ Shape /\ gold.dim_customer \in SUBSET Row
  /\ \A d, e \in Active : d = e
  /\ \A d \in Active : Merging(d)

LEMMA WriteOfTurn ==
  ASSUME TurnsInv, NEW d \in Date, WriteDimCustomer(d)
  PROVE  \E inc \in Partition :
           gold'.dim_customer = BuildDimCustomer(gold.dim_customer, inc, d, writes)
<1>1. d \in Active /\ pc[d] = "write_customer"
  BY DEF WriteDimCustomer, Active, Running
<1>2. gold'.dim_customer = local[d].customers
  BY DEF WriteDimCustomer, TurnsInv, Shape, IsGold
<1>3. QED
  BY <1>1, <1>2 DEF TurnsInv, Merging

LEMMA TurnsStep == InTurns /\ TurnsInv /\ [Next]_vars => TurnsInv'
<1> SUFFICES ASSUME InTurns, TurnsInv, [Next]_vars PROVE TurnsInv'
  OBVIOUS
<1>0. /\ Shape /\ IsGold /\ pc \in [Date -> Running \cup {"idle", "success", "failed"}]
      /\ \A d \in Date : IsRows(local[d])
      /\ local = [d \in Date |-> local[d]] /\ silver \in [Date -> Content] /\ writes \in Nat
  BY DEF TurnsInv, Shape
<1>1. Shape'
  BY <1>0, ShapeStep
<1>2. ASSUME UNCHANGED <<gold, pc, local, writes>> PROVE TurnsInv'
  BY <1>1, <1>2 DEF TurnsInv, Active, Merging
<1>3. ASSUME NEW d \in Date, WriteSilver(d) PROVE TurnsInv'
  BY <1>2, <1>3 DEF WriteSilver
<1>4. ASSUME NEW d \in Date, Start(d) PROVE TurnsInv'
  <2>1. Active = {}
    <3>1. CASE Active = {}
      BY <3>1
    <3>2. ASSUME NEW e \in Active PROVE FALSE
      <4>1. Active = {e}
        BY DEF TurnsInv
      <4>2. Cardinality(Active) = 1
        BY <4>1, FS_Singleton
      <4>3. QED
        BY <1>4, <4>2 DEF Start, InTurns
    <3>3. QED
      BY <3>1, <3>2
  <2>2. pc' = [pc EXCEPT ![d] = "date"] /\ gold' = gold
    BY <1>4 DEF Start
  <2>3. Active' = {d} /\ pc'[d] = "date"
    BY <1>0, <2>1, <2>2 DEF Active, Running
  <2>4. QED
    BY <1>1, <2>2, <2>3 DEF TurnsInv, Merging
<1>5. ASSUME NEW d \in Date, d \in Active, NEW p, pc' = [pc EXCEPT ![d] = p],
             gold'.dim_customer \in SUBSET Row, p # "write_customer"
      PROVE  TurnsInv'
  <2>1. Active' \subseteq {d} /\ pc'[d] = p
    BY <1>0, <1>5 DEF TurnsInv, Active
  <2>2. QED
    BY <1>1, <1>5, <2>1 DEF TurnsInv, Merging
<1>6. ASSUME NEW d \in Date, Crash(d) PROVE TurnsInv'
  <2>1. d \in Active /\ gold' = gold /\ gold.dim_customer \in SUBSET Row
    BY <1>6 DEF Crash, Active, TurnsInv
  <2>2. PICK p \in {"date", "failed"} : pc' = [pc EXCEPT ![d] = p]
    BY <1>6 DEF Crash, Goto
  <2>3. QED
    BY <1>5, <2>1, <2>2
<1>7. ASSUME NEW d \in Date, ReadDimCustomer(d) PROVE TurnsInv'
  <2>1. d \in Active /\ pc' = [pc EXCEPT ![d] = "write_customer"] /\ gold' = gold
        /\ writes' = writes
    BY <1>7 DEF ReadDimCustomer, Active, Running, Goto
  <2>2. Active' \subseteq {d}
    BY <1>0, <2>1 DEF TurnsInv, Active
  <2>3. local'[d].customers = BuildDimCustomer(gold.dim_customer, silver[d].customers, d, writes)
    BY <1>0, <1>7 DEF ReadDimCustomer, IsRows
  <2>4. silver[d].customers \in Partition
    BY <1>0 DEF Content
  <2>5. Merging(d)'
    BY <2>1, <2>3, <2>4 DEF Merging
  <2>6. QED
    BY <1>1, <2>1, <2>2, <2>5 DEF TurnsInv
<1>8. ASSUME NEW d \in Date, WriteDimCustomer(d) PROVE TurnsInv'
  <2>1. d \in Active /\ pc' = [pc EXCEPT ![d] = "product"]
    BY <1>8 DEF WriteDimCustomer, Active, Running, Goto
  <2>2. gold'.dim_customer \in SUBSET Row
    BY <1>0, <1>8, WriteOfTurn, BuildType DEF TurnsInv
  <2>3. QED
    BY <1>5, <2>1, <2>2
<1>9. ASSUME NEW d \in Date, Step(d), ~ReadDimCustomer(d), ~WriteDimCustomer(d) PROVE TurnsInv'
  <2>1. d \in Active
    BY <1>9 DEF Step, BuildDimDate, BuildDimProduct, BuildDimStore, BuildFactSales,
                BuildDailySalesSummary, Active, Running
  <2>2. PICK p : pc' = [pc EXCEPT ![d] = p] /\ p # "write_customer"
    BY <1>9 DEF Step, BuildDimDate, BuildDimProduct, BuildDimStore, BuildFactSales,
                BuildDailySalesSummary, Goto
  <2>3. gold'.dim_customer = gold.dim_customer
    BY <1>0, <1>9 DEF Step, BuildDimDate, BuildDimProduct, BuildDimStore, BuildFactSales,
                BuildDailySalesSummary, IsGold
  <2>4. QED
    BY <1>5, <2>1, <2>2, <2>3 DEF TurnsInv
<1>10. CASE UNCHANGED vars
  BY <1>2, <1>10 DEF vars
<1>11. QED
  BY <1>3, <1>4, <1>6, <1>7, <1>8, <1>9, <1>10 DEF Next

(* Runs in turns drop no version of a customer and rewrite none, whatever  *)
(* the order of their batches and whatever is rewritten in Silver. Runs    *)
(* that overlap do drop versions (the run gold_build_overlap).             *)
THEOREM VersionsKeptInTurns == ASSUME InTurns PROVE Spec => VersionsKept
<1> DEFINE Kept == \A r \in gold.dim_customer :
                     \E s \in gold'.dim_customer :
                       r.sk = s.sk /\ r.attr = s.attr /\ r.build = s.build
<1>1. Init => TurnsInv
  BY ShapeInit DEF Init, TurnsInv, EmptyGold, Active, Running
<1>2. TurnsInv /\ [Next]_vars => TurnsInv'
  BY TurnsStep
<1>3. TurnsInv /\ [Next]_vars => [Kept]_vars
  <2> SUFFICES ASSUME TurnsInv, [Next]_vars PROVE Kept \/ UNCHANGED vars
    OBVIOUS
  <2>1. ASSUME gold'.dim_customer = gold.dim_customer PROVE Kept
    BY <2>1
  <2>2. ASSUME NEW d \in Date, WriteDimCustomer(d) PROVE Kept
    <3>1. PICK inc \in Partition :
            gold'.dim_customer = BuildDimCustomer(gold.dim_customer, inc, d, writes)
      BY <2>2, WriteOfTurn
    <3>2. gold.dim_customer \in SUBSET Row /\ writes \in Nat
      BY DEF TurnsInv, Shape
    <3>3. QED
      BY <3>1, <3>2, BuildKeepsVersions
  <2>3. ASSUME NEW d \in Date, WriteSilver(d) \/ Start(d) \/ Crash(d)
        PROVE  gold'.dim_customer = gold.dim_customer
    BY <2>3 DEF WriteSilver, Start, Crash
  <2>4. ASSUME NEW d \in Date, Step(d), ~WriteDimCustomer(d)
        PROVE  gold'.dim_customer = gold.dim_customer
    BY <2>4 DEF Step, BuildDimDate, ReadDimCustomer, BuildDimProduct, BuildDimStore,
                BuildFactSales, BuildDailySalesSummary, TurnsInv, Shape, IsGold
  <2>5. QED
    BY <2>1, <2>2, <2>3, <2>4 DEF Next
<1>4. QED
  BY <1>1, <1>2, <1>3, PTL DEF Spec, VersionsKept
----------------------------------------------------------------------------
(* Runs in turns and in the order of the batches, over Silver partitions   *)
(* that may be rewritten, between the steps of a run too. What is written  *)
(* is the merge of the partition the run has read, so the intervals stay   *)
(* disjoint, and the facts are joined to the table that is stored.         *)
Joined ==
  \A d \in Active :
    pc[d] \in {"product", "store", "fact"} => local[d].customers = gold.dim_customer
RerunInv == TurnsInv /\ Turn /\ Joined /\ D!InOrderInv /\ FactGrain

LEMMA JoinedStep ==
  ASSUME RerunInv, InOrder, [Next]_vars PROVE Joined'
<1>0. /\ pc \in [Date -> Running \cup {"idle", "success", "failed"}] /\ IsGold
      /\ \A d \in Date : IsRows(local[d])
      /\ local = [d \in Date |-> local[d]]
      /\ \A d, e \in Active : d = e
  BY DEF RerunInv, TurnsInv, Shape
<1>1. ASSUME UNCHANGED <<gold, pc, local>> PROVE Joined'
  BY <1>1 DEF RerunInv, Joined, Active
<1>2. ASSUME NEW d \in Date, Start(d) PROVE Joined'
  <2>1. Active = {} /\ pc' = [pc EXCEPT ![d] = "date"]
    BY <1>2, NoneActive DEF Start, InOrder, RerunInv
  <2>2. Active' = {d} /\ pc'[d] = "date"
    BY <1>0, <2>1 DEF Active, Running
  <2>3. QED
    BY <2>2 DEF Joined
<1>3. ASSUME NEW d \in Active, NEW p, pc' = [pc EXCEPT ![d] = p],
             p \in {"product", "store", "fact"} => local'[d].customers = gold'.dim_customer
      PROVE  Joined'
  <2>1. Active' \subseteq {d} /\ pc'[d] = p
    BY <1>0, <1>3 DEF Active
  <2>2. QED
    BY <1>3, <2>1 DEF Joined
<1>4. ASSUME NEW d \in Date, Crash(d) PROVE Joined'
  BY <1>3, <1>4 DEF Crash, Goto, Active
<1>5. ASSUME NEW d \in Date, BuildDimDate(d) \/ ReadDimCustomer(d) PROVE Joined'
  BY <1>3, <1>5 DEF BuildDimDate, ReadDimCustomer, Goto, Active, Running
<1>6. ASSUME NEW d \in Date, WriteDimCustomer(d) PROVE Joined'
  <2>1. d \in Active /\ pc' = [pc EXCEPT ![d] = "product"] /\ local' = local
        /\ gold'.dim_customer = local[d].customers
    BY <1>0, <1>6 DEF WriteDimCustomer, Goto, Active, Running, IsGold
  <2>2. QED
    BY <1>3, <2>1
<1>7. ASSUME NEW d \in Date, BuildDimProduct(d) \/ BuildDimStore(d) PROVE Joined'
  <2>1. d \in Active /\ local[d].customers = gold.dim_customer
    BY <1>7 DEF BuildDimProduct, BuildDimStore, Active, Running, RerunInv, Joined
  <2>2. /\ local'[d].customers = local[d].customers
        /\ gold'.dim_customer = gold.dim_customer
    BY <1>0, <1>7 DEF BuildDimProduct, BuildDimStore, IsRows, IsGold
  <2>3. \E p : pc' = [pc EXCEPT ![d] = p]
    BY <1>7 DEF BuildDimProduct, BuildDimStore, Goto
  <2>4. QED
    BY <1>3, <2>1, <2>2, <2>3
<1>8. ASSUME NEW d \in Date, BuildFactSales(d) \/ BuildDailySalesSummary(d) PROVE Joined'
  <2>1. d \in Active /\ \E p \in {"summary", "success"} : pc' = [pc EXCEPT ![d] = p]
    BY <1>8 DEF BuildFactSales, BuildDailySalesSummary, Goto, Active, Running
  <2>2. QED
    BY <1>3, <2>1
<1>9. QED
  BY <1>1, <1>2, <1>4, <1>5, <1>6, <1>7, <1>8 DEF Next, Step, WriteSilver, vars

(* The merge that is put keeps the invariant of builds in order.           *)
LEMMA DimensionStep ==
  ASSUME RerunInv, InOrder, TurnsInv', Turn', [Next]_vars PROVE D!InOrderInv'
<1>0. IsGold /\ gold.dim_customer \in SUBSET Row /\ writes \in Nat /\ silver' \in [Date -> Content]
  BY DEF RerunInv, TurnsInv, Shape
<1>1. D!TypeOK'
  <2>1. [d \in Date |-> silver'[d].customers] \in [Date -> Partition]
    BY <1>0 DEF Content
  <2>2. gold'.dim_customer \subseteq D!Row
    BY DEF TurnsInv, D!Row, Row
  <2>3. written' \subseteq Date /\ writes' \in Nat
    BY DEF TurnsInv, Shape
  <2>4. lastBatch' \in Nat
    BY DateAssumption DEF Turn, Started
  <2>5. QED
    BY <2>1, <2>2, <2>3, <2>4, SamePartition DEF D!TypeOK
<1>2. ASSUME gold'.dim_customer = gold.dim_customer, lastBatch' = lastBatch
      PROVE  D!InOrderInv'
  BY <1>1, <1>2 DEF RerunInv, D!InOrderInv, D!Dated, D!OneVersionAtATime, D!NoGaps, D!Before
<1>3. ASSUME NEW d \in Date, WriteDimCustomer(d) PROVE D!InOrderInv'
  <2>1. PICK inc \in Partition :
          gold'.dim_customer = BuildDimCustomer(gold.dim_customer, inc, d, writes)
    BY <1>3, WriteOfTurn DEF RerunInv
  <2>2. d \in Active /\ lastBatch' = d
    BY <1>3 DEF WriteDimCustomer, Active, Running
  <2>3. d >= lastBatch
    BY <2>2, DateAssumption DEF RerunInv, Turn, Active, Started, Running
  <2>4. inc \in D!Partition /\ gold.dim_customer \in SUBSET D!Row
    BY <1>0, SamePartition DEF D!Row, Row
  <2>5. gold'.dim_customer = D!Merge(gold.dim_customer, inc, d, writes)
    BY <1>0, <2>1, <2>4, SameBuild, D!BuildIsMerge, DateAssumption, NullAssumption, BuildsNumber
  <2>6. D!Merging(d, inc, writes)
    BY <2>2, <2>3, <2>5 DEF D!Merging
  <2>7. D!Dated' /\ D!OneVersionAtATime' /\ D!NoGaps'
    BY <1>0, <2>4, <2>6, D!InOrderDated, D!InOrderDisjoint, D!InOrderNoGaps,
       DateAssumption, NullAssumption, BuildsNumber DEF RerunInv
  <2>8. QED
    BY <1>1, <2>7 DEF D!InOrderInv
<1>4. ASSUME NEW d \in Date, WriteSilver(d) \/ Start(d) \/ Crash(d) PROVE D!InOrderInv'
  BY <1>2, <1>4 DEF WriteSilver, Start, Crash
<1>5. ASSUME NEW d \in Date, Step(d), ~WriteDimCustomer(d) PROVE D!InOrderInv'
  <2>1. gold'.dim_customer = gold.dim_customer /\ lastBatch' = lastBatch
    BY <1>0, <1>5 DEF Step, BuildDimDate, ReadDimCustomer, BuildDimProduct, BuildDimStore,
                BuildFactSales, BuildDailySalesSummary, IsGold
  <2>2. QED
    BY <1>2, <2>1
<1>6. CASE UNCHANGED vars
  BY <1>2, <1>6 DEF vars
<1>7. QED
  BY <1>3, <1>4, <1>5, <1>6 DEF Next

LEMMA GrainStep ==
  ASSUME RerunInv, [Next]_vars PROVE FactGrain'
<1>0. IsGold
  BY DEF RerunInv, TurnsInv, Shape
<1>1. CASE gold'.fact_sales = gold.fact_sales
  BY <1>1 DEF RerunInv, FactGrain
<1>2. ASSUME NEW d \in Date, BuildFactSales(d) PROVE FactGrain'
  <2> DEFINE rows == FactRows(silver[d], gold.dim_customer, local[d].products,
                              local[d].stores, local[d].dates)
  <2>1. local[d].customers = gold.dim_customer
    BY <1>2 DEF BuildFactSales, Active, Running, RerunInv, Joined
  <2>2. \A f, g \in rows : f.line = g.line => f = g
    BY FactRowsGrain DEF RerunInv, TurnsInv
  <2>3. gold'.fact_sales = rows
    BY <1>0, <1>2, <2>1 DEF BuildFactSales, IsGold
  <2> HIDE DEF rows
  <2>4. QED
    BY <2>2, <2>3 DEF FactGrain
<1>3. ASSUME NEW d \in Date, WriteSilver(d) \/ Start(d) \/ Crash(d) PROVE gold' = gold
  BY <1>3 DEF WriteSilver, Start, Crash
<1>4. ASSUME NEW d \in Date, Step(d), ~BuildFactSales(d) PROVE gold'.fact_sales = gold.fact_sales
  BY <1>0, <1>4 DEF Step, BuildDimDate, ReadDimCustomer, WriteDimCustomer, BuildDimProduct,
              BuildDimStore, BuildDailySalesSummary, IsGold
<1>5. QED
  BY <1>1, <1>2, <1>3, <1>4 DEF Next, vars

(* fact_sales has one row per order line even when Silver partitions are   *)
(* rewritten and their batches built again, as long as runs take turns and *)
(* none is for a batch before the latest one. A run for an earlier batch   *)
(* breaks it (the run gold_build_backfill_grain).                          *)
THEOREM FactGrainInOrder == ASSUME InOrder PROVE Spec => []FactGrain
<1>1. Init => RerunInv
  <2> SUFFICES ASSUME Init PROVE RerunInv
    OBVIOUS
  <2>1. IInv
    BY IInvInit
  <2>2. TurnsInv /\ Joined
    BY ShapeInit DEF Init, TurnsInv, Joined, EmptyGold, Active, Running
  <2>3. QED
    BY <2>1, <2>2, ScheduleIsInOrder DEF IInv, Facts, RerunInv
<1>2. RerunInv /\ [Next]_vars => RerunInv'
  <2> SUFFICES ASSUME RerunInv, [Next]_vars PROVE RerunInv'
    OBVIOUS
  <2>1. TurnsInv' /\ Turn'
    BY TurnsStep, TurnStep DEF RerunInv, TurnsInv, InOrder
  <2>2. QED
    BY <2>1, JoinedStep, DimensionStep, GrainStep DEF RerunInv
<1>3. RerunInv => FactGrain
  BY DEF RerunInv
<1>4. QED
  BY <1>1, <1>2, <1>3, PTL DEF Spec
=============================================================================
