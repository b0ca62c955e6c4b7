-------------------------- MODULE DailyRun_proofs --------------------------
(***************************************************************************)
(* Proofs about one date of the chained DAGs, for any sources and jobs and *)
(* any number of attempts, faults, clears, timeouts and expiries.          *)
(***************************************************************************)
EXTENDS DailyRun, TLAPS

(* The tasks, told apart by their names.                                   *)
LEMMA TaskNames ==
  ASSUME NEW t \in Task
  PROVE  /\ t[1] = "to_bronze" => t[2] \in Source /\ t = ToBronze(t[2])
         /\ t[1] = "silver" => t[2] \in Job /\ t = Silver(t[2])
         /\ t[1] = "build_gold" => t = BuildGold
         /\ t \in Sensor \cup {BuildGold, Preflight} => t[1] \notin {"ingest", "to_bronze", "silver"}
<1> USE DEF Preflight, Gate, Ingest, ToBronze, WaitForBronze, Silver, WaitForSilver, BuildGold, Sensor
<1>1. CASE t \in BronzeDag
  BY <1>1 DEF BronzeDag
<1>2. CASE t \in SilverDag
  BY <1>2 DEF SilverDag
<1>3. CASE t \in GoldDag
  BY <1>3 DEF GoldDag
<1>4. QED
  BY <1>1, <1>2, <1>3 DEF Task

LEMMA TaskMembers ==
  /\ \A s \in Source : {Gate(s), Ingest(s), ToBronze(s)} \subseteq BronzeDag
  /\ \A j \in Job : Silver(j) \in SilverDag
  /\ {WaitForBronze, WaitForSilver, BuildGold, Preflight} \subseteq Task
  /\ BronzeDag \subseteq Task /\ SilverDag \subseteq Task
BY DEF BronzeDag, SilverDag, GoldDag, Task

LEMMA Distinct ==
  /\ \A s \in Source : \A j \in Job : ToBronze(s) # Silver(j)
  /\ \A s, r : ToBronze(s) # Gate(r) /\ ToBronze(s) # Ingest(r)
  /\ \A s, r : ToBronze(s) = ToBronze(r) => s = r
  /\ \A j, r : Silver(j) = Silver(r) => j = r
  /\ \A j, r : Silver(j) \notin {Gate(r), Ingest(r), ToBronze(r)}
  /\ \A r : {WaitForBronze, WaitForSilver} \cap {Gate(r), Ingest(r), ToBronze(r), Silver(r)} = {}
  /\ WaitForBronze # WaitForSilver
  /\ {WaitForBronze, WaitForSilver} \cap {Preflight, BuildGold} = {}
  /\ \A r : {Preflight, BuildGold} \cap {ToBronze(r), Silver(r)} = {}
BY DEF Preflight, Gate, Ingest, ToBronze, WaitForBronze, Silver, WaitForSilver, BuildGold

(* What must have succeeded before a Silver job or Gold.                   *)
LEMMA UpstreamFacts ==
  /\ \A j \in Job : Upstream(Silver(j)) = IF j = LinesJob THEN {Silver(OrdersJob)} ELSE {WaitForBronze}
  /\ Upstream(BuildGold) = {WaitForSilver}
BY DEF Upstream, Silver, BuildGold

(* Every source's to_bronze and every job but the orders' is a leaf.       *)
LEMMA LeafFacts ==
  /\ \A s \in Source : ToBronze(s) \in Leaves(BronzeDag)
  /\ \A j \in Job \ {OrdersJob} : Silver(j) \in Leaves(SilverDag)
<1>1. ASSUME NEW s \in Source, NEW u \in BronzeDag PROVE ToBronze(s) \notin Upstream(u)
  BY <1>1 DEF BronzeDag, Upstream, Preflight, Gate, Ingest, ToBronze
<1>2. ASSUME NEW j \in Job \ {OrdersJob}, NEW u \in SilverDag PROVE Silver(j) \notin Upstream(u)
  BY <1>2 DEF SilverDag, Upstream, Silver, WaitForBronze
<1>3. QED
  BY <1>1, <1>2, TaskMembers DEF Leaves
----------------------------------------------------------------------------
(* The inductive invariant. What a success stands for never goes away,     *)
(* since no step takes an output of Bronze, Silver or Gold back; what      *)
(* failed, was cleared or timed out needs no account.                      *)
Shape == monday \in BOOLEAN /\ state \in [Task -> {"none", "up_for_retry"} \cup Done]
Outputs ==
  /\ \A s \in Source : state[ToBronze(s)] = "success" => s \in bronze
  /\ \A j \in Job : state[Silver(j)] = "success" => j \in silver
Skips ==
  \A t \in Task : state[t] = "skipped" =>
    \E s \in Source : ~OnCadence(s) /\ t \in {Ingest(s), ToBronze(s)}
BronzeIsWhole == \A s \in Source : OnCadence(s) => s \in bronze
Seen ==
  /\ state[WaitForBronze] = "success" => BronzeIsWhole
  /\ state[WaitForSilver] = "success" => silver = Job

(* The first two parts of LayersInOrder, and what its third says of the    *)
(* outputs.                                                                *)
Ordered ==
  /\ silver # {} => \A s \in Source : OnCadence(s) => s \in bronze
  /\ goldBuilt => silver = Job
  /\ LinesJob \in silver => OrdersJob \in silver

IInv == Shape /\ silver \subseteq Job /\ Outputs /\ Skips /\ Seen /\ Ordered

(* A sensor that saw its DAG succeed saw every output of it.               *)
LEMMA BronzeSucceeded ==
  ASSUME IInv, DagState(BronzeDag) = "success"
  PROVE  BronzeIsWhole
<1> SUFFICES ASSUME NEW s \in Source, OnCadence(s) PROVE s \in bronze
  BY DEF BronzeIsWhole
<1>1. /\ \A t \in BronzeDag : state[t] \in Done
      /\ \A t \in Leaves(BronzeDag) : state[t] \notin {"failed", "upstream_failed"}
  BY DEF DagState
<1>2. state[ToBronze(s)] # "skipped"
  BY TaskMembers, Distinct DEF IInv, Skips
<1>3. state[ToBronze(s)] = "success"
  BY <1>1, <1>2, LeafFacts, TaskMembers DEF Done
<1>4. QED
  BY <1>3 DEF IInv, Outputs

LEMMA SilverSucceeded ==
  ASSUME IInv, DagState(SilverDag) = "success"
  PROVE  silver = Job
<1>1. /\ \A t \in SilverDag : state[t] \in Done
      /\ \A t \in Leaves(SilverDag) : state[t] \notin {"failed", "upstream_failed"}
  BY DEF DagState
<1>2. ASSUME NEW j \in Job \ {OrdersJob} PROVE j \in silver
  <2>1. state[Silver(j)] # "skipped"
    BY TaskMembers, Distinct DEF IInv, Skips
  <2>2. state[Silver(j)] = "success"
    BY <1>1, <2>1, LeafFacts, TaskMembers DEF Done
  <2>3. QED
    BY <2>2 DEF IInv, Outputs
<1>3. OrdersJob \in silver
  BY <1>2, ConfigAssumption DEF IInv, Ordered
<1>4. QED
  BY <1>2, <1>3 DEF IInv

(* A job may start only when Bronze is whole and, for the lines, the       *)
(* orders are written; Gold only when every job has.                       *)
LEMMA SilverStarts ==
  ASSUME IInv, NEW j \in Job, Runnable(Silver(j))
  PROVE  BronzeIsWhole /\ (j = LinesJob => OrdersJob \in silver)
BY UpstreamFacts, ConfigAssumption DEF IInv, Runnable, Outputs, Seen, Ordered, BronzeIsWhole

LEMMA GoldStarts ==
  ASSUME IInv, Runnable(BuildGold) PROVE silver = Job
BY UpstreamFacts DEF IInv, Runnable, Seen

(* Steps that make no task succeed but perhaps a sensor, over outputs that *)
(* grow in order.                                                          *)
LEMMA StatesChange ==
  ASSUME IInv, Shape', monday' = monday, UNCHANGED <<bronze, silver, goldBuilt>>,
         \A s \in Source : state'[ToBronze(s)] = "success" => s \in bronze,
         \A j \in Job : state'[Silver(j)] = "success" => j \in silver,
         \A t \in Task : state'[t] = "skipped" /\ state[t] # "skipped" =>
           \E s \in Source : ~OnCadence(s) /\ t \in {Ingest(s), ToBronze(s)},
         state'[WaitForBronze] = "success" => BronzeIsWhole,
         state'[WaitForSilver] = "success" => silver = Job
  PROVE  IInv'
<1>1. Skips'
  BY DEF IInv, Skips, OnCadence
<1>2. QED
  BY <1>1 DEF IInv, Outputs, Seen, BronzeIsWhole, Ordered, OnCadence

(* An attempt that fails makes no task succeed and skips none.             *)
LEMMA FailedAttempt ==
  ASSUME IInv, NEW t \in Task, FailAttempt(t), monday' = monday
  PROVE  /\ Shape'
         /\ \A u \in Task : state'[u] \in {"success", "skipped"} => state'[u] = state[u]
BY DEF IInv, Shape, FailAttempt, Done

(* An attempt that succeeds changes the state of its own task alone.       *)
LEMMA SucceededTask ==
  ASSUME IInv, NEW t \in Task, Succeed(t), monday' = monday
  PROVE  /\ Shape'
         /\ \A u \in Task : u # t => state'[u] = state[u]
         /\ state'[t] = "success"
BY DEF IInv, Shape, Succeed, Done

(* An attempt that fails after its write leaves its output behind.         *)
LEMMA OutputLeft ==
  ASSUME IInv, NEW t \in Task, Runnable(t), t \notin Sensor, FailAttempt(t), Written(t),
         monday' = monday
  PROVE  IInv'
<1>1. /\ Shape'
      /\ \A u \in Task : state'[u] \in {"success", "skipped"} => state'[u] = state[u]
  BY FailedAttempt DEF IInv, Shape
<1>2. bronze \subseteq bronze' /\ silver \subseteq silver'
  BY DEF Written, Copy, Store
<1>3. silver' \subseteq Job
  BY TaskNames DEF Written, Store, IInv
<1>4. Outputs'
  BY <1>1, <1>2, TaskMembers DEF IInv, Outputs
<1>5. Skips'
  BY <1>1 DEF IInv, Skips, OnCadence
<1>6. Seen'
  BY <1>1, <1>2, <1>3, TaskMembers DEF IInv, Seen, BronzeIsWhole, OnCadence
<1>7. Ordered'
  <2>1. CASE t[1] = "silver" /\ Store(t[2]) /\ UNCHANGED <<bronze, goldBuilt>>
    <3>1. t[2] \in Job /\ Runnable(Silver(t[2]))
      BY <2>1, TaskNames
    <3>2. BronzeIsWhole /\ (t[2] = LinesJob => OrdersJob \in silver)
      BY <3>1, SilverStarts
    <3>3. silver' = silver \cup {t[2]}
      BY <2>1 DEF Store
    <3>4. QED
      BY <2>1, <1>3, <3>1, <3>2, <3>3 DEF IInv, Ordered, BronzeIsWhole, OnCadence
  <2>2. CASE t = BuildGold /\ UNCHANGED <<bronze, silver>>
    <3>1. silver = Job
      BY <2>2, GoldStarts
    <3>2. QED
      BY <2>2, <3>1, ConfigAssumption DEF IInv, Ordered, OnCadence
  <2>3. CASE UNCHANGED <<silver, goldBuilt>>
    BY <1>2, <2>3 DEF IInv, Ordered, OnCadence
  <2>4. QED
    BY <2>1, <2>2, <2>3 DEF Written
<1>8. QED
  BY <1>1, <1>3, <1>4, <1>5, <1>6, <1>7 DEF IInv

(* Steps that end an attempt, or a task, without success.                  *)
LEMMA NothingSucceeds ==
  ASSUME IInv, Shape', monday' = monday, UNCHANGED <<bronze, silver, goldBuilt>>,
         \A u \in Task : state'[u] \in {"success", "skipped"} => state'[u] = state[u]
  PROVE  IInv'
<1>1. /\ \A s \in Source : state'[ToBronze(s)] = "success" => s \in bronze
      /\ \A j \in Job : state'[Silver(j)] = "success" => j \in silver
  BY TaskMembers DEF IInv, Outputs
<1>2. /\ state'[WaitForBronze] = "success" => BronzeIsWhole
      /\ state'[WaitForSilver] = "success" => silver = Job
  BY TaskMembers DEF IInv, Seen
<1>3. QED
  BY <1>1, <1>2, StatesChange

LEMMA IInvStep == IInv /\ [Next]_vars => IInv'
<1> SUFFICES ASSUME IInv, [Next]_vars PROVE IInv'
  OBVIOUS
<1>1. CASE CheckSourceDb
  <2>1. Succeed(Preflight) /\ monday' = monday /\ UNCHANGED <<bronze, silver, goldBuilt>>
    BY <1>1 DEF CheckSourceDb, data
  <2>2. Shape' /\ (\A u \in Task : u # Preflight => state'[u] = state[u])
               /\ state'[Preflight] = "success"
    BY <2>1, TaskMembers, SucceededTask
  <2>3. /\ \A s \in Source : state'[ToBronze(s)] = "success" => s \in bronze
        /\ \A j \in Job : state'[Silver(j)] = "success" => j \in silver
    BY <2>2, TaskMembers, Distinct DEF IInv, Outputs
  <2>4. /\ state'[WaitForBronze] = "success" => BronzeIsWhole
        /\ state'[WaitForSilver] = "success" => silver = Job
    BY <2>2, TaskMembers, Distinct DEF IInv, Seen
  <2>5. QED
    BY <2>1, <2>2, <2>3, <2>4, StatesChange
<1>2. ASSUME NEW s \in Source, RunGate(s) PROVE IInv'
  <2>1. monday' = monday /\ UNCHANGED <<bronze, silver, goldBuilt>>
    BY <1>2 DEF RunGate, data
  <2>2. /\ Shape'
        /\ \A u \in Task : \/ u = Gate(s) /\ state'[u] = "success"
                           \/ /\ u \in {Ingest(s), ToBronze(s)} /\ ~OnCadence(s)
                              /\ state'[u] = "skipped"
                           \/ state'[u] = state[u]
    BY <1>2, <2>1 DEF RunGate, IInv, Shape, Done
  <2>3. /\ \A r \in Source : state'[ToBronze(r)] = "success" => r \in bronze
        /\ \A j \in Job : state'[Silver(j)] = "success" => j \in silver
    BY <2>2, TaskMembers, Distinct DEF IInv, Outputs
  <2>4. /\ state'[WaitForBronze] = "success" => BronzeIsWhole
        /\ state'[WaitForSilver] = "success" => silver = Job
    BY <2>2, TaskMembers, Distinct DEF IInv, Seen
  <2>5. \A t \in Task : state'[t] = "skipped" /\ state[t] # "skipped" =>
           \E r \in Source : ~OnCadence(r) /\ t \in {Ingest(r), ToBronze(r)}
    BY <2>2
  <2>6. QED
    BY <2>1, <2>2, <2>3, <2>4, <2>5, StatesChange
<1>3. ASSUME NEW s \in Source, RunIngest(s) PROVE IInv'
  <2>1. Succeed(Ingest(s)) /\ monday' = monday /\ UNCHANGED <<bronze, silver, goldBuilt>>
    BY <1>3 DEF RunIngest
  <2>2. Shape' /\ (\A u \in Task : u # Ingest(s) => state'[u] = state[u])
               /\ state'[Ingest(s)] = "success"
    BY <2>1, TaskMembers, SucceededTask
  <2>3. /\ \A r \in Source : state'[ToBronze(r)] = "success" => r \in bronze
        /\ \A j \in Job : state'[Silver(j)] = "success" => j \in silver
    BY <2>2, TaskMembers, Distinct DEF IInv, Outputs
  <2>4. /\ state'[WaitForBronze] = "success" => BronzeIsWhole
        /\ state'[WaitForSilver] = "success" => silver = Job
    BY <2>2, TaskMembers, Distinct DEF IInv, Seen
  <2>5. QED
    BY <2>1, <2>2, <2>3, <2>4, StatesChange
<1>4. ASSUME NEW s \in Source, RunToBronze(s) PROVE IInv'
  <2>0. ToBronze(s) \in Task
    BY TaskMembers
  <2>1. CASE Succeed(ToBronze(s)) /\ bronze' = bronze \cup {s}
    <3>1. UNCHANGED <<monday, silver, goldBuilt>>
      BY <1>4 DEF RunToBronze
    <3>2. Shape' /\ (\A u \in Task : u # ToBronze(s) => state'[u] = state[u])
                 /\ state'[ToBronze(s)] = "success"
      BY <2>0, <2>1, <3>1, SucceededTask
    <3>3. Outputs'
      BY <2>1, <3>1, <3>2, TaskMembers, Distinct DEF IInv, Outputs
    <3>4. Skips'
      BY <3>1, <3>2 DEF IInv, Skips, OnCadence
    <3>5. Seen' /\ Ordered'
      BY <2>1, <3>1, <3>2, TaskMembers, Distinct
         DEF IInv, Seen, Ordered, BronzeIsWhole, OnCadence
    <3>6. QED
      BY <3>1, <3>2, <3>3, <3>4, <3>5 DEF IInv
  <2>2. CASE FailAttempt(ToBronze(s)) /\ UNCHANGED bronze
    BY <1>4, <2>0, <2>2, FailedAttempt, NothingSucceeds DEF RunToBronze
  <2>3. QED
    BY <1>4, <2>1, <2>2 DEF RunToBronze, Copy
<1>5. ASSUME NEW j \in Job, RunSilver(j) PROVE IInv'
  <2>0. Silver(j) \in Task
    BY TaskMembers
  <2>1. CASE Succeed(Silver(j)) /\ silver' = silver \cup {j}
    <3>1. UNCHANGED <<monday, bronze, goldBuilt>> /\ Runnable(Silver(j))
      BY <1>5 DEF RunSilver
    <3>2. Shape' /\ (\A u \in Task : u # Silver(j) => state'[u] = state[u])
                 /\ state'[Silver(j)] = "success"
      BY <2>0, <2>1, <3>1, SucceededTask
    <3>3. BronzeIsWhole /\ (j = LinesJob => OrdersJob \in silver)
      BY <3>1, SilverStarts
    <3>4. Outputs'
      BY <2>1, <3>1, <3>2, TaskMembers, Distinct DEF IInv, Outputs
    <3>5. Skips'
      BY <3>1, <3>2 DEF IInv, Skips, OnCadence
    <3>6. Seen'
      <4>1. silver = Job => silver' = Job
        BY <2>1
      <4>2. /\ state'[WaitForBronze] = state[WaitForBronze]
            /\ state'[WaitForSilver] = state[WaitForSilver]
        BY <3>2, TaskMembers, Distinct
      <4>3. QED
        BY <3>1, <4>1, <4>2 DEF IInv, Seen, BronzeIsWhole, OnCadence
    <3>7. Ordered'
      BY <2>1, <3>1, <3>3 DEF IInv, Ordered, BronzeIsWhole, OnCadence
    <3>8. QED
      BY <2>1, <3>2, <3>4, <3>5, <3>6, <3>7 DEF IInv
  <2>2. CASE FailAttempt(Silver(j)) /\ UNCHANGED silver
    BY <1>5, <2>0, <2>2, FailedAttempt, NothingSucceeds DEF RunSilver
  <2>3. QED
    BY <1>5, <2>1, <2>2 DEF RunSilver, Store
<1>6. CASE RunGold
  <2>1. Succeed(BuildGold) /\ UNCHANGED <<monday, bronze, silver>> /\ Runnable(BuildGold)
    BY <1>6 DEF RunGold
  <2>2. Shape' /\ (\A u \in Task : u # BuildGold => state'[u] = state[u])
               /\ state'[BuildGold] = "success"
    BY <2>1, TaskMembers, SucceededTask
  <2>3. silver = Job
    BY <2>1, GoldStarts
  <2>4. Outputs' /\ Seen'
    BY <2>1, <2>2, TaskMembers, Distinct DEF IInv, Outputs, Seen, BronzeIsWhole, OnCadence
  <2>5. Skips'
    BY <2>1, <2>2 DEF IInv, Skips, OnCadence
  <2>6. Ordered'
    BY <2>1, <2>3 DEF IInv, Ordered, OnCadence
  <2>7. QED
    BY <2>1, <2>2, <2>4, <2>5, <2>6 DEF IInv
<1>7. ASSUME NEW sensor \in Sensor, Poke(sensor) PROVE IInv'
  <2>0. sensor \in Task /\ monday' = monday /\ UNCHANGED <<bronze, silver, goldBuilt>>
    BY <1>7, TaskMembers DEF Poke, Sensor, data
  <2>1. CASE DagState(Awaited(sensor)) = "success" /\ Succeed(sensor)
    <3>1. Shape' /\ (\A u \in Task : u # sensor => state'[u] = state[u])
                 /\ state'[sensor] = "success"
      BY <2>0, <2>1, SucceededTask
    <3>2. /\ \A s \in Source : state'[ToBronze(s)] = "success" => s \in bronze
          /\ \A j \in Job : state'[Silver(j)] = "success" => j \in silver
      BY <3>1, TaskMembers, Distinct DEF IInv, Outputs, Sensor
    <3>3. CASE sensor = WaitForBronze
      <4>1. BronzeIsWhole
        BY <2>1, <3>3, BronzeSucceeded DEF Awaited
      <4>2. state'[WaitForSilver] = "success" => silver = Job
        BY <3>1, <3>3, TaskMembers, Distinct DEF IInv, Seen
      <4>3. QED
        BY <2>0, <3>1, <3>2, <4>1, <4>2, StatesChange
    <3>4. CASE sensor = WaitForSilver
      <4>1. silver = Job
        BY <2>1, <3>4, SilverSucceeded, Distinct DEF Awaited
      <4>2. state'[WaitForBronze] = "success" => BronzeIsWhole
        BY <3>1, <3>4, TaskMembers, Distinct DEF IInv, Seen
      <4>3. QED
        BY <2>0, <3>1, <3>2, <4>1, <4>2, StatesChange
    <3>5. QED
      BY <3>3, <3>4 DEF Sensor
  <2>2. CASE FailAttempt(sensor)
    BY <2>0, <2>2, FailedAttempt, NothingSucceeds
  <2>3. QED
    BY <1>7, <2>1, <2>2 DEF Poke
<1>8. ASSUME NEW t \in Task, Propagate(t) PROVE IInv'
  <2>1. monday' = monday /\ UNCHANGED <<bronze, silver, goldBuilt>>
    BY <1>8 DEF Propagate, data
  <2>2. /\ Shape'
        /\ \A u \in Task : state'[u] \in {"success", "skipped"} => state'[u] = state[u]
    BY <1>8 DEF Propagate, IInv, Shape, Done
  <2>3. QED
    BY <2>1, <2>2, NothingSucceeds
<1>9. ASSUME NEW sensor \in Sensor, TimeOut(sensor) PROVE IInv'
  <2>1. monday' = monday /\ UNCHANGED <<bronze, silver, goldBuilt>>
    BY <1>9 DEF TimeOut, data
  <2>2. /\ Shape'
        /\ \A u \in Task : state'[u] \in {"success", "skipped"} => state'[u] = state[u]
    BY <1>9 DEF TimeOut, IInv, Shape, Done
  <2>3. QED
    BY <2>1, <2>2, NothingSucceeds
<1>10. ASSUME NEW t \in Task, Fault(t) PROVE IInv'
  <2>1. t \notin Sensor /\ Runnable(t) /\ FailAttempt(t) /\ monday' = monday
    BY <1>10 DEF Fault
  <2>2. CASE UNCHANGED data
    BY <2>1, <2>2, FailedAttempt, NothingSucceeds DEF data
  <2>3. CASE Written(t)
    BY <2>1, <2>3, OutputLeft
  <2>4. QED
    BY <1>10, <2>2, <2>3 DEF Fault
<1>11. ASSUME NEW dag, NEW t \in dag, Clear(dag, t) PROVE IInv'
  <2>1. monday' = monday /\ UNCHANGED <<bronze, silver, goldBuilt>>
    BY <1>11 DEF Clear, data
  <2>2. /\ Shape'
        /\ \A u \in Task : state'[u] \in {"success", "skipped"} => state'[u] = state[u]
    BY <1>11 DEF Clear, IInv, Shape, Done
  <2>3. QED
    BY <2>1, <2>2, NothingSucceeds
<1>12. ASSUME NEW s \in Source, Expire(s) PROVE IInv'
  BY <1>12, NothingSucceeds DEF Expire, IInv, Shape
<1>13. CASE UNCHANGED vars
  BY <1>13, NothingSucceeds DEF vars, data, IInv, Shape
<1>14. QED
  BY <1>1, <1>2, <1>3, <1>4, <1>5, <1>6, <1>7, <1>8, <1>9, <1>10, <1>11, <1>12, <1>13
     DEF Next, Work

LEMMA IInvInit == Init => IInv
<1> SUFFICES ASSUME Init PROVE IInv
  OBVIOUS
<1>1. Shape /\ \A t \in Task : state[t] = "none"
  BY DEF Init, Shape
<1>2. Outputs /\ Skips /\ Seen
  BY <1>1, TaskMembers DEF Outputs, Skips, Seen
<1>3. QED
  BY <1>1, <1>2 DEF Init, IInv, Ordered
----------------------------------------------------------------------------
(* What the states of a date's tasks say of its outputs holds for ever:    *)
(* through retries, faults after a write, timeouts, expiries and clears, a *)
(* success stands for a written output, only an off-cadence source is      *)
(* skipped, and a sensor that succeeded saw its whole layer.               *)
THEOREM InductiveInvariant == Spec => []IInv
BY IInvInit, IInvStep, PTL DEF Spec

----------------------------------------------------------------------------
(* The line job succeeds only after the orders job and is cleared with it. *)
LinesLast == state[Silver(LinesJob)] = "success" => state[Silver(OrdersJob)] = "success"

LEMMA SalesTasks ==
  /\ {Silver(OrdersJob), Silver(LinesJob)} \subseteq Task
  /\ Silver(OrdersJob) # Silver(LinesJob)
  /\ Upstream(Silver(LinesJob)) = {Silver(OrdersJob)}
  /\ Upstream(Silver(OrdersJob)) = {WaitForBronze}
  /\ Upstream(WaitForBronze) = {}
<1>1. {OrdersJob, LinesJob} \subseteq Job /\ OrdersJob # LinesJob
  BY ConfigAssumption
<1>2. Upstream(WaitForBronze) = {}
  BY DEF Upstream, WaitForBronze
<1>3. QED
  BY <1>1, <1>2, TaskMembers, UpstreamFacts, Distinct

(* A step that changes the state of one unfinished task.                   *)
LEMMA OneTaskAlone ==
  ASSUME LinesLast, NEW t \in Task, state[t] \in {"none", "up_for_retry"},
         \A u \in Task : u # t => state'[u] = state[u],
         state'[t] = "success" => Runnable(t)
  PROVE  LinesLast'
<1>1. CASE t = Silver(LinesJob)
  BY <1>1, SalesTasks DEF LinesLast, Runnable
<1>2. CASE t # Silver(LinesJob)
  BY <1>2, SalesTasks DEF LinesLast
<1>3. QED
  BY <1>1, <1>2

LEMMA AttemptKeepsLinesLast ==
  ASSUME Shape, LinesLast, NEW t \in Task, Runnable(t), Succeed(t) \/ FailAttempt(t)
  PROVE  LinesLast'
<1>1. \A u \in Task : u # t => state'[u] = state[u]
  BY DEF Succeed, FailAttempt, Shape
<1>2. QED
  BY <1>1, OneTaskAlone DEF Runnable

(* Whatever clears the orders job clears the line job.                     *)
LEMMA LinesClearedWithOrders ==
  ASSUME NEW t, Silver(OrdersJob) \in Downstream(t)
  PROVE  Silver(LinesJob) \in Downstream(t)
<1>1. ASSUME NEW tasks, Silver(OrdersJob) \in tasks PROVE Silver(LinesJob) \in Below(tasks)
  BY <1>1, SalesTasks DEF Below
<1>2. ASSUME NEW tasks, Silver(OrdersJob) \in Below(tasks)
      PROVE  Silver(OrdersJob) \in tasks \/ WaitForBronze \in tasks
  BY <1>2, SalesTasks DEF Below
<1>3. ASSUME NEW tasks, WaitForBronze \in Below(tasks) PROVE WaitForBronze \in tasks
  BY <1>3, SalesTasks DEF Below
<1>4. ASSUME NEW tasks, WaitForBronze \in tasks PROVE Silver(OrdersJob) \in Below(tasks)
  BY <1>4, SalesTasks DEF Below
<1>5. Silver(OrdersJob) \in Below(Below({t}))
  <2>1. CASE WaitForBronze \in Below(Below({t}))
    BY <2>1, <1>3, <1>4
  <2>2. QED
    BY <2>1, <1>2 DEF Downstream
<1>6. QED
  BY <1>1, <1>5 DEF Downstream

LEMMA LinesLastStep == IInv /\ LinesLast /\ [Next]_vars => LinesLast'
<1> SUFFICES ASSUME IInv, LinesLast, [Next]_vars PROVE LinesLast'
  OBVIOUS
<1>0. /\ {Preflight, BuildGold} \subseteq Task /\ Sensor \subseteq Task
      /\ \A s \in Source : {Gate(s), Ingest(s), ToBronze(s)} \subseteq Task
      /\ \A j \in Job : Silver(j) \in Task
      /\ Shape
  BY TaskMembers DEF Sensor, IInv
<1>1. CASE CheckSourceDb
  BY <1>0, <1>1, AttemptKeepsLinesLast DEF CheckSourceDb
<1>2. ASSUME NEW s \in Source, RunGate(s) PROVE LinesLast'
  <2>1. \A j \in Job : state'[Silver(j)] = state[Silver(j)]
    BY <1>0, <1>2, Distinct DEF RunGate
  <2>2. QED
    BY <2>1, ConfigAssumption DEF LinesLast
<1>3. ASSUME NEW s \in Source, RunIngest(s) PROVE LinesLast'
  BY <1>0, <1>3, AttemptKeepsLinesLast DEF RunIngest
<1>4. ASSUME NEW s \in Source, RunToBronze(s) PROVE LinesLast'
  BY <1>0, <1>4, AttemptKeepsLinesLast DEF RunToBronze
<1>5. ASSUME NEW j \in Job, RunSilver(j) PROVE LinesLast'
  BY <1>0, <1>5, AttemptKeepsLinesLast DEF RunSilver
<1>6. CASE RunGold
  BY <1>0, <1>6, AttemptKeepsLinesLast DEF RunGold
<1>7. ASSUME NEW sensor \in Sensor, Poke(sensor) PROVE LinesLast'
  BY <1>0, <1>7, AttemptKeepsLinesLast DEF Poke
<1>8. ASSUME NEW t \in Task, Propagate(t) PROVE LinesLast'
  BY <1>0, <1>8, OneTaskAlone DEF Propagate, Shape
<1>9. ASSUME NEW sensor \in Sensor, TimeOut(sensor) PROVE LinesLast'
  <2>1. sensor \in Task /\ state[sensor] \in {"none", "up_for_retry"} /\ Runnable(sensor)
    BY <1>0, <1>9 DEF TimeOut, Runnable
  <2>2. \A u \in Task : u # sensor => state'[u] = state[u]
    BY <1>0, <1>9 DEF TimeOut, Shape
  <2>3. QED
    BY <2>1, <2>2, OneTaskAlone
<1>10. ASSUME NEW t \in Task, Fault(t) PROVE LinesLast'
  BY <1>0, <1>10, AttemptKeepsLinesLast DEF Fault
<1>11. ASSUME NEW dag, NEW t \in dag, Clear(dag, t) PROVE LinesLast'
  <2>1. \A u \in Task : state'[u] = IF u \in Downstream(t) THEN "none" ELSE state[u]
    BY <1>11 DEF Clear
  <2>2. QED
    BY <2>1, SalesTasks, LinesClearedWithOrders DEF LinesLast
<1>12. CASE UNCHANGED state
  BY <1>12 DEF LinesLast
<1>13. QED
  BY <1>1, <1>2, <1>3, <1>4, <1>5, <1>6, <1>7, <1>8, <1>9, <1>10, <1>11, <1>12
     DEF Next, Work, Expire, vars

(* Each layer of the lake is complete before the next is written, and the  *)
(* order lines done only after the orders, for any sources, cadences and   *)
(* jobs, and any number of attempts, faults, clears, timeouts and expiries *)
(* (LayersInOrder).                                                        *)
THEOREM LayersInOrderAlways == Spec => []LayersInOrder
<1>1. Init => LinesLast
  BY SalesTasks DEF Init, LinesLast
<1>2. IInv /\ LinesLast => LayersInOrder
  BY DEF IInv, Ordered, LinesLast, LayersInOrder
<1>3. QED
  BY <1>1, <1>2, InductiveInvariant, LinesLastStep, PTL DEF Spec
----------------------------------------------------------------------------
(* A Monday without faults, timeouts and expiries: up to the sensor that   *)
(* waits for Bronze nothing even retries, because each body finds the      *)
(* output of the task it waited for; and as long as Spark can read every   *)
(* batch that is written, nothing does after it.                           *)
Calm == monday /\ faults = 0 /\ timeouts = 0 /\ expiries = 0
Early == BronzeDag \cup {WaitForBronze}
CInv ==
  /\ {faults, timeouts, expiries, blanks} \subseteq Nat
  /\ blanks = 0 => unreadable = {}
  /\ Calm => /\ \A t \in Early : state[t] \in {"none", "success"}
             /\ blanks = 0 => \A t \in Task : state[t] \in {"none", "success"}
             /\ \A s \in Source : state[Ingest(s)] = "success" => s \in landing

(* An ingestion is no other task.                                          *)
LEMMA IngestFacts ==
  /\ \A s \in Source : Upstream(ToBronze(s)) = {Ingest(s)}
  /\ \A s, r : Ingest(s) = Ingest(r) => s = r
  /\ \A s, r : Ingest(s) \notin {Gate(r), ToBronze(r), Silver(r), Preflight, BuildGold,
                               WaitForBronze, WaitForSilver}
BY DEF Upstream, Preflight, Gate, Ingest, ToBronze, WaitForBronze, Silver, WaitForSilver, BuildGold

LEMMA IngestNames ==
  ASSUME NEW t \in Task, t[1] = "ingest" PROVE t[2] \in Source
BY DEF Task, BronzeDag, SilverDag, GoldDag, Preflight, Gate, Ingest, ToBronze, WaitForBronze,
       Silver, WaitForSilver, BuildGold

(* What a task waits for is a task.                                        *)
LEMMA UpstreamInTask ==
  ASSUME NEW t \in Task, NEW u \in Upstream(t)
  PROVE  u \in Task
<1> USE DEF Preflight, Gate, Ingest, ToBronze, WaitForBronze, Silver, WaitForSilver, BuildGold,
            Upstream
<1>1. CASE t \in BronzeDag
  BY <1>1 DEF BronzeDag, Task
<1>2. CASE t \in SilverDag
  BY <1>2, ConfigAssumption DEF SilverDag, Task
<1>3. CASE t \in GoldDag
  BY <1>3 DEF GoldDag, Task
<1>4. QED
  BY <1>1, <1>2, <1>3 DEF Task

(* The tasks up to the sensor wait only for each other; no Silver job and  *)
(* no other sensor is one of them.                                         *)
LEMMA EarlyFacts ==
  /\ \A t \in Early : Upstream(t) \subseteq Early
  /\ \A j \in Job : Silver(j) \notin Early
  /\ WaitForSilver \notin Early
  /\ Early \subseteq Task
<1> USE DEF Preflight, Gate, Ingest, ToBronze, WaitForBronze, Silver, WaitForSilver
<1>1. ASSUME NEW t \in BronzeDag PROVE Upstream(t) \subseteq BronzeDag
  BY <1>1 DEF BronzeDag, Upstream
<1>2. Upstream(WaitForBronze) = {}
  BY DEF Upstream
<1>3. (\A j \in Job : Silver(j) \notin Early) /\ WaitForSilver \notin Early
  BY DEF Early, BronzeDag
<1>4. QED
  BY <1>1, <1>2, <1>3, TaskMembers DEF Early

(* A step that adds no trouble keeps the calm, if it takes no landing file *)
(* back and leaves every task unchanged, cleared or successful, but        *)
(* perhaps a late one after a batch was unreadable.                        *)
LEMMA StaysCalm ==
  ASSUME CInv, monday' = monday, {faults', timeouts', expiries', blanks'} \subseteq Nat,
         Calm' => Calm,
         blanks' = 0 => blanks = 0 /\ unreadable' \subseteq unreadable,
         Calm => /\ \A t \in Task : \/ state'[t] \in {state[t], "none", "success"}
                                    \/ blanks # 0 /\ t \notin Early
                 /\ landing \subseteq landing'
                 /\ \A s \in Source : state'[Ingest(s)] = "success" =>
                      state[Ingest(s)] = "success" \/ s \in landing'
  PROVE  CInv'
<1>1. (blanks = 0 => unreadable = {})'
  BY DEF CInv
<1>2. ASSUME Calm'
      PROVE  /\ \A t \in Early : state'[t] \in {"none", "success"}
             /\ blanks' = 0 => \A t \in Task : state'[t] \in {"none", "success"}
             /\ \A s \in Source : state'[Ingest(s)] = "success" => s \in landing'
  BY <1>2, EarlyFacts DEF CInv
<1>3. QED
  BY <1>1, <1>2 DEF CInv

(* What a task writes raises the count when it is unreadable.              *)
LEMMA RowsCounted ==
  ASSUME NEW t, CInv, Rows(t)
  PROVE  blanks' \in Nat /\ (blanks' = 0 => blanks = 0 /\ unreadable' \subseteq unreadable)
BY DEF Rows, CInv

LEMMA CopyCounted ==
  ASSUME NEW s \in Source, CInv, Copy(s)
  PROVE  blanks = 0 => unreadable' \subseteq unreadable
BY DEF Copy, CInv

LEMMA StoreCounted ==
  ASSUME NEW j \in Job, CInv, Store(j)
  PROVE  blanks' \in Nat /\ (blanks' = 0 => blanks = 0 /\ unreadable' \subseteq unreadable)
BY RowsCounted DEF Store, CInv

LEMMA CInvStep == IInv /\ CInv /\ [Next]_vars => CInv'
<1> SUFFICES ASSUME IInv, CInv, [Next]_vars PROVE CInv'
  OBVIOUS
<1>a. ASSUME NEW t \in Task, Succeed(t)
      PROVE  \A u \in Task : state'[u] = IF u = t THEN "success" ELSE state[u]
  BY <1>a DEF Succeed, IInv, Shape
<1>b. \A s \in Source : {Gate(s), Ingest(s), ToBronze(s)} \subseteq Task
  BY TaskMembers
<1>c. \A j \in Job : Silver(j) \in Task
  BY TaskMembers
<1>1. CASE CheckSourceDb
  <2>1. /\ Preflight \in Task /\ Succeed(Preflight)
        /\ UNCHANGED <<monday, landing, unreadable, environment>>
    BY <1>1, TaskMembers DEF CheckSourceDb, data
  <2>2. QED
    BY <2>1, <1>a, <1>b, StaysCalm, IngestFacts DEF environment, CInv, Calm
<1>2. ASSUME NEW s \in Source, RunGate(s) PROVE CInv'
  <2>1. UNCHANGED <<monday, landing, unreadable, environment>>
    BY <1>2 DEF RunGate, data
  <2>2. Calm => OnCadence(s)
    BY DEF Calm, OnCadence
  <2>3. Calm => \A u \in Task : state'[u] = IF u = Gate(s) THEN "success" ELSE state[u]
    BY <1>2, <2>2 DEF RunGate
  <2>4. QED
    BY <2>1, <2>3, <1>b, StaysCalm, IngestFacts DEF environment, CInv, Calm
<1>3. ASSUME NEW s \in Source, RunIngest(s) PROVE CInv'
  <2>1. /\ Succeed(Ingest(s)) /\ UNCHANGED <<monday, faults, timeouts, expiries>>
        /\ landing' = landing \cup {s}
    BY <1>3 DEF RunIngest
  <2>2. blanks' \in Nat /\ (blanks' = 0 => blanks = 0 /\ unreadable' \subseteq unreadable)
    BY <1>3, RowsCounted DEF RunIngest
  <2>3. /\ \A t \in Task : state'[t] \in {state[t], "success"}
        /\ \A r \in Source : r # s => state'[Ingest(r)] = state[Ingest(r)]
    BY <2>1, <1>a, <1>b, IngestFacts
  <2>4. QED
    BY <2>1, <2>2, <2>3, StaysCalm DEF CInv, Calm
<1>4. ASSUME NEW s \in Source, RunToBronze(s) PROVE CInv'
  <2>1. /\ UNCHANGED <<monday, landing, environment>>
        /\ blanks = 0 => unreadable' \subseteq unreadable
    BY <1>4, CopyCounted DEF RunToBronze
  <2>2. Calm => s \in landing
    BY <1>4, IngestFacts DEF RunToBronze, Runnable, CInv
  <2>3. Calm => Succeed(ToBronze(s))
    BY <1>4, <2>2 DEF RunToBronze
  <2>4. QED
    BY <2>1, <2>3, <1>a, <1>b, StaysCalm, IngestFacts DEF environment, CInv, Calm
<1>5. ASSUME NEW j \in Job, RunSilver(j) PROVE CInv'
  <2>1. UNCHANGED <<monday, landing, faults, timeouts, expiries>>
    BY <1>5 DEF RunSilver
  <2>2. blanks' \in Nat /\ (blanks' = 0 => blanks = 0 /\ unreadable' \subseteq unreadable)
    BY <1>5, StoreCounted DEF RunSilver, CInv
  <2>3. BronzeIsWhole /\ (j = LinesJob => OrdersJob \in silver)
    BY <1>5, SilverStarts DEF RunSilver
  <2>4. Calm /\ blanks = 0 => HasInput(j)
    BY <2>3, ConfigAssumption DEF BronzeIsWhole, HasInput, OnCadence, Calm, CInv
  <2>5. Calm /\ blanks = 0 => Succeed(Silver(j))
    BY <1>5, <2>4 DEF RunSilver
  <2>6. /\ \A t \in Task : t # Silver(j) => state'[t] = state[t]
        /\ Calm /\ blanks = 0 => state'[Silver(j)] = "success"
    BY <1>5, <2>5, <1>a, <1>c DEF RunSilver, Succeed, FailAttempt, IInv, Shape
  <2>7. \A s \in Source : state'[Ingest(s)] = state[Ingest(s)]
    BY <2>6, <1>b, IngestFacts
  <2>8. QED
    BY <2>1, <2>2, <2>6, <2>7, StaysCalm, EarlyFacts DEF CInv, Calm
<1>6. CASE RunGold
  <2>1. /\ BuildGold \in Task /\ Succeed(BuildGold)
        /\ UNCHANGED <<monday, landing, unreadable, environment>>
    BY <1>6, TaskMembers DEF RunGold
  <2>2. QED
    BY <2>1, <1>a, <1>b, StaysCalm, IngestFacts DEF environment, CInv, Calm
<1>7. ASSUME NEW sensor \in Sensor, Poke(sensor) PROVE CInv'
  <2>1. sensor \in Task /\ UNCHANGED <<monday, landing, unreadable, environment>>
    BY <1>7, TaskMembers DEF Poke, Sensor, data
  <2>2. Calm /\ (sensor = WaitForBronze \/ blanks = 0) => DagState(Awaited(sensor)) # "failed"
    BY TaskMembers DEF CInv, DagState, Awaited, Leaves, Early
  <2>3. Calm /\ (sensor = WaitForBronze \/ blanks = 0) => Succeed(sensor)
    BY <1>7, <2>2 DEF Poke
  <2>4. /\ \A t \in Task : t # sensor => state'[t] = state[t]
        /\ Calm /\ (sensor = WaitForBronze \/ blanks = 0) => state'[sensor] = "success"
    BY <1>7, <2>1, <2>3, <1>a DEF Poke, Succeed, FailAttempt, IInv, Shape
  <2>5. \A s \in Source : state'[Ingest(s)] = state[Ingest(s)]
    BY <2>4, <1>b, IngestFacts DEF Sensor
  <2>6. sensor # WaitForBronze => sensor \notin Early
    BY EarlyFacts DEF Sensor
  <2>7. QED
    BY <2>1, <2>4, <2>5, <2>6, StaysCalm DEF environment, CInv, Calm
<1>8. ASSUME NEW t \in Task, Propagate(t) PROVE CInv'
  <2>1. UNCHANGED <<monday, landing, unreadable, environment>>
    BY <1>8 DEF Propagate, data
  <2>2. PICK u \in Upstream(t) : state[u] \in {"failed", "upstream_failed"}
    BY <1>8 DEF Propagate
  <2>3. u \in Task
    BY <2>2, UpstreamInTask
  <2>4. Calm => blanks # 0 /\ u \notin Early
    BY <2>2, <2>3 DEF CInv
  <2>5. Calm => t \notin Early
    BY <2>2, <2>4, EarlyFacts
  <2>6. /\ \A w \in Task : w # t => state'[w] = state[w]
        /\ state'[t] = "upstream_failed"
    BY <1>8 DEF Propagate, IInv, Shape
  <2>7. \A s \in Source : state'[Ingest(s)] = "success" => state[Ingest(s)] = "success"
    BY <2>6, <1>b
  <2>8. QED
    BY <2>1, <2>4, <2>5, <2>6, <2>7, StaysCalm DEF environment, CInv, Calm
<1>9. ASSUME NEW sensor \in Sensor, TimeOut(sensor) PROVE CInv'
  BY <1>9 DEF TimeOut, CInv, Calm, data
<1>10. ASSUME NEW t \in Task, Fault(t) PROVE CInv'
  <2>1. faults' = faults + 1 /\ UNCHANGED <<monday, timeouts, expiries>>
    BY <1>10 DEF Fault
  <2>2. blanks' \in Nat /\ (blanks' = 0 => blanks = 0 /\ unreadable' \subseteq unreadable)
    <3>1. CASE UNCHANGED <<data, blanks>>
      BY <3>1 DEF data, CInv
    <3>2. CASE t[1] = "ingest" /\ Rows(t)
      BY <3>2, RowsCounted
    <3>3. CASE t[1] = "to_bronze" /\ Copy(t[2]) /\ UNCHANGED blanks
      BY <3>3, CopyCounted, TaskNames DEF CInv
    <3>4. CASE t[1] = "silver" /\ Store(t[2])
      BY <3>4, StoreCounted, TaskNames
    <3>5. CASE UNCHANGED <<unreadable, blanks>>
      BY <3>5 DEF CInv
    <3>6. QED
      BY <1>10, <3>1, <3>2, <3>3, <3>4, <3>5 DEF Fault, Written
  <2>3. QED
    BY <2>1, <2>2 DEF CInv, Calm
<1>11. ASSUME NEW dag, NEW t \in dag, Clear(dag, t) PROVE CInv'
  <2>1. UNCHANGED <<monday, landing, unreadable, faults, timeouts, expiries, blanks>>
    BY <1>11 DEF Clear, data
  <2>2. \A u \in Task : state'[u] \in {state[u], "none"}
    BY <1>11 DEF Clear
  <2>3. QED
    BY <2>1, <2>2, <1>b, StaysCalm DEF CInv, Calm
<1>12. ASSUME NEW s \in Source, Expire(s) PROVE CInv'
  BY <1>12 DEF Expire, CInv, Calm
<1>13. CASE UNCHANGED vars
  BY <1>13, StaysCalm DEF vars, data, environment, CInv, Calm
<1>14. QED
  BY <1>1, <1>2, <1>3, <1>4, <1>5, <1>6, <1>7, <1>8, <1>9, <1>10, <1>11, <1>12, <1>13
     DEF Next, Work

(* A Monday's failures are all explained by a fault, a sensor that gave    *)
(* up, an expired landing object or a batch Spark cannot read, and the     *)
(* last alone fails nothing before Silver, for any sources and jobs        *)
(* (FailuresAreExplained).                                                 *)
THEOREM FailuresAreExplainedAlways == Spec => []FailuresAreExplained
<1>1. Init => CInv
  BY TaskMembers, EarlyFacts DEF Init, CInv
<1>2. CInv => FailuresAreExplained
  BY EarlyFacts DEF CInv, Calm, Early, FailuresAreExplained
<1>3. QED
  BY <1>1, <1>2, InductiveInvariant, CInvStep, PTL DEF Spec
----------------------------------------------------------------------------
(* Types: a task that may still run has attempts left.                     *)
TriesLeft == \A t \in Task : state[t] \in {"none", "up_for_retry"} => tries[t] < MaxTries
TInv == TypeOK /\ TriesLeft
TasksOK ==
  /\ state \in [Task -> {"none", "up_for_retry"} \cup Done]
  /\ tries \in [Task -> 0..MaxTries]
  /\ TriesLeft

(* An attempt of a task that may run, whichever way it ends.              *)
LEMMA AttemptTypes ==
  ASSUME TInv, NEW t \in Task, Runnable(t), Succeed(t) \/ FailAttempt(t)
  PROVE  TasksOK'
<1>1. tries[t] \in 0..MaxTries /\ tries[t] < MaxTries
  BY DEF TInv, TypeOK, TriesLeft, Runnable
<1>2. tries' = [tries EXCEPT ![t] = @ + 1] /\ tries[t] + 1 \in 0..MaxTries
  BY <1>1, BoundAssumption DEF Succeed, FailAttempt
<1>3. state' = [state EXCEPT ![t] = "success"]
      \/ state' = [state EXCEPT ![t] = IF tries[t] + 1 < MaxTries THEN "up_for_retry" ELSE "failed"]
  BY DEF Succeed, FailAttempt
<1>4. state' \in [Task -> {"none", "up_for_retry"} \cup Done] /\ tries' \in [Task -> 0..MaxTries]
  BY <1>2, <1>3 DEF TInv, TypeOK, Done
<1>5. TriesLeft'
  BY <1>2, <1>3 DEF TInv, TypeOK, TriesLeft, Done
<1>6. QED
  BY <1>4, <1>5 DEF TasksOK

(* What a task writes, readable or not, is of the declared types.          *)
RowsOK == unreadable' \subseteq Task /\ blanks' \in 0..MaxBlanks

LEMMA RowsTypes ==
  ASSUME TInv, NEW t \in Task, Rows(t) PROVE RowsOK
BY BoundAssumption DEF TInv, TypeOK, Rows, RowsOK

LEMMA CopyTypes ==
  ASSUME TInv, NEW s \in Source, Copy(s)
  PROVE  bronze' \subseteq Source /\ unreadable' \subseteq Task
BY TaskMembers DEF TInv, TypeOK, Copy

LEMMA StoreTypes ==
  ASSUME TInv, NEW j \in Job, Store(j) PROVE silver' \subseteq Job /\ RowsOK
<1>1. Silver(j) \in Task
  BY TaskMembers
<1>2. QED
  BY <1>1, RowsTypes DEF TInv, TypeOK, Store, RowsOK

LEMMA TInvStep == TInv /\ [Next]_vars => TInv'
<1> SUFFICES ASSUME TInv, [Next]_vars PROVE TInv'
  OBVIOUS
<1> USE DEF data, environment
<1>0. /\ {Preflight, BuildGold} \subseteq Task /\ Sensor \subseteq Task
      /\ \A s \in Source : {Gate(s), Ingest(s), ToBronze(s)} \subseteq Task
      /\ \A j \in Job : Silver(j) \in Task
  BY TaskMembers DEF Sensor
<1>1. CASE CheckSourceDb
  BY <1>0, <1>1, AttemptTypes DEF CheckSourceDb, TInv, TypeOK, TasksOK
<1>2. ASSUME NEW s \in Source, RunGate(s) PROVE TInv'
  <2>1. Gate(s) \in Task /\ tries[Gate(s)] \in 0..MaxTries /\ tries[Gate(s)] < MaxTries
    BY <1>0, <1>2 DEF RunGate, Runnable, TInv, TypeOK, TriesLeft
  <2>2. state' \in [Task -> {"none", "up_for_retry"} \cup Done] /\ tries' \in [Task -> 0..MaxTries]
    BY <1>2, <2>1, BoundAssumption DEF RunGate, TInv, TypeOK, Done
  <2>3. TriesLeft'
    BY <1>2, <2>1 DEF RunGate, TInv, TypeOK, TriesLeft
  <2>4. QED
    BY <1>2, <2>2, <2>3 DEF RunGate, TInv, TypeOK
<1>3. ASSUME NEW s \in Source, RunIngest(s) PROVE TInv'
  BY <1>0, <1>3, AttemptTypes, RowsTypes DEF RunIngest, TInv, TypeOK, TasksOK, RowsOK
<1>4. ASSUME NEW s \in Source, RunToBronze(s) PROVE TInv'
  <2>1. TasksOK'
    BY <1>0, <1>4, AttemptTypes DEF RunToBronze
  <2>2. bronze' \subseteq Source /\ unreadable' \subseteq Task
    BY <1>4, CopyTypes DEF RunToBronze, TInv, TypeOK
  <2>3. QED
    BY <1>4, <2>1, <2>2 DEF RunToBronze, TInv, TypeOK, TasksOK
<1>5. ASSUME NEW j \in Job, RunSilver(j) PROVE TInv'
  <2>1. TasksOK'
    BY <1>0, <1>5, AttemptTypes DEF RunSilver
  <2>2. silver' \subseteq Job /\ RowsOK
    BY <1>5, StoreTypes DEF RunSilver, RowsOK, TInv, TypeOK
  <2>3. QED
    BY <1>5, <2>1, <2>2 DEF RunSilver, RowsOK, TInv, TypeOK, TasksOK
<1>6. CASE RunGold
  BY <1>0, <1>6, AttemptTypes DEF RunGold, TInv, TypeOK, TasksOK
<1>7. ASSUME NEW sensor \in Sensor, Poke(sensor) PROVE TInv'
  BY <1>0, <1>7, AttemptTypes DEF Poke, TInv, TypeOK, TasksOK
<1>8. ASSUME NEW t \in Task, Propagate(t) PROVE TInv'
  BY <1>8 DEF Propagate, TInv, TypeOK, TriesLeft, Done
<1>9. ASSUME NEW sensor \in Sensor, TimeOut(sensor) PROVE TInv'
  <2>1. sensor \in Task /\ tries[sensor] \in 0..MaxTries /\ tries[sensor] < MaxTries
    BY <1>0, <1>9 DEF TimeOut, Runnable, TInv, TypeOK, TriesLeft
  <2>2. timeouts' \in 0..MaxTimeOuts
    BY <1>9, BoundAssumption DEF TimeOut, TInv, TypeOK
  <2>3. TypeOK'
    BY <1>9, <2>1, <2>2, BoundAssumption DEF TimeOut, TInv, TypeOK, Done
  <2>4. TriesLeft'
    BY <1>9, <2>1 DEF TimeOut, TInv, TypeOK, TriesLeft
  <2>5. QED
    BY <2>3, <2>4 DEF TInv
<1>10. ASSUME NEW t \in Task, Fault(t) PROVE TInv'
  <2>1. TasksOK'
    BY <1>10, AttemptTypes DEF Fault
  <2>2. faults' \in 0..MaxFaults
    BY <1>10, BoundAssumption DEF Fault, TInv, TypeOK
  <2>3. t[1] = "ingest" => t[2] \in Source
    BY IngestNames
  <2>4. /\ landing' \subseteq Source /\ bronze' \subseteq Source /\ silver' \subseteq Job
        /\ goldBuilt' \in BOOLEAN /\ RowsOK
    <3> USE DEF TInv, TypeOK, RowsOK
    <3>1. CASE UNCHANGED <<data, blanks>>
      BY <3>1
    <3>2. CASE /\ t[1] = "ingest" /\ landing' = landing \cup {t[2]} /\ Rows(t)
               /\ UNCHANGED <<bronze, silver, goldBuilt>>
      BY <2>3, <3>2, RowsTypes
    <3>3. CASE /\ t[1] = "to_bronze" /\ Copy(t[2])
               /\ UNCHANGED <<landing, silver, goldBuilt, blanks>>
      BY <3>3, TaskNames, CopyTypes
    <3>4. CASE /\ t[1] = "silver" /\ Store(t[2])
               /\ UNCHANGED <<landing, bronze, goldBuilt>>
      BY <3>4, TaskNames, StoreTypes
    <3>5. CASE goldBuilt' = TRUE /\ UNCHANGED <<landing, bronze, silver, unreadable, blanks>>
      BY <3>5
    <3>6. QED
      BY <1>10, <3>1, <3>2, <3>3, <3>4, <3>5 DEF Fault, Written
  <2>5. QED
    BY <1>10, <2>1, <2>2, <2>4 DEF Fault, TInv, TypeOK, TasksOK, RowsOK
<1>11. ASSUME NEW dag, NEW t \in dag, Clear(dag, t) PROVE TInv'
  <2>1. clears' \in 0..MaxClears
    BY <1>11, BoundAssumption DEF Clear, TInv, TypeOK
  <2>2. 0 \in 0..MaxTries /\ 0 < MaxTries
    BY BoundAssumption
  <2>3. TypeOK'
    BY <1>11, <2>1, <2>2 DEF Clear, TInv, TypeOK
  <2>4. TriesLeft'
    BY <1>11, <2>2 DEF Clear, TInv, TypeOK, TriesLeft
  <2>5. QED
    BY <2>3, <2>4 DEF TInv
<1>12. ASSUME NEW s \in Source, Expire(s) PROVE TInv'
  <2>1. expiries' \in 0..MaxExpiries
    BY <1>12, BoundAssumption DEF Expire, TInv, TypeOK
  <2>2. QED
    BY <1>12, <2>1 DEF Expire, TInv, TypeOK, TriesLeft
<1>13. CASE UNCHANGED vars
  BY <1>13 DEF vars, TInv, TypeOK, TriesLeft
<1>14. QED
  BY <1>1, <1>2, <1>3, <1>4, <1>5, <1>6, <1>7, <1>8, <1>9, <1>10, <1>11, <1>12, <1>13
     DEF Next, Work

LEMMA TInvInit == Init => TInv
<1> SUFFICES ASSUME Init PROVE TInv
  OBVIOUS
<1>1. MaxTries > 0 /\ 0 \in 0..MaxTries /\ 0 \in 0..MaxFaults /\ 0 \in 0..MaxClears
      /\ 0 \in 0..MaxTimeOuts /\ 0 \in 0..MaxExpiries /\ 0 \in 0..MaxBlanks
  BY BoundAssumption
<1>2. TypeOK
  BY <1>1 DEF Init, TypeOK
<1>3. TriesLeft
  BY <1>1 DEF Init, TriesLeft
<1>4. QED
  BY <1>2, <1>3 DEF TInv

(* The state of a date is always of its declared type; in particular no    *)
(* task is ever tried more often than its retries allow (TypeOK).          *)
THEOREM TypeCorrect == Spec => []TypeOK
<1>1. TInv => TypeOK
  BY DEF TInv
<1>2. QED
  BY <1>1, TInvInit, TInvStep, PTL DEF Spec
----------------------------------------------------------------------------
(* Progress, in its two halves that need no fairness. First: while a task  *)
(* of the date is unfinished the scheduler has something to do. A task is  *)
(* ready when it may be tried (a sensor when the run it awaits is over),   *)
(* doomed when a task it waits for has failed.                             *)
Ready(t) == Runnable(t) /\ (t \in Sensor => DagState(Awaited(t)) # "running")
Doomed(t) == state[t] = "none" /\ \E u \in Upstream(t) : state[u] \in {"failed", "upstream_failed"}
WorkToDo == (\E t \in Task : state[t] \notin Done) => \E t \in Task : Ready(t) \/ Doomed(t)

(* What that needs of the states of a chain of tasks: a retry still finds  *)
(* what it waited for, and a gate skips a source as a whole.               *)
Retries ==
  \A t \in Task : state[t] = "up_for_retry" => \A u \in Upstream(t) : state[u] = "success"
SkippedWhole == \A s \in Source : state[Ingest(s)] = "skipped" => state[ToBronze(s)] = "skipped"
Chain == Retries /\ SkippedWhole

(* A task waits only for tasks of its own DAG.                             *)
LEMMA OwnDag ==
  ASSUME NEW dag \in {BronzeDag, SilverDag, GoldDag}, NEW t \in Task, NEW u \in Upstream(t), u \in dag
  PROVE  t \in dag
<1> USE DEF Preflight, Gate, Ingest, ToBronze, WaitForBronze, Silver, WaitForSilver, BuildGold,
            Upstream
<1>1. CASE t \in BronzeDag
  BY <1>1 DEF BronzeDag, SilverDag, GoldDag
<1>2. CASE t \in SilverDag
  BY <1>2, ConfigAssumption DEF BronzeDag, SilverDag, GoldDag
<1>3. CASE t \in GoldDag
  BY <1>3 DEF BronzeDag, SilverDag, GoldDag
<1>4. QED
  BY <1>1, <1>2, <1>3 DEF Task

(* Clearing a task reaches no other DAG, and clears the Bronze task of a   *)
(* source with its ingestion.                                              *)
LEMMA ClearedTasks ==
  ASSUME NEW dag \in {BronzeDag, SilverDag, GoldDag}, NEW t \in dag
  PROVE  /\ Downstream(t) \subseteq dag
         /\ \A s \in Source : ToBronze(s) \in Downstream(t) =>
              t = ToBronze(s) \/ Ingest(s) \in Downstream(t)
<1>1. ASSUME NEW tasks, tasks \subseteq dag PROVE Below(tasks) \subseteq dag
  BY <1>1, OwnDag DEF Below
<1>2. {t} \subseteq dag
  OBVIOUS
<1>3. Below({t}) \subseteq dag
  BY <1>1, <1>2
<1>4. Below(Below({t})) \subseteq dag
  BY <1>1, <1>3
<1>5. Downstream(t) \subseteq dag
  BY <1>1, <1>4 DEF Downstream
<1>6. ASSUME NEW tasks, NEW s \in Source, ToBronze(s) \in Below(tasks)
      PROVE  ToBronze(s) \in tasks \/ Ingest(s) \in tasks
  BY <1>6, IngestFacts DEF Below
<1>7. ASSUME NEW tasks PROVE tasks \subseteq Below(tasks)
  BY DEF Below
<1>8. ASSUME NEW s \in Source, ToBronze(s) \in Downstream(t)
      PROVE  t = ToBronze(s) \/ Ingest(s) \in Downstream(t)
  <2>1. CASE Ingest(s) \in Below(Below({t}))
    BY <2>1, <1>7 DEF Downstream
  <2>2. CASE ToBronze(s) \in Below(Below({t}))
    <3>1. CASE Ingest(s) \in Below({t})
      BY <3>1, <1>7 DEF Downstream
    <3>2. CASE ToBronze(s) \in Below({t})
      <4>1. CASE Ingest(s) \in {t}
        BY <4>1, <1>7 DEF Downstream
      <4>2. QED
        BY <3>2, <4>1, <1>6
    <3>3. QED
      BY <2>2, <3>1, <3>2, <1>6
  <2>3. QED
    BY <1>8, <2>1, <2>2, <1>6 DEF Downstream
<1>9. QED
  BY <1>5, <1>8

(* Nothing but its Bronze task waits for an ingestion, and nothing waits   *)
(* for a Bronze task.                                                      *)
LEMMA WaitsForIngest ==
  ASSUME NEW t \in Task, NEW s
  PROVE  /\ Ingest(s) \in Upstream(t) => t = ToBronze(s)
         /\ ToBronze(s) \notin Upstream(t)
<1> USE DEF Preflight, Gate, Ingest, ToBronze, WaitForBronze, Silver, WaitForSilver, BuildGold,
            Upstream
<1>1. CASE t \in BronzeDag
  BY <1>1 DEF BronzeDag
<1>2. CASE t \in SilverDag
  BY <1>2 DEF SilverDag
<1>3. CASE t \in GoldDag
  BY <1>3 DEF GoldDag
<1>4. QED
  BY <1>1, <1>2, <1>3 DEF Task

(* A step that changes the state of one unfinished task, by an attempt of  *)
(* it or because a task above it has failed.                               *)
LEMMA OneTaskChanges ==
  ASSUME Shape, Chain, NEW t \in Task, state[t] \in {"none", "up_for_retry"},
         \A u \in Task : u # t => state'[u] = state[u],
         state'[t] # "skipped",
         state'[t] = "up_for_retry" => Runnable(t)
  PROVE  Chain'
<1>1. Retries'
  <2> SUFFICES ASSUME NEW u \in Task, state'[u] = "up_for_retry", NEW w \in Upstream(u)
               PROVE  state'[w] = "success"
    BY DEF Retries
  <2>1. w \in Task
    BY UpstreamInTask
  <2>2. state[w] = "success"
    BY DEF Chain, Retries, Runnable
  <2>3. QED
    BY <2>1, <2>2
<1>2. SkippedWhole'
  BY TaskMembers DEF Chain, SkippedWhole
<1>3. QED
  BY <1>1, <1>2 DEF Chain

LEMMA AttemptKeepsChain ==
  ASSUME Shape, Chain, NEW t \in Task, Runnable(t), Succeed(t) \/ FailAttempt(t)
  PROVE  Chain'
<1>1. \A u \in Task : u # t => state'[u] = state[u]
  BY DEF Succeed, FailAttempt, Shape
<1>2. state'[t] \in {"success", "up_for_retry", "failed"}
  BY DEF Succeed, FailAttempt, Shape
<1>3. QED
  BY <1>1, <1>2, OneTaskChanges DEF Runnable

LEMMA ChainStep == IInv /\ Chain /\ [Next]_vars => Chain'
<1> SUFFICES ASSUME IInv, Chain, [Next]_vars PROVE Chain'
  OBVIOUS
<1>0. /\ {Preflight, BuildGold} \subseteq Task /\ Sensor \subseteq Task
      /\ \A s \in Source : {Gate(s), Ingest(s), ToBronze(s)} \subseteq Task
      /\ \A j \in Job : Silver(j) \in Task
      /\ Shape
  BY TaskMembers DEF Sensor, IInv
<1>1. CASE CheckSourceDb
  BY <1>0, <1>1, AttemptKeepsChain DEF CheckSourceDb
<1>2. ASSUME NEW s \in Source, RunGate(s) PROVE Chain'
  <2>1. \A u \in Task : state'[u] = IF u = Gate(s) THEN "success"
                        ELSE IF u \in {Ingest(s), ToBronze(s)} /\ ~OnCadence(s) THEN "skipped"
                        ELSE state[u]
    BY <1>2 DEF RunGate
  <2>2. Retries'
    <3> SUFFICES ASSUME NEW u \in Task, state'[u] = "up_for_retry", NEW w \in Upstream(u)
                 PROVE  state'[w] = "success"
      BY DEF Retries
    <3>1. w \in Task /\ state[u] = "up_for_retry" /\ state[w] = "success"
      BY <2>1, UpstreamInTask DEF Chain, Retries
    <3>2. w = Ingest(s) => u = ToBronze(s) /\ OnCadence(s)
      BY <2>1, WaitsForIngest, Distinct
    <3>3. w # ToBronze(s)
      BY WaitsForIngest
    <3>4. QED
      BY <2>1, <3>1, <3>2, <3>3
  <2>3. SkippedWhole'
    BY <1>0, <2>1, IngestFacts, Distinct DEF Chain, SkippedWhole
  <2>4. QED
    BY <2>2, <2>3 DEF Chain
<1>3. ASSUME NEW s \in Source, RunIngest(s) PROVE Chain'
  BY <1>0, <1>3, AttemptKeepsChain DEF RunIngest
<1>4. ASSUME NEW s \in Source, RunToBronze(s) PROVE Chain'
  BY <1>0, <1>4, AttemptKeepsChain DEF RunToBronze
<1>5. ASSUME NEW j \in Job, RunSilver(j) PROVE Chain'
  BY <1>0, <1>5, AttemptKeepsChain DEF RunSilver
<1>6. CASE RunGold
  BY <1>0, <1>6, AttemptKeepsChain DEF RunGold
<1>7. ASSUME NEW sensor \in Sensor, Poke(sensor) PROVE Chain'
  BY <1>0, <1>7, AttemptKeepsChain DEF Poke
<1>8. ASSUME NEW t \in Task, Propagate(t) PROVE Chain'
  BY <1>0, <1>8, OneTaskChanges DEF Propagate, Shape
<1>9. ASSUME NEW sensor \in Sensor, TimeOut(sensor) PROVE Chain'
  <2>1. sensor \in Task /\ state[sensor] \in {"none", "up_for_retry"}
    BY <1>0, <1>9 DEF TimeOut, Runnable
  <2>2. /\ \A u \in Task : u # sensor => state'[u] = state[u]
        /\ state'[sensor] = "failed"
    BY <1>0, <1>9 DEF TimeOut, Shape
  <2>3. QED
    BY <1>0, <2>1, <2>2, OneTaskChanges
<1>10. ASSUME NEW t \in Task, Fault(t) PROVE Chain'
  BY <1>0, <1>10, AttemptKeepsChain DEF Fault
<1>11. ASSUME NEW dag \in {BronzeDag, SilverDag, GoldDag}, NEW t \in dag, Clear(dag, t)
       PROVE  Chain'
  <2>1. \A u \in Task : state'[u] = IF u \in Downstream(t) THEN "none" ELSE state[u]
    BY <1>11 DEF Clear
  <2>2. (\A u \in dag : state[u] \in Done) /\ state[t] \in {"success", "failed"}
    BY <1>11 DEF Clear, DagState
  <2>3. Retries'
    <3> SUFFICES ASSUME NEW u \in Task, state'[u] = "up_for_retry", NEW w \in Upstream(u)
                 PROVE  state'[w] = "success"
      BY DEF Retries
    <3>1. w \in Task /\ state[u] = "up_for_retry" /\ state[w] = "success"
      BY <2>1, UpstreamInTask DEF Chain, Retries
    <3>2. u \notin dag
      BY <2>2, <3>1 DEF Done
    <3>3. w \notin Downstream(t)
      BY <1>11, <3>2, OwnDag, ClearedTasks
    <3>4. QED
      BY <2>1, <3>1, <3>3
  <2>4. SkippedWhole'
    <3> SUFFICES ASSUME NEW s \in Source, state'[Ingest(s)] = "skipped"
                 PROVE  state'[ToBronze(s)] = "skipped"
      BY DEF SkippedWhole
    <3>1. Ingest(s) \notin Downstream(t) /\ state[ToBronze(s)] = "skipped"
      BY <1>0, <2>1 DEF Chain, SkippedWhole
    <3>2. ToBronze(s) \notin Downstream(t)
      BY <1>11, <2>2, <3>1, ClearedTasks
    <3>3. QED
      BY <1>0, <2>1, <3>1, <3>2
  <2>5. QED
    BY <2>3, <2>4 DEF Chain
<1>12. CASE UNCHANGED state
  BY <1>12 DEF Chain, Retries, SkippedWhole
<1>13. QED
  BY <1>1, <1>2, <1>3, <1>4, <1>5, <1>6, <1>7, <1>8, <1>9, <1>10, <1>11, <1>12
     DEF Next, Work, Expire, vars

(* A task with nothing to do waits for an unfinished or a skipped one.     *)
LEMMA Waiting ==
  ASSUME Shape, Chain, NEW t \in Task, t \notin Sensor, state[t] \notin Done, ~Ready(t), ~Doomed(t)
  PROVE  \E u \in Upstream(t) : state[u] \notin Done \/ state[u] = "skipped"
<1>1. state[t] \in {"none", "up_for_retry"}
  BY DEF Shape
<1>2. PICK u \in Upstream(t) : state[u] # "success"
  BY <1>1 DEF Ready, Runnable
<1>3. state[t] = "none"
  BY <1>1, <1>2 DEF Chain, Retries
<1>4. state[u] \notin {"failed", "upstream_failed"}
  BY <1>3 DEF Doomed
<1>5. QED
  BY <1>2, <1>4 DEF Done

(* With nothing to do, the DAGs are over, one after the other.             *)
LEMMA NothingToDo ==
  ASSUME IInv, Chain, \A t \in Task : ~Ready(t) /\ ~Doomed(t)
  PROVE  \A t \in Task : state[t] \in Done
<1>0. /\ \A t \in Task : ~(t \in Sensor) /\ state[t] \notin Done =>
           \E u \in Upstream(t) : state[u] \notin Done \/ state[u] = "skipped"
      /\ \A s \in Source : {Gate(s), Ingest(s), ToBronze(s)} \subseteq Task \ Sensor
      /\ \A j \in Job : Silver(j) \in Task \ Sensor
      /\ {Preflight, BuildGold} \subseteq Task \ Sensor /\ Sensor \subseteq Task
  <2>1. \A r : {Gate(r), Ingest(r), ToBronze(r), Silver(r)} \cap Sensor = {}
    BY Distinct DEF Sensor
  <2>2. {Preflight, BuildGold} \cap Sensor = {} /\ Sensor \subseteq Task
    BY Distinct, TaskMembers DEF Sensor
  <2>3. ASSUME NEW t \in Task, t \notin Sensor, state[t] \notin Done
        PROVE  \E u \in Upstream(t) : state[u] \notin Done \/ state[u] = "skipped"
    BY <2>3, Waiting DEF IInv
  <2>4. QED
    BY <2>1, <2>2, <2>3, TaskMembers
<1>1. /\ Upstream(Preflight) = {} /\ Upstream(WaitForBronze) = {} /\ Upstream(WaitForSilver) = {}
      /\ \A s \in Source : Upstream(Gate(s)) = {Preflight} /\ Upstream(Ingest(s)) = {Gate(s)}
  BY DEF Upstream, Preflight, Gate, Ingest, WaitForBronze, WaitForSilver
<1>2. ASSUME NEW t \in Task, \A s \in Source : t \notin {Ingest(s), ToBronze(s)}
      PROVE  state[t] # "skipped"
  BY <1>2 DEF IInv, Skips
<1>3. /\ \A s \in Source : \A r \in Source : Gate(s) \notin {Ingest(r), ToBronze(r)}
      /\ \A r \in Source : Preflight \notin {Ingest(r), ToBronze(r)}
      /\ \A r \in Source : WaitForBronze \notin {Ingest(r), ToBronze(r)}
      /\ \A r \in Source : WaitForSilver \notin {Ingest(r), ToBronze(r)}
      /\ \A j \in Job : \A r \in Source : Silver(j) \notin {Ingest(r), ToBronze(r)}
  BY Distinct, IngestFacts
<1>4. state[Preflight] \in Done
  BY <1>0, <1>1
<1>5. ASSUME NEW s \in Source PROVE {state[Gate(s)], state[Ingest(s)], state[ToBronze(s)]} \subseteq Done
  <2>1. state[Gate(s)] \in Done
    BY <1>0, <1>1, <1>2, <1>3, <1>4
  <2>2. state[Ingest(s)] \in Done
    BY <1>0, <1>1, <1>2, <1>3, <2>1
  <2>3. state[ToBronze(s)] \in Done
    <3>1. state[ToBronze(s)] \notin Done => state[Ingest(s)] = "skipped"
      BY <1>0, <2>2, IngestFacts
    <3>2. QED
      BY <3>1 DEF Chain, SkippedWhole, Done
  <2>4. QED
    BY <2>1, <2>2, <2>3
<1>6. \A t \in BronzeDag : state[t] \in Done
  BY <1>4, <1>5 DEF BronzeDag
<1>7. ASSUME NEW sensor \in Sensor, \A t \in Awaited(sensor) : state[t] \in Done
      PROVE  state[sensor] \in Done
  <2>1. DagState(Awaited(sensor)) # "running"
    BY <1>7 DEF DagState
  <2>2. ~Runnable(sensor)
    BY <1>0, <2>1 DEF Ready
  <2>3. Upstream(sensor) = {}
    BY <1>1 DEF Sensor
  <2>4. QED
    BY <1>0, <2>2, <2>3 DEF Runnable, IInv, Shape
<1>8. state[WaitForBronze] \in Done
  BY <1>6, <1>7 DEF Sensor, Awaited
<1>9. ASSUME NEW j \in Job PROVE state[Silver(j)] \in Done
  <2>1. ASSUME NEW i \in Job \ {LinesJob} PROVE state[Silver(i)] \in Done
    BY <1>0, <1>2, <1>3, <1>8, TaskMembers, UpstreamFacts
  <2>2. state[Silver(OrdersJob)] \in Done /\ state[Silver(OrdersJob)] # "skipped"
    BY <1>0, <1>2, <1>3, <2>1, ConfigAssumption
  <2>3. CASE j = LinesJob
    BY <1>0, <2>2, <2>3, UpstreamFacts
  <2>4. QED
    BY <2>1, <2>3
<1>10. \A t \in SilverDag : state[t] \in Done
  BY <1>8, <1>9 DEF SilverDag
<1>11. state[WaitForSilver] \in Done
  BY <1>7, <1>10, Distinct DEF Sensor, Awaited
<1>12. state[BuildGold] \in Done
  BY <1>0, <1>2, <1>3, <1>11, TaskMembers, UpstreamFacts
<1>13. QED
  BY <1>6, <1>10, <1>11, <1>12 DEF Task, GoldDag

(* The scheduler never waits for ever on a task that cannot move: while    *)
(* the date is unfinished some task may be tried, poked to an answer or    *)
(* given up, through retries, skips, timeouts and clears.                  *)
THEOREM WorkToDoAlways == Spec => []WorkToDo
<1>1. Init => Chain
  BY TaskMembers DEF Init, Chain, Retries, SkippedWhole
<1>2. IInv /\ Chain => WorkToDo
  BY NothingToDo DEF WorkToDo
<1>3. QED
  BY <1>1, <1>2, InductiveInvariant, ChainStep, PTL DEF Spec
----------------------------------------------------------------------------
(* Second: the work runs out. A task has left the attempts it may still    *)
(* make and the step that ends it; every step of the scheduler takes from  *)
(* that, and nothing but a clear gives any back. So between two clears     *)
(* there are at most |Task| * (MaxTries + 1) steps of Work.                *)
Left(t) == IF state[t] \in Done THEN 0 ELSE MaxTries + 1 - tries[t]
NoneRises == \A t \in Task : Left(t)' <= Left(t)
Fewer == NoneRises /\ \E t \in Task : Left(t)' < Left(t)
Progress == (Work => Fewer) /\ (clears' = clears => NoneRises)

(* The attempts left of a task whose state a step changes.                 *)
LEMMA FewerByOne ==
  ASSUME TInv, TypeOK', NEW t \in Task, state[t] \notin Done,
         state'[t] \in Done \/ tries'[t] = tries[t] + 1,
         \A u \in Task : u # t => tries'[u] = tries[u] /\ (state'[u] = state[u] \/ state'[u] \in Done)
  PROVE  Fewer
<1>1. \A u \in Task : tries[u] \in 0..MaxTries /\ tries'[u] \in 0..MaxTries
  BY DEF TInv, TypeOK
<1>2. MaxTries \in Nat
  BY BoundAssumption
<1>3. \A u \in Task : u # t => Left(u)' <= Left(u)
  BY <1>1, <1>2 DEF Left
<1>4. Left(t)' < Left(t) /\ Left(t)' <= Left(t)
  BY <1>1, <1>2 DEF Left
<1>5. QED
  BY <1>3, <1>4 DEF Fewer, NoneRises

LEMMA AttemptIsFewer ==
  ASSUME TInv, TypeOK', NEW t \in Task, Runnable(t), Succeed(t) \/ FailAttempt(t)
  PROVE  Fewer
<1>1. state[t] \notin Done
  BY DEF Runnable, Done
<1>2. /\ tries'[t] = tries[t] + 1
      /\ \A u \in Task : u # t => tries'[u] = tries[u] /\ state'[u] = state[u]
  BY DEF Succeed, FailAttempt, TInv, TypeOK
<1>3. QED
  BY <1>1, <1>2, FewerByOne

LEMMA ProgressStep == TInv /\ TInv' /\ [Next]_vars => [Progress]_vars
<1> SUFFICES ASSUME TInv, TypeOK', Next PROVE Progress
  BY DEF TInv
<1> USE DEF data, environment
<1>0. /\ {Preflight, BuildGold} \subseteq Task /\ Sensor \subseteq Task
      /\ \A s \in Source : {Gate(s), Ingest(s), ToBronze(s)} \subseteq Task
      /\ \A j \in Job : Silver(j) \in Task
  BY TaskMembers DEF Sensor
<1>1. ASSUME Work PROVE Fewer
  <2>1. CASE CheckSourceDb
    BY <1>0, <2>1, AttemptIsFewer DEF CheckSourceDb
  <2>2. ASSUME NEW s \in Source, RunGate(s) PROVE Fewer
    <3>1. Gate(s) \in Task /\ state[Gate(s)] \notin Done
      BY <1>0, <2>2 DEF RunGate, Runnable, Done
    <3>2. /\ state'[Gate(s)] = "success"
          /\ \A u \in Task : u # Gate(s) => tries'[u] = tries[u]
                                          /\ (state'[u] = state[u] \/ state'[u] = "skipped")
      BY <1>0, <2>2 DEF RunGate, TInv, TypeOK
    <3>3. QED
      BY <3>1, <3>2, FewerByOne DEF Done
  <2>3. ASSUME NEW s \in Source, RunIngest(s) PROVE Fewer
    BY <1>0, <2>3, AttemptIsFewer DEF RunIngest
  <2>4. ASSUME NEW s \in Source, RunToBronze(s) PROVE Fewer
    BY <1>0, <2>4, AttemptIsFewer DEF RunToBronze
  <2>5. ASSUME NEW j \in Job, RunSilver(j) PROVE Fewer
    BY <1>0, <2>5, AttemptIsFewer DEF RunSilver
  <2>6. CASE RunGold
    BY <1>0, <2>6, AttemptIsFewer DEF RunGold
  <2>7. ASSUME NEW sensor \in Sensor, Poke(sensor) PROVE Fewer
    BY <1>0, <2>7, AttemptIsFewer DEF Poke
  <2>8. ASSUME NEW t \in Task, Propagate(t) PROVE Fewer
    <3>1. state[t] \notin Done /\ state'[t] \in Done
      BY <2>8 DEF Propagate, TInv, TypeOK, Done
    <3>2. \A u \in Task : u # t => tries'[u] = tries[u] /\ state'[u] = state[u]
      BY <2>8 DEF Propagate, TInv, TypeOK
    <3>3. QED
      BY <3>1, <3>2, FewerByOne
  <2>9. QED
    BY <1>1, <2>1, <2>2, <2>3, <2>4, <2>5, <2>6, <2>7, <2>8 DEF Work
<1>2. ASSUME NEW sensor \in Sensor, TimeOut(sensor) PROVE Fewer
  <2>1. sensor \in Task /\ state[sensor] \notin Done
    BY <1>0, <1>2 DEF TimeOut, Runnable, Done
  <2>2. /\ state'[sensor] = "failed"
        /\ \A u \in Task : u # sensor => tries'[u] = tries[u] /\ state'[u] = state[u]
    BY <1>2, <2>1 DEF TimeOut, TInv, TypeOK
  <2>3. QED
    BY <2>1, <2>2, FewerByOne DEF Done
<1>3. ASSUME NEW t \in Task, Fault(t) PROVE Fewer
  BY <1>3, AttemptIsFewer DEF Fault
<1>4. ASSUME NEW dag, NEW t \in dag, Clear(dag, t) PROVE clears' # clears /\ ~Work
  <2>1. clears' # clears
    BY <1>4, BoundAssumption DEF Clear, TInv, TypeOK
  <2>2. Work => clears' = clears
    BY DEF Work, CheckSourceDb, RunGate, RunIngest, RunToBronze, RunSilver, RunGold, Poke, Propagate
  <2>3. QED
    BY <2>1, <2>2
<1>5. ASSUME NEW s \in Source, Expire(s) PROVE NoneRises
  <2>1. \A u \in Task : tries[u] \in 0..MaxTries /\ tries'[u] = tries[u] /\ state'[u] = state[u]
    BY <1>5 DEF Expire, TInv, TypeOK
  <2>2. QED
    BY <2>1, BoundAssumption DEF NoneRises, Left
<1>6. clears' = clears => NoneRises
  BY <1>1, <1>2, <1>3, <1>4, <1>5 DEF Next, Fewer
<1>7. QED
  BY <1>1, <1>6 DEF Progress

(* The scheduler's work runs out: no task is tried, skipped or given up    *)
(* without leaving less to do, whatever fails, times out or expires, and   *)
(* only an operator's clear starts a task again.                           *)
THEOREM WorkRunsOut == Spec => [][Progress]_vars
<1>1. Init => TInv
  BY TInvInit
<1>2. QED
  BY <1>1, TInvStep, ProgressStep, PTL DEF Spec
----------------------------------------------------------------------------
(* Retries absorb faults, without the fairness: on a Monday on which Spark *)
(* can read every batch and no sensor gives up, with fewer faults than a   *)
(* task has attempts, each unfinished task has been tried at most once for *)
(* each fault, so none fails for good before Gold is built and some task   *)
(* may always be tried.                                                    *)
Struggling == monday /\ timeouts = 0 /\ blanks = 0 /\ faults < MaxTries /\ ~goldBuilt
GoldIsBuilt == state[BuildGold] = "success" => goldBuilt
AInv ==
  /\ GoldIsBuilt
  /\ Struggling => /\ \A t \in Task : state[t] \in {"none", "up_for_retry", "success"}
                   /\ \A t \in Task : state[t] # "success" => tries[t] <= faults
                   /\ \A s \in Source : state[Ingest(s)] = "success" => s \in landing
FaultsAbsorbed == Struggling => \E t \in Task : Ready(t)

(* A step that leaves each task unchanged, cleared, successful or with one *)
(* more attempt for one more fault.                                        *)
Onward ==
  /\ \A t \in Task :
       \/ state'[t] = state[t] /\ tries'[t] = tries[t]
       \/ state'[t] = "none" /\ tries'[t] = 0
       \/ state'[t] = "success"
       \/ /\ state'[t] = "up_for_retry" /\ tries'[t] = tries[t] + 1
          /\ state[t] # "success" /\ faults' = faults + 1
  /\ landing \subseteq landing'
  /\ \A s \in Source : state'[Ingest(s)] = "success" =>
       state[Ingest(s)] = "success" \/ s \in landing'

LEMMA StillStruggling ==
  ASSUME TInv, TypeOK', AInv, monday' = monday, Struggling' => Struggling, faults <= faults',
         GoldIsBuilt',
         Struggling /\ Struggling' => Onward
  PROVE  AInv'
<1>1. {faults, faults'} \subseteq Nat /\ \A t \in Task : {tries[t], tries'[t]} \subseteq Nat
  BY BoundAssumption DEF TInv, TypeOK
<1>2. ASSUME Struggling'
      PROVE  /\ \A t \in Task : state'[t] \in {"none", "up_for_retry", "success"}
             /\ \A t \in Task : state'[t] # "success" => tries'[t] <= faults'
             /\ \A s \in Source : state'[Ingest(s)] = "success" => s \in landing'
  <2>1. Struggling
    BY <1>2
  <2>2. /\ \A t \in Task : state[t] \in {"none", "up_for_retry", "success"}
        /\ \A t \in Task : state[t] # "success" => tries[t] <= faults
        /\ \A s \in Source : state[Ingest(s)] = "success" => s \in landing
    BY <2>1 DEF AInv
  <2>3. Onward
    BY <1>2, <2>1
  <2>4. \A t \in Task : state'[t] # "success" => tries'[t] <= faults'
    BY <1>1, <2>2, <2>3 DEF Onward
  <2>5. QED
    BY <2>2, <2>3, <2>4 DEF Onward
<1>3. QED
  BY <1>2 DEF AInv

LEMMA AInvStep == IInv /\ CInv /\ TInv /\ TInv' /\ AInv /\ [Next]_vars => AInv'
<1> SUFFICES ASSUME IInv, CInv, TInv, TypeOK', AInv, [Next]_vars PROVE AInv'
  BY DEF TInv
<1> USE DEF data, environment
<1>0. /\ {Preflight, BuildGold} \subseteq Task /\ Sensor \subseteq Task
      /\ \A s \in Source : {Gate(s), Ingest(s), ToBronze(s)} \subseteq Task
      /\ \A j \in Job : Silver(j) \in Task
      /\ {faults, timeouts, faults', timeouts', MaxTries} \subseteq Nat
  BY TaskMembers, BoundAssumption DEF Sensor, TInv, TypeOK
<1>a. ASSUME NEW t \in Task, Succeed(t)
      PROVE  \A u \in Task : IF u = t THEN state'[u] = "success"
                             ELSE state'[u] = state[u] /\ tries'[u] = tries[u]
  BY <1>a DEF Succeed, TInv, TypeOK
<1>b. ASSUME UNCHANGED <<monday, landing, goldBuilt, faults, timeouts>>,
             blanks' = 0 => blanks = 0,
             NEW t \in Task, Struggling => Succeed(t), t # BuildGold,
             \A s \in Source : t # Ingest(s),
             state'[BuildGold] = state[BuildGold]
      PROVE  AInv'
  <2>1. Struggling' => Struggling
    BY <1>b DEF Struggling
  <2>2. Struggling => \A s \in Source : state'[Ingest(s)] = state[Ingest(s)]
    BY <1>0, <1>a, <1>b
  <2>3. Struggling => \A u \in Task : \/ state'[u] = state[u] /\ tries'[u] = tries[u]
                                      \/ state'[u] = "success"
    BY <1>a, <1>b
  <2>4. Struggling => Onward
    BY <1>b, <2>2, <2>3 DEF Onward
  <2>5. faults <= faults'
    BY <1>0, <1>b
  <2>6. GoldIsBuilt'
    BY <1>b DEF GoldIsBuilt, AInv
  <2>7. QED
    BY <1>b, <2>1, <2>4, <2>5, <2>6, StillStruggling
<1>1. CASE CheckSourceDb
  <2>1. Preflight # BuildGold /\ \A s \in Source : Preflight # Ingest(s)
    BY IngestFacts DEF Preflight, BuildGold
  <2>2. QED
    BY <1>0, <1>1, <1>a, <1>b, <2>1 DEF CheckSourceDb
<1>2. ASSUME NEW s \in Source, RunGate(s) PROVE AInv'
  <2>1. Struggling => OnCadence(s)
    BY DEF Struggling, OnCadence
  <2>2. Struggling => Succeed(Gate(s))
    BY <1>2, <2>1 DEF RunGate, Succeed, TInv, TypeOK
  <2>3. BuildGold \notin {Gate(s), Ingest(s), ToBronze(s)} /\ \A r \in Source : Gate(s) # Ingest(r)
    BY IngestFacts DEF BuildGold, Gate, Ingest, ToBronze
  <2>4. state'[BuildGold] = state[BuildGold]
    BY <1>0, <1>2, <2>3 DEF RunGate
  <2>5. QED
    BY <1>0, <1>2, <1>b, <2>2, <2>3, <2>4 DEF RunGate
<1>3. ASSUME NEW s \in Source, RunIngest(s) PROVE AInv'
  <2>1. /\ Succeed(Ingest(s)) /\ UNCHANGED <<monday, goldBuilt, faults, timeouts>>
        /\ landing' = landing \cup {s} /\ Rows(Ingest(s))
    BY <1>3 DEF RunIngest
  <2>2. /\ state'[BuildGold] = state[BuildGold]
        /\ \A r \in Source : r # s => state'[Ingest(r)] = state[Ingest(r)]
    BY <1>0, <1>a, <2>1, IngestFacts
  <2>3. Struggling' => Struggling
    BY <2>1, RowsCounted DEF Struggling
  <2>4. \A u \in Task : \/ state'[u] = state[u] /\ tries'[u] = tries[u]
                        \/ state'[u] = "success"
    BY <1>0, <1>a, <2>1
  <2>5. Onward
    BY <2>1, <2>2, <2>4 DEF Onward
  <2>6. faults <= faults'
    BY <1>0, <2>1
  <2>7. GoldIsBuilt'
    BY <2>1, <2>2 DEF GoldIsBuilt, AInv
  <2>8. QED
    BY <2>1, <2>3, <2>5, <2>6, <2>7, StillStruggling
<1>4. ASSUME NEW s \in Source, RunToBronze(s) PROVE AInv'
  <2>1. Struggling => s \in landing
    BY <1>4, IngestFacts DEF RunToBronze, Runnable, AInv
  <2>2. Struggling => Succeed(ToBronze(s))
    BY <1>4, <2>1 DEF RunToBronze
  <2>3. ToBronze(s) # BuildGold /\ \A r \in Source : ToBronze(s) # Ingest(r)
    BY Distinct DEF BuildGold, ToBronze
  <2>4. state'[BuildGold] = state[BuildGold]
    BY <1>0, <1>4, <2>3 DEF RunToBronze, Succeed, FailAttempt, TInv, TypeOK
  <2>5. QED
    BY <1>0, <1>4, <1>b, <2>2, <2>3, <2>4 DEF RunToBronze
<1>5. ASSUME NEW j \in Job, RunSilver(j) PROVE AInv'
  <2>1. BronzeIsWhole /\ (j = LinesJob => OrdersJob \in silver)
    BY <1>5, SilverStarts DEF RunSilver
  <2>2. Struggling => HasInput(j)
    BY <2>1, ConfigAssumption DEF BronzeIsWhole, HasInput, OnCadence, Struggling, CInv
  <2>3. Struggling => Succeed(Silver(j))
    BY <1>5, <2>2 DEF RunSilver
  <2>4. Silver(j) # BuildGold /\ \A r \in Source : Silver(j) # Ingest(r)
    BY Distinct DEF BuildGold, Silver
  <2>5. state'[BuildGold] = state[BuildGold]
    BY <1>0, <1>5, <2>4 DEF RunSilver, Succeed, FailAttempt, TInv, TypeOK
  <2>6. blanks' = 0 => blanks = 0
    BY <1>5, StoreCounted DEF RunSilver
  <2>7. QED
    BY <1>5, <1>b, <1>0, <2>3, <2>4, <2>5, <2>6 DEF RunSilver
<1>6. CASE RunGold
  BY <1>6 DEF RunGold, AInv, GoldIsBuilt, Struggling
<1>7. ASSUME NEW sensor \in Sensor, Poke(sensor) PROVE AInv'
  <2>1. Struggling => DagState(Awaited(sensor)) # "failed"
    BY TaskMembers DEF AInv, GoldIsBuilt, DagState, Awaited, Leaves
  <2>2. Struggling => Succeed(sensor)
    BY <1>7, <2>1 DEF Poke
  <2>3. sensor # BuildGold /\ \A r \in Source : sensor # Ingest(r)
    BY IngestFacts, Distinct DEF Sensor
  <2>4. state'[BuildGold] = state[BuildGold]
    BY <1>0, <1>7, <2>3 DEF Poke, Succeed, FailAttempt, TInv, TypeOK
  <2>5. QED
    BY <1>0, <1>7, <1>b, <2>2, <2>3, <2>4 DEF Poke
<1>8. ASSUME NEW t \in Task, Propagate(t) PROVE AInv'
  <2>1. PICK u \in Upstream(t) : state[u] \in {"failed", "upstream_failed"}
    BY <1>8 DEF Propagate
  <2>2. u \in Task
    BY <2>1, UpstreamInTask
  <2>3. ~Struggling
    BY <2>1, <2>2 DEF AInv, GoldIsBuilt
  <2>4. state'[BuildGold] = "success" => state[BuildGold] = "success"
    BY <1>0, <1>8 DEF Propagate, TInv, TypeOK
  <2>5. ~Struggling' /\ goldBuilt' = goldBuilt
    BY <1>8, <2>3 DEF Propagate, Struggling
  <2>6. QED
    BY <2>4, <2>5 DEF AInv, GoldIsBuilt
<1>9. ASSUME NEW sensor \in Sensor, TimeOut(sensor) PROVE AInv'
  <2>1. timeouts' = timeouts + 1 /\ goldBuilt' = goldBuilt
    BY <1>9 DEF TimeOut
  <2>2. ~Struggling'
    BY <1>0, <2>1 DEF Struggling
  <2>3. state'[BuildGold] = "success" => state[BuildGold] = "success"
    BY <1>0, <1>9 DEF TimeOut, TInv, TypeOK
  <2>4. QED
    BY <2>1, <2>2, <2>3 DEF AInv, GoldIsBuilt
<1>10. ASSUME NEW t \in Task, Fault(t) PROVE AInv'
  <2>0. landing \subseteq landing' /\ (goldBuilt => goldBuilt') /\ (blanks' = 0 => blanks = 0)
    <3>1. CASE UNCHANGED <<data, blanks>>
      BY <3>1
    <3>2. CASE t[1] = "ingest" /\ landing' = landing \cup {t[2]} /\ Rows(t) /\ UNCHANGED goldBuilt
      BY <3>2, RowsCounted
    <3>3. CASE UNCHANGED <<landing, goldBuilt, blanks>>
      BY <3>3
    <3>4. CASE t[1] = "silver" /\ Store(t[2]) /\ UNCHANGED <<landing, goldBuilt>>
      BY <3>4, TaskNames, StoreCounted
    <3>5. CASE goldBuilt' = TRUE /\ UNCHANGED <<landing, blanks>>
      BY <3>5
    <3>6. QED
      BY <1>10, <3>1, <3>2, <3>3, <3>4, <3>5 DEF Fault, Written
  <2>1. /\ Runnable(t) /\ FailAttempt(t) /\ faults' = faults + 1
        /\ UNCHANGED <<monday, timeouts>>
    BY <1>10 DEF Fault
  <2>2. /\ tries'[t] = tries[t] + 1 /\ state[t] # "success" /\ tries[t] \in Nat
        /\ state'[t] = IF tries[t] + 1 < MaxTries THEN "up_for_retry" ELSE "failed"
        /\ \A u \in Task : u # t => state'[u] = state[u] /\ tries'[u] = tries[u]
    BY <2>1 DEF FailAttempt, Runnable, TInv, TypeOK
  <2>3. Struggling' => Struggling
    BY <1>0, <2>0, <2>1 DEF Struggling
  <2>4. Struggling /\ Struggling' => state'[t] = "up_for_retry"
    BY <1>0, <2>1, <2>2 DEF Struggling, AInv
  <2>5. \A u \in Task : state'[u] = "success" => state[u] = "success"
    BY <2>2
  <2>6. Struggling /\ Struggling' => Onward
    BY <1>0, <2>0, <2>1, <2>2, <2>4, <2>5 DEF Onward
  <2>7. faults <= faults'
    BY <1>0, <2>1
  <2>8. GoldIsBuilt'
    BY <1>0, <2>0, <2>5 DEF GoldIsBuilt, AInv
  <2>9. QED
    BY <2>1, <2>3, <2>6, <2>7, <2>8, StillStruggling
<1>11. ASSUME NEW dag, NEW t \in dag, Clear(dag, t) PROVE AInv'
  <2>1. UNCHANGED <<monday, landing, goldBuilt, faults, timeouts, blanks>>
    BY <1>11 DEF Clear
  <2>2. \A u \in Task : \/ state'[u] = state[u] /\ tries'[u] = tries[u]
                        \/ state'[u] = "none" /\ tries'[u] = 0
    BY <1>11 DEF Clear
  <2>3. Struggling' <=> Struggling
    BY <2>1 DEF Struggling
  <2>4. \A u \in Task : state'[u] = "success" => state[u] = "success"
    BY <2>2
  <2>5. Onward
    BY <1>0, <2>1, <2>2, <2>4 DEF Onward
  <2>6. faults <= faults'
    BY <1>0, <2>1
  <2>7. GoldIsBuilt'
    BY <1>0, <2>1, <2>4 DEF GoldIsBuilt, AInv
  <2>8. QED
    BY <2>1, <2>3, <2>5, <2>6, <2>7, StillStruggling
<1>12. ASSUME NEW s \in Source, Expire(s) PROVE AInv'
  <2>1. /\ \A t \in Task : state[t] \in Done
        /\ UNCHANGED <<monday, state, goldBuilt, faults, timeouts, blanks>>
    BY <1>12 DEF Expire
  <2>2. Struggling => state[BuildGold] = "success"
    BY <1>0, <2>1 DEF AInv, GoldIsBuilt, Done
  <2>3. ~Struggling
    BY <2>2 DEF AInv, GoldIsBuilt, Struggling
  <2>4. QED
    BY <2>1, <2>3 DEF AInv, GoldIsBuilt, Struggling
<1>13. CASE UNCHANGED vars
  BY <1>13 DEF vars, AInv, GoldIsBuilt, Struggling
<1>14. QED
  BY <1>1, <1>2, <1>3, <1>4, <1>5, <1>6, <1>7, <1>8, <1>9, <1>10, <1>11, <1>12, <1>13
     DEF Next, Work

(* On a Monday without a batch that Spark cannot read and without a sensor *)
(* that gives up, fewer faults than a task has attempts leave, until Gold  *)
(* is built, some task that may be tried: nothing has failed and nothing   *)
(* is doomed. As every step of the scheduler leaves less to do             *)
(* (WorkRunsOut), Gold is what it comes to.                                *)
THEOREM FaultsAbsorbedAlways == Spec => []FaultsAbsorbed
<1>1. Init => AInv /\ Chain /\ TInv /\ CInv
  BY TaskMembers, EarlyFacts, TInvInit
     DEF Init, AInv, GoldIsBuilt, Chain, Retries, SkippedWhole, CInv
<1>2. IInv /\ Chain /\ AInv => FaultsAbsorbed
  <2> SUFFICES ASSUME IInv, Chain, AInv, Struggling, \A t \in Task : ~Ready(t) PROVE FALSE
    BY DEF FaultsAbsorbed
  <2>1. \A t \in Task : ~Doomed(t)
    BY UpstreamInTask DEF AInv, GoldIsBuilt, Doomed
  <2>2. state[BuildGold] \in Done /\ BuildGold \in Task
    BY <2>1, NothingToDo, TaskMembers
  <2>3. QED
    BY <2>2 DEF AInv, GoldIsBuilt, Struggling, Done
<1>3. QED
  BY <1>1, <1>2, InductiveInvariant, CInvStep, TInvStep, ChainStep, AInvStep, PTL DEF Spec
=============================================================================
