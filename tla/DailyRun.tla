----------------------------- MODULE DailyRun -----------------------------
(***************************************************************************)
(* One logical date of the three chained DAGs (airflow/dags/): Bronze      *)
(* ingestion, Silver transform, Gold build. Each task is tried up to       *)
(* 1 + retries times; a DAG starts its work when its ExternalTaskSensor    *)
(* sees the run of the DAG before it succeed, and fails when it sees it    *)
(* fail. The scheduler's rules (trigger rule all_success, the state of a   *)
(* DAG run, short-circuiting, sensors) are Airflow's, as these DAGs use    *)
(* them.                                                                   *)
(***************************************************************************)
EXTENDS Integers, FiniteSets

CONSTANTS
  Source,              \* configured sources
  Weekly,              \* those with schedule "@weekly"
  Job,                 \* Silver jobs
  JobSource,           \* the source whose Bronze partition a job reads
  OrdersJob, LinesJob, \* sales_orders, and sales_order_lines that waits for it
  MaxTries,            \* attempts of a task: 1 + retries
  MaxFaults,           \* bound: attempts that die of a passing fault
  MaxClears,           \* bound: tasks an operator clears, with all below them
  MaxTimeOuts,         \* bound: sensors that give up while they are still waiting
  MaxExpiries,         \* bound: landing objects removed by their bucket's lifecycle rule
  MaxBlanks            \* bound: batches written that Spark cannot read (see Rows)

ASSUME ConfigAssumption ==
  /\ Weekly \subseteq Source /\ JobSource \in [Job -> Source]
  /\ {OrdersJob, LinesJob} \subseteq Job /\ OrdersJob # LinesJob
ASSUME BoundAssumption ==
  /\ MaxTries \in Nat \ {0}
  /\ {MaxFaults, MaxClears, MaxTimeOuts, MaxExpiries, MaxBlanks} \subseteq Nat

Preflight == <<"preflight">>
Gate(s) == <<"gate", s>>
Ingest(s) == <<"ingest", s>>
ToBronze(s) == <<"to_bronze", s>>
WaitForBronze == <<"wait_for_bronze">>
Silver(j) == <<"silver", j>>
WaitForSilver == <<"wait_for_silver">>
BuildGold == <<"build_gold">>

BronzeDag == {Preflight} \cup {Gate(s) : s \in Source} \cup {Ingest(s) : s \in Source}
               \cup {ToBronze(s) : s \in Source}
SilverDag == {WaitForBronze} \cup {Silver(j) : j \in Job}
GoldDag == {WaitForSilver, BuildGold}
Task == BronzeDag \cup SilverDag \cup GoldDag
Sensor == {WaitForBronze, WaitForSilver}

(* A plausible bug: order lines listed with the jobs that run in parallel. *)
UpstreamAllParallel(t) ==
  CASE t[1] = "gate" -> {Preflight}
    [] t[1] = "ingest" -> {Gate(t[2])}
    [] t[1] = "to_bronze" -> {Ingest(t[2])}
    [] t[1] = "silver" -> {WaitForBronze}
    [] t[1] = "build_gold" -> {WaitForSilver}
    [] OTHER -> {}

(* The tasks that must have succeeded before t may start.                  *)
Upstream(t) ==
  CASE t[1] = "gate" -> {Preflight}
    [] t[1] = "ingest" -> {Gate(t[2])}
    [] t[1] = "to_bronze" -> {Ingest(t[2])}
    [] t[1] = "silver" -> IF t[2] = LinesJob THEN {Silver(OrdersJob)} ELSE {WaitForBronze}
    [] t[1] = "build_gold" -> {WaitForSilver}
    [] OTHER -> {}

(* A task and all that is below it in its DAG (two levels at most).        *)
Below(tasks) == tasks \cup {t \in Task : Upstream(t) \cap tasks # {}}
Downstream(t) == Below(Below(Below({t})))
Leaves(dag) == {t \in dag : \A u \in dag : t \notin Upstream(u)}
Awaited(sensor) == IF sensor = WaitForBronze THEN BronzeDag ELSE SilverDag

VARIABLES
  monday,    \* is the logical date a Monday
  state,     \* state of each task instance
  tries,     \* attempts made
  landing,   \* sources with a landing file for the date
  bronze,    \* sources with a Bronze partition for the date
  silver,    \* jobs whose Silver partition has been written for the date
  goldBuilt, \* the Gold tables have been built for the date
  unreadable, \* tasks whose output for the date Spark cannot read (see Rows)
  faults, clears, timeouts, expiries, blanks

data == <<landing, bronze, silver, goldBuilt, unreadable>>
environment == <<faults, clears, timeouts, expiries, blanks>>
vars == <<monday, state, tries, data, environment>>

Done == {"success", "failed", "skipped", "upstream_failed"}

TypeOK ==
  /\ monday \in BOOLEAN /\ goldBuilt \in BOOLEAN
  /\ state \in [Task -> {"none", "up_for_retry"} \cup Done]
  /\ tries \in [Task -> 0..MaxTries]
  /\ landing \subseteq Source /\ bronze \subseteq Source /\ silver \subseteq Job
  /\ unreadable \subseteq Task
  /\ faults \in 0..MaxFaults /\ clears \in 0..MaxClears /\ timeouts \in 0..MaxTimeOuts
  /\ expiries \in 0..MaxExpiries /\ blanks \in 0..MaxBlanks

Init ==
  /\ monday \in BOOLEAN
  /\ state = [t \in Task |-> "none"]
  /\ tries = [t \in Task |-> 0]
  /\ landing = {} /\ bronze = {} /\ silver = {} /\ goldBuilt = FALSE /\ unreadable = {}
  /\ faults = 0 /\ clears = 0 /\ timeouts = 0 /\ expiries = 0 /\ blanks = 0

(* The state Airflow gives the run of a DAG.                               *)
DagState(dag) ==
  IF \E t \in dag : state[t] \notin Done THEN "running"
  ELSE IF \E t \in Leaves(dag) : state[t] \in {"failed", "upstream_failed"} THEN "failed"
  ELSE "success"

(* should_run_source. A plausible bug: the weekly sources on another day.  *)
OnCadenceAnotherDay(s) == s \in Weekly => ~monday
OnCadence(s) == s \in Weekly => monday

----------------------------------------------------------------------------
(* Scheduling.                                                             *)

Runnable(t) ==
  /\ state[t] \in {"none", "up_for_retry"}
  /\ \A u \in Upstream(t) : state[u] = "success"

Succeed(t) ==
  /\ state' = [state EXCEPT ![t] = "success"]
  /\ tries' = [tries EXCEPT ![t] = @ + 1]

(* Plausible bugs of FailAttempt: one attempt too many; no retries.        *)
FailAttemptOnceMore(t) ==
  /\ tries' = [tries EXCEPT ![t] = @ + 1]
  /\ state' = [state EXCEPT ![t] =
       IF tries[t] < MaxTries THEN "up_for_retry" ELSE "failed"]
FailForGood(t) ==
  /\ tries' = [tries EXCEPT ![t] = @ + 1]
  /\ state' = [state EXCEPT ![t] = "failed"]

(* A failed attempt is retried until the attempts are used up.             *)
FailAttempt(t) ==
  /\ tries' = [tries EXCEPT ![t] = @ + 1]
  /\ state' = [state EXCEPT ![t] =
       IF tries[t] + 1 < MaxTries THEN "up_for_retry" ELSE "failed"]

(* trigger_rule all_success: a task below a failed one is never run. (What *)
(* is below a closed gate is skipped by the gate itself: see RunGate.)     *)
Propagate(t) ==
  /\ state[t] = "none"
  /\ \E u \in Upstream(t) : state[u] \in {"failed", "upstream_failed"}
  /\ state' = [state EXCEPT ![t] = "upstream_failed"]
  /\ UNCHANGED <<monday, tries, data, environment>>

----------------------------------------------------------------------------
(* The task bodies. What a body writes is written before its attempt ends, *)
(* so an attempt that dies may or may not have written it (see Fault).     *)

CheckSourceDb ==
  Runnable(Preflight) /\ Succeed(Preflight)
  /\ UNCHANGED <<monday, data, environment>>

(* Off cadence, ShortCircuitOperator skips all that is below the gate.     *)
RunGate(s) ==
  /\ Runnable(Gate(s))
  /\ state' = [t \in Task |->
       IF t = Gate(s) THEN "success"
       ELSE IF t \in {Ingest(s), ToBronze(s)} /\ ~OnCadence(s) THEN "skipped"
       ELSE state[t]]
  /\ tries' = [tries EXCEPT ![Gate(s)] = @ + 1]
  /\ UNCHANGED <<monday, data, environment>>

(* What t writes has rows Spark can type, or it is unreadable: it has no   *)
(* rows at all (a source without files or rows, orders all dropped), lacks *)
(* a column, or has one in which every value is NULL.                      *)
Rows(t) ==
  \/ unreadable' = unreadable \ {t} /\ UNCHANGED blanks
  \/ blanks < MaxBlanks /\ unreadable' = unreadable \cup {t} /\ blanks' = blanks + 1

RunIngest(s) ==
  /\ Runnable(Ingest(s)) /\ Succeed(Ingest(s))
  /\ landing' = landing \cup {s} /\ Rows(Ingest(s))
  /\ UNCHANGED <<monday, bronze, silver, goldBuilt, faults, clears, timeouts, expiries>>

(* Bronze keeps the landed records as they are, be they none. get_bytes    *)
(* raises when the landing object is no longer there.                      *)
Copy(s) ==
  /\ bronze' = bronze \cup {s}
  /\ unreadable' = IF Ingest(s) \in unreadable THEN unreadable \cup {ToBronze(s)}
                   ELSE unreadable \ {ToBronze(s)}
RunToBronze(s) ==
  /\ Runnable(ToBronze(s))
  /\ \/ s \in landing /\ Succeed(ToBronze(s)) /\ Copy(s)
     \/ s \notin landing /\ FailAttempt(ToBronze(s)) /\ UNCHANGED <<bronze, unreadable>>
  /\ UNCHANGED <<monday, landing, silver, goldBuilt, environment>>

(* From a Bronze partition that is not there or has no rows the job gets a *)
(* frame without the columns `clean' casts, and no frame at all from one   *)
(* with a column that is all NULL; so too with the Silver orders the line  *)
(* job joins. Then every attempt raises.                                   *)
HasInput(j) ==
  /\ JobSource[j] \in bronze /\ ToBronze(JobSource[j]) \notin unreadable
  /\ j = LinesJob => OrdersJob \in silver /\ Silver(OrdersJob) \notin unreadable
(* Only the orders are read by another job.                                *)
Store(j) ==
  /\ silver' = silver \cup {j}
  /\ IF j = OrdersJob THEN Rows(Silver(j)) ELSE UNCHANGED <<unreadable, blanks>>
RunSilver(j) ==
  /\ Runnable(Silver(j))
  /\ \/ HasInput(j) /\ Succeed(Silver(j)) /\ Store(j)
     \/ ~HasInput(j) /\ FailAttempt(Silver(j)) /\ UNCHANGED <<silver, unreadable, blanks>>
  /\ UNCHANGED <<monday, landing, bronze, goldBuilt, faults, clears, timeouts, expiries>>

RunGold ==
  /\ Runnable(BuildGold) /\ Succeed(BuildGold)
  /\ goldBuilt' = TRUE
  /\ UNCHANGED <<monday, landing, bronze, silver, unreadable, environment>>

(* A plausible bug: a sensor without failed_states.                        *)
PokeForSuccess(sensor) ==
  /\ Runnable(sensor)
  /\ DagState(Awaited(sensor)) = "success" /\ Succeed(sensor)
  /\ UNCHANGED <<monday, data, environment>>

(* A poke that finds the awaited run finished; one that finds it running   *)
(* changes nothing. A failed run fails the attempt, and the retry pokes    *)
(* again.                                                                  *)
Poke(sensor) ==
  /\ Runnable(sensor)
  /\ \/ DagState(Awaited(sensor)) = "success" /\ Succeed(sensor)
     \/ DagState(Awaited(sensor)) = "failed" /\ FailAttempt(sensor)
  /\ UNCHANGED <<monday, data, environment>>

(* After two hours of waiting: Airflow does not retry a sensor timeout.    *)
TimeOut(sensor) ==
  /\ timeouts < MaxTimeOuts
  /\ Runnable(sensor) /\ DagState(Awaited(sensor)) = "running"
  /\ state' = [state EXCEPT ![sensor] = "failed"]
  /\ tries' = [tries EXCEPT ![sensor] = @ + 1]
  /\ timeouts' = timeouts + 1
  /\ UNCHANGED <<monday, data, faults, clears, expiries, blanks>>

(* An attempt dies of a passing fault, before or after its write.          *)
Written(t) ==
  \/ /\ t[1] = "ingest" /\ landing' = landing \cup {t[2]} /\ Rows(t)
     /\ UNCHANGED <<bronze, silver, goldBuilt>>
  \/ /\ t[1] = "to_bronze" /\ t[2] \in landing /\ Copy(t[2])
     /\ UNCHANGED <<landing, silver, goldBuilt, blanks>>
  \/ /\ t[1] = "silver" /\ HasInput(t[2]) /\ Store(t[2])
     /\ UNCHANGED <<landing, bronze, goldBuilt>>
  \/ /\ t = BuildGold /\ goldBuilt' = TRUE
     /\ UNCHANGED <<landing, bronze, silver, unreadable, blanks>>
Fault(t) ==
  /\ faults < MaxFaults
  /\ t \notin Sensor /\ Runnable(t) /\ FailAttempt(t)
  /\ UNCHANGED <<data, blanks>> \/ Written(t)
  /\ faults' = faults + 1
  /\ UNCHANGED <<monday, clears, timeouts, expiries>>

(* An operator clears a finished task of a finished run, with all that is  *)
(* below it in its DAG: they run again, those of the other DAGs do not.    *)
Clear(dag, t) ==
  /\ clears < MaxClears
  /\ DagState(dag) # "running" /\ state[t] \in {"success", "failed"}
  /\ state' = [u \in Task |-> IF u \in Downstream(t) THEN "none" ELSE state[u]]
  /\ tries' = [u \in Task |-> IF u \in Downstream(t) THEN 0 ELSE tries[u]]
  /\ clears' = clears + 1
  /\ UNCHANGED <<monday, data, faults, timeouts, expiries, blanks>>

(* Seven days later, when the runs of the date are over, the lifecycle     *)
(* rule of the landing bucket removes an object.                           *)
Expire(s) ==
  /\ expiries < MaxExpiries
  /\ s \in landing /\ \A t \in Task : state[t] \in Done
  /\ landing' = landing \ {s} /\ unreadable' = unreadable \ {Ingest(s)}
  /\ expiries' = expiries + 1
  /\ UNCHANGED <<monday, state, tries, bronze, silver, goldBuilt, faults, clears, timeouts,
                 blanks>>

Work ==
  \/ CheckSourceDb
  \/ \E s \in Source : RunGate(s) \/ RunIngest(s) \/ RunToBronze(s)
  \/ \E j \in Job : RunSilver(j)
  \/ RunGold
  \/ \E sensor \in Sensor : Poke(sensor)
  \/ \E t \in Task : Propagate(t)

Next ==
  \/ Work
  \/ \E sensor \in Sensor : TimeOut(sensor)
  \/ \E t \in Task : Fault(t)
  \/ \E dag \in {BronzeDag, SilverDag, GoldDag} : \E t \in dag : Clear(dag, t)
  \/ \E s \in Source : Expire(s)

Spec == Init /\ [][Next]_vars

(* The scheduler keeps finding work while there is any: every step of Work *)
(* advances some task by one attempt or to its end, so one weak fairness   *)
(* condition makes them all take place.                                    *)
FairSpec == Spec /\ WF_vars(Work)

----------------------------------------------------------------------------
(* Each layer is complete before the next one is written, through retries, *)
(* faults after a write, sensor timeouts and cleared runs: Silver is only  *)
(* built on a date whose every on-cadence source reached Bronze, Gold only *)
(* on a date whose every Silver table was written; and order lines count   *)
(* as done only while the orders job does, so that they were not joined    *)
(* with what an attempt that died, or an earlier run of it, has left.      *)
LayersInOrder ==
  /\ silver # {} => \A s \in Source : OnCadence(s) => s \in bronze
  /\ goldBuilt => silver = Job
  /\ state[Silver(LinesJob)] = "success" => state[Silver(OrdersJob)] = "success"

(* Nothing waits for ever: the day ends with every task in a final state,  *)
(* whatever failed, was skipped or timed out. (Each clear starts it again; *)
(* they are bounded.)                                                      *)
DayEnds == <>[](\A t \in Task : state[t] \in Done)

(* Retries absorb passing faults: on a date on which every source is due,  *)
(* Spark can read what every task writes and no sensor gives up, fewer     *)
(* faults than a task has attempts never cost the day its Gold.            *)
RetriesAbsorbFaults == monday /\ [](timeouts = 0 /\ blanks = 0) => <>goldBuilt

(* On a Monday, when every source is due, a task fails only if a fault     *)
(* struck, a sensor gave up, a landing object had expired when its         *)
(* to_bronze task was cleared, or a batch was written that Spark cannot    *)
(* read (no rows, a column missing or all NULL). That last is not noticed  *)
(* where it enters the lake: alone it fails no task of the Bronze DAG, nor *)
(* the sensor that waits for that DAG, but jobs of Silver and what follows. *)
FailuresAreExplained ==
  monday => \A t \in Task : state[t] = "failed" =>
    \/ faults + timeouts + expiries > 0
    \/ blanks > 0 /\ t \notin BronzeDag \cup {WaitForBronze}

(* "A source on a non-daily cadence legitimately has no Bronze data for    *)
(* most batch_dates, and Silver jobs run daily regardless": on no day does *)
(* a task fail for good unless some attempt met a fault.                   *)
FailuresNeedFaults == \A t \in Task : state[t] = "failed" => faults > 0
=============================================================================
