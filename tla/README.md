# A verification project for OpenLake

TLA+ models of the OpenLake data platform (`src/`): the medallion lake
(Landing, Bronze, Silver, Gold on an object store), the Airflow DAGs that drive
it, the metadata tables that record what ran and the health check that reads
them. TLC checks the models on small instances; TLAPS proves the results that
matter most for every value of the constants.

## 1. The system

| Part | Source | State it keeps | Operations |
|---|---|---|---|
| Object store access | `pipelines/storage.py` | one object per key and layer | `put_bytes` (replaces), `get_bytes`, `object_exists` |
| Ingestion | `pipelines/ingestion/` | landing NDJSON per (source, table, batch_date) | `BaseIngestion.run`, the paginated API pull, full table extracts, file drops, their retries |
| Bronze | `pipelines/bronze/` | one Parquet partition per (source, table, batch_date) | `write_bronze`, `read_bronze` |
| Silver | `spark/jobs/`, `pipelines/silver/` | one partition per (table, batch_date) | seven cleaning jobs, `dedup_latest`, `write_silver`, `read_silver` |
| Gold | `pipelines/gold/` | six whole tables, replaced at every run | `run_gold_build` and its builders; `dim_customer` keeps history (SCD Type 2) |
| Metadata | `metadata/` | `pipeline_runs`, `table_freshness`, `schema_versions` | `track_run`, `start_run`, `complete_run`, `upsert_freshness`, `record_schema_version` |
| Health | `monitoring/health.py` | none | `check_table_health`, `check_platform_health` |
| Orchestration | `airflow/dags/` | Airflow's task and DAG run states | three daily DAGs chained by sensors, cadence gate, retries; a health check DAG |
| Data quality | `data_quality/` | none | six validation suites, one of which (order lines) reads two tables |
| dbt | `dbt/` | a second Gold: the customer snapshot, the rest rebuilt whole | `dbt snapshot`, the marts |

The parts share nothing but objects and tables. A task of the Bronze DAG lands a
source and writes its Bronze partition; a task of the Silver DAG reads Bronze
partitions (and, for order lines, one Silver partition) of the same date; the
one task of the Gold DAG reads the Silver partitions and the Gold tables it is
about to replace. Sensors order the DAGs of one date; nothing orders the dates,
and nothing is locked. What is hard:

- a write is one `put_object`, so each object is replaced whole, but nothing
  spans two objects: a crash, a retry or another run can come between any two;
- `dim_customer` is read, merged and written back, so its correctness depends on
  the order in which batches are built and on what is built twice;
- a retry or a cleared task runs over the output of the attempt before it, with
  whatever its input has become since;
- sources change while they are extracted, page by page or table by table;
- each statement of the metadata client is its own transaction;
- Silver reads raw rows with any defect in any column, and what its jobs then
  guarantee is written down a second time, as the expectations of the gates;
- a second Gold layer (dbt) follows the same partitions by another clock.

What makes each part correct (the names are the properties that say it):

- customer dimension: each customer has one version a day, no day missing, one
  current version, keys that identify versions, and no version is ever lost
  (`OneVersionAtATime`, `NoGaps`, `OneCurrentVersion`, `SurrogateKeyUnique`,
  `HistoryKept`); a repeated build changes nothing (`RebuildIsNoOp`); a lookup
  answers as the sequence of Silver partitions does (`ImplementsHistory`);
- Gold run: one fact row per order line, its keys those of the dimension in
  effect on the order's day, the past fixed, every line summed once, and the
  same tables after a crash and a retry as without them (`FactGrain`,
  `FactAgreesWithDimension`, `PastFactsStable`, `EachLineSummedOnce`,
  `SuccessIsConsistent`);
- orchestration: nothing is built on a layer that is incomplete, a day ends, retries
  absorb what they are there to absorb, and a failure has a cause
  (`LayersInOrder`, `DayEnds`, `RetriesAbsorbFaults`, `FailuresAreExplained`);
- ingestion, Bronze and Silver: what lands is all of the source, once, whatever
  failed on the way; a batch ingested again leaves nothing of the time before;
  order lines come with their orders (`LandingIsWhole`, `SilverIsOfThisBatch`,
  `CatalogIsWhole`, `LinesHaveOrders`, `SettledLinesArrive`);
- Silver jobs and quality gates: one row for each usable key whatever else is
  wrong with the rows, reruns that change nothing, gates that never fail on what
  the jobs guarantee nor blame lines for orders they were joined with
  (`OneRowPerKey`, `RerunIsStable`, `GuaranteedExpectationsHold`,
  `OrphanAlarmIsStale`);
- dbt snapshot: at most one version of a customer at any instant, none known
  only later, the as-of history over instants, and the same open versions as the
  Python dimension when both have read the same batches (`NoLookAhead`,
  `SnapshotImplementsHistory`, `GoldsAgree`);
- metadata and health: what is recorded happened, what succeeded is recorded, and
  a verdict can be relied on (`FreshnessEarned`, `SuccessIsTracked`,
  `NoRepeatedVersion`, `FailuresAreReported`, `VerdictsHold`).

## 2. The modules

| Module | Models | Composes |
|---|---|---|
| `DimCustomer` | `build_dim_customer` and the point-in-time lookup of `fact_sales`, as operators | |
| `CustomerHistory` | abstract: which attributes a customer had on which day, loaded once for each day or revised | |
| `CustomerDimension` | the `dim_customer` table under a sequence of builds | extends `DimCustomer`, implements `CustomerHistory` |
| `GoldBuild` | `run_gold_build` step by step, six tables, crashes, retries, several runs | extends `DimCustomer`, implements `CustomerDimension` |
| `DbtDimension` | the dbt snapshot beside the Python dimension, on one calendar | extends `CustomerDimension`, implements `CustomerHistory` twice |
| `DailyRun` | one date of the three chained DAGs | |
| `LakeLayers` | the objects of one source, and what a batch of raw records becomes in Bronze and Silver, as operators | |
| `CustomerFeed` | the customers source, API to Silver | extends `LakeLayers` |
| `SupplierDrops` | the drop directory, and what the week's Silver table promises about it | extends `LakeLayers` |
| `SupplierCatalog` | the suppliers source, drop directory to Silver | extends `SupplierDrops` |
| `SalesSnapshot` | orders and order lines, database to Silver | |
| `SilverJobs` | what the seven Silver jobs make of raw rows, as operators | |
| `QualityGates` | the expectation suites, as operators | extends `SilverJobs` |
| `SilverQuality` | the jobs with retries and re-ingestion, and the order-line gate beside them | extends `QualityGates` |
| `RunTracking` | the metadata rows of one table, their writers, the health check | |
| `CustomerDimension_proofs`, `DailyRun_proofs`, `DbtDimension_proofs`, `GoldBuild_proofs`, `Ingestion_proofs`, `RunTracking_proofs`, `SalesSnapshot_proofs`, `SilverQuality_proofs` | the theorems | |
| `MC...` | finite constants for TLC | |

Names follow the source. Definitions introduced by "A plausible bug" are not
part of the model: each is a wrong version of the definition after it, kept to
show that a property below depends on that code.

### Gold

**`DimCustomer`** is a pure translation of the merge query. `ChangedIds`,
`NewIds`, `Expired`, `UntouchedCurrent`, `Historical` and `NewVersions` are the
query's common table expressions, `Merge` their `UNION ALL`, and
`BuildDimCustomer` adds the early return on an empty partition and the
bootstrap. The four tracked columns are one value, since the query only asks
whether any of them differs. The surrogate key `hash(customer_id | batch_date)`
is the pair that is hashed: collisions of the hash are outside the model. SQL
tables are bags; rows carry the ordinal of the build that inserted them, which
makes a set of rows as good as a bag.

**`CustomerDimension`** makes reading, merging and writing one step and asks what
a sequence of builds leaves behind. `Spec` is the schedule: batches in date
order, the last one possibly again (a retry, a cleared task), partitions that do
not change once written. `InOrderSpec` lets any Silver partition be rewritten at
any time, so that the last batch may be built again from other rows;
`AnyOrderSpec` also lets any batch be built at any time. The abstract
`CustomerHistory` has two specifications to match: in `Spec` each day is loaded
once, in `RevisableSpec` the latest may be revised.

**`GoldBuild`** takes a build apart. The steps of `run_gold_build` are the actions
`BuildDimDate`, `ReadDimCustomer`, `WriteDimCustomer`, `BuildDimProduct`,
`BuildDimStore`, `BuildFactSales`, `BuildDailySalesSummary`; `local` is what the
process holds and loses in `Crash`, `gold` what it has put. `dim_customer` is
read and written in two steps because other runs may come between; each of the
other tables is computed from local rows and its put is the one step anyone can
see. (The dim_date check reads the table twice; a table that is there is never
removed, so the two agree.) The run is tried `MaxTries` times, from the top.
Metadata is left out: the DAG passes no engine.

**`DbtDimension`** puts the dbt snapshot beside the Python dimension. `MostRecent`
is the `dense_rank() ... = 1` of the source definition, `SnapshotOf` dbt's check
strategy without hard deletes, `Covers` the join condition of the dbt
`fact_sales`. A day has two instants, before and after its snapshot: an order
may fall on either side. `Snapshot` runs when it likes, once a day at most; the
Python DAGs of a date run when the date is over.

### Orchestration

**`DailyRun`**: `Upstream` is the dependency arrows of the three DAG files,
`Awaited` the sensors, `OnCadence` is `should_run_source`. How Airflow decides
that a task may start, what a skipped or failed task means for those below, and
the state of a DAG run are Airflow's and marked external. Data is two bits
per output: whether it is there, and whether Spark can read it. What an ingestion
or the orders job writes may be `unreadable` (`Rows`): without rows, as when the
directory of a file source is empty, without a column, or with one that is NULL in
every row. Bronze copies it as it is (`Copy`), and the Silver job that reads it
raises in every attempt (`HasInput`); Gold, which gives its tables their schema
itself, builds on anything. A `Fault` ends an attempt before or after its write. `Clear` starts one
finished task of a finished run again with all that is below it in its DAG, and
leaves every output in place; `Expire` is the seven-day rule of the landing
bucket, so that a `to_bronze` cleared alone may find nothing to read.

### Ingestion to Silver

**`CustomerFeed`**: `FetchPage` is one successful call of `_fetch_page` and, after
the last page, the put of the landing file; `FetchTransientError` is a retry by
the decorator and `AttemptFails` an exception that leaves `run`. The API serves
a sequence to which `SourceGrows` appends and from which `SourceShrinks` removes
at any time, also between two pages. A removal from a page already fetched moves
one record across a page border unseen; `LandingIsWhole` allows that loss and no
other.

**`SupplierCatalog`**: `ListFiles` is the `sorted(glob(..))` of `run`, which makes the
whole list before a file is opened, `ReadFile` the reading of one of them, `Land`
the put of what was read. `DropFile` may come between any two of them; a file
appears whole and after the others in name order. `AttemptFails` loses what was
read, and the task starts again or gives up. `SilverChoices` leaves open which of
several rows tied on `_ingested_at` `row_number` keeps. The variables the promise
is about are those of `SupplierDrops` and `LakeLayers`, so that it can be proved
beside the customers feed.

**`SalesSnapshot`**: the source obeys its foreign key at every moment but is read
twice. A task that fails and is retried either wrote nothing or wrote what the
retry writes, so it is not a step of its own. A record is its key: two
extractions of an order differ only in its status, which no property reads.
`order_lines.order_id` may be NULL (`NoOrder`): such a line is extracted and kept in
Bronze, and the line job filters it out.

**`SilverJobs`** keeps the columns that some filter, key, order or expectation
looks at. A raw value is a value, NULL, or `Bad` text that no cast accepts;
`Cast` turns that into NULL (ANSI mode off, as in the Spark 3.5 image). An email
or a sku is its kind (valid, untidy, spaces, empty, malformed), since only its
layout is looked at. `DedupLatest` is the set of results `row_number` may give,
`Inferable` the condition under which PySpark can type a frame at all.

**`QualityGates`** has one operator for each kind of expectation and one for each
suite, a record of answers. What an expectation answers on NULLs, on a missing
column and under `mostly` is Great Expectations' and marked external.

**`SilverQuality`** composes them. `ReadInputs` and `WriteSilver` are the two halves
of a job's `run`, with ingestion, other jobs and the gate in between; reading again
forgets what the attempt before had read. A row set carries, as ghosts, the
Bronze partition and the version of the orders it was made of. A behaviour is
about one group of tables (`watched`), since jobs of different groups share
nothing. Gates of one table read once and are evaluated on the state.

### Metadata and health

**`RunTracking`**: each action is one transaction of the client. `track_run` is
`EnterTrackRun`, then `BodyEnds` or `BodyRaises`, then the statements in order;
`_write_and_track` of the Gold runner is `BuildGoldTable`, `StartGoldRun` and the
same statements. `Crash` is also an exception out of a statement. The check is
`ReadFailures` and `ReadFreshness`; the ghost `truths` collects the verdicts that
a check reading everything at once would have given while it was under way. No
caller in the repository sets `columns` yet: the schema history is checked as the
interface of `track_run` documents it.

## 3. The runs

States are distinct states found by TLC.

| Run | States | Shows |
|---|---|---|
| `dimension_schedule` | 106,236 | types, unique keys, disjoint and gapless intervals, one current version, retries absorbed, no version lost or rewritten, the as-of history implemented; the dbt snapshot never looks ahead, implements the history too and agrees with Python |
| `dimension_rerun_key` | violation | finding 1 |
| `gold_build` | 656,192 | fact grain, facts agree with the stored dimension even in mid-run, the past does not move, a successful run is consistent, each line is summed once, `CustomerDimension` is implemented |
| `gold_build_backfill_grain` | violation | finding 2 |
| `gold_build_overlap` | violation | finding 3 |
| `daily_run` | 413,083 | layers in order, through faults, a sensor timeout, cleared tasks, expired landing objects, a batch Spark cannot read; every task ends; retries absorb faults; failures have a cause |
| `daily_run_weekly` | violation | finding 4 |
| `tracking` | 976,248 | freshness and "healthy" are earned, success is recorded, failures are reported, verdicts hold, no schema version repeated by calls in turn |
| `customer_feed` | 1,458,104 | landing is whole but for removals, Silver is of this extraction |
| `silver_quality` | 382,621 | one row per usable key, guaranteed expectations hold, orphan alarms are stale, orders reruns are stable |
| `supplier_catalog` | 20,375 | the catalog accumulates, through drops while files are read and failed attempts |
| `sales_snapshot` | 1,071,182 | lines have orders, settled lines of some order arrive |

Bounds, and why they are enough:

- `dimension_*`: two customers, two attribute values, three dates, four builds.
  Two values let a customer change and change back, three dates make a first,
  a middle and a last version, the fourth build is a repeated one; the merge
  treats customers independently, so two show that one does not disturb another.
  The calendar has a fourth day, so that the last batch is built and snapshotted.
  Customers are interchangeable and so are values, hence the symmetry sets; the
  CHOOSE of a lookup ranges over one value at most where `OneVersionAtATime` and
  `NoLookAhead` hold, so it breaks no symmetry.
- `gold_build*`: the same dates; four batch contents chosen so that a version
  changes and changes back, a customer or a store row is missing, an order is
  cancelled, a date is off the calendar, or every partition is missing; two
  attempts, three runs.
- `daily_run*`: one source and job for the orders, one for the lines, one weekly;
  the chains left out have the shape of the orders chain. Two attempts and one
  fault tell a retried task from a failed one; one sensor may give up, and one
  clear re-runs a part of a DAG over old outputs, or after one expiry. One batch
  that Spark cannot read, of any source or of the orders job, may be written, and
  written again readable when its task is retried or cleared. The code's four
  attempts add repetitions of the same step.
- `tracking`: two calls, each of either writer, are the least that can overlap or
  follow one another; two dates and two column lists let them differ or agree; a
  clock of four instants has room on both sides of a lookback of one and a
  threshold of two (in the code 24 h and 30 h: only their order and the existence
  of instants beyond each matter). `FailuresAreReported` is about `track_run`
  alone, since the Gold writer has no failure path, and `NoRepeatedVersion` about
  calls that take turns, which the ghost `inTurn` records.
- `customer_feed`: four records, pages of two, so an extraction has none, a part,
  one or two pages and can grow across a page border; one customer has two
  records and one record no key; two attempts of a page and of the task, two runs.
- `silver_quality`: for each table but orders and lines, every sequence of up to two
  of four or five raw rows with all the kinds of defect, so any two defects meet
  in one batch; for orders and lines, which multiply, four batches each, with
  repeated, tied, undated, unknown and orphaned rows; two ingestions and two
  writes of each table, enough for the gate to read two versions. The theorems
  lift the bounds.
- `supplier_catalog`: three weeks, two lines to a file, two lines of one product.
- `sales_snapshot`: two orders with a line each and a line without an order; two clears.

`daily_run`, and only it, assumes fairness, for its two liveness properties:
`WF_vars(Work)`, the scheduler and its workers go on doing something while there
is something to do, which is what Airflow's loop does. No fairness is assumed of faults, timeouts or
operators. Every step of `Work` uses up an attempt or ends a task, so one weak
fairness condition on the whole is enough. `RetriesAbsorbFaults` is about the days
on which no sensor gives up, since a sensor's timeout is not retried, and Spark can
read every batch, since a retry reads the same one again.

Deadlock checking is off everywhere because every model really may stop: the builds, weeks or calls are used up, or
(in `SalesSnapshot`) a table that is empty, or whose lines all lack an order,
leaves a job nothing it can succeed on.

## 4. What is proved

With the assumptions named in the modules (`DateAssumption`, `NullAssumption`,
`SalesAssumption`, `BatchAssumption`, `ConfigAssumption`, ...), for any sets and any
number of builds, snapshots, batches, retries, faults or clears.

**`CustomerDimension_proofs`.** Intervals being disjoint is not inductive alone. A
build of batch d closes a version on day d-1 and opens one on d; that keeps the
intervals disjoint only if every version so far began no later than the last
batch and every closed one ended before it (`Dated`). That much (`InOrderInv`)
holds even when Silver partitions are rewritten: a batch built again from other
rows closes the version its first build opened on the day before it began, an
empty interval, and opens another. So in date order no day has two versions and
none is lost (`OneVersionAtATimeInOrder`, `NoGapsInOrder`), and the table
implements the history whose latest load may be revised (`RevisableRefinement`):
no rerun changes what was known of an earlier day. What a rewrite does break is
the key, which the two versions of one day share (finding 1). With partitions
written once, the table already holds what the last batch says (`Absorbed`, and
with it `LastBatchWritten`), no interval is empty (`NoneEmpty`), and `IInv`, the
conjunction, gives unique keys (two versions with one key begin on the same day,
and neither is empty), that a repeated build does nothing, and the refinement of
`CustomerHistory`: the first build of a batch is a `Load`, every other step
stutters. For builds in any order, type correctness, `OneCurrentVersion` and
`HistoryKept` are proved directly (the run checks them under the schedule).

**`GoldBuild_proofs`.** Under the ordinary schedule (`Scheduled`: one run active,
batches in order, partitions written once). `Turn` says that the active run is
alone and of the latest batch; `Held`, that what it holds is what it has put, and
that customers merged and not yet put are the merge of the table *still stored*;
with two runs active, that is what fails. `Budget` bounds the writes by the
attempts: an attempt writes the dimension once, and after a crash the next attempt
has its own. So every step is a build of `CustomerDimension` in order or leaves its
state alone (`StepMaps`), which is the refinement, and its `IInv` holds of the stored
table by its own lemma (`D!IInvStep`). For the facts two more lemmas are carried
over: `OneInEffect`, no two versions on one day, gives the grain; `BuildKeepsPast`,
a build changes no key in effect up to the last batch, gives that the write of the
dimension, which comes before that of the facts, leaves the stored facts right, and
with it `PastFactsStable`. `EachLineSummedOnce` is stated by line, not as a sum: each
billed line is in one row of the summary, that of its date and store, and a row
counts its own lines. With `FactGrain` a line is one fact row (`FactsOfLines`), so
the rows of a group and its lines are as many (`SummedOnce`). `KeyAssumption` (NULL is no surrogate key) tells a key
from a missing one. `VersionsKeptInTurns` drops the schedule but for one run at a
time: batches in any order over partitions that change break the intervals and the
keys (findings 1 and 2), yet lose no version; only an overlap does (finding 3).
`FactGrainInOrder` lies between: runs in turn and none for an earlier batch keep
one fact row to a line, also when Silver is rewritten between two steps of a run.
What is put then need not be the merge of the partition that is stored, but it is
the merge of one that was, so `InOrderInv` of the stored table is kept
(`DimensionStep`), and the facts are joined to the table that is stored
(`Joined`); hence `RerunInv`. A run for an earlier batch breaks it (finding 2). The
other results need the schedule: with `SilverRerun = TRUE` TLC finds a rewrite between
two steps of a run leaving tables of two versions of the partition
(`SuccessIsConsistent`, `EachLineSummedOnce`), and a batch built again from other rows
moving its day to another version (`FactAgreesWithDimension`, `PastFactsStable`).

**`DbtDimension_proofs`.** The daily jobs refine the schedule (`ScheduleIsKept`), so
what is proved of `CustomerDimension` holds beside the snapshot. `SnapshotIInv` adds
that versions open and close no later than the last snapshot, that each says
what a batch of an earlier day says, and that two of one customer end before
they begin; a snapshot runs at a new instant, so it cuts after all of them. From
it: at most one version at an instant, no look-ahead, and the refinement of
`CustomerHistory` over instants. `GoldsAlwaysAgree` goes through a common
description of both tables: the open version of a customer is what the latest of
the batches read, among those he is in, says (`Said`). Both the merge and the
snapshot preserve it, because batches are read in order: in Python by the
schedule, in dbt because a batch once passed over is never the most recent again.

**`SilverQuality_proofs`.** For any batches that satisfy `BatchAssumption` (the
columns of the sources, raw text only where a cast reads it): every partition, and
everything a job under way holds, is `Faithful`, one of the choices its Bronze
partition leaves, of which order lines keep some. The keys and types of choices
follow by cases on the seven jobs; that two choices are equal when no rows tie
gives `RerunIsStable`. `OrphanAlarmIsStale` needs the versions followed: lines joined
with the version of the orders now in Silver have their orders there (`UpToDate`),
and lines joined with the version the gate read have their orders among the ids
it holds (`AgreesWithGate`), also while a job still holds them. It rests on the
orders' version growing with each write, so a version names one content.

**`SalesSnapshot_proofs`.** `LinesHaveOrders` needs that the order job has
succeeded whenever the line job has. `SettledLinesArrive` needs `Carried`: the
lines that must arrive, those of some order, or their orders, are in each object from the moment a
task of this run has written it. The clause on Bronze lines holds while *either*
its task is done or the order job is, since a source cleared alone leaves the
line job free to read the partition of before the clear.

**`Ingestion_proofs`.** The two sources that are modelled alone. What a landing file of the customers
misses is decided page by page while the source moves. `Fetching` counts instead
of following each removal: only a full page has a next one, so before page n an
attempt has fetched as many records as there are places before its offset
(`Len(fetched) = Offset`), and those still at the source lie at these places, since
a removal only moves records up. So the places hold as many unseen records, at
most, as fetched records have gone (`MissedAreGone`). The last page reaches the end
of the source, and the count is `LandingIsWhole`. `SilverOfLanding` is what the
Silver job makes of any batch, here and for the suppliers. There `CatalogIsWhole`
follows from what an attempt has read being the lines of the files before its
place in the list (`ReadSoFar`): a drop meanwhile adds a file after those listed
(`LinesOfKept`), and a failed attempt starts over with a list of its own.

**`DailyRun_proofs`.** `LayersInOrder` speaks of outputs, the scheduler of task
states, so `IInv` ties the two: a success stands for a written output (`Outputs`;
a cleared or failed task owes no account, and nothing takes an output of Bronze,
Silver or Gold back), only what is below an off-cadence gate is skipped (`Skips`),
and a sensor that succeeded saw its whole layer (`Seen`). The step that needs
thought is a sensor's success: Airflow judges a DAG's run by its leaf tasks, and
every to_bronze task and every job but the orders' is a leaf, while the orders
follow from the lines. That the order lines count as done only while the orders do
(`LinesLast`) rests on a clear taking the lines with whatever takes the orders
(`LinesClearedWithOrders`). `FailuresAreExplained` goes through `CInv`: on a calm Monday
no task is anything but waiting or done, since each body finds what the task it
waited for has written; where a batch was written that Spark cannot read, that is
left of the tasks of the Bronze DAG and its sensor (`Early`), none of which looks
into a batch. `TypeOK` needs that a task that may still run has attempts
left. Of the two liveness properties the parts that need no fairness are proved.
`WorkToDo`: while a task is unfinished some task may be tried, or is doomed by one
above it. A task that can do neither waits for one that is unfinished or skipped
(`Waiting`, which needs that a retry still finds its upstream successful and that
a gate skips a source whole: `Chain`, kept by a clear because it takes all that is
below in the DAG with it); following the arrows, the three DAGs are over one after
the other (`NothingToDo`). `WorkRunsOut`: every step of `Work` takes from the attempts
`Left`, and only a clear gives any back, so between two clears there are at most
`|Task| * (MaxTries + 1)` of them. `FaultsAbsorbed`: on a Monday without a sensor
timeout and without an unreadable batch a task not yet successful has been tried at most once for each fault
(`AInv`), so with fewer faults than attempts nothing fails before Gold is built and
some task may be tried until then.

**`RunTracking_proofs`.** `IInv` gives each call an account (`Account`): what its row
of pipeline_runs is at every point of it, and, past `upsert_freshness`, that the
table is fresh no earlier than its success and its columns are recorded. Calls may
overlap because no step touches a success of another call, freshness only moves
forward and versions only grow (`OthersKeepAccount`). For the check, `CInv` carries
what the first read found: a failure found then was true then, and a table found
unfresh or never run by the second read was so at the first as well, since an
upsert in between makes it fresh. `TypeOK` counts the versions against the calls
that have ended. `SuccessIsTracked` and `FailuresAreReported` assume an engine:
without one nothing is recorded.

**Only model-checked.** `DayEnds` and `RetriesAbsorbFaults` themselves, since they rest
on `WF_vars(Work)`: fairness is stated with ENABLED, which these provers do not
handle, and that a sum of attempts cannot fall for ever needs an induction they
cannot instantiate. What they need of the steps is proved (`WorkToDo`, `WorkRunsOut`,
`FaultsAbsorbed`). The properties of the four runs that find them violated are
proved under what their findings lack, where that is a condition on the schedule:
`SurrogateKeyUnique` with partitions written once, `FactGrain` with batches in order,
`VersionsKept` with runs in turn, and for `FailuresNeedFaults` the weaker
`FailuresAreExplained` of Mondays.

## 5. Findings

Each is a run in which the code, as modelled, does what a document or a comment
of the repository says it does not.

1. `dimension_rerun_key`: a batch built again after its Silver partition changed
   gives the new version the key of the one it closes
   (`pipelines/gold/dim_customer.py:91`; "a **new** value per version",
   `docs/data_dictionary.md:107`).
2. `gold_build_backfill_grain`: building an earlier batch after a later one makes
   versions overlap and doubles fact rows (`dim_customer.py:49`; "each layer can
   be backfilled or rerun independently", `airflow/README.md:9`).
3. `gold_build_overlap`: of two runs active together the later write drops the
   other's versions (`dim_customer.py:45`; "full history tracked",
   `dim_customer.py:1`).
4. `daily_run_weekly`: off its cadence the suppliers job raises on the columns of
   an empty frame, so Silver and Gold fail six days a week
   (`spark/jobs/common.py:58`; "Returns [] rather than raising",
   `pipelines/bronze/reader.py:23`).

More consequences of the code were met while modelling and have no run of
their own; the properties that pass are stated so as not to promise more:

- no DAG task passes a metadata engine (`airflow/dags/common.py:93`,
  `gold_build_dag.py:26`), though `metadata/README.md:36` says "Airflow tasks pass a
  real engine": nothing is recorded, and the health check always says `never_run`;
  and the layers it expects (`health_check_dag.py:18`) are not those the writers
  record under;
- the two Golds differ on orders of the time between a batch date and the
  snapshot that read the batch, orders before the first snapshot have no customer
  key in dbt, and a batch without rows is never "most recent" there, so
  `GoldsAgree` is about open versions;
- a Silver job raises in every attempt when its input has no rows
  (`spark/jobs/common.py:58`) or a column that is NULL in every row (line 59), and
  the line job when the Silver orders are like that (line 72), though
  `supplier_files.py:24` only warns of a directory without files: on any day such a
  batch costs Silver and Gold, with no fault at all. So `FailuresAreExplained`
  names it among the causes, `RetriesAbsorbFaults` is about days without it, and
  `OneRowPerKey` relates Silver to the Bronze partition it was made of, which need
  not be the one now there;
- rerunning any Silver job but orders may keep another of the rows of a key, all
  being tied on `_ingested_at`, so `RerunIsStable` is about orders without ties;
- the order-line gate reads two tables one after the other, and an orders job in
  between makes it raise an orphan alarm (`data_quality/runner.py:103`), so
  `OrphanAlarmIsStale` says what such an alarm means;
- `_source_file`, which a supplier row brings from its CSV, is overwritten with the
  name of the landing file (`pipelines/bronze/reader.py:36`), and a Gold table that
  cannot be built leaves no failed run (`pipelines/gold/runner.py:33`), so
  `FailuresAreReported` is about `track_run`;
- a customer removed while the pages are fetched hides another one
  (`customer_api.py:40`), so `LandingIsWhole` counts removals;
- two recordings of one table's columns that overlap both compare with the old
  version and both insert the same new one (`metadata/client.py:150`), so
  `NoRepeatedVersion` is about calls in turn;
- a check may call a table healthy that was not so at any instant of it, having
  read no failure before and a success after one (`monitoring/health.py:48`), so
  `VerdictsHold` promises a true instant of the other verdicts only;
- all supplier files land in one batch under one `_ingested_at`
  (`pipelines/bronze/writer.py:58`), so an old drop's line may win the
  deduplication, and `CatalogIsWhole` is about products, not about which line;
- a line whose order was placed between the two extractions is dropped with the
  orphans (`spark/jobs/sales_order_lines_silver.py:57`), so `SettledLinesArrive`
  is about lines that were there when the run began;
- a line without an order, which the source allows
  (`docker/postgres/init-source/01_schema_sales.sql:42`), never reaches Silver
  (`sales_order_lines_silver.py:52`), so `SettledLinesArrive` is about lines of
  some order;
- the health check looks failures up by the time a run began
  (`metadata/client.py:227`) and misses one that began before its window and failed
  within it, so `FailuresAreReported` is about calls that began within it.

## 6. Not modelled

- Columns of Silver that nothing filters, keys, orders or checks; encodings
  (NDJSON, JSON payloads, Parquet) and amounts (rounding of `extended_amount`): the
  summary's measures are counted, not added up.
- The Bronze suite, which asks only which columns a frame has, and how Great
  Expectations stores suites and data docs.
- The dbt models other than the customer snapshot and `fact_sales`: they are rebuilt
  whole from one batch. Lineage and ownership, which are only read; settings,
  logging, containers, fixtures.
- Versioning of the Bronze bucket: nothing in the repository reads an old version.

## 7. Plan

Order of work: the history-keeping table first, since an error in it cannot be
repaired by a rerun, then the run that writes it, then what feeds and drives it,
then the second Gold and the gates. Done: the modules of section 2 and
the proofs of section 4, one for every invariant and action property the runs
check. Ahead: the dbt models and the Silver sources beyond the chains modelled here.
