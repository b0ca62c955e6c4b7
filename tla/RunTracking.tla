---------------------------- MODULE RunTracking ----------------------------
(***************************************************************************)
(* The metadata of one (layer, table): the rows of pipeline_runs,          *)
(* table_freshness and schema_versions, written by track_run               *)
(* (metadata/client.py) or by _write_and_track (pipelines/gold/runner.py), *)
(* each statement in a transaction of its own, and read by                 *)
(* check_table_health (monitoring/health.py) in two queries.               *)
(*                                                                         *)
(* A call is one use of either writer, by one process. A call dies with    *)
(* its process, or leaves with the exception of a metadata statement: both *)
(* stop it between two statements and are the action Crash. The tracked    *)
(* work sets row_count, as BaseIngestion.run does.                         *)
(***************************************************************************)
EXTENDS Integers, Sequences, FiniteSets

CONSTANTS
  Call,            \* uses of a writer; each is recorded under a run_id of its own
  Kind,            \* the writers used, of {"track_run", "gold"}
  Date,            \* batch dates
  Columns,         \* column lists, up to order (the fingerprint is sorted)
  HasEngine,       \* is a metadata_engine passed to the writers
  MaxStaleness,    \* DEFAULT_MAX_STALENESS_HOURS, in units of the clock
  Lookback,        \* DEFAULT_FAILURE_LOOKBACK_HOURS, in units of the clock
  MaxActive,       \* bound: calls in progress together
  MaxNow,          \* bound: last instant of the clock
  Null

ASSUME KindAssumption == Kind \subseteq {"track_run", "gold"} /\ HasEngine \in BOOLEAN
ASSUME CallAssumption == IsFiniteSet(Call)
ASSUME NumberAssumption ==
  {MaxStaleness, Lookback, MaxActive, MaxNow} \subseteq Nat
ASSUME NullAssumption == Null \notin Date \cup Columns

VARIABLES
  now,        \* the clock; statements of one recording fall within a unit of it
  call,       \* control state of each call
  runs,       \* pipeline_runs: the row of each call, or Null
  freshness,  \* table_freshness: its row, or Null
  versions,   \* schema_versions, oldest first
  check,      \* the health check in progress or last made
  truths,     \* ghost: the verdicts that were true at an instant of that check
  inTurn      \* ghost: no call has begun while another was in progress

tables == <<runs, freshness, versions>>
vars == <<now, call, tables, check, truths, inTurn>>

InProgress ==
  {"body", "start", "complete", "fail", "upsert", "compare", "insert"}
Recording == {"complete", "upsert"}
CallState ==
  [pc : {"idle", "done", "raised", "crashed"} \cup InProgress, kind : Kind,
   batch : Date, columns : Columns \cup {Null}, begun : 0..MaxNow]
RunRow ==
  [status : {"running", "success", "failed"}, batch : Date,
   started : 0..MaxNow, finished : 0..MaxNow \cup {Null}]
FreshnessRow == [batch : Date, updated : 0..MaxNow]
Status == {"healthy", "stale", "failing", "never_run"}
CheckState ==
  [pc : {"idle", "reading", "done"}, at : 0..MaxNow, failures : BOOLEAN, raised : BOOLEAN,
   status : Status \cup {Null}]
ASSUME NullIsNoRecord == Null \notin CallState \cup RunRow \cup FreshnessRow

TypeOK ==
  /\ now \in 0..MaxNow
  /\ call \in [Call -> CallState \cup {Null}]
  /\ runs \in [Call -> RunRow \cup {Null}]
  /\ freshness \in FreshnessRow \cup {Null}
  /\ versions \in Seq(Columns) /\ Len(versions) <= Cardinality(Call)
  /\ check \in CheckState
  /\ truths \subseteq Status /\ inTurn \in BOOLEAN

Init ==
  /\ now = 0
  /\ call = [c \in Call |-> Null]
  /\ runs = [c \in Call |-> Null]
  /\ freshness = Null
  /\ versions = <<>>
  /\ check = [pc |-> "idle", at |-> 0, failures |-> FALSE, raised |-> FALSE,
              status |-> Null]
  /\ truths = {} /\ inTurn = TRUE

At(c, pc) == call[c] # Null /\ call[c].pc = pc
Goto(c, pc) == call' = [call EXCEPT ![c].pc = pc]
Active == {c \in Call : call[c] # Null /\ call[c].pc \in InProgress}

----------------------------------------------------------------------------
(* The verdict of check_table_health.                                      *)

(* list_recent_failed_runs: by the time the run started.                   *)
RecentFailures(at) ==
  {c \in Call : /\ runs[c] # Null /\ runs[c].status = "failed"
                /\ runs[c].started >= at - Lookback}

(* A plausible bug: the age is not compared with the threshold.            *)
AnyFreshnessWillDo(failures, at) ==
  IF failures THEN "failing" ELSE IF freshness = Null THEN "never_run" ELSE "healthy"

TableStatus(failures, at) ==
  IF freshness = Null THEN IF failures THEN "failing" ELSE "never_run"
  ELSE IF failures THEN "failing"
  ELSE IF at - freshness.updated > MaxStaleness THEN "stale" ELSE "healthy"

(* What a check reading everything at once would say, for the date and     *)
(* time the check in progress was asked about.                             *)
Truth == TableStatus(RecentFailures(check.at) # {}, check.at)
Observe ==
  truths' = IF check'.pc = "reading"
            THEN (IF check.pc = "reading" THEN truths ELSE {}) \cup {Truth'}
            ELSE truths
Begin(c) ==
  /\ call[c] = Null /\ Cardinality(Active) < MaxActive
  /\ inTurn' = (inTurn /\ Active = {})

----------------------------------------------------------------------------
(* The two writers.                                                        *)

(* start_run.                                                              *)
StartRun(c, batch) ==
  runs' = [runs EXCEPT ![c] =
    [status |-> "running", batch |-> batch, started |-> now, finished |-> Null]]

(* complete_run.                                                           *)
CompleteRun(c, status) ==
  runs' = [runs EXCEPT ![c] =
    [status |-> status, batch |-> @.batch, started |-> @.started, finished |-> now]]

(* Entering track_run; without an engine the body runs in a nullcontext.   *)
EnterTrackRun(c) ==
  /\ "track_run" \in Kind /\ Begin(c)
  /\ \E batch \in Date, columns \in Columns \cup {Null} :
       /\ call' = [call EXCEPT ![c] =
            [pc |-> "body", kind |-> "track_run", batch |-> batch,
             columns |-> columns, begun |-> now]]
       /\ IF HasEngine THEN StartRun(c, batch) ELSE UNCHANGED runs
  /\ UNCHANGED <<now, freshness, versions, check>> /\ Observe

(* The tracked work, done or raising.                                      *)
BodyEnds(c) ==
  /\ At(c, "body")
  /\ Goto(c, IF HasEngine THEN "complete" ELSE "done")
  /\ UNCHANGED <<now, tables, check, inTurn>> /\ Observe
BodyRaises(c) ==
  /\ At(c, "body")
  /\ Goto(c, IF HasEngine THEN "fail" ELSE "raised")
  /\ UNCHANGED <<now, tables, check, inTurn>> /\ Observe

(* One Gold table: built and written before anything is recorded, so that  *)
(* a build that raises leaves no row.                                      *)
BuildGoldTable(c) ==
  /\ "gold" \in Kind /\ Begin(c)
  /\ \E batch \in Date, raises \in BOOLEAN :
       call' = [call EXCEPT ![c] =
         [pc |-> IF raises THEN "raised" ELSE IF HasEngine THEN "start" ELSE "done",
          kind |-> "gold", batch |-> batch, columns |-> Null, begun |-> now]]
  /\ UNCHANGED <<now, tables, check>> /\ Observe
StartGoldRun(c) ==
  /\ At(c, "start") /\ StartRun(c, call[c].batch) /\ Goto(c, "complete")
  /\ UNCHANGED <<now, freshness, versions, check, inTurn>> /\ Observe

(* Plausible bugs of the failure path: the status is not recorded; the     *)
(* freshness row is refreshed whatever the outcome.                        *)
ReRaiseOnly(c) ==
  /\ At(c, "fail") /\ Goto(c, "raised")
  /\ UNCHANGED <<now, tables, check, inTurn>> /\ Observe
RefreshOnFailure(c) ==
  /\ At(c, "fail") /\ Goto(c, "raised") /\ CompleteRun(c, "failed")
  /\ freshness' = [batch |-> call[c].batch, updated |-> now]
  /\ UNCHANGED <<now, versions, check, inTurn>> /\ Observe

(* complete_run(status="failed"), then the exception goes on.              *)
RecordFailure(c) ==
  /\ At(c, "fail") /\ Goto(c, "raised") /\ CompleteRun(c, "failed")
  /\ UNCHANGED <<now, freshness, versions, check, inTurn>> /\ Observe

(* A plausible bug: the run stays open when there are no columns to track. *)
RecordSuccessWithColumns(c) ==
  /\ At(c, "complete") /\ Goto(c, "upsert")
  /\ IF call[c].columns = Null THEN UNCHANGED runs ELSE CompleteRun(c, "success")
  /\ UNCHANGED <<now, freshness, versions, check, inTurn>> /\ Observe

(* complete_run(status="success").                                         *)
RecordSuccess(c) ==
  /\ At(c, "complete") /\ Goto(c, "upsert") /\ CompleteRun(c, "success")
  /\ UNCHANGED <<now, freshness, versions, check, inTurn>> /\ Observe

(* upsert_freshness; whichever call comes last wins.                       *)
UpsertFreshness(c) ==
  /\ At(c, "upsert") /\ Goto(c, IF call[c].columns = Null THEN "done" ELSE "compare")
  /\ freshness' = [batch |-> call[c].batch, updated |-> now]
  /\ UNCHANGED <<now, runs, versions, check, inTurn>> /\ Observe

(* A plausible bug: a sorted list is compared with an unsorted one.        *)
NeverTheSame(columns) == FALSE

(* record_schema_version: the latest version is read in one transaction,   *)
(* the new one inserted in another.                                        *)
SameAsLatest(columns) == versions # <<>> /\ versions[Len(versions)] = columns
CompareColumns(c) ==
  /\ At(c, "compare")
  /\ Goto(c, IF SameAsLatest(call[c].columns) THEN "done" ELSE "insert")
  /\ UNCHANGED <<now, tables, check, inTurn>> /\ Observe

(* A plausible bug: an insert that was committed is tried again.           *)
InsertVersionTwice(c) ==
  /\ At(c, "insert") /\ Goto(c, "done")
  /\ versions' = versions \o <<call[c].columns, call[c].columns>>
  /\ UNCHANGED <<now, runs, freshness, check, inTurn>> /\ Observe

InsertVersion(c) ==
  /\ At(c, "insert") /\ Goto(c, "done")
  /\ versions' = Append(versions, call[c].columns)
  /\ UNCHANGED <<now, runs, freshness, check, inTurn>> /\ Observe

Crash(c) ==
  /\ c \in Active /\ Goto(c, "crashed")
  /\ UNCHANGED <<now, tables, check, inTurn>> /\ Observe

----------------------------------------------------------------------------
(* check_table_health: its two queries.                                    *)

ReadFailures ==
  /\ check.pc # "reading"
  /\ check' = [pc |-> "reading", at |-> now, failures |-> RecentFailures(now) # {},
               raised |-> \E c \in Call : /\ At(c, "raised") /\ call[c].kind = "track_run"
                                           /\ call[c].begun >= now - Lookback,
               status |-> Null]
  /\ UNCHANGED <<now, call, tables, inTurn>> /\ Observe

ReadFreshness ==
  /\ check.pc = "reading"
  /\ check' = [check EXCEPT !.pc = "done", !.status = TableStatus(check.failures, check.at)]
  /\ UNCHANGED <<now, call, tables, inTurn>> /\ Observe

Tick ==
  /\ now < MaxNow /\ now' = now + 1
  /\ ~\E c \in Call : call[c] # Null /\ call[c].pc \in Recording
  /\ UNCHANGED <<call, tables, check, inTurn>> /\ Observe

----------------------------------------------------------------------------
Next ==
  \/ \E c \in Call :
       \/ EnterTrackRun(c) \/ BodyEnds(c) \/ BodyRaises(c) \/ RecordFailure(c)
       \/ BuildGoldTable(c) \/ StartGoldRun(c)
       \/ RecordSuccess(c) \/ UpsertFreshness(c) \/ CompareColumns(c) \/ InsertVersion(c)
       \/ Crash(c)
  \/ ReadFailures
  \/ ReadFreshness
  \/ Tick

Spec == Init /\ [][Next]_vars

----------------------------------------------------------------------------
(* The table is marked fresh only for a batch that a recorded run took to  *)
(* success, never by one that failed or is still open.                     *)
FreshnessEarned ==
  freshness # Null =>
    \E c \in Call : /\ runs[c] # Null /\ runs[c].status = "success"
                    /\ runs[c].batch = freshness.batch
                    /\ runs[c].finished = freshness.updated

(* A writer that came back without an exception has its run recorded as a  *)
(* success, the table marked fresh, and its columns in the history.        *)
SuccessIsTracked ==
  \A c \in Call : At(c, "done") =>
    /\ runs[c] # Null /\ runs[c].status = "success"
    /\ freshness # Null /\ freshness.updated >= runs[c].finished
    /\ call[c].columns # Null => \E i \in DOMAIN versions : versions[i] = call[c].columns

(* Calls that take turns, each ending or dying before the next begins,     *)
(* record a new version only when the columns have changed. (Calls that    *)
(* overlap may not: see CompareColumns.)                                   *)
NoRepeatedVersion ==
  inTurn => \A i \in 1 .. Len(versions) - 1 : versions[i] # versions[i + 1]

(* A track_run call that raised before the check began, and began within   *)
(* the lookback window, makes the check say "failing". (The Gold writer    *)
(* has no failure path.)                                                   *)
FailuresAreReported ==
  check.pc = "done" /\ check.raised => check.status = "failing"

(* What a verdict is worth. A table reported healthy had a run that        *)
(* finished well no longer ago than the staleness threshold, counting from *)
(* the check; any other verdict was the true one at some instant between   *)
(* the two reads it was made from. ("Healthy" need not have been: a        *)
(* failure after the first read escapes it, a success before the second    *)
(* does not.)                                                              *)
VerdictsHold ==
  check.pc = "done" =>
    IF check.status = "healthy"
    THEN \E c \in Call : /\ runs[c] # Null /\ runs[c].status = "success"
                         /\ runs[c].finished >= check.at - MaxStaleness
    ELSE check.status \in truths
=============================================================================
