------------------------ MODULE RunTracking_proofs ------------------------
(***************************************************************************)
(* Proofs about the metadata of one table, for any calls, dates, columns   *)
(* and thresholds, any overlap of calls and any crashes.                   *)
(***************************************************************************)
EXTENDS RunTracking, FiniteSetTheorems, TLAPS

Pc == {"idle", "done", "raised", "crashed"} \cup InProgress

Shape ==
  /\ now \in 0..MaxNow
  /\ call \in [Call -> CallState \cup {Null}]
  /\ runs \in [Call -> RunRow \cup {Null}]
  /\ versions \in Seq(Columns)
  /\ check \in CheckState /\ check.at <= now

Has(columns) == \E i \in DOMAIN versions : versions[i] = columns
Row(c, status) == runs[c] # Null /\ runs[c].status = status
Tracked(c) ==
  Row(c, "success") /\ freshness # Null /\ freshness.updated >= runs[c].finished

(* What each point of a call says of its row and of the other two tables.  *)
Account(c) ==
  /\ call[c] = Null \/ At(c, "start") => runs[c] = Null
  /\ At(c, "complete") => Row(c, "running") /\ runs[c].batch = call[c].batch
  /\ At(c, "fail") => Row(c, "running")
  /\ At(c, "body") /\ HasEngine => Row(c, "running") /\ runs[c].batch = call[c].batch
  /\ At(c, "upsert") => /\ Row(c, "success") /\ runs[c].batch = call[c].batch
                        /\ runs[c].finished = now
  /\ At(c, "compare") \/ At(c, "insert") => Tracked(c) /\ call[c].columns # Null
  /\ At(c, "done") /\ HasEngine =>
       Tracked(c) /\ (call[c].columns # Null => Has(call[c].columns))
  /\ (At(c, "body") \/ At(c, "fail") \/ At(c, "raised"))
       /\ call[c].kind = "track_run" /\ HasEngine => runs[c].started = call[c].begun
  /\ At(c, "raised") /\ call[c].kind = "track_run" /\ HasEngine => Row(c, "failed")
Accounts == \A c \in Call : Account(c)

(* Nothing bears a time to come.                                           *)
Times ==
  /\ \A c \in Call : Row(c, "success") => runs[c].finished \in 0..now
  /\ freshness # Null => freshness.updated \in 0..now

IInv == Shape /\ Accounts /\ Times /\ FreshnessEarned
----------------------------------------------------------------------------
(* A call at a point moves to another.                                     *)
LEMMA Moves ==
  ASSUME Shape, NEW c \in Call, call[c] # Null, NEW p \in Pc, Goto(c, p)
  PROVE  /\ call' \in [Call -> CallState \cup {Null}]
         /\ \A d \in Call \ {c} : call'[d] = call[d]
         /\ call'[c] # Null /\ call'[c].pc = p
         /\ call'[c].kind = call[c].kind /\ call'[c].batch = call[c].batch
         /\ call'[c].columns = call[c].columns /\ call'[c].begun = call[c].begun
<1>1. call[c] \in CallState
  BY DEF Shape
<1>2. [call[c] EXCEPT !.pc = p] \in CallState
  BY <1>1 DEF CallState, Pc
<1>3. call' = [call EXCEPT ![c] = [call[c] EXCEPT !.pc = p]]
  BY DEF Goto, Shape
<1>4. call'[c] = [call[c] EXCEPT !.pc = p]
  BY <1>3 DEF Shape
<1>5. QED
  BY <1>1, <1>2, <1>3, <1>4, NullIsNoRecord DEF Shape, CallState

(* The rows that complete_run and start_run leave.                         *)
LEMMA Completes ==
  ASSUME Shape, NEW c \in Call, runs[c] # Null, NEW s \in {"success", "failed"},
         CompleteRun(c, s)
  PROVE  /\ runs' \in [Call -> RunRow \cup {Null}]
         /\ \A d \in Call \ {c} : runs'[d] = runs[d]
         /\ runs'[c] # Null /\ runs'[c].status = s /\ runs'[c].finished = now
         /\ runs'[c].batch = runs[c].batch /\ runs'[c].started = runs[c].started
<1> DEFINE row == [status |-> s, batch |-> runs[c].batch, started |-> runs[c].started,
                   finished |-> now]
<1>1. row \in RunRow
  BY DEF RunRow, Shape
<1>2. runs' = [runs EXCEPT ![c] = row]
  BY DEF CompleteRun, Shape
<1>3. QED
  BY <1>1, <1>2, NullIsNoRecord DEF Shape

LEMMA Starts ==
  ASSUME Shape, NEW c \in Call, NEW b \in Date, StartRun(c, b)
  PROVE  /\ runs' \in [Call -> RunRow \cup {Null}]
         /\ \A d \in Call \ {c} : runs'[d] = runs[d]
         /\ runs'[c] # Null /\ runs'[c].status = "running" /\ runs'[c].batch = b
         /\ runs'[c].started = now
<1> DEFINE row == [status |-> "running", batch |-> b, started |-> now, finished |-> Null]
<1>1. row \in RunRow
  BY DEF RunRow, Shape
<1>2. runs' = [runs EXCEPT ![c] = row]
  BY DEF StartRun
<1>3. QED
  BY <1>1, <1>2, NullIsNoRecord DEF Shape

(* The account of a call outlives the steps of the others: the tables only *)
(* gain, and the clock waits for a recording to end.                       *)
LEMMA OthersKeepAccount ==
  ASSUME IInv, NEW d \in Call, call'[d] = call[d], runs'[d] = runs[d],
         now' = now \/ (now' > now /\ ~At(d, "upsert")),
         freshness' = freshness \/ (freshness' # Null /\ freshness'.updated = now),
         \A k \in Columns : Has(k) => Has(k)'
  PROVE  Account(d)'
<1>1. Tracked(d) => Tracked(d)'
  BY DEF Tracked, Row, IInv, Times, Shape
<1>2. At(d, "done") /\ call[d].columns # Null => call[d].columns \in Columns
  BY DEF IInv, Shape, CallState, At
<1>3. Account(d)
  BY DEF IInv, Accounts
<1>4. QED
  BY <1>1, <1>2, <1>3 DEF Account, At, Row

(* A step of one call that leaves the rows of successes alone, and marks   *)
(* the table fresh only with the batch and the time of one.                *)
LEMMA CallStep ==
  ASSUME IInv, NEW c \in Call, Shape', now' = now,
         \A d \in Call \ {c} : call'[d] = call[d] /\ runs'[d] = runs[d],
         \A k \in Columns : Has(k) => Has(k)',
         Account(c)',
         Row(c, "success") => runs'[c] = runs[c],
         Row(c, "success")' => runs'[c].finished \in 0..now,
         freshness' = freshness \/
           (/\ freshness' # Null /\ freshness'.updated = now /\ Row(c, "success")
            /\ runs[c].batch = freshness'.batch /\ runs[c].finished = now)
  PROVE  IInv'
<1>1. ASSUME NEW d \in Call \ {c} PROVE Account(d)'
  BY OthersKeepAccount
<1>2. Accounts'
  BY <1>1 DEF Accounts
<1>3. Times'
  BY DEF IInv, Times, Row, Shape
<1>4. FreshnessEarned'
  BY DEF IInv, FreshnessEarned, Row
<1>5. QED
  BY <1>2, <1>3, <1>4 DEF IInv

LEMMA VersionsGrow ==
  ASSUME versions \in Seq(Columns), NEW k \in Columns, versions' = Append(versions, k)
  PROVE  /\ versions' \in Seq(Columns) /\ Has(k)'
         /\ \A x \in Columns : Has(x) => Has(x)'
BY DEF Has

(* Entering track_run, and the build of a Gold table.                      *)
LEMMA Entered ==
  ASSUME Shape, NEW c \in Call, NEW r \in CallState, call' = [call EXCEPT ![c] = r]
  PROVE  /\ call' \in [Call -> CallState \cup {Null}]
         /\ call'[c] = r /\ r # Null
         /\ \A d \in Call \ {c} : call'[d] = call[d]
BY NullIsNoRecord DEF Shape

LEMMA EnterTrackRunStep ==
  ASSUME IInv, NEW c \in Call, EnterTrackRun(c) PROVE IInv'
<1>1. PICK batch \in Date, columns \in Columns \cup {Null} :
        /\ call' = [call EXCEPT ![c] =
             [pc |-> "body", kind |-> "track_run", batch |-> batch,
              columns |-> columns, begun |-> now]]
        /\ IF HasEngine THEN StartRun(c, batch) ELSE UNCHANGED runs
  BY DEF EnterTrackRun
<1> DEFINE r == [pc |-> "body", kind |-> "track_run", batch |-> batch,
                 columns |-> columns, begun |-> now]
<1>2. UNCHANGED <<now, freshness, versions, check>> /\ call[c] = Null
  BY DEF EnterTrackRun, Begin
<1>3. r \in CallState
  BY DEF EnterTrackRun, CallState, InProgress, IInv, Shape
<1>4. /\ call' \in [Call -> CallState \cup {Null}]
      /\ call'[c] = r /\ r # Null
      /\ \A d \in Call \ {c} : call'[d] = call[d]
  BY <1>1, <1>3, Entered DEF IInv
<1>5. /\ runs' \in [Call -> RunRow \cup {Null}]
      /\ \A d \in Call \ {c} : runs'[d] = runs[d]
      /\ HasEngine => /\ Row(c, "running")' /\ runs'[c].batch = batch
                      /\ runs'[c].started = now
      /\ ~HasEngine => runs'[c] = runs[c]
  BY <1>1, Starts DEF IInv, Shape, Row
<1>6. runs[c] = Null
  BY <1>2 DEF IInv, Accounts, Account
<1>7. Account(c)'
  BY <1>2, <1>4, <1>5 DEF Account, At
<1>8. ~Row(c, "success") /\ ~Row(c, "success")'
  BY <1>5, <1>6 DEF Row
<1>9. Shape' /\ \A k \in Columns : Has(k) => Has(k)'
  BY <1>2, <1>4, <1>5 DEF IInv, Shape, Has
<1>10. QED
  BY <1>2, <1>4, <1>5, <1>7, <1>8, <1>9, CallStep

LEMMA BuildGoldTableStep ==
  ASSUME IInv, NEW c \in Call, BuildGoldTable(c) PROVE IInv'
<1>1. PICK batch \in Date, raises \in BOOLEAN :
        call' = [call EXCEPT ![c] =
          [pc |-> IF raises THEN "raised" ELSE IF HasEngine THEN "start" ELSE "done",
           kind |-> "gold", batch |-> batch, columns |-> Null, begun |-> now]]
  BY DEF BuildGoldTable
<1> DEFINE r == [pc |-> IF raises THEN "raised" ELSE IF HasEngine THEN "start" ELSE "done",
                 kind |-> "gold", batch |-> batch, columns |-> Null, begun |-> now]
<1>2. UNCHANGED <<now, runs, freshness, versions, check>> /\ call[c] = Null
  BY DEF BuildGoldTable, Begin, tables
<1>3. r \in CallState
  BY DEF BuildGoldTable, CallState, InProgress, IInv, Shape
<1>4. /\ call' \in [Call -> CallState \cup {Null}]
      /\ call'[c] = r /\ r # Null
      /\ \A d \in Call \ {c} : call'[d] = call[d]
  BY <1>1, <1>3, Entered DEF IInv
<1>5. runs[c] = Null
  BY <1>2 DEF IInv, Accounts, Account
<1>6. Account(c)'
  BY <1>2, <1>4, <1>5 DEF Account, At
<1>7. Shape' /\ \A k \in Columns : Has(k) => Has(k)'
  BY <1>2, <1>4 DEF IInv, Shape, Has
<1>8. ~Row(c, "success") /\ ~Row(c, "success")'
  BY <1>2, <1>5 DEF Row
<1>9. QED
  BY <1>2, <1>4, <1>6, <1>7, <1>8, CallStep

(* The steps that only move a call on.                                     *)
LEMMA MoveStep ==
  ASSUME IInv, NEW c \in Call, call[c] # Null, NEW p \in Pc, Goto(c, p),
         UNCHANGED <<now, tables, check>>, Account(c)'
  PROVE  IInv'
<1>1. /\ call' \in [Call -> CallState \cup {Null}]
      /\ \A d \in Call \ {c} : call'[d] = call[d]
  BY Moves DEF IInv
<1>2. UNCHANGED <<now, runs, freshness, versions, check>>
  BY DEF tables
<1>3. Shape' /\ (\A k \in Columns : Has(k) => Has(k)')
  BY <1>1, <1>2 DEF IInv, Shape, Has
<1>4. Row(c, "success")' => runs'[c].finished \in 0..now
  BY <1>2 DEF Row, IInv, Times
<1>5. QED
  BY <1>1, <1>2, <1>3, <1>4, CallStep

LEMMA BodyStep ==
  ASSUME IInv, NEW c \in Call, BodyEnds(c) \/ BodyRaises(c) PROVE IInv'
<1>1. /\ call[c] # Null /\ call[c].pc = "body" /\ UNCHANGED <<now, runs, freshness, versions>>
      /\ UNCHANGED <<now, tables, check>>
  BY DEF BodyEnds, BodyRaises, At, tables
<1>2. PICK p \in Pc :
        /\ Goto(c, p)
        /\ p = (IF HasEngine THEN "complete" ELSE "done")
             \/ p = (IF HasEngine THEN "fail" ELSE "raised")
  BY DEF BodyEnds, BodyRaises, Pc, InProgress
<1>3. /\ call'[c] # Null /\ call'[c].pc = p
      /\ call'[c].kind = call[c].kind /\ call'[c].batch = call[c].batch
      /\ call'[c].columns = call[c].columns /\ call'[c].begun = call[c].begun
  BY <1>1, <1>2, Moves DEF IInv
<1>4. Account(c)
  BY DEF IInv, Accounts
<1>5. Account(c)'
  BY <1>1, <1>2, <1>3, <1>4 DEF Account, At, Row
<1>6. QED
  BY <1>1, <1>2, <1>5, MoveStep

LEMMA CompareColumnsStep ==
  ASSUME IInv, NEW c \in Call, CompareColumns(c) PROVE IInv'
<1>1. /\ At(c, "compare") /\ call[c] # Null /\ call[c].pc = "compare"
      /\ UNCHANGED <<now, runs, freshness, versions>> /\ UNCHANGED <<now, tables, check>>
  BY DEF CompareColumns, At, tables
<1>2. Tracked(c) /\ call[c].columns # Null
  BY <1>1 DEF IInv, Accounts, Account
<1>3. Tracked(c)'
  BY <1>1, <1>2 DEF Tracked, Row
<1>4. CASE SameAsLatest(call[c].columns)
  <2>1. Goto(c, "done") /\ "done" \in Pc
    BY <1>4 DEF CompareColumns, Pc
  <2>2. call'[c].pc = "done" /\ call'[c] # Null /\ call'[c].columns = call[c].columns
    BY <1>1, <2>1, Moves DEF IInv
  <2>3. Has(call[c].columns)
    BY <1>4 DEF SameAsLatest, Has, IInv, Shape
  <2>4. Has(call[c].columns)'
    BY <1>1, <2>2, <2>3 DEF Has
  <2>5. Account(c)'
    BY <1>3, <2>2, <2>4 DEF Account, At
  <2>6. QED
    BY <1>1, <2>1, <2>5, MoveStep
<1>5. CASE ~SameAsLatest(call[c].columns)
  <2>1. Goto(c, "insert") /\ "insert" \in Pc
    BY <1>5 DEF CompareColumns, Pc, InProgress
  <2>2. call'[c].pc = "insert" /\ call'[c] # Null /\ call'[c].columns = call[c].columns
    BY <1>1, <2>1, Moves DEF IInv
  <2>3. Account(c)'
    BY <1>2, <1>3, <2>2 DEF Account, At
  <2>4. QED
    BY <1>1, <2>1, <2>3, MoveStep
<1>6. QED
  BY <1>4, <1>5

LEMMA CrashStep ==
  ASSUME IInv, NEW c \in Call, Crash(c) PROVE IInv'
<1>1. call[c] # Null /\ Goto(c, "crashed") /\ "crashed" \in Pc /\ UNCHANGED <<now, tables, check>>
  BY DEF Crash, Active, Pc
<1>2. call'[c] # Null /\ call'[c].pc = "crashed"
  BY <1>1, Moves DEF IInv
<1>3. Account(c)'
  BY <1>2 DEF Account, At
<1>4. QED
  BY <1>1, <1>3, MoveStep

(* The steps that write a row of pipeline_runs.                            *)
LEMMA StartGoldRunStep ==
  ASSUME IInv, NEW c \in Call, StartGoldRun(c) PROVE IInv'
<1>1. /\ At(c, "start") /\ call[c] # Null /\ UNCHANGED <<now, freshness, versions, check>>
      /\ Goto(c, "complete") /\ "complete" \in Pc
  BY DEF StartGoldRun, At, Pc, InProgress
<1>2. StartRun(c, call[c].batch) /\ call[c].batch \in Date
  BY <1>1 DEF StartGoldRun, IInv, Shape, CallState
<1>3. /\ call' \in [Call -> CallState \cup {Null}]
      /\ \A d \in Call \ {c} : call'[d] = call[d]
      /\ call'[c] # Null /\ call'[c].pc = "complete" /\ call'[c].batch = call[c].batch
  BY <1>1, Moves DEF IInv
<1>4. /\ runs' \in [Call -> RunRow \cup {Null}]
      /\ \A d \in Call \ {c} : runs'[d] = runs[d]
      /\ runs'[c] # Null /\ runs'[c].status = "running" /\ runs'[c].batch = call[c].batch
  BY <1>2, Starts DEF IInv
<1>5. Account(c)'
  BY <1>3, <1>4 DEF Account, At, Row
<1>6. ~Row(c, "success") /\ ~Row(c, "success")'
  BY <1>1, <1>4 DEF Row, IInv, Accounts, Account
<1>7. Shape' /\ (\A k \in Columns : Has(k) => Has(k)')
  BY <1>1, <1>3, <1>4 DEF IInv, Shape, Has
<1>8. QED
  BY <1>1, <1>3, <1>4, <1>5, <1>6, <1>7, CallStep

LEMMA RecordStep ==
  ASSUME IInv, NEW c \in Call, RecordFailure(c) \/ RecordSuccess(c) PROVE IInv'
<1>1. PICK p \in Pc, s \in {"failed", "success"} :
        /\ Goto(c, p) /\ CompleteRun(c, s) /\ call[c] # Null
        /\ \/ At(c, "fail") /\ p = "raised" /\ s = "failed"
           \/ At(c, "complete") /\ p = "upsert" /\ s = "success"
  BY DEF RecordFailure, RecordSuccess, At, Pc, InProgress
<1>2. UNCHANGED <<now, freshness, versions, check>>
  BY DEF RecordFailure, RecordSuccess
<1>3. Account(c) /\ Row(c, "running")
  BY <1>1 DEF IInv, Accounts, Account
<1>4. /\ call' \in [Call -> CallState \cup {Null}]
      /\ \A d \in Call \ {c} : call'[d] = call[d]
      /\ call'[c] # Null /\ call'[c].pc = p
      /\ call'[c].kind = call[c].kind /\ call'[c].batch = call[c].batch
      /\ call'[c].columns = call[c].columns /\ call'[c].begun = call[c].begun
  BY <1>1, Moves DEF IInv
<1>5. /\ runs' \in [Call -> RunRow \cup {Null}]
      /\ \A d \in Call \ {c} : runs'[d] = runs[d]
      /\ runs'[c] # Null /\ runs'[c].status = s /\ runs'[c].finished = now
      /\ runs'[c].batch = runs[c].batch /\ runs'[c].started = runs[c].started
  BY <1>1, <1>3, Completes DEF IInv, Row
<1>6. Account(c)'
  BY <1>1, <1>2, <1>3, <1>4, <1>5 DEF Account, At, Row
<1>7. ~Row(c, "success") /\ (Row(c, "success")' => runs'[c].finished \in 0..now)
  BY <1>3, <1>5 DEF Row, IInv, Shape
<1>8. Shape' /\ (\A k \in Columns : Has(k) => Has(k)')
  BY <1>2, <1>4, <1>5 DEF IInv, Shape, Has
<1>9. QED
  BY <1>2, <1>4, <1>5, <1>6, <1>7, <1>8, CallStep

LEMMA UpsertFreshnessStep ==
  ASSUME IInv, NEW c \in Call, UpsertFreshness(c) PROVE IInv'
<1>1. /\ At(c, "upsert") /\ call[c] # Null /\ UNCHANGED <<now, runs, versions, check>>
      /\ freshness' = [batch |-> call[c].batch, updated |-> now]
  BY DEF UpsertFreshness, At
<1>2. PICK p \in Pc : Goto(c, p) /\ p = IF call[c].columns = Null THEN "done" ELSE "compare"
  BY DEF UpsertFreshness, Pc, InProgress
<1>3. /\ call' \in [Call -> CallState \cup {Null}]
      /\ \A d \in Call \ {c} : call'[d] = call[d]
      /\ call'[c] # Null /\ call'[c].pc = p /\ call'[c].columns = call[c].columns
  BY <1>1, <1>2, Moves DEF IInv
<1>4. Row(c, "success") /\ runs[c].batch = call[c].batch /\ runs[c].finished = now
  BY <1>1 DEF IInv, Accounts, Account
<1>5. freshness' # Null /\ freshness'.updated = now /\ freshness'.batch = call[c].batch
  <2>1. call[c].batch \in Date /\ now \in 0..MaxNow
    BY <1>1 DEF IInv, Shape, CallState
  <2>2. freshness' \in FreshnessRow
    BY <1>1, <2>1 DEF FreshnessRow
  <2>3. QED
    BY <1>1, <2>2, NullIsNoRecord
<1>6. Tracked(c)'
  BY <1>1, <1>4, <1>5 DEF Tracked, Row, IInv, Shape
<1>7. Account(c)'
  BY <1>2, <1>3, <1>6 DEF Account, At
<1>8. Shape' /\ (\A k \in Columns : Has(k) => Has(k)')
  BY <1>1, <1>3 DEF IInv, Shape, Has
<1>9. Row(c, "success")' => runs'[c].finished \in 0..now
  BY <1>1, <1>4 DEF IInv, Shape
<1>10. QED
  BY <1>1, <1>3, <1>4, <1>5, <1>7, <1>8, <1>9, CallStep

LEMMA InsertVersionStep ==
  ASSUME IInv, NEW c \in Call, InsertVersion(c) PROVE IInv'
<1>1. /\ At(c, "insert") /\ call[c] # Null /\ UNCHANGED <<now, runs, freshness, check>>
      /\ versions' = Append(versions, call[c].columns)
      /\ Goto(c, "done") /\ "done" \in Pc
  BY DEF InsertVersion, At, Pc
<1>2. /\ call' \in [Call -> CallState \cup {Null}]
      /\ \A d \in Call \ {c} : call'[d] = call[d]
      /\ call'[c] # Null /\ call'[c].pc = "done" /\ call'[c].columns = call[c].columns
  BY <1>1, Moves DEF IInv
<1>3. Tracked(c) /\ call[c].columns # Null
  BY <1>1 DEF IInv, Accounts, Account
<1>4. call[c].columns \in Columns
  BY <1>1, <1>3 DEF IInv, Shape, CallState
<1>5. /\ versions' \in Seq(Columns) /\ Has(call[c].columns)'
      /\ \A x \in Columns : Has(x) => Has(x)'
  <2>1. versions \in Seq(Columns)
    BY DEF IInv, Shape
  <2> HIDE DEF Has
  <2>2. PICK k \in Columns : k = call[c].columns
    BY <1>4
  <2>3. versions' \in Seq(Columns) /\ Has(k)' /\ \A x \in Columns : Has(x) => Has(x)'
    BY <1>1, <2>1, <2>2, VersionsGrow
  <2>4. QED
    BY <1>1, <1>2, <2>2, <2>3 DEF Has
<1>6. Account(c)'
  BY <1>1, <1>2, <1>3, <1>5 DEF Account, At, Tracked, Row, Has
<1>7. Shape'
  BY <1>1, <1>2, <1>5 DEF IInv, Shape
<1>8. Row(c, "success")' => runs'[c].finished \in 0..now
  BY <1>1 DEF Row, IInv, Times
<1>9. QED
  BY <1>1, <1>2, <1>5, <1>6, <1>7, <1>8, CallStep

(* The health check changes no table; the clock waits for recordings.      *)
LEMMA TablesStay ==
  ASSUME IInv, UNCHANGED <<call, tables>>, check' \in CheckState, check'.at <= now',
         now' = now \/
           (now' \in 0..MaxNow /\ now' > now /\ \A c \in Call : ~At(c, "upsert"))
  PROVE  IInv'
<1>1. ASSUME NEW d \in Call PROVE Account(d)'
  BY OthersKeepAccount DEF tables, Has
<1>2. Accounts'
  BY <1>1 DEF Accounts
<1>3. Shape' /\ Times'
  BY DEF IInv, Shape, Times, Row, tables
<1>4. FreshnessEarned'
  BY DEF IInv, FreshnessEarned, tables
<1>5. QED
  BY <1>2, <1>3, <1>4 DEF IInv

LEMMA IInvStep == IInv /\ [Next]_vars => IInv'
<1> SUFFICES ASSUME IInv, [Next]_vars PROVE IInv'
  OBVIOUS
<1>1. ASSUME NEW c \in Call,
             \/ EnterTrackRun(c) \/ BodyEnds(c) \/ BodyRaises(c) \/ RecordFailure(c)
             \/ BuildGoldTable(c) \/ StartGoldRun(c)
             \/ RecordSuccess(c) \/ UpsertFreshness(c) \/ CompareColumns(c) \/ InsertVersion(c)
             \/ Crash(c)
      PROVE  IInv'
  BY <1>1, EnterTrackRunStep, BodyStep, RecordStep, BuildGoldTableStep, StartGoldRunStep,
     UpsertFreshnessStep, CompareColumnsStep, InsertVersionStep, CrashStep
<1>2. CASE ReadFailures
  <2>1. UNCHANGED <<now, call, tables>> /\ check'.at = now /\ now \in 0..MaxNow
    BY <1>2 DEF ReadFailures, IInv, Shape
  <2>2. check' \in CheckState
    BY <1>2, <2>1 DEF ReadFailures, CheckState, IInv, Shape
  <2>3. QED
    BY <2>1, <2>2, TablesStay
<1>3. CASE ReadFreshness
  <2>1. UNCHANGED <<now, call, tables>> /\ check'.at = check.at
    BY <1>3 DEF ReadFreshness, CheckState, IInv, Shape
  <2>2. TableStatus(check.failures, check.at) \in Status
    BY DEF TableStatus, Status
  <2>3. check' \in CheckState
    BY <1>3, <2>2 DEF ReadFreshness, CheckState, IInv, Shape
  <2>4. QED
    BY <2>1, <2>3, TablesStay DEF IInv, Shape
<1>4. CASE Tick
  <2>1. UNCHANGED <<call, tables, check>> /\ now' = now + 1 /\ now < MaxNow
        /\ \A c \in Call : ~At(c, "upsert")
    BY <1>4 DEF Tick, At, Recording
  <2>2. check'.at <= now' /\ now' \in 0..MaxNow /\ now' > now
    BY <2>1, NumberAssumption DEF IInv, Shape, CheckState
  <2>3. QED
    BY <2>1, <2>2, TablesStay DEF IInv, Shape
<1>5. CASE UNCHANGED vars
  BY <1>5, TablesStay DEF vars, IInv, Shape
<1>6. QED
  BY <1>1, <1>2, <1>3, <1>4, <1>5 DEF Next

(* The row of each run and the freshness of the table, through any number  *)
(* of calls and crashes: at each point of a call they are as its account   *)
(* says.                                                                   *)
THEOREM InductiveInvariant == Spec => []IInv
<1>1. Init => IInv
  <2> SUFFICES ASSUME Init PROVE IInv
    OBVIOUS
  <2>1. /\ \A c \in Call : call[c] = Null /\ runs[c] = Null
        /\ freshness = Null /\ now = 0 /\ versions = <<>>
    BY DEF Init
  <2>2. check \in CheckState /\ check.at <= now
    BY NumberAssumption DEF Init, CheckState
  <2>3. Shape
    BY <2>2, NumberAssumption DEF Init, Shape
  <2>4. Accounts /\ Times /\ FreshnessEarned
    BY <2>1 DEF Accounts, Account, At, Times, Row, FreshnessEarned
  <2>5. QED
    BY <2>3, <2>4 DEF IInv
<1>2. QED
  BY <1>1, IInvStep, PTL DEF Spec

(* A table is never marked fresh but for the batch and at the time of a    *)
(* run recorded as a success (FreshnessEarned).                            *)
THEOREM FreshnessEarnedAlways == Spec => []FreshnessEarned
<1>1. IInv => FreshnessEarned
  BY DEF IInv
<1>2. QED
  BY <1>1, InductiveInvariant, PTL

(* With an engine, a writer that came back has its success recorded, the   *)
(* table marked fresh no earlier than that, and its columns in the history *)
(* (SuccessIsTracked).                                                     *)
THEOREM SuccessIsTrackedAlways ==
  ASSUME HasEngine PROVE Spec => []SuccessIsTracked
<1>1. IInv => SuccessIsTracked
  BY DEF IInv, Accounts, Account, Tracked, Row, Has, SuccessIsTracked
<1>2. QED
  BY <1>1, InductiveInvariant, PTL
----------------------------------------------------------------------------
(* Calls that take turns.                                                  *)
Turns ==
  inTurn =>
    /\ \A c, d \in Active : c = d
    /\ \A c \in Call : At(c, "insert") => ~SameAsLatest(call[c].columns)
VInv == NoRepeatedVersion /\ Turns

LEMMA AppendDiffers ==
  ASSUME versions \in Seq(Columns), NEW k \in Columns, ~SameAsLatest(k),
         \A i \in 1 .. Len(versions) - 1 : versions[i] # versions[i + 1],
         versions' = Append(versions, k)
  PROVE  \A i \in 1 .. Len(versions') - 1 : versions'[i] # versions'[i + 1]
<1> SUFFICES ASSUME NEW i \in 1 .. Len(versions') - 1 PROVE versions'[i] # versions'[i + 1]
  OBVIOUS
<1>1. /\ Len(versions') = Len(versions) + 1 /\ Len(versions) \in Nat
      /\ \A j \in 1 .. Len(versions) : versions'[j] = versions[j]
      /\ versions'[Len(versions) + 1] = k
  OBVIOUS
<1>2. CASE i = Len(versions)
  BY <1>1, <1>2 DEF SameAsLatest
<1>3. CASE i # Len(versions)
  <2>1. i \in 1 .. Len(versions) - 1
    BY <1>1, <1>3
  <2>2. versions'[i] = versions[i] /\ versions'[i + 1] = versions[i + 1]
    BY <1>1, <2>1
  <2>3. QED
    BY <2>1, <2>2
<1>4. QED
  BY <1>2, <1>3

LEMMA VInvStep == IInv /\ VInv /\ [Next]_vars => VInv'
<1> SUFFICES ASSUME IInv, VInv, [Next]_vars PROVE VInv'
  OBVIOUS
<1>a. versions \in Seq(Columns) /\ call \in [Call -> CallState \cup {Null}]
  BY DEF IInv, Shape
<1>1. ASSUME NEW c \in Call, EnterTrackRun(c) \/ BuildGoldTable(c) PROVE VInv'
  <2>1. versions' = versions /\ inTurn' = (inTurn /\ Active = {})
        /\ \A d \in Call \ {c} : call'[d] = call[d]
    BY <1>1, <1>a DEF EnterTrackRun, BuildGoldTable, Begin, tables
  <2>2. call'[c].pc # "insert"
    BY <1>1, <1>a DEF EnterTrackRun, BuildGoldTable
  <2>3. inTurn' => Active' \subseteq {c}
    BY <2>1 DEF Active
  <2>4. inTurn' => \A d \in Call : ~At(d, "insert")'
    BY <2>1, <2>2 DEF Active, At, InProgress
  <2>5. QED
    BY <2>1, <2>3, <2>4 DEF VInv, Turns, NoRepeatedVersion
<1>2. ASSUME NEW c \in Call, NEW p \in Pc \ {"insert"}, c \in Active, Goto(c, p),
             UNCHANGED <<versions, inTurn>>
      PROVE  VInv'
  <2>1. /\ \A d \in Call \ {c} : call'[d] = call[d]
        /\ call'[c].pc = p
    BY <1>2, Moves DEF IInv, Active
  <2>2. Active' \subseteq Active
    BY <1>2, <2>1 DEF Active
  <2>3. \A d \in Call : At(d, "insert")' => At(d, "insert") /\ call'[d] = call[d]
    BY <1>2, <2>1 DEF At
  <2>4. QED
    BY <1>2, <2>2, <2>3 DEF VInv, Turns, NoRepeatedVersion, SameAsLatest
<1>3. ASSUME NEW c \in Call,
             \/ BodyEnds(c) \/ BodyRaises(c) \/ RecordFailure(c) \/ StartGoldRun(c)
             \/ RecordSuccess(c) \/ UpsertFreshness(c) \/ Crash(c)
      PROVE  VInv'
  <2>1. c \in Active /\ UNCHANGED <<versions, inTurn>>
    BY <1>3 DEF BodyEnds, BodyRaises, RecordFailure, StartGoldRun, RecordSuccess,
                UpsertFreshness, Crash, At, Active, InProgress, tables
  <2>2. \E p \in Pc \ {"insert"} : Goto(c, p)
    BY <1>3 DEF BodyEnds, BodyRaises, RecordFailure, StartGoldRun, RecordSuccess,
                UpsertFreshness, Crash, Pc, InProgress
  <2>3. QED
    BY <2>1, <2>2, <1>2
<1>4. ASSUME NEW c \in Call, CompareColumns(c) PROVE VInv'
  <2>1. c \in Active /\ UNCHANGED <<versions, inTurn>> /\ call[c] # Null
    BY <1>4 DEF CompareColumns, At, Active, InProgress, tables
  <2>2. CASE SameAsLatest(call[c].columns)
    <3>1. Goto(c, "done") /\ "done" \in Pc \ {"insert"}
      BY <1>4, <2>2 DEF CompareColumns, Pc
    <3>2. QED
      BY <2>1, <3>1, <1>2
  <2>3. CASE ~SameAsLatest(call[c].columns)
    <3>1. Goto(c, "insert") /\ "insert" \in Pc
      BY <1>4, <2>3 DEF CompareColumns, Pc, InProgress
    <3>2. /\ \A d \in Call \ {c} : call'[d] = call[d]
          /\ call'[c].columns = call[c].columns
      BY <2>1, <3>1, Moves DEF IInv
    <3>3. Active' \subseteq Active
      BY <2>1, <3>2 DEF Active
    <3>4. ASSUME NEW d \in Call, inTurn, At(d, "insert")'
          PROVE  ~SameAsLatest(call[d].columns)'
      BY <2>1, <2>3, <3>2, <3>4 DEF VInv, Turns, At, SameAsLatest
    <3>5. QED
      BY <2>1, <3>3, <3>4 DEF VInv, Turns, NoRepeatedVersion
  <2>4. QED
    BY <2>2, <2>3
<1>5. ASSUME NEW c \in Call, InsertVersion(c) PROVE VInv'
  <2>1. /\ c \in Active /\ inTurn' = inTurn /\ call[c] # Null /\ At(c, "insert")
        /\ versions' = Append(versions, call[c].columns)
        /\ Goto(c, "done") /\ "done" \in Pc
    BY <1>5 DEF InsertVersion, At, Active, InProgress, Pc
  <2>2. /\ \A d \in Call \ {c} : call'[d] = call[d]
        /\ call'[c].pc = "done"
    BY <2>1, Moves DEF IInv
  <2>3. Active' \subseteq Active
    BY <2>1, <2>2 DEF Active
  <2>4. inTurn => \A d \in Call : ~At(d, "insert")'
    BY <2>1, <2>2 DEF VInv, Turns, Active, At, InProgress
  <2>5. PICK k \in Columns : k = call[c].columns
    BY <2>1 DEF IInv, Shape, Accounts, Account, CallState
  <2>6. inTurn => \A i \in 1 .. Len(versions') - 1 : versions'[i] # versions'[i + 1]
    BY <1>a, <2>1, <2>5, AppendDiffers DEF VInv, Turns, NoRepeatedVersion
  <2>7. QED
    BY <2>1, <2>3, <2>4, <2>6 DEF VInv, Turns, NoRepeatedVersion
<1>6. CASE UNCHANGED <<call, versions, inTurn>>
  BY <1>6 DEF VInv, Turns, NoRepeatedVersion, Active, At, SameAsLatest
<1>7. QED
  BY <1>1, <1>3, <1>4, <1>5, <1>6 DEF Next, ReadFailures, ReadFreshness, Tick, vars, tables

(* Calls in turn record a new version only when the columns have changed,  *)
(* for any columns and any crashes between two steps (NoRepeatedVersion).  *)
THEOREM NoRepeatedVersionAlways == Spec => []NoRepeatedVersion
<1>1. Init => VInv
  BY DEF Init, VInv, Turns, NoRepeatedVersion, Active, At
<1>2. VInv => NoRepeatedVersion
  BY DEF VInv
<1>3. QED
  BY <1>1, <1>2, InductiveInvariant, VInvStep, PTL DEF Spec
----------------------------------------------------------------------------
(* The health check. What its first read found was true when it was read,  *)
(* and what the second finds missing or old was so at the first already.   *)
Stale(at) == freshness # Null /\ at - freshness.updated > MaxStaleness
CInv ==
  /\ check.pc = "reading" =>
       /\ check.failures => "failing" \in truths
       /\ ~check.failures /\ freshness = Null => "never_run" \in truths
       /\ ~check.failures /\ Stale(check.at) => "stale" \in truths
  /\ check.raised => check.failures \/ ~HasEngine
  /\ check.pc = "done" /\ check.failures => check.status = "failing"
  /\ VerdictsHold

(* What the writers and the clock do to the tables the check reads.        *)
LEMMA TablesMove ==
  ASSUME IInv, [Next]_vars, ~ReadFailures, ~ReadFreshness
  PROVE  /\ check' = check
         /\ freshness' = freshness \/ (freshness' # Null /\ freshness'.updated = now)
         /\ \A c \in Call : Row(c, "success") => runs'[c] = runs[c]
         /\ truths \subseteq truths'
<1>1. CASE \/ UNCHANGED <<runs, freshness, check, truths>>
           \/ UNCHANGED <<runs, freshness, check>> /\ Observe
  BY <1>1 DEF Observe
<1>2. ASSUME NEW c \in Call, EnterTrackRun(c) \/ StartGoldRun(c)
      PROVE  /\ UNCHANGED <<freshness, check>> /\ truths \subseteq truths'
             /\ \A d \in Call : Row(d, "success") => runs'[d] = runs[d]
  <2>1. runs[c] = Null
    BY <1>2 DEF EnterTrackRun, StartGoldRun, Begin, IInv, Accounts, Account
  <2>2. UNCHANGED <<freshness, check>> /\ truths \subseteq truths'
    BY <1>2 DEF EnterTrackRun, StartGoldRun, Observe
  <2>3. \A d \in Call \ {c} : runs'[d] = runs[d]
    BY <1>2 DEF EnterTrackRun, StartGoldRun, StartRun, IInv, Shape
  <2>4. QED
    BY <2>1, <2>2, <2>3 DEF Row
<1>3. ASSUME NEW c \in Call, RecordFailure(c) \/ RecordSuccess(c)
      PROVE  /\ UNCHANGED <<freshness, check>> /\ truths \subseteq truths'
             /\ \A d \in Call : Row(d, "success") => runs'[d] = runs[d]
  <2>1. Row(c, "running")
    BY <1>3 DEF RecordFailure, RecordSuccess, IInv, Accounts, Account
  <2>2. UNCHANGED <<freshness, check>> /\ truths \subseteq truths'
    BY <1>3 DEF RecordFailure, RecordSuccess, Observe
  <2>3. \A d \in Call \ {c} : runs'[d] = runs[d]
    BY <1>3 DEF RecordFailure, RecordSuccess, CompleteRun, IInv, Shape
  <2>4. QED
    BY <2>1, <2>2, <2>3 DEF Row
<1>4. ASSUME NEW c \in Call, UpsertFreshness(c)
      PROVE  /\ UNCHANGED <<runs, check>> /\ truths \subseteq truths'
             /\ freshness' # Null /\ freshness'.updated = now
  <2>1. /\ UNCHANGED <<runs, check>> /\ truths \subseteq truths'
        /\ freshness' = [batch |-> call[c].batch, updated |-> now]
        /\ call[c] # Null
    BY <1>4 DEF UpsertFreshness, Observe, At
  <2>2. freshness' \in FreshnessRow
    BY <2>1 DEF FreshnessRow, CallState, IInv, Shape
  <2>3. QED
    BY <2>1, <2>2, NullIsNoRecord
<1>5. QED
  BY <1>1, <1>2, <1>3, <1>4
     DEF Next, BodyEnds, BodyRaises, BuildGoldTable, CompareColumns, InsertVersion, Crash, Tick,
         vars, tables

LEMMA CInvStep == IInv /\ CInv /\ [Next]_vars => CInv'
<1> SUFFICES ASSUME IInv, CInv, [Next]_vars PROVE CInv'
  OBVIOUS
<1>a. /\ check \in CheckState /\ check.at <= now /\ now \in Nat
      /\ MaxStaleness \in Nat /\ Lookback \in Nat
      /\ freshness # Null => freshness.updated \in 0..now
  BY NumberAssumption DEF IInv, Shape, Times
<1>1. CASE ReadFailures
  <2>1. /\ check' = [pc |-> "reading", at |-> now, failures |-> RecentFailures(now) # {},
               raised |-> \E c \in Call : /\ At(c, "raised") /\ call[c].kind = "track_run"
                                           /\ call[c].begun >= now - Lookback,
               status |-> Null]
        /\ UNCHANGED <<now, call, runs, freshness>>
        /\ check.pc # "reading"
    BY <1>1 DEF ReadFailures, tables
  <2>2. check'.pc = "reading" /\ check'.at = now /\ (check'.failures <=> RecentFailures(now) # {})
    BY <2>1
  <2>3. TableStatus(RecentFailures(now) # {}, now) \in truths'
    BY <1>1, <2>1, <2>2 DEF ReadFailures, Observe, Truth, TableStatus, RecentFailures
  <2>4. ASSUME NEW c \in Call, At(c, "raised"), call[c].kind = "track_run",
               call[c].begun >= now - Lookback, HasEngine
        PROVE  RecentFailures(now) # {}
    BY <2>4 DEF RecentFailures, IInv, Accounts, Account, Row
  <2>5. check'.raised => check'.failures \/ ~HasEngine
    BY <2>1, <2>4
  <2>6. /\ check'.failures => "failing" \in truths'
        /\ ~check'.failures /\ freshness' = Null => "never_run" \in truths'
        /\ ~check'.failures /\ Stale(check.at)' => "stale" \in truths'
    BY <2>1, <2>2, <2>3 DEF TableStatus, Stale
  <2>7. QED
    BY <2>2, <2>5, <2>6 DEF CInv, VerdictsHold
<1>2. CASE ReadFreshness
  <2>1. /\ check' = [check EXCEPT !.pc = "done", !.status = TableStatus(check.failures, check.at)]
        /\ UNCHANGED <<now, runs, freshness>> /\ check.pc = "reading"
    BY <1>2 DEF ReadFreshness, tables
  <2>2. /\ check'.pc = "done" /\ check'.at = check.at /\ check'.failures = check.failures
        /\ check'.raised = check.raised
        /\ check'.status = TableStatus(check.failures, check.at)
    BY <1>a, <2>1 DEF CheckState
  <2>3. truths' = truths
    BY <1>2, <2>2 DEF ReadFreshness, Observe
  <2>4. check'.failures => check'.status = "failing"
    BY <2>2 DEF TableStatus
  <2>5. CASE check'.status = "healthy"
    <3>1. freshness # Null /\ freshness.updated >= check.at - MaxStaleness
      BY <1>a, <2>2, <2>5 DEF TableStatus, CheckState
    <3>2. PICK c \in Call : /\ runs[c] # Null /\ runs[c].status = "success"
                            /\ runs[c].finished = freshness.updated
      BY <3>1 DEF IInv, FreshnessEarned
    <3>3. VerdictsHold'
      BY <2>1, <2>2, <2>5, <3>1, <3>2 DEF VerdictsHold
    <3>4. QED
      BY <2>2, <2>4, <3>3 DEF CInv
  <2>6. CASE check'.status # "healthy"
    <3>1. check'.status \in truths
      BY <2>1, <2>2, <2>6 DEF TableStatus, CInv, Stale
    <3>2. VerdictsHold'
      BY <2>2, <2>3, <2>6, <3>1 DEF VerdictsHold
    <3>3. QED
      BY <2>2, <2>4, <3>2 DEF CInv
  <2>7. QED
    BY <2>5, <2>6
<1>3. CASE ~ReadFailures /\ ~ReadFreshness
  <2>1. /\ check' = check
        /\ freshness' = freshness \/ (freshness' # Null /\ freshness'.updated = now)
        /\ \A c \in Call : Row(c, "success") => runs'[c] = runs[c]
        /\ truths \subseteq truths'
    BY <1>3, TablesMove
  <2>2. /\ Stale(check.at)' => Stale(check.at)
        /\ freshness' = Null => freshness = Null
    BY <1>a, <2>1 DEF Stale, CheckState
  <2>3. VerdictsHold'
    <3>1. CASE check.pc = "done" /\ check.status = "healthy"
      <4>1. PICK c \in Call : Row(c, "success") /\ runs[c].finished >= check.at - MaxStaleness
        BY <3>1 DEF CInv, VerdictsHold, Row
      <4>2. QED
        BY <2>1, <3>1, <4>1 DEF VerdictsHold, Row
    <3>2. CASE ~(check.pc = "done" /\ check.status = "healthy")
      BY <2>1, <3>2 DEF CInv, VerdictsHold
    <3>3. QED
      BY <3>1, <3>2
  <2>4. QED
    BY <2>1, <2>2, <2>3 DEF CInv
<1>4. QED
  BY <1>1, <1>2, <1>3

LEMMA CheckInvariant == Spec => []CInv
<1>1. Init => CInv
  BY DEF Init, CInv, VerdictsHold
<1>2. QED
  BY <1>1, InductiveInvariant, CInvStep, PTL DEF Spec

(* A check that calls the table healthy found a success recent enough; any *)
(* other verdict was true at an instant between its two reads, whatever    *)
(* the calls beside it wrote (VerdictsHold).                               *)
THEOREM VerdictsHoldAlways == Spec => []VerdictsHold
<1>1. CInv => VerdictsHold
  BY DEF CInv
<1>2. QED
  BY <1>1, CheckInvariant, PTL

(* With an engine, a track_run call that began within the lookback window  *)
(* and raised before the check is never missed (FailuresAreReported). One  *)
(* that began before the window and raised within it may be.               *)
THEOREM FailuresAreReportedAlways ==
  ASSUME HasEngine PROVE Spec => []FailuresAreReported
<1>1. CInv => FailuresAreReported
  BY DEF CInv, FailuresAreReported
<1>2. QED
  BY <1>1, CheckInvariant, PTL
----------------------------------------------------------------------------
(* Types. Each call inserts one version at most, as it ends.               *)
Finished == {c \in Call : At(c, "done")}
TInv ==
  /\ freshness \in FreshnessRow \cup {Null}
  /\ truths \subseteq Status /\ inTurn \in BOOLEAN
  /\ Len(versions) <= Cardinality(Finished)

LEMMA FinishedGrows ==
  ASSUME IInv, Finished \subseteq Finished'
  PROVE  Cardinality(Finished) <= Cardinality(Finished')
<1>1. IsFiniteSet(Finished')
  BY CallAssumption, FS_Subset DEF Finished
<1>2. QED
  BY <1>1, FS_Subset

LEMMA TInvStep == IInv /\ TInv /\ [Next]_vars => TInv'
<1> SUFFICES ASSUME IInv, TInv, [Next]_vars PROVE TInv'
  OBVIOUS
<1>a. versions \in Seq(Columns) /\ IsFiniteSet(Finished) /\ Cardinality(Finished) \in Nat
  BY CallAssumption, FS_Subset, FS_CardinalityType DEF IInv, Shape, Finished
<1>b. IsFiniteSet(Finished') /\ Cardinality(Finished') \in Nat
  BY CallAssumption, FS_Subset, FS_CardinalityType DEF Finished
<1>1. freshness' \in FreshnessRow \cup {Null}
  <2>1. ASSUME NEW c \in Call, UpsertFreshness(c) PROVE freshness' \in FreshnessRow
    BY <2>1 DEF UpsertFreshness, At, FreshnessRow, CallState, IInv, Shape
  <2>2. ASSUME freshness' = freshness PROVE freshness' \in FreshnessRow \cup {Null}
    BY <2>2 DEF TInv
  <2>3. QED
    BY <2>1, <2>2 DEF Next, EnterTrackRun, BodyEnds, BodyRaises, RecordFailure, BuildGoldTable,
         StartGoldRun, RecordSuccess, CompareColumns, InsertVersion, Crash, ReadFailures,
         ReadFreshness, Tick, vars, tables
<1>2. truths' \subseteq Status
  <2>1. Truth' \in Status
    BY DEF Truth, TableStatus, Status
  <2>2. Observe => truths' \subseteq Status
    BY <2>1 DEF Observe, TInv
  <2>3. truths' = truths => truths' \subseteq Status
    BY DEF TInv
  <2>4. QED
    BY <2>2, <2>3 DEF Next, EnterTrackRun, BodyEnds, BodyRaises, RecordFailure, BuildGoldTable,
         StartGoldRun, RecordSuccess, UpsertFreshness, CompareColumns, InsertVersion, Crash,
         ReadFailures, ReadFreshness, Tick, vars
<1>3. inTurn' \in BOOLEAN
  BY DEF TInv, Next, EnterTrackRun, BodyEnds, BodyRaises, RecordFailure, BuildGoldTable,
         StartGoldRun, RecordSuccess, UpsertFreshness, CompareColumns, InsertVersion, Crash,
         ReadFailures, ReadFreshness, Tick, vars, Begin
<1>4. ASSUME NEW c \in Call, c \notin Finished, versions' = versions,
             \A d \in Call \ {c} : call'[d] = call[d]
      PROVE  Len(versions') <= Cardinality(Finished')
  <2>1. Finished \subseteq Finished'
    BY <1>4 DEF Finished, At
  <2>2. QED
    BY <1>a, <1>b, <1>4, <2>1, FinishedGrows DEF TInv
<1>5. ASSUME NEW c \in Call, InsertVersion(c) PROVE Len(versions') <= Cardinality(Finished')
  <2>1. /\ call[c] # Null /\ call[c].pc = "insert" /\ Goto(c, "done") /\ "done" \in Pc
        /\ versions' = Append(versions, call[c].columns)
    BY <1>5 DEF InsertVersion, At, Pc
  <2>2. /\ \A d \in Call \ {c} : call'[d] = call[d]
        /\ call'[c] # Null /\ call'[c].pc = "done"
    BY <2>1, Moves DEF IInv
  <2>3. c \notin Finished /\ Finished' = Finished \cup {c}
    BY <2>1, <2>2 DEF Finished, At
  <2>4. Cardinality(Finished') = Cardinality(Finished) + 1
    BY <1>a, <2>3, FS_AddElement
  <2>5. Len(versions') = Len(versions) + 1 /\ Len(versions) \in Nat
    BY <1>a, <2>1
  <2>6. QED
    BY <1>a, <2>4, <2>5 DEF TInv
<1>6. ASSUME NEW c \in Call,
             \/ EnterTrackRun(c) \/ BodyEnds(c) \/ BodyRaises(c) \/ RecordFailure(c)
             \/ BuildGoldTable(c) \/ StartGoldRun(c) \/ RecordSuccess(c) \/ UpsertFreshness(c)
             \/ CompareColumns(c) \/ Crash(c)
      PROVE  Len(versions') <= Cardinality(Finished')
  <2>1. versions' = versions
    BY <1>6 DEF EnterTrackRun, BodyEnds, BodyRaises, RecordFailure, BuildGoldTable, StartGoldRun,
         RecordSuccess, UpsertFreshness, CompareColumns, Crash, tables
  <2>2. c \notin Finished
    BY <1>6 DEF EnterTrackRun, BodyEnds, BodyRaises, RecordFailure, BuildGoldTable, StartGoldRun,
         RecordSuccess, UpsertFreshness, CompareColumns, Crash, Begin, Active, InProgress, At, Finished
  <2>3. \A d \in Call \ {c} : call'[d] = call[d]
    BY <1>6 DEF EnterTrackRun, BodyEnds, BodyRaises, RecordFailure, BuildGoldTable, StartGoldRun,
         RecordSuccess, UpsertFreshness, CompareColumns, Crash, Goto, IInv, Shape
  <2>4. QED
    BY <1>4, <2>1, <2>2, <2>3
<1>7. ASSUME UNCHANGED <<call, versions>> PROVE Len(versions') <= Cardinality(Finished')
  <2>1. Finished' = Finished
    BY <1>7 DEF Finished, At
  <2>2. QED
    BY <1>7, <2>1 DEF TInv
<1>8. Len(versions') <= Cardinality(Finished')
  <2>1. ASSUME ReadFailures \/ ReadFreshness \/ Tick \/ UNCHANGED vars
        PROVE  UNCHANGED <<call, versions>>
    BY <2>1 DEF ReadFailures, ReadFreshness, Tick, vars, tables
  <2>2. QED
    BY <1>5, <1>6, <1>7, <2>1 DEF Next
<1>9. QED
  BY <1>1, <1>2, <1>3, <1>8 DEF TInv

(* The metadata tables and the calls are always of their declared types;   *)
(* no call records more than one version (TypeOK).                         *)
THEOREM TypeCorrect == Spec => []TypeOK
<1>1. Init => TInv
  <2> SUFFICES ASSUME Init PROVE TInv
    OBVIOUS
  <2>1. Finished = {} /\ Len(versions) = 0
    BY DEF Init, Finished, At
  <2>2. Cardinality(Finished) = 0
    BY <2>1, FS_EmptySet
  <2>3. QED
    BY <2>1, <2>2 DEF Init, TInv
<1>2. IInv /\ TInv => TypeOK
  <2> SUFFICES ASSUME IInv, TInv PROVE TypeOK
    OBVIOUS
  <2>1. Cardinality(Finished) <= Cardinality(Call) /\ Cardinality(Finished) \in Nat
        /\ Cardinality(Call) \in Nat
    BY CallAssumption, FS_Subset, FS_CardinalityType DEF Finished
  <2>2. Len(versions) \in Nat
    BY DEF IInv, Shape
  <2>3. Len(versions) <= Cardinality(Call)
    BY <2>1, <2>2 DEF TInv
  <2>4. QED
    BY <2>3 DEF IInv, Shape, TInv, TypeOK
<1>3. QED
  BY <1>1, <1>2, InductiveInvariant, TInvStep, PTL DEF Spec
=============================================================================
