---------------------------- MODULE CustomerFeed ----------------------------
(***************************************************************************)
(* The customers source on one batch date: paginated extraction from an    *)
(* API that may gain and lose customers between two pages, landing, Bronze, *)
(* Silver. A page is fetched by offset; a transient error is tried again   *)
(* with the same page, a lasting one fails the attempt and Airflow starts  *)
(* the extraction again from the first page.                               *)
(***************************************************************************)
EXTENDS LakeLayers, FiniteSets, SequencesExt

CONSTANTS
  PageSize,      \* config.page_size
  FetchAttempts, \* stop_after_attempt
  TaskAttempts,  \* 1 + retries
  MaxReruns      \* bound: times the chain is run again for the date

ASSUME FeedAssumption ==
  /\ {PageSize, FetchAttempts, TaskAttempts} \subseteq Nat \ {0}
  /\ MaxReruns \in Nat

VARIABLES
  source,   \* what the API would serve, in its order: records without repeats
  pc,       \* "ingest", "fetch", "to_bronze", "silver", "done" or "failed"
  page, fetched,
  fetches,  \* attempts made at the current page
  attempts, \* attempts made at the current task
  reruns,
  asked,    \* ghost: the records the API had when the extraction began, and has
  gone      \* ghost: the records removed since

vars == <<source, pc, page, fetched, fetches, attempts, reruns, objects, asked, gone>>

Elements(s) == {s[i] : i \in DOMAIN s}
Distinct(s) == \A i, j \in DOMAIN s : i # j => s[i] # s[j]

Init ==
  /\ \E n \in 0..Cardinality(Record) :
       source \in {s \in [1..n -> Record] : Distinct(s)}
  /\ pc = "ingest" /\ page = 1 /\ fetched = <<>> /\ fetches = 0
  /\ attempts = 0 /\ reruns = 0
  /\ landing = Absent /\ bronze = Absent /\ silver = Absent
  /\ asked = {} /\ gone = {}

----------------------------------------------------------------------------
(* The API.                                                                *)

PageData(n) == SubSeq(source, (n - 1) * PageSize + 1,
                      IF n * PageSize < Len(source) THEN n * PageSize ELSE Len(source))

HasNext(n) == n * PageSize < Len(source)

(* Only an extraction sees the source, so changes made at other times are  *)
(* taken as made just before the next one. When a record goes, those after *)
(* it move up by one; who comes is put at the end, under an id of his own. *)
SourceShrinks ==
  /\ pc \in {"ingest", "fetch"}
  /\ \E i \in DOMAIN source :
       /\ source' = RemoveAt(source, i)
       /\ asked' = asked \ {source[i]} /\ gone' = gone \cup {source[i]}
  /\ UNCHANGED <<pc, page, fetched, fetches, attempts, reruns, objects>>
SourceGrows ==
  /\ pc \in {"ingest", "fetch"}
  /\ \E r \in Record \ (Elements(source) \cup gone) : source' = Append(source, r)
  /\ UNCHANGED <<pc, page, fetched, fetches, attempts, reruns, objects, asked, gone>>

----------------------------------------------------------------------------
(* The task `ingest'.                                                      *)

BeginExtract ==
  /\ pc = "ingest" /\ pc' = "fetch"
  /\ page' = 1 /\ fetched' = <<>> /\ fetches' = 0
  /\ attempts' = attempts + 1
  /\ asked' = Elements(source) /\ gone' = {}
  /\ UNCHANGED <<source, reruns, objects>>

(* One attempt at one page, and after the last one the landing file.       *)
FetchPage ==
  /\ pc = "fetch"
  /\ fetched' = fetched \o PageData(page)
  /\ fetches' = 0
  /\ \/ HasNext(page) /\ page' = page + 1 /\ UNCHANGED <<pc, attempts, landing>>
     \/ ~HasNext(page) /\ landing' = fetched' /\ pc' = "to_bronze" /\ attempts' = 0
        /\ UNCHANGED page
  /\ UNCHANGED <<source, reruns, bronze, silver, asked, gone>>

(* A plausible bug: the retry asks for the page after.                     *)
FetchTransientErrorSkips ==
  /\ pc = "fetch" /\ fetches + 1 < FetchAttempts
  /\ fetches' = fetches + 1
  /\ page' = IF HasNext(page) THEN page + 1 ELSE page
  /\ UNCHANGED <<source, pc, fetched, attempts, reruns, objects, asked, gone>>

FetchTransientError ==
  /\ pc = "fetch" /\ fetches + 1 < FetchAttempts
  /\ fetches' = fetches + 1
  /\ UNCHANGED <<source, pc, page, fetched, attempts, reruns, objects, asked, gone>>

(* An error that is not transient, or the last attempt at the page: what   *)
(* was fetched is lost with the attempt.                                   *)
AttemptFails ==
  /\ pc = "fetch"
  /\ pc' = IF attempts < TaskAttempts THEN "ingest" ELSE "failed"
  /\ UNCHANGED <<source, page, fetched, fetches, attempts, reruns, objects, asked, gone>>

----------------------------------------------------------------------------
(* A plausible bug: the records are added to the partition that is there.  *)
ToBronzeAppending ==
  /\ pc = "to_bronze" /\ pc' = "silver"
  /\ bronze' = (IF bronze = Absent THEN <<>> ELSE bronze) \o BronzeRows(landing, reruns)
  /\ UNCHANGED <<source, page, fetched, fetches, attempts, reruns, landing, silver, asked, gone>>

ToBronze ==
  /\ pc = "to_bronze" /\ pc' = "silver"
  /\ bronze' = BronzeRows(landing, reruns)
  /\ UNCHANGED <<source, page, fetched, fetches, attempts, reruns, landing, silver, asked, gone>>

(* An empty Bronze partition comes back as a frame without the columns     *)
(* `clean' reads, and the job fails.                                       *)
ToSilver ==
  /\ pc = "silver"
  /\ \/ /\ bronze # <<>> /\ silver' \in SilverChoices(bronze) /\ pc' = "done"
     \/ bronze = <<>> /\ pc' = "failed" /\ UNCHANGED silver
  /\ UNCHANGED <<source, page, fetched, fetches, attempts, reruns, landing, bronze, asked, gone>>

(* The DAG runs of the date are cleared: every task again, over the        *)
(* objects the runs before left.                                           *)
Rerun ==
  /\ pc \in {"done", "failed"} /\ reruns < MaxReruns
  /\ reruns' = reruns + 1 /\ pc' = "ingest" /\ attempts' = 0
  /\ UNCHANGED <<source, page, fetched, fetches, objects, asked, gone>>

Next ==
  \/ SourceGrows \/ SourceShrinks
  \/ BeginExtract \/ FetchPage \/ FetchTransientError \/ AttemptFails
  \/ ToBronze \/ ToSilver \/ Rerun

Spec == Init /\ [][Next]_vars

----------------------------------------------------------------------------
(* What an extraction lands is whole: nothing twice, and of the records    *)
(* the API had when the extraction began, and still has, as many missing   *)
(* at most as were removed from pages already fetched (each moves one      *)
(* record across a page border, unseen). Whatever was retried, whatever    *)
(* the attempts that failed had fetched, whatever was added meanwhile; and *)
(* removals on pages still to come cost nothing.                           *)
LandingIsWhole ==
  pc \in {"to_bronze", "silver", "done"} =>
    /\ Distinct(landing)
    /\ Cardinality(asked \ Elements(landing)) <= Cardinality(gone \cap Elements(landing))

(* Every customer the API had when the extraction began has his row in     *)
(* Silver at the end of the chain if his record was landed, and nobody has *)
(* one who is not in what this extraction landed: nothing of an earlier    *)
(* run for the date is left.                                               *)
SilverIsOfThisBatch ==
  pc = "done" =>
    /\ {KeyOf[r] : r \in asked \cap Elements(landing)} \ {NoKey} \subseteq DOMAIN silver
    /\ \A k \in DOMAIN silver : silver[k] \in Elements(landing) /\ KeyOf[silver[k]] = k
=============================================================================
