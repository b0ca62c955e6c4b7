-------------------------- MODULE SupplierCatalog --------------------------
(***************************************************************************)
(* The suppliers source: every weekly run lists the directory, reads all   *)
(* its files again, one after the other, and lands them as one batch. A    *)
(* supplier may drop a file at any moment, also while others are read.     *)
(***************************************************************************)
EXTENDS SupplierDrops, FiniteSets

CONSTANTS MaxWeeks, MaxLines \* bounds: weekly runs and files, lines in a file

ASSUME CatalogAssumption == {MaxWeeks, MaxLines} \subseteq Nat

VARIABLES
  pc,       \* "ingest", "read", "to_bronze" or "silver"; "idle" or "failed"
  week,     \* runs begun; each is a batch date of its own
  read,     \* files read by the attempt under way
  records   \* what it has read

vars == <<files, pc, week, listed, read, records, objects>>

Init ==
  /\ files = <<>> /\ pc = "idle" /\ week = 0
  /\ listed = 0 /\ read = 0 /\ records = <<>>
  /\ landing = Absent /\ bronze = Absent /\ silver = Absent

(* A supplier drops a file.                                                *)
DropFile ==
  /\ Len(files) < MaxWeeks
  /\ \E n \in 1..MaxLines : \E f \in [1..n -> Record \ LinesOf(Len(files))] :
       IsInjective(f) /\ files' = Append(files, f)
  /\ UNCHANGED <<pc, week, listed, read, records, objects>>

BeginWeek ==
  /\ pc \in {"idle", "failed"} /\ week < MaxWeeks
  /\ week' = week + 1 /\ pc' = "ingest"
  /\ landing' = Absent /\ bronze' = Absent /\ silver' = Absent
  /\ UNCHANGED <<files, listed, read, records>>

(* A plausible bug: files listed by an earlier run are not read again.     *)
ListNewFiles ==
  /\ pc = "ingest" /\ pc' = "read"
  /\ listed' = Len(files) /\ read' = listed /\ records' = <<>>
  /\ UNCHANGED <<files, week, objects>>

(* sorted(glob(..)) makes the whole list before the first file is opened.  *)
ListFiles ==
  /\ pc = "ingest" /\ pc' = "read"
  /\ listed' = Len(files) /\ read' = 0 /\ records' = <<>>
  /\ UNCHANGED <<files, week, objects>>

ReadFile ==
  /\ pc = "read" /\ read < listed
  /\ records' = records \o files[read + 1] /\ read' = read + 1
  /\ UNCHANGED <<files, pc, week, listed, objects>>

(* A file that cannot be read, or any other exception: what was read goes  *)
(* with the attempt, and Airflow starts the task again, or no more.        *)
AttemptFails ==
  /\ pc = "read" /\ pc' \in {"ingest", "failed"}
  /\ UNCHANGED <<files, week, listed, read, records, objects>>

Land ==
  /\ pc = "read" /\ read = listed /\ pc' = "to_bronze"
  /\ landing' = records
  /\ UNCHANGED <<files, week, listed, read, records, bronze, silver>>

ToBronze ==
  /\ pc = "to_bronze" /\ pc' = "silver"
  /\ bronze' = BronzeRows(landing, week)
  /\ UNCHANGED <<files, week, listed, read, records, landing, silver>>

(* With no line at all the frame lacks the columns `clean' reads.          *)
ToSilver ==
  /\ pc = "silver"
  /\ \/ bronze # <<>> /\ silver' \in SilverChoices(bronze) /\ pc' = "idle"
     \/ bronze = <<>> /\ pc' = "failed" /\ UNCHANGED silver
  /\ UNCHANGED <<files, week, listed, read, records, landing, bronze>>

Next ==
  \/ DropFile \/ BeginWeek \/ ListFiles \/ ReadFile \/ AttemptFails \/ Land
  \/ ToBronze \/ ToSilver

Spec == Init /\ [][Next]_vars
=============================================================================
