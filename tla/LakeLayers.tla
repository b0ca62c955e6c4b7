---------------------------- MODULE LakeLayers ----------------------------
(***************************************************************************)
(* What a batch of raw records becomes in Bronze and in Silver: the        *)
(* objects and the operators the ingestion models share. A record is a     *)
(* model value; KeyOf is the key the Silver job finds in it, NoKey when    *)
(* the cast gives NULL.                                                    *)
(***************************************************************************)
EXTENDS Integers, Sequences

CONSTANTS Record, Key, NoKey, KeyOf,
          Absent  \* an object that does not exist

ASSUME KeyAssumption == NoKey \notin Key /\ KeyOf \in [Record -> Key \cup {NoKey}]

(* The objects of one source: records, their rows, a row for each key; or  *)
(* Absent.                                                                 *)
VARIABLES landing, bronze, silver

objects == <<landing, bronze, silver>>

(* write_bronze gives every record of the batch the same _ingested_at.     *)
BronzeRows(records, at) ==
  [i \in DOMAIN records |-> [record |-> records[i], ingested |-> at]]

(* clean: rows without a key are dropped.                                  *)
KeysOf(rows) == {KeyOf[rows[i].record] : i \in DOMAIN rows} \ {NoKey}

(* dedup_latest: a row of the key than which none was ingested later;      *)
(* row_number leaves open which, when several were.                        *)
Latest(rows, k) ==
  {i \in DOMAIN rows :
     /\ KeyOf[rows[i].record] = k
     /\ \A j \in DOMAIN rows :
          KeyOf[rows[j].record] = k => rows[j].ingested <= rows[i].ingested}

(* The Silver partitions the job may write from a Bronze one: one record   *)
(* for each key.                                                           *)
SilverChoices(rows) ==
  {s \in [KeysOf(rows) -> Record] :
     \A k \in KeysOf(rows) : \E i \in Latest(rows, k) : s[k] = rows[i].record}
=============================================================================
