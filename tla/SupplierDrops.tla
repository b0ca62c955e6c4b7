--------------------------- MODULE SupplierDrops ---------------------------
(***************************************************************************)
(* The directory a supplier drops files into, and what the platform        *)
(* promises about it, whatever the steps of the weekly run. A record is    *)
(* one line of one file; several lines may be about the same product.      *)
(***************************************************************************)
EXTENDS LakeLayers, SequencesExt

VARIABLES
  files,    \* the directory, in the order of the file names: oldest first
  listed    \* how many files there were when the run listed it

LinesOf(n) == UNION {ToSet(files[i]) : i \in 1..n}

(* The catalog accumulates: a product of any drop that was there when the  *)
(* week's run listed the directory is in the week's Silver table, however  *)
(* long ago it was dropped, and each of its rows is a dropped line.        *)
CatalogIsWhole ==
  silver # Absent =>
    /\ DOMAIN silver = {KeyOf[r] : r \in LinesOf(listed)} \ {NoKey}
    /\ \A k \in DOMAIN silver : silver[k] \in LinesOf(listed) /\ KeyOf[silver[k]] = k
=============================================================================
