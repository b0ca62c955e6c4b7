-------------------------- MODULE CustomerHistory --------------------------
(***************************************************************************)
(* What a Type 2 dimension promises: on which day each customer had which  *)
(* attributes, as far as the loaded batches tell. Loading the batch of day *)
(* d fixes the value from d onwards and leaves every earlier day alone     *)
(* ("joining on current attributes would silently rewrite history",        *)
(* pipelines/gold/fact_sales.py). No rows, keys or intervals.              *)
(***************************************************************************)
EXTENDS Integers

CONSTANTS Customer, Attr, Date, Null

VARIABLES
  asOf,   \* asOf[c][day]: the attributes of c on that day, Null if unknown
  last    \* the latest batch loaded, 0 before the first

hvars == <<asOf, last>>

Init ==
  /\ asOf = [c \in Customer |-> [day \in Date |-> Null]]
  /\ last = 0

Learn(d, incoming) ==
  /\ last' = d
  /\ asOf' = [c \in Customer |-> [day \in Date |->
                IF day >= d /\ c \in DOMAIN incoming THEN incoming[c]
                ELSE asOf[c][day]]]

Load(d, incoming) == d > last /\ Learn(d, incoming)

Next ==
  \E d \in Date, S \in SUBSET Customer : \E incoming \in [S -> Attr] :
    Load(d, incoming)

Spec == Init /\ [][Next]_hvars

(* The batch loaded last may be loaded again with other contents: what is  *)
(* known from its day on is revised, the days before it still are not.     *)
LoadOrRevise(d, incoming) == d >= last /\ Learn(d, incoming)

RevisableNext ==
  \E d \in Date, S \in SUBSET Customer : \E incoming \in [S -> Attr] :
    LoadOrRevise(d, incoming)

RevisableSpec == Init /\ [][RevisableNext]_hvars
=============================================================================
