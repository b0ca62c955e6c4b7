--------------------------- MODULE QualityGates ---------------------------
(***************************************************************************)
(* The expectation suites of data_quality/suites.py, as operators on a     *)
(* frame (SilverJobs). A suite is the record of what its expectations      *)
(* answer. The answers are Great Expectations' own: an expectation on a    *)
(* column fails on a table without it, and a partition with no rows has no *)
(* columns at all; every expectation but NotBeNull looks at the values     *)
(* that are there only.                                                    *)
(***************************************************************************)
EXTENDS SilverJobs, FiniteSets

CONSTANTS
  TierShare,   \* mostly of loyalty_tier, as <<numerator, denominator>>
  EmailShare   \* mostly of email

ASSUME ShareAssumption ==
  \A s \in {TierShare, EmailShare} : s \in Nat \X (Nat \ {0}) /\ s[1] <= s[2]

HasColumns(df) == DOMAIN df # {}
Known(df, c) == {i \in DOMAIN df : df[i][c] # Null}

NotBeNull(df, c) == HasColumns(df) /\ Known(df, c) = DOMAIN df
BeUnique(df, c) ==
  HasColumns(df) /\ \A i, j \in Known(df, c) : df[i][c] = df[j][c] => i = j

(* BeInSet, BeBetween and MatchRegex alike: at least the given share of    *)
(* the known values is good; All when no share is given.                   *)
Mostly(df, c, good, share) ==
  /\ HasColumns(df)
  /\ LET n == Cardinality({i \in Known(df, c) : df[i][c] \in good})
     IN  share[2] * n >= share[1] * Cardinality(Known(df, c))
All(df, c, good) == HasColumns(df) /\ \A i \in Known(df, c) : df[i][c] \in good

LoyaltyTiers == {"bronze", "silver", "gold", "platinum"}
OrderStatuses == {"pending", "completed", "cancelled", "refunded", "unknown"}

SilverCustomersSuite(df) ==
  [key_known |-> NotBeNull(df, "customer_id"),
   key_unique |-> BeUnique(df, "customer_id"),
   tier |-> Mostly(df, "loyalty_tier", LoyaltyTiers, TierShare),
   email |-> Mostly(df, "email", {"valid"}, EmailShare)]

SilverOrdersSuite(df) ==
  [key_known |-> NotBeNull(df, "order_id"),
   key_unique |-> BeUnique(df, "order_id"),
   customer |-> NotBeNull(df, "customer_id"),
   status |-> All(df, "order_status", OrderStatuses)]

SilverOrderLinesSuite(df, validOrderIds) ==
  [key_known |-> NotBeNull(df, "order_line_id"),
   key_unique |-> BeUnique(df, "order_line_id"),
   order |-> All(df, "order_id", validOrderIds),
   quantity |-> All(df, "quantity", Nat \ {0}),
   price |-> All(df, "unit_price", Nat)]

SilverProductsSuite(df) ==
  [key_known |-> NotBeNull(df, "product_id"),
   key_unique |-> BeUnique(df, "product_id"),
   price |-> All(df, "unit_price", Nat)]

SilverStoresSuite(df) ==
  [key_known |-> NotBeNull(df, "store_id"),
   key_unique |-> BeUnique(df, "store_id")]

=============================================================================
