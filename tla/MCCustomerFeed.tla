--------------------------- MODULE MCCustomerFeed ---------------------------
(* Four records: two of one customer, one of another, one without an id.   *)
(* Two to a page, so that two pages are full, one is half full or empty.   *)
EXTENDS CustomerFeed, TLC

CONSTANTS r1, r2, r3, r4, ann, bob

MCRecord == {r1, r2, r3, r4}
MCKey == {ann, bob}
MCKeyOf == (r1 :> ann) @@ (r2 :> ann) @@ (r3 :> bob) @@ (r4 :> NoKey)
=============================================================================
