------------------------- MODULE MCSupplierCatalog -------------------------
(* Four lines: two about one product, one about another, one without a sku. *)
EXTENDS SupplierCatalog, TLC

CONSTANTS l1, l2, l3, l4, pen, lamp

MCRecord == {l1, l2, l3, l4}
MCKey == {pen, lamp}
MCKeyOf == (l1 :> pen) @@ (l2 :> pen) @@ (l3 :> lamp) @@ (l4 :> NoKey)
=============================================================================
