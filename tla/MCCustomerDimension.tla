----------------------- MODULE MCCustomerDimension -----------------------
(* Two customers, two attribute values and three batch days: enough for a  *)
(* customer to change, change back, be missing from a batch and return.    *)
EXTENDS CustomerDimension

CONSTANTS alice, bob, gold, basic

MCCustomer == {alice, bob}
MCAttr == {gold, basic}
MCDate == 1..3
=============================================================================
