-------------------------- MODULE MCDbtDimension --------------------------
(* Two customers, two attribute values and three batch days: enough for a  *)
(* customer to change, change back, be missing from a batch and return.    *)
(* Customers are alike and so are values, hence the symmetry; none of the  *)
(* properties is a liveness property.                                      *)
EXTENDS DbtDimension, TLC

CONSTANTS alice, bob, gold, basic

MCCustomer == {alice, bob}
MCAttr == {gold, basic}
MCDate == 1..3
MCSymmetry == Permutations(MCCustomer) \cup Permutations(MCAttr)
=============================================================================
