----------------------------- MODULE MCCharges -----------------------------
(* Instances of Charges for TLC.                                            *)
EXTENDS Charges, TLC

CONSTANTS d1, d2, c1

(* From below the form's minimum to beyond a long of 12, ten parts to a     *)
(* minor unit: an amount that only its double makes 0.01, whole units, just *)
(* below, at and above one half, and the edges of both conversions.         *)
MCFormAmounts == {-10, 4, 9, 10, 14, 15, 19, 20, 30, 125, 135}

RequestSymmetry == Permutations(Disbursements)

=============================================================================
