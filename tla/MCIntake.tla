------------------------------ MODULE MCIntake ------------------------------
(* Instances of Intake for TLC.                                             *)
EXTENDS Intake, TLC

(* Handlers, and the ids the database hands out, are interchangeable.       *)
PoolSymmetry ==
    Permutations(Clerks) \cup Permutations(Submitters)
    \cup Permutations(Payees) \cup Permutations(RequestIds)

=============================================================================
