-------------------------- MODULE RequestLifecycle --------------------------
(***************************************************************************)
(* The life of a payment request as the README draws it: one stage at a    *)
(* time, and a disbursement's obligation raised by its approval and        *)
(* released by the step that ends it, in that same step.                   *)
(***************************************************************************)
EXTENDS Integers

CONSTANTS Requests, Disbursements

VARIABLES
    stage,  \* where each request is
    owed    \* the payables open for it

vars == <<stage, owed>>

Obligation(r) == IF r \in Disbursements THEN 1 ELSE 0

Init ==
    /\ stage = [r \in Requests |-> "PendingApproval"]
    /\ owed = [r \in Requests |-> 0]

Move(r, from, to) ==
    /\ stage[r] = from
    /\ stage' = [stage EXCEPT ![r] = to]

Approve(r) ==
    /\ Move(r, "PendingApproval", "Approved")
    /\ owed' = [owed EXCEPT ![r] = Obligation(r)]

Reject(r) == Move(r, "PendingApproval", "Rejected") /\ UNCHANGED owed

Begin(r) == Move(r, "Approved", "Processing") /\ UNCHANGED owed

Complete(r) ==
    /\ Move(r, "Processing", "Completed")
    /\ owed' = [owed EXCEPT ![r] = 0]

Fail(r) ==
    /\ Move(r, "Processing", "Failed")
    /\ owed' = [owed EXCEPT ![r] = 0]

Next ==
    \E r \in Requests :
        Approve(r) \/ Reject(r) \/ Begin(r) \/ Complete(r) \/ Fail(r)

Spec == Init /\ [][Next]_vars

=============================================================================
