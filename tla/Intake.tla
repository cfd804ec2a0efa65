------------------------------- MODULE Intake -------------------------------
(***************************************************************************)
(* What must be in the database before anyone approves: payees entered,    *)
(* verified and suspended, and requests submitted for them, all at once.   *)
(***************************************************************************)
EXTENDS Submission

vars == <<registerVars, submissionVars>>

Init == RegisterInit /\ SubmissionInit

Next ==
    \/ RegisterNext /\ UNCHANGED submissionVars
    \/ SubmissionNext /\ UNCHANGED registerVars

Spec == Init /\ [][Next]_vars

-----------------------------------------------------------------------------

(* The tables and the handlers hold values of their types.                 *)
TypeOK == RegisterTypeOK /\ SubmissionTypeOK

(***************************************************************************)
(* However often a form is submitted, and however its submissions overlap, *)
(* it makes one request: the look-up misses a concurrent insert, and the   *)
(* unique index does not.                                                  *)
(***************************************************************************)
OneRequestPerForm ==
    \A i, j \in Inserted : request[i].key = request[j].key => i = j

(***************************************************************************)
(* A submission that loses its key has a request to be sent to, whatever   *)
(* happened between its insert and its second look-up.                     *)
(***************************************************************************)
LoserHasWinner ==
    \A s \in Submitters :
        submission[s].step = "findWinner" => KeyTaken(submission[s].row.key)

(* Two overlapping entries of one payee leave one row.                     *)
OnePayeePerEmail ==
    \A p, q \in Registered : payee[p].email = payee[q].email => p = q

(***************************************************************************)
(* A disbursement is raised only for a payee whom an approver other than   *)
(* the one who entered the payee has verified, with a tax form on file:    *)
(* Verify's checks reach the request although the payee may be suspended   *)
(* or verified again while the form is being handled.                      *)
(***************************************************************************)
VettedPayee ==
    \A i \in Inserted : request[i].type = "Disbursement" =>
        LET p == request[i].payee
        IN  /\ p \in Registered
            /\ payee[p].taxFormOnFile
            /\ payee[p].verifiedBy \in Approvers \ {payee[p].createdBy}

Suspended(p) == p \in Registered /\ payee[p].status = "Suspended"

BeingVerified(p) ==
    \E c \in Clerks : clerk[c].step = "saveVerified" /\ clerk[c].payee = p

(* A suspended payee whom no verification under way can bring back.        *)
BlockedForGood(p) == Suspended(p) /\ ~BeingVerified(p)

(***************************************************************************)
(* Once no verification that loaded the payee before the suspension is     *)
(* left, the suspension is final: a suspended payee cannot be loaded for   *)
(* verification, and no other save brings the payee back.                  *)
(***************************************************************************)
SettledSuspensionStands ==
    [][\A p \in Payees : BlockedForGood(p) => BlockedForGood(p)']_vars

(* "Blocked, including for requests already approved": a suspended payee   *)
(* stays blocked, also while a verification is under way.                  *)
SuspensionStands == [][\A p \in Payees : Suspended(p) => Suspended(p)']_vars

=============================================================================
