------------------------------ MODULE Decisions ------------------------------
(***************************************************************************)
(* What people do to the store: PaymentRequestsController.Approve and      *)
(* Reject, LedgerController.Fund and PayeesController.Suspend.             *)
(*                                                                         *)
(* A session is one POST being served.  Between two awaits of its handler  *)
(* other handlers run, so what it has read may no longer hold when it      *)
(* saves.  A refusal (request not found, not pending, raised by the same   *)
(* user) changes nothing and is a disabled action.                         *)
(***************************************************************************)
EXTENDS FundsStore

CONSTANTS
    Sessions,     \* POSTs that may be in flight together
    FundAmounts,  \* amounts of LedgerController.Fund, in minor units
    MaxCash       \* bound: Fund is not called once CASH debits reach it

ASSUME DecisionsAssumption ==
    /\ FundAmounts \subseteq Nat \ {0}
    /\ MaxCash \in Nat

VARIABLE decision  \* where each session's handler is, and what it has read

DecisionSteps == {"idle", "cashDebits", "cashCredits", "payableDebits",
                  "payableCredits", "saveApproval", "saveRejection"}

IdleDecision == [step |-> "idle", user |-> None, request |-> None, funds |-> 0]

DecisionStates ==
    {IdleDecision} \cup [step : DecisionSteps \ {"idle"}, user : Approvers,
                         request : Requests, funds : Int]

DecisionTypeOK == decision \in [Sessions -> DecisionStates]

DecisionInit == decision = [s \in Sessions |-> IdleDecision]

(* Mutant of LoadForApproval: the requester is not compared with the user. *)
LoadForApprovalOwn(s, u, r) ==
    /\ decision[s].step = "idle"
    /\ status[r] = "PendingApproval"
    /\ decision' = [decision EXCEPT ![s] =
           [step    |-> IF r \in Disbursements THEN "cashDebits" ELSE "saveApproval",
            user    |-> u, request |-> r, funds |-> 0]]
    /\ UNCHANGED storeVars

(***************************************************************************)
(* FindAsync and the checks on the row as loaded.  Only a disbursement     *)
(* goes on to the available-funds guard.                                   *)
(***************************************************************************)
LoadForApproval(s, u, r) ==
    /\ decision[s].step = "idle"
    /\ status[r] = "PendingApproval"
    /\ RequestedBy[r] # u
    /\ decision' = [decision EXCEPT ![s] =
           [step    |-> IF r \in Disbursements THEN "cashDebits" ELSE "saveApproval",
            user    |-> u, request |-> r, funds |-> 0]]
    /\ UNCHANGED storeVars

(***************************************************************************)
(* AvailableFundsMinorAsync: four SumAsync statements, one after another,  *)
(* each seeing what is committed when it runs.                             *)
(***************************************************************************)
ReadSum(s, here, next, term) ==
    /\ decision[s].step = here
    /\ decision' = [decision EXCEPT ![s] =
           [decision[s] EXCEPT !.step = next, !.funds = @ + term]]
    /\ UNCHANGED storeVars

ReadCashDebits(s)    == ReadSum(s, "cashDebits", "cashCredits", debits["CASH"])
ReadCashCredits(s)   == ReadSum(s, "cashCredits", "payableDebits", -credits["CASH"])
ReadPayableDebits(s) == ReadSum(s, "payableDebits", "payableCredits", debits["PAYABLE"])

(* The last sum completes the guard: the approval goes on or is refused.   *)
ReadPayableCredits(s) ==
    LET available == decision[s].funds - credits["PAYABLE"]
    IN  /\ decision[s].step = "payableCredits"
        /\ IF Minor[decision[s].request] > available
           THEN decision' = [decision EXCEPT ![s] = IdleDecision]
           ELSE decision' = [decision EXCEPT ![s] =
                                [@ EXCEPT !.step = "saveApproval", !.funds = 0]]
        /\ UNCHANGED storeVars

(***************************************************************************)
(* SaveChangesAsync of Approve: the status, the audit columns and, for a   *)
(* disbursement, the obligation, in one transaction.                       *)
(***************************************************************************)
SaveApproval(s) ==
    LET r == decision[s].request
    IN  /\ decision[s].step = "saveApproval"
        /\ SaveStatus(r, "PendingApproval", "Approved")
        /\ approvedBy' = [approvedBy EXCEPT ![r] = decision[s].user]
        /\ IF r \in Disbursements
           THEN AddPosting(r, "approval", "EXPENSE", "PAYABLE")
           ELSE UNCHANGED ledgerVars
        /\ decision' = [decision EXCEPT ![s] = IdleDecision]
        /\ UNCHANGED <<rejectedBy, providerRef, payeeStatus, processedEvents>>

(* Mutant of LoadForRejection: any request can be rejected.                *)
LoadForRejectionAny(s, u, r) ==
    /\ decision[s].step = "idle"
    /\ decision' = [decision EXCEPT ![s] =
           [step |-> "saveRejection", user |-> u, request |-> r, funds |-> 0]]
    /\ UNCHANGED storeVars

(***************************************************************************)
(* Reject looks at the status only: it does not compare the requester with *)
(* the caller.                                                             *)
(***************************************************************************)
LoadForRejection(s, u, r) ==
    /\ decision[s].step = "idle"
    /\ status[r] = "PendingApproval"
    /\ decision' = [decision EXCEPT ![s] =
           [step |-> "saveRejection", user |-> u, request |-> r, funds |-> 0]]
    /\ UNCHANGED storeVars

SaveRejection(s) ==
    LET r == decision[s].request
    IN  /\ decision[s].step = "saveRejection"
        /\ SaveStatus(r, "PendingApproval", "Rejected")
        /\ rejectedBy' = [rejectedBy EXCEPT ![r] = decision[s].user]
        /\ decision' = [decision EXCEPT ![s] = IdleDecision]
        /\ UNCHANGED <<approvedBy, providerRef, payeeStatus, processedEvents,
                       ledgerVars>>

(***************************************************************************)
(* Fund reads nothing it acts on, so its one SaveChangesAsync is the whole *)
(* handler.                                                                *)
(***************************************************************************)
Fund(amount) ==
    /\ debits["CASH"] < MaxCash
    /\ PostEntries("CASH", "OPENING", amount)
    /\ UNCHANGED <<rowVars, payeeStatus, processedEvents, posted, decision>>

(***************************************************************************)
(* Suspend overwrites whatever status it loaded, so its read has no        *)
(* bearing on the result.                                                  *)
(***************************************************************************)
Suspend(p) ==
    /\ payeeStatus' = [payeeStatus EXCEPT ![p] = "Suspended"]
    /\ UNCHANGED <<rowVars, processedEvents, ledgerVars, decision>>

DecisionNext ==
    \/ \E s \in Sessions :
           \/ \E u \in Approvers, r \in Requests :
                  LoadForApproval(s, u, r) \/ LoadForRejection(s, u, r)
           \/ ReadCashDebits(s)
           \/ ReadCashCredits(s)
           \/ ReadPayableDebits(s)
           \/ ReadPayableCredits(s)
           \/ SaveApproval(s)
           \/ SaveRejection(s)
    \/ \E amount \in FundAmounts : Fund(amount)
    \/ \E p \in Payees : Suspend(p)

=============================================================================
