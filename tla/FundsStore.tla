----------------------------- MODULE FundsStore -----------------------------
(***************************************************************************)
(* The PostgreSQL tables through which the entry points of PaymentFunds    *)
(* coordinate: PaymentRequests, Payees, ProcessedStripeEvents and          *)
(* LedgerEntries.  The controllers and the worker never call each other;   *)
(* each reads and writes these variables.                                  *)
(*                                                                         *)
(* One action is one SQL statement or one SaveChangesAsync: EF Core sends  *)
(* every query as a statement of its own (READ COMMITTED, no enclosing     *)
(* transaction) and every SaveChangesAsync as one transaction.  No entity  *)
(* has a concurrency token, so an UPDATE is keyed by Id alone and the last *)
(* writer wins.                                                            *)
(*                                                                         *)
(* LedgerEntries only grows.  It is represented by what the program reads  *)
(* from it: the sum per account and direction (the two SumAsync queries of *)
(* BalanceMinorAsync) and, per request, how many postings of each kind     *)
(* carry its PaymentRequestId.  One currency is modelled: an account holds *)
(* one currency and a posting cannot span two.                             *)
(***************************************************************************)
EXTENDS Integers

CONSTANTS
    Requests,       \* ids of the rows of PaymentRequests
    Disbursements,  \* those whose Type is Disbursement; the others collect
    Minor,          \* ToMinorUnits(Amount) of each request
    RequestedBy,    \* the user who raised each request
    Payees,         \* ids of the rows of Payees
    PayeeOf,        \* the payee of each disbursement
    Approvers,      \* the users in the Approver role
    None            \* SQL NULL

Statuses == {"PendingApproval", "Approved", "Rejected", "Processing",
             "Completed", "Failed"}

PayeeStatuses == {"Unverified", "Verified", "Suspended"}

Accounts == {"CASH", "PAYABLE", "EXPENSE", "REVENUE", "OPENING"}

Postings == {"approval", "settlement", "reversal"}

EventTypes == {"created", "succeeded", "payment_failed"}

(***************************************************************************)
(* A Stripe event.  PaymentIntents are named by the request whose          *)
(* idempotency key created them, and Stripe emits each type once per       *)
(* intent, so the pair stands for the event id.                            *)
(***************************************************************************)
Events == [intent : Requests, type : EventTypes]

ASSUME StoreAssumption ==
    /\ Disbursements \subseteq Requests
    /\ Minor \in [Requests -> Nat \ {0}]
    /\ PayeeOf \in [Disbursements -> Payees]
    /\ None \notin Requests
    /\ None \notin Approvers

VARIABLES
    status,           \* PaymentRequests.Status
    approvedBy,       \* PaymentRequests.ApprovedBy
    rejectedBy,       \* PaymentRequests.RejectedBy
    providerRef,      \* PaymentRequests.ProviderReference
    payeeStatus,      \* Payees.Status
    processedEvents,  \* the EventIds in ProcessedStripeEvents
    debits,           \* LedgerEntries: sum of the debits of each account
    credits,          \* LedgerEntries: sum of the credits of each account
    posted            \* LedgerEntries: postings of each kind per request

rowVars    == <<status, approvedBy, rejectedBy, providerRef>>
ledgerVars == <<debits, credits, posted>>
storeVars  == <<rowVars, payeeStatus, processedEvents, ledgerVars>>

StoreTypeOK ==
    /\ status \in [Requests -> Statuses]
    /\ approvedBy \in [Requests -> Approvers \cup {None}]
    /\ rejectedBy \in [Requests -> Approvers \cup {None}]
    /\ providerRef \in [Requests -> Requests \cup {None}]
    /\ payeeStatus \in [Payees -> PayeeStatuses]
    /\ processedEvents \subseteq Events
    /\ debits \in [Accounts -> Nat]
    /\ credits \in [Accounts -> Nat]
    /\ posted \in [Requests -> [Postings -> Nat]]

(***************************************************************************)
(* Rows as PaymentRequestsController.Create leaves them, before anyone has *)
(* acted on one: pending, for payees that were verified when it looked.    *)
(* LedgerSeeder has created the accounts, and nothing is posted.           *)
(***************************************************************************)
StoreInit ==
    /\ status = [r \in Requests |-> "PendingApproval"]
    /\ approvedBy = [r \in Requests |-> None]
    /\ rejectedBy = [r \in Requests |-> None]
    /\ providerRef = [r \in Requests |-> None]
    /\ payeeStatus = [p \in Payees |-> "Verified"]
    /\ processedEvents = {}
    /\ debits = [a \in Accounts |-> 0]
    /\ credits = [a \in Accounts |-> 0]
    /\ posted = [r \in Requests |-> [k \in Postings |-> 0]]

-----------------------------------------------------------------------------

(***************************************************************************)
(* The UPDATE of a tracked request that was loaded with status `loaded`    *)
(* and assigned `new`.  Change detection leaves a column out when the two  *)
(* are equal; otherwise the row's present status is overwritten unseen.    *)
(***************************************************************************)
SaveStatus(r, loaded, new) ==
    status' = [status EXCEPT ![r] = IF loaded = new THEN @ ELSE new]

(***************************************************************************)
(* The rows AddPostingAsync stages for the caller's SaveChangesAsync: one  *)
(* debit and one credit of the same positive amount.  Its refusals (fewer  *)
(* than two lines, a non-positive amount, an imbalance, an unknown         *)
(* account) cannot occur for the postings of this system.                  *)
(***************************************************************************)
PostEntries(dr, cr, amount) ==
    /\ debits'  = [debits  EXCEPT ![dr] = @ + amount]
    /\ credits' = [credits EXCEPT ![cr] = @ + amount]

AddPosting(r, kind, dr, cr) ==
    /\ PostEntries(dr, cr, Minor[r])
    /\ posted' = [posted EXCEPT ![r][kind] = @ + 1]

(* Mutant of ReverseApproval: the approval's own pair is taken back.       *)
RetractApproval(r) ==
    IF r \in Disbursements
    THEN /\ debits'  = [debits  EXCEPT !["EXPENSE"] = @ - Minor[r]]
         /\ credits' = [credits EXCEPT !["PAYABLE"] = @ - Minor[r]]
         /\ posted' = [posted EXCEPT ![r]["reversal"] = @ + 1]
    ELSE UNCHANGED ledgerVars

(***************************************************************************)
(* The pair that releases an approved disbursement's payable.  A failed    *)
(* collection posts nothing.                                               *)
(***************************************************************************)
ReverseApproval(r) ==
    IF r \in Disbursements
    THEN AddPosting(r, "reversal", "PAYABLE", "EXPENSE")
    ELSE UNCHANGED ledgerVars

(***************************************************************************)
(* Natural balance of an account, and the funds not yet committed.         *)
(***************************************************************************)
Balance(a) ==
    IF a \in {"CASH", "EXPENSE"} THEN debits[a] - credits[a]
                                 ELSE credits[a] - debits[a]

AvailableFunds == Balance("CASH") - Balance("PAYABLE")

=============================================================================
