------------------------------ MODULE Charges ------------------------------
(***************************************************************************)
(* The amount of a request on its way through the program: a decimal in    *)
(* its row, rounded to minor units for the ledger, cut off to minor units  *)
(* for Stripe.                                                             *)
(*                                                                         *)
(* Amounts of rows and forms are decimals of many more digits than a minor *)
(* unit has.  They are counted in parts, of which Half make half a minor   *)
(* unit.  A handler is one action here, in one currency; how handlers      *)
(* interleave is the subject of PaymentFlow.                               *)
(***************************************************************************)
EXTENDS Integers, FiniteSetsExt

CONSTANTS
    Requests,
    Disbursements,  \* those whose Type is Disbursement; the others collect
    Half,           \* parts in half a minor unit
    Least,          \* parts of the least amount that is 0.01 as a double
    FormAmounts,    \* parts a submitted form may carry
    FundAmounts,    \* parts a funding form may carry
    StripeLimit,    \* minor units above which Stripe refuses a payment
    MaxLong,        \* largest value of a long
    MaxCash         \* bound: minor units of platform cash at which Fund stops

Unit == 2 * Half

ASSUME ChargesAssumption ==
    /\ Disbursements \subseteq Requests
    /\ Half \in Nat \ {0}
    /\ Least \in Half..Unit
    /\ FormAmounts \subseteq Int
    /\ FundAmounts \subseteq Int
    /\ StripeLimit \in Nat
    /\ MaxLong \in Nat
    /\ StripeLimit < MaxLong
    /\ MaxCash \in 0..MaxLong

VARIABLES
    status,   \* PaymentRequests.Status, "none" while there is no row
    amount,   \* PaymentRequests.Amount, in parts
    charged,  \* what the request's accepted PaymentIntent is for, in minor units
    booked,   \* what its settlement posted
    cash,     \* balance of CASH
    payable,  \* balance of PAYABLE
    opening   \* balance of OPENING

ledgerVars == <<booked, cash, payable, opening>>
vars == <<status, amount, charged, ledgerVars>>

Statuses == {"none", "PendingApproval", "Approved", "Rejected", "Processing",
             "Completed", "Failed"}

(* Mutant of ToMinorUnits: a cast that wraps, as one of a double would.    *)
ToMinorUnitsWrapped(parts) == ((parts + Half) \div Unit) % (MaxLong + 1)

(* Math.Round of a positive amount, half away from zero.                   *)
ToMinorUnits(parts) == (parts + Half) \div Unit

(* Mutant of StripeUnits: the next minor unit up.                          *)
StripeUnitsUp(parts) == (parts + Unit) \div Unit

(* A cast to long drops what is behind the point.                          *)
StripeUnits(parts) == parts \div Unit

(* A decimal that does not fit makes the cast throw.                       *)
Fits(minor) == minor <= MaxLong

(* AddPostingAsync throws for an amount that is not positive.              *)
Posts(minor) == minor > 0 /\ Fits(minor)

Init ==
    /\ status = [r \in Requests |-> "none"]
    /\ amount = [r \in Requests |-> 0]
    /\ charged = [r \in Requests |-> 0]
    /\ booked = [r \in Requests |-> 0]
    /\ cash = 0 /\ payable = 0 /\ opening = 0

Become(r, new) == status' = [status EXCEPT ![r] = new]

-----------------------------------------------------------------------------

(* Mutant of Submit: any amount.                                           *)
SubmitAny(r, parts) ==
    /\ status[r] = "none"
    /\ amount' = [amount EXCEPT ![r] = parts]
    /\ Become(r, "PendingApproval")
    /\ UNCHANGED <<charged, ledgerVars>>

(***************************************************************************)
(* The form's amount is at least 0.01, compared as a double: a decimal too *)
(* little below 0.01 for a double to tell is let in, and kept as it is.    *)
(***************************************************************************)
Submit(r, parts) ==
    /\ status[r] = "none"
    /\ parts >= Least
    /\ amount' = [amount EXCEPT ![r] = parts]
    /\ Become(r, "PendingApproval")
    /\ UNCHANGED <<charged, ledgerVars>>

(* Any positive amount; a posting of nothing is refused by the ledger.     *)
Fund(parts) ==
    /\ cash < MaxCash
    /\ parts > 0
    /\ Posts(ToMinorUnits(parts))
    /\ cash' = cash + ToMinorUnits(parts)
    /\ opening' = opening + ToMinorUnits(parts)
    /\ UNCHANGED <<status, amount, charged, booked, payable>>

ApproveCollection(r) ==
    /\ r \notin Disbursements
    /\ status[r] = "PendingApproval"
    /\ Become(r, "Approved")
    /\ UNCHANGED <<amount, charged, ledgerVars>>

(* Mutant of ApproveDisbursement: the amount Stripe gets is compared.      *)
ApproveTruncated(r) ==
    /\ r \in Disbursements
    /\ status[r] = "PendingApproval"
    /\ Posts(ToMinorUnits(amount[r]))
    /\ StripeUnits(amount[r]) <= cash - payable
    /\ payable' = payable + ToMinorUnits(amount[r])
    /\ Become(r, "Approved")
    /\ UNCHANGED <<amount, charged, booked, cash, opening>>

(* Not covered, or nothing to post: refused, by the guard or the ledger.   *)
ApproveDisbursement(r) ==
    /\ r \in Disbursements
    /\ status[r] = "PendingApproval"
    /\ Posts(ToMinorUnits(amount[r]))
    /\ ToMinorUnits(amount[r]) <= cash - payable
    /\ payable' = payable + ToMinorUnits(amount[r])
    /\ Become(r, "Approved")
    /\ UNCHANGED <<amount, charged, booked, cash, opening>>

Reject(r) ==
    /\ status[r] = "PendingApproval"
    /\ Become(r, "Rejected")
    /\ UNCHANGED <<amount, charged, ledgerVars>>

(* Stripe accepts the payment.                                             *)
Charge(r) ==
    /\ status[r] = "Approved"
    /\ StripeUnits(amount[r]) \in 1..StripeLimit
    /\ charged' = [charged EXCEPT ![r] = StripeUnits(amount[r])]
    /\ Become(r, "Processing")
    /\ UNCHANGED <<amount, ledgerVars>>

(* Where the amount of a disbursement can be posted, what the approval     *)
(* reserved is released; a collection reserved nothing.                    *)
Release(r) ==
    /\ r \in Disbursements => Posts(ToMinorUnits(amount[r]))
    /\ payable' = IF r \in Disbursements THEN payable - ToMinorUnits(amount[r])
                  ELSE payable
    /\ UNCHANGED <<booked, cash, opening>>

(* Stripe refuses the payment, or before that the worker for the payee.    *)
Refuse(r) ==
    /\ status[r] = "Approved"
    /\ r \in Disbursements \/ Fits(StripeUnits(amount[r]))
    /\ Release(r)
    /\ Become(r, "Failed")
    /\ UNCHANGED <<amount, charged>>

(***************************************************************************)
(* The worker throws, in the cast for Stripe or in the reversal of a       *)
(* refused disbursement: the row stays claimed, and nothing retries.       *)
(***************************************************************************)
Strand(r) ==
    /\ status[r] = "Approved"
    /\ \/ ~Fits(StripeUnits(amount[r]))
       \/ r \in Disbursements /\ ~Posts(ToMinorUnits(amount[r]))
    /\ Become(r, "Processing")
    /\ UNCHANGED <<amount, charged, ledgerVars>>

(* An accepted payment fails.                                              *)
Fail(r) ==
    /\ status[r] = "Processing"
    /\ charged[r] > 0
    /\ Release(r)
    /\ Become(r, "Failed")
    /\ UNCHANGED <<amount, charged>>

(* Mutant of Settle: a disbursement's payment is booked as Stripe made it. *)
SettleCharged(r) ==
    /\ status[r] = "Processing"
    /\ charged[r] > 0
    /\ booked' = [booked EXCEPT ![r] = charged[r]]
    /\ IF r \in Disbursements
       THEN cash' = cash - charged[r] /\ payable' = payable - charged[r]
       ELSE cash' = cash + charged[r] /\ payable' = payable
    /\ Become(r, "Completed")
    /\ UNCHANGED <<amount, charged, opening>>

Settle(r) ==
    LET minor == ToMinorUnits(amount[r])
    IN  /\ status[r] = "Processing"
        /\ charged[r] > 0
        /\ Posts(minor)
        /\ booked' = [booked EXCEPT ![r] = minor]
        /\ IF r \in Disbursements
           THEN cash' = cash - minor /\ payable' = payable - minor
           ELSE cash' = cash + minor /\ payable' = payable
        /\ Become(r, "Completed")
        /\ UNCHANGED <<amount, charged, opening>>

Next ==
    \/ \E parts \in FundAmounts : Fund(parts)
    \/ \E r \in Requests :
          \/ \E parts \in FormAmounts : Submit(r, parts)
          \/ ApproveCollection(r) \/ ApproveDisbursement(r) \/ Reject(r)
          \/ Charge(r) \/ Strand(r) \/ Refuse(r)
          \/ Settle(r) \/ Fail(r)

Spec == Init /\ [][Next]_vars

-----------------------------------------------------------------------------

(* Rows and balances hold values of their types.                           *)
TypeOK ==
    /\ status \in [Requests -> Statuses]
    /\ amount \in [Requests -> Nat]
    /\ charged \in [Requests -> Nat]
    /\ booked \in [Requests -> Nat]
    /\ cash \in Int /\ payable \in Int /\ opening \in Nat

With(requests, statuses) == {r \in requests : status[r] \in statuses}

Open == With(Disbursements, {"Approved", "Processing"})

Rounded == [r \in Requests |-> ToMinorUnits(amount[r])]

Truncated == [r \in Requests |-> StripeUnits(amount[r])]

Sum(terms, requests) == MapThenSumSet(LAMBDA r : terms[r], requests)

(***************************************************************************)
(* What is released or settled is what was reserved, digit for digit,      *)
(* though each posting converts the amount anew and Stripe names another.  *)
(***************************************************************************)
ReservedToTheUnit == payable = Sum(Rounded, Open)

(***************************************************************************)
(* Funds cover what is reserved while handlers do not overlap, and what is *)
(* reserved covers all that Stripe has been or will be asked for and may   *)
(* yet pay: rounding does not let the last unit be approved twice.         *)
(***************************************************************************)
ReservedIsCovered ==
    /\ Sum(Truncated, Open) <= payable
    /\ payable <= cash

(***************************************************************************)
(* No amount makes the worker throw over a disbursement, which would keep  *)
(* its funds reserved for good: whatever the form and Approve let through  *)
(* either reaches Stripe or is refused and released, also an amount just   *)
(* below one minor unit, which is reserved as one and asked for as none.   *)
(***************************************************************************)
NoDisbursementStranded ==
    \A r \in With(Disbursements, {"Processing"}) : charged[r] > 0

(***************************************************************************)
(* A settled request is booked with what Stripe was asked for, or with one *)
(* minor unit more where the amount has more digits than the currency.     *)
(***************************************************************************)
DriftBounded ==
    \A r \in With(Requests, {"Completed"}) :
        /\ charged[r] > 0
        /\ booked[r] - charged[r] \in {0, 1}
        /\ amount[r] % Unit = 0 => booked[r] = charged[r]

=============================================================================
