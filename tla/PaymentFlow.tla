----------------------------- MODULE PaymentFlow -----------------------------
(***************************************************************************)
(* The payment core of the program: approvers deciding, workers paying and *)
(* Stripe reporting back, all over one store.  Steps of different handlers *)
(* interleave freely.                                                      *)
(***************************************************************************)
EXTENDS Decisions, PaymentWorker, StripeWebhook, FiniteSetsExt

vars == <<storeVars, decision, worker, faults, delivery, providerVars>>

Init ==
    /\ StoreInit
    /\ DecisionInit
    /\ WorkerInit
    /\ DeliveryInit
    /\ ProviderInit

Next ==
    \/ DecisionNext /\ UNCHANGED <<worker, faults, delivery, providerVars>>
    \/ WorkerNext /\ UNCHANGED <<decision, delivery>>
    \/ DeliveryNext /\ UNCHANGED <<decision, worker, faults>>
    \/ ProviderNext /\ UNCHANGED <<storeVars, decision, worker, faults, delivery>>

Spec == Init /\ [][Next]_vars

(***************************************************************************)
(* What the scheduling guarantees.  ExecuteAsync loops for as long as the  *)
(* process lives, so a worker with something to do does it.                *)
(***************************************************************************)
WorkerFairness ==
    \A w \in Workers : WF_vars(WorkerStep(w) /\ UNCHANGED <<decision, delivery>>)

(***************************************************************************)
(* Stripe concludes every intent, keeps delivering an event until it has   *)
(* had its 200, and not every attempt at an event throws.                  *)
(***************************************************************************)
DeliveryFairness ==
    /\ \A r \in Requests :
           WF_vars(/\ \E type \in TerminalTypes : Conclude(r, type)
                   /\ UNCHANGED <<storeVars, decision, worker, faults, delivery>>)
    /\ \A h \in Handlers :
           WF_vars(DeliveryStep(h) /\ UNCHANGED <<decision, worker, faults>>)
    /\ \A e \in Events :
           /\ WF_vars(/\ \E h \in Handlers : Receive(h, e)
                      /\ UNCHANGED <<decision, worker, faults>>)
           /\ SF_vars(/\ \E h \in Handlers : delivery[h].event = e /\ Match(h)
                      /\ UNCHANGED <<decision, worker, faults>>)
           /\ SF_vars(/\ \E h \in Handlers : delivery[h].event = e /\ Record(h)
                      /\ UNCHANGED <<decision, worker, faults>>)

(* Nobody is obliged to approve, reject, fund or suspend.                  *)
WorkerSpec == Spec /\ WorkerFairness

FairSpec == WorkerSpec /\ DeliveryFairness

-----------------------------------------------------------------------------
(* Safety, however many sessions, workers and handlers there are.          *)

(* The tables, the handlers and the provider hold values of their types.   *)
TypeOK ==
    /\ StoreTypeOK
    /\ DecisionTypeOK
    /\ WorkerTypeOK
    /\ DeliveryTypeOK
    /\ ProviderTypeOK

(***************************************************************************)
(* Money is asked for only on the word of an approver who did not raise    *)
(* the request, and a disbursement only after its obligation was posted:   *)
(* Approve's checks carry over to ProcessOneAsync, which makes none.       *)
(***************************************************************************)
PaidOnlyIfApproved ==
    \A r \in Requests : intent[r] # "none" =>
        /\ approvedBy[r] \in Approvers \ {RequestedBy[r]}
        /\ r \in Disbursements => posted[r]["approval"] > 0

(***************************************************************************)
(* Duplicated, concurrent and reordered deliveries settle a request in the *)
(* ledger at most once, and only for a payment Stripe reported as made.    *)
(***************************************************************************)
SettledOnce ==
    \A r \in Requests :
        /\ posted[r]["settlement"] \in {0, 1}
        /\ posted[r]["settlement"] = 1 =>
               /\ intent[r] = "accepted"
               /\ [intent |-> r, type |-> "succeeded"] \in processedEvents

(***************************************************************************)
(* The worker's reversal and the webhook's settlement or reversal together *)
(* never release more than approvals raised, even where decisions race and *)
(* a request is approved and paid again.                                   *)
(***************************************************************************)
NeverOverdischarged ==
    \A r \in Disbursements :
        posted[r]["settlement"] + posted[r]["reversal"] <= posted[r]["approval"]

-----------------------------------------------------------------------------
(* Safety with one decision at a time.                                     *)

Outstanding(r) ==
    posted[r]["approval"] - posted[r]["settlement"] - posted[r]["reversal"]

(***************************************************************************)
(* A disbursement's obligation is open exactly while the request is        *)
(* approved or being paid, across every save of the worker and the         *)
(* webhook.                                                                *)
(***************************************************************************)
OwedWhileOpen ==
    \A r \in Disbursements :
        Outstanding(r) = IF status[r] \in {"Approved", "Processing"} THEN 1 ELSE 0

Total(requests) == MapThenSumSet(LAMBDA r : Minor[r], requests)

InStatus(requests, statuses) == {r \in requests : status[r] \in statuses}

(***************************************************************************)
(* The balances the dashboard and the guard read can be recomputed from    *)
(* the requests alone: the financial and the operational record agree.     *)
(***************************************************************************)
RecordsAgree ==
    LET collections == Requests \ Disbursements
        committed == InStatus(Disbursements, {"Approved", "Processing"})
        paid == InStatus(Disbursements, {"Completed"})
        collected == InStatus(collections, {"Completed"})
    IN  /\ Balance("PAYABLE") = Total(committed)
        /\ Balance("EXPENSE") = Total(committed) + Total(paid)
        /\ Balance("REVENUE") = Total(collected)
        /\ Balance("CASH") = Balance("OPENING") + Total(collected) - Total(paid)

(* The requests a worker is paying, from its claim to its save.            *)
Holds(w, r) == worker[w].step \notin {"poll", "claim"} /\ worker[w].request = r

(***************************************************************************)
(* No two workers pay the same request, although both may have polled it.  *)
(***************************************************************************)
NoDoubleProcessing ==
    \A v, w \in Workers, r \in Requests : Holds(v, r) /\ Holds(w, r) => v = w

(***************************************************************************)
(* The handlers together implement the life of a request in the README:    *)
(* every save is one of its arrows, with the obligation moving in the same *)
(* step.                                                                   *)
(***************************************************************************)
Lifecycle ==
    INSTANCE RequestLifecycle WITH
        stage <- status,
        owed <- [r \in Requests |-> IF r \in Disbursements THEN Outstanding(r) ELSE 0]

ImplementsLifecycle == Lifecycle!Spec

(***************************************************************************)
(* The sums of this module are the abstract ledger that the rows of        *)
(* LedgerBook are: no handler's save changes one side without the other,   *)
(* or takes back what was posted.                                          *)
(***************************************************************************)
Ledger == INSTANCE LedgerTotals WITH Books <- {Accounts}

ImplementsTotals == Ledger!Spec

(***************************************************************************)
(* A suspension that precedes the claim stops the payment for good, also   *)
(* of a request that was approved before it.                               *)
(***************************************************************************)
SuspensionStopsPayment ==
    \A r \in Disbursements :
        [](/\ payeeStatus[PayeeOf[r]] = "Suspended"
           /\ status[r] \in {"PendingApproval", "Approved"}
           => [](intent[r] = "none"))

-----------------------------------------------------------------------------
(* Liveness, under the fairness above.                                     *)

(***************************************************************************)
(* Every approved request is picked up, whatever interrupts the workers    *)
(* and however many are ahead of it.                                       *)
(***************************************************************************)
ApprovedIsPickedUp ==
    \A r \in Requests : status[r] = "Approved" ~> status[r] # "Approved"

(***************************************************************************)
(* Every event is recorded in the end, although a handler may throw and    *)
(* deliveries of the same event fight over its unique index.               *)
(***************************************************************************)
EventsRecorded == \A e \in Events : e \in sent ~> e \in processedEvents

(* The outcome of r was recorded, or is about to be, without finding r.    *)
OutcomeMissed(r) ==
    \E type \in TerminalTypes :
        LET e == [intent |-> r, type |-> type]
        IN  \/ e \in processedEvents
            \/ \E h \in Handlers : /\ delivery[h].event = e
                                   /\ delivery[h].step = "record"
                                   /\ delivery[h].request = None

(***************************************************************************)
(* Once its reference is saved, a request whose outcome has not yet been   *)
(* looked up leaves Processing.                                            *)
(***************************************************************************)
ReferencedSettles ==
    \A r \in Requests :
        providerRef[r] # None /\ ~OutcomeMissed(r) ~> status[r] \in {"Completed", "Failed"}

-----------------------------------------------------------------------------
(* What the documentation says and the code does not do.                   *)

(* "Approval is refused when the amount exceeds available funds"           *)
FundsCovered == AvailableFunds >= 0

(* "the request moves to Completed or Failed"                              *)
ProcessingEnds ==
    \A r \in Requests : status[r] = "Processing" ~> status[r] \in {"Completed", "Failed"}

=============================================================================
