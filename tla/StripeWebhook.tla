---------------------------- MODULE StripeWebhook ----------------------------
(***************************************************************************)
(* StripeWebhookController.Handle: the request's outcome arrives from      *)
(* Stripe.  A handler is one delivery being served; two may serve the same *)
(* event.  A delivery whose signature does not verify, or whose event is   *)
(* already recorded, changes nothing and is not an action.                 *)
(***************************************************************************)
EXTENDS StripeProvider

CONSTANTS Handlers  \* deliveries that may be in flight together

VARIABLE delivery   \* where each handler is, and what it has read

IdleDelivery == [step |-> "idle", event |-> None, request |-> None, loaded |-> None]

DeliveryStates ==
    {IdleDelivery}
    \cup [step : {"match", "record"}, event : Events, request : {None}, loaded : {None}]
    \cup [step : {"record"}, event : Events, request : Requests, loaded : Statuses]

DeliveryTypeOK == delivery \in [Handlers -> DeliveryStates]

DeliveryInit == delivery = [h \in Handlers |-> IdleDelivery]

(* The AnyAsync on ProcessedStripeEvents found nothing.                    *)
Receive(h, e) ==
    /\ delivery[h].step = "idle"
    /\ e \in sent
    /\ e \notin processedEvents
    /\ delivery' = [delivery EXCEPT ![h] =
           [step |-> "match", event |-> e, request |-> None, loaded |-> None]]
    /\ UNCHANGED <<storeVars, providerVars>>

(* FirstOrDefaultAsync(ProviderReference == intent.Id).                    *)
Match(h) ==
    LET id == delivery[h].event.intent
    IN  /\ delivery[h].step = "match"
        /\ \/ \E r \in Requests :
                  /\ providerRef[r] = id
                  /\ delivery' = [delivery EXCEPT ![h] =
                         [@ EXCEPT !.step = "record", !.request = r,
                                   !.loaded = status[r]]]
           \/ /\ \A r \in Requests : providerRef[r] # id
              /\ delivery' = [delivery EXCEPT ![h] = [@ EXCEPT !.step = "record"]]
        /\ UNCHANGED <<storeVars, providerVars>>

(* Mutant of Settle: the payment of a disbursement is expensed again       *)
(* instead of discharging the payable.                                     *)
SettleAsExpense(r, loaded) ==
    /\ SaveStatus(r, loaded, "Completed")
    /\ IF r \in Disbursements THEN AddPosting(r, "settlement", "EXPENSE", "CASH")
                              ELSE AddPosting(r, "settlement", "CASH", "REVENUE")

(***************************************************************************)
(* The switch on the event type.  It does not look at the status it        *)
(* overwrites.                                                             *)
(***************************************************************************)
Settle(r, loaded) ==
    /\ SaveStatus(r, loaded, "Completed")
    /\ IF r \in Disbursements THEN AddPosting(r, "settlement", "PAYABLE", "CASH")
                              ELSE AddPosting(r, "settlement", "CASH", "REVENUE")

Fail(r, loaded) ==
    /\ SaveStatus(r, loaded, "Failed")
    /\ ReverseApproval(r)

(* Mutant of Apply: a failed payment falls into the default branch.        *)
ApplySuccessOnly(r, loaded, type) ==
    \/ r # None /\ type = "succeeded" /\ Settle(r, loaded)
    \/ (r = None \/ type # "succeeded") /\ UNCHANGED <<status, ledgerVars>>

Apply(r, loaded, type) ==
    \/ r # None /\ type = "succeeded" /\ Settle(r, loaded)
    \/ r # None /\ type = "payment_failed" /\ Fail(r, loaded)
    \/ (r = None \/ type \notin TerminalTypes) /\ UNCHANGED <<status, ledgerVars>>

(* Mutant of Record: an event that matches no request is not recorded.     *)
RecordMatched(h) ==
    LET d == delivery[h]
    IN  /\ d.step = "record"
        /\ d.event \notin processedEvents
        /\ processedEvents' = IF d.request = None THEN processedEvents
                              ELSE processedEvents \cup {d.event}
        /\ Apply(d.request, d.loaded, d.event.type)
        /\ delivery' = [delivery EXCEPT ![h] = IdleDelivery]
        /\ UNCHANGED <<approvedBy, rejectedBy, providerRef, payeeStatus, providerVars>>

(***************************************************************************)
(* One SaveChangesAsync for the request, the postings and the event id.    *)
(* The unique index on EventId makes it fail as a whole when another       *)
(* delivery of the same event committed first.                             *)
(***************************************************************************)
Record(h) ==
    LET d == delivery[h]
    IN  /\ d.step = "record"
        /\ d.event \notin processedEvents
        /\ processedEvents' = processedEvents \cup {d.event}
        /\ Apply(d.request, d.loaded, d.event.type)
        /\ delivery' = [delivery EXCEPT ![h] = IdleDelivery]
        /\ UNCHANGED <<approvedBy, rejectedBy, providerRef, payeeStatus, providerVars>>

(* Mutant of RecordDuplicate: EventId has no unique index.                 *)
RecordAgain(h) ==
    LET d == delivery[h]
    IN  /\ d.step = "record"
        /\ d.event \in processedEvents
        /\ Apply(d.request, d.loaded, d.event.type)
        /\ delivery' = [delivery EXCEPT ![h] = IdleDelivery]
        /\ UNCHANGED <<processedEvents, approvedBy, rejectedBy, providerRef,
                       payeeStatus, providerVars>>

RecordDuplicate(h) ==
    /\ delivery[h].step = "record"
    /\ delivery[h].event \in processedEvents
    /\ delivery' = [delivery EXCEPT ![h] = IdleDelivery]
    /\ UNCHANGED <<storeVars, providerVars>>

(* Nothing is committed before Record, so a handler that throws leaves no  *)
(* trace and Stripe, not having had its 200, delivers again.               *)
Drop(h) ==
    /\ delivery[h].step # "idle"
    /\ delivery' = [delivery EXCEPT ![h] = IdleDelivery]
    /\ UNCHANGED <<storeVars, providerVars>>

DeliveryStep(h) == Match(h) \/ Record(h) \/ RecordDuplicate(h)

DeliveryNext ==
    \E h \in Handlers :
        \/ \E e \in Events : Receive(h, e)
        \/ DeliveryStep(h)
        \/ Drop(h)

=============================================================================
