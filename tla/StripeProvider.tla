--------------------------- MODULE StripeProvider ---------------------------
(***************************************************************************)
(* Stripe, as far as the worker and the webhook depend on it.  This is     *)
(* code outside the repository: what is assumed of it is what              *)
(* StripePaymentProcessor and StripeWebhookController rely on.             *)
(*                                                                         *)
(* A PaymentIntent is created by the first call that carries a request's   *)
(* idempotency key; a later call with the key gets the same outcome.  An   *)
(* intent has at most one terminal event, and events are delivered at      *)
(* least once, in any order: `sent` only grows, and any event in it may    *)
(* arrive at any time.  Events the handler neither matches nor switches on *)
(* (a charge, say) behave as "created" does.                               *)
(***************************************************************************)
EXTENDS FundsStore

VARIABLES
    intent,  \* the PaymentIntent made with each request's idempotency key
    sent     \* the events Stripe has emitted

providerVars == <<intent, sent>>

IntentStates == {"none", "declined", "accepted"}

TerminalTypes == {"succeeded", "payment_failed"}

ProviderTypeOK ==
    /\ intent \in [Requests -> IntentStates]
    /\ sent \subseteq Events

ProviderInit ==
    /\ intent = [r \in Requests |-> "none"]
    /\ sent = {}

(* The outcome of a CreatePaymentAsync call for r that ends as `outcome`.  *)
Create(r, outcome) ==
    /\ intent[r] \in {"none", outcome}
    /\ intent' = [intent EXCEPT ![r] = outcome]
    /\ UNCHANGED sent

(***************************************************************************)
(* Stripe announces an intent, and later how its one payment attempt       *)
(* ended.  A payment Stripe accepted may still fail before it settles.     *)
(***************************************************************************)
Announce(r) ==
    /\ intent[r] # "none"
    /\ sent' = sent \cup {[intent |-> r, type |-> "created"]}
    /\ UNCHANGED intent

Conclude(r, type) ==
    /\ intent[r] # "none"
    /\ type = "succeeded" => intent[r] = "accepted"
    /\ \A t \in TerminalTypes : [intent |-> r, type |-> t] \notin sent
    /\ sent' = sent \cup {[intent |-> r, type |-> type]}
    /\ UNCHANGED intent

ProviderNext ==
    \E r \in Requests :
        \/ Announce(r)
        \/ \E type \in TerminalTypes : Conclude(r, type)

=============================================================================
