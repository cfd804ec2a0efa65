---------------------------- MODULE PaymentWorker ----------------------------
(***************************************************************************)
(* PaymentProcessingWorker, the background service that pays approved      *)
(* requests, one instance per replica of the program.                      *)
(*                                                                         *)
(* A worker reads a batch of approved ids, claims each with a conditional  *)
(* UPDATE, reloads the claimed row, calls Stripe and saves what came back. *)
(* The claim is committed before the call, so whatever interrupts the      *)
(* worker in between leaves the row in Processing.                         *)
(***************************************************************************)
EXTENDS StripeProvider, FiniteSets

CONSTANTS
    Workers,    \* replicas of the background service
    BatchSize,  \* the Take(10) of the poll
    MaxFaults   \* bound: exceptions and process stops in a behaviour

ASSUME WorkerAssumption ==
    /\ BatchSize \in Nat \ {0}
    /\ MaxFaults \in Nat

VARIABLES
    worker,  \* where each worker is, and what it has read
    faults   \* exceptions and process stops so far

IdleWorker == [step |-> "poll", batch |-> {}, request |-> None, loaded |-> None]

WorkerStates ==
    {IdleWorker}
    \cup [step : {"claim"}, batch : SUBSET Requests, request : {None}, loaded : {None}]
    \cup [step : {"load"}, batch : SUBSET Requests, request : Requests, loaded : {None}]
    \cup [step : {"call", "saveReference", "saveFailure"}, batch : SUBSET Requests,
          request : Requests, loaded : Statuses]

WorkerTypeOK ==
    /\ worker \in [Workers -> WorkerStates]
    /\ faults \in Nat

WorkerInit ==
    /\ worker = [w \in Workers |-> IdleWorker]
    /\ faults = 0

(* Back to the foreach, or to the next poll once the batch is used up.     *)
NextInBatch(batch) ==
    IF batch = {} THEN IdleWorker
                  ELSE [step |-> "claim", batch |-> batch, request |-> None, loaded |-> None]

(* Mutant of Poll: rows already in Processing are fetched as well.         *)
PollOpen(w) ==
    LET open == {r \in Requests : status[r] \in {"Approved", "Processing"}}
        size == IF Cardinality(open) < BatchSize THEN Cardinality(open)
                                                ELSE BatchSize
    IN  /\ worker[w].step = "poll"
        /\ \E batch \in SUBSET open :
               /\ Cardinality(batch) = size
               /\ worker' = [worker EXCEPT ![w] = NextInBatch(batch)]
        /\ UNCHANGED <<storeVars, providerVars, faults>>

(***************************************************************************)
(* The poll takes the BatchSize approved requests with the oldest          *)
(* ApprovedAt.  The order is left open: any BatchSize of them may be       *)
(* taken, and the batch is worked through in any order.                    *)
(***************************************************************************)
Poll(w) ==
    LET approved == {r \in Requests : status[r] = "Approved"}
        size == IF Cardinality(approved) < BatchSize THEN Cardinality(approved)
                                                    ELSE BatchSize
    IN  /\ worker[w].step = "poll"
        /\ \E batch \in SUBSET approved :
               /\ Cardinality(batch) = size
               /\ worker' = [worker EXCEPT ![w] = NextInBatch(batch)]
        /\ UNCHANGED <<storeVars, providerVars, faults>>

(* Mutant of Claim: the UPDATE is keyed by the id alone.                   *)
ClaimById(w, r) ==
    /\ worker[w].step = "claim"
    /\ r \in worker[w].batch
    /\ status' = [status EXCEPT ![r] = "Processing"]
    /\ worker' = [worker EXCEPT ![w] = [step |-> "load", batch |-> @.batch \ {r},
                                        request |-> r, loaded |-> None]]
    /\ UNCHANGED <<approvedBy, rejectedBy, providerRef, payeeStatus,
                   processedEvents, ledgerVars, providerVars, faults>>

(***************************************************************************)
(* The claim is atomic.  A request that is no longer Approved when the     *)
(* UPDATE runs (another worker has it, or a rejection overtook it) is      *)
(* passed over.                                                            *)
(***************************************************************************)
Claim(w, r) ==
    /\ worker[w].step = "claim"
    /\ r \in worker[w].batch
    /\ status[r] = "Approved"
    /\ status' = [status EXCEPT ![r] = "Processing"]
    /\ worker' = [worker EXCEPT ![w] = [step |-> "load", batch |-> @.batch \ {r},
                                        request |-> r, loaded |-> None]]
    /\ UNCHANGED <<approvedBy, rejectedBy, providerRef, payeeStatus,
                   processedEvents, ledgerVars, providerVars, faults>>

PassOver(w, r) ==
    /\ worker[w].step = "claim"
    /\ r \in worker[w].batch
    /\ status[r] # "Approved"
    /\ worker' = [worker EXCEPT ![w] = NextInBatch(@.batch \ {r})]
    /\ UNCHANGED <<storeVars, providerVars, faults>>

(* Mutants of Load: the row is not fetched; the payee is not checked.      *)
LoadNothing(w) ==
    /\ worker[w].step = "load"
    /\ worker' = [worker EXCEPT ![w].step = "call"]
    /\ UNCHANGED <<storeVars, providerVars, faults>>

LoadUnchecked(w) ==
    /\ worker[w].step = "load"
    /\ worker' = [worker EXCEPT ![w].step = "call",
                                ![w].loaded = status[worker[w].request]]
    /\ UNCHANGED <<storeVars, providerVars, faults>>

(***************************************************************************)
(* One query brings the request and its payee.  Nothing looks at the       *)
(* status it brings; the payee of a disbursement must be verified.         *)
(***************************************************************************)
Load(w) ==
    LET r == worker[w].request
        payable == r \in Disbursements => payeeStatus[PayeeOf[r]] = "Verified"
    IN  /\ worker[w].step = "load"
        /\ worker' = [worker EXCEPT ![w].loaded = status[r],
                          ![w].step = IF payable THEN "call" ELSE "saveFailure"]
        /\ UNCHANGED <<storeVars, providerVars, faults>>

(***************************************************************************)
(* CreatePaymentAsync: a PaymentIntent came back.                          *)
(***************************************************************************)
CallAccepted(w) ==
    /\ worker[w].step = "call"
    /\ Create(worker[w].request, "accepted")
    /\ worker' = [worker EXCEPT ![w].step = "saveReference"]
    /\ UNCHANGED <<storeVars, faults>>

(***************************************************************************)
(* CreatePaymentAsync: a StripeException, which the processor turns into a *)
(* failed result whatever its cause: a decline, an invalid request that    *)
(* made no intent, or an error after Stripe had acted.                     *)
(***************************************************************************)
CallRejected(w) ==
    /\ worker[w].step = "call"
    /\ \/ UNCHANGED providerVars
       \/ \E outcome \in {"declined", "accepted"} : Create(worker[w].request, outcome)
    /\ worker' = [worker EXCEPT ![w].step = "saveFailure"]
    /\ UNCHANGED <<storeVars, faults>>

(* The success branch writes the reference and leaves the status alone.    *)
SaveReference(w) ==
    /\ worker[w].step = "saveReference"
    /\ providerRef' = [providerRef EXCEPT ![worker[w].request] = worker[w].request]
    /\ worker' = [worker EXCEPT ![w] = NextInBatch(@.batch)]
    /\ UNCHANGED <<status, approvedBy, rejectedBy, payeeStatus, processedEvents,
                   ledgerVars, providerVars, faults>>

(* Mutant of SaveFailure: the obligation is not reversed.                  *)
SaveFailureUnreversed(w) ==
    /\ worker[w].step = "saveFailure"
    /\ SaveStatus(worker[w].request, worker[w].loaded, "Failed")
    /\ worker' = [worker EXCEPT ![w] = NextInBatch(@.batch)]
    /\ UNCHANGED <<approvedBy, rejectedBy, providerRef, payeeStatus,
                   processedEvents, ledgerVars, providerVars, faults>>

(* Both failure branches: Failed, and the reversal, in one transaction.    *)
SaveFailure(w) ==
    LET r == worker[w].request
    IN  /\ worker[w].step = "saveFailure"
        /\ SaveStatus(r, worker[w].loaded, "Failed")
        /\ ReverseApproval(r)
        /\ worker' = [worker EXCEPT ![w] = NextInBatch(@.batch)]
        /\ UNCHANGED <<approvedBy, rejectedBy, providerRef, payeeStatus,
                       processedEvents, providerVars, faults>>

(***************************************************************************)
(* The process stops, or an exception other than StripeException unwinds   *)
(* to ExecuteAsync: the rest of the batch is forgotten and the worker      *)
(* polls again.  A call that was under way may have reached Stripe.        *)
(***************************************************************************)
Interrupt(w) ==
    /\ worker[w].step # "poll"
    /\ faults < MaxFaults
    /\ faults' = faults + 1
    /\ \/ UNCHANGED providerVars
       \/ /\ worker[w].step = "call"
          /\ \E outcome \in {"declined", "accepted"} : Create(worker[w].request, outcome)
    /\ worker' = [worker EXCEPT ![w] = IdleWorker]
    /\ UNCHANGED storeVars

(* What a worker does while nothing interrupts it.                         *)
WorkerStep(w) ==
    \/ Poll(w)
    \/ \E r \in Requests : Claim(w, r) \/ PassOver(w, r)
    \/ Load(w)
    \/ CallAccepted(w)
    \/ CallRejected(w)
    \/ SaveReference(w)
    \/ SaveFailure(w)

WorkerNext == \E w \in Workers : WorkerStep(w) \/ Interrupt(w)

=============================================================================
