------------------------- MODULE PaymentFlow_proofs -------------------------
(***************************************************************************)
(* Theorems about PaymentFlow for any number of requests, payees, users,   *)
(* sessions, workers and webhook handlers, with their proofs.              *)
(***************************************************************************)
EXTENDS PaymentFlow, Sums_proofs

-----------------------------------------------------------------------------
(* What the helpers of the store preserve.                                 *)

(* An UPDATE of the status column keeps it a column of statuses.           *)
LEMMA SaveStatusType ==
    ASSUME status \in [Requests -> Statuses],
           NEW r \in Requests, NEW new \in Statuses, NEW loaded,
           SaveStatus(r, loaded, new)
    PROVE  status' \in [Requests -> Statuses]
  BY DEF SaveStatus

(* It writes the new status or leaves the row alone, and no other row.     *)
LEMMA SaveStatusEffect ==
    ASSUME status \in [Requests -> Statuses],
           NEW r \in Requests, NEW new \in Statuses, NEW loaded,
           SaveStatus(r, loaded, new)
    PROVE  \A q \in Requests :
               status'[q] = status[q] \/ (q = r /\ status'[q] = new)
  BY DEF SaveStatus

(* A posting keeps the sums and the counts natural numbers.                *)
LEMMA AddPostingType ==
    ASSUME StoreTypeOK,
           NEW r \in Requests, NEW kind \in Postings,
           NEW dr \in Accounts, NEW cr \in Accounts,
           AddPosting(r, kind, dr, cr)
    PROVE  /\ debits' \in [Accounts -> Nat]
           /\ credits' \in [Accounts -> Nat]
           /\ posted' \in [Requests -> [Postings -> Nat]]
  <1>1. Minor[r] \in Nat
    BY StoreAssumption
  <1>2. debits' \in [Accounts -> Nat] /\ credits' \in [Accounts -> Nat]
    BY <1>1 DEF AddPosting, PostEntries, StoreTypeOK
  <1>3. posted' \in [Requests -> [Postings -> Nat]]
    BY DEF AddPosting, StoreTypeOK
  <1> QED BY <1>2, <1>3

(* It adds one to one count and leaves every other count alone.            *)
LEMMA AddPostingEffect ==
    ASSUME StoreTypeOK,
           NEW r \in Requests, NEW kind \in Postings,
           NEW dr, NEW cr,
           AddPosting(r, kind, dr, cr)
    PROVE  \A q \in Requests, k \in Postings :
               posted'[q][k] = IF q = r /\ k = kind THEN posted[q][k] + 1
                                                    ELSE posted[q][k]
  BY DEF AddPosting, StoreTypeOK

(* A reversal, if it posts anything, adds to the reversals of its request. *)
LEMMA ReverseApprovalType ==
    ASSUME StoreTypeOK, NEW r \in Requests, ReverseApproval(r)
    PROVE  /\ debits' \in [Accounts -> Nat]
           /\ credits' \in [Accounts -> Nat]
           /\ posted' \in [Requests -> [Postings -> Nat]]
  <1>1. CASE r \in Disbursements
    <2>1. AddPosting(r, "reversal", "PAYABLE", "EXPENSE")
      BY <1>1 DEF ReverseApproval
    <2> QED BY <2>1, AddPostingType DEF Postings, Accounts
  <1>2. CASE r \notin Disbursements
    BY <1>2 DEF ReverseApproval, ledgerVars, StoreTypeOK
  <1> QED BY <1>1, <1>2

(* Only a disbursement's reversal count moves, and it only grows.          *)
LEMMA ReverseApprovalEffect ==
    ASSUME StoreTypeOK, NEW r \in Requests, ReverseApproval(r)
    PROVE  \A q \in Requests :
               /\ posted'[q]["approval"] = posted[q]["approval"]
               /\ posted'[q]["settlement"] = posted[q]["settlement"]
               /\ posted'[q]["reversal"] =
                      IF q = r /\ r \in Disbursements THEN posted[q]["reversal"] + 1
                                                      ELSE posted[q]["reversal"]
  <1>1. CASE r \in Disbursements
    <2>1. AddPosting(r, "reversal", "PAYABLE", "EXPENSE")
      BY <1>1 DEF ReverseApproval
    <2> QED BY <1>1, <2>1, AddPostingEffect DEF Postings
  <1>2. CASE r \notin Disbursements
    BY <1>2 DEF ReverseApproval, ledgerVars
  <1> QED BY <1>1, <1>2

-----------------------------------------------------------------------------
(* Type correctness.                                                       *)

(* The initial state is typed.                                             *)
LEMMA InitType == Init => TypeOK
  <1> SUFFICES ASSUME Init PROVE TypeOK
    OBVIOUS
  <1> USE DEF Init
  <1>1. StoreTypeOK
    BY DEF StoreInit, StoreTypeOK, Statuses, PayeeStatuses
  <1>2. DecisionTypeOK
    BY DEF DecisionInit, DecisionTypeOK, DecisionStates
  <1>3. WorkerTypeOK
    BY DEF WorkerInit, WorkerTypeOK, WorkerStates
  <1>4. DeliveryTypeOK
    BY DEF DeliveryInit, DeliveryTypeOK, DeliveryStates
  <1>5. ProviderTypeOK
    BY DEF ProviderInit, ProviderTypeOK, IntentStates
  <1> QED BY <1>1, <1>2, <1>3, <1>4, <1>5 DEF TypeOK

(* Nothing of the store has changed.                                       *)
LEMMA StoreUnchanged == StoreTypeOK /\ UNCHANGED storeVars => StoreTypeOK'
  BY DEF StoreTypeOK, storeVars, rowVars, ledgerVars

(* A session that moves to a state of its type.                            *)
LEMMA DecisionMove ==
    ASSUME DecisionTypeOK, NEW s, NEW d \in DecisionStates,
           decision' = [decision EXCEPT ![s] = d]
    PROVE  DecisionTypeOK'
  BY DEF DecisionTypeOK

(* A busy session stays one whatever step and sum it moves on to.          *)
LEMMA BusySession ==
    ASSUME NEW d \in DecisionStates, d.step # "idle",
           NEW next \in DecisionSteps \ {"idle"}, NEW sum \in Int
    PROVE  [d EXCEPT !.step = next, !.funds = sum] \in DecisionStates
  <1>1. d \in [step : DecisionSteps \ {"idle"}, user : Approvers,
               request : Requests, funds : Int]
    BY DEF DecisionStates, IdleDecision
  <1> QED BY <1>1 DEF DecisionStates

(* Every sum read is added to the funds as an integer.                     *)
LEMMA ReadSumType ==
    ASSUME DecisionTypeOK, NEW s \in Sessions, NEW term \in Int,
           NEW here \in DecisionSteps \ {"idle"},
           NEW next \in DecisionSteps \ {"idle"},
           ReadSum(s, here, next, term)
    PROVE  DecisionTypeOK'
  <1> DEFINE d == [decision[s] EXCEPT !.step = next, !.funds = @ + term]
  <1>1. decision[s] \in DecisionStates /\ decision[s].step # "idle"
    BY DEF ReadSum, DecisionTypeOK
  <1>2. decision[s].funds + term \in Int
    BY <1>1 DEF DecisionStates, IdleDecision
  <1>3. d \in DecisionStates
    BY <1>1, <1>2, BusySession
  <1>4. decision' = [decision EXCEPT ![s] = d]
    BY DEF ReadSum
  <1> QED BY <1>3, <1>4, DecisionMove

(* Decisions keep the store and the sessions within their types.           *)
LEMMA DecisionType ==
    ASSUME StoreTypeOK, DecisionTypeOK, DecisionNext
    PROVE  StoreTypeOK' /\ DecisionTypeOK'
  <1>0. IdleDecision \in DecisionStates
    BY DEF DecisionStates
  <1>1. ASSUME NEW s \in Sessions, NEW u \in Approvers, NEW r \in Requests,
               LoadForApproval(s, u, r) \/ LoadForRejection(s, u, r)
        PROVE  StoreTypeOK' /\ DecisionTypeOK'
    <2>1. PICK step \in DecisionSteps \ {"idle"} :
              decision' = [decision EXCEPT ![s] =
                  [step |-> step, user |-> u, request |-> r, funds |-> 0]]
      BY <1>1 DEF LoadForApproval, LoadForRejection, DecisionSteps
    <2>2. [step |-> step, user |-> u, request |-> r, funds |-> 0] \in DecisionStates
      BY DEF DecisionStates
    <2>3. DecisionTypeOK'
      BY <2>1, <2>2, DecisionMove
    <2> QED BY <1>1, <2>3, StoreUnchanged DEF LoadForApproval, LoadForRejection
  <1>2. ASSUME NEW s \in Sessions,
               ReadCashDebits(s) \/ ReadCashCredits(s) \/ ReadPayableDebits(s)
        PROVE  StoreTypeOK' /\ DecisionTypeOK'
    <2>1. /\ debits["CASH"] \in Int /\ -credits["CASH"] \in Int
          /\ debits["PAYABLE"] \in Int
      BY DEF StoreTypeOK, Accounts
    <2>2. PICK here \in DecisionSteps \ {"idle"}, next \in DecisionSteps \ {"idle"},
               term \in Int : ReadSum(s, here, next, term)
      BY <1>2, <2>1
         DEF ReadCashDebits, ReadCashCredits, ReadPayableDebits, DecisionSteps
    <2>3. UNCHANGED storeVars
      BY <2>2 DEF ReadSum
    <2> QED BY <2>2, <2>3, ReadSumType, StoreUnchanged
  <1>3. ASSUME NEW s \in Sessions, ReadPayableCredits(s)
        PROVE  StoreTypeOK' /\ DecisionTypeOK'
    <2> DEFINE d == [decision[s] EXCEPT !.step = "saveApproval", !.funds = 0]
    <2>0. "saveApproval" \in DecisionSteps \ {"idle"} /\ 0 \in Int
      BY DEF DecisionSteps
    <2>1. decision[s] \in DecisionStates /\ decision[s].step # "idle"
      BY <1>3 DEF ReadPayableCredits, DecisionTypeOK
    <2>2. d \in DecisionStates
      BY <2>1, <2>0, BusySession
    <2>3. \/ decision' = [decision EXCEPT ![s] = IdleDecision]
          \/ decision' = [decision EXCEPT ![s] = d]
      BY <1>3 DEF ReadPayableCredits
    <2>4. UNCHANGED storeVars
      BY <1>3 DEF ReadPayableCredits
    <2> QED BY <1>0, <2>2, <2>3, <2>4, DecisionMove, StoreUnchanged
  <1>4. ASSUME NEW s \in Sessions, SaveApproval(s)
        PROVE  StoreTypeOK' /\ DecisionTypeOK'
    <2> DEFINE r == decision[s].request
    <2>1. r \in Requests /\ decision[s].user \in Approvers
      BY <1>4 DEF SaveApproval, DecisionTypeOK, DecisionStates, IdleDecision
    <2>2. status' \in [Requests -> Statuses]
      BY <1>4, <2>1, SaveStatusType DEF SaveApproval, StoreTypeOK, Statuses
    <2>3. /\ debits' \in [Accounts -> Nat]
          /\ credits' \in [Accounts -> Nat]
          /\ posted' \in [Requests -> [Postings -> Nat]]
      <3>1. CASE r \in Disbursements
        <4>1. AddPosting(r, "approval", "EXPENSE", "PAYABLE")
          BY <1>4, <3>1 DEF SaveApproval
        <4> QED BY <2>1, <4>1, AddPostingType DEF Postings, Accounts
      <3>2. CASE r \notin Disbursements
        BY <1>4, <3>2 DEF SaveApproval, StoreTypeOK, ledgerVars
      <3> QED BY <3>1, <3>2
    <2>4. approvedBy' \in [Requests -> Approvers \cup {None}]
      BY <1>4, <2>1 DEF SaveApproval, StoreTypeOK
    <2>5. StoreTypeOK'
      BY <1>4, <2>2, <2>3, <2>4 DEF SaveApproval, StoreTypeOK
    <2>6. decision' = [decision EXCEPT ![s] = IdleDecision]
      BY <1>4 DEF SaveApproval
    <2> QED BY <1>0, <2>5, <2>6, DecisionMove
  <1>5. ASSUME NEW s \in Sessions, SaveRejection(s)
        PROVE  StoreTypeOK' /\ DecisionTypeOK'
    <2>1. decision[s].request \in Requests /\ decision[s].user \in Approvers
      BY <1>5 DEF SaveRejection, DecisionTypeOK, DecisionStates, IdleDecision
    <2>2. status' \in [Requests -> Statuses]
      BY <1>5, <2>1, SaveStatusType DEF SaveRejection, StoreTypeOK, Statuses
    <2>3. rejectedBy' \in [Requests -> Approvers \cup {None}]
      BY <1>5, <2>1 DEF SaveRejection, StoreTypeOK
    <2>4. StoreTypeOK'
      BY <1>5, <2>2, <2>3 DEF SaveRejection, StoreTypeOK, ledgerVars
    <2>5. decision' = [decision EXCEPT ![s] = IdleDecision]
      BY <1>5 DEF SaveRejection
    <2> QED BY <1>0, <2>4, <2>5, DecisionMove
  <1>6. ASSUME NEW amount \in FundAmounts, Fund(amount)
        PROVE  StoreTypeOK' /\ DecisionTypeOK'
    <2>1. amount \in Nat
      BY DecisionsAssumption
    <2>2. debits' \in [Accounts -> Nat] /\ credits' \in [Accounts -> Nat]
      BY <1>6, <2>1 DEF Fund, PostEntries, StoreTypeOK, Accounts
    <2>3. StoreTypeOK'
      BY <1>6, <2>2 DEF Fund, StoreTypeOK, rowVars
    <2>4. UNCHANGED decision
      BY <1>6 DEF Fund
    <2> QED BY <2>3, <2>4 DEF DecisionTypeOK
  <1>7. ASSUME NEW p \in Payees, Suspend(p)
        PROVE  StoreTypeOK' /\ DecisionTypeOK'
    <2>1. StoreTypeOK'
      BY <1>7 DEF Suspend, StoreTypeOK, PayeeStatuses, rowVars, ledgerVars
    <2>2. UNCHANGED decision
      BY <1>7 DEF Suspend
    <2> QED BY <2>1, <2>2 DEF DecisionTypeOK
  <1> QED BY <1>1, <1>2, <1>3, <1>4, <1>5, <1>6, <1>7 DEF DecisionNext

(* A worker that moves to a state of its type.                             *)
LEMMA WorkerMove ==
    ASSUME WorkerTypeOK, NEW w, NEW d \in WorkerStates,
           worker' = [worker EXCEPT ![w] = d], UNCHANGED faults
    PROVE  WorkerTypeOK'
  BY DEF WorkerTypeOK

(* Leaving a request takes the worker to the next of its batch or a poll.  *)
LEMMA NextInBatchType ==
    ASSUME NEW batch \in SUBSET Requests
    PROVE  /\ NextInBatch(batch) \in WorkerStates
           /\ NextInBatch(batch).step \in {"poll", "claim"}
  BY DEF NextInBatch, WorkerStates, IdleWorker

(* A worker past its claim holds a request, and a batch of requests.       *)
LEMMA BusyWorker ==
    ASSUME WorkerTypeOK, NEW w \in Workers
    PROVE  /\ worker[w].batch \in SUBSET Requests
           /\ worker[w].step \notin {"poll", "claim"} => worker[w].request \in Requests
           /\ worker[w].step \in {"call", "saveReference", "saveFailure"} =>
                  worker[w].loaded \in Statuses
  BY DEF WorkerTypeOK, WorkerStates, IdleWorker

(* Whatever a call does at Stripe, intents stay intents.                   *)
LEMMA CreateType ==
    ASSUME ProviderTypeOK, NEW r \in Requests, NEW outcome \in IntentStates,
           Create(r, outcome)
    PROVE  ProviderTypeOK'
  BY DEF Create, ProviderTypeOK

(* Nothing of Stripe has changed.                                          *)
LEMMA ProviderUnchanged == ProviderTypeOK /\ UNCHANGED providerVars => ProviderTypeOK'
  BY DEF ProviderTypeOK, providerVars

(* Workers keep the store, Stripe and themselves within their types.       *)
LEMMA WorkerType ==
    ASSUME StoreTypeOK, WorkerTypeOK, ProviderTypeOK, WorkerNext
    PROVE  StoreTypeOK' /\ WorkerTypeOK' /\ ProviderTypeOK'
  <1>1. ASSUME NEW w \in Workers, Poll(w)
        PROVE  StoreTypeOK' /\ WorkerTypeOK' /\ ProviderTypeOK'
    <2>1. PICK batch \in SUBSET Requests :
              worker' = [worker EXCEPT ![w] = NextInBatch(batch)]
      BY <1>1 DEF Poll
    <2>2. NextInBatch(batch) \in WorkerStates
      BY NextInBatchType
    <2>3. UNCHANGED storeVars /\ UNCHANGED providerVars /\ UNCHANGED faults
      BY <1>1 DEF Poll
    <2> QED BY <2>1, <2>2, <2>3, WorkerMove, StoreUnchanged, ProviderUnchanged
  <1>2. ASSUME NEW w \in Workers, NEW r \in Requests, Claim(w, r)
        PROVE  StoreTypeOK' /\ WorkerTypeOK' /\ ProviderTypeOK'
    <2> DEFINE d == [step |-> "load", batch |-> worker[w].batch \ {r},
                     request |-> r, loaded |-> None]
    <2>1. d \in WorkerStates
      BY BusyWorker DEF WorkerStates
    <2>2. worker' = [worker EXCEPT ![w] = d] /\ UNCHANGED faults
      BY <1>2 DEF Claim
    <2>3. StoreTypeOK'
      BY <1>2 DEF Claim, StoreTypeOK, Statuses, ledgerVars
    <2>4. UNCHANGED providerVars
      BY <1>2 DEF Claim
    <2> QED BY <2>1, <2>2, <2>3, <2>4, WorkerMove, ProviderUnchanged
  <1>3. ASSUME NEW w \in Workers, NEW r \in Requests, PassOver(w, r)
        PROVE  StoreTypeOK' /\ WorkerTypeOK' /\ ProviderTypeOK'
    <2>1. NextInBatch(worker[w].batch \ {r}) \in WorkerStates
      BY BusyWorker, NextInBatchType
    <2>2. /\ worker' = [worker EXCEPT ![w] = NextInBatch(worker[w].batch \ {r})]
          /\ UNCHANGED storeVars /\ UNCHANGED providerVars /\ UNCHANGED faults
      BY <1>3 DEF PassOver
    <2> QED BY <2>1, <2>2, WorkerMove, StoreUnchanged, ProviderUnchanged
  <1>4. ASSUME NEW w \in Workers, Load(w)
        PROVE  StoreTypeOK' /\ WorkerTypeOK' /\ ProviderTypeOK'
    <2> DEFINE r == worker[w].request
    <2>1. worker[w] \in [step : {"load"}, batch : SUBSET Requests,
                         request : Requests, loaded : {None}]
      BY <1>4 DEF Load, WorkerTypeOK, WorkerStates, IdleWorker
    <2>2. status[r] \in Statuses
      BY <2>1 DEF StoreTypeOK
    <2>3. PICK next \in {"call", "saveFailure"} :
              worker' = [worker EXCEPT ![w].loaded = status[r], ![w].step = next]
      BY <1>4 DEF Load
    <2>4. WorkerTypeOK'
      BY <1>4, <2>1, <2>2, <2>3 DEF Load, WorkerTypeOK, WorkerStates
    <2>5. UNCHANGED storeVars /\ UNCHANGED providerVars
      BY <1>4 DEF Load
    <2> QED BY <2>4, <2>5, StoreUnchanged, ProviderUnchanged
  <1>5. ASSUME NEW w \in Workers, CallAccepted(w) \/ CallRejected(w)
        PROVE  StoreTypeOK' /\ WorkerTypeOK' /\ ProviderTypeOK'
    <2>1. worker[w] \in [step : {"call"}, batch : SUBSET Requests,
                         request : Requests, loaded : Statuses]
      BY <1>5 DEF CallAccepted, CallRejected, WorkerTypeOK, WorkerStates, IdleWorker
    <2>2. PICK next \in {"saveReference", "saveFailure"} :
              worker' = [worker EXCEPT ![w].step = next]
      BY <1>5 DEF CallAccepted, CallRejected
    <2>3. WorkerTypeOK'
      BY <1>5, <2>1, <2>2 DEF CallAccepted, CallRejected, WorkerTypeOK, WorkerStates
    <2>4. UNCHANGED storeVars
      BY <1>5 DEF CallAccepted, CallRejected
    <2>5. \/ UNCHANGED providerVars
          \/ \E outcome \in IntentStates : Create(worker[w].request, outcome)
      BY <1>5 DEF CallAccepted, CallRejected, IntentStates
    <2>6. ProviderTypeOK'
      BY <2>1, <2>5, CreateType, ProviderUnchanged
    <2> QED BY <2>3, <2>4, <2>6, StoreUnchanged
  <1>6. ASSUME NEW w \in Workers, SaveReference(w)
        PROVE  StoreTypeOK' /\ WorkerTypeOK' /\ ProviderTypeOK'
    <2>1. worker[w].request \in Requests
      BY <1>6, BusyWorker DEF SaveReference
    <2>2. StoreTypeOK'
      BY <1>6, <2>1 DEF SaveReference, StoreTypeOK, ledgerVars
    <2>3. /\ worker' = [worker EXCEPT ![w] = NextInBatch(worker[w].batch)]
          /\ UNCHANGED providerVars /\ UNCHANGED faults
      BY <1>6 DEF SaveReference
    <2>4. NextInBatch(worker[w].batch) \in WorkerStates
      BY BusyWorker, NextInBatchType
    <2> QED BY <2>2, <2>3, <2>4, WorkerMove, ProviderUnchanged
  <1>7. ASSUME NEW w \in Workers, SaveFailure(w)
        PROVE  StoreTypeOK' /\ WorkerTypeOK' /\ ProviderTypeOK'
    <2> DEFINE r == worker[w].request
    <2>1. r \in Requests
      BY <1>7, BusyWorker DEF SaveFailure
    <2>2. status' \in [Requests -> Statuses]
      BY <1>7, <2>1, SaveStatusType DEF SaveFailure, StoreTypeOK, Statuses
    <2>3. ReverseApproval(r)
      BY <1>7 DEF SaveFailure
    <2>4. StoreTypeOK'
      BY <1>7, <2>1, <2>2, <2>3, ReverseApprovalType DEF SaveFailure, StoreTypeOK
    <2>5. /\ worker' = [worker EXCEPT ![w] = NextInBatch(worker[w].batch)]
          /\ UNCHANGED providerVars /\ UNCHANGED faults
      BY <1>7 DEF SaveFailure
    <2>6. NextInBatch(worker[w].batch) \in WorkerStates
      BY BusyWorker, NextInBatchType
    <2> QED BY <2>4, <2>5, <2>6, WorkerMove, ProviderUnchanged
  <1>8. ASSUME NEW w \in Workers, Interrupt(w)
        PROVE  StoreTypeOK' /\ WorkerTypeOK' /\ ProviderTypeOK'
    <2>1. WorkerTypeOK'
      BY <1>8 DEF Interrupt, WorkerTypeOK, WorkerStates
    <2>2. \/ UNCHANGED providerVars
          \/ /\ worker[w].request \in Requests
             /\ \E outcome \in IntentStates : Create(worker[w].request, outcome)
      BY <1>8, BusyWorker DEF Interrupt, IntentStates
    <2>3. ProviderTypeOK'
      BY <2>2, CreateType, ProviderUnchanged
    <2>4. UNCHANGED storeVars
      BY <1>8 DEF Interrupt
    <2> QED BY <2>1, <2>3, <2>4, StoreUnchanged
  <1> QED BY <1>1, <1>2, <1>3, <1>4, <1>5, <1>6, <1>7, <1>8 DEF WorkerNext, WorkerStep

(* The record of a commit is typed whatever the event does to the request. *)
LEMMA ApplyType ==
    ASSUME StoreTypeOK, NEW r \in Requests \cup {None}, NEW loaded,
           NEW type \in EventTypes, Apply(r, loaded, type)
    PROVE  /\ status' \in [Requests -> Statuses]
           /\ debits' \in [Accounts -> Nat]
           /\ credits' \in [Accounts -> Nat]
           /\ posted' \in [Requests -> [Postings -> Nat]]
  <1>1. CASE r # None /\ Settle(r, loaded)
    <2>1. status' \in [Requests -> Statuses]
      BY <1>1, SaveStatusType DEF Settle, StoreTypeOK, Statuses
    <2>2. PICK dr \in Accounts, cr \in Accounts : AddPosting(r, "settlement", dr, cr)
      BY <1>1 DEF Settle, Accounts
    <2> QED BY <1>1, <2>1, <2>2, AddPostingType DEF Postings
  <1>2. CASE r # None /\ Fail(r, loaded)
    <2>1. status' \in [Requests -> Statuses]
      BY <1>2, SaveStatusType DEF Fail, StoreTypeOK, Statuses
    <2> QED BY <1>2, <2>1, ReverseApprovalType DEF Fail
  <1>3. CASE UNCHANGED <<status, ledgerVars>>
    BY <1>3 DEF StoreTypeOK, ledgerVars
  <1> QED BY <1>1, <1>2, <1>3 DEF Apply

(* A handler that moves to a state of its type.                            *)
LEMMA DeliveryMove ==
    ASSUME DeliveryTypeOK, NEW h, NEW d \in DeliveryStates,
           delivery' = [delivery EXCEPT ![h] = d]
    PROVE  DeliveryTypeOK'
  BY DEF DeliveryTypeOK

(* Webhook handlers keep the store and themselves within their types.      *)
LEMMA DeliveryType ==
    ASSUME StoreTypeOK, DeliveryTypeOK, ProviderTypeOK, DeliveryNext
    PROVE  StoreTypeOK' /\ DeliveryTypeOK' /\ ProviderTypeOK'
  <1>0. IdleDelivery \in DeliveryStates
    BY DEF DeliveryStates
  <1>1. ASSUME NEW h \in Handlers, NEW e \in Events, Receive(h, e)
        PROVE  StoreTypeOK' /\ DeliveryTypeOK' /\ ProviderTypeOK'
    <2> DEFINE d == [step |-> "match", event |-> e, request |-> None, loaded |-> None]
    <2>1. d \in DeliveryStates
      BY DEF DeliveryStates
    <2>2. /\ delivery' = [delivery EXCEPT ![h] = d]
          /\ UNCHANGED storeVars /\ UNCHANGED providerVars
      BY <1>1 DEF Receive
    <2> QED BY <2>1, <2>2, DeliveryMove, StoreUnchanged, ProviderUnchanged
  <1>2. ASSUME NEW h \in Handlers, Match(h)
        PROVE  StoreTypeOK' /\ DeliveryTypeOK' /\ ProviderTypeOK'
    <2>0. delivery[h] \in DeliveryStates /\ delivery[h].step = "match"
      BY <1>2 DEF Match, DeliveryTypeOK
    <2>1. delivery[h] \in [step : {"match"}, event : Events, request : {None},
                           loaded : {None}]
      BY <2>0 DEF DeliveryStates, IdleDelivery
    <2>2. CASE \E r \in Requests :
                   delivery' = [delivery EXCEPT ![h] =
                       [@ EXCEPT !.step = "record", !.request = r, !.loaded = status[r]]]
      <3>1. PICK r \in Requests :
                delivery' = [delivery EXCEPT ![h] =
                    [@ EXCEPT !.step = "record", !.request = r, !.loaded = status[r]]]
        BY <2>2
      <3>2. status[r] \in Statuses
        BY DEF StoreTypeOK
      <3> QED BY <1>2, <2>1, <3>1, <3>2, StoreUnchanged, ProviderUnchanged
              DEF Match, DeliveryTypeOK, DeliveryStates
    <2>3. CASE delivery' = [delivery EXCEPT ![h] = [@ EXCEPT !.step = "record"]]
      BY <1>2, <2>1, <2>3, StoreUnchanged, ProviderUnchanged
         DEF Match, DeliveryTypeOK, DeliveryStates
    <2> QED BY <1>2, <2>2, <2>3 DEF Match
  <1>3. ASSUME NEW h \in Handlers, Record(h)
        PROVE  StoreTypeOK' /\ DeliveryTypeOK' /\ ProviderTypeOK'
    <2> DEFINE d == delivery[h]
    <2>1. d.request \in Requests \cup {None} /\ d.event \in Events
      BY <1>3 DEF Record, DeliveryTypeOK, DeliveryStates, IdleDelivery
    <2>2. d.event.type \in EventTypes
      BY <2>1 DEF Events
    <2>3. Apply(d.request, d.loaded, d.event.type)
      BY <1>3 DEF Record
    <2>4. StoreTypeOK'
      BY <1>3, <2>1, <2>2, <2>3, ApplyType DEF Record, StoreTypeOK
    <2>5. /\ delivery' = [delivery EXCEPT ![h] = IdleDelivery]
          /\ UNCHANGED providerVars
      BY <1>3 DEF Record
    <2> QED BY <1>0, <2>4, <2>5, DeliveryMove, ProviderUnchanged
  <1>4. ASSUME NEW h \in Handlers, RecordDuplicate(h) \/ Drop(h)
        PROVE  StoreTypeOK' /\ DeliveryTypeOK' /\ ProviderTypeOK'
    <2>1. /\ delivery' = [delivery EXCEPT ![h] = IdleDelivery]
          /\ UNCHANGED storeVars /\ UNCHANGED providerVars
      BY <1>4 DEF RecordDuplicate, Drop
    <2> QED BY <1>0, <2>1, DeliveryMove, StoreUnchanged, ProviderUnchanged
  <1> QED BY <1>1, <1>2, <1>3, <1>4 DEF DeliveryNext, DeliveryStep

(* Stripe emits events only.                                               *)
LEMMA ProviderType ==
    ASSUME ProviderTypeOK, ProviderNext
    PROVE  ProviderTypeOK'
  BY DEF ProviderTypeOK, ProviderNext, Announce, Conclude, TerminalTypes, Events,
         EventTypes

(* No step of any component leaves the types.                              *)
LEMMA NextType == TypeOK /\ [Next]_vars => TypeOK'
  <1> SUFFICES ASSUME TypeOK, [Next]_vars PROVE TypeOK'
    OBVIOUS
  <1>0. /\ StoreTypeOK /\ DecisionTypeOK /\ WorkerTypeOK
        /\ DeliveryTypeOK /\ ProviderTypeOK
    BY DEF TypeOK
  <1>1. UNCHANGED decision => DecisionTypeOK'
    BY <1>0 DEF DecisionTypeOK
  <1>2. UNCHANGED <<worker, faults>> => WorkerTypeOK'
    BY <1>0 DEF WorkerTypeOK
  <1>3. UNCHANGED delivery => DeliveryTypeOK'
    BY <1>0 DEF DeliveryTypeOK
  <1>4. CASE DecisionNext /\ UNCHANGED <<worker, faults, delivery, providerVars>>
    BY <1>0, <1>2, <1>3, <1>4, DecisionType, ProviderUnchanged DEF TypeOK
  <1>5. CASE WorkerNext /\ UNCHANGED <<decision, delivery>>
    BY <1>0, <1>1, <1>3, <1>5, WorkerType DEF TypeOK
  <1>6. CASE DeliveryNext /\ UNCHANGED <<decision, worker, faults>>
    BY <1>0, <1>1, <1>2, <1>6, DeliveryType DEF TypeOK
  <1>7. CASE ProviderNext /\ UNCHANGED <<storeVars, decision, worker, faults, delivery>>
    BY <1>0, <1>1, <1>2, <1>3, <1>7, ProviderType, StoreUnchanged DEF TypeOK
  <1>8. CASE UNCHANGED vars
    <2>1. /\ UNCHANGED storeVars /\ UNCHANGED providerVars /\ UNCHANGED decision
          /\ UNCHANGED <<worker, faults>> /\ UNCHANGED delivery
      BY <1>8 DEF vars
    <2> QED BY <1>0, <1>1, <1>2, <1>3, <2>1, StoreUnchanged, ProviderUnchanged DEF TypeOK
  <1> QED BY <1>4, <1>5, <1>6, <1>7, <1>8 DEF Next

(***************************************************************************)
(* The tables, the handlers and the provider always hold values of their   *)
(* types.                                                                  *)
(***************************************************************************)
THEOREM TypeCorrect == Spec => []TypeOK
  BY InitType, NextType, PTL DEF Spec

-----------------------------------------------------------------------------
(* What the steps of each component do to the columns the theorems are     *)
(* about.                                                                  *)

(* Only SaveApproval approves, names an approver or posts.                 *)
LEMMA DecisionEffect ==
    ASSUME StoreTypeOK, DecisionTypeOK, DecisionNext,
           \A s \in Sessions : ~SaveApproval(s)
    PROVE  /\ UNCHANGED <<approvedBy, providerRef, processedEvents, posted>>
           /\ \A q \in Requests : status'[q] \in {status[q], "Rejected"}
  <1>1. CASE UNCHANGED storeVars
    BY <1>1 DEF storeVars, rowVars, ledgerVars
  <1>2. ASSUME NEW s \in Sessions, SaveRejection(s)
        PROVE  /\ UNCHANGED <<approvedBy, providerRef, processedEvents, posted>>
               /\ \A q \in Requests : status'[q] \in {status[q], "Rejected"}
    BY <1>2 DEF SaveRejection, SaveStatus, StoreTypeOK, ledgerVars
  <1>3. ASSUME NEW amount \in FundAmounts, Fund(amount)
        PROVE  UNCHANGED <<status, approvedBy, providerRef, processedEvents, posted>>
    BY <1>3 DEF Fund, rowVars
  <1>4. ASSUME NEW p \in Payees, Suspend(p)
        PROVE  UNCHANGED <<status, approvedBy, providerRef, processedEvents, posted>>
    BY <1>4 DEF Suspend, rowVars, ledgerVars
  <1> QED BY <1>1, <1>2, <1>3, <1>4
          DEF DecisionNext, LoadForApproval, LoadForRejection, ReadCashDebits,
              ReadCashCredits, ReadPayableDebits, ReadPayableCredits, ReadSum

(* An approval names its user, and posts the obligation of a disbursement. *)
LEMMA SaveApprovalEffect ==
    ASSUME StoreTypeOK, DecisionTypeOK, NEW s \in Sessions, SaveApproval(s)
    PROVE  /\ decision[s].request \in Requests
           /\ decision[s].user \in Approvers
           /\ UNCHANGED <<providerRef, processedEvents>>
           /\ \A q \in Requests :
                  IF q = decision[s].request
                  THEN /\ status'[q] = "Approved"
                       /\ approvedBy'[q] = decision[s].user
                       /\ posted'[q]["approval"] =
                              IF q \in Disbursements THEN posted[q]["approval"] + 1
                                                     ELSE posted[q]["approval"]
                  ELSE /\ status'[q] = status[q]
                       /\ approvedBy'[q] = approvedBy[q]
                       /\ posted'[q]["approval"] = posted[q]["approval"]
           /\ \A q \in Requests :
                  /\ posted'[q]["settlement"] = posted[q]["settlement"]
                  /\ posted'[q]["reversal"] = posted[q]["reversal"]
  <1> DEFINE r == decision[s].request
  <1>1. r \in Requests /\ decision[s].user \in Approvers
    BY DEF SaveApproval, DecisionTypeOK, DecisionStates, IdleDecision
  <1>2. \A q \in Requests :
            /\ status'[q] = IF q = r THEN "Approved" ELSE status[q]
            /\ approvedBy'[q] = IF q = r THEN decision[s].user ELSE approvedBy[q]
    BY <1>1 DEF SaveApproval, SaveStatus, StoreTypeOK
  <1>3. \A q \in Requests :
            /\ posted'[q]["approval"] = IF q = r /\ r \in Disbursements
                                        THEN posted[q]["approval"] + 1
                                        ELSE posted[q]["approval"]
            /\ posted'[q]["settlement"] = posted[q]["settlement"]
            /\ posted'[q]["reversal"] = posted[q]["reversal"]
    <2>1. CASE r \in Disbursements
      <3>1. AddPosting(r, "approval", "EXPENSE", "PAYABLE")
        BY <2>1 DEF SaveApproval
      <3> QED BY <1>1, <2>1, <3>1, AddPostingEffect DEF Postings
    <2>2. CASE r \notin Disbursements
      BY <2>2 DEF SaveApproval, ledgerVars
    <2> QED BY <2>1, <2>2
  <1>4. UNCHANGED <<providerRef, processedEvents>>
    BY DEF SaveApproval
  <1> QED BY <1>1, <1>2, <1>3, <1>4

(* A worker approves nothing, settles nothing and names no approver.       *)
LEMMA WorkerEffect ==
    ASSUME StoreTypeOK, WorkerTypeOK, WorkerNext
    PROVE  /\ UNCHANGED <<approvedBy, processedEvents>>
           /\ \A q \in Requests :
                  /\ status'[q] \in {status[q], "Processing", "Failed"}
                  /\ posted'[q]["approval"] = posted[q]["approval"]
                  /\ posted'[q]["settlement"] = posted[q]["settlement"]
  <1>1. CASE UNCHANGED storeVars
    BY <1>1 DEF storeVars, rowVars, ledgerVars
  <1>2. ASSUME NEW w \in Workers, NEW r \in Requests, Claim(w, r)
        PROVE  /\ UNCHANGED <<approvedBy, processedEvents, posted>>
               /\ \A q \in Requests : status'[q] \in {status[q], "Processing"}
    BY <1>2 DEF Claim, StoreTypeOK, ledgerVars
  <1>3. ASSUME NEW w \in Workers, SaveReference(w)
        PROVE  UNCHANGED <<status, approvedBy, processedEvents, posted>>
    BY <1>3 DEF SaveReference, ledgerVars
  <1>4. ASSUME NEW w \in Workers, SaveFailure(w)
        PROVE  /\ UNCHANGED <<approvedBy, processedEvents>>
               /\ \A q \in Requests :
                      /\ status'[q] \in {status[q], "Failed"}
                      /\ posted'[q]["approval"] = posted[q]["approval"]
                      /\ posted'[q]["settlement"] = posted[q]["settlement"]
    <2>1. worker[w].request \in Requests
      BY <1>4, BusyWorker DEF SaveFailure
    <2>2. SaveStatus(worker[w].request, worker[w].loaded, "Failed")
          /\ ReverseApproval(worker[w].request)
      BY <1>4 DEF SaveFailure
    <2>3. \A q \in Requests : status'[q] \in {status[q], "Failed"}
      BY <2>2 DEF SaveStatus, StoreTypeOK
    <2> QED BY <1>4, <2>1, <2>2, <2>3, ReverseApprovalEffect DEF SaveFailure
  <1> QED BY <1>1, <1>2, <1>3, <1>4
          DEF WorkerNext, WorkerStep, Poll, PassOver, Load, CallAccepted, CallRejected,
              Interrupt

(* What a committed event does: it approves nothing, and only a success    *)
(* settles, the request it matched and no other.                           *)
LEMMA RecordEffect ==
    ASSUME StoreTypeOK, DeliveryTypeOK, NEW h \in Handlers, Record(h)
    PROVE  /\ UNCHANGED <<approvedBy, providerRef>>
           /\ \A q \in Requests :
                  /\ status'[q] \in {status[q], "Completed", "Failed"}
                  /\ posted'[q]["approval"] = posted[q]["approval"]
                  /\ q = delivery[h].request /\ delivery[h].event.type = "succeeded" =>
                         posted'[q]["settlement"] = posted[q]["settlement"] + 1
                  /\ ~(q = delivery[h].request /\ delivery[h].event.type = "succeeded") =>
                         posted'[q]["settlement"] = posted[q]["settlement"]
  <1> DEFINE r == delivery[h].request
             loaded == delivery[h].loaded
             type == delivery[h].event.type
  <1>1. r \in Requests \cup {None}
    BY DEF Record, DeliveryTypeOK, DeliveryStates, IdleDelivery
  <1>2. Apply(r, loaded, type) /\ UNCHANGED <<approvedBy, providerRef>>
    BY DEF Record
  <1>3. CASE r # None /\ type = "succeeded" /\ Settle(r, loaded)
    <2>1. \A q \in Requests : status'[q] \in {status[q], "Completed"}
      BY <1>3 DEF Settle, SaveStatus, StoreTypeOK
    <2>2. PICK dr, cr : AddPosting(r, "settlement", dr, cr)
      BY <1>3 DEF Settle
    <2> QED BY <1>1, <1>2, <1>3, <2>1, <2>2, AddPostingEffect DEF Postings
  <1>4. CASE r # None /\ type = "payment_failed" /\ Fail(r, loaded)
    <2>1. \A q \in Requests : status'[q] \in {status[q], "Failed"}
      BY <1>4 DEF Fail, SaveStatus, StoreTypeOK
    <2> QED BY <1>1, <1>2, <1>4, <2>1, ReverseApprovalEffect DEF Fail
  <1>5. CASE (r = None \/ type \notin TerminalTypes) /\ UNCHANGED <<status, ledgerVars>>
    BY <1>2, <1>5, StoreAssumption DEF ledgerVars, TerminalTypes
  <1> QED BY <1>2, <1>3, <1>4, <1>5 DEF Apply

(* A webhook handler approves nothing and names no approver.               *)
LEMMA DeliveryEffect ==
    ASSUME StoreTypeOK, DeliveryTypeOK, DeliveryNext
    PROVE  /\ UNCHANGED <<approvedBy, providerRef>>
           /\ \A q \in Requests :
                  /\ status'[q] \in {status[q], "Completed", "Failed"}
                  /\ posted'[q]["approval"] = posted[q]["approval"]
  <1>1. CASE UNCHANGED storeVars
    BY <1>1 DEF storeVars, rowVars, ledgerVars
  <1>2. CASE \E h \in Handlers : Record(h)
    BY <1>2, RecordEffect
  <1> QED BY <1>1, <1>2
          DEF DeliveryNext, DeliveryStep, Receive, Match, RecordDuplicate, Drop

-----------------------------------------------------------------------------
(* Money is asked for only on an approver's word.                          *)

Authorized(r) ==
    /\ approvedBy[r] \in Approvers \ {RequestedBy[r]}
    /\ r \in Disbursements => posted[r]["approval"] > 0

(* The requester of what a session is approving is somebody else.          *)
SessionsSeparate ==
    \A s \in Sessions :
        decision[s].step \notin {"idle", "saveRejection"} =>
            decision[s].user # RequestedBy[decision[s].request]

(***************************************************************************)
(* Why PaidOnlyIfApproved holds: an approval is authorized when it is      *)
(* saved, authority is never withdrawn (a later approval overwrites it     *)
(* with another), and it is handed from the status to the claim, from the  *)
(* claim to the worker and from the worker to the intent.                  *)
(***************************************************************************)
AuthorityInv ==
    /\ SessionsSeparate
    /\ \A r \in Requests : status[r] = "Approved" => Authorized(r)
    /\ \A w \in Workers :
           worker[w].step \notin {"poll", "claim"} => Authorized(worker[w].request)
    /\ \A r \in Requests : intent[r] # "none" => Authorized(r)

(* Nothing has been decided or asked of Stripe at the start.               *)
LEMMA AuthorityInit == Init => AuthorityInv
  BY DEF Init, StoreInit, DecisionInit, IdleDecision, WorkerInit, IdleWorker,
         ProviderInit, AuthorityInv, SessionsSeparate

(* The sessions compare requester and user before they approve.            *)
LEMMA SessionsSeparateStep ==
    ASSUME DecisionTypeOK, SessionsSeparate, DecisionNext
    PROVE  SessionsSeparate'
  <1> SUFFICES ASSUME NEW t \in Sessions,
                      decision'[t].step \notin {"idle", "saveRejection"}
               PROVE  decision'[t].user # RequestedBy[decision'[t].request]
    BY DEF SessionsSeparate
  <1> USE DEF DecisionTypeOK, SessionsSeparate
  <1>1. ASSUME NEW s \in Sessions, NEW u \in Approvers, NEW r \in Requests,
               LoadForApproval(s, u, r)
        PROVE  decision'[t].user # RequestedBy[decision'[t].request]
    BY <1>1 DEF LoadForApproval
  <1>2. ASSUME NEW s \in Sessions, NEW u \in Approvers, NEW r \in Requests,
               LoadForRejection(s, u, r)
        PROVE  decision'[t].user # RequestedBy[decision'[t].request]
    BY <1>2 DEF LoadForRejection
  <1>3. ASSUME NEW s \in Sessions, NEW here, NEW next, NEW term,
               here \notin {"idle", "saveRejection"}, ReadSum(s, here, next, term)
        PROVE  decision'[t].user # RequestedBy[decision'[t].request]
    <2>1. /\ decision'[t].user = decision[t].user
          /\ decision'[t].request = decision[t].request
          /\ decision[t].step \notin {"idle", "saveRejection"}
      BY <1>3 DEF ReadSum, DecisionStates, IdleDecision
    <2> QED BY <2>1
  <1>4. ASSUME NEW s \in Sessions, ReadPayableCredits(s)
        PROVE  decision'[t].user # RequestedBy[decision'[t].request]
    <2>1. CASE t = s
      <3>1. decision[s].step = "payableCredits"
        BY <1>4 DEF ReadPayableCredits
      <3>2. CASE decision' = [decision EXCEPT ![s] = IdleDecision]
        BY <2>1, <3>2 DEF IdleDecision
      <3>3. CASE decision' = [decision EXCEPT ![s] =
                     [@ EXCEPT !.step = "saveApproval", !.funds = 0]]
        BY <2>1, <3>1, <3>3
      <3> QED BY <1>4, <3>2, <3>3 DEF ReadPayableCredits
    <2>2. CASE t # s
      BY <1>4, <2>2 DEF ReadPayableCredits
    <2> QED BY <2>1, <2>2
  <1>5. ASSUME NEW s \in Sessions, SaveApproval(s) \/ SaveRejection(s)
        PROVE  decision'[t].user # RequestedBy[decision'[t].request]
    BY <1>5 DEF SaveApproval, SaveRejection, IdleDecision
  <1>6. CASE UNCHANGED decision
    BY <1>6
  <1> QED BY <1>1, <1>2, <1>3, <1>4, <1>5, <1>6
          DEF DecisionNext, ReadCashDebits, ReadCashCredits, ReadPayableDebits, Fund,
              Suspend

(* Authority is never withdrawn, and comes with every approved status.     *)
LEMMA AuthorityKept ==
    ASSUME TypeOK, AuthorityInv, [Next]_vars, NEW r \in Requests,
           Authorized(r) \/ status'[r] = "Approved"
    PROVE  Authorized(r)'
  <1>0. /\ StoreTypeOK /\ DecisionTypeOK /\ WorkerTypeOK /\ DeliveryTypeOK
        /\ posted[r]["approval"] \in Nat
    BY DEF TypeOK, StoreTypeOK, Postings
  <1>1. status[r] = "Approved" => Authorized(r)
    BY DEF AuthorityInv
  <1>2. CASE \E s \in Sessions : SaveApproval(s)
    <2>1. PICK s \in Sessions : SaveApproval(s)
      BY <1>2
    <2>2. decision[s].user # RequestedBy[decision[s].request]
      BY <2>1 DEF SaveApproval, AuthorityInv, SessionsSeparate
    <2>3. CASE r = decision[s].request
      BY <1>0, <2>1, <2>2, <2>3, SaveApprovalEffect DEF Authorized
    <2>4. CASE r # decision[s].request
      BY <1>0, <1>1, <2>1, <2>4, SaveApprovalEffect DEF Authorized
    <2> QED BY <2>3, <2>4
  <1>3. CASE DecisionNext /\ \A s \in Sessions : ~SaveApproval(s)
    BY <1>0, <1>1, <1>3, DecisionEffect DEF Authorized
  <1>4. CASE WorkerNext
    BY <1>0, <1>1, <1>4, WorkerEffect DEF Authorized
  <1>5. CASE DeliveryNext
    BY <1>0, <1>1, <1>5, DeliveryEffect DEF Authorized
  <1>6. CASE UNCHANGED storeVars
    BY <1>1, <1>6 DEF Authorized, storeVars, rowVars, ledgerVars
  <1> QED BY <1>2, <1>3, <1>4, <1>5, <1>6 DEF Next, vars

(* A worker comes to hold a request by claiming it.                        *)
LEMMA HeldByClaim ==
    ASSUME WorkerTypeOK, WorkerNext, NEW v \in Workers,
           worker'[v].step \notin {"poll", "claim"}
    PROVE  \/ /\ worker[v].step \notin {"poll", "claim"}
              /\ worker'[v].request = worker[v].request
           \/ \E r \in Requests : Claim(v, r)
  <1> DEFINE Goal == \/ /\ worker[v].step \notin {"poll", "claim"}
                        /\ worker'[v].request = worker[v].request
                     \/ \E r \in Requests : Claim(v, r)
  <1>0. worker[v] \in WorkerStates
    BY DEF WorkerTypeOK
  <1>1. ASSUME NEW w \in Workers, NEW batch \in SUBSET Requests,
               worker' = [worker EXCEPT ![w] = NextInBatch(batch)]
        PROVE  Goal
    BY <1>1, NextInBatchType DEF WorkerTypeOK
  <1>2. ASSUME NEW w \in Workers, Poll(w) PROVE Goal
    BY <1>1, <1>2 DEF Poll
  <1>3. ASSUME NEW w \in Workers, NEW r \in Requests, Claim(w, r) PROVE Goal
    BY <1>3 DEF Claim, WorkerTypeOK
  <1>4. ASSUME NEW w \in Workers, NEW r \in Requests, PassOver(w, r) PROVE Goal
    <2>1. worker[w].batch \ {r} \in SUBSET Requests
      BY BusyWorker
    <2> QED BY <1>1, <1>4, <2>1 DEF PassOver
  <1>5. ASSUME NEW w \in Workers, Load(w) PROVE Goal
    BY <1>0, <1>5 DEF Load, WorkerTypeOK, WorkerStates, IdleWorker
  <1>6. ASSUME NEW w \in Workers, CallAccepted(w) \/ CallRejected(w) PROVE Goal
    BY <1>0, <1>6 DEF CallAccepted, CallRejected, WorkerTypeOK, WorkerStates, IdleWorker
  <1>7. ASSUME NEW w \in Workers, SaveReference(w) \/ SaveFailure(w) PROVE Goal
    <2>1. worker[w].batch \in SUBSET Requests
      BY BusyWorker
    <2> QED BY <1>1, <1>7, <2>1 DEF SaveReference, SaveFailure
  <1>8. ASSUME NEW w \in Workers, Interrupt(w) PROVE Goal
    BY <1>8 DEF Interrupt, IdleWorker, WorkerTypeOK
  <1> QED BY <1>2, <1>3, <1>4, <1>5, <1>6, <1>7, <1>8 DEF WorkerNext, WorkerStep

(* An intent is made by a worker's call for the request it holds, and an   *)
(* accepted one stays accepted.                                            *)
LEMMA IntentByCall ==
    ASSUME ProviderTypeOK, WorkerTypeOK, WorkerNext, NEW r \in Requests
    PROVE  /\ intent[r] = "none" /\ intent'[r] # "none" =>
                  \E w \in Workers : worker[w].step = "call" /\ worker[w].request = r
           /\ intent[r] = "accepted" => intent'[r] = "accepted"
           /\ UNCHANGED sent
  <1>1. CASE UNCHANGED providerVars
    BY <1>1 DEF providerVars
  <1>2. ASSUME NEW w \in Workers, NEW outcome, worker[w].step = "call",
               Create(worker[w].request, outcome)
        PROVE  /\ intent[r] = "none" /\ intent'[r] # "none" => worker[w].request = r
               /\ intent[r] = "accepted" => intent'[r] = "accepted"
               /\ UNCHANGED sent
    BY <1>2 DEF Create, ProviderTypeOK
  <1> QED BY <1>1, <1>2
          DEF WorkerNext, WorkerStep, Poll, Claim, PassOver, Load, CallAccepted,
              CallRejected, SaveReference, SaveFailure, Interrupt

(* Each clause of AuthorityInv is handed over by every step.               *)
LEMMA AuthorityStep == TypeOK /\ AuthorityInv /\ [Next]_vars => AuthorityInv'
  <1> SUFFICES ASSUME TypeOK, AuthorityInv, [Next]_vars PROVE AuthorityInv'
    OBVIOUS
  <1>0. /\ StoreTypeOK /\ DecisionTypeOK /\ WorkerTypeOK /\ DeliveryTypeOK
        /\ ProviderTypeOK
    BY DEF TypeOK
  <1>1. SessionsSeparate'
    <2>1. CASE DecisionNext
      BY <1>0, <2>1, SessionsSeparateStep DEF AuthorityInv
    <2>2. CASE UNCHANGED decision
      BY <2>2 DEF AuthorityInv, SessionsSeparate
    <2> QED BY <2>1, <2>2 DEF Next, vars
  <1>2. ASSUME NEW r \in Requests, status'[r] = "Approved"
        PROVE  Authorized(r)'
    BY <1>2, AuthorityKept
  <1>3. ASSUME NEW v \in Workers, worker'[v].step \notin {"poll", "claim"}
        PROVE  worker'[v].request \in Requests /\ Authorized(worker'[v].request)
    <2>1. CASE /\ worker[v].step \notin {"poll", "claim"}
               /\ worker'[v].request = worker[v].request
      BY <1>0, <2>1, BusyWorker DEF AuthorityInv
    <2>2. CASE \E r \in Requests : Claim(v, r)
      BY <1>0, <2>2 DEF Claim, WorkerTypeOK, AuthorityInv
    <2>3. CASE UNCHANGED worker
      BY <1>0, <1>3, <2>1, <2>3
    <2> QED BY <1>0, <1>3, <2>1, <2>2, <2>3, HeldByClaim DEF Next, vars
  <1>4. ASSUME NEW v \in Workers, worker'[v].step \notin {"poll", "claim"}
        PROVE  Authorized(worker[v].request)'
    BY <1>3, <1>4, AuthorityKept DEF Authorized
  <1>5. ASSUME NEW r \in Requests, intent'[r] # "none"
        PROVE  Authorized(r)
    <2>1. CASE intent[r] # "none"
      BY <2>1 DEF AuthorityInv
    <2>2. CASE WorkerNext /\ intent[r] = "none"
      BY <1>0, <1>5, <2>2, IntentByCall DEF AuthorityInv
    <2>3. CASE UNCHANGED intent
      BY <1>5, <2>1, <2>3
    <2> QED BY <2>1, <2>2, <2>3
            DEF Next, vars, providerVars, DeliveryNext, DeliveryStep, Receive, Match,
                Record, RecordDuplicate, Drop, ProviderNext, Announce, Conclude
  <1>6. ASSUME NEW r \in Requests, intent'[r] # "none"
        PROVE  Authorized(r)'
    BY <1>5, <1>6, AuthorityKept
  <1> QED BY <1>1, <1>2, <1>4, <1>6 DEF AuthorityInv

(***************************************************************************)
(* No PaymentIntent exists for a request that was not approved by an       *)
(* approver other than its requester, however sessions, workers, crashes   *)
(* and retries interleave.                                                 *)
(***************************************************************************)
THEOREM PaidIsApproved == Spec => []PaidOnlyIfApproved
  <1>1. AuthorityInv => PaidOnlyIfApproved
    BY DEF AuthorityInv, PaidOnlyIfApproved, Authorized
  <1> QED BY <1>1, AuthorityInit, AuthorityStep, TypeCorrect, PTL DEF Spec

-----------------------------------------------------------------------------
(* Settlement happens once.                                                *)

(***************************************************************************)
(* Why SettledOnce holds: a handler works on an event Stripe sent and on   *)
(* the request that event names, a success is sent only of an accepted     *)
(* payment, and posting the settlement records the event, after which no   *)
(* handler can commit it again.                                            *)
(***************************************************************************)
SettlementInv ==
    /\ \A r \in Requests : providerRef[r] \in {None, r}
    /\ \A e \in sent : e.type = "succeeded" => intent[e.intent] = "accepted"
    /\ \A h \in Handlers : delivery[h].step # "idle" =>
           /\ delivery[h].event \in sent
           /\ delivery[h].request \in {None, delivery[h].event.intent}
    /\ SettledOnce

(* Nothing is in flight, recorded or settled at the start.                 *)
LEMMA SettlementInit == Init => SettlementInv
  BY DEF Init, StoreInit, DeliveryInit, IdleDelivery, ProviderInit, SettlementInv,
         SettledOnce, Postings

(* Only a committed success moves settlements and recorded events.         *)
LEMMA SettledKept ==
    ASSUME SettledOnce, UNCHANGED processedEvents,
           \A r \in Requests : posted'[r]["settlement"] = posted[r]["settlement"],
           \A r \in Requests : intent[r] = "accepted" => intent'[r] = "accepted"
    PROVE  SettledOnce'
  BY DEF SettledOnce

(* A committed event settles its own request, which it had not settled.    *)
LEMMA RecordSettles ==
    ASSUME TypeOK, SettlementInv, NEW h \in Handlers, Record(h)
    PROVE  SettledOnce'
  <1> DEFINE d == delivery[h]
             e == d.event
  <1>0. StoreTypeOK /\ DeliveryTypeOK
    BY DEF TypeOK
  <1>1. /\ d.request \in Requests \cup {None}
        /\ e \in Events
        /\ d.step # "idle"
    BY <1>0 DEF Record, DeliveryTypeOK, DeliveryStates, IdleDelivery
  <1>2. e \in sent /\ d.request \in {None, e.intent}
    BY <1>1 DEF SettlementInv
  <1>3. /\ Apply(d.request, d.loaded, e.type)
        /\ e \notin processedEvents /\ processedEvents' = processedEvents \cup {e}
        /\ UNCHANGED intent
    BY DEF Record, providerVars
  <1> SUFFICES ASSUME NEW r \in Requests
               PROVE  /\ posted'[r]["settlement"] \in {0, 1}
                      /\ posted'[r]["settlement"] = 1 =>
                             /\ intent[r] = "accepted"
                             /\ [intent |-> r, type |-> "succeeded"] \in processedEvents'
    BY <1>3 DEF SettledOnce
  <1>4. /\ posted[r]["settlement"] \in {0, 1}
        /\ posted[r]["settlement"] = 1 =>
               /\ intent[r] = "accepted"
               /\ [intent |-> r, type |-> "succeeded"] \in processedEvents
    BY DEF SettlementInv, SettledOnce
  <1>5. CASE r = d.request /\ e.type = "succeeded"
    <2>1. e = [intent |-> r, type |-> "succeeded"]
      BY <1>1, <1>2, <1>5, StoreAssumption DEF Events
    <2>2. posted[r]["settlement"] = 0
      BY <1>3, <1>4, <2>1
    <2>3. posted'[r]["settlement"] = 1
      BY <1>0, <1>5, <2>2, RecordEffect
    <2>4. intent[r] = "accepted"
      BY <1>2, <2>1 DEF SettlementInv
    <2> QED BY <1>3, <2>1, <2>3, <2>4
  <1>6. CASE ~(r = d.request /\ e.type = "succeeded")
    <2>1. posted'[r]["settlement"] = posted[r]["settlement"]
      BY <1>0, <1>6, RecordEffect
    <2> QED BY <1>3, <1>4, <2>1
  <1> QED BY <1>5, <1>6

(* Each clause of SettlementInv survives every step.                       *)
LEMMA SettlementStep == TypeOK /\ SettlementInv /\ [Next]_vars => SettlementInv'
  <1> SUFFICES ASSUME TypeOK, SettlementInv, [Next]_vars PROVE SettlementInv'
    OBVIOUS
  <1>0. /\ StoreTypeOK /\ DecisionTypeOK /\ WorkerTypeOK /\ DeliveryTypeOK
        /\ ProviderTypeOK
    BY DEF TypeOK
  <1>1. \A r \in Requests : intent[r] = "accepted" => intent'[r] = "accepted"
    <2>1. CASE WorkerNext
      BY <1>0, <2>1, IntentByCall
    <2>2. CASE UNCHANGED intent
      BY <2>2
    <2> QED BY <2>1, <2>2
            DEF Next, vars, providerVars, DeliveryNext, DeliveryStep, Receive, Match,
                Record, RecordDuplicate, Drop, ProviderNext, Announce, Conclude
  <1>2. ASSUME NEW r \in Requests
        PROVE  providerRef'[r] \in {None, r}
    <2>1. CASE \E w \in Workers : SaveReference(w)
      BY <1>0, <2>1 DEF SaveReference, SettlementInv, StoreTypeOK
    <2>2. CASE UNCHANGED providerRef
      BY <2>2 DEF SettlementInv
    <2>3. CASE \E s \in Sessions : SaveApproval(s)
      BY <2>2, <2>3 DEF SaveApproval
    <2> QED BY <1>0, <2>1, <2>2, <2>3, DecisionEffect, DeliveryEffect
            DEF Next, vars, WorkerNext, WorkerStep, Poll, Claim, PassOver, Load,
                CallAccepted, CallRejected, SaveFailure, Interrupt, storeVars, rowVars
  <1>3. sent \subseteq sent'
        /\ \A e \in sent' : e.type = "succeeded" => intent'[e.intent] = "accepted"
    <2>1. CASE ProviderNext
      BY <1>0, <2>1 DEF ProviderNext, Announce, Conclude, SettlementInv, Events
    <2>2. CASE UNCHANGED sent
      BY <1>0, <1>1, <2>2 DEF SettlementInv, ProviderTypeOK, Events
    <2> QED BY <1>0, <2>1, <2>2, IntentByCall
            DEF Next, vars, providerVars, DeliveryNext, DeliveryStep, Receive, Match,
                Record, RecordDuplicate, Drop, WorkerNext, WorkerStep, Poll, Claim,
                PassOver, Load, CallAccepted, CallRejected, SaveReference, SaveFailure,
                Interrupt, Create
  <1>4. ASSUME NEW h \in Handlers, delivery'[h].step # "idle"
        PROVE  /\ delivery'[h].event \in sent'
               /\ delivery'[h].request \in {None, delivery'[h].event.intent}
    <2>1. CASE UNCHANGED delivery
      BY <1>3, <1>4, <2>1 DEF SettlementInv
    <2>2. ASSUME NEW g \in Handlers, NEW e \in Events, Receive(g, e)
          PROVE  /\ delivery'[h].event \in sent'
                 /\ delivery'[h].request \in {None, delivery'[h].event.intent}
      BY <1>0, <1>3, <1>4, <2>2 DEF Receive, SettlementInv, DeliveryTypeOK
    <2>3. ASSUME NEW g \in Handlers, Match(g)
          PROVE  /\ delivery'[h].event \in sent'
                 /\ delivery'[h].request \in {None, delivery'[h].event.intent}
      <3>1. CASE g # h
        <4>1. delivery'[h] = delivery[h]
          BY <1>0, <2>3, <3>1 DEF Match, DeliveryTypeOK
        <4> QED BY <1>3, <1>4, <4>1 DEF SettlementInv
      <3>2. CASE g = h
        <4>1. delivery[h] \in DeliveryStates /\ delivery[h].step = "match"
          BY <1>0, <2>3, <3>2 DEF Match, DeliveryTypeOK
        <4>2. delivery[h].event \in Events /\ delivery[h].event \in sent
          BY <4>1 DEF DeliveryStates, IdleDelivery, SettlementInv
        <4>3. delivery[h].event.intent \in Requests
          BY <4>2 DEF Events
        <4>4. \A r \in Requests : providerRef[r] = delivery[h].event.intent =>
                  r = delivery[h].event.intent
          BY <4>3, StoreAssumption DEF SettlementInv
        <4>5. CASE \E r \in Requests :
                       /\ providerRef[r] = delivery[h].event.intent
                       /\ delivery' = [delivery EXCEPT ![h] =
                              [@ EXCEPT !.step = "record", !.request = r,
                                        !.loaded = status[r]]]
          BY <1>0, <1>3, <4>1, <4>2, <4>4, <4>5
             DEF DeliveryTypeOK, DeliveryStates, IdleDelivery
        <4>6. CASE delivery' = [delivery EXCEPT ![h] = [@ EXCEPT !.step = "record"]]
          BY <1>0, <1>3, <4>1, <4>2, <4>6
             DEF DeliveryTypeOK, DeliveryStates, IdleDelivery
        <4> QED BY <2>3, <3>2, <4>5, <4>6 DEF Match
      <3> QED BY <3>1, <3>2
    <2>4. ASSUME NEW g \in Handlers, delivery' = [delivery EXCEPT ![g] = IdleDelivery]
          PROVE  /\ delivery'[h].event \in sent'
                 /\ delivery'[h].request \in {None, delivery'[h].event.intent}
      BY <1>0, <1>3, <1>4, <2>4 DEF IdleDelivery, SettlementInv, DeliveryTypeOK
    <2> QED BY <2>1, <2>2, <2>3, <2>4
            DEF Next, vars, DeliveryNext, DeliveryStep, Record, RecordDuplicate, Drop
  <1>5. SettledOnce'
    <2>0. SettledOnce
      BY DEF SettlementInv
    <2>1. CASE UNCHANGED storeVars
      BY <1>1, <2>0, <2>1, SettledKept DEF storeVars, ledgerVars
    <2>2. CASE \E s \in Sessions : SaveApproval(s)
      BY <1>0, <1>1, <2>0, <2>2, SaveApprovalEffect, SettledKept
    <2>3. CASE DecisionNext /\ \A s \in Sessions : ~SaveApproval(s)
      BY <1>0, <1>1, <2>0, <2>3, DecisionEffect, SettledKept
    <2>4. CASE WorkerNext
      BY <1>0, <1>1, <2>0, <2>4, WorkerEffect, SettledKept
    <2>5. CASE \E h \in Handlers : Record(h)
      BY <2>5, RecordSettles
    <2> QED BY <2>1, <2>2, <2>3, <2>4, <2>5
            DEF Next, vars, DeliveryNext, DeliveryStep, Receive, Match, RecordDuplicate,
                Drop
  <1> QED BY <1>2, <1>3, <1>4, <1>5 DEF SettlementInv

(***************************************************************************)
(* However deliveries are duplicated, delayed, reordered or dropped, a     *)
(* request is settled in the ledger at most once, and only for a payment   *)
(* Stripe accepted and reported.                                           *)
(***************************************************************************)
THEOREM SettlesOnce == Spec => []SettledOnce
  <1>1. SettlementInv => SettledOnce
    BY DEF SettlementInv
  <1> QED BY <1>1, SettlementInit, SettlementStep, TypeCorrect, PTL DEF Spec

-----------------------------------------------------------------------------
(* The sums of the store are the abstract ledger.                          *)

(* The step posts for a request.                                           *)
Carried ==
    \E r \in Requests, kind \in Postings, dr, cr \in Accounts : AddPosting(r, kind, dr, cr)

(* A reversal posts, or leaves the ledger as it was.                       *)
LEMMA ReversalIsCarried ==
    ASSUME NEW r \in Requests, ReverseApproval(r)
    PROVE  Carried \/ UNCHANGED ledgerVars
  BY DEF ReverseApproval, Carried, Accounts, Postings

(* A step posts for a request, funds the platform, or leaves the ledger as *)
(* it was.                                                                 *)
LEMMA LedgerStep ==
    ASSUME TypeOK, [Next]_vars
    PROVE  \/ Carried
           \/ \E amount \in FundAmounts : Fund(amount)
           \/ UNCHANGED <<debits, credits>>
  <1>0. StoreTypeOK /\ DecisionTypeOK /\ WorkerTypeOK /\ DeliveryTypeOK
    BY DEF TypeOK
  <1> DEFINE Goal == \/ Carried
                     \/ \E amount \in FundAmounts : Fund(amount)
                     \/ UNCHANGED <<debits, credits>>
  <1>1. ASSUME NEW s \in Sessions, SaveApproval(s) PROVE Goal
    <2>1. decision[s].request \in Requests
      BY <1>0, <1>1, SaveApprovalEffect
    <2>2. CASE AddPosting(decision[s].request, "approval", "EXPENSE", "PAYABLE")
      BY <2>1, <2>2 DEF Carried, Accounts, Postings
    <2>3. CASE UNCHANGED ledgerVars
      BY <2>3 DEF ledgerVars
    <2> QED BY <1>1, <2>2, <2>3 DEF SaveApproval
  <1>2. ASSUME NEW amount \in FundAmounts, Fund(amount) PROVE Goal
    BY <1>2
  <1>3. ASSUME NEW w \in Workers, SaveFailure(w) PROVE Goal
    BY <1>0, <1>3, BusyWorker, ReversalIsCarried DEF SaveFailure, ledgerVars
  <1>4. ASSUME NEW h \in Handlers, Record(h) PROVE Goal
    <2> DEFINE r == delivery[h].request
               loaded == delivery[h].loaded
    <2>1. r \in Requests \cup {None}
      BY <1>0, <1>4 DEF Record, DeliveryTypeOK, DeliveryStates, IdleDelivery
    <2>2. CASE r # None /\ Settle(r, loaded)
      <3>1. \E dr, cr \in Accounts : AddPosting(r, "settlement", dr, cr)
        BY <2>2 DEF Settle, Accounts
      <3> QED BY <2>1, <2>2, <3>1 DEF Carried, Postings
    <2>3. CASE r # None /\ Fail(r, loaded)
      BY <2>1, <2>3, ReversalIsCarried DEF Fail, ledgerVars
    <2>4. CASE UNCHANGED ledgerVars
      BY <2>4 DEF ledgerVars
    <2> QED BY <1>4, <2>2, <2>3, <2>4 DEF Record, Apply
  <1>5. CASE UNCHANGED ledgerVars
    BY <1>5 DEF ledgerVars
  <1>6. CASE UNCHANGED storeVars
    BY <1>5, <1>6 DEF storeVars
  <1>7. CASE DecisionNext
    BY <1>1, <1>2, <1>5, <1>6, <1>7
       DEF DecisionNext, LoadForApproval, LoadForRejection, ReadCashDebits,
           ReadCashCredits, ReadPayableDebits, ReadPayableCredits, ReadSum,
           SaveRejection, Suspend
  <1>8. CASE WorkerNext
    BY <1>3, <1>5, <1>6, <1>8
       DEF WorkerNext, WorkerStep, Poll, Claim, PassOver, Load, CallAccepted,
           CallRejected, SaveReference, Interrupt
  <1>9. CASE DeliveryNext
    BY <1>4, <1>6, <1>9
       DEF DeliveryNext, DeliveryStep, Receive, Match, RecordDuplicate, Drop
  <1> QED BY <1>6, <1>7, <1>8, <1>9 DEF Next, vars

(* A posting is two entries of one positive amount.                        *)
Entry == \E dr, cr \in Accounts, amount \in Nat \ {0} : PostEntries(dr, cr, amount)

(* So is whatever changes the ledger.                                      *)
LEMMA StepIsEntry ==
    ASSUME TypeOK, [Next]_vars
    PROVE  Entry \/ UNCHANGED <<debits, credits>>
  <1>1. Carried => Entry
    BY StoreAssumption DEF Carried, AddPosting, Entry
  <1>2. ASSUME NEW amount \in FundAmounts, Fund(amount) PROVE Entry
    BY <1>2, DecisionsAssumption DEF Fund, Entry, Accounts
  <1> QED BY <1>1, <1>2, LedgerStep

(* There are five accounts.                                                *)
LEMMA FiniteAccounts == IsFiniteSet(Accounts)
  <1> DEFINE two == {"CASH"} \cup {"PAYABLE"}
             three == two \cup {"EXPENSE"}
             four == three \cup {"REVENUE"}
  <1>1. Accounts = four \cup {"OPENING"}
    BY DEF Accounts
  <1>2. IsFiniteSet({"CASH"})
    BY FS_Singleton
  <1>3. IsFiniteSet(two)
    BY <1>2, FS_AddElement
  <1> HIDE DEF two
  <1>4. IsFiniteSet(three)
    BY <1>3, FS_AddElement
  <1> HIDE DEF three
  <1>5. IsFiniteSet(four)
    BY <1>4, FS_AddElement
  <1> HIDE DEF four
  <1>6. IsFiniteSet(four \cup {"OPENING"})
    BY <1>5, FS_AddElement
  <1> QED BY <1>1, <1>6

(* An entry adds its amount to the sum of one side.                        *)
LEMMA EntryTotals ==
    ASSUME NEW sums, NEW new, NEW a \in Accounts, NEW amount \in Nat \ {0},
           \A b \in Accounts : sums[b] \in Nat /\ new[b] \in Nat,
           \A b \in Accounts \ {a} : sums[b] = new[b],
           new[a] = sums[a] + amount
    PROVE  /\ Ledger!Total(new, Accounts) - Ledger!Total(sums, Accounts) = amount
           /\ \A b \in Accounts : new[b] >= sums[b]
  <1>1. \A b \in Accounts : sums[b] \in Int /\ new[b] \in Int
    OBVIOUS
  <1>2. SumOver(new, Accounts) = SumOver(sums, Accounts) + new[a] - sums[a]
    BY <1>1, FiniteAccounts, SumChange
  <1>3. SumOver(sums, Accounts) \in Int
    BY <1>1, FiniteAccounts, SumInt
  <1>4. \A f : Ledger!Total(f, Accounts) = SumOver(f, Accounts)
    BY DEF Ledger!Total, Ledger!MapThenSumSet, Ledger!MapThenFoldSet, SumOver,
           MapThenSumSet, MapThenFoldSet
  <1>5. \A b \in Accounts : new[b] >= sums[b]
    BY <1>1
  <1>6. SumOver(new, Accounts) - SumOver(sums, Accounts) = amount
    BY <1>1, <1>2, <1>3
  <1> QED BY <1>4, <1>5, <1>6

(* A posting adds as much to the debits as to the credits.                 *)
LEMMA EntryPosts ==
    ASSUME StoreTypeOK, Entry
    PROVE  Ledger!Post(Accounts)
  <1>1. PICK dr \in Accounts, cr \in Accounts, amount \in Nat \ {0} :
            PostEntries(dr, cr, amount)
    BY DEF Entry
  <1>2. /\ Ledger!Total(debits', Accounts) - Ledger!Total(debits, Accounts) = amount
        /\ \A a \in Accounts : debits'[a] >= debits[a]
    <2>1. /\ \A a \in Accounts : debits[a] \in Nat /\ debits'[a] \in Nat
          /\ \A a \in Accounts \ {dr} : debits[a] = debits'[a]
          /\ debits'[dr] = debits[dr] + amount
      BY <1>1 DEF PostEntries, StoreTypeOK
    <2> QED BY <2>1, EntryTotals
  <1>3. /\ Ledger!Total(credits', Accounts) - Ledger!Total(credits, Accounts) = amount
        /\ \A a \in Accounts : credits'[a] >= credits[a]
    <2>1. /\ \A a \in Accounts : credits[a] \in Nat /\ credits'[a] \in Nat
          /\ \A a \in Accounts \ {cr} : credits[a] = credits'[a]
          /\ credits'[cr] = credits[cr] + amount
      BY <1>1 DEF PostEntries, StoreTypeOK
    <2> QED BY <2>1, EntryTotals
  <1> QED BY <1>2, <1>3 DEF Ledger!Post, Ledger!Accounts

(***************************************************************************)
(* The balances the core keeps are an abstract ledger: no save of any      *)
(* handler changes one side without the other, or takes back what was      *)
(* posted.                                                                 *)
(***************************************************************************)
THEOREM KeepsTotals == Spec => ImplementsTotals
  <1>1. Init => Ledger!Init
    BY DEF Init, StoreInit, Ledger!Init, Ledger!Accounts
  <1>2. TypeOK /\ [Next]_vars => [Ledger!Next]_<<debits, credits>>
    BY StepIsEntry, EntryPosts DEF TypeOK, Ledger!Next
  <1> QED BY <1>1, <1>2, TypeCorrect, PTL DEF Spec, ImplementsTotals, Ledger!Spec

=============================================================================
