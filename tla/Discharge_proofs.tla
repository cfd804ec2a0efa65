-------------------------- MODULE Discharge_proofs --------------------------
(***************************************************************************)
(* Theorem: however decisions race and payments fail, the ledger never     *)
(* releases more of a disbursement than approvals raised.                  *)
(***************************************************************************)
EXTENDS PaymentFlow_proofs, FiniteSetTheorems

HoldersOf(r) == {w \in Workers : Holds(w, r)}

EndRecorded(r) ==
    \E type \in TerminalTypes : [intent |-> r, type |-> type] \in processedEvents

Claimable(r) == IF status[r] = "Approved" THEN 1 ELSE 0

Awaited(r) == IF providerRef[r] # None /\ ~EndRecorded(r) THEN 1 ELSE 0

(***************************************************************************)
(* What has been released of r, and whoever may release it yet: the row    *)
(* while it can be claimed, each worker that holds it, and the event that  *)
(* reports how its payment ended, once that event can be matched.          *)
(***************************************************************************)
Weight(r) ==
    posted[r]["settlement"] + posted[r]["reversal"]
        + Claimable(r) + Cardinality(HoldersOf(r)) + Awaited(r)

(* An event is recorded only if it was sent, a payment ends in one way     *)
(* only, and a handler matched only a request whose reference is saved.    *)
EndsOnce ==
    /\ processedEvents \subseteq sent
    /\ \A r \in Requests :
           \E type \in TerminalTypes : [intent |-> r, type |-> type] \notin sent
    /\ \A h \in Handlers :
           delivery[h].request # None => providerRef[delivery[h].request] # None

(***************************************************************************)
(* Why NeverOverdischarged holds: an approval is one right to release the  *)
(* obligation.  It passes from the row to the worker that claims it and    *)
(* from there to the event, and whoever releases the obligation uses it    *)
(* up; overwriting a status or stopping a worker can only lose it.         *)
(***************************************************************************)
DischargeInv ==
    /\ EndsOnce
    /\ \A r \in Requests : IsFiniteSet(HoldersOf(r))
    /\ \A r \in Disbursements : Weight(r) <= posted[r]["approval"]

(* Nobody holds anything at the start.                                     *)
LEMMA DischargeInit == Init => DischargeInv
  <1> SUFFICES ASSUME Init PROVE DischargeInv
    OBVIOUS
  <1>1. EndsOnce
    BY DEF Init, EndsOnce, ProviderInit, StoreInit, DeliveryInit, IdleDelivery,
           TerminalTypes
  <1>2. \A r : HoldersOf(r) = {}
    BY DEF Init, WorkerInit, IdleWorker, HoldersOf, Holds
  <1>3. \A r \in Requests : IsFiniteSet(HoldersOf(r)) /\ Cardinality(HoldersOf(r)) = 0
    BY <1>2, FS_EmptySet
  <1>4. \A r \in Disbursements : Weight(r) <= posted[r]["approval"]
    <2> TAKE r \in Disbursements
    <2>1. /\ posted[r]["settlement"] = 0 /\ posted[r]["reversal"] = 0
          /\ posted[r]["approval"] = 0
          /\ Claimable(r) = 0 /\ Awaited(r) = 0 /\ Cardinality(HoldersOf(r)) = 0
      BY <1>3, StoreAssumption DEF Init, StoreInit, Postings, Claimable, Awaited
    <2> QED BY <2>1 DEF Weight
  <1> QED BY <1>1, <1>3, <1>4 DEF DischargeInv

-----------------------------------------------------------------------------
(* Workers.                                                                *)

(* The weight is a sum of natural numbers.                                 *)
LEMMA WeightType ==
    ASSUME StoreTypeOK, NEW r \in Requests, IsFiniteSet(HoldersOf(r))
    PROVE  /\ posted[r]["settlement"] \in Nat /\ posted[r]["reversal"] \in Nat
           /\ posted[r]["approval"] \in Nat
           /\ Claimable(r) \in 0..1 /\ Awaited(r) \in 0..1
           /\ Cardinality(HoldersOf(r)) \in Nat
  BY FS_CardinalityType DEF StoreTypeOK, Postings, Claimable, Awaited

(* A worker's step changes who holds what by that worker at most.          *)
LEMMA HoldersMove ==
    ASSUME WorkerTypeOK, NEW w \in Workers, NEW d, worker' = [worker EXCEPT ![w] = d],
           NEW r, IsFiniteSet(HoldersOf(r))
    PROVE  /\ IsFiniteSet(HoldersOf(r))'
           /\ Holds(w, r)' <=> d.step \notin {"poll", "claim"} /\ d.request = r
           /\ Cardinality(HoldersOf(r))' = Cardinality(HoldersOf(r))
                  + (IF Holds(w, r)' THEN 1 ELSE 0) - (IF Holds(w, r) THEN 1 ELSE 0)
  <1>1. worker'[w] = d /\ \A v \in Workers \ {w} : worker'[v] = worker[v]
    BY DEF WorkerTypeOK
  <1>2. Holds(w, r)' <=> d.step \notin {"poll", "claim"} /\ d.request = r
    BY <1>1 DEF Holds
  <1>3. \A v \in Workers \ {w} : Holds(v, r)' <=> Holds(v, r)
    BY <1>1 DEF Holds
  <1>4. HoldersOf(r)' = IF Holds(w, r)' THEN HoldersOf(r) \cup {w}
                                        ELSE HoldersOf(r) \ {w}
    BY <1>3 DEF HoldersOf
  <1>5. w \in HoldersOf(r) <=> Holds(w, r)
    BY DEF HoldersOf
  <1>6. Cardinality(HoldersOf(r)) \in Nat
    BY FS_CardinalityType
  <1>7. CASE Holds(w, r)'
    <2>1. HoldersOf(r)' = HoldersOf(r) \cup {w}
      BY <1>4, <1>7
    <2>2. /\ IsFiniteSet(HoldersOf(r) \cup {w})
          /\ Cardinality(HoldersOf(r) \cup {w}) =
                 IF w \in HoldersOf(r) THEN Cardinality(HoldersOf(r))
                                       ELSE Cardinality(HoldersOf(r)) + 1
      BY FS_AddElement
    <2> QED BY <1>2, <1>5, <1>6, <1>7, <2>1, <2>2
  <1>8. CASE ~Holds(w, r)'
    <2>1. HoldersOf(r)' = HoldersOf(r) \ {w}
      BY <1>4, <1>8
    <2>2. /\ IsFiniteSet(HoldersOf(r) \ {w})
          /\ Cardinality(HoldersOf(r) \ {w}) =
                 IF w \in HoldersOf(r) THEN Cardinality(HoldersOf(r)) - 1
                                       ELSE Cardinality(HoldersOf(r))
      BY FS_RemoveElement
    <2> QED BY <1>2, <1>5, <1>6, <1>8, <2>1, <2>2
  <1> QED BY <1>7, <1>8

(* The weight of r does not grow.                                          *)
Falls(r) ==
    /\ IsFiniteSet(HoldersOf(r))'
    /\ posted'[r]["approval"] = posted[r]["approval"]
    /\ Weight(r)' <= Weight(r)

(* A step that posts nothing and saves no status or reference, and after   *)
(* which w holds no more than before.                                      *)
LEMMA OnlyHolds ==
    ASSUME StoreTypeOK, WorkerTypeOK, UNCHANGED storeVars,
           NEW w \in Workers, NEW d, worker' = [worker EXCEPT ![w] = d],
           d.step \notin {"poll", "claim"} =>
               worker[w].step \notin {"poll", "claim"} /\ d.request = worker[w].request,
           NEW r \in Requests, IsFiniteSet(HoldersOf(r))
    PROVE  Falls(r)
  <1>1. UNCHANGED <<status, providerRef, processedEvents, posted>>
    BY DEF storeVars, rowVars, ledgerVars
  <1>2. Claimable(r)' = Claimable(r) /\ Awaited(r)' = Awaited(r)
    BY <1>1 DEF Claimable, Awaited, EndRecorded
  <1>3. Holds(w, r)' => Holds(w, r)
    BY HoldersMove DEF Holds
  <1>4. /\ IsFiniteSet(HoldersOf(r))'
        /\ Cardinality(HoldersOf(r))' = Cardinality(HoldersOf(r))
               + (IF Holds(w, r)' THEN 1 ELSE 0) - (IF Holds(w, r) THEN 1 ELSE 0)
    BY HoldersMove
  <1>5. Cardinality(HoldersOf(r)) \in Nat
    BY FS_CardinalityType
  <1>6. /\ Cardinality(HoldersOf(r))' <= Cardinality(HoldersOf(r))
        /\ Cardinality(HoldersOf(r))' \in Int
    BY <1>3, <1>4, <1>5
  <1> QED BY <1>1, <1>2, <1>4, <1>6, WeightType DEF Falls, Weight

(* The claim hands the right from the row to the worker.                   *)
LEMMA ClaimFalls ==
    ASSUME StoreTypeOK, WorkerTypeOK, NEW w \in Workers, NEW q \in Requests, Claim(w, q),
           NEW r \in Requests, IsFiniteSet(HoldersOf(r))
    PROVE  Falls(r)
  <1> DEFINE d == [step |-> "load", batch |-> worker[w].batch \ {q}, request |-> q,
                   loaded |-> None]
  <1>1. /\ worker' = [worker EXCEPT ![w] = d]
        /\ ~Holds(w, r)
        /\ UNCHANGED <<providerRef, processedEvents, posted>>
    BY DEF Claim, Holds, ledgerVars
  <1>2. /\ IsFiniteSet(HoldersOf(r))'
        /\ Cardinality(HoldersOf(r))' =
               Cardinality(HoldersOf(r)) + (IF r = q THEN 1 ELSE 0)
    <2>1. Cardinality(HoldersOf(r)) \in Nat
      BY FS_CardinalityType
    <2>2. d.step \notin {"poll", "claim"} /\ d.request = q
      OBVIOUS
    <2> HIDE DEF d
    <2>3. /\ IsFiniteSet(HoldersOf(r))'
          /\ Cardinality(HoldersOf(r))' = Cardinality(HoldersOf(r))
                  + (IF Holds(w, r)' THEN 1 ELSE 0) - (IF Holds(w, r) THEN 1 ELSE 0)
      BY <1>1, HoldersMove
    <2>4. Holds(w, r)' <=> r = q
      BY <1>1, <2>2, HoldersMove
    <2> QED BY <1>1, <2>1, <2>3, <2>4
  <1>3. Claimable(r)' = IF r = q THEN Claimable(r) - 1 ELSE Claimable(r)
    BY DEF Claim, Claimable, StoreTypeOK
  <1>4. Awaited(r)' = Awaited(r)
    BY <1>1 DEF Awaited, EndRecorded
  <1> QED BY <1>1, <1>2, <1>3, <1>4, WeightType DEF Falls, Weight

(* The worker that saves gives up what it holds: for the event to come, or *)
(* for the reversal it posts.                                              *)
LEMMA HolderSaves ==
    ASSUME WorkerTypeOK, NEW w \in Workers,
           worker' = [worker EXCEPT ![w] = NextInBatch(worker[w].batch)],
           worker[w].step \in {"saveReference", "saveFailure"},
           NEW r \in Requests, IsFiniteSet(HoldersOf(r))
    PROVE  /\ worker[w].request \in Requests
           /\ IsFiniteSet(HoldersOf(r))'
           /\ Cardinality(HoldersOf(r))' = Cardinality(HoldersOf(r))
                  - (IF r = worker[w].request THEN 1 ELSE 0)
  <1>1. worker[w].request \in Requests /\ NextInBatch(worker[w].batch).step \in {"poll", "claim"}
    BY BusyWorker, NextInBatchType
  <1>2. Holds(w, r) <=> r = worker[w].request
    BY DEF Holds
  <1> DEFINE d == NextInBatch(worker[w].batch)
  <1>3. d.step \in {"poll", "claim"} /\ worker' = [worker EXCEPT ![w] = d]
    BY <1>1
  <1> HIDE DEF d
  <1>4. Cardinality(HoldersOf(r)) \in Nat
    BY FS_CardinalityType
  <1>5. /\ IsFiniteSet(HoldersOf(r))'
        /\ ~Holds(w, r)'
        /\ Cardinality(HoldersOf(r))' = Cardinality(HoldersOf(r))
               + (IF Holds(w, r)' THEN 1 ELSE 0) - (IF Holds(w, r) THEN 1 ELSE 0)
    BY <1>3, HoldersMove
  <1> QED BY <1>1, <1>2, <1>4, <1>5

(* No step of a worker raises the weight of a request.                     *)
LEMMA WorkerFalls ==
    ASSUME StoreTypeOK, WorkerTypeOK, WorkerNext,
           NEW r \in Requests, IsFiniteSet(HoldersOf(r))
    PROVE  Falls(r)
  <1>1. ASSUME NEW w \in Workers, NEW batch \in SUBSET Requests, UNCHANGED storeVars,
               worker' = [worker EXCEPT ![w] = NextInBatch(batch)]
        PROVE  Falls(r)
    <2> DEFINE d == NextInBatch(batch)
    <2>1. d.step \in {"poll", "claim"} /\ worker' = [worker EXCEPT ![w] = d]
      BY <1>1, NextInBatchType
    <2> HIDE DEF d
    <2> QED BY <1>1, <2>1, OnlyHolds
  <1>2. ASSUME NEW w \in Workers, Poll(w) PROVE Falls(r)
    BY <1>1, <1>2 DEF Poll
  <1>3. ASSUME NEW w \in Workers, NEW q \in Requests, PassOver(w, q) PROVE Falls(r)
    <2>1. worker[w].batch \ {q} \in SUBSET Requests
      BY BusyWorker
    <2> QED BY <1>1, <1>3, <2>1 DEF PassOver
  <1>4. ASSUME NEW w \in Workers, Load(w) \/ CallAccepted(w) \/ CallRejected(w)
        PROVE  Falls(r)
    <2>1. PICK d : /\ worker' = [worker EXCEPT ![w] = d]
                   /\ d.request = worker[w].request
                   /\ worker[w].step \notin {"poll", "claim"}
      <3>1. worker[w] \in WorkerStates
        BY DEF WorkerTypeOK
      <3> QED BY <1>4, <3>1
              DEF Load, CallAccepted, CallRejected, WorkerTypeOK, WorkerStates, IdleWorker
    <2>2. UNCHANGED storeVars
      BY <1>4 DEF Load, CallAccepted, CallRejected
    <2> QED BY <2>1, <2>2, OnlyHolds
  <1>5. ASSUME NEW w \in Workers, Interrupt(w) PROVE Falls(r)
    <2> DEFINE d == IdleWorker
    <2>1. d.step \in {"poll", "claim"} /\ worker' = [worker EXCEPT ![w] = d]
      BY <1>5 DEF Interrupt, IdleWorker
    <2>2. UNCHANGED storeVars
      BY <1>5 DEF Interrupt
    <2> HIDE DEF d
    <2> QED BY <2>1, <2>2, OnlyHolds
  <1>6. ASSUME NEW w \in Workers, SaveReference(w) PROVE Falls(r)
    <2>1. /\ worker[w].request \in Requests
          /\ IsFiniteSet(HoldersOf(r))'
          /\ Cardinality(HoldersOf(r))' = Cardinality(HoldersOf(r))
                  - (IF r = worker[w].request THEN 1 ELSE 0)
      BY <1>6, HolderSaves DEF SaveReference
    <2>2. UNCHANGED <<status, processedEvents, posted>>
      BY <1>6 DEF SaveReference, ledgerVars
    <2>3. Claimable(r)' = Claimable(r)
      BY <2>2 DEF Claimable
    <2>4. Awaited(r)' <= Awaited(r) + (IF r = worker[w].request THEN 1 ELSE 0)
          /\ Awaited(r)' \in 0..1
      BY <1>6, <2>1, <2>2 DEF SaveReference, Awaited, EndRecorded, StoreTypeOK
    <2> QED BY <2>1, <2>2, <2>3, <2>4, WeightType DEF Falls, Weight
  <1>7. ASSUME NEW w \in Workers, SaveFailure(w) PROVE Falls(r)
    <2>1. /\ worker[w].request \in Requests
          /\ IsFiniteSet(HoldersOf(r))'
          /\ Cardinality(HoldersOf(r))' = Cardinality(HoldersOf(r))
                  - (IF r = worker[w].request THEN 1 ELSE 0)
      BY <1>7, HolderSaves DEF SaveFailure
    <2>2. UNCHANGED <<processedEvents, providerRef>>
      BY <1>7 DEF SaveFailure
    <2>3. Awaited(r)' = Awaited(r)
      BY <2>2 DEF Awaited, EndRecorded
    <2>4. Claimable(r)' <= Claimable(r) /\ Claimable(r)' \in 0..1
      BY <1>7, <2>1, SaveStatusEffect DEF SaveFailure, Claimable, StoreTypeOK, Statuses
    <2>5. /\ posted'[r]["approval"] = posted[r]["approval"]
          /\ posted'[r]["settlement"] = posted[r]["settlement"]
          /\ posted'[r]["reversal"] \in
                 {posted[r]["reversal"],
                  posted[r]["reversal"] + (IF r = worker[w].request THEN 1 ELSE 0)}
      BY <1>7, <2>1, ReverseApprovalEffect DEF SaveFailure
    <2> QED BY <2>1, <2>3, <2>4, <2>5, WeightType DEF Falls, Weight
  <1> QED BY <1>2, <1>3, <1>4, <1>5, <1>6, <1>7, ClaimFalls DEF WorkerNext, WorkerStep

-----------------------------------------------------------------------------
(* Decisions, webhook handlers and Stripe.                                 *)

(* A step that leaves the workers alone leaves what they hold.             *)
LEMMA HoldersStay ==
    ASSUME UNCHANGED worker, NEW r, IsFiniteSet(HoldersOf(r))
    PROVE  /\ IsFiniteSet(HoldersOf(r))'
           /\ Cardinality(HoldersOf(r))' = Cardinality(HoldersOf(r))
  <1>1. HoldersOf(r)' = HoldersOf(r)
    BY DEF HoldersOf, Holds
  <1> QED BY <1>1

(* An approval raises the weight by the right it adds; no other decision   *)
(* raises it.                                                              *)
LEMMA DecisionRaises ==
    ASSUME StoreTypeOK, DecisionTypeOK, DecisionNext, UNCHANGED worker,
           NEW r \in Disbursements, IsFiniteSet(HoldersOf(r))
    PROVE  Weight(r)' - posted'[r]["approval"] <= Weight(r) - posted[r]["approval"]
  <1>0. r \in Requests
    BY StoreAssumption
  <1>1. Cardinality(HoldersOf(r))' = Cardinality(HoldersOf(r))
    BY HoldersStay
  <1>2. ASSUME NEW s \in Sessions, SaveApproval(s)
        PROVE  Weight(r)' - posted'[r]["approval"] <= Weight(r) - posted[r]["approval"]
    <2> DEFINE here == r = decision[s].request
    <2>1. /\ UNCHANGED <<providerRef, processedEvents>>
          /\ posted'[r]["settlement"] = posted[r]["settlement"]
          /\ posted'[r]["reversal"] = posted[r]["reversal"]
          /\ posted'[r]["approval"] = posted[r]["approval"] + IF here THEN 1 ELSE 0
          /\ ~here => status'[r] = status[r]
      BY <1>0, <1>2, WeightType, SaveApprovalEffect
    <2>2. Awaited(r)' = Awaited(r)
      BY <2>1 DEF Awaited, EndRecorded
    <2>3. Claimable(r)' \in 0..1 /\ (~here => Claimable(r)' = Claimable(r))
      BY <2>1 DEF Claimable
    <2> HIDE DEF here
    <2> QED BY <1>0, <1>1, <2>1, <2>2, <2>3, WeightType DEF Weight
  <1>3. CASE \A s \in Sessions : ~SaveApproval(s)
    <2>1. /\ UNCHANGED <<providerRef, processedEvents, posted>>
          /\ status'[r] \in {status[r], "Rejected"}
      BY <1>0, <1>3, DecisionEffect
    <2>2. Awaited(r)' = Awaited(r)
      BY <2>1 DEF Awaited, EndRecorded
    <2>3. Claimable(r)' <= Claimable(r) /\ Claimable(r)' \in 0..1
      BY <2>1 DEF Claimable
    <2> QED BY <1>0, <1>1, <2>1, <2>2, <2>3, WeightType DEF Weight
  <1> QED BY <1>2, <1>3

(* What a committed event adds to the releases of a disbursement.          *)
LEMMA RecordReleases ==
    ASSUME StoreTypeOK, DeliveryTypeOK, NEW h \in Handlers, Record(h), NEW r \in Requests
    PROVE  LET ends == delivery[h].request = r /\ delivery[h].event.type \in TerminalTypes
           IN  /\ posted'[r]["settlement"] \in Nat /\ posted'[r]["reversal"] \in Nat
               /\ posted'[r]["settlement"] + posted'[r]["reversal"] <=
                      posted[r]["settlement"] + posted[r]["reversal"]
                          + IF ends THEN 1 ELSE 0
  <1> DEFINE d == delivery[h]
             ends == d.request = r /\ d.event.type \in TerminalTypes
  <1>0. /\ d.request \in Requests \cup {None}
        /\ posted[r]["settlement"] \in Nat /\ posted[r]["reversal"] \in Nat
    BY DEF Record, DeliveryTypeOK, DeliveryStates, IdleDelivery, StoreTypeOK, Postings
  <1>1. Apply(d.request, d.loaded, d.event.type)
    BY DEF Record
  <1>2. CASE d.request # None /\ d.event.type = "succeeded" /\ Settle(d.request, d.loaded)
    <2>1. PICK dr, cr : AddPosting(d.request, "settlement", dr, cr)
      BY <1>2 DEF Settle
    <2>2. /\ posted'[r]["settlement"] =
                 posted[r]["settlement"] + IF r = d.request THEN 1 ELSE 0
          /\ posted'[r]["reversal"] = posted[r]["reversal"]
      BY <1>0, <1>2, <2>1, AddPostingEffect DEF Postings
    <2> QED BY <1>0, <1>2, <2>2 DEF TerminalTypes
  <1>3. CASE d.request # None /\ d.event.type = "payment_failed" /\ Fail(d.request, d.loaded)
    <2>1. /\ posted'[r]["settlement"] = posted[r]["settlement"]
          /\ posted'[r]["reversal"] \in
                 {posted[r]["reversal"],
                  posted[r]["reversal"] + IF r = d.request THEN 1 ELSE 0}
      BY <1>0, <1>3, ReverseApprovalEffect DEF Fail
    <2> QED BY <1>0, <1>3, <2>1 DEF TerminalTypes
  <1>4. CASE UNCHANGED <<status, ledgerVars>>
    BY <1>0, <1>4 DEF ledgerVars
  <1> QED BY <1>1, <1>2, <1>3, <1>4 DEF Apply

(* The event that ends a payment is the first to end it, and finds the     *)
(* request by its reference.                                               *)
LEMMA EndIsFirst ==
    ASSUME TypeOK, SettlementInv, EndsOnce, NEW h \in Handlers, Record(h),
           NEW r \in Requests, delivery[h].request = r,
           delivery[h].event.type \in TerminalTypes
    PROVE  providerRef[r] # None /\ ~EndRecorded(r) /\ EndRecorded(r)'
  <1> DEFINE d == delivery[h]
  <1>1. /\ d.step # "idle" /\ d.event \in Events
        /\ processedEvents' = processedEvents \cup {d.event}
        /\ d.event \notin processedEvents
    BY DEF TypeOK, Record, DeliveryTypeOK, DeliveryStates, IdleDelivery
  <1>2. d.event = [intent |-> r, type |-> d.event.type] /\ d.event \in sent
    BY <1>1, StoreAssumption DEF SettlementInv, Events
  <1>3. providerRef[r] # None
    BY StoreAssumption DEF EndsOnce
  <1>4. ~EndRecorded(r)
    <2> SUFFICES ASSUME NEW type \in TerminalTypes,
                        [intent |-> r, type |-> type] \in processedEvents
                 PROVE  FALSE
      BY DEF EndRecorded
    <2>1. [intent |-> r, type |-> type] \in sent
      BY DEF EndsOnce
    <2>2. type # d.event.type
      BY <1>1, <1>2
    <2>3. \A t \in TerminalTypes : [intent |-> r, type |-> t] \in sent
      BY <1>2, <2>1, <2>2 DEF TerminalTypes
    <2> QED BY <2>3 DEF EndsOnce
  <1>5. EndRecorded(r)'
    BY <1>1, <1>2 DEF EndRecorded
  <1> QED BY <1>3, <1>4, <1>5

(* The event that ends a payment uses up the right that waits for it.      *)
LEMMA RecordFalls ==
    ASSUME TypeOK, SettlementInv, EndsOnce, NEW h \in Handlers, Record(h), UNCHANGED worker,
           NEW r \in Requests, IsFiniteSet(HoldersOf(r))
    PROVE  Weight(r)' <= Weight(r)
  <1> DEFINE d == delivery[h]
             ends == d.request = r /\ d.event.type \in TerminalTypes
  <1>0. StoreTypeOK /\ DeliveryTypeOK
    BY DEF TypeOK
  <1>1. /\ Cardinality(HoldersOf(r))' = Cardinality(HoldersOf(r))
        /\ UNCHANGED providerRef /\ processedEvents' = processedEvents \cup {d.event}
    BY HoldersStay DEF Record
  <1>2. status'[r] \in {status[r], "Completed", "Failed"}
    BY <1>0, RecordEffect
  <1>3. Claimable(r)' <= Claimable(r) /\ Claimable(r)' \in 0..1
    BY <1>2 DEF Claimable
  <1>4. Awaited(r)' \in 0..1 /\ Awaited(r)' <= Awaited(r)
    BY <1>1 DEF Awaited, EndRecorded
  <1>5. ASSUME ends PROVE Awaited(r) = 1 /\ Awaited(r)' = 0
    BY <1>5, EndIsFirst DEF Awaited
  <1>6. /\ posted'[r]["settlement"] \in Nat /\ posted'[r]["reversal"] \in Nat
        /\ posted'[r]["settlement"] + posted'[r]["reversal"] <=
               posted[r]["settlement"] + posted[r]["reversal"] + IF ends THEN 1 ELSE 0
    BY <1>0, RecordReleases
  <1> HIDE DEF ends
  <1>7. posted'[r]["settlement"] + posted'[r]["reversal"] + Awaited(r)' <=
            posted[r]["settlement"] + posted[r]["reversal"] + Awaited(r)
    BY <1>0, <1>4, <1>5, <1>6, WeightType
  <1> QED BY <1>0, <1>1, <1>3, <1>4, <1>6, <1>7, WeightType DEF Weight

-----------------------------------------------------------------------------
(* The invariant.                                                          *)

(* Once a reference is saved it stays saved.                               *)
LEMMA ReferenceStays ==
    ASSUME TypeOK, [Next]_vars, NEW r \in Requests, providerRef[r] # None
    PROVE  providerRef'[r] # None
  <1>0. StoreTypeOK /\ DecisionTypeOK /\ WorkerTypeOK /\ DeliveryTypeOK
    BY DEF TypeOK
  <1>1. ASSUME NEW w \in Workers, SaveReference(w) PROVE providerRef'[r] # None
    <2>1. worker[w].request \in Requests
      BY <1>0, <1>1, BusyWorker DEF SaveReference
    <2> QED BY <1>0, <1>1, <2>1, StoreAssumption DEF SaveReference, StoreTypeOK
  <1>2. CASE UNCHANGED providerRef
    BY <1>2
  <1>3. CASE DecisionNext
    BY <1>0, <1>2, <1>3, SaveApprovalEffect, DecisionEffect
  <1>4. CASE DeliveryNext
    BY <1>0, <1>2, <1>4, DeliveryEffect
  <1>5. CASE WorkerNext
    BY <1>1, <1>2, <1>5
       DEF WorkerNext, WorkerStep, Poll, Claim, PassOver, Load, CallAccepted,
           CallRejected, SaveFailure, Interrupt, storeVars, rowVars
  <1> QED BY <1>2, <1>3, <1>4, <1>5 DEF Next, vars, storeVars, rowVars

(* Each clause of EndsOnce survives every step.                            *)
LEMMA EndsOnceStep == TypeOK /\ SettlementInv /\ EndsOnce /\ [Next]_vars => EndsOnce'
  <1> SUFFICES ASSUME TypeOK, SettlementInv, EndsOnce, [Next]_vars PROVE EndsOnce'
    OBVIOUS
  <1>0. /\ StoreTypeOK /\ DecisionTypeOK /\ WorkerTypeOK /\ DeliveryTypeOK
        /\ ProviderTypeOK
    BY DEF TypeOK
  <1>1. \/ UNCHANGED sent
        \/ \E r \in Requests : Announce(r) \/ \E type \in TerminalTypes : Conclude(r, type)
    BY <1>0, IntentByCall
       DEF Next, vars, providerVars, DecisionNext, DeliveryNext, DeliveryStep, Receive, Match,
           Record, RecordDuplicate, Drop, WorkerNext, WorkerStep, Poll, Claim,
           PassOver, Load, CallAccepted, CallRejected, SaveReference, SaveFailure,
           Interrupt, Create, ProviderNext
  <1>2. sent \subseteq sent'
    BY <1>1 DEF Announce, Conclude
  <1>3. processedEvents' \subseteq sent'
    <2>1. CASE UNCHANGED processedEvents
      BY <1>2, <2>1 DEF EndsOnce
    <2>2. ASSUME NEW h \in Handlers, Record(h) PROVE processedEvents' \subseteq sent'
      BY <1>2, <2>2 DEF Record, EndsOnce, SettlementInv
    <2>3. CASE DecisionNext
      BY <1>0, <2>1, <2>3, SaveApprovalEffect, DecisionEffect
    <2>4. CASE WorkerNext
      BY <1>0, <2>1, <2>4, WorkerEffect
    <2> QED BY <2>1, <2>2, <2>3, <2>4
            DEF Next, vars, storeVars, DeliveryNext, DeliveryStep, Receive, Match,
                RecordDuplicate, Drop
  <1>4. ASSUME NEW r \in Requests
        PROVE  \E type \in TerminalTypes : [intent |-> r, type |-> type] \notin sent'
    <2>1. PICK type \in TerminalTypes : [intent |-> r, type |-> type] \notin sent
      BY DEF EndsOnce
    <2>2. CASE UNCHANGED sent
      BY <2>1, <2>2
    <2>3. ASSUME NEW q \in Requests, Announce(q)
          PROVE  [intent |-> r, type |-> type] \notin sent'
      BY <2>1, <2>3 DEF Announce, TerminalTypes
    <2>4. ASSUME NEW q \in Requests, NEW t \in TerminalTypes, Conclude(q, t)
          PROVE  \E u \in TerminalTypes : [intent |-> r, type |-> u] \notin sent'
      <3>1. CASE r # q
        BY <2>1, <2>4, <3>1 DEF Conclude
      <3>2. CASE r = q
        <4>1. PICK u \in TerminalTypes : u # t
          BY DEF TerminalTypes
        <4>2. [intent |-> r, type |-> u] \notin sent
          BY <2>4, <3>2 DEF Conclude
        <4> QED BY <2>4, <4>1, <4>2 DEF Conclude
      <3> QED BY <3>1, <3>2
    <2> QED BY <1>1, <2>1, <2>2, <2>3, <2>4
  <1>5. ASSUME NEW h \in Handlers, delivery'[h].request # None
        PROVE  providerRef'[delivery'[h].request] # None
    <2>1. CASE delivery'[h] = delivery[h]
      <3>1. delivery[h].request \in Requests
        BY <1>0, <1>5, <2>1 DEF DeliveryTypeOK, DeliveryStates, IdleDelivery
      <3> QED BY <1>5, <2>1, <3>1, ReferenceStays DEF EndsOnce
    <2>2. ASSUME NEW g \in Handlers, Match(g)
          PROVE  providerRef'[delivery'[h].request] # None
      <3>1. CASE delivery'[h] # delivery[h]
        <4>1. /\ g = h /\ delivery[h].step = "match" /\ delivery[h] \in DeliveryStates
              /\ UNCHANGED providerRef
          BY <1>0, <2>2, <3>1 DEF Match, DeliveryTypeOK, storeVars, rowVars
        <4>2. delivery[h].request = None /\ delivery[h].event.intent \in Requests
          BY <4>1 DEF DeliveryStates, IdleDelivery, Events
        <4>3. delivery[h] \in [step : {"match"}, event : Events, request : {None},
                               loaded : {None}]
          BY <4>1 DEF DeliveryStates, IdleDelivery
        <4>4. CASE delivery' = [delivery EXCEPT ![h] = [@ EXCEPT !.step = "record"]]
          BY <1>0, <1>5, <4>3, <4>4 DEF DeliveryTypeOK
        <4>5. ASSUME NEW r \in Requests, providerRef[r] = delivery[h].event.intent,
                     delivery' = [delivery EXCEPT ![h] =
                         [@ EXCEPT !.step = "record", !.request = r, !.loaded = status[r]]]
              PROVE  providerRef'[delivery'[h].request] # None
          <5>1. delivery'[h].request = r
            BY <1>0, <4>3, <4>5 DEF DeliveryTypeOK
          <5> QED BY <4>1, <4>2, <4>5, <5>1, StoreAssumption
        <4> QED BY <2>2, <4>1, <4>4, <4>5 DEF Match
      <3> QED BY <2>1, <3>1
    <2>3. ASSUME NEW g \in Handlers, NEW d, d.request = None,
                 delivery' = [delivery EXCEPT ![g] = d]
          PROVE  providerRef'[delivery'[h].request] # None
      BY <1>0, <1>5, <2>1, <2>3 DEF DeliveryTypeOK
    <2>4. ASSUME NEW g \in Handlers, NEW e \in Events, Receive(g, e)
          PROVE  providerRef'[delivery'[h].request] # None
      <3> DEFINE d == [step |-> "match", event |-> e, request |-> None, loaded |-> None]
      <3>1. d.request = None /\ delivery' = [delivery EXCEPT ![g] = d]
        BY <2>4 DEF Receive
      <3> HIDE DEF d
      <3> QED BY <2>3, <3>1
    <2>5. ASSUME NEW g \in Handlers, delivery' = [delivery EXCEPT ![g] = IdleDelivery]
          PROVE  providerRef'[delivery'[h].request] # None
      BY <2>3, <2>5 DEF IdleDelivery
    <2>6. CASE UNCHANGED delivery
      BY <2>1, <2>6
    <2> QED BY <2>2, <2>4, <2>5, <2>6
            DEF Next, vars, DeliveryNext, DeliveryStep, Record, RecordDuplicate, Drop
  <1> QED BY <1>3, <1>4, <1>5 DEF EndsOnce

(* No step raises the weight of a disbursement by more than it approves.   *)
LEMMA DischargeStep ==
    TypeOK /\ SettlementInv /\ DischargeInv /\ [Next]_vars => DischargeInv'
  <1> SUFFICES ASSUME TypeOK, SettlementInv, DischargeInv, [Next]_vars
               PROVE  DischargeInv'
    OBVIOUS
  <1>0. /\ StoreTypeOK /\ DecisionTypeOK /\ WorkerTypeOK /\ DeliveryTypeOK
        /\ StoreTypeOK' /\ EndsOnce
    BY NextType DEF TypeOK, DischargeInv
  <1>1. EndsOnce'
    BY <1>0, EndsOnceStep
  <1>2. ASSUME NEW r \in Requests PROVE IsFiniteSet(HoldersOf(r))'
    <2>1. IsFiniteSet(HoldersOf(r))
      BY DEF DischargeInv
    <2> QED BY <1>0, <2>1, WorkerFalls, HoldersStay DEF Next, vars, Falls
  <1>3. ASSUME NEW r \in Disbursements
        PROVE  (Weight(r) <= posted[r]["approval"])'
    <2>0. /\ r \in Requests /\ IsFiniteSet(HoldersOf(r)) /\ IsFiniteSet(HoldersOf(r))'
          /\ Weight(r) <= posted[r]["approval"]
      BY <1>2, StoreAssumption DEF DischargeInv
    <2>1. /\ Weight(r) \in Int /\ posted[r]["approval"] \in Int
          /\ Weight(r)' \in Int /\ posted'[r]["approval"] \in Int
      <3>1. Weight(r) \in Int /\ posted[r]["approval"] \in Int
        BY <1>0, <2>0, WeightType DEF Weight
      <3>2. /\ posted'[r]["settlement"] \in Nat /\ posted'[r]["reversal"] \in Nat
            /\ posted'[r]["approval"] \in Nat
        BY <1>0, <2>0 DEF StoreTypeOK, Postings
      <3>3. /\ Claimable(r)' \in 0..1 /\ Awaited(r)' \in 0..1
            /\ Cardinality(HoldersOf(r))' \in Nat
        BY <2>0, FS_CardinalityType DEF Claimable, Awaited
      <3> QED BY <3>1, <3>2, <3>3 DEF Weight
    <2>2. CASE DecisionNext /\ UNCHANGED worker
      <3>1. Weight(r)' - posted'[r]["approval"] <= Weight(r) - posted[r]["approval"]
        BY <1>0, <2>0, <2>2, DecisionRaises
      <3> QED BY <2>0, <2>1, <3>1
    <2>3. CASE WorkerNext
      BY <1>0, <2>0, <2>1, <2>3, WorkerFalls DEF Falls
    <2>4. ASSUME NEW h \in Handlers, Record(h), UNCHANGED worker
          PROVE  (Weight(r) <= posted[r]["approval"])'
      <3>1. Weight(r)' <= Weight(r)
        BY <1>0, <2>0, <2>4, RecordFalls
      <3>2. posted'[r]["approval"] = posted[r]["approval"]
        BY <1>0, <2>0, <2>4, RecordEffect
      <3> QED BY <2>0, <2>1, <3>1, <3>2
    <2>5. CASE UNCHANGED <<storeVars, worker>>
      BY <2>0, <2>5 DEF Weight, Claimable, Awaited, EndRecorded, HoldersOf, Holds,
                        storeVars, rowVars, ledgerVars
    <2> QED BY <2>2, <2>3, <2>4, <2>5
            DEF Next, vars, DeliveryNext, DeliveryStep, Receive, Match, RecordDuplicate,
                Drop
  <1> QED BY <1>1, <1>2, <1>3 DEF DischargeInv

(***************************************************************************)
(* Whatever races, is approved twice, is interrupted, delivered twice or   *)
(* reported as failed on both sides, the settlements and reversals of a    *)
(* disbursement are never more than its approvals.                         *)
(***************************************************************************)
THEOREM NeverReleasesMore == Spec => []NeverOverdischarged
  <1>1. TypeOK /\ DischargeInv => NeverOverdischarged
    <2> SUFFICES ASSUME TypeOK, DischargeInv, NEW r \in Disbursements
                 PROVE  posted[r]["settlement"] + posted[r]["reversal"] <=
                            posted[r]["approval"]
      BY DEF NeverOverdischarged
    <2>1. /\ r \in Requests /\ StoreTypeOK /\ IsFiniteSet(HoldersOf(r))
          /\ Weight(r) <= posted[r]["approval"]
      BY StoreAssumption DEF TypeOK, DischargeInv
    <2> QED BY <2>1, WeightType DEF Weight
  <1> QED BY <1>1, DischargeInit, DischargeStep, SettlementInit, SettlementStep,
             TypeCorrect, PTL DEF Spec

=============================================================================
