---------------------------- MODULE Serial_proofs ----------------------------
(***************************************************************************)
(* Theorems about PaymentFlow where no two decisions about one request are *)
(* in flight together: its records agree, no request is paid by two        *)
(* workers, and it implements the life cycle of RequestLifecycle.          *)
(***************************************************************************)
EXTENDS Discharge_proofs

Deciding(s, r) == decision[s].step # "idle" /\ decision[s].request = r

(* One decision at a time about each request; others may run beside it.    *)
DecisionsApart ==
    \A s, t \in Sessions, r \in Requests : Deciding(s, r) /\ Deciding(t, r) => s = t

(* What a session is deciding has not been decided.                        *)
SessionsPending ==
    \A s \in Sessions, r \in Requests : Deciding(s, r) => status[r] = "PendingApproval"

(* What a worker is paying is in Processing, was so when the worker loaded *)
(* it, and has no reference yet.                                           *)
WorkersProcessing ==
    \A w \in Workers, r \in Requests : Holds(w, r) =>
        /\ status[r] = "Processing"
        /\ providerRef[r] = None
        /\ worker[w].step # "load" => worker[w].loaded = "Processing"

(* A referenced request stays in Processing until its end is recorded.     *)
ReferencesOpen ==
    \A r \in Requests : providerRef[r] # None =>
        status[r] \in IF EndRecorded(r) THEN {"Processing", "Completed", "Failed"}
                                        ELSE {"Processing"}

(* A handler that may yet record an end has loaded the present status.     *)
HandlersFresh ==
    \A h \in Handlers :
        /\ delivery[h].request # None
        /\ delivery[h].event.type \in TerminalTypes
        /\ delivery[h].event \notin processedEvents
        => delivery[h].loaded = "Processing"

(***************************************************************************)
(* Why the properties of serial decisions hold: between its approval and   *)
(* its end a request passes from one actor to the next, each of which      *)
(* finds the status the one before it left, so that no save overwrites     *)
(* what it did not see.                                                    *)
(***************************************************************************)
SerialInv ==
    /\ SessionsPending
    /\ WorkersProcessing
    /\ NoDoubleProcessing
    /\ ReferencesOpen
    /\ HandlersFresh
    /\ OwedWhileOpen

-----------------------------------------------------------------------------
(* What the steps do to the life of a request.                             *)

(* r goes from one status to another, and the obligation of r moves by     *)
(* change.                                                                 *)
Moves(r, from, to, change) ==
    /\ status[r] = from
    /\ status' = [status EXCEPT ![r] = to]
    /\ \A q \in Disbursements :
           Outstanding(q)' = Outstanding(q) + IF q = r THEN change ELSE 0

(* What is open for a request is a difference of counts.                   *)
LEMMA OutstandingType ==
    ASSUME StoreTypeOK, NEW r \in Disbursements
    PROVE  Outstanding(r) \in Int
  BY StoreAssumption DEF StoreTypeOK, Outstanding, Postings

(* A reversal releases one obligation of its request.                      *)
LEMMA ReversalReleases ==
    ASSUME StoreTypeOK, NEW r \in Requests, ReverseApproval(r), NEW q \in Disbursements
    PROVE  Outstanding(q)' = Outstanding(q) + IF q = r THEN -1 ELSE 0
  <1>1. /\ q \in Requests
        /\ posted[q]["approval"] \in Int /\ posted[q]["settlement"] \in Int
        /\ posted[q]["reversal"] \in Int
    BY StoreAssumption DEF StoreTypeOK, Postings
  <1> QED BY <1>1, ReverseApprovalEffect DEF Outstanding

(* A decision is about a pending request, and is the only one about it.    *)
LEMMA DecisionMoves ==
    ASSUME StoreTypeOK, DecisionTypeOK, SessionsPending, DecisionNext
    PROVE  /\ UNCHANGED <<providerRef, processedEvents>>
           /\ \/ /\ UNCHANGED <<status, posted>>
                 /\ \A t \in Sessions, q \in Requests :
                        Deciding(t, q)' => Deciding(t, q) \/ status[q] = "PendingApproval"
              \/ \E s \in Sessions, r \in Requests :
                     /\ Deciding(s, r)
                     /\ decision' = [decision EXCEPT ![s] = IdleDecision]
                     /\ r = decision[s].request
                     /\ \/ SaveApproval(s) /\ Moves(r, "PendingApproval", "Approved", 1)
                        \/ SaveRejection(s) /\ Moves(r, "PendingApproval", "Rejected", 0)
  <1> DEFINE Calm == /\ UNCHANGED <<providerRef, processedEvents, status, posted>>
                     /\ \A t \in Sessions, q \in Requests :
                            Deciding(t, q)' => Deciding(t, q) \/ status[q] = "PendingApproval"
  <1>1. ASSUME NEW s \in Sessions, NEW u \in Approvers, NEW r \in Requests,
               LoadForApproval(s, u, r) \/ LoadForRejection(s, u, r)
        PROVE  Calm
    BY <1>1 DEF LoadForApproval, LoadForRejection, DecisionTypeOK, Deciding, storeVars,
                rowVars, ledgerVars
  <1>2. ASSUME NEW s \in Sessions, NEW here \in DecisionSteps \ {"idle"}, NEW next, NEW term,
               ReadSum(s, here, next, term)
        PROVE  Calm
    <2>1. \A t \in Sessions : decision[t] \in DecisionStates
      BY DEF DecisionTypeOK
    <2>2. \A t \in Sessions, q \in Requests : Deciding(t, q)' => Deciding(t, q)
      BY <1>2, <2>1 DEF ReadSum, DecisionTypeOK, Deciding, DecisionStates, IdleDecision
    <2> QED BY <1>2, <2>2 DEF ReadSum, storeVars, rowVars, ledgerVars
  <1>3. ASSUME NEW s \in Sessions,
               ReadCashDebits(s) \/ ReadCashCredits(s) \/ ReadPayableDebits(s)
        PROVE  Calm
    <2>1. \E here \in DecisionSteps \ {"idle"} : \E next, term : ReadSum(s, here, next, term)
      BY <1>3 DEF ReadCashDebits, ReadCashCredits, ReadPayableDebits, DecisionSteps
    <2> QED BY <1>2, <2>1
  <1>4. ASSUME NEW s \in Sessions, ReadPayableCredits(s) PROVE Calm
    <2>1. decision[s] \in DecisionStates /\ decision[s].step = "payableCredits"
      BY <1>4 DEF ReadPayableCredits, DecisionTypeOK
    <2>2. ASSUME NEW t \in Sessions, NEW q \in Requests, Deciding(t, q)'
          PROVE  Deciding(t, q)
      <3>1. CASE t # s
        BY <1>4, <2>2, <3>1 DEF ReadPayableCredits, DecisionTypeOK, Deciding
      <3>2. CASE t = s /\ decision' = [decision EXCEPT ![s] = IdleDecision]
        BY <2>2, <3>2 DEF DecisionTypeOK, Deciding, IdleDecision
      <3>3. CASE t = s /\ decision' = [decision EXCEPT ![s] =
                              [@ EXCEPT !.step = "saveApproval", !.funds = 0]]
        BY <2>1, <2>2, <3>3 DEF DecisionTypeOK, DecisionStates, Deciding, IdleDecision
      <3> QED BY <1>4, <3>1, <3>2, <3>3 DEF ReadPayableCredits
    <2> QED BY <1>4, <2>2 DEF ReadPayableCredits, storeVars, rowVars, ledgerVars
  <1>5. ASSUME NEW s \in Sessions, SaveApproval(s)
        PROVE  /\ Deciding(s, decision[s].request) /\ decision[s].request \in Requests
               /\ Moves(decision[s].request, "PendingApproval", "Approved", 1)
               /\ decision' = [decision EXCEPT ![s] = IdleDecision]
    <2> DEFINE r == decision[s].request
    <2>1. r \in Requests /\ Deciding(s, r)
      BY <1>5, SaveApprovalEffect DEF SaveApproval, Deciding
    <2>2. status[r] = "PendingApproval" /\ status' = [status EXCEPT ![r] = "Approved"]
      BY <1>5, <2>1 DEF SaveApproval, SaveStatus, SessionsPending
    <2>3. ASSUME NEW q \in Disbursements
          PROVE  Outstanding(q)' = Outstanding(q) + IF q = r THEN 1 ELSE 0
      <3>1. /\ q \in Requests
            /\ posted[q]["approval"] \in Int /\ posted[q]["settlement"] \in Int
            /\ posted[q]["reversal"] \in Int
        BY StoreAssumption DEF StoreTypeOK, Postings
      <3> QED BY <1>5, <3>1, SaveApprovalEffect DEF Outstanding
    <2> QED BY <1>5, <2>1, <2>2, <2>3 DEF Moves, SaveApproval
  <1>6. ASSUME NEW s \in Sessions, SaveRejection(s)
        PROVE  /\ Deciding(s, decision[s].request) /\ decision[s].request \in Requests
               /\ Moves(decision[s].request, "PendingApproval", "Rejected", 0)
               /\ decision' = [decision EXCEPT ![s] = IdleDecision]
               /\ UNCHANGED <<providerRef, processedEvents>>
    <2> DEFINE r == decision[s].request
    <2>1. r \in Requests /\ Deciding(s, r)
      BY <1>6 DEF SaveRejection, Deciding, DecisionTypeOK, DecisionStates, IdleDecision
    <2>2. status[r] = "PendingApproval" /\ status' = [status EXCEPT ![r] = "Rejected"]
      BY <1>6, <2>1 DEF SaveRejection, SaveStatus, SessionsPending
    <2>3. \A q \in Disbursements : Outstanding(q)' = Outstanding(q)
      BY <1>6 DEF SaveRejection, ledgerVars, Outstanding
    <2> QED BY <1>6, <2>1, <2>2, <2>3, OutstandingType DEF Moves, SaveRejection
  <1>7. ASSUME NEW amount \in FundAmounts, Fund(amount) PROVE Calm
    BY <1>7 DEF Fund, Deciding, rowVars
  <1>8. ASSUME NEW p \in Payees, Suspend(p) PROVE Calm
    BY <1>8 DEF Suspend, Deciding, rowVars, ledgerVars
  <1> HIDE DEF Calm
  <1>9. \/ Calm
        \/ \E s \in Sessions : SaveApproval(s) \/ SaveRejection(s)
    BY <1>1, <1>3, <1>4, <1>7, <1>8 DEF DecisionNext
  <1>10. CASE Calm
    BY <1>10 DEF Calm
  <1>11. CASE \E s \in Sessions : SaveApproval(s) \/ SaveRejection(s)
    BY <1>5, <1>6, <1>11, SaveApprovalEffect
  <1> QED BY <1>9, <1>10, <1>11

(* A worker moves only what is approved, or what it has in Processing.     *)
LEMMA WorkerMoves ==
    ASSUME StoreTypeOK, WorkerTypeOK, WorkersProcessing,
           NEW w \in Workers, WorkerStep(w) \/ Interrupt(w)
    PROVE  \/ UNCHANGED <<status, posted>>
           \/ \E r \in Requests :
                  Claim(w, r) /\ Moves(r, "Approved", "Processing", 0)
           \/ /\ SaveFailure(w) /\ Holds(w, worker[w].request)
              /\ worker[w].request \in Requests
              /\ Moves(worker[w].request, "Processing", "Failed", -1)
  <1>1. ASSUME NEW r \in Requests, Claim(w, r)
        PROVE  Moves(r, "Approved", "Processing", 0)
    <2>1. \A q \in Disbursements : Outstanding(q)' = Outstanding(q)
      BY <1>1 DEF Claim, ledgerVars, Outstanding
    <2> QED BY <1>1, <2>1, OutstandingType DEF Claim, Moves
  <1>2. ASSUME SaveFailure(w)
        PROVE  /\ Holds(w, worker[w].request)
               /\ worker[w].request \in Requests
               /\ Moves(worker[w].request, "Processing", "Failed", -1)
    <2> DEFINE r == worker[w].request
    <2>1. r \in Requests /\ Holds(w, r) /\ worker[w].step # "load"
      BY <1>2, BusyWorker DEF SaveFailure, Holds
    <2>2. status[r] = "Processing" /\ worker[w].loaded = "Processing"
      BY <2>1 DEF WorkersProcessing
    <2>3. status' = [status EXCEPT ![r] = "Failed"]
      BY <1>2, <2>2 DEF SaveFailure, SaveStatus
    <2>4. \A q \in Disbursements : Outstanding(q)' = Outstanding(q) + IF q = r THEN -1 ELSE 0
      BY <1>2, <2>1, ReversalReleases DEF SaveFailure
    <2> QED BY <2>1, <2>2, <2>3, <2>4 DEF Moves
  <1>3. CASE UNCHANGED <<status, posted>>
    BY <1>3
  <1> QED BY <1>1, <1>2, <1>3
          DEF WorkerStep, Poll, PassOver, Load, CallAccepted, CallRejected,
              SaveReference, Interrupt, storeVars, rowVars, ledgerVars

(* The other workers stay where they are.                                  *)
LEMMA OthersStay ==
    ASSUME WorkerTypeOK, NEW w \in Workers, WorkerStep(w) \/ Interrupt(w)
    PROVE  \A v \in Workers \ {w} : worker'[v] = worker[v]
  BY DEF WorkerTypeOK, WorkerStep, Poll, Claim, PassOver, Load, CallAccepted,
         CallRejected, SaveReference, SaveFailure, Interrupt

(* What a worker holds it has just claimed, or held before; then it has    *)
(* just loaded it, or keeps what it loaded, and has not saved.             *)
LEMMA HeldAfter ==
    ASSUME WorkerTypeOK, NEW w \in Workers, WorkerStep(w) \/ Interrupt(w),
           NEW r \in Requests, Holds(w, r)'
    PROVE  \/ Claim(w, r) /\ worker'[w].step = "load"
           \/ /\ Holds(w, r) /\ ~SaveFailure(w) /\ ~SaveReference(w)
              /\ \/ Load(w) /\ worker'[w].loaded = status[r]
                 \/ /\ worker[w].step # "load" /\ worker'[w].step # "call"
                    /\ worker'[w].loaded = worker[w].loaded
  <1> DEFINE Goal == \/ Claim(w, r) /\ worker'[w].step = "load"
                     \/ /\ Holds(w, r) /\ ~SaveFailure(w) /\ ~SaveReference(w)
                        /\ \/ Load(w) /\ worker'[w].loaded = status[r]
                           \/ /\ worker[w].step # "load" /\ worker'[w].step # "call"
                              /\ worker'[w].loaded = worker[w].loaded
  <1>0. worker[w] \in WorkerStates /\ worker[w].batch \in SUBSET Requests
    BY BusyWorker DEF WorkerTypeOK
  <1>1. ~Interrupt(w)
    <2> DEFINE next == IdleWorker
    <2> SUFFICES ASSUME Interrupt(w) PROVE ~Holds(w, r)'
      OBVIOUS
    <2>1. next.step \in {"poll", "claim"} /\ worker' = [worker EXCEPT ![w] = next]
      BY DEF Interrupt, IdleWorker
    <2> HIDE DEF next
    <2>2. worker'[w] = next
      BY <2>1 DEF WorkerTypeOK
    <2> QED BY <2>1, <2>2 DEF Holds
  <1>2. ASSUME NEW batch \in SUBSET Requests,
               worker' = [worker EXCEPT ![w] = NextInBatch(batch)]
        PROVE  FALSE
    <2> DEFINE next == NextInBatch(batch)
    <2>1. next.step \in {"poll", "claim"} /\ worker' = [worker EXCEPT ![w] = next]
      BY <1>2, NextInBatchType
    <2> HIDE DEF next
    <2>2. worker'[w] = next
      BY <2>1 DEF WorkerTypeOK
    <2> QED BY <2>1, <2>2 DEF Holds
  <1>3. CASE Poll(w)
    BY <1>2, <1>3 DEF Poll
  <1>4. ASSUME NEW q \in Requests, Claim(w, q) PROVE Goal
    BY <1>4 DEF Claim, WorkerTypeOK, Holds
  <1>5. ASSUME NEW q \in Requests, PassOver(w, q) PROVE Goal
    <2>1. worker[w].batch \ {q} \in SUBSET Requests
      BY <1>0
    <2> QED BY <1>2, <1>5, <2>1 DEF PassOver
  <1>6. CASE Load(w)
    <2>1. /\ worker[w].step = "load"
          /\ worker[w] \in [step : {"load"}, batch : SUBSET Requests,
                            request : Requests, loaded : {None}]
      BY <1>0, <1>6 DEF Load, WorkerStates, IdleWorker
    <2>2. PICK next : worker' = [worker EXCEPT ![w].loaded = status[worker[w].request],
                                               ![w].step = next]
      BY <1>6 DEF Load
    <2>3. worker'[w].request = worker[w].request
          /\ worker'[w].loaded = status[worker[w].request]
      BY <2>1, <2>2 DEF WorkerTypeOK
    <2> QED BY <1>6, <2>1, <2>3 DEF Holds, SaveFailure, SaveReference
  <1>7. CASE CallAccepted(w) \/ CallRejected(w)
    <2>1. /\ worker[w].step = "call"
          /\ worker[w] \in [step : {"call"}, batch : SUBSET Requests,
                            request : Requests, loaded : Statuses]
      BY <1>0, <1>7 DEF CallAccepted, CallRejected, WorkerStates, IdleWorker
    <2>2. PICK next \in {"saveReference", "saveFailure"} :
              worker' = [worker EXCEPT ![w].step = next]
      BY <1>7 DEF CallAccepted, CallRejected
    <2>3. /\ worker'[w].request = worker[w].request
          /\ worker'[w].loaded = worker[w].loaded /\ worker'[w].step = next
      BY <2>1, <2>2 DEF WorkerTypeOK
    <2> QED BY <2>1, <2>3 DEF Holds, SaveFailure, SaveReference
  <1>8. CASE SaveReference(w) \/ SaveFailure(w)
    BY <1>0, <1>2, <1>8 DEF SaveReference, SaveFailure
  <1> QED BY <1>1, <1>3, <1>4, <1>5, <1>6, <1>7, <1>8 DEF WorkerStep

(* A webhook handler moves only what is in Processing, by its reference.   *)
LEMMA DeliveryMoves ==
    ASSUME TypeOK, SettlementInv, EndsOnce, ReferencesOpen, HandlersFresh, DeliveryNext
    PROVE  \/ UNCHANGED <<status, posted>>
           \/ \E r \in Requests :
                  /\ providerRef[r] # None /\ EndRecorded(r)'
                  /\ \/ /\ Moves(r, "Processing", "Completed", -1)
                        /\ \E loaded : Settle(r, loaded)
                     \/ /\ Moves(r, "Processing", "Failed", -1)
                        /\ \E loaded : Fail(r, loaded)
  <1>0. StoreTypeOK /\ DeliveryTypeOK
    BY DEF TypeOK
  <1>1. ASSUME NEW h \in Handlers, Record(h), delivery[h].request # None,
               delivery[h].event.type \in TerminalTypes
        PROVE  \E r \in Requests :
                  /\ providerRef[r] # None /\ EndRecorded(r)'
                  /\ \/ /\ Moves(r, "Processing", "Completed", -1)
                        /\ \E loaded : Settle(r, loaded)
                     \/ /\ Moves(r, "Processing", "Failed", -1)
                        /\ \E loaded : Fail(r, loaded)
    <2> DEFINE d == delivery[h]
    <2>1. PICK r \in Requests : r = d.request
      BY <1>0, <1>1 DEF Record, DeliveryTypeOK, DeliveryStates, IdleDelivery
    <2>2. providerRef[r] # None /\ ~EndRecorded(r) /\ EndRecorded(r)'
      BY <1>1, <2>1, EndIsFirst
    <2>3. status[r] = "Processing" /\ d.loaded = "Processing"
      BY <1>1, <2>1, <2>2, StoreAssumption DEF Record, ReferencesOpen, HandlersFresh
    <2>4. CASE d.event.type = "succeeded" /\ Settle(r, d.loaded)
      <3>1. status' = [status EXCEPT ![r] = "Completed"]
        BY <2>1, <2>3, <2>4 DEF Settle, SaveStatus
      <3>2. \E dr, cr : AddPosting(r, "settlement", dr, cr)
        BY <2>4 DEF Settle
      <3>3. ASSUME NEW q \in Disbursements
            PROVE  Outstanding(q)' = Outstanding(q) + IF q = r THEN -1 ELSE 0
        <4>1. /\ q \in Requests
              /\ posted[q]["approval"] \in Int /\ posted[q]["settlement"] \in Int
              /\ posted[q]["reversal"] \in Int
          BY <1>0, StoreAssumption DEF StoreTypeOK, Postings
        <4> QED BY <1>0, <2>1, <3>2, <4>1, AddPostingEffect DEF Outstanding, Postings
      <3>4. Moves(r, "Processing", "Completed", -1)
        BY <2>3, <3>1, <3>3 DEF Moves
      <3> QED BY <2>2, <2>4, <3>4
    <2>5. CASE d.event.type = "payment_failed" /\ Fail(r, d.loaded)
      <3>1. status' = [status EXCEPT ![r] = "Failed"]
        BY <2>1, <2>3, <2>5 DEF Fail, SaveStatus
      <3>2. \A q \in Disbursements :
                Outstanding(q)' = Outstanding(q) + IF q = r THEN -1 ELSE 0
        BY <1>0, <2>1, <2>5, ReversalReleases DEF Fail
      <3>3. Moves(r, "Processing", "Failed", -1)
        BY <2>3, <3>1, <3>2 DEF Moves
      <3> QED BY <2>2, <2>5, <3>3
    <2> QED BY <1>1, <2>1, <2>4, <2>5 DEF Record, Apply
  <1>2. ASSUME NEW h \in Handlers, Record(h),
               delivery[h].request = None \/ delivery[h].event.type \notin TerminalTypes
        PROVE  UNCHANGED <<status, posted>>
    BY <1>2 DEF Record, Apply, TerminalTypes, ledgerVars
  <1>3. CASE UNCHANGED storeVars
    BY <1>3 DEF storeVars, rowVars, ledgerVars
  <1> QED BY <1>1, <1>2, <1>3
          DEF DeliveryNext, DeliveryStep, Receive, Match, RecordDuplicate, Drop

-----------------------------------------------------------------------------
(* The invariant, clause by clause.                                        *)

(* Nothing has happened at the start.                                      *)
LEMMA SerialInit == Init => SerialInv
  <1> SUFFICES ASSUME Init PROVE SerialInv
    OBVIOUS
  <1>1. SessionsPending
    BY DEF Init, DecisionInit, IdleDecision, SessionsPending, Deciding
  <1>2. WorkersProcessing /\ NoDoubleProcessing
    BY DEF Init, WorkerInit, IdleWorker, WorkersProcessing, NoDoubleProcessing, Holds
  <1>3. ReferencesOpen /\ HandlersFresh
    BY DEF Init, StoreInit, DeliveryInit, IdleDelivery, ReferencesOpen, HandlersFresh
  <1>4. OwedWhileOpen
    <2>1. \A r \in Disbursements :
              /\ r \in Requests /\ status[r] = "PendingApproval"
              /\ posted[r]["approval"] = 0 /\ posted[r]["settlement"] = 0
              /\ posted[r]["reversal"] = 0
      BY StoreAssumption DEF Init, StoreInit, Postings
    <2> QED BY <2>1 DEF OwedWhileOpen, Outstanding
  <1> QED BY <1>1, <1>2, <1>3, <1>4 DEF SerialInv

(* The life of a request moves along one of five arrows.                   *)
LEMMA StepMoves ==
    ASSUME TypeOK, SettlementInv, EndsOnce, SerialInv, [Next]_vars
    PROVE  \/ UNCHANGED <<status, posted>>
           \/ \E r \in Requests :
                  \/ Moves(r, "PendingApproval", "Approved", 1)
                  \/ Moves(r, "PendingApproval", "Rejected", 0)
                  \/ Moves(r, "Approved", "Processing", 0)
                  \/ Moves(r, "Processing", "Completed", -1)
                  \/ Moves(r, "Processing", "Failed", -1)
  <1>0. StoreTypeOK /\ DecisionTypeOK /\ WorkerTypeOK
    BY DEF TypeOK
  <1> USE DEF SerialInv
  <1>1. CASE DecisionNext
    BY <1>0, <1>1, DecisionMoves
  <1>2. CASE WorkerNext
    BY <1>0, <1>2, WorkerMoves DEF WorkerNext
  <1>3. CASE DeliveryNext
    BY <1>3, DeliveryMoves
  <1>4. CASE UNCHANGED storeVars
    BY <1>4 DEF storeVars, rowVars, ledgerVars
  <1> QED BY <1>1, <1>2, <1>3, <1>4 DEF Next, vars

(* Who decides beside a save decides about another request.                *)
LEMMA SessionsPendingStep ==
    ASSUME TypeOK, SettlementInv, EndsOnce, SerialInv, DecisionsApart, [Next]_vars
    PROVE  SessionsPending'
  <1> SUFFICES ASSUME NEW t \in Sessions, NEW q \in Requests, Deciding(t, q)'
               PROVE  status'[q] = "PendingApproval"
    BY DEF SessionsPending
  <1>0. StoreTypeOK /\ DecisionTypeOK /\ WorkerTypeOK /\ SessionsPending
    BY DEF TypeOK, SerialInv
  <1>1. CASE DecisionNext
    <2>1. CASE /\ UNCHANGED <<status, posted>>
               /\ Deciding(t, q) \/ status[q] = "PendingApproval"
      BY <1>0, <2>1 DEF SessionsPending
    <2>2. ASSUME NEW s \in Sessions, NEW r \in Requests, Deciding(s, r),
                 decision' = [decision EXCEPT ![s] = IdleDecision],
                 NEW new, status' = [status EXCEPT ![r] = new]
          PROVE  status'[q] = "PendingApproval"
      <3>1. t # s /\ Deciding(t, q)
        BY <1>0, <2>2 DEF Deciding, DecisionTypeOK, IdleDecision
      <3>2. q # r
        BY <2>2, <3>1 DEF DecisionsApart
      <3> QED BY <1>0, <2>2, <3>1, <3>2 DEF SessionsPending, StoreTypeOK
    <2> QED BY <1>0, <1>1, <2>1, <2>2, DecisionMoves DEF Moves
  <1>2. CASE UNCHANGED decision /\ ~DecisionNext
    <2>1. status[q] = "PendingApproval"
      BY <1>0, <1>2 DEF Deciding, SessionsPending
    <2>2. ASSUME NEW r \in Requests, NEW from \in {"Approved", "Processing"}, NEW to,
                 NEW change, Moves(r, from, to, change)
          PROVE  status'[q] = "PendingApproval"
      BY <1>0, <2>1, <2>2 DEF Moves, StoreTypeOK
    <2>3. CASE WorkerNext
      BY <1>0, <2>1, <2>2, <2>3, WorkerMoves DEF WorkerNext, SerialInv
    <2>4. CASE DeliveryNext
      BY <2>1, <2>2, <2>4, DeliveryMoves DEF SerialInv
    <2>5. CASE UNCHANGED storeVars
      BY <2>1, <2>5 DEF storeVars, rowVars
    <2> QED BY <1>2, <2>3, <2>4, <2>5 DEF Next, vars
  <1> QED BY <1>1, <1>2 DEF Next, vars

(* A worker alone moves what it holds.                                     *)
LEMMA WorkersProcessingStep ==
    ASSUME TypeOK, SettlementInv, EndsOnce, SerialInv, [Next]_vars
    PROVE  WorkersProcessing' /\ NoDoubleProcessing'
  <1>0. /\ StoreTypeOK /\ DecisionTypeOK /\ WorkerTypeOK /\ DeliveryTypeOK
        /\ SessionsPending /\ WorkersProcessing /\ NoDoubleProcessing /\ ReferencesOpen
    BY DEF TypeOK, SerialInv
  <1>1. CASE WorkerNext
    <2>1. PICK w \in Workers : WorkerStep(w) \/ Interrupt(w)
      BY <1>1 DEF WorkerNext
    <2>2. \A v \in Workers \ {w} : worker'[v] = worker[v]
      BY <1>0, <2>1, OthersStay
    <2>3. \A v \in Workers \ {w}, r \in Requests : Holds(v, r)' <=> Holds(v, r)
      BY <2>2 DEF Holds
    <2>4. ASSUME NEW r \in Requests, Claim(w, r)
          PROVE  /\ status'[r] = "Processing" /\ providerRef'[r] = None
                 /\ \A v \in Workers : ~Holds(v, r)
      BY <1>0, <2>4 DEF Claim, StoreTypeOK, ReferencesOpen, WorkersProcessing
    <2>5. ASSUME NEW v \in Workers, NEW r \in Requests, Holds(v, r),
                 v = w => ~SaveFailure(w) /\ ~SaveReference(w)
          PROVE  status'[r] = "Processing" /\ providerRef'[r] = None
      <3>1. status[r] = "Processing" /\ providerRef[r] = None
        BY <1>0, <2>5 DEF WorkersProcessing
      <3>2. ASSUME SaveFailure(w) \/ SaveReference(w)
            PROVE  worker[w].request # r /\ worker[w].request \in Requests
        BY <1>0, <2>5, <3>2, BusyWorker
           DEF SaveFailure, SaveReference, NoDoubleProcessing, Holds
      <3>3. status'[r] = "Processing"
        <4>1. ASSUME NEW q \in Requests, NEW from, NEW to, NEW change,
                     Moves(q, from, to, change), q # r
              PROVE  status'[r] = "Processing"
          BY <1>0, <3>1, <4>1 DEF Moves, StoreTypeOK
        <4>2. ASSUME NEW q \in Requests, Moves(q, "Approved", "Processing", 0)
              PROVE  status'[r] = "Processing"
          BY <3>1, <4>1, <4>2 DEF Moves
        <4>3. CASE SaveFailure(w)
          BY <1>0, <2>1, <3>2, <4>1, <4>2, <4>3, <3>1, WorkerMoves
        <4> QED BY <1>0, <2>1, <3>1, <4>2, <4>3, WorkerMoves
      <3>4. providerRef'[r] = None
        <4>1. CASE SaveReference(w)
          BY <1>0, <3>1, <3>2, <4>1 DEF SaveReference, StoreTypeOK
        <4>2. CASE ~SaveReference(w)
          BY <2>1, <3>1, <4>2
             DEF WorkerStep, Poll, Claim, PassOver, Load, CallAccepted, CallRejected,
                 SaveFailure, Interrupt, storeVars, rowVars
        <4> QED BY <4>1, <4>2
      <3> QED BY <3>3, <3>4
    <2>6. ASSUME NEW v \in Workers, NEW r \in Requests, Holds(v, r)'
          PROVE  /\ status'[r] = "Processing" /\ providerRef'[r] = None
                 /\ worker'[v].step # "load" => worker'[v].loaded = "Processing"
      <3>1. CASE v # w
        BY <1>0, <2>2, <2>3, <2>5, <2>6, <3>1 DEF WorkersProcessing
      <3>2. CASE v = w
        BY <1>0, <2>1, <2>4, <2>5, <2>6, <3>2, HeldAfter DEF WorkersProcessing
      <3> QED BY <3>1, <3>2
    <2>7. ASSUME NEW u \in Workers, NEW v \in Workers, NEW r \in Requests,
                 Holds(u, r)', Holds(v, r)'
          PROVE  u = v
      <3>1. Holds(w, r)' => Holds(w, r) \/ Claim(w, r)
        BY <1>0, <2>1, HeldAfter
      <3> QED BY <1>0, <2>3, <2>4, <2>7, <3>1 DEF NoDoubleProcessing
    <2> QED BY <2>6, <2>7 DEF WorkersProcessing, NoDoubleProcessing
  <1>2. CASE UNCHANGED worker /\ ~WorkerNext
    <2>1. \A v \in Workers, r \in Requests : Holds(v, r)' <=> Holds(v, r)
      BY <1>2 DEF Holds
    <2>2. NoDoubleProcessing'
      BY <1>0, <2>1 DEF NoDoubleProcessing
    <2>3. ASSUME NEW v \in Workers, NEW r \in Requests, Holds(v, r)
          PROVE  status'[r] = "Processing" /\ providerRef'[r] = None
      <3>1. status[r] = "Processing" /\ providerRef[r] = None
        BY <1>0, <2>3 DEF WorkersProcessing
      <3>2. UNCHANGED providerRef
        BY <1>0, <1>2, DecisionMoves, DeliveryEffect
           DEF Next, vars, storeVars, rowVars
      <3>3. CASE DecisionNext
        <4>1. ASSUME NEW q \in Requests, NEW to, NEW change,
                     Moves(q, "PendingApproval", to, change)
              PROVE  status'[r] = "Processing"
          BY <1>0, <3>1, <4>1 DEF Moves, StoreTypeOK
        <4> QED BY <1>0, <3>1, <3>2, <3>3, <4>1, DecisionMoves
      <3>4. CASE DeliveryNext
        <4>1. ASSUME NEW q \in Requests, NEW to, NEW change, providerRef[q] # None,
                     Moves(q, "Processing", to, change)
              PROVE  status'[r] = "Processing"
          BY <1>0, <3>1, <4>1 DEF Moves, StoreTypeOK
        <4> QED BY <3>1, <3>2, <3>4, <4>1, DeliveryMoves DEF SerialInv
      <3>5. CASE UNCHANGED storeVars
        BY <3>1, <3>5 DEF storeVars, rowVars
      <3> QED BY <1>2, <3>3, <3>4, <3>5 DEF Next, vars
    <2> QED BY <1>0, <1>2, <2>1, <2>2, <2>3 DEF WorkersProcessing
  <1> QED BY <1>1, <1>2 DEF Next, vars

(* Only the record of its end takes a referenced request out of            *)
(* Processing.                                                             *)
LEMMA ReferencesOpenStep ==
    ASSUME TypeOK, SettlementInv, EndsOnce, SerialInv, [Next]_vars
    PROVE  ReferencesOpen'
  <1> SUFFICES ASSUME NEW r \in Requests, providerRef'[r] # None
               PROVE  status'[r] \in IF EndRecorded(r)'
                                     THEN {"Processing", "Completed", "Failed"}
                                     ELSE {"Processing"}
    BY DEF ReferencesOpen
  <1>0. /\ StoreTypeOK /\ DecisionTypeOK /\ WorkerTypeOK /\ DeliveryTypeOK
        /\ SessionsPending /\ WorkersProcessing /\ ReferencesOpen
    BY DEF TypeOK, SerialInv
  <1>1. ASSUME providerRef[r] # None, status'[r] = status[r],
               processedEvents \subseteq processedEvents'
        PROVE  status'[r] \in IF EndRecorded(r)'
                              THEN {"Processing", "Completed", "Failed"}
                              ELSE {"Processing"}
    <2>1. EndRecorded(r) => EndRecorded(r)'
      BY <1>1 DEF EndRecorded
    <2> QED BY <1>0, <1>1, <2>1 DEF ReferencesOpen
  <1>2. ASSUME NEW q \in Requests, NEW from, NEW to, NEW change,
               Moves(q, from, to, change), q # r
        PROVE  status'[r] = status[r]
    BY <1>0, <1>2 DEF Moves, StoreTypeOK
  <1>3. providerRef[r] # None => status[r] \in {"Processing", "Completed", "Failed"}
    BY <1>0 DEF ReferencesOpen
  <1>4. CASE DecisionNext
    <2>1. providerRef[r] # None /\ UNCHANGED processedEvents
      BY <1>0, <1>4, DecisionMoves
    <2>2. \A q \in Requests : \A to, change : Moves(q, "PendingApproval", to, change) => q # r
      BY <1>3, <2>1 DEF Moves
    <2>3. status'[r] = status[r]
      BY <1>0, <1>2, <1>4, <2>2, DecisionMoves
    <2> QED BY <1>1, <2>1, <2>3
  <1>5. CASE WorkerNext
    <2>1. PICK w \in Workers : WorkerStep(w) \/ Interrupt(w)
      BY <1>5 DEF WorkerNext
    <2>2. UNCHANGED processedEvents
      BY <1>0, <1>5, WorkerEffect
    <2>3. CASE SaveReference(w) /\ worker[w].request = r
      <3>1. Holds(w, r) /\ status' = status
        BY <2>3 DEF SaveReference, Holds
      <3> QED BY <1>0, <3>1 DEF WorkersProcessing
    <2>4. CASE ~(SaveReference(w) /\ worker[w].request = r)
      <3>1. providerRef[r] # None
        BY <1>0, <2>1, <2>4
           DEF WorkerStep, Poll, Claim, PassOver, Load, CallAccepted, CallRejected,
               SaveReference, SaveFailure, Interrupt, storeVars, rowVars, StoreTypeOK
      <3>2. \A q \in Requests : Holds(w, q) => q # r
        BY <1>0, <3>1 DEF WorkersProcessing
      <3>3. \A q \in Requests : \A to, change : Moves(q, "Approved", to, change) => q # r
        BY <1>3, <3>1 DEF Moves
      <3>4. status'[r] = status[r]
        BY <1>0, <1>2, <2>1, <3>2, <3>3, WorkerMoves
      <3> QED BY <1>1, <2>2, <3>1, <3>4
    <2> QED BY <2>3, <2>4
  <1>6. CASE DeliveryNext
    <2>1. providerRef[r] # None
      BY <1>0, <1>6, DeliveryEffect
    <2>2. processedEvents \subseteq processedEvents'
      BY <1>6 DEF DeliveryNext, DeliveryStep, Receive, Match, Record, RecordDuplicate,
                  Drop, storeVars
    <2>3. ASSUME NEW q \in Requests, NEW to \in {"Completed", "Failed"},
                 Moves(q, "Processing", to, -1), EndRecorded(q)'
          PROVE  status'[r] \in IF EndRecorded(r)'
                                THEN {"Processing", "Completed", "Failed"}
                                ELSE {"Processing"}
      <3>1. CASE q = r
        <4>1. status'[r] = to
          BY <1>0, <2>3, <3>1 DEF Moves, StoreTypeOK
        <4>2. EndRecorded(r)'
          BY <2>3, <3>1
        <4> QED BY <4>1, <4>2
      <3>2. CASE q # r
        BY <1>1, <1>2, <2>1, <2>2, <2>3, <3>2
      <3> QED BY <3>1, <3>2
    <2> QED BY <1>1, <1>6, <2>1, <2>2, <2>3, DeliveryMoves DEF SerialInv
  <1>7. CASE UNCHANGED storeVars
    BY <1>1, <1>7 DEF storeVars, rowVars
  <1> QED BY <1>4, <1>5, <1>6, <1>7 DEF Next, vars

(* A handler that matches an end not yet recorded loads Processing.        *)
LEMMA HandlersFreshStep ==
    ASSUME TypeOK, SettlementInv, EndsOnce, SerialInv, [Next]_vars
    PROVE  HandlersFresh'
  <1> SUFFICES ASSUME NEW h \in Handlers,
                      delivery'[h].request # None,
                      delivery'[h].event.type \in TerminalTypes,
                      delivery'[h].event \notin processedEvents'
               PROVE  delivery'[h].loaded = "Processing"
    BY DEF HandlersFresh
  <1>0. /\ StoreTypeOK /\ DecisionTypeOK /\ WorkerTypeOK /\ DeliveryTypeOK
        /\ ReferencesOpen /\ HandlersFresh
    BY DEF TypeOK, SerialInv
  <1>1. processedEvents \subseteq processedEvents'
    <2>1. CASE DecisionNext
      BY <1>0, <2>1, SaveApprovalEffect, DecisionEffect
    <2>2. CASE WorkerNext
      BY <1>0, <2>2, WorkerEffect
    <2> QED BY <2>1, <2>2
            DEF Next, vars, DeliveryNext, DeliveryStep, Receive, Match, Record,
                RecordDuplicate, Drop, storeVars
  <1>2. CASE delivery'[h] = delivery[h]
    BY <1>0, <1>1, <1>2 DEF HandlersFresh
  <1>3. CASE delivery'[h] # delivery[h]
    <2>1. Match(h)
      <3>1. ASSUME NEW g \in Handlers, NEW e \in Events, Receive(g, e) PROVE FALSE
        BY <1>0, <1>3, <3>1 DEF Receive, DeliveryTypeOK
      <3>2. ASSUME NEW g \in Handlers, delivery' = [delivery EXCEPT ![g] = IdleDelivery]
            PROVE  FALSE
        BY <1>0, <1>3, <3>2 DEF DeliveryTypeOK, IdleDelivery
      <3>3. ASSUME NEW g \in Handlers, Match(g), g # h PROVE FALSE
        BY <1>0, <1>3, <3>3 DEF Match, DeliveryTypeOK
      <3> QED BY <1>3, <3>1, <3>2, <3>3
              DEF Next, vars, DeliveryNext, DeliveryStep, Record, RecordDuplicate, Drop
    <2>2. /\ delivery[h].step = "match" /\ delivery[h].event \in Events
          /\ delivery[h] \in [step : {"match"}, event : Events, request : {None},
                              loaded : {None}]
      <3>1. delivery[h] \in DeliveryStates /\ delivery[h].step = "match"
        BY <1>0, <2>1 DEF Match, DeliveryTypeOK
      <3> QED BY <3>1 DEF DeliveryStates, IdleDelivery
    <2>3. PICK r \in Requests :
              /\ providerRef[r] = delivery[h].event.intent
              /\ delivery' = [delivery EXCEPT ![h] =
                     [@ EXCEPT !.step = "record", !.request = r, !.loaded = status[r]]]
      <3>1. CASE delivery' = [delivery EXCEPT ![h] = [@ EXCEPT !.step = "record"]]
        BY <1>0, <2>2, <3>1 DEF DeliveryTypeOK
      <3> QED BY <2>1, <3>1 DEF Match
    <2>4. delivery'[h].event = delivery[h].event /\ delivery'[h].loaded = status[r]
      BY <1>0, <2>2, <2>3 DEF DeliveryTypeOK
    <2>5. /\ delivery[h].event = [intent |-> r, type |-> delivery[h].event.type]
          /\ delivery[h].event \in sent /\ providerRef[r] # None
      BY <2>2, <2>3, StoreAssumption DEF SettlementInv, Events
    <2>6. ~EndRecorded(r)
      <3> SUFFICES ASSUME NEW type \in TerminalTypes,
                          [intent |-> r, type |-> type] \in processedEvents
                   PROVE  FALSE
        BY DEF EndRecorded
      <3>1. [intent |-> r, type |-> type] \in sent
        BY DEF EndsOnce
      <3>2. type # delivery[h].event.type
        BY <1>1, <2>4, <2>5
      <3>3. \A t \in TerminalTypes : [intent |-> r, type |-> t] \in sent
        BY <2>4, <2>5, <3>1, <3>2 DEF TerminalTypes
      <3> QED BY <3>3 DEF EndsOnce
    <2> QED BY <1>0, <2>4, <2>5, <2>6 DEF ReferencesOpen
  <1> QED BY <1>2, <1>3

(* Each arrow moves the obligation with the status.                        *)
LEMMA OwedStep ==
    ASSUME TypeOK, SettlementInv, EndsOnce, SerialInv, [Next]_vars
    PROVE  OwedWhileOpen'
  <1> SUFFICES ASSUME NEW r \in Disbursements
               PROVE  Outstanding(r)' =
                          IF status'[r] \in {"Approved", "Processing"} THEN 1 ELSE 0
    BY DEF OwedWhileOpen
  <1>0. /\ StoreTypeOK /\ r \in Requests
        /\ Outstanding(r) = IF status[r] \in {"Approved", "Processing"} THEN 1 ELSE 0
    BY StoreAssumption DEF TypeOK, SerialInv, OwedWhileOpen
  <1>1. CASE UNCHANGED <<status, posted>>
    BY <1>0, <1>1 DEF Outstanding
  <1>2. ASSUME NEW q \in Requests, NEW from, NEW to, NEW change,
               Moves(q, from, to, change)
        PROVE  /\ Outstanding(r)' = Outstanding(r) + IF r = q THEN change ELSE 0
               /\ status'[r] = IF r = q THEN to ELSE status[r]
               /\ status[q] = from
    BY <1>0, <1>2 DEF Moves, StoreTypeOK
  <1> QED BY <1>0, <1>1, <1>2, StepMoves

(* Each clause of SerialInv survives every step from a state where         *)
(* decisions are apart.                                                    *)
LEMMA SerialStep ==
    TypeOK /\ SettlementInv /\ EndsOnce /\ SerialInv /\ DecisionsApart /\ [Next]_vars
        => SerialInv'
  BY SessionsPendingStep, WorkersProcessingStep, ReferencesOpenStep, HandlersFreshStep,
     OwedStep DEF SerialInv

(* The invariant of serial decisions, with those it rests on.              *)
LEMMA SerialCorrect ==
    Spec /\ []DecisionsApart => [](TypeOK /\ SettlementInv /\ EndsOnce /\ SerialInv)
  <1>1. DischargeInv => EndsOnce
    BY DEF DischargeInv
  <1> QED BY <1>1, TypeCorrect, SettlementInit, SettlementStep, DischargeInit,
             DischargeStep, SerialInit, SerialStep, PTL DEF Spec

-----------------------------------------------------------------------------

(***************************************************************************)
(* No two workers pay the same request, however polls, claims, crashes and *)
(* deliveries interleave, where decisions about one request do not race.   *)
(***************************************************************************)
THEOREM OneWorkerPays == Spec /\ []DecisionsApart => []NoDoubleProcessing
  <1>1. SerialInv => NoDoubleProcessing
    BY DEF SerialInv
  <1> QED BY <1>1, SerialCorrect, PTL

(***************************************************************************)
(* The ledger owes a disbursement exactly while it is approved or being    *)
(* paid, where decisions about one request do not race.                    *)
(***************************************************************************)
THEOREM OwesWhatIsOpen == Spec /\ []DecisionsApart => []OwedWhileOpen
  <1>1. SerialInv => OwedWhileOpen
    BY DEF SerialInv
  <1> QED BY <1>1, SerialCorrect, PTL

-----------------------------------------------------------------------------
(* The refinement.                                                         *)

(* Pending requests that owe nothing are where the life cycle starts.      *)
LEMMA LifecycleInit == Init => Lifecycle!Init
  <1> SUFFICES ASSUME Init PROVE Lifecycle!Init
    OBVIOUS
  <1>1. \A r \in Disbursements : r \in Requests /\ Outstanding(r) = 0
    <2>1. \A r \in Disbursements :
              /\ r \in Requests /\ posted[r]["approval"] = 0
              /\ posted[r]["settlement"] = 0 /\ posted[r]["reversal"] = 0
      BY StoreAssumption DEF Init, StoreInit, Postings
    <2> QED BY <2>1 DEF Outstanding
  <1>2. status = [r \in Requests |-> "PendingApproval"]
    BY DEF Init, StoreInit
  <1> QED BY <1>1, <1>2 DEF Lifecycle!Init

(* A step moves one request along an arrow of the life cycle, or none.     *)
LEMMA LifecycleStep ==
    TypeOK /\ SettlementInv /\ EndsOnce /\ SerialInv /\ [Next]_vars
        => [Lifecycle!Next]_(Lifecycle!vars)
  <1> SUFFICES ASSUME TypeOK, SettlementInv, EndsOnce, SerialInv, [Next]_vars
               PROVE  Lifecycle!Next \/ UNCHANGED Lifecycle!vars
    OBVIOUS
  <1> DEFINE Owed == [r \in Requests |-> IF r \in Disbursements THEN Outstanding(r) ELSE 0]
  <1>0. /\ \A r \in Disbursements : r \in Requests /\ Outstanding(r) \in Int
        /\ \A r \in Disbursements :
               Outstanding(r) = IF status[r] \in {"Approved", "Processing"} THEN 1 ELSE 0
    BY StoreAssumption, OutstandingType DEF TypeOK, SerialInv, OwedWhileOpen
  <1>1. CASE UNCHANGED <<status, posted>>
    BY <1>1 DEF Lifecycle!vars, Outstanding
  <1>2. ASSUME NEW r \in Requests, NEW from, NEW to, NEW change \in Int,
               Moves(r, from, to, change)
        PROVE  /\ Lifecycle!Move(r, from, to)
               /\ Owed' = [Owed EXCEPT ![r] = IF r \in Disbursements
                                              THEN Outstanding(r) + change ELSE 0]
    <2>1. Lifecycle!Move(r, from, to)
      BY <1>2 DEF Moves, Lifecycle!Move
    <2>2. \A q \in Disbursements :
              Outstanding(q)' = Outstanding(q) + IF q = r THEN change ELSE 0
      BY <1>2 DEF Moves
    <2>3. \A q \in Disbursements : q # r => Outstanding(q)' = Outstanding(q)
      BY <1>0, <2>2
    <2>4. r \in Disbursements => Outstanding(r)' = Outstanding(r) + change
      BY <2>2
    <2> QED BY <2>1, <2>3, <2>4
  <1>3. ASSUME NEW r \in Requests, Moves(r, "PendingApproval", "Approved", 1)
        PROVE  Lifecycle!Approve(r)
    <2>1. r \in Disbursements => Outstanding(r) + 1 = 1
      BY <1>0, <1>3 DEF Moves
    <2>2. /\ Lifecycle!Move(r, "PendingApproval", "Approved")
          /\ Owed' = [Owed EXCEPT ![r] = IF r \in Disbursements
                                         THEN Outstanding(r) + 1 ELSE 0]
      BY <1>2, <1>3
    <2> QED BY <2>1, <2>2 DEF Lifecycle!Approve, Lifecycle!Obligation
  <1>4. ASSUME NEW r \in Requests, NEW from, NEW to, Moves(r, from, to, 0)
        PROVE  Lifecycle!Move(r, from, to) /\ Owed' = Owed
    <2>1. /\ Lifecycle!Move(r, from, to)
          /\ Owed' = [Owed EXCEPT ![r] = IF r \in Disbursements
                                         THEN Outstanding(r) + 0 ELSE 0]
      BY <1>2, <1>4
    <2>2. r \in Disbursements => Outstanding(r) + 0 = Outstanding(r)
      BY <1>0
    <2>3. Owed[r] = IF r \in Disbursements THEN Outstanding(r) + 0 ELSE 0
      BY <2>2
    <2> HIDE DEF Owed
    <2>4. Owed = [Owed EXCEPT ![r] = Owed[r]]
      BY DEF Owed
    <2> QED BY <2>1, <2>3, <2>4
  <1>5. ASSUME NEW r \in Requests, NEW to, Moves(r, "Processing", to, -1)
        PROVE  Lifecycle!Move(r, "Processing", to) /\ Owed' = [Owed EXCEPT ![r] = 0]
    <2>1. r \in Disbursements => Outstanding(r) + (-1) = 0
      BY <1>0, <1>5 DEF Moves
    <2>2. Lifecycle!Move(r, "Processing", to)
          /\ Owed' = [Owed EXCEPT ![r] = IF r \in Disbursements
                                         THEN Outstanding(r) + (-1) ELSE 0]
      BY <1>2, <1>5
    <2> QED BY <2>1, <2>2
  <1> QED BY <1>1, <1>3, <1>4, <1>5, StepMoves
          DEF Lifecycle!Next, Lifecycle!Reject, Lifecycle!Begin, Lifecycle!Complete,
              Lifecycle!Fail

(***************************************************************************)
(* Approvers, workers and webhook handlers together implement the life of  *)
(* a request in the README, where decisions about one request do not race. *)
(***************************************************************************)
THEOREM FollowsLifecycle == Spec /\ []DecisionsApart => ImplementsLifecycle
  BY SerialCorrect, LifecycleInit, LifecycleStep, PTL
     DEF Spec, ImplementsLifecycle, Lifecycle!Spec

-----------------------------------------------------------------------------
(* Suspension.                                                             *)

(* Only what was claimed has been asked for.                               *)
IntentsClaimed ==
    \A r \in Requests :
        intent[r] # "none" => status[r] \in {"Processing", "Completed", "Failed"}

(* Nothing has been asked of Stripe for r, and no worker is about to.      *)
Blocked(r) ==
    /\ payeeStatus[PayeeOf[r]] = "Suspended"
    /\ intent[r] = "none"
    /\ \A w \in Workers : Holds(w, r) => worker[w].step # "call"

(* An intent comes of a worker's call, and no step is back to Approved.    *)
LEMMA IntentsClaimedStep ==
    TypeOK /\ SettlementInv /\ EndsOnce /\ SerialInv /\ IntentsClaimed /\ [Next]_vars
        => IntentsClaimed'
  <1> SUFFICES ASSUME TypeOK, SettlementInv, EndsOnce, SerialInv, IntentsClaimed,
                      [Next]_vars, NEW r \in Requests, intent'[r] # "none"
               PROVE  status'[r] \in {"Processing", "Completed", "Failed"}
    BY DEF IntentsClaimed
  <1>0. StoreTypeOK /\ WorkerTypeOK /\ ProviderTypeOK /\ WorkersProcessing
    BY DEF TypeOK, SerialInv
  <1>1. status[r] \in {"Processing", "Completed", "Failed"}
    <2>1. CASE intent[r] # "none"
      BY <2>1 DEF IntentsClaimed
    <2>2. CASE WorkerNext /\ intent[r] = "none"
      BY <1>0, <2>2, IntentByCall DEF WorkersProcessing, Holds
    <2>3. CASE UNCHANGED intent
      BY <2>1, <2>3
    <2> QED BY <2>1, <2>2, <2>3
            DEF Next, vars, providerVars, DeliveryNext, DeliveryStep, Receive, Match,
                Record, RecordDuplicate, Drop, ProviderNext, Announce, Conclude
  <1>2. ASSUME NEW q \in Requests, NEW from, NEW to, NEW change,
               Moves(q, from, to, change)
        PROVE  status'[r] = (IF r = q THEN to ELSE status[r]) /\ status[q] = from
    BY <1>0, <1>2 DEF Moves, StoreTypeOK
  <1> QED BY <1>1, <1>2, StepMoves

(* No step verifies a payee, and no worker passes the load of one that is  *)
(* suspended.                                                              *)
LEMMA BlockedStep ==
    ASSUME NEW r \in Disbursements, TypeOK, Blocked(r), [Next]_vars
    PROVE  Blocked(r)'
  <1>0. /\ r \in Requests /\ PayeeOf[r] \in Payees
        /\ StoreTypeOK /\ WorkerTypeOK /\ ProviderTypeOK
    BY StoreAssumption DEF TypeOK
  <1>1. payeeStatus'[PayeeOf[r]] = "Suspended"
    <2>1. CASE UNCHANGED payeeStatus
      BY <2>1 DEF Blocked
    <2>2. ASSUME NEW p \in Payees, Suspend(p)
          PROVE  payeeStatus'[PayeeOf[r]] = "Suspended"
      BY <1>0, <2>2 DEF Suspend, StoreTypeOK, Blocked
    <2> QED BY <2>1, <2>2
            DEF Next, vars, storeVars, DecisionNext, LoadForApproval, LoadForRejection,
                ReadCashDebits, ReadCashCredits, ReadPayableDebits, ReadPayableCredits,
                ReadSum, SaveApproval, SaveRejection, Fund,
                WorkerNext, WorkerStep, Poll, Claim, PassOver, Load, CallAccepted,
                CallRejected, SaveReference, SaveFailure, Interrupt,
                DeliveryNext, DeliveryStep, Receive, Match, Record, RecordDuplicate, Drop
  <1>2. intent'[r] = "none"
    <2>1. CASE WorkerNext
      BY <1>0, <2>1, IntentByCall DEF Blocked, Holds
    <2>2. CASE UNCHANGED intent
      BY <2>2 DEF Blocked
    <2> QED BY <2>1, <2>2
            DEF Next, vars, providerVars, DeliveryNext, DeliveryStep, Receive, Match,
                Record, RecordDuplicate, Drop, ProviderNext, Announce, Conclude
  <1>3. ASSUME NEW v \in Workers, Holds(v, r)'
        PROVE  worker'[v].step # "call"
    <2>1. CASE worker'[v] = worker[v]
      BY <1>3, <2>1 DEF Blocked, Holds
    <2>2. CASE WorkerStep(v) \/ Interrupt(v)
      <3>1. CASE Holds(v, r) /\ Load(v)
        <4>1. PICK loaded : worker' = [worker EXCEPT ![v].loaded = loaded,
                                                     ![v].step = "saveFailure"]
          BY <3>1 DEF Load, Holds, Blocked
        <4>2. worker[v] \in WorkerStates /\ worker[v].step = "load"
          BY <1>0, <3>1 DEF WorkerTypeOK, Load
        <4>3. worker[v] \in [step : {"load"}, batch : SUBSET Requests,
                             request : Requests, loaded : {None}]
          BY <4>2 DEF WorkerStates, IdleWorker
        <4>4. worker'[v].step = "saveFailure"
          BY <1>0, <4>1, <4>3 DEF WorkerTypeOK
        <4> QED BY <4>4
      <3> QED BY <1>0, <1>3, <2>2, <3>1, HeldAfter
    <2>3. CASE UNCHANGED worker
      BY <2>1, <2>3
    <2>4. CASE WorkerNext
      BY <1>0, <2>1, <2>2, <2>4, OthersStay DEF WorkerNext
    <2> QED BY <2>3, <2>4 DEF Next, vars
  <1> QED BY <1>1, <1>2, <1>3 DEF Blocked

(***************************************************************************)
(* A payee suspended before the claim is never paid, also for a request    *)
(* approved before, where decisions about one request do not race.         *)
(***************************************************************************)
THEOREM SuspensionHolds == Spec /\ []DecisionsApart => SuspensionStopsPayment
  <1>1. Init => IntentsClaimed
    BY DEF Init, ProviderInit, IntentsClaimed
  <1> SUFFICES ASSUME NEW r \in Disbursements
               PROVE  Spec /\ []DecisionsApart =>
                          [](/\ payeeStatus[PayeeOf[r]] = "Suspended"
                             /\ status[r] \in {"PendingApproval", "Approved"}
                             => [](intent[r] = "none"))
    BY DEF SuspensionStopsPayment
  <1>2. /\ SerialInv /\ IntentsClaimed
        /\ payeeStatus[PayeeOf[r]] = "Suspended"
        /\ status[r] \in {"PendingApproval", "Approved"}
        => Blocked(r)
    <2>1. r \in Requests
      BY StoreAssumption
    <2> QED BY <2>1 DEF SerialInv, WorkersProcessing, IntentsClaimed, Blocked
  <1>3. TypeOK /\ Blocked(r) /\ [Next]_vars => Blocked(r)'
    BY BlockedStep
  <1>4. Blocked(r) => intent[r] = "none"
    BY DEF Blocked
  <1> QED BY <1>1, <1>2, <1>3, <1>4, IntentsClaimedStep, SerialCorrect, PTL DEF Spec

-----------------------------------------------------------------------------
(* The ledger and the requests.                                            *)

Untouched == UNCHANGED <<debits, credits>>

(* Each arrow comes with its entries, and nothing else but Fund posts.     *)
LEMMA StepEntries ==
    ASSUME TypeOK, SettlementInv, EndsOnce, SerialInv, [Next]_vars
    PROVE  \/ /\ UNCHANGED status
              /\ Untouched \/ \E amount \in FundAmounts : Fund(amount)
           \/ \E r \in Requests :
                  \/ /\ Moves(r, "PendingApproval", "Approved", 1)
                     /\ IF r \in Disbursements
                        THEN PostEntries("EXPENSE", "PAYABLE", Minor[r]) ELSE Untouched
                  \/ /\ Moves(r, "PendingApproval", "Rejected", 0) /\ Untouched
                  \/ /\ Moves(r, "Approved", "Processing", 0) /\ Untouched
                  \/ /\ Moves(r, "Processing", "Completed", -1)
                     /\ IF r \in Disbursements
                        THEN PostEntries("PAYABLE", "CASH", Minor[r])
                        ELSE PostEntries("CASH", "REVENUE", Minor[r])
                  \/ /\ Moves(r, "Processing", "Failed", -1)
                     /\ IF r \in Disbursements
                        THEN PostEntries("PAYABLE", "EXPENSE", Minor[r]) ELSE Untouched
  <1>0. StoreTypeOK /\ DecisionTypeOK /\ WorkerTypeOK
    BY DEF TypeOK
  <1>1. CASE UNCHANGED <<status, posted>>
    <2>1. ~Carried
      <3> SUFFICES ASSUME NEW r \in Requests, NEW kind \in Postings,
                          NEW dr \in Accounts, NEW cr \in Accounts,
                          AddPosting(r, kind, dr, cr)
                   PROVE  FALSE
        BY DEF Carried
      <3>1. posted'[r][kind] = posted[r][kind] + 1 /\ posted[r][kind] \in Nat
        BY <1>0, AddPostingEffect DEF StoreTypeOK
      <3> QED BY <1>1, <3>1
    <2> QED BY <1>1, <2>1, LedgerStep DEF Untouched
  <1>2. ASSUME NEW r \in Requests, ReverseApproval(r)
        PROVE  IF r \in Disbursements
               THEN PostEntries("PAYABLE", "EXPENSE", Minor[r]) ELSE Untouched
    BY <1>2 DEF ReverseApproval, AddPosting, Untouched, ledgerVars
  <1>3. CASE DecisionNext /\ ~UNCHANGED <<status, posted>>
    <2>1. PICK s \in Sessions, r \in Requests :
              /\ r = decision[s].request
              /\ \/ SaveApproval(s) /\ Moves(r, "PendingApproval", "Approved", 1)
                 \/ SaveRejection(s) /\ Moves(r, "PendingApproval", "Rejected", 0)
      BY <1>0, <1>3, DecisionMoves DEF SerialInv
    <2>2. CASE SaveApproval(s) /\ Moves(r, "PendingApproval", "Approved", 1)
      BY <2>1, <2>2 DEF SaveApproval, AddPosting, Untouched, ledgerVars
    <2>3. CASE SaveRejection(s) /\ Moves(r, "PendingApproval", "Rejected", 0)
      BY <2>3 DEF SaveRejection, Untouched, ledgerVars
    <2> QED BY <2>1, <2>2, <2>3
  <1>4. CASE WorkerNext /\ ~UNCHANGED <<status, posted>>
    <2>1. PICK w \in Workers : WorkerStep(w) \/ Interrupt(w)
      BY <1>4 DEF WorkerNext
    <2>2. ASSUME NEW r \in Requests, Claim(w, r) PROVE Untouched
      BY <2>2 DEF Claim, Untouched, ledgerVars
    <2> QED BY <1>0, <1>2, <1>4, <2>1, <2>2, WorkerMoves DEF SerialInv, SaveFailure
  <1>5. CASE DeliveryNext /\ ~UNCHANGED <<status, posted>>
    <2>1. PICK r \in Requests :
              \/ /\ Moves(r, "Processing", "Completed", -1)
                 /\ \E loaded : Settle(r, loaded)
              \/ /\ Moves(r, "Processing", "Failed", -1)
                 /\ \E loaded : Fail(r, loaded)
      BY <1>5, DeliveryMoves DEF SerialInv
    <2>2. ASSUME NEW loaded, Settle(r, loaded)
          PROVE  IF r \in Disbursements
                 THEN PostEntries("PAYABLE", "CASH", Minor[r])
                 ELSE PostEntries("CASH", "REVENUE", Minor[r])
      BY <2>2 DEF Settle, AddPosting
    <2>3. ASSUME NEW loaded, Fail(r, loaded) PROVE ReverseApproval(r)
      BY <2>3 DEF Fail
    <2> QED BY <1>2, <2>1, <2>2, <2>3
  <1>6. CASE UNCHANGED storeVars
    BY <1>1, <1>6 DEF storeVars, rowVars, ledgerVars
  <1> QED BY <1>1, <1>3, <1>4, <1>5, <1>6 DEF Next, vars

(* An amount or nothing.                                                   *)
When(condition, amount) == IF condition THEN amount ELSE 0

(* Totals are integers.                                                    *)
LEMMA TotalInt ==
    ASSUME IsFiniteSet(Requests), NEW R \in SUBSET Requests, NEW st
    PROVE  /\ IsFiniteSet(InStatus(R, st))
           /\ Total(InStatus(R, st)) = SumOver(Minor, InStatus(R, st))
           /\ Total(InStatus(R, st)) \in Int
  <1>1. IsFiniteSet(InStatus(R, st)) /\ InStatus(R, st) \subseteq Requests
    BY FS_Subset DEF InStatus
  <1>2. \A q \in InStatus(R, st) : Minor[q] \in Int
    BY <1>1, StoreAssumption
  <1>3. Total(InStatus(R, st)) = SumOver(Minor, InStatus(R, st))
    BY DEF Total, SumOver
  <1> QED BY <1>1, <1>2, <1>3, SumInt

(* A request that changes its status takes its amount from the total of    *)
(* one set of requests to that of another.                                 *)
LEMMA TotalMoves ==
    ASSUME IsFiniteSet(Requests), StoreTypeOK, NEW r \in Requests, NEW change,
           NEW from, NEW to, Moves(r, from, to, change),
           NEW R \in SUBSET Requests, NEW st
    PROVE  Total(InStatus(R, st))' =
               Total(InStatus(R, st)) + When(r \in R /\ to \in st, Minor[r])
                                      - When(r \in R /\ from \in st, Minor[r])
  <1> DEFINE old == InStatus(R, st)
             new == InStatus(R, st)'
             sum(S) == SumOver(Minor, S)
  <1>1. /\ new = IF r \notin R THEN old ELSE IF to \in st THEN old \cup {r} ELSE old \ {r}
        /\ r \in old <=> r \in R /\ from \in st
    BY DEF InStatus, Moves, StoreTypeOK
  <1>2. IsFiniteSet(old) /\ old \subseteq Requests
    BY TotalInt DEF InStatus
  <1>3. \A q \in Requests : Minor[q] \in Int
    BY StoreAssumption
  <1>4. Total(InStatus(R, st)) = sum(old) /\ sum(old) \in Int
    BY TotalInt
  <1>5. Total(InStatus(R, st))' = sum(new)
    BY DEF Total, SumOver, MapThenSumSet, MapThenFoldSet
  <1> HIDE DEF old, new
  <1>6. ASSUME r \notin old
        PROVE  sum(old \cup {r}) = sum(old) + Minor[r]
    <2>1. \A q \in old \cup {r} : Minor[q] \in Int
      BY <1>2, <1>3
    <2> QED BY <1>2, <1>6, <2>1, SumAdd
  <1>7. ASSUME r \in old
        PROVE  sum(old \ {r}) = sum(old) - Minor[r]
    <2>1. sum(old) = Minor[r] + sum(old \ {r})
      BY <1>2, <1>3, <1>7, SumRemove
    <2>2. IsFiniteSet(old \ {r})
      BY <1>2, FS_Subset
    <2>3. sum(old \ {r}) \in Int /\ Minor[r] \in Int
      BY <1>2, <1>3, <2>2, SumInt
    <2> QED BY <2>1, <2>3
  <1> HIDE DEF sum
  <1>8. sum(new) = sum(old) + When(r \in R /\ to \in st, Minor[r])
                            - When(r \in R /\ from \in st, Minor[r])
    <2>0. Minor[r] \in Int
      BY <1>3
    <2>1. CASE new = old
      <3>1. \/ r \notin R
            \/ r \in R /\ to \in st /\ from \in st
            \/ r \in R /\ to \notin st /\ from \notin st
        BY <1>1, <2>1
      <3> QED BY <1>4, <2>0, <2>1, <3>1 DEF When
    <2>2. CASE r \notin old /\ new = old \cup {r}
      <3>1. r \in R /\ to \in st /\ from \notin st
        BY <1>1, <2>2
      <3>2. sum(new) = sum(old) + Minor[r]
        BY <1>6, <2>2
      <3> QED BY <1>4, <2>0, <3>1, <3>2 DEF When
    <2>3. CASE r \in old /\ new = old \ {r}
      <3>1. r \in R /\ to \notin st /\ from \in st
        BY <1>1, <2>3
      <3>2. sum(new) = sum(old) - Minor[r]
        BY <1>7, <2>3
      <3> QED BY <1>4, <2>0, <3>1, <3>2 DEF When
    <2>4. \/ new = old
          \/ r \notin old /\ new = old \cup {r}
          \/ r \in old /\ new = old \ {r}
      BY <1>1
    <2> QED BY <2>1, <2>2, <2>3, <2>4
  <1> QED BY <1>4, <1>5, <1>8

(* Two entries raise the balance of one account and lower that of another, *)
(* or raise or lower both, by which side is natural to each.               *)
LEMMA BalanceMoves ==
    ASSUME StoreTypeOK, NEW dr \in Accounts, NEW cr \in Accounts, NEW amount \in Int,
           PostEntries(dr, cr, amount), NEW a \in Accounts
    PROVE  Balance(a)' = IF a \in {"CASH", "EXPENSE"}
                         THEN Balance(a) + When(a = dr, amount) - When(a = cr, amount)
                         ELSE Balance(a) + When(a = cr, amount) - When(a = dr, amount)
  <1>1. debits[a] \in Int /\ credits[a] \in Int
    BY DEF StoreTypeOK
  <1>2. /\ debits'[a] = debits[a] + When(a = dr, amount)
        /\ credits'[a] = credits[a] + When(a = cr, amount)
    BY <1>1 DEF StoreTypeOK, PostEntries, When
  <1>3. When(a = dr, amount) \in Int /\ When(a = cr, amount) \in Int
    BY DEF When
  <1> QED BY <1>1, <1>2, <1>3 DEF Balance

(* The balances are those of RecordsAgree, the sums without their names.   *)
Agree(committed, paid, collected) ==
    /\ Balance("PAYABLE") = committed
    /\ Balance("EXPENSE") = committed + paid
    /\ Balance("REVENUE") = collected
    /\ Balance("CASH") = Balance("OPENING") + collected - paid

Committed == Total(InStatus(Disbursements, {"Approved", "Processing"}))
Paid == Total(InStatus(Disbursements, {"Completed"}))
Collected == Total(InStatus(Requests \ Disbursements, {"Completed"}))

(* Each arrow moves the totals of the requests as its entries move the     *)
(* balances.                                                               *)
LEMMA RecordsStep ==
    ASSUME IsFiniteSet(Requests), TypeOK, SettlementInv, EndsOnce, SerialInv,
           Agree(Committed, Paid, Collected), [Next]_vars
    PROVE  Agree(Committed, Paid, Collected)'
  <1> USE DEF Agree
  <1>0. /\ StoreTypeOK /\ Disbursements \in SUBSET Requests
        /\ (Requests \ Disbursements) \in SUBSET Requests
        /\ \A r \in Requests : Minor[r] \in Int
        /\ \A a \in Accounts : Balance(a) \in Int
    BY StoreAssumption DEF TypeOK, StoreTypeOK, Balance
  <1>1. /\ Balance("CASH") \in Int /\ Balance("PAYABLE") \in Int
        /\ Balance("EXPENSE") \in Int /\ Balance("REVENUE") \in Int
        /\ Balance("OPENING") \in Int
    BY <1>0 DEF Accounts
  <1>2. Committed \in Int /\ Paid \in Int /\ Collected \in Int
    BY <1>0, TotalInt DEF Committed, Paid, Collected
  <1>3. ASSUME NEW dr \in Accounts, NEW cr \in Accounts, NEW amount \in Int,
               PostEntries(dr, cr, amount)
        PROVE  /\ Balance("PAYABLE")' = Balance("PAYABLE") + When(cr = "PAYABLE", amount)
                                                           - When(dr = "PAYABLE", amount)
               /\ Balance("EXPENSE")' = Balance("EXPENSE") + When(dr = "EXPENSE", amount)
                                                           - When(cr = "EXPENSE", amount)
               /\ Balance("REVENUE")' = Balance("REVENUE") + When(cr = "REVENUE", amount)
                                                           - When(dr = "REVENUE", amount)
               /\ Balance("CASH")' = Balance("CASH") + When(dr = "CASH", amount)
                                                     - When(cr = "CASH", amount)
               /\ Balance("OPENING")' = Balance("OPENING") + When(cr = "OPENING", amount)
                                                           - When(dr = "OPENING", amount)
    <2>1. /\ "CASH" \in Accounts /\ "PAYABLE" \in Accounts /\ "EXPENSE" \in Accounts
          /\ "REVENUE" \in Accounts /\ "OPENING" \in Accounts
      BY DEF Accounts
    <2>2. \A a \in Accounts :
              Balance(a)' = IF a \in {"CASH", "EXPENSE"}
                            THEN Balance(a) + When(a = dr, amount) - When(a = cr, amount)
                            ELSE Balance(a) + When(a = cr, amount) - When(a = dr, amount)
      BY <1>0, <1>3, BalanceMoves
    <2>3. /\ Balance("PAYABLE")' = Balance("PAYABLE") + When("PAYABLE" = cr, amount)
                                                      - When("PAYABLE" = dr, amount)
          /\ Balance("EXPENSE")' = Balance("EXPENSE") + When("EXPENSE" = dr, amount)
                                                      - When("EXPENSE" = cr, amount)
          /\ Balance("REVENUE")' = Balance("REVENUE") + When("REVENUE" = cr, amount)
                                                      - When("REVENUE" = dr, amount)
      BY <2>1, <2>2
    <2>4. /\ Balance("CASH")' = Balance("CASH") + When("CASH" = dr, amount)
                                                - When("CASH" = cr, amount)
          /\ Balance("OPENING")' = Balance("OPENING") + When("OPENING" = cr, amount)
                                                      - When("OPENING" = dr, amount)
      BY <2>1, <2>2
    <2> QED BY <2>3, <2>4
  <1>4. Untouched => /\ Balance("CASH")' = Balance("CASH")
                     /\ Balance("PAYABLE")' = Balance("PAYABLE")
                     /\ Balance("EXPENSE")' = Balance("EXPENSE")
                     /\ Balance("REVENUE")' = Balance("REVENUE")
                     /\ Balance("OPENING")' = Balance("OPENING")
    BY DEF Untouched, Balance
  <1>5. CASE /\ UNCHANGED status
             /\ Untouched \/ \E amount \in FundAmounts : Fund(amount)
    <2>1. Committed' = Committed /\ Paid' = Paid /\ Collected' = Collected
      BY <1>5 DEF Committed, Paid, Collected, Total, InStatus, MapThenSumSet,
                 MapThenFoldSet
    <2>2. CASE Untouched
      BY <1>4, <2>1, <2>2
    <2>3. ASSUME NEW amount \in FundAmounts, Fund(amount)
          PROVE  Agree(Committed, Paid, Collected)'
      <3>1. amount \in Int /\ PostEntries("CASH", "OPENING", amount)
        BY <2>3, DecisionsAssumption DEF Fund
      <3>2. /\ Balance("PAYABLE")' = Balance("PAYABLE")
            /\ Balance("EXPENSE")' = Balance("EXPENSE")
            /\ Balance("REVENUE")' = Balance("REVENUE")
            /\ Balance("CASH")' = Balance("CASH") + amount
            /\ Balance("OPENING")' = Balance("OPENING") + amount
        BY <1>1, <1>3, <3>1 DEF When, Accounts
      <3> QED BY <1>1, <1>2, <2>1, <3>1, <3>2
    <2> QED BY <1>5, <2>2, <2>3
  <1>6. ASSUME NEW r \in Requests, NEW from, NEW to, NEW change, Moves(r, from, to, change)
        PROVE  /\ Committed' = Committed
                      + When(r \in Disbursements /\ to \in {"Approved", "Processing"}, Minor[r])
                      - When(r \in Disbursements /\ from \in {"Approved", "Processing"}, Minor[r])
               /\ Paid' = Paid
                      + When(r \in Disbursements /\ to \in {"Completed"}, Minor[r])
                      - When(r \in Disbursements /\ from \in {"Completed"}, Minor[r])
               /\ Collected' = Collected
                      + When(r \in Requests \ Disbursements /\ to \in {"Completed"}, Minor[r])
                      - When(r \in Requests \ Disbursements /\ from \in {"Completed"}, Minor[r])
    BY <1>0, <1>6, TotalMoves DEF Committed, Paid, Collected
  <1>7. ASSUME NEW r \in Requests, Moves(r, "PendingApproval", "Approved", 1),
               IF r \in Disbursements
               THEN PostEntries("EXPENSE", "PAYABLE", Minor[r]) ELSE Untouched
        PROVE  Agree(Committed, Paid, Collected)'
    <2> DEFINE m == When(r \in Disbursements, Minor[r])
    <2>1. Minor[r] \in Int /\ m \in Int
      BY <1>0 DEF When
    <2>2. Committed' = Committed + m /\ Paid' = Paid /\ Collected' = Collected
      BY <1>2, <1>6, <1>7, <2>1 DEF When
    <2>3. /\ Balance("CASH")' = Balance("CASH")
          /\ Balance("PAYABLE")' = Balance("PAYABLE") + m
          /\ Balance("EXPENSE")' = Balance("EXPENSE") + m
          /\ Balance("REVENUE")' = Balance("REVENUE")
          /\ Balance("OPENING")' = Balance("OPENING")
      <3>1. CASE r \in Disbursements
        BY <1>1, <1>3, <1>7, <2>1, <3>1 DEF When, Accounts
      <3>2. CASE r \notin Disbursements
        BY <1>1, <1>4, <1>7, <3>2 DEF When
      <3> QED BY <3>1, <3>2
    <2> HIDE DEF m
    <2> QED BY <1>1, <1>2, <2>1, <2>2, <2>3
  <1>8. ASSUME NEW r \in Requests, NEW from, NEW to, NEW change, Moves(r, from, to, change),
               Untouched,
               <<from, to>> \in {<<"PendingApproval", "Rejected">>, <<"Approved", "Processing">>}
        PROVE  Agree(Committed, Paid, Collected)'
    <2>1. Minor[r] \in Int
      BY <1>0
    <2>2. \/ from = "PendingApproval" /\ to = "Rejected"
          \/ from = "Approved" /\ to = "Processing"
      BY <1>8
    <2>3. Committed' = Committed /\ Paid' = Paid /\ Collected' = Collected
      BY <1>2, <1>6, <1>8, <2>1, <2>2 DEF When
    <2> QED BY <1>4, <1>8, <2>3
  <1>9. ASSUME NEW r \in Requests, Moves(r, "Processing", "Completed", -1),
               IF r \in Disbursements
               THEN PostEntries("PAYABLE", "CASH", Minor[r])
               ELSE PostEntries("CASH", "REVENUE", Minor[r])
        PROVE  Agree(Committed, Paid, Collected)'
    <2> DEFINE m == When(r \in Disbursements, Minor[r])
               n == When(r \notin Disbursements, Minor[r])
    <2>1. Minor[r] \in Int /\ m \in Int /\ n \in Int
      BY <1>0 DEF When
    <2>2. Committed' = Committed - m /\ Paid' = Paid + m /\ Collected' = Collected + n
      BY <1>2, <1>6, <1>9, <2>1 DEF When
    <2>3. /\ Balance("CASH")' = Balance("CASH") - m + n
          /\ Balance("PAYABLE")' = Balance("PAYABLE") - m
          /\ Balance("EXPENSE")' = Balance("EXPENSE")
          /\ Balance("REVENUE")' = Balance("REVENUE") + n
          /\ Balance("OPENING")' = Balance("OPENING")
      <3>1. CASE r \in Disbursements
        BY <1>1, <1>3, <1>9, <2>1, <3>1 DEF When, Accounts
      <3>2. CASE r \notin Disbursements
        BY <1>1, <1>3, <1>9, <2>1, <3>2 DEF When, Accounts
      <3> QED BY <3>1, <3>2
    <2> HIDE DEF m, n
    <2> QED BY <1>1, <1>2, <2>1, <2>2, <2>3
  <1>10. ASSUME NEW r \in Requests, Moves(r, "Processing", "Failed", -1),
                IF r \in Disbursements
                THEN PostEntries("PAYABLE", "EXPENSE", Minor[r]) ELSE Untouched
         PROVE  Agree(Committed, Paid, Collected)'
    <2> DEFINE m == When(r \in Disbursements, Minor[r])
    <2>1. Minor[r] \in Int /\ m \in Int
      BY <1>0 DEF When
    <2>2. Committed' = Committed - m /\ Paid' = Paid /\ Collected' = Collected
      BY <1>2, <1>6, <1>10, <2>1 DEF When
    <2>3. /\ Balance("CASH")' = Balance("CASH")
          /\ Balance("PAYABLE")' = Balance("PAYABLE") - m
          /\ Balance("EXPENSE")' = Balance("EXPENSE") - m
          /\ Balance("REVENUE")' = Balance("REVENUE")
          /\ Balance("OPENING")' = Balance("OPENING")
      <3>1. CASE r \in Disbursements
        BY <1>1, <1>3, <1>10, <2>1, <3>1 DEF When, Accounts
      <3>2. CASE r \notin Disbursements
        BY <1>1, <1>4, <1>10, <3>2 DEF When
      <3> QED BY <3>1, <3>2
    <2> HIDE DEF m
    <2> QED BY <1>1, <1>2, <2>1, <2>2, <2>3
  <1> HIDE DEF Agree
  <1> QED BY <1>5, <1>7, <1>8, <1>9, <1>10, StepEntries

(* Nothing is committed, paid or collected at the start.                   *)
LEMMA RecordsInit == Init => Agree(Committed, Paid, Collected)
  <1> SUFFICES ASSUME Init PROVE Agree(Committed, Paid, Collected)
    OBVIOUS
  <1>1. \A R \in SUBSET Requests : /\ InStatus(R, {"Approved", "Processing"}) = {}
                                   /\ InStatus(R, {"Completed"}) = {}
    BY DEF Init, StoreInit, InStatus
  <1>2. Total({}) = 0
    <2>1. SumOver(Minor, {}) = 0
      BY SumEmpty
    <2> QED BY <2>1 DEF Total, SumOver
  <1>3. Committed = 0 /\ Paid = 0 /\ Collected = 0
    BY <1>1, <1>2, StoreAssumption DEF Committed, Paid, Collected
  <1>4. \A a \in Accounts : Balance(a) = 0
    BY DEF Init, StoreInit, Balance
  <1> QED BY <1>3, <1>4 DEF Agree, Accounts

(***************************************************************************)
(* The balances can be recomputed from the statuses of the requests, where *)
(* decisions about one request do not race: the financial and the          *)
(* operational record agree after every save of every handler.             *)
(***************************************************************************)
THEOREM BooksMatchRequests ==
    ASSUME IsFiniteSet(Requests)
    PROVE  Spec /\ []DecisionsApart => []RecordsAgree
  <1>1. Agree(Committed, Paid, Collected) <=> RecordsAgree
    BY DEF Agree, Committed, Paid, Collected, RecordsAgree
  <1>2. /\ TypeOK /\ SettlementInv /\ EndsOnce /\ SerialInv /\ [Next]_vars
        /\ Agree(Committed, Paid, Collected)
        => Agree(Committed, Paid, Collected)'
    BY RecordsStep
  <1> QED BY <1>1, <1>2, SerialCorrect, RecordsInit, PTL DEF Spec

(***************************************************************************)
(* What relates the theorems above to the runs with a single session: such *)
(* an instance keeps decisions apart, whatever runs beside the session.    *)
(***************************************************************************)
THEOREM OneSessionIsSerial ==
    ASSUME \A s, t \in Sessions : s = t
    PROVE  Spec => /\ []NoDoubleProcessing
                   /\ []OwedWhileOpen
                   /\ ImplementsLifecycle
                   /\ SuspensionStopsPayment
                   /\ IsFiniteSet(Requests) => []RecordsAgree
  <1>1. DecisionsApart
    BY DEF DecisionsApart
  <1>2. IsFiniteSet(Requests) => (Spec /\ []DecisionsApart => []RecordsAgree)
    BY BooksMatchRequests
  <1> QED BY <1>1, <1>2, OneWorkerPays, OwesWhatIsOpen, FollowsLifecycle,
             SuspensionHolds, PTL

=============================================================================
