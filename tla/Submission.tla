----------------------------- MODULE Submission -----------------------------
(***************************************************************************)
(* PaymentRequestsController.Create: a submitted form becomes a request.   *)
(*                                                                         *)
(* The key is minted when the form is rendered and comes back with every   *)
(* submission of that form; what else the form says may differ from one    *)
(* submission to the next.  The payee is looked at first, then the key,    *)
(* and the insert comes last, each in a statement of its own.              *)
(***************************************************************************)
EXTENDS PayeeRegister

CONSTANTS
    Keys,        \* idempotency keys of the forms rendered
    RequestIds,  \* ids of the rows of PaymentRequests, one for each key at least
    Submitters   \* POSTs to Create that may be in flight together

RequestRows ==
    [key : Keys, type : {"Disbursement"}, payee : Payees, requestedBy : Users]
    \cup [key : Keys, type : {"Collection"}, payee : {None}, requestedBy : Users]

ASSUME SubmissionAssumption == None \notin RequestRows

VARIABLES
    request,     \* the rows of PaymentRequests, as Create inserts them
    submission   \* where each handler is, and the row it would insert

submissionVars == <<request, submission>>

IdleSubmission == [step |-> "idle"]

SubmissionStates ==
    {IdleSubmission} \cup [step : {"lookUp", "insert", "findWinner"}, row : RequestRows]

SubmissionTypeOK ==
    /\ request \in [RequestIds -> RequestRows \cup {None}]
    /\ submission \in [Submitters -> SubmissionStates]

SubmissionInit ==
    /\ request = [i \in RequestIds |-> None]
    /\ submission = [s \in Submitters |-> IdleSubmission]

Inserted == {i \in RequestIds : request[i] # None}

KeyTaken(key) == \E i \in Inserted : request[i].key = key

Answer(s) == submission' = [submission EXCEPT ![s] = IdleSubmission]

MoveOn(s, from, to) ==
    /\ submission[s].step = from
    /\ submission' = [submission EXCEPT ![s].step = to]
    /\ UNCHANGED request

(* Mutant of Submit: the form's payee is taken over for a collection too.  *)
SubmitFormPayee(s, row) ==
    /\ submission[s] = IdleSubmission
    /\ row.type = "Disbursement" =>
           row.payee \in Registered /\ payee[row.payee].status = "Verified"
    /\ \E p \in Payees :
          /\ row.type = "Disbursement" => p = row.payee
          /\ submission' = [submission EXCEPT
                 ![s] = [step |-> "lookUp", row |-> [row EXCEPT !.payee = p]]]
    /\ UNCHANGED request

(* A disbursement names a payee who is verified when looked at.            *)
Submit(s, row) ==
    /\ submission[s] = IdleSubmission
    /\ row.type = "Disbursement" =>
           row.payee \in Registered /\ payee[row.payee].status = "Verified"
    /\ submission' = [submission EXCEPT ![s] = [step |-> "lookUp", row |-> row]]
    /\ UNCHANGED request

(* The key is known: the submission is redirected to the request it names. *)
FindExisting(s) ==
    /\ submission[s].step = "lookUp"
    /\ KeyTaken(submission[s].row.key)
    /\ Answer(s)
    /\ UNCHANGED request

FindNone(s) ==
    /\ MoveOn(s, "lookUp", "insert")
    /\ ~KeyTaken(submission[s].row.key)

(* Mutant of InsertRequest: IdempotencyKey has no unique index.            *)
InsertRequestAnyKey(s) ==
    /\ submission[s].step = "insert"
    /\ \E i \in RequestIds \ Inserted : request' = [request EXCEPT ![i] = submission[s].row]
    /\ Answer(s)

InsertRequest(s) ==
    /\ submission[s].step = "insert"
    /\ ~KeyTaken(submission[s].row.key)
    /\ \E i \in RequestIds \ Inserted : request' = [request EXCEPT ![i] = submission[s].row]
    /\ Answer(s)

(* SQLSTATE 23505: another submission of the form was first.               *)
LoseKey(s) ==
    /\ MoveOn(s, "insert", "findWinner")
    /\ KeyTaken(submission[s].row.key)

(* Mutant of FailInsert: every failure is taken for a lost key.            *)
FailAsLost(s) == MoveOn(s, "insert", "findWinner")

(* Any other failure of the insert is not caught.  An insert that commits  *)
(* without the client learning of it is InsertRequest.                     *)
FailInsert(s) ==
    /\ submission[s].step = "insert"
    /\ Answer(s)
    /\ UNCHANGED request

(* FirstAsync on the key; it would throw if there were no such row.        *)
FindWinner(s) ==
    /\ submission[s].step = "findWinner"
    /\ KeyTaken(submission[s].row.key)
    /\ Answer(s)
    /\ UNCHANGED request

SubmissionNext ==
    \E s \in Submitters :
        \/ \E row \in RequestRows : Submit(s, row)
        \/ FindExisting(s)
        \/ FindNone(s)
        \/ InsertRequest(s)
        \/ LoseKey(s)
        \/ FailInsert(s)
        \/ FindWinner(s)

=============================================================================
