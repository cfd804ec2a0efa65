--------------------------- MODULE Intake_proofs ---------------------------
(***************************************************************************)
(* Theorems about Intake, for any number of forms, payees and handlers.    *)
(***************************************************************************)
EXTENDS Intake, TLAPS

(* A payee whose verification was independent and had a tax form.  What    *)
(* Verify checks is true of the payee for good.                            *)
Vetted(p) ==
    /\ p \in Registered
    /\ payee[p].taxFormOnFile
    /\ payee[p].verifiedBy \in Approvers \ {payee[p].createdBy}

VerifiedAreVetted ==
    \A p \in Registered : payee[p].status = "Verified" => Vetted(p)

(* What a handler of the register read is still true when it saves.        *)
ClerksKnow ==
    \A c \in Clerks :
        /\ clerk[c].step = "insert" => clerk[c].row.status = "Unverified"
        /\ clerk[c].step = "saveVerified" =>
               /\ clerk[c].payee \in Registered
               /\ payee[clerk[c].payee].taxFormOnFile
               /\ payee[clerk[c].payee].createdBy # clerk[c].user
        /\ clerk[c].step = "saveSuspended" => clerk[c].payee \in Registered

SubmissionsVetted ==
    \A s \in Submitters :
        submission[s].step # "idle" /\ submission[s].row.type = "Disbursement" =>
            Vetted(submission[s].row.payee)

RegisterInv == RegisterTypeOK /\ VerifiedAreVetted /\ ClerksKnow

(* The fields a handler of the register carries at each step.              *)
LEMMA ClerkFields ==
    ASSUME RegisterTypeOK, NEW c \in Clerks
    PROVE  /\ clerk[c].step = "insert" => clerk[c].row \in PayeeRows
           /\ clerk[c].step = "saveVerified" =>
                  clerk[c].payee \in Payees /\ clerk[c].user \in Approvers
           /\ clerk[c].step = "saveSuspended" =>
                  clerk[c].payee \in Payees /\ clerk[c].loaded \in PayeeStatuses
BY DEF RegisterTypeOK, ClerkStates, IdleClerk

(* A submission that is not idle carries a row.                            *)
LEMMA SubmissionFields ==
    ASSUME SubmissionTypeOK, NEW s \in Submitters
    PROVE  /\ submission[s] = IdleSubmission <=> submission[s].step = "idle"
           /\ submission[s].step # "idle" =>
                  /\ submission[s].row \in RequestRows
                  /\ submission[s] \in [step : {"lookUp", "insert", "findWinner"},
                                        row : RequestRows]
BY DEF SubmissionTypeOK, SubmissionStates, IdleSubmission

(* A registered payee is a row.                                            *)
LEMMA RegisteredRow ==
    ASSUME RegisterTypeOK, NEW p \in Registered
    PROVE  p \in Payees /\ payee[p] \in PayeeRows
BY DEF RegisterTypeOK, Registered

-----------------------------------------------------------------------------

(* A handler of the register that only reads: what it carries on is typed  *)
(* and true, and the table is as it was (LookForEmail, LoadToVerify,       *)
(* LoadToSuspend, RefusePayee).                                            *)
LEMMA ReadingKeeps ==
    ASSUME RegisterInv, NEW c \in Clerks, UNCHANGED payee,
           \/ \E u \in Users, email \in Emails, taxForm \in BOOLEAN :
                  LookForEmail(c, u, email, taxForm)
           \/ RefusePayee(c)
           \/ \E u \in Approvers, p \in Payees : LoadToVerify(c, u, p)
           \/ \E p \in Payees : LoadToSuspend(c, p)
    PROVE  RegisterInv'
<1>. USE DEF RegisterInv, RegisterTypeOK, Proceed
<1>1. CASE \E u \in Users, email \in Emails, taxForm \in BOOLEAN :
               LookForEmail(c, u, email, taxForm)
  <2>1. PICK u \in Users, email \in Emails, taxForm \in BOOLEAN :
            LookForEmail(c, u, email, taxForm)
    BY <1>1
  <2>. DEFINE row == [email |-> email, status |-> "Unverified",
                      taxFormOnFile |-> taxForm, createdBy |-> u, verifiedBy |-> None]
  <2>2. row \in PayeeRows /\ row.status = "Unverified"
    BY DEF PayeeRows, PayeeStatuses
  <2>3. clerk' = [clerk EXCEPT ![c] = [step |-> "insert", row |-> row]]
    BY <2>1 DEF LookForEmail
  <2>4. [step |-> "insert", row |-> row] \in ClerkStates
    BY <2>2 DEF ClerkStates
  <2>. HIDE DEF row
  <2>5. RegisterTypeOK'
    BY <2>3, <2>4
  <2>6. ClerksKnow' /\ VerifiedAreVetted'
    BY <2>2, <2>3 DEF ClerksKnow, VerifiedAreVetted, Vetted, Registered
  <2>. QED
    BY <2>5, <2>6
<1>2. CASE RefusePayee(c)
  BY <1>2 DEF RefusePayee, ClerkStates, IdleClerk, ClerksKnow, VerifiedAreVetted, Vetted,
              Registered
<1>3. CASE \E u \in Approvers, p \in Payees : LoadToVerify(c, u, p)
  <2>1. PICK u \in Approvers, p \in Payees : LoadToVerify(c, u, p)
    BY <1>3
  <2>2. clerk' = [clerk EXCEPT ![c] = [step |-> "saveVerified", payee |-> p, user |-> u]]
    BY <2>1 DEF LoadToVerify
  <2>3. RegisterTypeOK'
    BY <2>2 DEF ClerkStates
  <2>4. ClerksKnow' /\ VerifiedAreVetted'
    BY <2>1, <2>2 DEF LoadToVerify, ClerksKnow, VerifiedAreVetted, Vetted, Registered
  <2>. QED
    BY <2>3, <2>4
<1>4. CASE \E p \in Payees : LoadToSuspend(c, p)
  <2>1. PICK p \in Payees : LoadToSuspend(c, p)
    BY <1>4
  <2>2. clerk' = [clerk EXCEPT ![c] = [step |-> "saveSuspended", payee |-> p,
                                       loaded |-> payee[p].status]]
    BY <2>1 DEF LoadToSuspend
  <2>3. p \in Registered /\ payee[p].status \in PayeeStatuses
    BY <2>1, RegisteredRow DEF LoadToSuspend, PayeeRows
  <2>4. RegisterTypeOK'
    BY <2>2, <2>3 DEF ClerkStates
  <2>5. ClerksKnow' /\ VerifiedAreVetted'
    BY <2>2, <2>3 DEF ClerksKnow, VerifiedAreVetted, Vetted, Registered
  <2>. QED
    BY <2>4, <2>5
<1>. QED
  BY <1>1, <1>2, <1>3, <1>4

(* What a step of the register keeps, besides its invariant.               *)
Kept ==
    /\ \A p \in Payees : Vetted(p) => Vetted(p)'
    /\ OnePayeePerEmail => OnePayeePerEmail'

(* InsertPayee fills an empty row with a payee nobody has verified.        *)
LEMMA InsertKeeps ==
    ASSUME RegisterInv, NEW c \in Clerks, InsertPayee(c)
    PROVE  RegisterInv' /\ Kept
<1>. USE DEF RegisterInv, RegisterTypeOK
<1>1. PICK p \in Payees \ Registered : payee' = [payee EXCEPT ![p] = clerk[c].row]
  BY DEF InsertPayee
<1>2. clerk' = [clerk EXCEPT ![c] = IdleClerk]
  BY DEF InsertPayee, Proceed
<1>3. /\ clerk[c].row \in PayeeRows
      /\ clerk[c].row.status = "Unverified"
      /\ ~EmailTaken(clerk[c].row.email)
  BY ClerkFields DEF InsertPayee, ClerksKnow
<1>4. RegisterTypeOK'
  BY <1>1, <1>2, <1>3 DEF ClerkStates
<1>5. \A q \in Registered : payee'[q] = payee[q]
  BY <1>1 DEF Registered
<1>6. payee'[p] = clerk[c].row /\ Registered' = Registered \cup {p}
  BY <1>1, <1>3, RegisterAssumption DEF Registered
<1>7. VerifiedAreVetted'
  BY <1>3, <1>5, <1>6 DEF VerifiedAreVetted, Vetted
<1>8. ClerksKnow'
  BY <1>2, <1>5, <1>6 DEF ClerksKnow, IdleClerk
<1>9. \A q \in Payees : Vetted(q) => Vetted(q)'
  BY <1>5, <1>6 DEF Vetted
<1>10. OnePayeePerEmail => OnePayeePerEmail'
  BY <1>3, <1>5, <1>6 DEF OnePayeePerEmail, EmailTaken
<1>. QED
  BY <1>4, <1>7, <1>8, <1>9, <1>10 DEF Kept

(* SaveVerified makes a vetted payee of the one it loaded.                 *)
LEMMA VerifyKeeps ==
    ASSUME RegisterInv, NEW c \in Clerks, SaveVerified(c)
    PROVE  RegisterInv' /\ Kept
<1>. USE DEF RegisterInv, RegisterTypeOK
<1>. DEFINE p == clerk[c].payee
            u == clerk[c].user
<1>1. /\ p \in Registered /\ p \in Payees /\ payee[p] \in PayeeRows /\ u \in Approvers
      /\ payee[p].taxFormOnFile /\ payee[p].createdBy # u
  BY ClerkFields, RegisteredRow DEF SaveVerified, ClerksKnow
<1>2. /\ clerk' = [clerk EXCEPT ![c] = IdleClerk]
      /\ payee' = [payee EXCEPT ![p] = [payee[p] EXCEPT !.status = "Verified",
                                                        !.verifiedBy = u]]
  BY <1>1 DEF SaveVerified, Proceed, PayeeRows
<1>. HIDE DEF p, u
<1>3. /\ payee'[p] \in PayeeRows
      /\ payee'[p].taxFormOnFile = payee[p].taxFormOnFile
      /\ payee'[p].createdBy = payee[p].createdBy
      /\ payee'[p].email = payee[p].email
      /\ payee'[p].verifiedBy = u
  BY <1>1, <1>2 DEF PayeeRows, PayeeStatuses
<1>4. \A q \in Payees : q # p => payee'[q] = payee[q]
  BY <1>2
<1>5. Registered' = Registered
  BY <1>1, <1>3, <1>4, RegisterAssumption DEF Registered
<1>6. RegisterTypeOK'
  BY <1>1, <1>2, <1>3 DEF ClerkStates
<1>7. \A q \in Payees : Vetted(q) \/ q = p => Vetted(q)'
  BY <1>1, <1>3, <1>4, <1>5 DEF Vetted
<1>8. VerifiedAreVetted'
  BY <1>4, <1>5, <1>7 DEF VerifiedAreVetted, Registered
<1>9. ClerksKnow'
  BY <1>2, <1>3, <1>4, <1>5, ClerkFields DEF ClerksKnow, IdleClerk
<1>10. OnePayeePerEmail => OnePayeePerEmail'
  BY <1>3, <1>4, <1>5 DEF OnePayeePerEmail, Registered
<1>. QED
  BY <1>6, <1>7, <1>8, <1>9, <1>10 DEF Kept

(* SaveSuspended writes the status and nothing else.                       *)
LEMMA SuspendKeeps ==
    ASSUME RegisterInv, NEW c \in Clerks, SaveSuspended(c)
    PROVE  RegisterInv' /\ Kept
<1>. USE DEF RegisterInv, RegisterTypeOK
<1>. DEFINE p == clerk[c].payee
<1>1. p \in Registered /\ p \in Payees /\ payee[p] \in PayeeRows
  BY ClerkFields, RegisteredRow DEF SaveSuspended, ClerksKnow
<1>2. /\ clerk' = [clerk EXCEPT ![c] = IdleClerk]
      /\ \/ payee' = payee
         \/ payee' = [payee EXCEPT ![p] = [payee[p] EXCEPT !.status = "Suspended"]]
  BY <1>1 DEF SaveSuspended, Proceed, PayeeRows
<1>. HIDE DEF p
<1>3. /\ payee'[p] \in PayeeRows
      /\ payee'[p].taxFormOnFile = payee[p].taxFormOnFile
      /\ payee'[p].createdBy = payee[p].createdBy
      /\ payee'[p].email = payee[p].email
      /\ payee'[p].verifiedBy = payee[p].verifiedBy
      /\ payee'[p].status \in {"Suspended", payee[p].status}
  BY <1>1, <1>2 DEF PayeeRows, PayeeStatuses
<1>4. \A q \in Payees : q # p => payee'[q] = payee[q]
  BY <1>2
<1>5. Registered' = Registered
  BY <1>1, <1>3, <1>4, RegisterAssumption DEF Registered
<1>6. RegisterTypeOK'
  BY <1>1, <1>2, <1>3 DEF ClerkStates
<1>7. \A q \in Payees : Vetted(q) => Vetted(q)'
  BY <1>3, <1>4, <1>5 DEF Vetted
<1>8. VerifiedAreVetted'
  BY <1>3, <1>4, <1>5, <1>7 DEF VerifiedAreVetted, Registered
<1>9. ClerksKnow'
  BY <1>2, <1>3, <1>4, <1>5, ClerkFields DEF ClerksKnow, IdleClerk
<1>10. OnePayeePerEmail => OnePayeePerEmail'
  BY <1>3, <1>4, <1>5 DEF OnePayeePerEmail, Registered
<1>. QED
  BY <1>6, <1>7, <1>8, <1>9, <1>10 DEF Kept

(* No step of PayeesController breaks the register or unmakes a vetting.   *)
LEMMA RegisterKeeps ==
    ASSUME RegisterInv, RegisterNext
    PROVE  RegisterInv' /\ Kept
<1>1. PICK c \in Clerks :
        \/ \E u \in Users, email \in Emails, taxForm \in BOOLEAN :
               LookForEmail(c, u, email, taxForm)
        \/ InsertPayee(c)
        \/ RefusePayee(c)
        \/ \E u \in Approvers, p \in Payees : LoadToVerify(c, u, p)
        \/ SaveVerified(c)
        \/ \E p \in Payees : LoadToSuspend(c, p)
        \/ SaveSuspended(c)
  BY DEF RegisterNext
<1>2. CASE InsertPayee(c)
  BY <1>2, InsertKeeps
<1>3. CASE SaveVerified(c)
  BY <1>3, VerifyKeeps
<1>4. CASE SaveSuspended(c)
  BY <1>4, SuspendKeeps
<1>5. CASE \/ \E u \in Users, email \in Emails, taxForm \in BOOLEAN :
                  LookForEmail(c, u, email, taxForm)
           \/ RefusePayee(c)
           \/ \E u \in Approvers, p \in Payees : LoadToVerify(c, u, p)
           \/ \E p \in Payees : LoadToSuspend(c, p)
  <2>1. UNCHANGED payee
    BY <1>5 DEF LookForEmail, RefusePayee, LoadToVerify, LoadToSuspend
  <2>2. RegisterInv'
    BY <1>5, <2>1, ReadingKeeps
  <2>3. Kept
    BY <2>1 DEF Kept, Vetted, OnePayeePerEmail, Registered
  <2>. QED
    BY <2>2, <2>3
<1>. QED
  BY <1>1, <1>2, <1>3, <1>4, <1>5

-----------------------------------------------------------------------------

SubmissionInv ==
    SubmissionTypeOK /\ SubmissionsVetted /\ VettedPayee /\ OneRequestPerForm /\ LoserHasWinner

(* A submission is admitted for a payee who is verified, hence vetted.     *)
LEMMA SubmitKeeps ==
    ASSUME RegisterInv, SubmissionInv, UNCHANGED registerVars,
           NEW s \in Submitters, NEW row \in RequestRows, Submit(s, row)
    PROVE  SubmissionInv'
<1>. USE DEF SubmissionInv, SubmissionTypeOK, registerVars
<1>1. /\ submission' = [submission EXCEPT ![s] = [step |-> "lookUp", row |-> row]]
      /\ request' = request
  BY DEF Submit
<1>2. row.type = "Disbursement" => Vetted(row.payee)
  BY DEF Submit, RegisterInv, VerifiedAreVetted
<1>3. SubmissionTypeOK'
  BY <1>1 DEF SubmissionStates
<1>4. SubmissionsVetted'
  BY <1>1, <1>2 DEF SubmissionsVetted, Vetted, Registered
<1>5. VettedPayee' /\ OneRequestPerForm'
  BY <1>1 DEF VettedPayee, OneRequestPerForm, Inserted, Registered
<1>6. LoserHasWinner'
  BY <1>1 DEF LoserHasWinner, KeyTaken, Inserted
<1>. QED
  BY <1>3, <1>4, <1>5, <1>6

(* A submission that looks its key up, loses it, fails or is answered      *)
(* leaves the table, and loses only to a row that is there.                *)
LEMMA AnswerKeeps ==
    ASSUME SubmissionInv, UNCHANGED registerVars, NEW s \in Submitters,
           FindExisting(s) \/ FindNone(s) \/ LoseKey(s) \/ FailInsert(s) \/ FindWinner(s)
    PROVE  SubmissionInv'
<1>. USE DEF SubmissionInv, registerVars
<1>1. request' = request /\ submission[s].step # "idle"
  BY SubmissionFields
     DEF FindExisting, FindNone, LoseKey, FailInsert, FindWinner, MoveOn
<1>2. PICK next \in SubmissionStates :
        /\ submission' = [submission EXCEPT ![s] = next]
        /\ next = IdleSubmission \/ next.row = submission[s].row
        /\ next.step = "findWinner" => KeyTaken(next.row.key)
  <2>1. CASE FindNone(s) \/ LoseKey(s)
    <3>1. PICK to \in {"insert", "findWinner"} :
            /\ submission' = [submission EXCEPT ![s] = [submission[s] EXCEPT !.step = to]]
            /\ to = "findWinner" => KeyTaken(submission[s].row.key)
      BY <2>1 DEF FindNone, LoseKey, MoveOn
    <3>2. [submission[s] EXCEPT !.step = to] = [step |-> to, row |-> submission[s].row]
      BY <1>1, SubmissionFields
    <3>3. [step |-> to, row |-> submission[s].row] \in SubmissionStates
      BY <1>1, SubmissionFields DEF SubmissionStates
    <3>. QED
      BY <3>1, <3>2, <3>3
  <2>2. CASE FindExisting(s) \/ FailInsert(s) \/ FindWinner(s)
    BY <2>2 DEF FindExisting, FailInsert, FindWinner, Answer, SubmissionStates, IdleSubmission
  <2>. QED
    BY <2>1, <2>2
<1>3. SubmissionTypeOK'
  BY <1>1, <1>2 DEF SubmissionTypeOK
<1>4. SubmissionsVetted'
  BY <1>1, <1>2 DEF SubmissionsVetted, SubmissionTypeOK, Vetted, Registered, IdleSubmission
<1>5. VettedPayee' /\ OneRequestPerForm'
  BY <1>1 DEF VettedPayee, OneRequestPerForm, Inserted, Registered
<1>6. LoserHasWinner'
  BY <1>1, <1>2 DEF LoserHasWinner, SubmissionTypeOK, KeyTaken, Inserted, IdleSubmission
<1>. QED
  BY <1>3, <1>4, <1>5, <1>6

(* The unique index lets the first row of a key in, and no other.          *)
LEMMA InsertRequestKeeps ==
    ASSUME SubmissionInv, UNCHANGED registerVars, NEW s \in Submitters, InsertRequest(s)
    PROVE  SubmissionInv'
<1>. USE DEF SubmissionInv, registerVars
<1>. DEFINE row == submission[s].row
<1>1. PICK i \in RequestIds \ Inserted : request' = [request EXCEPT ![i] = row]
  BY DEF InsertRequest
<1>2. submission' = [submission EXCEPT ![s] = IdleSubmission]
  BY DEF InsertRequest, Answer
<1>3. /\ row \in RequestRows /\ ~KeyTaken(row.key)
      /\ row.type = "Disbursement" => Vetted(row.payee)
  BY SubmissionFields DEF InsertRequest, SubmissionsVetted
<1>. HIDE DEF row
<1>4. request'[i] = row /\ \A j \in Inserted : request'[j] = request[j]
  BY <1>1 DEF SubmissionTypeOK, Inserted
<1>5. Inserted' = Inserted \cup {i}
  BY <1>1, <1>3, SubmissionAssumption DEF SubmissionTypeOK, Inserted
<1>6. SubmissionTypeOK'
  BY <1>1, <1>2, <1>3 DEF SubmissionTypeOK, SubmissionStates
<1>7. SubmissionsVetted'
  BY <1>2 DEF SubmissionTypeOK, SubmissionsVetted, Vetted, Registered, IdleSubmission
<1>8. VettedPayee'
  BY <1>3, <1>4, <1>5 DEF VettedPayee, Vetted, Registered
<1>9. OneRequestPerForm'
  BY <1>3, <1>4, <1>5 DEF OneRequestPerForm, KeyTaken
<1>10. LoserHasWinner'
  BY <1>2, <1>4, <1>5 DEF LoserHasWinner, KeyTaken, SubmissionTypeOK, IdleSubmission
<1>. QED
  BY <1>6, <1>7, <1>8, <1>9, <1>10

(* A step of the register leaves what submissions rely on.                 *)
LEMMA SubmissionsStand ==
    ASSUME SubmissionInv, UNCHANGED submissionVars, \A p \in Payees : Vetted(p) => Vetted(p)'
    PROVE  SubmissionInv'
<1>. USE DEF SubmissionInv, submissionVars
<1>1. \A p : Vetted(p) => Vetted(p)'
  BY DEF Vetted, Registered
<1>2. SubmissionTypeOK' /\ OneRequestPerForm' /\ LoserHasWinner'
  BY DEF SubmissionTypeOK, OneRequestPerForm, LoserHasWinner, KeyTaken, Inserted
<1>3. SubmissionsVetted'
  BY <1>1 DEF SubmissionsVetted
<1>4. VettedPayee'
  BY <1>1 DEF VettedPayee, Vetted, Inserted
<1>. QED
  BY <1>2, <1>3, <1>4

IntakeInv == RegisterInv /\ SubmissionInv /\ OnePayeePerEmail

(* The tables are empty and the handlers idle.                             *)
LEMMA InitInv == Init => IntakeInv
BY DEF Init, RegisterInit, SubmissionInit, IntakeInv, RegisterInv, RegisterTypeOK,
       SubmissionInv, SubmissionTypeOK, VerifiedAreVetted, ClerksKnow, SubmissionsVetted,
       VettedPayee, OneRequestPerForm, OnePayeePerEmail, LoserHasWinner, Registered,
       Inserted, ClerkStates, SubmissionStates, IdleClerk, IdleSubmission

(* No step of either controller breaks the invariant.                      *)
LEMMA NextKeeps == IntakeInv /\ [Next]_vars => IntakeInv'
<1>. SUFFICES ASSUME IntakeInv, [Next]_vars PROVE IntakeInv'
  OBVIOUS
<1>. USE DEF IntakeInv
<1>1. CASE RegisterNext /\ UNCHANGED submissionVars
  BY <1>1, RegisterKeeps, SubmissionsStand DEF Kept
<1>2. CASE SubmissionNext /\ UNCHANGED registerVars
  <2>1. RegisterInv' /\ OnePayeePerEmail'
    BY <1>2 DEF registerVars, RegisterInv, RegisterTypeOK, VerifiedAreVetted, Vetted,
                ClerksKnow, OnePayeePerEmail, Registered
  <2>2. PICK s \in Submitters :
          \/ \E row \in RequestRows : Submit(s, row)
          \/ FindExisting(s) \/ FindNone(s) \/ LoseKey(s) \/ FailInsert(s) \/ FindWinner(s)
          \/ InsertRequest(s)
    BY <1>2 DEF SubmissionNext
  <2>. QED
    BY <1>2, <2>1, <2>2, SubmitKeeps, AnswerKeeps, InsertRequestKeeps
<1>3. CASE UNCHANGED vars
  BY <1>3, SubmissionsStand
     DEF vars, registerVars, RegisterInv, RegisterTypeOK, VerifiedAreVetted, Vetted,
         ClerksKnow, OnePayeePerEmail, Registered
<1>. QED
  BY <1>1, <1>2, <1>3 DEF Next

(* The invariant holds in every behaviour.                                 *)
LEMMA Invariant == Spec => []IntakeInv
BY InitInv, NextKeeps, PTL DEF Spec

-----------------------------------------------------------------------------

(* The tables and the handlers stay typed, for any number of either.       *)
THEOREM TypeCorrect == Spec => []TypeOK
<1>1. IntakeInv => TypeOK
  BY DEF IntakeInv, RegisterInv, SubmissionInv, TypeOK
<1>. QED
  BY <1>1, Invariant, PTL

(* A form makes one request, however many submissions of it overlap.       *)
THEOREM FormsAreIdempotent == Spec => []OneRequestPerForm
<1>1. IntakeInv => OneRequestPerForm
  BY DEF IntakeInv, SubmissionInv
<1>. QED
  BY <1>1, Invariant, PTL

(* Every disbursement on file is for a payee whom somebody other than the  *)
(* one who entered the payee has verified, with a tax form.                *)
THEOREM PayeesAreVetted == Spec => []VettedPayee
<1>1. IntakeInv => VettedPayee
  BY DEF IntakeInv, SubmissionInv
<1>. QED
  BY <1>1, Invariant, PTL

(* One row for each email, however many entries of it overlap.             *)
THEOREM EmailsAreUnique == Spec => []OnePayeePerEmail
<1>1. IntakeInv => OnePayeePerEmail
  BY DEF IntakeInv
<1>. QED
  BY <1>1, Invariant, PTL

(* FirstAsync finds a row for whoever lost the unique index.               *)
THEOREM LosersAreAnswered == Spec => []LoserHasWinner
<1>1. IntakeInv => LoserHasWinner
  BY DEF IntakeInv, SubmissionInv
<1>. QED
  BY <1>1, Invariant, PTL

(* A suspended payee whom no handler still verifies stays suspended.       *)
LEMMA BlockedStays ==
    ASSUME RegisterInv, [Next]_vars, NEW p \in Payees, BlockedForGood(p)
    PROVE  BlockedForGood(p)'
<1>. USE DEF RegisterInv, RegisterTypeOK
<1>0. p \in Registered /\ payee[p] \in PayeeRows /\ payee[p].status = "Suspended"
  BY RegisteredRow DEF BlockedForGood, Suspended
<1>1. CASE UNCHANGED registerVars
  BY <1>1 DEF registerVars, BlockedForGood, Suspended, BeingVerified, Registered
<1>2. CASE RegisterNext
  <2>1. PICK c \in Clerks :
          \/ \E u \in Users, email \in Emails, taxForm \in BOOLEAN :
                 LookForEmail(c, u, email, taxForm)
          \/ InsertPayee(c)
          \/ RefusePayee(c)
          \/ \E u \in Approvers, q \in Payees : LoadToVerify(c, u, q)
          \/ SaveVerified(c)
          \/ \E q \in Payees : LoadToSuspend(c, q)
          \/ SaveSuspended(c)
    BY <1>2 DEF RegisterNext
  <2>2. PICK next :
          /\ clerk' = [clerk EXCEPT ![c] = next]
          /\ next.step = "saveVerified" => next.payee # p
    BY <1>0, <2>1
       DEF LookForEmail, InsertPayee, RefusePayee, LoadToVerify, SaveVerified,
           LoadToSuspend, SaveSuspended, Proceed, IdleClerk
  <2>3. ~BeingVerified(p)'
    BY <2>2 DEF BlockedForGood, BeingVerified
  <2>4. payee'[p].status = "Suspended" /\ payee'[p] # None
    <3>1. CASE InsertPayee(c)
      BY <1>0, <3>1 DEF InsertPayee, Registered
    <3>2. CASE SaveVerified(c)
      BY <1>0, <3>2 DEF SaveVerified, BlockedForGood, BeingVerified, Registered
    <3>3. CASE SaveSuspended(c)
      <4>1. /\ clerk[c].payee = p =>
                  payee' = payee \/ payee'[p] = [payee[p] EXCEPT !.status = "Suspended"]
            /\ clerk[c].payee # p => payee'[p] = payee[p]
        BY <1>0, <3>3 DEF SaveSuspended
      <4>2. [payee[p] EXCEPT !.status = "Suspended"] \in PayeeRows
        BY <1>0 DEF PayeeRows, PayeeStatuses
      <4>3. [payee[p] EXCEPT !.status = "Suspended"].status = "Suspended"
        BY <1>0 DEF PayeeRows
      <4>. QED
        BY <1>0, <4>1, <4>2, <4>3, RegisterAssumption DEF Registered
    <3>4. CASE UNCHANGED payee
      BY <1>0, <3>4 DEF Registered
    <3>. QED
      BY <2>1, <3>1, <3>2, <3>3, <3>4
         DEF LookForEmail, RefusePayee, LoadToVerify, LoadToSuspend
  <2>. QED
    BY <2>3, <2>4 DEF BlockedForGood, Suspended, Registered
<1>. QED
  BY <1>1, <1>2 DEF Next, vars

(* A suspension nobody's older verification can undo is final.             *)
THEOREM SuspensionIsFinal == Spec => SettledSuspensionStands
<1>1. IntakeInv /\ [Next]_vars
        => [\A p \in Payees : BlockedForGood(p) => BlockedForGood(p)']_vars
  BY BlockedStays DEF IntakeInv
<1>. QED
  BY <1>1, Invariant, PTL DEF Spec, SettledSuspensionStands

=============================================================================
