---------------------------- MODULE PayeeRegister ----------------------------
(***************************************************************************)
(* PayeesController: the register of those who may be paid.                *)
(*                                                                         *)
(* A clerk is one POST being served.  Each of the three handlers reads     *)
(* with one statement and saves with another, and nothing stands between a *)
(* handler and what others save in the meantime but the unique index on    *)
(* Email.  A refusal changes nothing and is a disabled action.             *)
(***************************************************************************)

CONSTANTS
    Payees,     \* ids of the rows of Payees, one for each email at least
    Emails,
    Users,      \* signed-in users
    Approvers,  \* those in the Approver role
    Clerks,     \* POSTs to PayeesController that may be in flight together
    None        \* SQL NULL, and the absence of a row

PayeeStatuses == {"Unverified", "Verified", "Suspended"}

PayeeRows == [email : Emails, status : PayeeStatuses, taxFormOnFile : BOOLEAN,
              createdBy : Users, verifiedBy : Approvers \cup {None}]

ASSUME RegisterAssumption ==
    /\ Approvers \subseteq Users
    /\ None \notin Users
    /\ None \notin PayeeRows

VARIABLES
    payee,  \* the rows of Payees
    clerk   \* where each handler is, and what it has read

registerVars == <<payee, clerk>>

IdleClerk == [step |-> "idle"]

ClerkStates ==
    {IdleClerk}
    \cup [step : {"insert"}, row : PayeeRows]
    \cup [step : {"saveVerified"}, payee : Payees, user : Approvers]
    \cup [step : {"saveSuspended"}, payee : Payees, loaded : PayeeStatuses]

RegisterTypeOK ==
    /\ payee \in [Payees -> PayeeRows \cup {None}]
    /\ clerk \in [Clerks -> ClerkStates]

RegisterInit ==
    /\ payee = [p \in Payees |-> None]
    /\ clerk = [c \in Clerks |-> IdleClerk]

Registered == {p \in Payees : payee[p] # None}

EmailTaken(email) == \E p \in Registered : payee[p].email = email

(* The handler of c moves on, or is done.                                  *)
Proceed(c, to) == clerk' = [clerk EXCEPT ![c] = to]

(* Create: no payee with the email was found.                              *)
LookForEmail(c, u, email, taxForm) ==
    /\ clerk[c] = IdleClerk
    /\ ~EmailTaken(email)
    /\ Proceed(c, [step |-> "insert",
                   row  |-> [email |-> email, status |-> "Unverified",
                             taxFormOnFile |-> taxForm, createdBy |-> u,
                             verifiedBy |-> None]])
    /\ UNCHANGED payee

(* Mutant of InsertPayee: Email has no unique index.                       *)
InsertPayeeAnyEmail(c) ==
    /\ clerk[c].step = "insert"
    /\ \E p \in Payees \ Registered : payee' = [payee EXCEPT ![p] = clerk[c].row]
    /\ Proceed(c, IdleClerk)

InsertPayee(c) ==
    /\ clerk[c].step = "insert"
    /\ ~EmailTaken(clerk[c].row.email)
    /\ \E p \in Payees \ Registered : payee' = [payee EXCEPT ![p] = clerk[c].row]
    /\ Proceed(c, IdleClerk)

(* The unique index fails the insert; nothing catches it here.             *)
RefusePayee(c) ==
    /\ clerk[c].step = "insert"
    /\ EmailTaken(clerk[c].row.email)
    /\ Proceed(c, IdleClerk)
    /\ UNCHANGED payee

(* Mutants of LoadToVerify: the status, or the creator, is not looked at.  *)
LoadToVerifyAnyStatus(c, u, p) ==
    /\ clerk[c] = IdleClerk
    /\ p \in Registered
    /\ payee[p].createdBy # u
    /\ payee[p].taxFormOnFile
    /\ Proceed(c, [step |-> "saveVerified", payee |-> p, user |-> u])
    /\ UNCHANGED payee

LoadToVerifyOwn(c, u, p) ==
    /\ clerk[c] = IdleClerk
    /\ p \in Registered
    /\ payee[p].status = "Unverified"
    /\ payee[p].taxFormOnFile
    /\ Proceed(c, [step |-> "saveVerified", payee |-> p, user |-> u])
    /\ UNCHANGED payee

LoadToVerify(c, u, p) ==
    /\ clerk[c] = IdleClerk
    /\ p \in Registered
    /\ payee[p].status = "Unverified"
    /\ payee[p].createdBy # u
    /\ payee[p].taxFormOnFile
    /\ Proceed(c, [step |-> "saveVerified", payee |-> p, user |-> u])
    /\ UNCHANGED payee

(* The UPDATE is keyed by the id: it overwrites whatever status is there.  *)
SaveVerified(c) ==
    /\ clerk[c].step = "saveVerified"
    /\ payee' = [payee EXCEPT ![clerk[c].payee].status = "Verified",
                              ![clerk[c].payee].verifiedBy = clerk[c].user]
    /\ Proceed(c, IdleClerk)

LoadToSuspend(c, p) ==
    /\ clerk[c] = IdleClerk
    /\ p \in Registered
    /\ Proceed(c, [step |-> "saveSuspended", payee |-> p, loaded |-> payee[p].status])
    /\ UNCHANGED payee

(* A payee loaded as suspended has no changed column, so nothing is sent.  *)
SaveSuspended(c) ==
    /\ clerk[c].step = "saveSuspended"
    /\ payee' = IF clerk[c].loaded = "Suspended" THEN payee
                ELSE [payee EXCEPT ![clerk[c].payee].status = "Suspended"]
    /\ Proceed(c, IdleClerk)

RegisterNext ==
    \E c \in Clerks :
        \/ \E u \in Users, email \in Emails, taxForm \in BOOLEAN :
               LookForEmail(c, u, email, taxForm)
        \/ InsertPayee(c)
        \/ RefusePayee(c)
        \/ \E u \in Approvers, p \in Payees : LoadToVerify(c, u, p)
        \/ SaveVerified(c)
        \/ \E p \in Payees : LoadToSuspend(c, p)
        \/ SaveSuspended(c)

=============================================================================
