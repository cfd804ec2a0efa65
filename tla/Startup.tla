------------------------------ MODULE Startup ------------------------------
(***************************************************************************)
(* Program, IdentitySeeder and LedgerSeeder: what every process does to    *)
(* the database before it serves a request.                                *)
(*                                                                         *)
(* Each item is looked for in one statement and created in another, and    *)
(* processes that start together interleave.  An exception or a stop ends  *)
(* the process; the container runtime launches it again.  Identity refuses *)
(* a name it finds taken, and a unique index fails an insert that a name   *)
(* came in front of.                                                       *)
(***************************************************************************)
EXTENDS Naturals

CONSTANTS
    Replicas,        \* processes of the application
    Migrators,       \* those with RunMigrationsAtStartup
    IdentitySeeders, \* those with SeedIdentity
    Configured,      \* roles whose demo user has a password configured
    Acceptable,      \* those whose password Identity's policy accepts
    LedgerAccounts,  \* pairs of a code and a currency
    MaxStops         \* bound: stops from outside

RoleNames == {"Requester", "Approver"}

ASSUME StartupAssumption ==
    /\ Migrators # {} /\ Migrators \subseteq Replicas
    /\ IdentitySeeders \subseteq Replicas
    /\ Configured \subseteq RoleNames
    /\ Acceptable \subseteq Configured
    /\ MaxStops \in Nat

VARIABLES
    migrated,  \* the schema is there
    roles,     \* AspNetRoles
    users,     \* AspNetUsers: the demo users, named by the role each is for
    granted,   \* AspNetUserRoles: the users who have that role
    accounts,  \* LedgerAccounts: how many rows each account has
    process,   \* how far each process is
    stops,     \* stops so far
    cutShort   \* history: the users whose creator was stopped before its grant

identityVars == <<roles, users, granted>>
vars == <<migrated, identityVars, accounts, process, stops, cutShort>>

Down == [step |-> "down"]
(* With --migrate-only a process ends here instead.                        *)
Serving == [step |-> "serving"]

ProcessStates ==
    [step : {"down", "migrate", "readAccounts", "serving"}]
    \cup [step : {"findRole", "createRole", "findUser"}, role : RoleNames]
    \cup [step : {"createUser"}, role : Configured]
    \cup [step : {"grant"}, role : Acceptable]
    \cup [step : {"saveAccounts"}, missing : SUBSET LedgerAccounts]

Init ==
    /\ migrated = FALSE
    /\ roles = {} /\ users = {} /\ granted = {}
    /\ accounts = [a \in LedgerAccounts |-> 0]
    /\ process = [r \in Replicas |-> Down]
    /\ stops = 0 /\ cutShort = {}

-----------------------------------------------------------------------------

At(r, step) == process[r].step = step

Reach(r, state) ==
    /\ process' = [process EXCEPT ![r] = state]
    /\ UNCHANGED <<stops, cutShort>>

Existing == {a \in LedgerAccounts : accounts[a] > 0}

(* Mutant of AfterRole: the users follow the first role.                   *)
AfterFirstRole(role) == [step |-> "findUser", role |-> "Requester"]

(* Both loops go through the requester and then the approver.              *)
AfterRole(role) ==
    IF role = "Requester" THEN [step |-> "findRole", role |-> "Approver"]
    ELSE [step |-> "findUser", role |-> "Requester"]

AfterUser(role) ==
    IF role = "Requester" THEN [step |-> "findUser", role |-> "Approver"]
    ELSE [step |-> "readAccounts"]

Launch(r) ==
    /\ At(r, "down")
    /\ Reach(r, [step |-> "migrate"])
    /\ UNCHANGED <<migrated, identityVars, accounts>>

(* EF Core takes a lock for a migration, so two cannot overlap.            *)
Migrate(r) ==
    /\ At(r, "migrate")
    /\ migrated' = (migrated \/ r \in Migrators)
    /\ Reach(r, IF r \in IdentitySeeders
                THEN [step |-> "findRole", role |-> "Requester"]
                ELSE [step |-> "readAccounts"])
    /\ UNCHANGED <<identityVars, accounts>>

FindRole(r) ==
    /\ At(r, "findRole")
    /\ migrated
    /\ LET role == process[r].role
       IN  Reach(r, IF role \in roles THEN AfterRole(role)
                    ELSE [step |-> "createRole", role |-> role])
    /\ UNCHANGED <<migrated, identityVars, accounts>>

(* The result is not looked at: a role found taken by now is left as it is. *)
CreateRole(r) ==
    /\ At(r, "createRole")
    /\ roles' = roles \cup {process[r].role}
    /\ Reach(r, AfterRole(process[r].role))
    /\ UNCHANGED <<migrated, users, granted, accounts>>

FindUser(r) ==
    /\ At(r, "findUser")
    /\ migrated
    /\ LET role == process[r].role
       IN  Reach(r, IF role \in users \/ role \notin Configured THEN AfterUser(role)
                    ELSE [step |-> "createUser", role |-> role])
    /\ UNCHANGED <<migrated, identityVars, accounts>>

(* Mutant of CreateUser: the new user is not put in the role.              *)
CreateUserOnly(r) ==
    /\ At(r, "createUser")
    /\ process[r].role \in Acceptable \ users
    /\ users' = users \cup {process[r].role}
    /\ Reach(r, AfterUser(process[r].role))
    /\ UNCHANGED <<migrated, roles, granted, accounts>>

CreateUser(r) ==
    /\ At(r, "createUser")
    /\ process[r].role \in Acceptable \ users
    /\ users' = users \cup {process[r].role}
    /\ Reach(r, [process[r] EXCEPT !.step = "grant"])
    /\ UNCHANGED <<migrated, roles, granted, accounts>>

(* Mutant of RefuseUser: the result is not looked at, as CreateRole's.     *)
RefuseUserUnseen(r) ==
    /\ At(r, "createUser")
    /\ process[r].role \notin Acceptable \/ process[r].role \in users
    /\ Reach(r, [process[r] EXCEPT !.step = "grant"])
    /\ UNCHANGED <<migrated, identityVars, accounts>>

(***************************************************************************)
(* Identity refuses the password, or the name as taken.  The failed result *)
(* is logged as an error, and this process grants nothing.                 *)
(***************************************************************************)
RefuseUser(r) ==
    /\ At(r, "createUser")
    /\ process[r].role \notin Acceptable \/ process[r].role \in users
    /\ Reach(r, AfterUser(process[r].role))
    /\ UNCHANGED <<migrated, identityVars, accounts>>

Grant(r) ==
    /\ At(r, "grant")
    /\ process[r].role \in roles
    /\ granted' = granted \cup {process[r].role}
    /\ Reach(r, AfterUser(process[r].role))
    /\ UNCHANGED <<migrated, roles, users, accounts>>

(* Mutant of ReadAccounts: what is there is not left out.                  *)
ReadAccountsUnfiltered(r) ==
    /\ At(r, "readAccounts")
    /\ migrated
    /\ Reach(r, [step |-> "saveAccounts", missing |-> LedgerAccounts])
    /\ UNCHANGED <<migrated, identityVars, accounts>>

ReadAccounts(r) ==
    /\ At(r, "readAccounts")
    /\ migrated
    /\ Reach(r, [step |-> "saveAccounts", missing |-> LedgerAccounts \ Existing])
    /\ UNCHANGED <<migrated, identityVars, accounts>>

(* Mutant of SaveAccounts: Code and Currency have no unique index.         *)
SaveAccountsUnindexed(r) ==
    /\ At(r, "saveAccounts")
    /\ accounts' = [a \in LedgerAccounts |->
           IF a \in process[r].missing THEN accounts[a] + 1 ELSE accounts[a]]
    /\ Reach(r, Serving)
    /\ UNCHANGED <<migrated, identityVars>>

(* All in one save; the process then serves and starts its worker.         *)
SaveAccounts(r) ==
    /\ At(r, "saveAccounts")
    /\ process[r].missing \cap Existing = {}
    /\ accounts' = [a \in LedgerAccounts |->
           IF a \in process[r].missing THEN accounts[a] + 1 ELSE accounts[a]]
    /\ Reach(r, Serving)
    /\ UNCHANGED <<migrated, identityVars>>

(* A table that is not there, a unique index, a role to be granted that    *)
(* does not exist: nothing catches the exception.                          *)
Throws(r) ==
    \/ process[r].step \in {"findRole", "findUser", "readAccounts"} /\ ~migrated
    \/ At(r, "createRole") /\ process[r].role \in roles
    \/ At(r, "createUser") /\ process[r].role \in Acceptable \cap users
    \/ At(r, "grant") /\ process[r].role \notin roles
    \/ At(r, "saveAccounts") /\ process[r].missing \cap Existing # {}

Die(r) ==
    /\ Throws(r)
    /\ Reach(r, Down)
    /\ UNCHANGED <<migrated, identityVars, accounts>>

(* From outside, wherever the process is.                                  *)
Stop(r) ==
    /\ stops < MaxStops
    /\ ~At(r, "down")
    /\ stops' = stops + 1
    /\ cutShort' = IF At(r, "grant") THEN cutShort \cup {process[r].role} ELSE cutShort
    /\ process' = [process EXCEPT ![r] = Down]
    /\ UNCHANGED <<migrated, identityVars, accounts>>

Advance(r) ==
    \/ Launch(r) \/ Migrate(r)
    \/ FindRole(r) \/ CreateRole(r)
    \/ FindUser(r) \/ CreateUser(r) \/ RefuseUser(r) \/ Grant(r)
    \/ ReadAccounts(r) \/ SaveAccounts(r)
    \/ Die(r)

Next == \E r \in Replicas : Advance(r) \/ Stop(r)

(* A process runs, and is launched again when it has ended.                *)
Fairness == \A r \in Replicas : WF_vars(Advance(r))

Spec == Init /\ [][Next]_vars
FairSpec == Spec /\ Fairness

-----------------------------------------------------------------------------

(* The tables and the processes hold values of their types, and only those *)
(* users are there whose password is configured and accepted.              *)
TypeOK ==
    /\ migrated \in BOOLEAN
    /\ roles \subseteq RoleNames
    /\ users \subseteq Acceptable
    /\ granted \subseteq users
    /\ accounts \in [LedgerAccounts -> Nat]
    /\ process \in [Replicas -> ProcessStates]
    /\ stops \in 0..MaxStops
    /\ cutShort \subseteq users

(***************************************************************************)
(* A process that serves has every account of the ledger, and each once,   *)
(* whoever else started meanwhile: AddPostingAsync throws for a missing    *)
(* account, and its dictionary for a double one.                           *)
(***************************************************************************)
ServedLedgerIsWhole ==
    (\E r \in Replicas : At(r, "serving")) => \A a \in LedgerAccounts : accounts[a] = 1

(***************************************************************************)
(* A role is there before a user is to get it, whichever process created   *)
(* either: AddToRoleAsync throws for a role that does not exist.           *)
(***************************************************************************)
RoleBeforeGrant == \A r \in Replicas : At(r, "grant") => process[r].role \in roles

AllServing == \A r \in Replicas : At(r, "serving")

(***************************************************************************)
(* Processes seeding together lose nothing between them, and what any stop *)
(* leaves behind is made up for but in one case: when all serve, every     *)
(* user whose password is accepted is there, and those without their role, *)
(* whom no later start gives it, are those whose creator was stopped       *)
(* between the two writes.                                                 *)
(***************************************************************************)
OnlyCutShortLackRole ==
    AllServing /\ IdentitySeeders # {} =>
        /\ users = Acceptable
        /\ granted = users \ cutShort

(***************************************************************************)
(* Every process serves in the end, whatever it lost to another and        *)
(* wherever it was stopped: a restart meets only what it can leave alone.  *)
(***************************************************************************)
EveryReplicaServes == \A r \in Replicas : <>[]At(r, "serving")

=============================================================================
