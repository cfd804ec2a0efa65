--------------------------- MODULE Startup_proofs ---------------------------
(***************************************************************************)
(* Theorems about Startup, for any number of processes that start, stop    *)
(* and fail together, and any accounts of the ledger.                      *)
(***************************************************************************)
EXTENDS Startup, TLAPS

(* Past the loop over the roles both are there; past its first round, the  *)
(* requester's.  A user to be granted a role has been created.             *)
ItemsAreMade ==
    \A r \in Replicas :
        /\ process[r].step \in {"findRole", "createRole"} /\ process[r].role = "Approver"
               => "Requester" \in roles
        /\ process[r].step \in {"findUser", "createUser", "grant"} => RoleNames \subseteq roles
        /\ process[r].step = "grant" => process[r].role \in users

(* What a process is to insert completes the ledger, and accounts only     *)
(* come.                                                                   *)
AccountsAreWhole ==
    /\ \A a \in LedgerAccounts : accounts[a] <= 1
    /\ \A r \in Replicas :
           /\ At(r, "saveAccounts") => LedgerAccounts \ Existing \subseteq process[r].missing
           /\ At(r, "serving") => Existing = LedgerAccounts

StartupInv == TypeOK /\ ItemsAreMade /\ AccountsAreWhole

(* The fields a process carries at each step.                              *)
LEMMA ProcessFields ==
    ASSUME TypeOK, NEW r \in Replicas
    PROVE  /\ process[r].step \in {"findRole", "createRole", "findUser"} =>
                  process[r].role \in RoleNames
           /\ process[r].step = "createUser" =>
                  process[r] \in [step : {"createUser"}, role : Configured]
           /\ process[r].step = "grant" =>
                  process[r] \in [step : {"grant"}, role : Acceptable]
           /\ process[r].step \in {"createUser", "grant"} => process[r].role \in RoleNames
           /\ process[r].step = "saveAccounts" => process[r].missing \subseteq LedgerAccounts
BY StartupAssumption DEF TypeOK, ProcessStates

(* Both loops lead to a state of a process.                                *)
LEMMA LoopStates ==
    ASSUME NEW role \in RoleNames
    PROVE  /\ AfterRole(role) \in ProcessStates
           /\ AfterUser(role) \in ProcessStates
           /\ AfterRole(role).step \in {"findRole", "findUser"}
           /\ AfterRole(role).step = "findRole" =>
                  role = "Requester" /\ AfterRole(role).role = "Approver"
           /\ AfterRole(role).step = "findUser" => role = "Approver"
           /\ AfterUser(role).step \in {"findUser", "readAccounts"}
BY DEF AfterRole, AfterUser, ProcessStates, RoleNames

(* The database is empty and nothing runs.                                 *)
LEMMA InitInv == Init => StartupInv
<1>. SUFFICES ASSUME Init PROVE StartupInv
  OBVIOUS
<1>1. \A r \in Replicas : process[r] \in ProcessStates /\ process[r].step = "down"
  BY DEF Init, Down, ProcessStates
<1>2. TypeOK
  <2>1. process \in [Replicas -> ProcessStates]
    BY <1>1 DEF Init
  <2>2. accounts \in [LedgerAccounts -> Nat] /\ stops \in 0..MaxStops
        /\ cutShort \subseteq users
    BY StartupAssumption DEF Init
  <2>. QED
    BY <2>1, <2>2 DEF Init, TypeOK
<1>3. ItemsAreMade
  BY <1>1 DEF ItemsAreMade
<1>4. AccountsAreWhole
  BY <1>1 DEF Init, AccountsAreWhole, At
<1>. QED
  BY <1>2, <1>3, <1>4 DEF StartupInv

(* A step leaves the tables typed and takes nothing out of them.           *)
TablesGrow ==
    /\ migrated' \in BOOLEAN /\ stops' \in 0..MaxStops
    /\ roles \subseteq roles' /\ roles' \subseteq RoleNames
    /\ users \subseteq users' /\ users' \subseteq Acceptable
    /\ granted' \subseteq users' /\ cutShort' \subseteq users'
    /\ accounts' \in [LedgerAccounts -> Nat]
    /\ \A a \in LedgerAccounts : accounts[a] <= accounts'[a] /\ accounts'[a] <= 1

(* The state a process moves to is typed and agrees with the tables.       *)
Sound(next) ==
    /\ next \in ProcessStates
    /\ next.step \in {"findRole", "createRole"} /\ next.role = "Approver"
           => "Requester" \in roles'
    /\ next.step \in {"findUser", "createUser", "grant"} => RoleNames \subseteq roles'
    /\ next.step = "grant" => next.role \in users'
    /\ next.step = "saveAccounts" => LedgerAccounts \ Existing' \subseteq next.missing
    /\ next.step = "serving" => Existing' = LedgerAccounts

(* Growing tables make nothing untrue that a process relies on, so the     *)
(* invariant rests on the one that moves.                                  *)
LEMMA ReachKeeps ==
    ASSUME StartupInv, TablesGrow, NEW r \in Replicas, NEW next, Sound(next),
           process' = [process EXCEPT ![r] = next]
    PROVE  StartupInv'
<1>1. Existing \subseteq Existing' /\ Existing' \subseteq LedgerAccounts
  BY DEF TablesGrow, StartupInv, TypeOK, Existing
<1>2. TypeOK'
  BY DEF TablesGrow, Sound, StartupInv, TypeOK
<1>3. ItemsAreMade'
  BY DEF TablesGrow, Sound, StartupInv, TypeOK, ItemsAreMade
<1>4. AccountsAreWhole'
  BY <1>1 DEF TablesGrow, Sound, StartupInv, TypeOK, AccountsAreWhole, At
<1>. QED
  BY <1>2, <1>3, <1>4 DEF StartupInv

(* Tables that stay as they are have grown.                                *)
LEMMA Unchanging ==
    ASSUME StartupInv, UNCHANGED <<identityVars, accounts>>,
           migrated' \in BOOLEAN, stops' \in 0..MaxStops, cutShort' \subseteq users
    PROVE  TablesGrow /\ Existing' = Existing
BY DEF TablesGrow, identityVars, StartupInv, TypeOK, AccountsAreWhole, Existing

(* A process that is launched, dies or is stopped relies on nothing.       *)
LEMMA EndsKeep ==
    ASSUME StartupInv, NEW r \in Replicas, Launch(r) \/ Die(r) \/ Stop(r)
    PROVE  StartupInv'
<1>1. PICK next \in {Down, [step |-> "migrate"]} : process' = [process EXCEPT ![r] = next]
  BY DEF Launch, Die, Stop, Reach
<1>2. Sound(next)
  BY DEF Sound, Down, ProcessStates
<1>3. stops' \in 0..MaxStops
  BY StartupAssumption DEF Launch, Die, Stop, Reach, StartupInv, TypeOK
<1>4. migrated' \in BOOLEAN /\ UNCHANGED <<identityVars, accounts>>
  BY DEF Launch, Die, Stop, StartupInv, TypeOK
<1>5. cutShort' \subseteq users
  BY DEF Launch, Die, Stop, Reach, At, StartupInv, TypeOK, ItemsAreMade
<1>. QED
  BY <1>1, <1>2, <1>3, <1>4, <1>5, Unchanging, ReachKeeps

(* The first item of either seeder presupposes nothing.                    *)
LEMMA MigrateKeeps ==
    ASSUME StartupInv, NEW r \in Replicas, Migrate(r)
    PROVE  StartupInv'
<1>1. PICK next \in {[step |-> "findRole", role |-> "Requester"], [step |-> "readAccounts"]} :
          process' = [process EXCEPT ![r] = next]
  BY DEF Migrate, Reach
<1>2. Sound(next)
  BY DEF Sound, ProcessStates, RoleNames
<1>3. /\ UNCHANGED <<identityVars, accounts>>
      /\ migrated' \in BOOLEAN /\ stops' \in 0..MaxStops /\ cutShort' \subseteq users
  BY DEF Migrate, Reach, StartupInv, TypeOK
<1>. QED
  BY <1>1, <1>2, <1>3, Unchanging, ReachKeeps

(* The loop goes on from a role when that role is there.                   *)
LEMMA RolesKeep ==
    ASSUME StartupInv, NEW r \in Replicas, FindRole(r) \/ CreateRole(r)
    PROVE  StartupInv'
<1>. DEFINE role == process[r].role
<1>1. role \in RoleNames /\ (role = "Approver" => "Requester" \in roles)
  BY ProcessFields DEF FindRole, CreateRole, At, StartupInv, ItemsAreMade
<1>2. /\ roles \subseteq roles' /\ roles' \subseteq RoleNames
      /\ UNCHANGED <<migrated, users, granted, accounts, stops, cutShort>>
  BY <1>1 DEF FindRole, CreateRole, Reach, identityVars, StartupInv, TypeOK
<1>3. TablesGrow
  BY <1>2 DEF TablesGrow, StartupInv, TypeOK, AccountsAreWhole
<1>4. \/ process' = [process EXCEPT ![r] = AfterRole(role)] /\ role \in roles'
      \/ process' = [process EXCEPT ![r] = [step |-> "createRole", role |-> role]]
  BY DEF FindRole, CreateRole, Reach, identityVars
<1>. HIDE DEF role
<1>5. CASE process' = [process EXCEPT ![r] = AfterRole(role)] /\ role \in roles'
  <2>1. role = "Approver" => RoleNames \subseteq roles'
    BY <1>1, <1>2, <1>5 DEF RoleNames
  <2>2. Sound(AfterRole(role))
    BY <1>1, <1>5, <2>1, LoopStates DEF Sound
  <2>. QED
    BY <1>3, <1>5, <2>2, ReachKeeps
<1>6. CASE process' = [process EXCEPT ![r] = [step |-> "createRole", role |-> role]]
  <2>1. Sound([step |-> "createRole", role |-> role])
    BY <1>1, <1>2 DEF Sound, ProcessStates
  <2>. QED
    BY <1>3, <1>6, <2>1, ReachKeeps
<1>. QED
  BY <1>4, <1>5, <1>6

(* Users come when both roles are there.                                   *)
LEMMA UsersKeep ==
    ASSUME StartupInv, NEW r \in Replicas,
           FindUser(r) \/ CreateUser(r) \/ RefuseUser(r) \/ Grant(r)
    PROVE  StartupInv'
<1>. DEFINE role == process[r].role
<1>0. TypeOK
  BY DEF StartupInv
<1>1. role \in RoleNames /\ RoleNames \subseteq roles
  BY <1>0, ProcessFields, StartupAssumption
     DEF FindUser, CreateUser, RefuseUser, Grant, At, StartupInv, ItemsAreMade
<1>2. UNCHANGED <<migrated, roles, accounts, stops, cutShort>>
  BY DEF FindUser, CreateUser, RefuseUser, Grant, Reach, identityVars
<1>3. users' \subseteq Acceptable /\ granted' \subseteq users'
  <2>1. CASE FindUser(r) \/ RefuseUser(r)
    BY <1>0, <2>1 DEF FindUser, RefuseUser, identityVars, TypeOK
  <2>2. CASE CreateUser(r)
    BY <1>0, <2>2 DEF CreateUser, TypeOK
  <2>3. CASE Grant(r)
    <3>1. role \in users
      BY <2>3 DEF Grant, At, StartupInv, ItemsAreMade
    <3>. QED
      BY <1>0, <2>3, <3>1 DEF Grant, TypeOK
  <2>. QED
    BY <2>1, <2>2, <2>3
<1>4. TablesGrow
  BY <1>2, <1>3 DEF FindUser, CreateUser, RefuseUser, Grant, identityVars,
                    TablesGrow, StartupInv, TypeOK, AccountsAreWhole
<1>5. \/ process' = [process EXCEPT ![r] = AfterUser(role)]
      \/ \E step \in {"createUser", "grant"} :
             /\ role \in Configured
             /\ step = "grant" => role \in Acceptable /\ role \in users'
             /\ process' = [process EXCEPT ![r] = [step |-> step, role |-> role]]
  <2>1. CASE CreateUser(r)
    <3>1. role \in Configured
          /\ [process[r] EXCEPT !.step = "grant"] = [step |-> "grant", role |-> role]
      BY <1>0, <2>1, ProcessFields DEF CreateUser, At
    <3>. QED
      BY <2>1, <3>1 DEF CreateUser, Reach
  <2>2. CASE FindUser(r)
    BY <2>2 DEF FindUser, Reach
  <2>3. CASE RefuseUser(r) \/ Grant(r)
    BY <2>3 DEF RefuseUser, Grant, Reach
  <2>. QED
    BY <2>1, <2>2, <2>3
<1>. HIDE DEF role
<1>6. CASE process' = [process EXCEPT ![r] = AfterUser(role)]
  <2>1. Sound(AfterUser(role))
    BY <1>1, <1>2, LoopStates DEF Sound
  <2>. QED
    BY <1>4, <1>6, <2>1, ReachKeeps
<1>7. ASSUME NEW step \in {"createUser", "grant"}, role \in Configured,
             step = "grant" => role \in Acceptable /\ role \in users',
             process' = [process EXCEPT ![r] = [step |-> step, role |-> role]]
      PROVE  StartupInv'
  <2>1. Sound([step |-> step, role |-> role])
    BY <1>1, <1>2, <1>7 DEF Sound, ProcessStates
  <2>. QED
    BY <1>4, <1>7, <2>1, ReachKeeps
<1>. QED
  BY <1>5, <1>6, <1>7

(* A process inserts what it missed, and only if nobody else has.          *)
LEMMA AccountsKeep ==
    ASSUME StartupInv, NEW r \in Replicas, ReadAccounts(r) \/ SaveAccounts(r)
    PROVE  StartupInv'
<1>1. CASE ReadAccounts(r)
  <2>. DEFINE next == [step |-> "saveAccounts", missing |-> LedgerAccounts \ Existing]
  <2>1. TablesGrow /\ Existing' = Existing
    BY <1>1, Unchanging DEF ReadAccounts, Reach, StartupInv, TypeOK
  <2>2. Sound(next)
    BY <2>1 DEF Sound, ProcessStates
  <2>3. process' = [process EXCEPT ![r] = next]
    BY <1>1 DEF ReadAccounts, Reach
  <2>. HIDE DEF next
  <2>. QED
    BY <2>1, <2>2, <2>3, ReachKeeps
<1>2. CASE SaveAccounts(r)
  <2>1. /\ LedgerAccounts \ Existing \subseteq process[r].missing
        /\ process[r].missing \cap Existing = {}
        /\ accounts' = [a \in LedgerAccounts |->
               IF a \in process[r].missing THEN accounts[a] + 1 ELSE accounts[a]]
    BY <1>2 DEF SaveAccounts, StartupInv, AccountsAreWhole
  <2>2. \A a \in LedgerAccounts : accounts[a] \in Nat /\ accounts[a] <= 1
    BY DEF StartupInv, TypeOK, AccountsAreWhole
  <2>3. \A a \in LedgerAccounts :
            IF a \in process[r].missing THEN accounts[a] = 0 ELSE accounts[a] > 0
    BY <2>1, <2>2 DEF Existing
  <2>4. \A a \in LedgerAccounts : /\ accounts'[a] \in Nat /\ accounts'[a] <= 1
                                  /\ accounts[a] <= accounts'[a] /\ accounts'[a] > 0
    BY <2>1, <2>2, <2>3
  <2>5. accounts' \in [LedgerAccounts -> Nat]
    BY <2>1, <2>4
  <2>6. Existing' = LedgerAccounts
    BY <2>4 DEF Existing
  <2>7. TablesGrow
    BY <1>2, <2>4, <2>5
       DEF SaveAccounts, Reach, identityVars, TablesGrow, StartupInv, TypeOK
  <2>8. process' = [process EXCEPT ![r] = Serving] /\ Sound(Serving)
    BY <1>2, <2>6 DEF SaveAccounts, Reach, Serving, Sound, ProcessStates
  <2>. QED
    BY <2>7, <2>8, ReachKeeps
<1>. QED
  BY <1>1, <1>2

(* No step of a process, and no stop, breaks the invariant.                *)
LEMMA NextKeeps == StartupInv /\ [Next]_vars => StartupInv'
<1>. SUFFICES ASSUME StartupInv, [Next]_vars PROVE StartupInv'
  OBVIOUS
<1>1. CASE UNCHANGED vars
  BY <1>1 DEF vars, identityVars, StartupInv, TypeOK, ItemsAreMade, AccountsAreWhole, At,
              Existing
<1>2. CASE Next
  BY <1>2, EndsKeep, MigrateKeeps, RolesKeep, UsersKeep, AccountsKeep DEF Next, Advance
<1>. QED
  BY <1>1, <1>2

(* The invariant holds in every behaviour.                                 *)
LEMMA Invariant == Spec => []StartupInv
BY InitInv, NextKeeps, PTL DEF Spec

(* The tables and the processes stay typed, whatever fails or stops.       *)
THEOREM TypeCorrect == Spec => []TypeOK
<1>1. StartupInv => TypeOK
  BY DEF StartupInv
<1>. QED
  BY <1>1, Invariant, PTL

(* A process that serves has a whole ledger, each account once.            *)
THEOREM LedgerIsWhole == Spec => []ServedLedgerIsWhole
<1>1. StartupInv => ServedLedgerIsWhole
  BY DEF StartupInv, TypeOK, AccountsAreWhole, ServedLedgerIsWhole, Existing
<1>. QED
  BY <1>1, Invariant, PTL

(* AddToRoleAsync never meets a role that is not there.                    *)
THEOREM RolesComeFirst == Spec => []RoleBeforeGrant
<1>1. StartupInv => RoleBeforeGrant
  <2>. SUFFICES ASSUME StartupInv, NEW r \in Replicas, At(r, "grant")
                PROVE  process[r].role \in roles
    BY DEF RoleBeforeGrant
  <2>1. process[r].role \in RoleNames /\ RoleNames \subseteq roles
    BY ProcessFields DEF StartupInv, ItemsAreMade, At
  <2>. QED
    BY <2>1, StartupAssumption
<1>. QED
  BY <1>1, Invariant, PTL

-----------------------------------------------------------------------------

(* A process that seeds identity and is past a user leaves it there, if it *)
(* is configured.                                                          *)
UsersAreMade ==
    \A r \in Replicas :
        /\ process[r].step \in {"findUser", "createUser", "grant"} /\ process[r].role = "Approver"
               => {"Requester"} \cap Acceptable \subseteq users
        /\ r \in IdentitySeeders /\ process[r].step \in {"readAccounts", "saveAccounts", "serving"}
               => Acceptable \subseteq users

(* A user without its role is in the hands of the process that created it, *)
(* and of no other, or was when that process was stopped.                  *)
GrantsAreComing ==
    /\ granted \cap cutShort = {}
    /\ \A u \in users \ (granted \cup cutShort) :
           \E r \in Replicas : At(r, "grant") /\ process[r].role = u
    /\ \A r \in Replicas : At(r, "grant") =>
           process[r].role \in users \ (granted \cup cutShort)
    /\ \A q, r \in Replicas :
           At(q, "grant") /\ At(r, "grant") /\ process[q].role = process[r].role => q = r

SeedInv == StartupInv /\ UsersAreMade /\ GrantsAreComing

(* What the process that moves has made of the users.                      *)
MadeBy(r, next) ==
    /\ next.step \in {"findUser", "createUser", "grant"} /\ next.role = "Approver"
           => {"Requester"} \cap Acceptable \subseteq users'
    /\ r \in IdentitySeeders /\ next.step \in {"readAccounts", "saveAccounts", "serving"}
           => Acceptable \subseteq users'

(* Users only come, so that rests on the one that moves too.               *)
LEMMA ReachMakes ==
    ASSUME TypeOK, UsersAreMade, users \subseteq users', NEW r \in Replicas, NEW next,
           process' = [process EXCEPT ![r] = next], MadeBy(r, next)
    PROVE  UsersAreMade'
<1>1. \A q \in Replicas : process'[q] = IF q = r THEN next ELSE process[q]
  BY DEF TypeOK
<1>2. ASSUME NEW q \in Replicas
      PROVE  /\ process'[q].step \in {"findUser", "createUser", "grant"}
                    /\ process'[q].role = "Approver"
                    => {"Requester"} \cap Acceptable \subseteq users'
             /\ q \in IdentitySeeders
                    /\ process'[q].step \in {"readAccounts", "saveAccounts", "serving"}
                    => Acceptable \subseteq users'
  <2>1. CASE q = r
    BY <1>1, <2>1 DEF MadeBy
  <2>2. CASE q # r
    <3>1. process'[q] = process[q]
      BY <1>1, <2>2
    <3>. QED
      BY <3>1 DEF UsersAreMade
  <2>. QED
    BY <2>1, <2>2
<1>. QED
  BY <1>2 DEF UsersAreMade

(* The loop comes to the second user, and to its end, past users made.     *)
LEMMA AfterUserMakes ==
    ASSUME UsersAreMade, users \subseteq users', NEW r \in Replicas,
           NEW role \in RoleNames, {role} \cap Acceptable \subseteq users',
           process[r].step \in {"findUser", "createUser", "grant"}, process[r].role = role
    PROVE  MadeBy(r, AfterUser(role))
<1>1. CASE role = "Requester"
  <2>1. AfterUser(role) = [step |-> "findUser", role |-> "Approver"]
    BY <1>1 DEF AfterUser
  <2>. QED
    BY <1>1, <2>1 DEF MadeBy
<1>2. CASE role = "Approver"
  <2>1. AfterUser(role) = [step |-> "readAccounts"]
    BY <1>2 DEF AfterUser
  <2>2. {"Requester"} \cap Acceptable \subseteq users
    BY <1>2 DEF UsersAreMade
  <2>3. Acceptable \subseteq users'
    BY <1>2, <2>2, StartupAssumption DEF RoleNames
  <2>. QED
    BY <2>1, <2>3 DEF MadeBy
<1>. QED
  BY <1>1, <1>2 DEF RoleNames

LEMMA UsersStep ==
    ASSUME StartupInv, UsersAreMade, [Next]_vars
    PROVE  UsersAreMade'
<1>0. TypeOK
  BY DEF StartupInv
<1>1. CASE UNCHANGED vars
  BY <1>1 DEF vars, identityVars, UsersAreMade
<1>2. ASSUME NEW r \in Replicas, Launch(r) \/ Die(r) \/ Stop(r)
      PROVE  UsersAreMade'
  <2>1. PICK next \in {Down, [step |-> "migrate"]} : process' = [process EXCEPT ![r] = next]
    BY <1>2 DEF Launch, Die, Stop, Reach
  <2>2. users' = users
    BY <1>2 DEF Launch, Die, Stop, identityVars
  <2>3. MadeBy(r, next)
    BY DEF MadeBy, Down
  <2>. QED
    BY <1>0, <2>1, <2>2, <2>3, ReachMakes
<1>3. ASSUME NEW r \in Replicas, Migrate(r)
      PROVE  UsersAreMade'
  <2>. DEFINE next == IF r \in IdentitySeeders
                      THEN [step |-> "findRole", role |-> "Requester"]
                      ELSE [step |-> "readAccounts"]
  <2>1. process' = [process EXCEPT ![r] = next] /\ users' = users
    BY <1>3 DEF Migrate, Reach, identityVars
  <2>2. MadeBy(r, next)
    BY DEF MadeBy
  <2>. HIDE DEF next
  <2>. QED
    BY <1>0, <2>1, <2>2, ReachMakes
<1>4. ASSUME NEW r \in Replicas, FindRole(r) \/ CreateRole(r)
      PROVE  UsersAreMade'
  <2>. DEFINE role == process[r].role
  <2>1. PICK next \in {AfterRole(role), [step |-> "createRole", role |-> role]} :
            process' = [process EXCEPT ![r] = next]
    BY <1>4 DEF FindRole, CreateRole, Reach
  <2>2. users' = users
    BY <1>4 DEF FindRole, CreateRole, identityVars
  <2>. HIDE DEF role
  <2>3. MadeBy(r, next)
    BY DEF MadeBy, AfterRole
  <2>. QED
    BY <1>0, <2>1, <2>2, <2>3, ReachMakes
<1>5. ASSUME NEW r \in Replicas, FindUser(r) \/ RefuseUser(r) \/ Grant(r)
      PROVE  UsersAreMade'
  <2>. DEFINE role == process[r].role
  <2>1. role \in RoleNames /\ process[r].step \in {"findUser", "createUser", "grant"}
    BY <1>0, <1>5, ProcessFields, StartupAssumption DEF FindUser, RefuseUser, Grant, At
  <2>2. users' = users
    BY <1>5 DEF FindUser, RefuseUser, Grant, identityVars
  <2>3. \/ process' = [process EXCEPT ![r] = AfterUser(role)] /\ {role} \cap Acceptable \subseteq users
        \/ process' = [process EXCEPT ![r] = [step |-> "createUser", role |-> role]]
           /\ process[r].step = "findUser"
    <3>1. CASE FindUser(r)
      <4>1. CASE role \in users \/ role \notin Configured
        <5>1. {role} \cap Acceptable \subseteq users
          BY <4>1, StartupAssumption
        <5>. QED
          BY <3>1, <4>1, <5>1 DEF FindUser, Reach
      <4>2. CASE ~(role \in users \/ role \notin Configured)
        BY <3>1, <4>2 DEF FindUser, Reach, At
      <4>. QED
        BY <4>1, <4>2
    <3>2. CASE RefuseUser(r)
      BY <3>2 DEF RefuseUser, Reach
    <3>3. CASE Grant(r)
      BY <3>3 DEF Grant, Reach, At, StartupInv, ItemsAreMade
    <3>. QED
      BY <1>5, <3>1, <3>2, <3>3
  <2>4. CASE process' = [process EXCEPT ![r] = AfterUser(role)]
             /\ {role} \cap Acceptable \subseteq users
    <3>1. MadeBy(r, AfterUser(role))
      BY <2>1, <2>2, <2>4, AfterUserMakes
    <3>. HIDE DEF role
    <3>. QED
      BY <1>0, <2>2, <2>4, <3>1, ReachMakes
  <2>5. CASE process' = [process EXCEPT ![r] = [step |-> "createUser", role |-> role]]
             /\ process[r].step = "findUser"
    <3>1. MadeBy(r, [step |-> "createUser", role |-> role])
      BY <2>1, <2>2 DEF MadeBy, UsersAreMade
    <3>. HIDE DEF role
    <3>. QED
      BY <1>0, <2>2, <2>5, <3>1, ReachMakes
  <2>. QED
    BY <2>3, <2>4, <2>5
<1>6. ASSUME NEW r \in Replicas, CreateUser(r)
      PROVE  UsersAreMade'
  <2>. DEFINE next == [process[r] EXCEPT !.step = "grant"]
  <2>1. /\ process' = [process EXCEPT ![r] = next]
        /\ users' = users \cup {process[r].role}
        /\ process[r].step = "createUser"
    BY <1>6 DEF CreateUser, Reach, At
  <2>2. next.step = "grant" /\ next.role = process[r].role
    BY <1>0, <2>1, ProcessFields
  <2>. HIDE DEF next
  <2>3. MadeBy(r, next)
    BY <2>1, <2>2 DEF MadeBy, UsersAreMade
  <2>. QED
    BY <1>0, <2>1, <2>3, ReachMakes
<1>7. ASSUME NEW r \in Replicas, ReadAccounts(r) \/ SaveAccounts(r)
      PROVE  UsersAreMade'
  <2>1. process[r].step \in {"readAccounts", "saveAccounts"} /\ users' = users
    BY <1>7 DEF ReadAccounts, SaveAccounts, At, identityVars
  <2>. DEFINE saving == [step |-> "saveAccounts", missing |-> LedgerAccounts \ Existing]
  <2>2. PICK next \in {saving, Serving} : process' = [process EXCEPT ![r] = next]
    BY <1>7 DEF ReadAccounts, SaveAccounts, Reach
  <2>3. MadeBy(r, next)
    BY <2>1, <2>2 DEF MadeBy, UsersAreMade, Serving
  <2>. HIDE DEF saving
  <2>. QED
    BY <1>0, <2>1, <2>2, <2>3, ReachMakes
<1>. QED
  BY <1>1, <1>2, <1>3, <1>4, <1>5, <1>6, <1>7 DEF Next, Advance

(* The process that creates a user takes it in hand; a grant and a stop    *)
(* let go of it.                                                           *)
LEMMA GrantsStep ==
    ASSUME StartupInv, GrantsAreComing, [Next]_vars
    PROVE  GrantsAreComing'
<1>0. TypeOK
  BY DEF StartupInv
<1>1. CASE UNCHANGED vars
  BY <1>1 DEF vars, identityVars, GrantsAreComing, At
<1>2. ASSUME NEW r \in Replicas, At(r, "grant"), ~At(r, "grant")', users' = users,
             granted' \cup cutShort' = granted \cup cutShort \cup {process[r].role},
             granted' \cap cutShort' = {},
             \A q \in Replicas : q # r => process'[q] = process[q]
      PROVE  GrantsAreComing'
  <2>1. \A q \in Replicas : At(q, "grant")' =>
            /\ q # r /\ At(q, "grant") /\ process'[q] = process[q]
            /\ process[q].role # process[r].role
    BY <1>2 DEF GrantsAreComing, At
  <2>2. \A u \in users' \ (granted' \cup cutShort') :
            \E q \in Replicas : At(q, "grant")' /\ process'[q].role = u
    <3>. SUFFICES ASSUME NEW u \in users \ (granted \cup cutShort), u # process[r].role
                  PROVE  \E q \in Replicas : At(q, "grant")' /\ process'[q].role = u
      BY <1>2
    <3>1. PICK q \in Replicas : At(q, "grant") /\ process[q].role = u
      BY DEF GrantsAreComing
    <3>. QED
      BY <1>2, <3>1 DEF At
  <2>3. \A q \in Replicas : At(q, "grant")' =>
            process'[q].role \in users' \ (granted' \cup cutShort')
    BY <1>2, <2>1 DEF GrantsAreComing
  <2>4. \A q, p \in Replicas :
            At(q, "grant")' /\ At(p, "grant")' /\ process'[q].role = process'[p].role => q = p
    BY <2>1 DEF GrantsAreComing
  <2>. QED
    BY <1>2, <2>2, <2>3, <2>4 DEF GrantsAreComing
<1>3. ASSUME NEW r \in Replicas, ~At(r, "grant"), ~At(r, "grant")',
             users' = users, granted' = granted, cutShort' = cutShort,
             \A q \in Replicas : q # r => process'[q] = process[q]
      PROVE  GrantsAreComing'
  <2>1. \A q \in Replicas : /\ At(q, "grant")' <=> At(q, "grant")
                            /\ At(q, "grant") => process'[q] = process[q]
    BY <1>3 DEF At
  <2>. QED
    BY <1>3, <2>1 DEF GrantsAreComing
<1>4. ASSUME NEW r \in Replicas, Stop(r)
      PROVE  GrantsAreComing'
  <2>1. /\ process' = [process EXCEPT ![r] = Down]
        /\ users' = users /\ granted' = granted
        /\ cutShort' = IF At(r, "grant") THEN cutShort \cup {process[r].role} ELSE cutShort
    BY <1>4 DEF Stop, identityVars
  <2>2. ~At(r, "grant")' /\ \A q \in Replicas : q # r => process'[q] = process[q]
    BY <1>0, <2>1 DEF TypeOK, At, Down
  <2>3. CASE At(r, "grant")
    <3>1. granted' \cap cutShort' = {}
      BY <2>1, <2>3 DEF GrantsAreComing
    <3>. QED
      BY <1>2, <2>1, <2>2, <2>3, <3>1
  <2>4. CASE ~At(r, "grant")
    BY <1>3, <2>1, <2>2, <2>4
  <2>. QED
    BY <2>3, <2>4
<1>5. ASSUME NEW r \in Replicas, Advance(r), ~CreateUser(r), ~Grant(r)
      PROVE  GrantsAreComing'
  <2>1. users' = users /\ granted' = granted /\ cutShort' = cutShort
    BY <1>5 DEF Advance, Launch, Migrate, FindRole, CreateRole, FindUser, RefuseUser,
                ReadAccounts, SaveAccounts, Die, Reach, identityVars
  <2>2. ~At(r, "grant")
    <3>1. CASE Die(r)
      <4>1. process[r].step = "grant" => process[r].role \in roles
        BY <1>0, ProcessFields DEF StartupInv, ItemsAreMade
      <4>. QED
        BY <3>1, <4>1 DEF Die, Throws, At
    <3>2. CASE ~Die(r)
      BY <1>5, <3>2 DEF Advance, Launch, Migrate, FindRole, CreateRole, FindUser,
                        RefuseUser, ReadAccounts, SaveAccounts, At
    <3>. QED
      BY <3>1, <3>2
  <2>3. PICK next : process' = [process EXCEPT ![r] = next] /\ next.step # "grant"
    <3>1. CASE CreateRole(r) \/ FindRole(r)
      <4>1. AfterRole(process[r].role).step # "grant"
        BY DEF AfterRole
      <4>. QED
        BY <3>1, <4>1 DEF CreateRole, FindRole, Reach
    <3>2. CASE FindUser(r) \/ RefuseUser(r)
      <4>1. AfterUser(process[r].role).step # "grant"
        BY DEF AfterUser
      <4>. QED
        BY <3>2, <4>1 DEF FindUser, RefuseUser, Reach
    <3>3. CASE Migrate(r)
      <4>. DEFINE next == IF r \in IdentitySeeders
                          THEN [step |-> "findRole", role |-> "Requester"]
                          ELSE [step |-> "readAccounts"]
      <4>1. next.step # "grant"
        OBVIOUS
      <4>2. process' = [process EXCEPT ![r] = next]
        BY <3>3 DEF Migrate, Reach
      <4>. HIDE DEF next
      <4>. QED
        BY <4>1, <4>2
    <3>4. CASE Launch(r)
      <4>1. [step |-> "migrate"].step # "grant"
        OBVIOUS
      <4>. QED
        BY <3>4, <4>1 DEF Launch, Reach
    <3>5. CASE ReadAccounts(r)
      <4>. DEFINE next == [step |-> "saveAccounts", missing |-> LedgerAccounts \ Existing]
      <4>1. next.step # "grant"
        OBVIOUS
      <4>2. process' = [process EXCEPT ![r] = next]
        BY <3>5 DEF ReadAccounts, Reach
      <4>. HIDE DEF next
      <4>. QED
        BY <4>1, <4>2
    <3>6. CASE SaveAccounts(r) \/ Die(r)
      <4>1. Down.step # "grant" /\ Serving.step # "grant"
        BY DEF Down, Serving
      <4>. QED
        BY <3>6, <4>1 DEF SaveAccounts, Die, Reach
    <3>. QED
      BY <1>5, <3>1, <3>2, <3>3, <3>4, <3>5, <3>6 DEF Advance
  <2>4. ~At(r, "grant")' /\ \A q \in Replicas : q # r => process'[q] = process[q]
    BY <1>0, <2>3 DEF TypeOK, At
  <2>. QED
    BY <1>3, <2>1, <2>2, <2>4
<1>6. ASSUME NEW r \in Replicas, CreateUser(r)
      PROVE  GrantsAreComing'
  <2>. DEFINE role == process[r].role
  <2>1. /\ process[r].step = "createUser" /\ role \notin users /\ users' = users \cup {role}
        /\ granted' = granted /\ cutShort' = cutShort
        /\ process' = [process EXCEPT ![r] = [process[r] EXCEPT !.step = "grant"]]
    BY <1>6 DEF CreateUser, Reach, At
  <2>2. process'[r].step = "grant" /\ process'[r].role = role
    BY <1>0, <2>1, ProcessFields DEF TypeOK
  <2>3. \A q \in Replicas : q # r => process'[q] = process[q]
    BY <1>0, <2>1 DEF TypeOK
  <2>4. role \notin granted /\ role \notin cutShort
    BY <1>0, <2>1 DEF TypeOK
  <2>5. \A q \in Replicas : At(q, "grant") => process[q].role # role /\ q # r
    BY <2>1 DEF GrantsAreComing, At
  <2>. HIDE DEF role
  <2>. QED
    BY <2>1, <2>2, <2>3, <2>4, <2>5 DEF GrantsAreComing, At
<1>7. ASSUME NEW r \in Replicas, Grant(r)
      PROVE  GrantsAreComing'
  <2>1. /\ At(r, "grant") /\ users' = users /\ granted' = granted \cup {process[r].role}
        /\ cutShort' = cutShort
        /\ process' = [process EXCEPT ![r] = AfterUser(process[r].role)]
    BY <1>7 DEF Grant, Reach
  <2>2. AfterUser(process[r].role).step # "grant"
    BY DEF AfterUser
  <2>3. ~At(r, "grant")' /\ \A q \in Replicas : q # r => process'[q] = process[q]
    BY <1>0, <2>1, <2>2 DEF TypeOK, At
  <2>4. granted' \cap cutShort' = {}
    BY <2>1 DEF GrantsAreComing
  <2>. QED
    BY <1>2, <2>1, <2>3, <2>4
<1>. QED
  BY <1>1, <1>4, <1>5, <1>6, <1>7 DEF Next

LEMMA SeedInvariant == Spec => []SeedInv
<1>1. Init => SeedInv
  <2>. SUFFICES ASSUME Init PROVE SeedInv
    OBVIOUS
  <2>1. UsersAreMade /\ GrantsAreComing
    BY DEF Init, Down, UsersAreMade, GrantsAreComing, At
  <2>. QED
    BY <2>1, InitInv DEF SeedInv
<1>2. SeedInv /\ [Next]_vars => SeedInv'
  BY NextKeeps, UsersStep, GrantsStep DEF SeedInv
<1>. QED
  BY <1>1, <1>2, PTL DEF Spec

(***************************************************************************)
(* Seeders that start together leave out no user whose password is         *)
(* accepted, and without its role exactly those whose creator was stopped  *)
(* between CreateAsync and AddToRoleAsync, whichever of them found what.   *)
(***************************************************************************)
THEOREM SeedingGrants == Spec => []OnlyCutShortLackRole
<1>1. SeedInv => OnlyCutShortLackRole
  <2>. SUFFICES ASSUME SeedInv, AllServing, IdentitySeeders # {}
                PROVE  users = Acceptable /\ granted = users \ cutShort
    BY DEF OnlyCutShortLackRole
  <2>1. PICK r \in IdentitySeeders : TRUE
    OBVIOUS
  <2>2. Acceptable \subseteq users
    BY <2>1, StartupAssumption DEF SeedInv, UsersAreMade, AllServing, At
  <2>3. users \subseteq granted \cup cutShort /\ granted \cap cutShort = {}
    BY DEF SeedInv, GrantsAreComing, AllServing, At
  <2>. QED
    BY <2>2, <2>3 DEF SeedInv, StartupInv, TypeOK
<1>. QED
  BY <1>1, SeedInvariant, PTL

=============================================================================
