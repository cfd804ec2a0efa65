SPECIFICATION FairSpec
CONSTANTS
    Replicas = {r1, r2, r3}
    Migrators = {r1}
    IdentitySeeders = {r1, r2}
    Configured = {"Requester", "Approver"}
    Acceptable = {"Approver"}
    LedgerAccounts = {cash, payable}
    MaxStops = 2
INVARIANTS
    TypeOK
    ServedLedgerIsWhole
    RoleBeforeGrant
    OnlyCutShortLackRole
PROPERTIES
    EveryReplicaServes
CHECK_DEADLOCK FALSE
