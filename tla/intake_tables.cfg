SPECIFICATION Spec
CONSTANTS
    None = None
    Payees = {p1, p2}
    Emails = {supplier}
    Users = {ana, raj}
    Approvers = {ana, raj}
    Clerks = {k1, k2}
    Keys = {form}
    RequestIds = {r1, r2}
    Submitters = {s1, s2}
SYMMETRY PoolSymmetry
INVARIANTS
    TypeOK
    OneRequestPerForm
    LoserHasWinner
    OnePayeePerEmail
    VettedPayee
PROPERTIES
    SettledSuspensionStands
