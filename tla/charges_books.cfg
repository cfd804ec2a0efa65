SPECIFICATION Spec
CONSTANTS
    d1 = d1
    d2 = d2
    c1 = c1
    Requests = {d1, d2, c1}
    Disbursements = {d1, d2}
    Half = 5
    Least = 9
    FormAmounts <- MCFormAmounts
    FundAmounts = {4, 5, 20}
    StripeLimit = 10
    MaxLong = 12
    MaxCash = 3
SYMMETRY RequestSymmetry
INVARIANTS
    TypeOK
    ReservedToTheUnit
    ReservedIsCovered
    NoDisbursementStranded
    DriftBounded
CHECK_DEADLOCK FALSE
