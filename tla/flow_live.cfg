SPECIFICATION FairSpec
CONSTANTS
    None = None
    d1 = d1
    d2 = d2
    c1 = c1
    c2 = c2
    supplier = supplier
    ana = ana
    raj = raj
    s1 = s1
    s2 = s2
    w1 = w1
    w2 = w2
    h1 = h1
    h2 = h2
    Requests = {d1}
    Disbursements = {d1}
    Minor <- MCMinor
    RequestedBy <- MCRequestedBy
    Payees = {supplier}
    PayeeOf <- MCPayeeOf
    Approvers = {raj}
    Sessions = {s1}
    Workers = {w1, w2}
    Handlers = {h1, h2}
    BatchSize = 1
    MaxFaults = 1
    FundAmounts = {1}
    MaxCash = 1
PROPERTIES
    ImplementsLifecycle
    SuspensionStopsPayment
    EventsRecorded
    ReferencedSettles
