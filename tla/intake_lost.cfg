SPECIFICATION Spec
CONSTANTS
    None = None
    Payees = {p1, p2}
    Emails = {supplier}
    Users = {ana, raj}
    Approvers = {ana, raj}
    Clerks = {k1, k2}
    Keys = {form}
    RequestIds = {r1}
    Submitters = {s1}
PROPERTIES
    SuspensionStands
