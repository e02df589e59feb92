SPECIFICATION Spec
CONSTANTS
    customer = customer
    staff = staff
    None = None
    Users = {customer, staff}
    Access <- MCAccess
    SubmitIds = {g1, g2}
    BatchIds = {b1}
    Contents <- MCContents
    Keys = {k1}
    Verifications = {v1, v2}
    MaxRevision = 1
    MaxReminders = 1
SYMMETRY Symmetry
CONSTRAINT TwoOrders
INVARIANTS
    TypeOK
    ReviewIsRespected
    RecordsAgree
PROPERTY FinalIsImmutable
