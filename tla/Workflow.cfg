SPECIFICATION Spec
CONSTANTS
    user = user
    None = None
    Users = {user}
    Access <- MCAccess
    SubmitIds = {g1}
    BatchIds = {b1}
    Contents <- MCItemOrKick
    Keys = {k1}
    Verifications = {v1}
    MaxRevision = 1
    MaxReminders = 1
    Calls = {c1, c2}
CONSTRAINTS OneOrder OnlyItemsEdited OffWhenCalm
SYMMETRY Symmetry
INVARIANTS
    TypeOK
    ReviewedBeforeSending
PROPERTIES
    ReleaseAndFinishAreEarned
