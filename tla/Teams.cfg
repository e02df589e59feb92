SPECIFICATION Spec
CONSTANTS
    None = None
    Accounts = {a1, a2, a3}
    Teams = {t1, t2, t3}
    Bosses = {b1, b2}
    Requests = {r1}
    MaxMembers = 2
    MaxDay = 1
SYMMETRY Symmetry
INVARIANTS
    MembershipIsSound
    RequestsAreDecidable
PROPERTY NobodyIsLost
