SPECIFICATION FairSpec
CONSTANTS
    None = None
    Automatic = automatic
    Connections = {n1, n2}
    Chats = {c1}
    Callers = {caller}
    MaxAttempts = 2
CHECK_DEADLOCK FALSE
INVARIANTS
    TypeOK
    ConnectionsAreSound
PROPERTIES
    ManagedSpec
    CloseEndsEverything
