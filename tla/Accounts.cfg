SPECIFICATION AccountsFairSpec
CONSTANTS
    Desk = desk
    Editor = editor
    Other = other
    MaxSessions = 3
    MaxFaults = 1
PROPERTIES
    SessionsAreKept
    EnabledComesBack
    DisabledServerIsQuiet
    DeadSessionIsDropped
