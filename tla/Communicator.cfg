CONSTANTS
    Sessions = {s1, s2}
    Entries = {e1, e2}
    Clients = {c1}
    Handlers = {h1, h2}
    KeepAlive = {0, 1}
    Writes = {"all", "error", "partial"}
    NoSession = NoSession
    NoEntry = NoEntry
    NoOne = NoOne
SPECIFICATION FairSpec
INVARIANTS
    HandledAtMostOnce
    FreedWhenUnused
    IdleListSound
    ReplyUndisturbed
PROPERTIES
    SessionsHandled
CHECK_DEADLOCK FALSE
