CONSTANTS
    Queues = {q1, q2}
    Sessions = {s1, s2, s3, s4}
    Workers = {w1, w2}
    Client = client
    Canceller = canceller
    NoQueue = NoQueue
    NoSession = NoSession
SPECIFICATION FairExecSpec
INVARIANTS
    ScheduledOnceIffWork
    HandledAtMostOnce
PROPERTIES
    SessionsHandled
