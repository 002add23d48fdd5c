CONSTANTS
    Producers = {p1, p2}
    Consumers = {c1, c2}
    Results = {r1, r2, r3}
    ResMax = 1
    NoOne = NoOne
    NoResult = NoResult
SPECIFICATION FairQueueSpec
PROPERTIES
    ImplementsFifo
    ResultsTaken
    HandlersEnd
