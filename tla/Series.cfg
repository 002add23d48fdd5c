CONSTANTS
    Works = {s1, s2}
    QueueSize = 2
    Growing = {s1}
    MaxTasks = 5
    NoTask = NoTask
    LastTask = LastTask
SPECIFICATION Spec
INVARIANTS
    RunsInOrder
    NothingLeftBehind
    ParallelDoneLast
PROPERTIES
    ParallelEnds
