------------------------------- MODULE Series -------------------------------
(***************************************************************************)
(* factory/Workflow.cc and kernel/SubTask.cc: series of tasks, each run    *)
(* after the one before it by subtask_done, and a ParallelTask that ends   *)
(* when the last of its series has ended.                                  *)
(*                                                                         *)
(* A series keeps the tasks to come in a ring buffer of its own, under its *)
(* mutex.  Its tasks run one at a time, in whatever thread ended the one   *)
(* before; the running task, and other threads while it runs, push further *)
(* tasks or cancel the series.  canceled is read before the mutex is       *)
(* taken.  (No class derived from ParallelTask exists yet, so in_parallel  *)
(* is never set and a series always deletes itself; `*entry' is written    *)
(* and never read.)                                                        *)
(***************************************************************************)
EXTENDS Integers, Sequences, FiniteSets

CONSTANTS
    Works,      \* the series
    QueueSize,  \* queue_size after construction (4)
    Growing,    \* bound: the series that tasks are pushed to
    MaxTasks,   \* bound: tasks pushed, numbered in the order of the pushes
    NoTask, LastTask

ASSUME SeriesAssumption ==
    /\ IsFiniteSet(Works) /\ Growing \subseteq Works
    /\ QueueSize \in Nat \ {0}
    /\ MaxTasks \in Nat
    /\ NoTask # LastTask /\ {NoTask, LastTask} \cap (1 .. MaxTasks) = {}

VARIABLES
    queue,      \* of each series: queue, its slots numbered from 0,
    front,      \*   front,
    back,       \*   back,
    last,       \*   last,
    canceled,   \*   canceled
    saw,        \* the local canceled of pop
    pc,         \* what the thread of each series does
    members,    \* the series that are subtasks of the ParallelTask
    undone,     \* the subtasks dispatch has not come to
    nleft,      \* nleft of the ParallelTask
    parallel,   \* what has become of the ParallelTask
    made,       \* history: the tasks pushed so far
    queued,     \* history: the tasks pushed and not popped, in their order
    after       \* history: the tasks dispatched after cancel() returned

ring == <<queue, front, back>>
seriesVars == <<ring, last, canceled, saw, pc, made, queued, after>>
parallelVars == <<members, undone, nleft, parallel>>
vars == <<seriesVars, parallelVars>>

Size(s) == Cardinality(DOMAIN queue[s])

(* new SubTask *[queue_size], and what stands for the deleted array.       *)
NoQueue == [i \in 0 .. QueueSize - 1 |-> NoTask]

(* create_series_work with and without a last task, any of the series in a *)
(* parallel task.                                                          *)
Init ==
    /\ queue = [s \in Works |-> NoQueue]
    /\ front = [s \in Works |-> 0]
    /\ back = [s \in Works |-> 0]
    /\ last \in [Works -> {NoTask, LastTask}]
    /\ canceled = [s \in Works |-> FALSE]
    /\ saw = [s \in Works |-> FALSE]
    /\ pc = [s \in Works |-> "created"]
    /\ members \in SUBSET Works
    /\ undone = {}
    /\ nleft = 0
    /\ parallel = "created"
    /\ made = 0
    /\ queued = [s \in Works |-> <<>>]
    /\ after = [s \in Works |-> 0]

-----------------------------------------------------------------------------
(* Mutant of Copied: a while instead of a do-while, nothing is copied when *)
(* front and back are the same.                                            *)
CopiedWhile(n, f, b) == (b - f) % n

(* The slots expand_queue copies from a ring of n slots.                   *)
Copied(n, f, b) == ((b - f - 1) % n) + 1

(* q with task stored in slot i, then expand_queue if the ring is full:    *)
(* f and b are front and back after the push.                              *)
Store(s, i, task, f, b) ==
    LET n == Size(s)
        q == [queue[s] EXCEPT ![i] = task]
        m == Copied(n, f, b)
        full == f = b
        bigger == [j \in 0 .. 2 * n - 1 |-> IF j < m THEN q[(f + j) % n] ELSE NoTask]
    IN  /\ queue' = [queue EXCEPT ![s] = IF full THEN bigger ELSE q]
        /\ front' = [front EXCEPT ![s] = IF full THEN 0 ELSE f]
        /\ back' = [back EXCEPT ![s] = IF full THEN m ELSE b]

(* Who pushes has the series: its creator before it starts, its running    *)
(* task, or another thread that knows the task is running.                 *)
MayPush(s) == s \in Growing /\ pc[s] \in {"created", "running"} /\ made < MaxTasks

PushFront(s) ==
    LET f == IF front[s] = 0 THEN Size(s) - 1 ELSE front[s] - 1 IN
    /\ MayPush(s)
    /\ made' = made + 1
    /\ Store(s, f, made', f, back[s])
    /\ queued' = [queued EXCEPT ![s] = <<made'>> \o @]
    /\ UNCHANGED <<last, canceled, saw, pc, after, parallelVars>>

PushBack(s) ==
    LET b == IF back[s] + 1 = Size(s) THEN 0 ELSE back[s] + 1 IN
    /\ MayPush(s)
    /\ made' = made + 1
    /\ Store(s, back[s], made', front[s], b)
    /\ queued' = [queued EXCEPT ![s] = Append(@, made')]
    /\ UNCHANGED <<last, canceled, saw, pc, after, parallelVars>>

Cancel(s) ==
    /\ pc[s] \in {"running", "popping"}
    /\ canceled' = [canceled EXCEPT ![s] = TRUE]
    /\ UNCHANGED <<ring, last, saw, pc, made, queued, after, parallelVars>>

-----------------------------------------------------------------------------
(* The task pop_task takes, if any.                                        *)
Popped(s) == IF front[s] # back[s] THEN queue[s][front[s]] ELSE last[s]

(* (The slot of a popped task, which nothing reads again, is cleared.)     *)
PopTask(s) ==
    IF front[s] # back[s]
    THEN /\ front' = [front EXCEPT ![s] = IF @ + 1 = Size(s) THEN 0 ELSE @ + 1]
         /\ queue' = [queue EXCEPT ![s][front[s]] = NoTask]
         /\ queued' = [queued EXCEPT ![s] = Tail(@)]
         /\ UNCHANGED <<back, last>>
    ELSE /\ last' = [last EXCEPT ![s] = NoTask]
         /\ UNCHANGED <<ring, queued>>

(* start() of a series that is not part of the parallel task.              *)
Start(s) ==
    /\ pc[s] = "created" /\ s \notin members
    /\ pc' = [pc EXCEPT ![s] = "running"]
    /\ UNCHANGED <<ring, last, canceled, saw, made, queued, after, parallelVars>>

(* dismiss(): first is deleted, then one task after the other is popped    *)
(* and deleted, and the series with the last of them.                      *)
Dismiss(s) ==
    /\ pc[s] = "created" /\ s \notin members
    /\ pc' = [pc EXCEPT ![s] = "dismissing"]
    /\ UNCHANGED <<ring, last, canceled, saw, made, queued, after, parallelVars>>

(* subtask_done of the running task: done() runs its callback and calls    *)
(* pop, which reads canceled.                                              *)
Done(s) ==
    /\ pc[s] = "running"
    /\ saw' = [saw EXCEPT ![s] = canceled[s]]
    /\ pc' = [pc EXCEPT ![s] = "popping"]
    /\ UNCHANGED <<ring, last, canceled, made, queued, after, parallelVars>>

(* pop returns the next task, and subtask_done dispatches it.              *)
Dispatch(s) ==
    /\ pc[s] = "popping"
    /\ ~saw[s] /\ Popped(s) # NoTask
    /\ PopTask(s)
    /\ after' = [after EXCEPT ![s] = IF canceled[s] THEN @ + 1 ELSE @]
    /\ pc' = [pc EXCEPT ![s] = "running"]
    /\ UNCHANGED <<canceled, saw, made, parallelVars>>

(* Mutant of Destroy: only the next task of a canceled series is deleted.  *)
DestroyOne(s) ==
    /\ \/ pc[s] = "popping" /\ saw[s]
       \/ pc[s] = "dismissing"
    /\ Popped(s) # NoTask
    /\ PopTask(s)
    /\ pc' = [pc EXCEPT ![s] = "ended"]
    /\ UNCHANGED <<canceled, saw, made, after, parallelVars>>

(* pop of a canceled series, or dismiss: the task is deleted.              *)
Destroy(s) ==
    /\ \/ pc[s] = "popping" /\ saw[s]
       \/ pc[s] = "dismissing"
    /\ Popped(s) # NoTask
    /\ PopTask(s)
    /\ UNCHANGED <<canceled, saw, pc, made, after, parallelVars>>

(* No task is left: the series runs its callback and deletes itself, and   *)
(* pop returns NULL.                                                       *)
End(s) ==
    /\ pc[s] \in {"popping", "dismissing"}
    /\ Popped(s) = NoTask
    /\ queue' = [queue EXCEPT ![s] = NoQueue]
    /\ front' = [front EXCEPT ![s] = 0]
    /\ back' = [back EXCEPT ![s] = 0]
    /\ saw' = [saw EXCEPT ![s] = FALSE]
    /\ pc' = [pc EXCEPT ![s] = "ended"]
    /\ UNCHANGED <<last, canceled, made, queued, after, parallelVars>>

-----------------------------------------------------------------------------

(* ParallelTask::dispatch up to its loop.                                  *)
ParallelStart ==
    /\ parallel = "created"
    /\ nleft' = Cardinality(members)
    /\ undone' = members
    /\ parallel' = IF members = {} THEN "done" ELSE "dispatched"
    /\ UNCHANGED <<seriesVars, members>>

(* One round of the loop, which goes on while earlier subtasks run.        *)
ParallelDispatch(s) ==
    /\ s \in undone
    /\ undone' = undone \ {s}
    /\ pc' = [pc EXCEPT ![s] = "running"]
    /\ UNCHANGED <<ring, last, canceled, saw, made, queued, after,
                   members, nleft, parallel>>

(* Mutant of ParentCounts: the last but one subtask runs done().           *)
ParentCountsOffByOne(s) ==
    /\ pc[s] = "ended" /\ s \in members
    /\ nleft' = nleft - 1
    /\ parallel' = IF nleft' <= 1 THEN "done" ELSE parallel
    /\ pc' = [pc EXCEPT ![s] = "counted"]
    /\ UNCHANGED <<ring, last, canceled, saw, made, queued, after, members, undone>>

(* Mutant of ParentCounts: __sync_fetch_and_sub, the value before.         *)
ParentCountsBefore(s) ==
    /\ pc[s] = "ended" /\ s \in members
    /\ nleft' = nleft - 1
    /\ parallel' = IF nleft = 0 THEN "done" ELSE parallel
    /\ pc' = [pc EXCEPT ![s] = "counted"]
    /\ UNCHANGED <<ring, last, canceled, saw, made, queued, after, members, undone>>

(* subtask_done after a done() that returned NULL: the subtask that brings *)
(* nleft to 0 goes on with done() of the parent.                           *)
ParentCounts(s) ==
    /\ pc[s] = "ended" /\ s \in members
    /\ nleft' = nleft - 1
    /\ parallel' = IF nleft' = 0 THEN "done" ELSE parallel
    /\ pc' = [pc EXCEPT ![s] = "counted"]
    /\ UNCHANGED <<ring, last, canceled, saw, made, queued, after, members, undone>>

-----------------------------------------------------------------------------
Run(s) ==
    \/ Done(s) \/ Dispatch(s) \/ Destroy(s) \/ End(s)
    \/ ParallelDispatch(s) \/ ParentCounts(s)

AllOver ==
    /\ parallel # "created"
    /\ \A s \in Works : pc[s] = IF s \in members THEN "counted" ELSE "ended"
    /\ UNCHANGED vars

Next ==
    \/ ParallelStart \/ AllOver
    \/ \E s \in Works :
           \/ PushFront(s) \/ PushBack(s) \/ Cancel(s)
           \/ Start(s) \/ Dismiss(s) \/ Run(s)

(* Running tasks end and threads go on; who starts, pushes or cancels is   *)
(* the program.                                                            *)
Spec == Init /\ [][Next]_vars /\ \A s \in Works : WF_vars(Run(s))

-----------------------------------------------------------------------------
(* The slots from front to back, in the order they will be popped.         *)
Contents(s) ==
    [i \in 1 .. (back[s] - front[s]) % Size(s) |-> queue[s][(front[s] + i - 1) % Size(s)]]

(***************************************************************************)
(* The ring buffer holds the pushed tasks in the order the pushes ask for, *)
(* whatever the wrap-around and the growth of the buffer did to its slots: *)
(* push_front, push_back, expand_queue and pop_task agree on front, back   *)
(* and queue_size, and a series of any length keeps its order.             *)
(***************************************************************************)
RunsInOrder == \A s \in Works : pc[s] \notin {"ended", "counted"} => Contents(s) = queued[s]

(***************************************************************************)
(* A series that deleted itself left no task behind: all that was pushed,  *)
(* and the last task, has been dispatched or, after cancel() or dismiss(), *)
(* deleted.  cancel() really stops it: pop reads canceled without the      *)
(* mutex, so a task may be dispatched that pop was already about to return, *)
(* and no other one after it.                                              *)
(***************************************************************************)
NothingLeftBehind ==
    \A s \in Works :
        /\ pc[s] \in {"ended", "counted"} => queued[s] = <<>> /\ last[s] = NoTask
        /\ after[s] <= 1

(***************************************************************************)
(* done() of a parallel task runs once all of its series have ended, not   *)
(* while dispatch has subtasks to start: the first ones may end before the *)
(* last ones are dispatched.                                               *)
(***************************************************************************)
ParallelDoneLast ==
    parallel = "done" => undone = {} /\ \A s \in members : pc[s] = "counted"

(***************************************************************************)
(* A dispatched parallel task ends, whichever of its series ends last and  *)
(* however they are canceled.                                              *)
(***************************************************************************)
ParallelEnds == parallel = "dispatched" ~> parallel = "done"
=============================================================================
