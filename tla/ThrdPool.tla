------------------------------ MODULE ThrdPool ------------------------------
(***************************************************************************)
(* The thread pool of kernel/thrdpool.c: a FIFO of tasks, worker threads   *)
(* that sleep on a condition variable, and a shutdown in which the owner   *)
(* waits for the last worker and every worker joins the one that left      *)
(* before it, so that joining a single thread joins them all.              *)
(*                                                                         *)
(* Everything the code does between pthread_mutex_lock and the unlock (or  *)
(* the wait) is one step: no other thread can see it half done.  What the  *)
(* code does outside the mutex is a step of its own: counting a created    *)
(* thread (create_threads), signalling the condition after the unlock      *)
(* (schedule), the joins, and handing over the tasks left (destroy).       *)
(***************************************************************************)
EXTENDS Naturals, Sequences, FiniteSets

CONSTANTS
    Threads,    \* the pthread_t values the pool's threads may get
    Clients,    \* threads outside the pool that schedule tasks
    Owner,      \* the thread that creates and destroys the pool
    Tasks,      \* the task entries, each allocated by one schedule call
    NThreads,   \* the nthreads argument of thrdpool_create
    NoThread,   \* __zero_tid
    NoTask      \* a thread that runs no task

ASSUME ThrdPoolAssumption ==
    /\ IsFiniteSet(Threads)
    /\ NoThread \notin Threads
    /\ NoTask \notin Tasks
    /\ Clients \cap Threads = {}
    /\ Owner \notin Clients \cup Threads
    /\ NThreads \in Nat

VARIABLES
    taskQueue,  \* pool->task_queue
    nthreads,   \* pool->nthreads
    tid,        \* pool->tid, the thread that left last
    terminate,  \* pool->terminate # NULL
    opc,        \* where the owner is
    built,      \* thrdpool_create has returned the pool
    pc,         \* where each pool thread is
    cur,        \* the task each pool thread runs
    prev,       \* the local tid each leaving thread read from the pool
    signalling, \* callers between the unlock and the signal of schedule
    lastPos,    \* the saved next of the walk in destroy is the list's head
    runs,       \* history: how often each task's routine returned
    handed,     \* history: how often each task was given to pending()
    scheduled,  \* history: the tasks that were queued
    late,       \* history: those queued from inside a pending() call
    joins,      \* history: how often each thread was joined
    rank        \* history: the position at which each thread left, or 0

poolVars == <<taskQueue, nthreads, tid, terminate>>
taskVars == <<runs, handed, scheduled, late>>
threadVars == <<pc, cur, prev, joins, rank>>
vars == <<poolVars, opc, built, lastPos, threadVars, signalling, taskVars>>

Callers == Clients \cup Threads \cup {Owner}

(***************************************************************************)
(* Threads that exist and have not yet passed --nthreads, and those that   *)
(* have.                                                                   *)
(***************************************************************************)
Working == {t \in Threads : pc[t] \in {"lock", "wait", "run"}}
Left    == {t \in Threads : pc[t] \in {"join", "dead"}}

Init ==
    /\ taskQueue = <<>>
    /\ nthreads = 0
    /\ tid = NoThread
    /\ terminate = FALSE
    /\ opc = "create"
    /\ built = FALSE
    /\ pc = [t \in Threads |-> "none"]
    /\ cur = [t \in Threads |-> NoTask]
    /\ prev = [t \in Threads |-> NoThread]
    /\ signalling = {}
    /\ lastPos = FALSE
    /\ runs = [k \in Tasks |-> 0]
    /\ handed = [k \in Tasks |-> 0]
    /\ scheduled = {}
    /\ late = {}
    /\ joins = [t \in Threads |-> 0]
    /\ rank = [t \in Threads |-> 0]

-----------------------------------------------------------------------------
(* thrdpool_create.  The thread runs as soon as pthread_create returns;    *)
(* nthreads is incremented afterwards, outside the mutex.                  *)

CreateThread(t) ==
    /\ opc = "create"
    /\ nthreads < NThreads
    /\ pc[t] = "none"
    /\ pc' = [pc EXCEPT ![t] = "lock"]
    /\ opc' = "count"
    /\ UNCHANGED <<poolVars, built, lastPos, cur, prev, joins, rank, signalling,
                   taskVars>>

CountThread ==
    /\ opc = "count"
    /\ nthreads' = nthreads + 1
    /\ opc' = "create"
    /\ UNCHANGED <<taskQueue, tid, terminate, built, lastPos, threadVars,
                   signalling, taskVars>>

(* pthread_create fails: the threads already created are terminated.       *)
CreateThreadFails ==
    /\ opc = "create"
    /\ nthreads < NThreads
    /\ opc' = "term"
    /\ UNCHANGED <<poolVars, built, lastPos, threadVars, signalling, taskVars>>

(* malloc, the locks, the key or pthread_attr_init fail: there is no pool. *)
CreateFails ==
    /\ opc = "create"
    /\ nthreads = 0
    /\ opc' = "gone"
    /\ UNCHANGED <<poolVars, built, lastPos, threadVars, signalling, taskVars>>

CreateReturns ==
    /\ opc = "create"
    /\ nthreads = NThreads
    /\ opc' = "up"
    /\ built' = TRUE
    /\ UNCHANGED <<poolVars, lastPos, threadVars, signalling, taskVars>>

-----------------------------------------------------------------------------
(* thrdpool_schedule and thrdpool_increase.  A caller is a client while    *)
(* the pool is up (the owner may destroy the pool only once the clients    *)
(* have returned from their calls), a pool thread inside a task, which may *)
(* call them while the pool is being destroyed, or the owner inside a      *)
(* pending() call.  A failing malloc or pthread_create returns -1 and      *)
(* changes nothing.                                                        *)

MayCall(c) ==
    /\ c \notin signalling
    /\ \/ c \in Clients /\ opc = "up"
       \/ c \in Threads /\ pc[c] = "run"
       \/ c = Owner /\ opc = "handing"

(* Mutant of Schedule: list_add instead of list_add_tail.                  *)
ScheduleInFront(c, k) ==
    /\ MayCall(c)
    /\ k \notin scheduled
    /\ taskQueue' = <<k>> \o taskQueue
    /\ scheduled' = scheduled \cup {k}
    /\ late' = IF c = Owner THEN late \cup {k} ELSE late
    /\ signalling' = signalling \cup {c}
    /\ UNCHANGED <<nthreads, tid, terminate, opc, built, lastPos, threadVars,
                   runs, handed>>

Schedule(c, k) ==
    /\ MayCall(c)
    /\ k \notin scheduled
    /\ taskQueue' = Append(taskQueue, k)
    /\ scheduled' = scheduled \cup {k}
    /\ late' = IF c = Owner THEN late \cup {k} ELSE late
    /\ signalling' = signalling \cup {c}
    /\ UNCHANGED <<nthreads, tid, terminate, opc, built, lastPos, threadVars,
                   runs, handed>>

(* Mutant of WakeOne: the signal is forgotten.                             *)
WakeNobody == pc' = pc

(* pthread_cond_signal wakes one waiting thread, if there is one.          *)
WakeOne ==
    IF \E t \in Threads : pc[t] = "wait"
    THEN \E t \in Threads : pc[t] = "wait" /\ pc' = [pc EXCEPT ![t] = "lock"]
    ELSE pc' = pc

Signal(c) ==
    /\ c \in signalling
    /\ signalling' = signalling \ {c}
    /\ WakeOne
    /\ UNCHANGED <<poolVars, opc, built, lastPos, cur, prev, joins, rank, taskVars>>

(* Called from a pending() call it would start a thread in a pool about to *)
(* be freed: only clients and tasks do.                                    *)
Increase(c, t) ==
    /\ MayCall(c)
    /\ c # Owner
    /\ pc[t] = "none"
    /\ pc' = [pc EXCEPT ![t] = "lock"]
    /\ nthreads' = nthreads + 1
    /\ UNCHANGED <<taskQueue, tid, terminate, opc, built, lastPos, cur, prev,
                   joins, rank, signalling, taskVars>>

-----------------------------------------------------------------------------
(* __thrdpool_routine.  A thread woken from pthread_cond_wait takes the    *)
(* mutex again and tests again, as a thread that comes from a task does.   *)

WaitForTask(t) ==
    /\ pc[t] = "lock"
    /\ ~terminate
    /\ taskQueue = <<>>
    /\ pc' = [pc EXCEPT ![t] = "wait"]
    /\ UNCHANGED <<poolVars, opc, built, lastPos, cur, prev, joins, rank,
                   signalling, taskVars>>

SpuriousWakeup(t) ==
    /\ pc[t] = "wait"
    /\ pc' = [pc EXCEPT ![t] = "lock"]
    /\ UNCHANGED <<poolVars, opc, built, lastPos, cur, prev, joins, rank,
                   signalling, taskVars>>

TakeTask(t) ==
    /\ pc[t] = "lock"
    /\ ~terminate
    /\ taskQueue # <<>>
    /\ cur' = [cur EXCEPT ![t] = Head(taskQueue)]
    /\ taskQueue' = Tail(taskQueue)
    /\ pc' = [pc EXCEPT ![t] = "run"]
    /\ UNCHANGED <<nthreads, tid, terminate, opc, built, lastPos, prev, joins,
                   rank, signalling, taskVars>>

TaskReturns(t) ==
    /\ pc[t] = "run"
    /\ t \notin signalling
    /\ runs' = [runs EXCEPT ![cur[t]] = @ + 1]
    /\ cur' = [cur EXCEPT ![t] = NoTask]
    /\ pc' = [pc EXCEPT ![t] = "lock"]
    /\ UNCHANGED <<poolVars, opc, built, lastPos, prev, joins, rank, signalling,
                   handed, scheduled, late>>

(* terminate is set: leave, still holding the mutex.  The last thread to   *)
(* leave signals the owner.                                                *)
Leave(t) ==
    /\ pc[t] = "lock"
    /\ terminate
    /\ prev' = [prev EXCEPT ![t] = tid]
    /\ tid' = t
    /\ rank' = [rank EXCEPT ![t] = Cardinality(Left) + 1]
    /\ nthreads' = nthreads - 1
    /\ opc' = IF nthreads = 1 /\ opc = "termWait" THEN "termCheck" ELSE opc
    /\ pc' = [pc EXCEPT ![t] = IF tid = NoThread THEN "dead" ELSE "join"]
    /\ UNCHANGED <<taskQueue, terminate, built, lastPos, cur, joins, signalling,
                   taskVars>>

(* Mutant of JoinPrevious: the previous thread is not joined.              *)
LeaveUnjoined(t) ==
    /\ pc[t] = "join"
    /\ pc' = [pc EXCEPT ![t] = "dead"]
    /\ UNCHANGED <<poolVars, opc, built, lastPos, cur, prev, joins, rank,
                   signalling, taskVars>>

(* pthread_join of the thread that left before this one.                   *)
JoinPrevious(t) ==
    /\ pc[t] = "join"
    /\ pc[prev[t]] = "dead"
    /\ joins' = [joins EXCEPT ![prev[t]] = @ + 1]
    /\ pc' = [pc EXCEPT ![t] = "dead"]
    /\ UNCHANGED <<poolVars, opc, built, lastPos, cur, prev, rank, signalling,
                   taskVars>>

-----------------------------------------------------------------------------
(* thrdpool_destroy and the __thrdpool_terminate it shares with a failed   *)
(* thrdpool_create.                                                        *)

Destroy ==
    /\ opc = "up"
    /\ signalling \cap Clients = {}
    /\ opc' = "term"
    /\ UNCHANGED <<poolVars, built, lastPos, threadVars, signalling, taskVars>>

(* Mutant of Terminate: without the broadcast.                             *)
TerminateQuietly ==
    /\ opc = "term"
    /\ terminate' = TRUE
    /\ opc' = IF nthreads > 0 THEN "termWait" ELSE "join"
    /\ UNCHANGED <<taskQueue, nthreads, tid, built, lastPos, threadVars,
                   signalling, taskVars>>

(* Under the mutex: set terminate, broadcast, wait unless no thread works. *)
Terminate ==
    /\ opc = "term"
    /\ terminate' = TRUE
    /\ pc' = [t \in Threads |-> IF pc[t] = "wait" THEN "lock" ELSE pc[t]]
    /\ opc' = IF nthreads > 0 THEN "termWait" ELSE "join"
    /\ UNCHANGED <<taskQueue, nthreads, tid, built, lastPos, cur, prev, joins,
                   rank, signalling, taskVars>>

(* Woken (or spuriously woken): test nthreads again under the mutex.       *)
TerminateRetest ==
    /\ opc \in {"termWait", "termCheck"}
    /\ opc' = IF nthreads > 0 THEN "termWait" ELSE "join"
    /\ UNCHANGED <<poolVars, built, lastPos, threadVars, signalling, taskVars>>

(* Mutant of JoinLast: the last thread is not joined.                      *)
JoinNobody ==
    /\ opc = "join"
    /\ opc' = IF built THEN "pending" ELSE "gone"
    /\ UNCHANGED <<poolVars, built, lastPos, threadVars, signalling, taskVars>>

(* Join the thread that left last, if any thread was ever created.         *)
JoinLast ==
    /\ opc = "join"
    /\ tid # NoThread => pc[tid] = "dead"
    /\ joins' = IF tid = NoThread THEN joins ELSE [joins EXCEPT ![tid] = @ + 1]
    /\ opc' = IF built THEN "pending" ELSE "gone"
    /\ UNCHANGED <<poolVars, built, lastPos, pc, cur, prev, rank, signalling,
                   taskVars>>

(* The list_for_each_safe walk: the next entry is saved before pending()   *)
(* is called, so a call made for the last entry ends the walk even when    *)
(* pending() has queued another task.                                      *)
HandOver ==
    /\ opc = "pending"
    /\ taskQueue # <<>>
    /\ handed' = [handed EXCEPT ![Head(taskQueue)] = @ + 1]
    /\ taskQueue' = Tail(taskQueue)
    /\ lastPos' = (Len(taskQueue) = 1)
    /\ opc' = "handing"
    /\ UNCHANGED <<nthreads, tid, terminate, built, threadVars, signalling,
                   runs, scheduled, late>>

PendingReturns ==
    /\ opc = "handing"
    /\ Owner \notin signalling
    /\ opc' = IF lastPos THEN "free" ELSE "pending"
    /\ UNCHANGED <<poolVars, built, lastPos, threadVars, signalling, taskVars>>

Free ==
    /\ \/ opc = "pending" /\ taskQueue = <<>>
       \/ opc = "free"
    /\ opc' = "gone"
    /\ UNCHANGED <<poolVars, built, lastPos, threadVars, signalling, taskVars>>

(* The pool is gone and its owner has returned.                            *)
Gone == opc = "gone" /\ UNCHANGED vars

-----------------------------------------------------------------------------
ThreadStep(t) ==
    \/ WaitForTask(t) \/ TakeTask(t) \/ TaskReturns(t) \/ Leave(t) \/ JoinPrevious(t)

OwnerStep ==
    \/ CountThread \/ CreateReturns \/ Terminate \/ TerminateRetest
    \/ JoinLast \/ HandOver \/ PendingReturns \/ Free

Next ==
    \/ OwnerStep
    \/ CreateThreadFails \/ CreateFails \/ Destroy
    \/ \E t \in Threads : CreateThread(t) \/ ThreadStep(t) \/ SpuriousWakeup(t)
    \/ \E c \in Callers :
           \/ Signal(c)
           \/ \E k \in Tasks : Schedule(c, k)
           \/ \E t \in Threads : Increase(c, t)
    \/ Gone

Spec == Init /\ [][Next]_vars

(***************************************************************************)
(* Every thread that can take a step takes it, tasks return, and a call    *)
(* that was started ends: what the kernel's scheduler gives.  Nobody has   *)
(* to call schedule, increase or destroy.  The owner's wait is woken by    *)
(* Leave, so retesting while still in the wait needs no fairness.          *)
(***************************************************************************)
Fairness ==
    /\ \A t \in Threads : WF_vars(ThreadStep(t))
    /\ \A c \in Callers : WF_vars(Signal(c))
    /\ WF_vars(OwnerStep /\ opc # "termWait")

FairSpec == Spec /\ Fairness

-----------------------------------------------------------------------------
(* The pool, its threads and its caller are in states the code can be in.  *)
TypeOK ==
    /\ taskQueue \in Seq(Tasks)
    /\ nthreads \in Nat
    /\ tid \in Threads \cup {NoThread}
    /\ terminate \in BOOLEAN
    /\ opc \in {"create", "count", "up", "term", "termWait", "termCheck",
                "join", "pending", "handing", "free", "gone"}
    /\ lastPos \in BOOLEAN
    /\ built \in BOOLEAN
    /\ pc \in [Threads -> {"none", "lock", "wait", "run", "join", "dead"}]
    /\ cur \in [Threads -> Tasks \cup {NoTask}]
    /\ prev \in [Threads -> Threads \cup {NoThread}]
    /\ signalling \subseteq Callers
    /\ runs \in [Tasks -> Nat]
    /\ handed \in [Tasks -> Nat]
    /\ scheduled \subseteq Tasks
    /\ late \subseteq scheduled
    /\ joins \in [Threads -> Nat]
    /\ rank \in [Threads -> Nat]

(***************************************************************************)
(* nthreads counts the threads that still work: the number terminate()     *)
(* waits for is right although create_threads counts outside the mutex and *)
(* a task may call thrdpool_increase during the shutdown.                  *)
(***************************************************************************)
ThreadsCounted ==
    Cardinality(Working) = nthreads + (IF opc = "count" THEN 1 ELSE 0)

(***************************************************************************)
(* Once the owner's join has returned, and so when the queue is emptied    *)
(* and the pool freed, no pool thread and no caller but the owner is left  *)
(* that could still touch the pool.                                        *)
(***************************************************************************)
QuietWhenFreed ==
    opc \in {"pending", "handing", "free", "gone"} =>
        /\ \A t \in Threads : pc[t] \in {"none", "dead"}
        /\ signalling \subseteq IF opc = "handing" THEN {Owner} ELSE {}

(***************************************************************************)
(* No thread is joined twice (undefined behaviour), and when the pool is   *)
(* gone every thread that was created has been joined (no leak).           *)
(***************************************************************************)
JoinedExactlyOnce ==
    /\ \A t \in Threads : joins[t] <= 1
    /\ opc = "gone" => \A t \in Threads : pc[t] # "none" => joins[t] = 1

(***************************************************************************)
(* A queued task is eventually run, or handed over by destroy (a task that *)
(* a pending() call queues may be neither).                                *)
(***************************************************************************)
TasksSettled ==
    \A k \in Tasks : k \in scheduled \ late ~> runs[k] + handed[k] = 1

(***************************************************************************)
(* thrdpool_destroy, and a failed thrdpool_create, return: the owner's     *)
(* wait is signalled and the chain of joins ends.                          *)
(***************************************************************************)
DestroyReturns == opc = "term" ~> opc = "gone"

-----------------------------------------------------------------------------
(***************************************************************************)
(* The pool as its callers see it.                                         *)
(***************************************************************************)
AbsWaiting ==
    [i \in DOMAIN taskQueue |->
        [task |-> taskQueue[i], late |-> taskQueue[i] \in late]]

AbsRunning == [k \in Tasks |-> Cardinality({t \in Threads : cur[t] = k})]

AbsPhase ==
    CASE opc = "gone"                           -> "closed"
      [] opc \in {"pending", "handing", "free"} -> "handing"
      [] OTHER -> IF terminate THEN "closing" ELSE "open"

Pool == INSTANCE TaskPool WITH
            waiting <- AbsWaiting, running <- AbsRunning, phase <- AbsPhase

(***************************************************************************)
(* The pool with its threads, condition variables and chain of joins       *)
(* implements the task pool its callers rely on.                           *)
(***************************************************************************)
ImplementsTaskPool == Pool!Spec
=============================================================================
