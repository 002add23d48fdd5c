--------------------------- MODULE ExecutorProofs ---------------------------
(***************************************************************************)
(* Proofs about the thread pool and about the executor on top of it.       *)
(*                                                                         *)
(* ThrdPool, for any number of threads, clients and tasks: the variables   *)
(* keep their types, nthreads counts the working threads, nobody can touch *)
(* the pool any more when it is freed, every thread is joined once, and    *)
(* the pool implements the TaskPool its callers rely on.  The third one    *)
(* needs to know why joining one thread is enough.  A thread that leaves   *)
(* joins the one that left before it, so a thread is dead only after every *)
(* thread of lower rank is (Chain), and pool->tid is the thread of highest *)
(* rank.                                                                   *)
(*                                                                         *)
(* Executor, on such a TaskPool, for any number of queues, sessions and    *)
(* workers: a queue is scheduled once while it has entries and not at all  *)
(* while it has none, and a session is handled at most once.  The routine  *)
(* takes the first entry of its queue without a test, and request decides  *)
(* from an empty list that it has to schedule the queue; neither looks at  *)
(* the pool.  The invariant says why both are right: a queue has entries   *)
(* exactly while it has an owner (the pool, one worker or the canceller),  *)
(* and an entry is in one place of one queue.                              *)
(***************************************************************************)
EXTENDS ThrdPool, Executor, FiniteSetTheorems, SequenceTheorems, TLAPS

-----------------------------------------------------------------------------
(***************************************************************************)
(* The thread pool.                                                        *)
(***************************************************************************)

(* The owner's program, and who may still work in each part of it.         *)
Phases ==
    /\ terminate => opc \notin {"create", "count", "up", "term"}
    /\ ~terminate => opc \in {"create", "count", "up", "term", "gone"}
    /\ opc \in {"join", "pending", "handing", "free", "gone"} => Working = {}

(* The threads that have left, in the order in which they did.             *)
Ranks ==
    /\ Left # {} => terminate
    /\ \A t \in Left : rank[t] <= Cardinality(Left)
    /\ \A t, u \in Left : rank[t] = rank[u] => t = u

LastLeft ==
    /\ tid = NoThread <=> Left = {}
    /\ tid # NoThread => tid \in Left /\ \A t \in Left : rank[t] <= rank[tid]

Chain ==
    /\ \A t \in Left : pc[t] = "join" =>
           /\ prev[t] \in Left
           /\ \A u \in Left : rank[u] < rank[t] => rank[u] <= rank[prev[t]]
    /\ \A t, u \in Left : pc[t] = "dead" /\ rank[u] <= rank[t] => pc[u] = "dead"

AllDead == opc \in {"pending", "handing", "free", "gone"} =>
               \A t \in Left : pc[t] = "dead"

(* A call of schedule ends before its caller's task, its caller's use of   *)
(* the pool or the pending() call that made it does.                       *)
CallsNested ==
    /\ \A t \in Threads \cap signalling : pc[t] = "run"
    /\ \A c \in Clients \cap signalling : opc = "up"
    /\ Owner \in signalling => opc = "handing"

IInv ==
    /\ TypeOK
    /\ ThreadsCounted
    /\ Phases
    /\ Ranks
    /\ LastLeft
    /\ Chain
    /\ AllDead
    /\ CallsNested

-----------------------------------------------------------------------------
(* The sets of threads are finite, and so can be counted.                  *)
LEMMA ThreadSetsFinite ==
    /\ IsFiniteSet(Working) /\ Cardinality(Working) \in Nat
    /\ IsFiniteSet(Left) /\ Cardinality(Left) \in Nat
<1>1. Working \subseteq Threads /\ Left \subseteq Threads
    BY DEF Working, Left
<1> QED
    BY <1>1, ThrdPoolAssumption, FS_Subset, FS_CardinalityType

(* A step that leaves alone the threads that have left, and pool->tid,     *)
(* keeps what is known about the order in which they left.                 *)
LEMMA LeftUnchanged ==
    ASSUME IInv, Left' = Left, UNCHANGED <<prev, rank, tid>>,
           \A t \in Left : pc'[t] = pc[t],
           terminate => terminate'
    PROVE  Ranks' /\ LastLeft' /\ Chain'
<1>1. Ranks'
    BY DEF IInv, Ranks
<1>2. LastLeft'
    BY DEF IInv, LastLeft
<1>3. Chain'
    <2>1. \A t \in Left : prev[t] = prev'[t] /\ rank[t] = rank'[t]
        OBVIOUS
    <2> QED
        BY <2>1 DEF IInv, Chain
<1> QED
    BY <1>1, <1>2, <1>3

(* A step in which no thread starts or leaves keeps both sets of threads.  *)
LEMMA ThreadsUnchanged ==
    ASSUME IInv, UNCHANGED pc
    PROVE  Working' = Working /\ Left' = Left
BY DEF Working, Left

(* Neither does a step of one thread that was working and still is.        *)
LEMMA ThreadKeepsWorking ==
    ASSUME IInv, NEW t \in Threads, NEW p \in {"lock", "wait", "run"},
           pc[t] \in {"lock", "wait", "run"}, pc' = [pc EXCEPT ![t] = p]
    PROVE  /\ Working' = Working /\ Left' = Left
           /\ \A u \in Left : pc'[u] = pc[u]
BY DEF IInv, TypeOK, Working, Left

(* A thread that starts adds itself to the working ones.                   *)
LEMMA ThreadStarts ==
    ASSUME IInv, NEW t \in Threads, pc[t] = "none",
           pc' = [pc EXCEPT ![t] = "lock"]
    PROVE  /\ Working' = Working \cup {t} /\ Left' = Left
           /\ Cardinality(Working') = Cardinality(Working) + 1
           /\ \A u \in Left : pc'[u] = pc[u]
<1>1. /\ Working' = Working \cup {t} /\ Left' = Left
      /\ \A u \in Left : pc'[u] = pc[u]
    BY DEF IInv, TypeOK, Working, Left
<1>2. t \notin Working
    BY DEF Working
<1> QED
    BY <1>1, <1>2, ThreadSetsFinite, FS_AddElement

-----------------------------------------------------------------------------
(* The invariant holds of the pool before thrdpool_create makes threads.   *)
LEMMA InitIInv == Init => IInv
<1> SUFFICES ASSUME Init PROVE IInv
    OBVIOUS
<1>1. Working = {} /\ Left = {}
    BY DEF Init, Working, Left
<1>2. TypeOK
    <2>1. terminate \in BOOLEAN /\ lastPos \in BOOLEAN /\ built \in BOOLEAN
        BY Zenon DEF Init
    <2>2. taskQueue \in Seq(Tasks)
        BY DEF Init
    <2>3. /\ signalling \subseteq Callers /\ scheduled \subseteq Tasks
          /\ late \subseteq scheduled
        BY DEF Init
    <2>4. nthreads \in Nat /\ runs \in [Tasks -> Nat] /\ handed \in [Tasks -> Nat]
        BY DEF Init
    <2>5. joins \in [Threads -> Nat] /\ rank \in [Threads -> Nat]
        BY DEF Init
    <2> QED
        BY <2>1, <2>2, <2>3, <2>4, <2>5 DEF Init, TypeOK
<1>3. ThreadsCounted
    BY <1>1, FS_EmptySet DEF Init, ThreadsCounted
<1>4. Phases /\ Ranks /\ LastLeft /\ Chain /\ AllDead /\ CallsNested
    BY <1>1 DEF Init, Phases, Ranks, LastLeft, Chain, AllDead, CallsNested
<1> QED
    BY <1>2, <1>3, <1>4 DEF IInv

-----------------------------------------------------------------------------
(* The steps that keep IInv, by what they do to the threads.               *)

(* Steps of the owner, or a call of schedule: no thread moves.             *)
LEMMA OwnerStepIInv ==
    ASSUME IInv,
           \/ CountThread \/ CreateThreadFails \/ CreateFails \/ CreateReturns
           \/ Destroy \/ TerminateRetest \/ JoinLast \/ HandOver
           \/ PendingReturns \/ Free
    PROVE  IInv'
<1> USE DEF threadVars, poolVars, taskVars
<1>1. /\ UNCHANGED <<pc, cur, prev, rank, tid, terminate, signalling>>
      /\ UNCHANGED <<runs, scheduled, late>>
    BY DEF CountThread, CreateThreadFails, CreateFails, CreateReturns, Destroy,
           TerminateRetest, JoinLast, HandOver, PendingReturns, Free
<1>2. Working' = Working /\ Left' = Left
    BY <1>1, ThreadsUnchanged
<1>3. Ranks' /\ LastLeft' /\ Chain'
    BY <1>1, <1>2, LeftUnchanged
<1>4. Cardinality(Working) \in Nat /\ (Cardinality(Working) = 0 <=> Working = {})
    BY ThreadSetsFinite, FS_EmptySet
<1>5. TypeOK'
    <2>1. lastPos' \in BOOLEAN /\ built' \in BOOLEAN
        <3>1. lastPos \in BOOLEAN /\ built \in BOOLEAN
            BY DEF IInv, TypeOK
        <3>2. CASE HandOver
            BY <3>1, <3>2, Zenon DEF HandOver
        <3>3. CASE CreateReturns
            BY <3>1, <3>3, Zenon DEF CreateReturns
        <3>4. CASE ~HandOver /\ ~CreateReturns
            <4>1. UNCHANGED <<lastPos, built>>
                BY <3>4 DEF CountThread, CreateThreadFails, CreateFails, Destroy,
                    TerminateRetest, JoinLast, PendingReturns, Free
            <4> QED
                BY <3>1, <4>1
        <3> QED
            BY <3>2, <3>3, <3>4
    <2>2. opc' \in {"create", "count", "up", "term", "termWait", "termCheck",
                    "join", "pending", "handing", "free", "gone"}
        BY DEF IInv, TypeOK, CountThread, CreateThreadFails, CreateFails,
            CreateReturns, Destroy, TerminateRetest, JoinLast, HandOver,
            PendingReturns, Free
    <2>3. taskQueue' \in Seq(Tasks) /\ handed' \in [Tasks -> Nat]
        <3>1. taskQueue \in Seq(Tasks) /\ handed \in [Tasks -> Nat]
            BY DEF IInv, TypeOK
        <3>2. CASE HandOver
            <4>1. /\ taskQueue # <<>> /\ taskQueue' = Tail(taskQueue)
                  /\ handed' = [handed EXCEPT ![Head(taskQueue)] = @ + 1]
                BY <3>2, Zenon DEF HandOver
            <4> QED
                BY <3>1, <4>1
        <3>3. CASE ~HandOver
            <4>1. UNCHANGED <<taskQueue, handed>>
                BY <3>3 DEF CountThread, CreateThreadFails, CreateFails,
                    CreateReturns, Destroy, TerminateRetest, JoinLast,
                    PendingReturns, Free
            <4> QED
                BY <3>1, <4>1
        <3> QED
            BY <3>2, <3>3
    <2>4. nthreads' \in Nat /\ joins' \in [Threads -> Nat]
        BY DEF IInv, TypeOK, CountThread, CreateThreadFails, CreateFails,
            CreateReturns, Destroy, TerminateRetest, JoinLast, HandOver,
            PendingReturns, Free
    <2> QED
        BY <1>1, <2>1, <2>2, <2>3, <2>4 DEF IInv, TypeOK
<1>6. ThreadsCounted'
    BY <1>2, <1>4 DEF IInv, TypeOK, ThreadsCounted, CountThread, CreateThreadFails,
        CreateFails, CreateReturns, Destroy, TerminateRetest, JoinLast, HandOver,
        PendingReturns, Free
<1>7. Phases'
    BY <1>1, <1>2, <1>4 DEF IInv, TypeOK, Phases, ThreadsCounted, CountThread,
        CreateThreadFails, CreateFails, CreateReturns, Destroy, TerminateRetest,
        JoinLast, HandOver, PendingReturns, Free
<1>8. AllDead'
    <2>1. CASE CreateFails
        BY <2>1, <1>2 DEF IInv, Phases, Ranks, AllDead, CreateFails
    <2>2. CASE JoinLast
        BY <2>2, <1>1, <1>2 DEF IInv, LastLeft, Chain, AllDead, JoinLast
    <2>3. CASE ~CreateFails /\ ~JoinLast
        BY <2>3, <1>1, <1>2 DEF IInv, AllDead, CountThread, CreateThreadFails,
            CreateReturns, Destroy, TerminateRetest, HandOver, PendingReturns, Free
    <2> QED
        BY <2>1, <2>2, <2>3
<1>9. CallsNested'
    BY <1>1 DEF IInv, CallsNested, CountThread, CreateThreadFails, CreateFails,
        CreateReturns, Destroy, TerminateRetest, JoinLast, HandOver,
        PendingReturns, Free
<1> QED
    BY <1>3, <1>5, <1>6, <1>7, <1>8, <1>9 DEF IInv

(* A caller queues a task, in __thrdpool_schedule.                         *)
LEMMA ScheduleIInv ==
    ASSUME IInv, NEW c \in Callers, NEW k \in Tasks, Schedule(c, k)
    PROVE  IInv'
<1> USE DEF threadVars
<1>1. /\ UNCHANGED <<pc, cur, prev, rank, tid, terminate, opc, nthreads, built>>
      /\ UNCHANGED <<lastPos, runs, handed, joins>>
      /\ taskQueue' = Append(taskQueue, k) /\ scheduled' = scheduled \cup {k}
      /\ signalling' = signalling \cup {c} /\ MayCall(c)
      /\ late' = IF c = Owner THEN late \cup {k} ELSE late
    BY DEF Schedule
<1>2. Working' = Working /\ Left' = Left
    BY <1>1, ThreadsUnchanged
<1>3. Ranks' /\ LastLeft' /\ Chain'
    BY <1>1, <1>2, LeftUnchanged
<1>4. TypeOK'
    BY <1>1 DEF IInv, TypeOK, Callers
<1>5. ThreadsCounted' /\ Phases' /\ AllDead'
    BY <1>1, <1>2 DEF IInv, ThreadsCounted, Phases, AllDead
<1>6. CallsNested'
    BY <1>1, ThrdPoolAssumption DEF IInv, CallsNested, MayCall
<1> QED
    BY <1>3, <1>4, <1>5, <1>6 DEF IInv

(* A thread is created, by the owner or by a task.                         *)
LEMMA StartIInv ==
    ASSUME IInv, NEW t \in Threads,
           CreateThread(t) \/ \E c \in Callers : Increase(c, t)
    PROVE  IInv'
<1>1. /\ pc[t] = "none" /\ pc' = [pc EXCEPT ![t] = "lock"]
      /\ UNCHANGED <<taskQueue, tid, terminate, built, lastPos, cur, prev>>
      /\ UNCHANGED <<joins, rank, signalling, runs, handed, scheduled, late>>
    BY DEF CreateThread, Increase, poolVars, taskVars
<1>2. /\ Working' = Working \cup {t} /\ Left' = Left
      /\ Cardinality(Working') = Cardinality(Working) + 1
      /\ \A u \in Left : pc'[u] = pc[u]
    BY <1>1, ThreadStarts
<1>3. Ranks' /\ LastLeft' /\ Chain'
    BY <1>1, <1>2, LeftUnchanged
<1>4. \/ opc = "create" /\ opc' = "count" /\ nthreads' = nthreads
      \/ opc \notin {"join", "pending", "handing", "free", "gone"}
         /\ opc' = opc /\ nthreads' = nthreads + 1
    <2>1. CASE CreateThread(t)
        BY <2>1 DEF CreateThread, poolVars
    <2>2. ASSUME NEW c \in Callers, Increase(c, t)
          PROVE  opc \notin {"join", "pending", "handing", "free", "gone"}
                 /\ opc' = opc /\ nthreads' = nthreads + 1
        BY <2>2 DEF Increase, MayCall, IInv, Phases, Working
    <2> QED
        BY <2>1, <2>2
<1>5. TypeOK'
    BY <1>1, <1>4 DEF IInv, TypeOK
<1>6. ThreadsCounted'
    BY <1>2, <1>4, ThreadSetsFinite DEF IInv, TypeOK, ThreadsCounted
<1>7. Phases' /\ AllDead'
    BY <1>1, <1>2, <1>4 DEF IInv, Phases, AllDead
<1>8. CallsNested'
    BY <1>1, <1>4, ThrdPoolAssumption DEF IInv, TypeOK, CallsNested
<1> QED
    BY <1>3, <1>5, <1>6, <1>7, <1>8 DEF IInv

(* A working thread goes on working: it waits, is woken, takes a task or   *)
(* returns from one; or a signal finds nobody waiting.                     *)
LEMMA WorkIInv ==
    ASSUME IInv,
           \/ \E t \in Threads : \/ WaitForTask(t) \/ SpuriousWakeup(t)
                                 \/ TakeTask(t) \/ TaskReturns(t)
           \/ \E c \in Callers : Signal(c)
    PROVE  IInv'
<1>1. /\ UNCHANGED <<nthreads, tid, terminate, opc, built, lastPos, prev, joins>>
      /\ UNCHANGED <<rank, handed, scheduled, late>>
    BY DEF WaitForTask, SpuriousWakeup, TakeTask, TaskReturns, Signal, poolVars,
           taskVars
<1>2. \/ pc' = pc
      \/ \E t \in Threads, p \in {"lock", "wait", "run"} :
             pc[t] \in {"lock", "wait", "run"} /\ pc' = [pc EXCEPT ![t] = p]
    BY DEF WaitForTask, SpuriousWakeup, TakeTask, TaskReturns, Signal, WakeOne
<1>3. /\ Working' = Working /\ Left' = Left
      /\ \A u \in Left : pc'[u] = pc[u]
    <2>1. CASE pc' = pc
        BY <2>1, ThreadsUnchanged
    <2>2. CASE \E t \in Threads, p \in {"lock", "wait", "run"} :
                   pc[t] \in {"lock", "wait", "run"} /\ pc' = [pc EXCEPT ![t] = p]
        BY <2>2, ThreadKeepsWorking
    <2> QED
        BY <1>2, <2>1, <2>2
<1>4. Ranks' /\ LastLeft' /\ Chain'
    BY <1>1, <1>3, LeftUnchanged
<1>5. ThreadsCounted' /\ Phases' /\ AllDead'
    BY <1>1, <1>3 DEF IInv, ThreadsCounted, Phases, AllDead
<1>6. TypeOK'
    <2>1. pc' \in [Threads -> {"none", "lock", "wait", "run", "join", "dead"}]
        BY <1>2 DEF IInv, TypeOK
    <2>2. signalling' \subseteq Callers
        BY DEF IInv, TypeOK, WaitForTask, SpuriousWakeup, TakeTask, TaskReturns, Signal
    <2>3. /\ taskQueue' \in Seq(Tasks) /\ cur' \in [Threads -> Tasks \cup {NoTask}]
          /\ runs' \in [Tasks -> Nat]
        <3>1. /\ taskQueue \in Seq(Tasks) /\ cur \in [Threads -> Tasks \cup {NoTask}]
              /\ runs \in [Tasks -> Nat]
            BY DEF IInv, TypeOK
        <3>2. ASSUME NEW t \in Threads, TakeTask(t)
              PROVE  /\ taskQueue' \in Seq(Tasks) /\ runs' \in [Tasks -> Nat]
                     /\ cur' \in [Threads -> Tasks \cup {NoTask}]
            <4>1. Head(taskQueue) \in Tasks /\ Tail(taskQueue) \in Seq(Tasks)
                BY <3>1, <3>2 DEF TakeTask
            <4> QED
                BY <3>1, <3>2, <4>1 DEF TakeTask, taskVars
        <3>3. ASSUME NEW t \in Threads, TaskReturns(t)
              PROVE  /\ taskQueue' \in Seq(Tasks) /\ runs' \in [Tasks -> Nat]
                     /\ cur' \in [Threads -> Tasks \cup {NoTask}]
            <4>1. runs' = [runs EXCEPT ![cur[t]] = @ + 1]
                BY <3>3 DEF TaskReturns
            <4>2. runs' \in [Tasks -> Nat]
                <5>1. CASE cur[t] \in Tasks
                    BY <3>1, <4>1, <5>1
                <5>2. CASE cur[t] \notin Tasks
                    BY <3>1, <4>1, <5>2
                <5> QED
                    BY <5>1, <5>2
            <4>3. UNCHANGED taskQueue /\ cur' = [cur EXCEPT ![t] = NoTask]
                BY <3>3 DEF TaskReturns, poolVars
            <4> QED
                BY <3>1, <4>2, <4>3
        <3>4. ASSUME UNCHANGED <<taskQueue, cur, runs>>
              PROVE  /\ taskQueue' \in Seq(Tasks) /\ runs' \in [Tasks -> Nat]
                     /\ cur' \in [Threads -> Tasks \cup {NoTask}]
            BY <3>1, <3>4
        <3> QED
            BY <3>2, <3>3, <3>4 DEF WaitForTask, SpuriousWakeup, Signal, poolVars,
                taskVars
    <2> QED
        BY <1>1, <2>1, <2>2, <2>3 DEF IInv, TypeOK
<1>7. CallsNested'
    <2>1. \A t \in Threads \cap signalling' : pc'[t] = "run"
        BY DEF IInv, TypeOK, CallsNested, WaitForTask, SpuriousWakeup, TakeTask,
            TaskReturns, Signal, WakeOne
    <2>2. signalling' \subseteq signalling
        BY DEF WaitForTask, SpuriousWakeup, TakeTask, TaskReturns, Signal
    <2> QED
        BY <1>1, <2>1, <2>2 DEF IInv, CallsNested
<1> QED
    BY <1>4, <1>5, <1>6, <1>7 DEF IInv

(* The broadcast wakes every waiting thread.                               *)
LEMMA TerminateIInv == ASSUME IInv, Terminate PROVE IInv'
<1>1. /\ opc = "term" /\ terminate' = TRUE
      /\ pc' = [t \in Threads |-> IF pc[t] = "wait" THEN "lock" ELSE pc[t]]
      /\ opc' = IF nthreads > 0 THEN "termWait" ELSE "join"
      /\ UNCHANGED <<taskQueue, nthreads, tid, built, lastPos, cur, prev, joins>>
      /\ UNCHANGED <<rank, signalling, runs, handed, scheduled, late>>
    BY DEF Terminate, taskVars
<1>2. /\ Working' = Working /\ Left' = Left
      /\ \A u \in Left : pc'[u] = pc[u]
    BY <1>1 DEF IInv, TypeOK, Working, Left
<1>3. Ranks' /\ LastLeft' /\ Chain'
    BY <1>1, <1>2, LeftUnchanged
<1>4. Cardinality(Working) \in Nat /\ (Cardinality(Working) = 0 <=> Working = {})
    BY ThreadSetsFinite, FS_EmptySet
<1>5. TypeOK'
    <2>1. pc' \in [Threads -> {"none", "lock", "wait", "run", "join", "dead"}]
        BY <1>1 DEF IInv, TypeOK
    <2>2. opc' \in {"termWait", "join"}
        BY <1>1
    <2> QED
        BY <1>1, <2>1, <2>2 DEF IInv, TypeOK
<1>6. ThreadsCounted' /\ Phases' /\ AllDead'
    BY <1>1, <1>2, <1>4 DEF IInv, TypeOK, ThreadsCounted, Phases, AllDead
<1>7. CallsNested'
    BY <1>1, ThrdPoolAssumption DEF IInv, TypeOK, CallsNested
<1> QED
    BY <1>3, <1>5, <1>6, <1>7 DEF IInv

(* A thread leaves: it gets the highest rank and becomes pool->tid.        *)
LEMMA LeaveIInv == ASSUME IInv, NEW t \in Threads, Leave(t) PROVE IInv'
<1> DEFINE n == Cardinality(Left)
<1>1. /\ pc[t] = "lock" /\ terminate
      /\ prev' = [prev EXCEPT ![t] = tid] /\ tid' = t
      /\ rank' = [rank EXCEPT ![t] = n + 1]
      /\ nthreads' = nthreads - 1
      /\ opc' = IF nthreads = 1 /\ opc = "termWait" THEN "termCheck" ELSE opc
      /\ pc' = [pc EXCEPT ![t] = IF tid = NoThread THEN "dead" ELSE "join"]
    BY DEF Leave
<1>2. /\ UNCHANGED <<taskQueue, terminate, built, lastPos, cur, joins, signalling>>
      /\ UNCHANGED <<runs, handed, scheduled, late>>
    BY DEF Leave, taskVars
<1>3. t \in Working /\ t \notin Left /\ t \notin signalling
    BY <1>1 DEF IInv, Working, Left, CallsNested
<1>4. Working' = Working \ {t} /\ Left' = Left \cup {t}
    BY <1>1 DEF IInv, TypeOK, Working, Left
<1>5. /\ Cardinality(Working') = Cardinality(Working) - 1
      /\ n \in Nat /\ Cardinality(Left') = n + 1
    BY <1>3, <1>4, ThreadSetsFinite, FS_RemoveElement, FS_AddElement
<1>6. opc \in {"termWait", "termCheck"} /\ opc' \in {"termWait", "termCheck"}
    BY <1>1, <1>3 DEF IInv, TypeOK, Phases
<1>7. Cardinality(Working) = nthreads /\ Cardinality(Working') = nthreads'
    BY <1>1, <1>5, <1>6, ThreadSetsFinite DEF IInv, TypeOK, ThreadsCounted
<1>8. nthreads' \in Nat
    <2>1. Cardinality(Working') \in Nat
        BY <1>4, ThreadSetsFinite, FS_RemoveElement, FS_CardinalityType
    <2> QED
        BY <1>7, <2>1
<1>9. TypeOK'
    BY <1>1, <1>2, <1>5, <1>6, <1>8 DEF IInv, TypeOK
<1>10. ThreadsCounted' /\ Phases' /\ AllDead'
    BY <1>1, <1>2, <1>6, <1>7, <1>8 DEF ThreadsCounted, Phases, AllDead
(* What holds of the others is as before, and t is above all of them.      *)
<1>11. /\ \A u \in Left : pc'[u] = pc[u] /\ rank'[u] = rank[u] /\ prev'[u] = prev[u]
       /\ \A u \in Left : rank'[u] \in Nat /\ rank'[u] < rank'[t]
       /\ rank'[t] = n + 1 /\ prev'[t] = tid
    <2>1. Left \subseteq Threads /\ \A u \in Left : u # t /\ rank[u] <= n
        BY <1>3 DEF IInv, Ranks, Left
    <2>2. /\ rank \in [Threads -> Nat] /\ prev \in [Threads -> Threads \cup {NoThread}]
          /\ DOMAIN pc = Threads
        BY DEF IInv, TypeOK
    <2> QED
        BY <1>1, <1>5, <2>1, <2>2
<1>12. Ranks' /\ LastLeft'
    <2>1. \A u \in Left : rank'[u] <= n
        BY <1>11 DEF IInv, Ranks
    <2>2. \A u, v \in Left' : rank'[u] = rank'[v] => u = v
        BY <1>4, <1>11 DEF IInv, Ranks
    <2>3. Ranks'
        BY <1>1, <1>2, <1>4, <1>5, <1>11, <2>1, <2>2 DEF Ranks
    <2>4. LastLeft'
        BY <1>1, <1>4, <1>5, <1>11, ThrdPoolAssumption DEF LastLeft
    <2> QED
        BY <2>3, <2>4
<1>13. Chain'
    <2>1. ASSUME NEW u \in Left', pc'[u] = "join"
          PROVE  /\ prev'[u] \in Left'
                 /\ \A v \in Left' : rank'[v] < rank'[u] => rank'[v] <= rank'[prev'[u]]
        <3>1. CASE u = t
            <4>1. tid # NoThread
                BY <1>1, <2>1, <3>1 DEF IInv, TypeOK
            <4>2. tid \in Left /\ \A v \in Left : rank[v] <= rank[tid]
                BY <4>1 DEF IInv, LastLeft
            <4>3. \A v \in Left' : rank'[v] < rank'[t] => v \in Left
                BY <1>4, <1>5, <1>11
            <4> QED
                BY <1>4, <1>11, <3>1, <4>2, <4>3
        <3>2. CASE u \in Left
            <4>1. /\ prev[u] \in Left
                  /\ \A v \in Left : rank[v] < rank[u] => rank[v] <= rank[prev[u]]
                BY <1>11, <2>1, <3>2 DEF IInv, Chain
            <4>2. \A v \in Left' : rank'[v] < rank'[u] => v \in Left
                BY <1>4, <1>5, <1>11, <3>2
            <4> QED
                BY <1>4, <1>11, <3>2, <4>1, <4>2
        <3> QED
            BY <1>4, <3>1, <3>2
    <2>2. ASSUME NEW u \in Left', NEW v \in Left', pc'[u] = "dead", rank'[v] <= rank'[u]
          PROVE  pc'[v] = "dead"
        <3>1. CASE u = t
            <4>1. Left = {}
                BY <1>1, <2>2, <3>1 DEF IInv, TypeOK, LastLeft
            <4> QED
                BY <1>4, <2>2, <3>1, <4>1
        <3>2. CASE u \in Left
            BY <1>4, <1>5, <1>11, <2>2, <3>2 DEF IInv, Chain
        <3> QED
            BY <1>4, <3>1, <3>2
    <2> QED
        BY <2>1, <2>2 DEF Chain
<1>14. CallsNested'
    BY <1>1, <1>2, <1>3, <1>6, ThrdPoolAssumption DEF IInv, TypeOK, CallsNested
<1> QED
    BY <1>9, <1>10, <1>12, <1>13, <1>14 DEF IInv

(* A thread has joined its predecessor, and so has ended.                  *)
LEMMA JoinPreviousIInv == ASSUME IInv, NEW t \in Threads, JoinPrevious(t) PROVE IInv'
<1>1. /\ pc[t] = "join" /\ pc[prev[t]] = "dead"
      /\ joins' = [joins EXCEPT ![prev[t]] = @ + 1]
      /\ pc' = [pc EXCEPT ![t] = "dead"]
      /\ UNCHANGED <<taskQueue, nthreads, tid, terminate, opc, built, lastPos>>
      /\ UNCHANGED <<cur, prev, rank, signalling, runs, handed, scheduled, late>>
    BY DEF JoinPrevious, poolVars, taskVars
<1>2. t \in Left /\ prev[t] \in Left /\ prev[t] \in Threads
    BY <1>1 DEF IInv, Chain, Left
<1>3. Working' = Working /\ Left' = Left
    BY <1>1 DEF IInv, TypeOK, Working, Left
<1>4. TypeOK'
    BY <1>1, <1>2 DEF IInv, TypeOK
<1>5. ThreadsCounted' /\ Phases' /\ Ranks' /\ LastLeft'
    BY <1>1, <1>3 DEF IInv, ThreadsCounted, Phases, Ranks, LastLeft
<1>6. \A u \in Left : pc'[u] = IF u = t THEN "dead" ELSE pc[u]
    BY <1>1 DEF IInv, TypeOK, Left
<1>7. Chain'
    <2>1. \A u \in Left : rank[u] \in Nat
        BY DEF IInv, TypeOK, Left
    <2>2. \A u \in Left : rank[u] <= rank[t] => u = t \/ rank[u] <= rank[prev[t]]
        BY <1>1, <1>2, <2>1 DEF IInv, Ranks, Chain
    <2>3. \A u \in Left : rank[u] <= rank[t] => pc'[u] = "dead"
        BY <1>1, <1>2, <1>6, <2>2 DEF IInv, Chain
    <2> QED
        BY <1>1, <1>3, <1>6, <2>3 DEF IInv, Chain
<1>8. AllDead'
    BY <1>1, <1>3, <1>6 DEF IInv, AllDead
<1>9. CallsNested'
    BY <1>1 DEF IInv, TypeOK, CallsNested
<1> QED
    BY <1>4, <1>5, <1>7, <1>8, <1>9 DEF IInv

-----------------------------------------------------------------------------
(* IInv is inductive.                                                      *)
THEOREM IInvInductive == IInv /\ [Next]_vars => IInv'
<1> SUFFICES ASSUME IInv, [Next]_vars PROVE IInv'
    OBVIOUS
<1>1. CASE OwnerStep \/ CreateThreadFails \/ CreateFails \/ Destroy
    BY <1>1, OwnerStepIInv, TerminateIInv DEF OwnerStep
<1>2. ASSUME NEW t \in Threads, CreateThread(t) \/ ThreadStep(t) \/ SpuriousWakeup(t)
      PROVE  IInv'
    BY <1>2, StartIInv, WorkIInv, LeaveIInv, JoinPreviousIInv DEF ThreadStep
<1>3. ASSUME NEW c \in Callers,
             \/ Signal(c)
             \/ \E k \in Tasks : Schedule(c, k)
             \/ \E t \in Threads : Increase(c, t)
      PROVE  IInv'
    BY <1>3, WorkIInv, ScheduleIInv, StartIInv
<1>4. CASE UNCHANGED vars
    <2>1. /\ UNCHANGED <<taskQueue, nthreads, tid, terminate, opc, built, lastPos, pc>>
          /\ UNCHANGED <<cur, prev, joins, rank, signalling, runs, handed, scheduled, late>>
        BY <1>4 DEF vars, poolVars, threadVars, taskVars
    <2>2. Working' = Working /\ Left' = Left
        BY <2>1 DEF Working, Left
    <2>3. TypeOK' /\ ThreadsCounted' /\ Phases' /\ AllDead' /\ CallsNested'
        BY <2>1, <2>2 DEF IInv, TypeOK, ThreadsCounted, Phases, AllDead, CallsNested
    <2>4. Ranks' /\ LastLeft' /\ Chain'
        BY <2>1, <2>2 DEF IInv, Ranks, LastLeft, Chain
    <2> QED
        BY <2>3, <2>4 DEF IInv
<1> QED
    BY <1>1, <1>2, <1>3, <1>4 DEF Next, Gone

(* Hence IInv holds of every state the pool reaches.                       *)
THEOREM Invariance == Spec => []IInv
BY InitIInv, IInvInductive, PTL DEF Spec

(***************************************************************************)
(* The variables of thrdpool.c's pool keep their types; in particular      *)
(* pool->nthreads never falls below zero.                                  *)
(***************************************************************************)
THEOREM TypeCorrect == Spec => []TypeOK
<1>1. IInv => TypeOK
    BY DEF IInv
<1> QED
    BY <1>1, Invariance, PTL

(***************************************************************************)
(* nthreads, which __thrdpool_terminate waits on, counts the threads that  *)
(* still work.                                                             *)
(***************************************************************************)
THEOREM CountCorrect == Spec => []ThreadsCounted
<1>1. IInv => ThreadsCounted
    BY DEF IInv
<1> QED
    BY <1>1, Invariance, PTL

(***************************************************************************)
(* When thrdpool_destroy empties the queue and frees the pool, every       *)
(* thread of the pool has ended and every call into it has returned.       *)
(***************************************************************************)
THEOREM FreedQuietly == Spec => []QuietWhenFreed
<1>1. IInv => QuietWhenFreed
    <2> SUFFICES ASSUME IInv, opc \in {"pending", "handing", "free", "gone"}
                 PROVE  /\ \A t \in Threads : pc[t] \in {"none", "dead"}
                        /\ signalling \subseteq IF opc = "handing" THEN {Owner} ELSE {}
        BY DEF QuietWhenFreed
    <2>1. \A t \in Threads : pc[t] \in {"none", "dead"}
        BY DEF IInv, TypeOK, Phases, AllDead, Working, Left
    <2>2. signalling \subseteq IF opc = "handing" THEN {Owner} ELSE {}
        BY <2>1 DEF IInv, TypeOK, CallsNested, Callers
    <2> QED
        BY <2>1, <2>2
<1> QED
    BY <1>1, Invariance, PTL

-----------------------------------------------------------------------------
(* The joins.  A thread is joined by the one that left after it, or by the *)
(* owner if it left last: the threads that have left form a chain without  *)
(* forks, of which pool->tid is the end.                                   *)

NoForks ==
    /\ \A t \in Left : prev[t] \in (Left \cup {NoThread}) \ {t}
    /\ \A t, u \in Left : prev[t] = prev[u] /\ prev[t] \in Left => t = u
    /\ \A t \in Left : t = tid <=> ~ \E u \in Left : prev[u] = t

OwnerJoined == opc \in {"pending", "handing", "free", "gone"}

(* Who has been joined so far.                                             *)
JoinsCounted ==
    \A t \in Threads :
        joins[t] = IF \/ \E u \in Left : prev[u] = t /\ pc[u] = "dead"
                      \/ t = tid /\ OwnerJoined
                   THEN 1 ELSE 0

JoinInv == NoForks /\ JoinsCounted

(* No step but Leave, JoinPrevious and JoinLast touches what is counted.   *)
LEMMA JoinsKept ==
    ASSUME IInv, JoinInv, Left' = Left, UNCHANGED <<prev, tid, joins>>,
           \A t \in Left : pc'[t] = pc[t],
           tid # NoThread => (OwnerJoined' <=> OwnerJoined)
    PROVE  JoinInv'
<1>1. NoForks'
    BY DEF JoinInv, NoForks
<1>2. \A t \in Threads : t = tid /\ OwnerJoined' <=> t = tid /\ OwnerJoined
    BY ThrdPoolAssumption
<1>3. JoinsCounted'
    BY <1>2 DEF JoinInv, JoinsCounted
<1> QED
    BY <1>1, <1>3 DEF JoinInv

LEMMA LeaveJoinInv == ASSUME IInv, JoinInv, NEW t \in Threads, Leave(t) PROVE JoinInv'
<1>1. /\ pc[t] = "lock" /\ terminate
      /\ prev' = [prev EXCEPT ![t] = tid] /\ tid' = t /\ joins' = joins
      /\ opc' = IF nthreads = 1 /\ opc = "termWait" THEN "termCheck" ELSE opc
      /\ pc' = [pc EXCEPT ![t] = IF tid = NoThread THEN "dead" ELSE "join"]
    BY DEF Leave
<1>2. t \in Working /\ t \notin Left /\ Left' = Left \cup {t} /\ Left \subseteq Threads
    BY <1>1 DEF IInv, TypeOK, Working, Left
<1>3. ~OwnerJoined /\ ~OwnerJoined'
    BY <1>1, <1>2 DEF IInv, Phases, OwnerJoined
<1>4. /\ \A u \in Left : prev'[u] = prev[u] /\ pc'[u] = pc[u]
      /\ prev'[t] = tid
    BY <1>1, <1>2 DEF IInv, TypeOK
<1>5. tid \in Left \cup {NoThread} /\ (tid = NoThread => Left = {}) /\ NoThread \notin Left'
    BY <1>2, ThrdPoolAssumption DEF IInv, LastLeft
<1>6. NoForks'
    BY <1>1, <1>2, <1>4, <1>5 DEF JoinInv, NoForks
<1>7. ASSUME NEW u \in Threads
      PROVE  (\E v \in Left' : prev'[v] = u /\ pc'[v] = "dead") <=>
             (\E v \in Left : prev[v] = u /\ pc[v] = "dead")
    <2>1. prev'[t] = u => pc'[t] # "dead"
        BY <1>1, <1>4, ThrdPoolAssumption DEF IInv, TypeOK
    <2> QED
        BY <1>2, <1>4, <2>1
<1>8. JoinsCounted'
    BY <1>1, <1>3, <1>7 DEF JoinInv, JoinsCounted
<1> QED
    BY <1>6, <1>8 DEF JoinInv

LEMMA JoinPreviousJoinInv ==
    ASSUME IInv, JoinInv, NEW t \in Threads, JoinPrevious(t)
    PROVE  JoinInv'
<1>1. /\ pc[t] = "join" /\ joins' = [joins EXCEPT ![prev[t]] = @ + 1]
      /\ pc' = [pc EXCEPT ![t] = "dead"]
      /\ UNCHANGED <<tid, opc, prev>>
    BY DEF JoinPrevious, poolVars
<1>2. t \in Left /\ prev[t] \in Left /\ prev[t] \in Threads /\ Left \subseteq Threads
    BY <1>1 DEF IInv, Chain, Left
<1>3. Left' = Left
    BY <1>1 DEF IInv, TypeOK, Left
<1>4. prev[t] # tid /\ \A u \in Left : prev[u] = prev[t] => u = t
    BY <1>2 DEF JoinInv, NoForks
<1>5. joins[prev[t]] = 0
    BY <1>1, <1>2, <1>4 DEF JoinInv, JoinsCounted
<1>6. NoForks'
    BY <1>1, <1>3 DEF JoinInv, NoForks
<1>7. \A u \in Left : pc'[u] = IF u = t THEN "dead" ELSE pc[u]
    BY <1>1, <1>2 DEF IInv, TypeOK
<1>8. ASSUME NEW v \in Threads
      PROVE  joins'[v] = IF \/ \E u \in Left : prev[u] = v /\ pc'[u] = "dead"
                            \/ v = tid /\ OwnerJoined
                         THEN 1 ELSE 0
    <2>1. CASE v = prev[t]
        <3>1. joins'[v] = 1
            BY <1>1, <1>2, <1>5, <2>1 DEF IInv, TypeOK
        <3>2. prev[t] = v /\ pc'[t] = "dead"
            BY <1>2, <1>7, <2>1
        <3> QED
            BY <1>2, <3>1, <3>2
    <2>2. CASE v # prev[t]
        <3>1. joins'[v] = joins[v]
            BY <1>1, <1>2, <2>2 DEF IInv, TypeOK
        <3>2. \A u \in Left : prev[u] = v => pc'[u] = pc[u]
            BY <1>7, <2>2
        <3> QED
            BY <3>1, <3>2 DEF JoinInv, JoinsCounted
    <2> QED
        BY <2>1, <2>2
<1>9. JoinsCounted'
    BY <1>1, <1>3, <1>8 DEF JoinsCounted, OwnerJoined
<1> QED
    BY <1>6, <1>9 DEF JoinInv

LEMMA JoinLastJoinInv == ASSUME IInv, JoinInv, JoinLast PROVE JoinInv'
<1>1. /\ opc = "join" /\ UNCHANGED <<tid, pc, prev>>
      /\ joins' = IF tid = NoThread THEN joins ELSE [joins EXCEPT ![tid] = @ + 1]
      /\ opc' \in {"pending", "gone"}
    BY DEF JoinLast, poolVars
<1>2. Left' = Left /\ ~OwnerJoined /\ OwnerJoined' /\ Left \subseteq Threads
    BY <1>1 DEF Left, OwnerJoined
<1>3. NoForks'
    BY <1>1, <1>2 DEF JoinInv, NoForks
<1>4. CASE tid = NoThread
    <2>1. joins' = joins /\ \A t \in Threads : t # tid
        BY <1>1, <1>4, ThrdPoolAssumption
    <2> QED
        BY <1>1, <1>2, <1>3, <2>1 DEF JoinInv, JoinsCounted
<1>5. CASE tid # NoThread
    <2>1. tid \in Left /\ tid \in Threads
        BY <1>2, <1>5 DEF IInv, LastLeft
    <2>2. ~ \E u \in Left : prev[u] = tid
        BY <2>1 DEF JoinInv, NoForks
    <2>3. joins[tid] = 0
        BY <1>2, <2>1, <2>2 DEF JoinInv, JoinsCounted
    <2>4. \A t \in Threads : joins'[t] = IF t = tid THEN 1 ELSE joins[t]
        BY <1>1, <1>5, <2>1, <2>3 DEF IInv, TypeOK
    <2>5. JoinsCounted'
        BY <1>1, <1>2, <2>4 DEF JoinInv, JoinsCounted
    <2> QED
        BY <1>3, <2>5 DEF JoinInv
<1> QED
    BY <1>4, <1>5

LEMMA JoinStep == IInv /\ JoinInv /\ [Next]_vars => JoinInv'
<1> SUFFICES ASSUME IInv, JoinInv, [Next]_vars PROVE JoinInv'
    OBVIOUS
<1>1. CASE \/ CountThread \/ CreateReturns \/ TerminateRetest \/ HandOver
           \/ PendingReturns \/ Free \/ CreateThreadFails \/ CreateFails \/ Destroy
    <2>1. UNCHANGED <<pc, prev, tid, joins>>
        BY <1>1 DEF CountThread, CreateReturns, TerminateRetest, HandOver, PendingReturns,
                    Free, CreateThreadFails, CreateFails, Destroy, poolVars, threadVars
    <2>2. tid # NoThread => (OwnerJoined' <=> OwnerJoined)
        BY <1>1 DEF IInv, TypeOK, Phases, LastLeft, Ranks, OwnerJoined, CountThread,
                    CreateReturns, TerminateRetest, HandOver, PendingReturns, Free,
                    CreateThreadFails, CreateFails, Destroy
    <2> QED
        BY <2>1, <2>2, ThreadsUnchanged, JoinsKept
<1>2. CASE Terminate
    <2>1. /\ UNCHANGED <<prev, tid, joins>> /\ Left' = Left
          /\ \A t \in Left : pc'[t] = pc[t]
          /\ ~OwnerJoined /\ ~OwnerJoined'
        BY <1>2 DEF IInv, TypeOK, Terminate, Left, OwnerJoined
    <2> QED
        BY <2>1, JoinsKept
<1>3. ASSUME NEW t \in Threads, CreateThread(t) \/ \E c \in Callers : Increase(c, t)
      PROVE  JoinInv'
    <2>1. /\ UNCHANGED <<prev, tid, joins>> /\ Left' = Left
          /\ \A u \in Left : pc'[u] = pc[u]
          /\ OwnerJoined' <=> OwnerJoined
        BY <1>3 DEF IInv, TypeOK, CreateThread, Increase, Left, OwnerJoined, poolVars
    <2> QED
        BY <2>1, JoinsKept
<1>4. ASSUME NEW t \in Threads,
             WaitForTask(t) \/ SpuriousWakeup(t) \/ TakeTask(t) \/ TaskReturns(t)
      PROVE  JoinInv'
    <2>1. /\ UNCHANGED <<prev, tid, joins, opc>> /\ Left' = Left
          /\ \A u \in Left : pc'[u] = pc[u]
        BY <1>4 DEF IInv, TypeOK, WaitForTask, SpuriousWakeup, TakeTask, TaskReturns, Left,
                    poolVars
    <2> QED
        BY <2>1, JoinsKept DEF OwnerJoined
<1>5. ASSUME NEW c \in Callers, Signal(c) \/ \E k \in Tasks : Schedule(c, k)
      PROVE  JoinInv'
    <2>1. /\ UNCHANGED <<prev, tid, joins, opc>> /\ Left' = Left
          /\ \A u \in Left : pc'[u] = pc[u]
        BY <1>5 DEF IInv, TypeOK, Signal, WakeOne, Schedule, Left, poolVars, threadVars
    <2> QED
        BY <2>1, JoinsKept DEF OwnerJoined
<1>6. CASE UNCHANGED vars
    <2>1. UNCHANGED <<pc, prev, tid, joins, opc>>
        BY <1>6 DEF vars, poolVars, threadVars
    <2> QED
        BY <2>1, ThreadsUnchanged, JoinsKept DEF OwnerJoined
<1> QED
    BY <1>1, <1>2, <1>3, <1>4, <1>5, <1>6, LeaveJoinInv, JoinPreviousJoinInv, JoinLastJoinInv
    DEF Next, OwnerStep, ThreadStep, Gone

(***************************************************************************)
(* For any number of threads, no thread is ever joined twice, and when the *)
(* pool is gone every thread that was created has been joined: by its      *)
(* successor, or, the last one, by the owner.                              *)
(***************************************************************************)
THEOREM JoinedOnce == Spec => []JoinedExactlyOnce
<1>1. Init => JoinInv
    <2> SUFFICES ASSUME Init PROVE JoinInv
        OBVIOUS
    <2>1. Left = {} /\ \A t \in Threads : t # tid /\ joins[t] = 0
        BY ThrdPoolAssumption DEF Init, Left
    <2> QED
        BY <2>1 DEF JoinInv, NoForks, JoinsCounted
<1>2. IInv /\ JoinInv => JoinedExactlyOnce
    <2> SUFFICES ASSUME IInv, JoinInv PROVE JoinedExactlyOnce
        OBVIOUS
    <2>1. \A t \in Threads : joins[t] <= 1
        BY DEF JoinInv, JoinsCounted
    <2>2. ASSUME opc = "gone", NEW t \in Threads, pc[t] # "none" PROVE joins[t] = 1
        <3>1. t \in Left /\ OwnerJoined
            BY <2>2 DEF IInv, TypeOK, Phases, Working, Left, OwnerJoined
        <3>2. \A u \in Left : pc[u] = "dead"
            BY <2>2 DEF IInv, AllDead
        <3> QED
            BY <3>1, <3>2 DEF JoinInv, NoForks, JoinsCounted
    <2> QED
        BY <2>1, <2>2 DEF JoinedExactlyOnce
<1>3. Spec => []JoinInv
    BY <1>1, Invariance, JoinStep, PTL DEF Spec
<1> QED
    BY <1>2, <1>3, Invariance, PTL

-----------------------------------------------------------------------------
(* The refinement.  What it needs besides IInv: only a running thread has  *)
(* a task; nothing was ever queued in a pool that could not be created;    *)
(* and what the walk of destroy has passed by was queued by pending().     *)

TaskHeld ==
    \A t \in Threads : IF pc[t] = "run" THEN cur[t] \in Tasks ELSE cur[t] = NoTask

UnbuiltUnused ==
    /\ built => opc \notin {"create", "count"}
    /\ ~built => /\ opc \notin {"up", "pending", "handing", "free"}
                 /\ taskQueue = <<>>
                 /\ \A t \in Threads : pc[t] # "run"

QueuedScheduled == \A i \in 1..Len(taskQueue) : taskQueue[i] \in scheduled

PassedByLate ==
    (opc = "free" \/ (opc = "handing" /\ lastPos)) =>
        \A i \in 1..Len(taskQueue) : taskQueue[i] \in late

TaskInv == TaskHeld /\ UnbuiltUnused /\ QueuedScheduled /\ PassedByLate

LEMMA TakeFirst ==
    ASSUME NEW S, NEW q \in Seq(S), q # <<>>
    PROVE  /\ Head(q) = q[1] /\ q[1] \in S /\ Len(q) \in Nat /\ Len(q) >= 1
           /\ Tail(q) \in Seq(S) /\ Len(Tail(q)) = Len(q) - 1
           /\ \A i \in 1..Len(Tail(q)) : Tail(q)[i] = q[i + 1] /\ i + 1 \in 1..Len(q)
OBVIOUS

LEMMA AddLast ==
    ASSUME NEW S, NEW q \in Seq(S), NEW x \in S
    PROVE  /\ Append(q, x) \in Seq(S) /\ Len(q) \in Nat /\ Len(Append(q, x)) = Len(q) + 1
           /\ \A i \in 1..Len(q) : Append(q, x)[i] = q[i]
           /\ Append(q, x)[Len(q) + 1] = x
OBVIOUS

LEMMA TaskInvStep == IInv /\ TaskInv /\ [Next]_vars => TaskInv'
<1> SUFFICES ASSUME IInv, TaskInv, [Next]_vars PROVE TaskInv'
    OBVIOUS
<1> USE DEF poolVars, threadVars, taskVars
<1>1. CASE \/ CountThread \/ CreateReturns \/ TerminateRetest \/ PendingReturns
           \/ Free \/ CreateThreadFails \/ CreateFails \/ Destroy \/ JoinLast
    <2>1. UNCHANGED <<pc, cur, taskQueue, scheduled, late, lastPos>>
        BY <1>1 DEF CountThread, CreateReturns, TerminateRetest, PendingReturns,
                    Free, CreateThreadFails, CreateFails, Destroy, JoinLast
    <2>2. TaskHeld' /\ QueuedScheduled'
        BY <2>1 DEF TaskInv, TaskHeld, QueuedScheduled
    <2>3. UnbuiltUnused'
        BY <1>1, <2>1 DEF TaskInv, UnbuiltUnused, CountThread, CreateReturns,
            TerminateRetest, PendingReturns, Free, CreateThreadFails, CreateFails,
            Destroy, JoinLast
    <2>4. PassedByLate'
        BY <1>1, <2>1 DEF TaskInv, PassedByLate, CountThread, CreateReturns,
            TerminateRetest, PendingReturns, Free, CreateThreadFails, CreateFails,
            Destroy, JoinLast
    <2> QED
        BY <2>2, <2>3, <2>4 DEF TaskInv
<1>2. CASE HandOver
    <2>1. /\ opc = "pending" /\ opc' = "handing" /\ taskQueue # <<>>
          /\ taskQueue' = Tail(taskQueue)
          /\ UNCHANGED <<pc, cur, scheduled, late, built>>
        BY <1>2 DEF HandOver
    <2>2. lastPos' <=> Len(taskQueue) = 1
        BY <1>2, Zenon DEF HandOver
    <2>3. taskQueue \in Seq(Tasks)
        BY DEF IInv, TypeOK
    <2>4. /\ Len(taskQueue') = Len(taskQueue) - 1 /\ Len(taskQueue) \in Nat
          /\ \A i \in 1..Len(taskQueue') :
                 taskQueue'[i] = taskQueue[i + 1] /\ i + 1 \in 1..Len(taskQueue)
        BY <2>1, <2>3, TakeFirst
    <2>5. TaskHeld' /\ QueuedScheduled' /\ UnbuiltUnused'
        BY <2>1, <2>4 DEF TaskInv, TaskHeld, QueuedScheduled, UnbuiltUnused
    <2>6. PassedByLate'
        BY <2>1, <2>2, <2>4 DEF PassedByLate
    <2> QED
        BY <2>5, <2>6 DEF TaskInv
<1>3. CASE Terminate
    <2>1. /\ opc' \in {"termWait", "join"}
          /\ UNCHANGED <<cur, taskQueue, scheduled, late, built>>
          /\ \A t \in Threads : pc'[t] = "run" <=> pc[t] = "run"
        BY <1>3 DEF Terminate
    <2> QED
        BY <2>1 DEF TaskInv, TaskHeld, QueuedScheduled, UnbuiltUnused, PassedByLate
<1>4. ASSUME NEW t \in Threads,
             \/ CreateThread(t) \/ WaitForTask(t) \/ SpuriousWakeup(t) \/ Leave(t)
             \/ JoinPrevious(t) \/ \E c \in Callers : Increase(c, t)
      PROVE  TaskInv'
    <2>1. /\ UNCHANGED <<cur, taskQueue, scheduled, late, lastPos, built>>
          /\ \/ opc' = opc
             \/ opc = "create" /\ opc' = "count"
             \/ opc = "termWait" /\ opc' = "termCheck"
          /\ pc[t] # "run"
          /\ \E p \in {"lock", "wait", "join", "dead"} : pc' = [pc EXCEPT ![t] = p]
        BY <1>4 DEF CreateThread, WaitForTask, SpuriousWakeup, Leave, JoinPrevious, Increase
    <2>2. \A u \in Threads : pc'[u] = "run" <=> pc[u] = "run"
        BY <2>1 DEF IInv, TypeOK
    <2> QED
        BY <2>1, <2>2 DEF TaskInv, TaskHeld, QueuedScheduled, UnbuiltUnused, PassedByLate
<1>5. ASSUME NEW t \in Threads, TakeTask(t) PROVE TaskInv'
    <2>1. /\ UNCHANGED <<opc, scheduled, late, lastPos, built>>
          /\ taskQueue # <<>> /\ taskQueue' = Tail(taskQueue)
          /\ cur' = [cur EXCEPT ![t] = Head(taskQueue)]
          /\ pc' = [pc EXCEPT ![t] = "run"]
        BY <1>5 DEF TakeTask
    <2>2. taskQueue \in Seq(Tasks)
        BY DEF IInv, TypeOK
    <2>3. /\ Head(taskQueue) \in Tasks
          /\ \A i \in 1..Len(taskQueue') :
                 taskQueue'[i] = taskQueue[i + 1] /\ i + 1 \in 1..Len(taskQueue)
        BY <2>1, <2>2, TakeFirst
    <2>4. TaskHeld'
        BY <2>1, <2>3 DEF IInv, TypeOK, TaskInv, TaskHeld
    <2>5. QueuedScheduled' /\ UnbuiltUnused' /\ PassedByLate'
        BY <2>1, <2>3 DEF TaskInv, QueuedScheduled, UnbuiltUnused, PassedByLate
    <2> QED
        BY <2>4, <2>5 DEF TaskInv
<1>6. ASSUME NEW t \in Threads, TaskReturns(t) PROVE TaskInv'
    <2>1. /\ UNCHANGED <<opc, taskQueue, scheduled, late, lastPos, built>>
          /\ cur' = [cur EXCEPT ![t] = NoTask]
          /\ pc' = [pc EXCEPT ![t] = "lock"]
        BY <1>6 DEF TaskReturns
    <2> QED
        BY <2>1 DEF IInv, TypeOK, TaskInv, TaskHeld, QueuedScheduled, UnbuiltUnused,
                    PassedByLate
<1>7. ASSUME NEW c \in Callers, Signal(c) PROVE TaskInv'
    <2>1. /\ UNCHANGED <<opc, cur, taskQueue, scheduled, late, lastPos, built>>
          /\ \A u \in Threads : pc'[u] = "run" <=> pc[u] = "run"
        BY <1>7 DEF IInv, TypeOK, Signal, WakeOne
    <2> QED
        BY <2>1 DEF TaskInv, TaskHeld, QueuedScheduled, UnbuiltUnused, PassedByLate
<1>8. ASSUME NEW c \in Callers, NEW k \in Tasks, Schedule(c, k) PROVE TaskInv'
    <2>1. /\ UNCHANGED <<opc, cur, pc, lastPos, built>> /\ MayCall(c)
          /\ taskQueue' = Append(taskQueue, k) /\ scheduled' = scheduled \cup {k}
          /\ late' = IF c = Owner THEN late \cup {k} ELSE late
        BY <1>8 DEF Schedule
    <2>2. built
        BY <2>1 DEF MayCall, TaskInv, UnbuiltUnused
    <2>3. taskQueue \in Seq(Tasks)
        BY DEF IInv, TypeOK
    <2>4. /\ Len(taskQueue) \in Nat /\ Len(taskQueue') = Len(taskQueue) + 1
          /\ \A i \in 1..Len(taskQueue) : taskQueue'[i] = taskQueue[i]
          /\ taskQueue'[Len(taskQueue) + 1] = k
        BY <2>1, <2>3, AddLast
    <2>5. (opc = "free" \/ opc = "handing") => opc = "handing" /\ c = Owner
        BY <2>1 DEF IInv, Phases, Working, MayCall
    <2>6. QueuedScheduled'
        BY <2>1, <2>4 DEF TaskInv, QueuedScheduled
    <2>7. PassedByLate'
        BY <2>1, <2>4, <2>5 DEF TaskInv, PassedByLate
    <2> QED
        BY <2>1, <2>2, <2>6, <2>7 DEF TaskInv, TaskHeld, UnbuiltUnused
<1>9. CASE UNCHANGED vars
    <2>1. UNCHANGED <<opc, pc, cur, taskQueue, scheduled, late, lastPos, built>>
        BY <1>9 DEF vars
    <2> QED
        BY <2>1 DEF TaskInv, TaskHeld, QueuedScheduled, UnbuiltUnused, PassedByLate
<1> QED
    BY <1>1, <1>2, <1>3, <1>4, <1>5, <1>6, <1>7, <1>8, <1>9
    DEF Next, OwnerStep, ThreadStep, Gone

-----------------------------------------------------------------------------
(* What the refinement mapping does to the queue and to the running tasks. *)

Tagged(q, L) == [i \in 1..Len(q) |-> [task |-> q[i], late |-> q[i] \in L]]

LEMMA AbsWaitingTagged == IInv => AbsWaiting = Tagged(taskQueue, late)
<1> SUFFICES ASSUME IInv PROVE AbsWaiting = Tagged(taskQueue, late)
    OBVIOUS
<1>1. DOMAIN taskQueue = 1..Len(taskQueue)
    BY DEF IInv, TypeOK
<1> QED
    BY <1>1, Zenon DEF AbsWaiting, Tagged

LEMMA AbsWaitingTaggedNext == IInv' => AbsWaiting' = Tagged(taskQueue', late')
<1> SUFFICES ASSUME IInv' PROVE AbsWaiting' = Tagged(taskQueue', late')
    OBVIOUS
<1>1. DOMAIN taskQueue' = 1..Len(taskQueue')
    BY DEF IInv, TypeOK
<1> QED
    BY <1>1, Zenon DEF AbsWaiting, Tagged

LEMMA SameSeq ==
    ASSUME NEW R, NEW a \in Seq(R), NEW b \in Seq(R), NEW n, Len(a) = n, Len(b) = n,
           \A i \in 1..n : a[i] = b[i]
    PROVE  a = b
OBVIOUS

LEMMA TaggedSeq ==
    ASSUME NEW S, NEW q \in Seq(S), NEW L
    PROVE  /\ Tagged(q, L) \in Seq([task : S, late : BOOLEAN])
           /\ Len(Tagged(q, L)) = Len(q)
<1>1. Len(q) \in Nat /\ \A i \in 1..Len(q) : q[i] \in S
    OBVIOUS
<1>2. \A x : (x \in L) \in BOOLEAN
    BY SMT
<1>3. \A x \in S : [task |-> x, late |-> x \in L] \in [task : S, late : BOOLEAN]
    BY <1>2, Zenon
<1>4. Tagged(q, L) \in [1..Len(q) -> [task : S, late : BOOLEAN]]
    BY <1>1, <1>3, Zenon DEF Tagged
<1>5. ASSUME NEW R, NEW n \in Nat, NEW f \in [1..n -> R] PROVE f \in Seq(R) /\ Len(f) = n
    BY <1>5
<1> QED
    BY <1>1, <1>4, <1>5, Zenon

LEMMA TaggedTail ==
    ASSUME NEW S, NEW q \in Seq(S), NEW L, q # <<>>
    PROVE  /\ Tagged(q, L) # <<>> /\ Head(Tagged(q, L)).task = Head(q)
           /\ Tagged(Tail(q), L) = Tail(Tagged(q, L))
<1> DEFINE e == Tagged(q, L)
           R == [task : S, late : BOOLEAN]
<1>1. e \in Seq(R) /\ Len(e) = Len(q)
    BY TaggedSeq
<1>2. /\ Head(q) = q[1] /\ Len(q) \in Nat /\ Len(q) >= 1
      /\ Tail(q) \in Seq(S) /\ Len(Tail(q)) = Len(q) - 1
      /\ \A i \in 1..Len(Tail(q)) : Tail(q)[i] = q[i + 1] /\ i + 1 \in 1..Len(q)
    BY TakeFirst
<1>3. \A i \in 1..Len(q) : e[i] = [task |-> q[i], late |-> q[i] \in L]
    BY Zenon DEF Tagged
<1>4. e # <<>>
    BY <1>1, <1>2
<1>5. Head(e) = e[1] /\ 1 \in 1..Len(q)
    BY <1>1, <1>2, <1>4
<1>6. Head(e).task = Head(q)
    <2>1. e[1] = [task |-> q[1], late |-> q[1] \in L]
        BY <1>3, <1>5, Zenon
    <2> HIDE DEF e
    <2>2. \A b : e[1] = [task |-> q[1], late |-> b] => e[1].task = q[1]
        BY SMT
    <2>3. e[1].task = q[1]
        BY <2>1, <2>2, Zenon
    <2> QED
        BY <1>2, <1>5, <2>3, Zenon
<1>7. /\ Tail(e) \in Seq(R) /\ Len(Tail(e)) = Len(q) - 1
      /\ \A i \in 1..Len(Tail(e)) : Tail(e)[i] = e[i + 1]
    <2> HIDE DEF e, R
    <2> QED
        BY <1>1, <1>4, TakeFirst
<1>8. Tagged(Tail(q), L) \in Seq(R) /\ Len(Tagged(Tail(q), L)) = Len(q) - 1
    BY <1>2, TaggedSeq
<1>9. \A i \in 1..Len(Tail(q)) : Tagged(Tail(q), L)[i] = Tail(e)[i]
    <2> SUFFICES ASSUME NEW i \in 1..Len(Tail(q))
                 PROVE  Tagged(Tail(q), L)[i] = Tail(e)[i]
        OBVIOUS
    <2>1. Tagged(Tail(q), L)[i] = [task |-> Tail(q)[i], late |-> Tail(q)[i] \in L]
        BY Zenon DEF Tagged
    <2>2. Tail(e)[i] = e[i + 1]
        BY <1>2, <1>7, Zenon
    <2>3. Tail(q)[i] = q[i + 1] /\ i + 1 \in 1..Len(q)
        BY <1>2, Zenon
    <2>4. e[i + 1] = [task |-> q[i + 1], late |-> q[i + 1] \in L]
        BY <1>3, <2>3, Zenon
    <2> QED
        BY <2>1, <2>2, <2>3, <2>4, Zenon
<1>10. Tagged(Tail(q), L) = Tail(e)
    <2>1. \A i \in 1..(Len(q) - 1) : Tagged(Tail(q), L)[i] = Tail(e)[i]
        BY <1>2, <1>9, Zenon
    <2> HIDE DEF e, R
    <2> QED
        BY <1>7, <1>8, <2>1, SameSeq
<1> QED
    BY <1>4, <1>6, <1>10

LEMMA TaggedAppend ==
    ASSUME NEW S, NEW q \in Seq(S), NEW L, NEW M, NEW x \in S,
           NEW b \in BOOLEAN, b <=> x \in M,
           \A i \in 1..Len(q) : q[i] \in M <=> q[i] \in L
    PROVE  Tagged(Append(q, x), M) = Append(Tagged(q, L), [task |-> x, late |-> b])
<1> DEFINE e == Tagged(q, L)
           f == Tagged(Append(q, x), M)
           r == [task |-> x, late |-> b]
           R == [task : S, late : BOOLEAN]
<1>1. e \in Seq(R) /\ Len(e) = Len(q) /\ Len(q) \in Nat
    <2>1. Len(q) \in Nat
        OBVIOUS
    <2> QED
        BY <2>1, TaggedSeq, Zenon
<1>2. /\ Append(q, x) \in Seq(S) /\ Len(Append(q, x)) = Len(q) + 1
      /\ \A i \in 1..Len(q) : Append(q, x)[i] = q[i]
      /\ Append(q, x)[Len(q) + 1] = x
    BY AddLast
<1>3. f \in Seq(R) /\ Len(f) = Len(q) + 1
    BY <1>2, TaggedSeq
<1>4. r \in R
    BY Zenon
<1>5. /\ Append(e, r) \in Seq(R) /\ Len(Append(e, r)) = Len(q) + 1
      /\ \A i \in 1..Len(q) : Append(e, r)[i] = e[i]
      /\ Append(e, r)[Len(q) + 1] = r
    <2> HIDE DEF e, r, R
    <2> QED
        BY <1>1, <1>4, AddLast
<1>6. \A i \in 1..Len(Append(q, x)) :
          f[i] = [task |-> Append(q, x)[i], late |-> Append(q, x)[i] \in M]
    BY Zenon DEF Tagged
<1>7. \A i \in 1..Len(q) : e[i] = [task |-> q[i], late |-> q[i] \in L]
    BY Zenon DEF Tagged
<1>8. Len(q) + 1 \in 1..Len(Append(q, x)) /\ 1..Len(q) \subseteq 1..Len(Append(q, x))
    BY <1>1, <1>2
<1>9. f[Len(q) + 1] = r
    <2>1. (x \in M) = b
        BY SMT
    <2>2. f[Len(q) + 1] = [task |-> x, late |-> x \in M]
        BY <1>2, <1>6, <1>8, Zenon
    <2> QED
        BY <2>1, <2>2, Zenon
<1>10. \A i \in 1..Len(q) : (q[i] \in M) = (q[i] \in L)
    BY SMT
<1>11. \A i \in 1..Len(q) : f[i] = e[i]
    <2> SUFFICES ASSUME NEW i \in 1..Len(q) PROVE f[i] = e[i]
        OBVIOUS
    <2>1. i \in 1..Len(Append(q, x))
        BY <1>8
    <2>2. f[i] = [task |-> q[i], late |-> q[i] \in M]
        BY <1>2, <1>6, <2>1, Zenon
    <2> QED
        BY <1>7, <1>10, <2>2, Zenon
<1>12. \A i \in 1..Len(q) + 1 : f[i] = Append(e, r)[i]
    <2> HIDE DEF e, f, r
    <2> QED
        BY <1>1, <1>5, <1>9, <1>11
<1> QED
    <2>1. f = Append(e, r)
        <3> HIDE DEF e, f, r, R
        <3> QED
            BY <1>3, <1>5, <1>12, SameSeq
    <2> QED
        BY <2>1, Zenon

Runners(k) == {t \in Threads : cur[t] = k}

LEMMA RunnersFinite ==
    ASSUME NEW k
    PROVE  IsFiniteSet(Runners(k)) /\ Cardinality(Runners(k)) \in Nat
<1>1. Runners(k) \subseteq Threads
    BY DEF Runners
<1> QED
    BY <1>1, ThrdPoolAssumption, FS_Subset, FS_CardinalityType

LEMMA NobodyRuns ==
    ASSUME IInv, TaskInv, \A t \in Threads : pc[t] # "run"
    PROVE  \A k \in Tasks : AbsRunning[k] = 0
<1> SUFFICES ASSUME NEW k \in Tasks PROVE AbsRunning[k] = 0
    OBVIOUS
<1>1. Runners(k) = {}
    BY ThrdPoolAssumption DEF TaskInv, TaskHeld, Runners
<1> QED
    BY <1>1, FS_EmptySet DEF AbsRunning, Runners

LEMMA OneMoreRuns ==
    ASSUME IInv, TaskInv, NEW t \in Threads, NEW k \in Tasks, pc[t] # "run",
           cur' = [cur EXCEPT ![t] = k]
    PROVE  AbsRunning' = [AbsRunning EXCEPT ![k] = @ + 1]
<1>1. cur[t] = NoTask /\ NoTask \notin Tasks /\ cur \in [Threads -> Tasks \cup {NoTask}]
    BY ThrdPoolAssumption DEF IInv, TypeOK, TaskInv, TaskHeld
<1>2. t \notin Runners(k) /\ {u \in Threads : cur'[u] = k} = Runners(k) \cup {t}
    BY <1>1 DEF Runners
<1>3. \A j \in Tasks \ {k} : {u \in Threads : cur'[u] = j} = {u \in Threads : cur[u] = j}
    BY <1>1
<1>4. Cardinality({u \in Threads : cur'[u] = k}) = Cardinality({u \in Threads : cur[u] = k}) + 1
    <2>1. Cardinality(Runners(k) \cup {t}) = Cardinality(Runners(k)) + 1
        BY <1>2, RunnersFinite, FS_AddElement
    <2> QED
        BY <1>2, <2>1 DEF Runners
<1> QED
    BY <1>3, <1>4 DEF AbsRunning

LEMMA OneLessRuns ==
    ASSUME IInv, TaskInv, NEW t \in Threads, pc[t] = "run",
           cur' = [cur EXCEPT ![t] = NoTask]
    PROVE  /\ cur[t] \in Tasks /\ AbsRunning[cur[t]] > 0
           /\ AbsRunning' = [AbsRunning EXCEPT ![cur[t]] = @ - 1]
<1>1. cur[t] \in Tasks /\ NoTask \notin Tasks /\ cur \in [Threads -> Tasks \cup {NoTask}]
    BY ThrdPoolAssumption DEF IInv, TypeOK, TaskInv, TaskHeld
<1>2. PICK k \in Tasks : k = cur[t]
    BY <1>1
<1>3. t \in Runners(k) /\ {u \in Threads : cur'[u] = k} = Runners(k) \ {t}
    BY <1>1, <1>2 DEF Runners
<1>4. \A j \in Tasks \ {k} : {u \in Threads : cur'[u] = j} = {u \in Threads : cur[u] = j}
    BY <1>1, <1>2
<1>5. Cardinality(Runners(k) \ {t}) = Cardinality(Runners(k)) - 1
    BY <1>3, RunnersFinite, FS_RemoveElement
<1>6. Cardinality(Runners(k)) > 0
    BY <1>3, RunnersFinite, FS_EmptySet
<1>7. AbsRunning[k] > 0
    BY <1>6 DEF AbsRunning, Runners
<1>8. Cardinality({u \in Threads : cur'[u] = k}) = Cardinality({u \in Threads : cur[u] = k}) - 1
    BY <1>3, <1>5 DEF Runners
<1>9. AbsRunning' = [AbsRunning EXCEPT ![k] = @ - 1]
    BY <1>4, <1>8 DEF AbsRunning
<1> QED
    BY <1>1, <1>2, <1>7, <1>9

-----------------------------------------------------------------------------
(* Every step of the pool is a step of the task pool, or changes nothing   *)
(* that its callers see.                                                   *)

LEMMA Phase ==
    ASSUME IInv
    PROVE  /\ AbsPhase = "closed" <=> opc = "gone"
           /\ AbsPhase = "handing" <=> opc \in {"pending", "handing", "free"}
           /\ AbsPhase = "open" <=> opc \in {"create", "count", "up", "term"}
           /\ AbsPhase = "closing" <=> opc \in {"termWait", "termCheck", "join"}
BY DEF IInv, TypeOK, Phases, AbsPhase

LEMMA SubmitStep ==
    ASSUME IInv, IInv', TaskInv, NEW c \in Callers, NEW k \in Tasks, Schedule(c, k)
    PROVE  Pool!Submit(k)
<1>1. /\ UNCHANGED <<opc, cur, terminate>> /\ MayCall(c) /\ k \notin scheduled
      /\ taskQueue' = Append(taskQueue, k)
      /\ late' = IF c = Owner THEN late \cup {k} ELSE late
    BY DEF Schedule, threadVars
<1>2. UNCHANGED <<AbsRunning, AbsPhase>>
    BY <1>1 DEF AbsRunning, AbsPhase
<1>3. c = Owner <=> AbsPhase = "handing"
    BY <1>1, Phase, ThrdPoolAssumption DEF IInv, Phases, Working, MayCall
<1>4. AbsPhase # "closed" /\ (AbsPhase = "closing" => c \in Threads /\ pc[c] = "run")
    BY <1>1, Phase DEF IInv, Phases, Working, MayCall
<1>5. AbsPhase = "closing" => ~Pool!Idle
    <2> SUFFICES ASSUME AbsPhase = "closing" PROVE ~Pool!Idle
        OBVIOUS
    <2>1. c \in Threads /\ cur[c] \in Tasks
        BY <1>4 DEF TaskInv, TaskHeld
    <2>2. Runners(cur[c]) # {}
        BY <2>1 DEF Runners
    <2>3. Cardinality(Runners(cur[c])) # 0
        BY <2>2, RunnersFinite, FS_EmptySet
    <2> QED
        BY <2>1, <2>3 DEF Pool!Idle, AbsRunning, Runners
<1>6. AbsWaiting' = Append(AbsWaiting, [task |-> k, late |-> AbsPhase = "handing"])
    <2>1. AbsWaiting = Tagged(taskQueue, late) /\ AbsWaiting' = Tagged(taskQueue', late')
        BY AbsWaitingTagged, AbsWaitingTaggedNext
    <2>2. taskQueue \in Seq(Tasks) /\ late \subseteq scheduled
        BY DEF IInv, TypeOK
    <2>3. \A i \in 1..Len(taskQueue) : taskQueue[i] \in late' <=> taskQueue[i] \in late
        BY <1>1 DEF TaskInv, QueuedScheduled
    <2>4. (AbsPhase = "handing") \in BOOLEAN /\ (AbsPhase = "handing" <=> k \in late')
        BY <1>1, <1>3, <2>2
    <2>5. PICK b \in BOOLEAN : b = (AbsPhase = "handing")
        BY <2>4, Zenon
    <2>6. b <=> k \in late'
        BY <2>4, <2>5, Zenon
    <2>7. Tagged(Append(taskQueue, k), late') =
              Append(Tagged(taskQueue, late), [task |-> k, late |-> b])
        BY <2>2, <2>3, <2>6, TaggedAppend, SMT
    <2> QED
        BY <1>1, <2>1, <2>5, <2>7, Zenon
<1> QED
    BY <1>2, <1>4, <1>5, <1>6 DEF Pool!Submit, Pool!Entry

LEMMA StartStep ==
    ASSUME IInv, IInv', TaskInv, NEW t \in Threads, TakeTask(t)
    PROVE  \E k \in Tasks : Pool!Start(k)
<1>1. /\ UNCHANGED <<opc, late, terminate>> /\ ~terminate /\ pc[t] = "lock"
      /\ taskQueue # <<>> /\ taskQueue' = Tail(taskQueue)
      /\ cur' = [cur EXCEPT ![t] = Head(taskQueue)]
    BY DEF TakeTask, taskVars
<1>2. PICK k \in Tasks : k = Head(taskQueue)
    <2>1. taskQueue \in Seq(Tasks)
        BY DEF IInv, TypeOK
    <2>2. Head(taskQueue) \in Tasks
        BY <1>1, <2>1, TakeFirst
    <2> QED
        BY <2>2
<1>3. AbsPhase = "open" /\ AbsPhase' = AbsPhase
    <2>1. AbsPhase' = AbsPhase
        BY <1>1 DEF AbsPhase
    <2>2. t \in Working
        BY <1>1 DEF Working
    <2> QED
        BY <1>1, <2>1, <2>2, Phase DEF IInv, Phases
<1>4. AbsRunning' = [AbsRunning EXCEPT ![k] = @ + 1]
    BY <1>1, <1>2, OneMoreRuns
<1>5. AbsWaiting # <<>> /\ Head(AbsWaiting).task = k /\ AbsWaiting' = Tail(AbsWaiting)
    <2>1. taskQueue \in Seq(Tasks)
        BY DEF IInv, TypeOK
    <2>2. AbsWaiting = Tagged(taskQueue, late) /\ AbsWaiting' = Tagged(Tail(taskQueue), late)
        BY <1>1, AbsWaitingTagged, AbsWaitingTaggedNext
    <2> QED
        BY <1>1, <1>2, <2>1, <2>2, TaggedTail
<1> QED
    BY <1>3, <1>4, <1>5 DEF Pool!Start

LEMMA FinishStep ==
    ASSUME IInv, TaskInv, NEW t \in Threads, TaskReturns(t)
    PROVE  \E k \in Tasks : Pool!Finish(k)
<1>1. /\ UNCHANGED <<opc, taskQueue, late, terminate>> /\ pc[t] = "run"
      /\ cur' = [cur EXCEPT ![t] = NoTask]
    BY DEF TaskReturns, poolVars
<1>2. UNCHANGED <<AbsWaiting, AbsPhase>>
    BY <1>1 DEF AbsWaiting, AbsPhase
<1>3. /\ cur[t] \in Tasks /\ AbsRunning[cur[t]] > 0
      /\ AbsRunning' = [AbsRunning EXCEPT ![cur[t]] = @ - 1]
    BY <1>1, OneLessRuns
<1> QED
    BY <1>2, <1>3 DEF Pool!Finish

LEMMA HandOverStep ==
    ASSUME IInv, IInv', TaskInv, HandOver
    PROVE  \E k \in Tasks : Pool!HandOver(k)
<1>1. /\ UNCHANGED <<cur, late, terminate>> /\ opc = "pending" /\ opc' = "handing"
      /\ taskQueue # <<>> /\ taskQueue' = Tail(taskQueue)
    BY DEF HandOver, threadVars
<1>2. PICK k \in Tasks : k = Head(taskQueue)
    <2>1. taskQueue \in Seq(Tasks)
        BY DEF IInv, TypeOK
    <2>2. Head(taskQueue) \in Tasks
        BY <1>1, <2>1, TakeFirst
    <2> QED
        BY <2>2
<1>3. AbsPhase = "handing" /\ AbsPhase' = AbsPhase /\ AbsRunning' = AbsRunning
    BY <1>1 DEF AbsPhase, AbsRunning
<1>4. AbsWaiting # <<>> /\ Head(AbsWaiting).task = k /\ AbsWaiting' = Tail(AbsWaiting)
    <2>1. taskQueue \in Seq(Tasks)
        BY DEF IInv, TypeOK
    <2>2. AbsWaiting = Tagged(taskQueue, late) /\ AbsWaiting' = Tagged(Tail(taskQueue), late)
        BY <1>1, AbsWaitingTagged, AbsWaitingTaggedNext
    <2> QED
        BY <1>1, <1>2, <2>1, <2>2, TaggedTail
<1> QED
    BY <1>3, <1>4 DEF Pool!HandOver

(* The owner moves to another phase: the tasks stay where they are.        *)
LEMMA PhaseStep ==
    ASSUME IInv, TaskInv, Terminate \/ JoinLast \/ CreateFails \/ Free
    PROVE  Pool!Close \/ Pool!BeginHandOver \/ Pool!Closed \/ Pool!NotCreated
<1>1. UNCHANGED <<taskQueue, late, cur>>
    BY DEF Terminate, JoinLast, CreateFails, Free, poolVars, threadVars, taskVars
<1>2. UNCHANGED <<AbsWaiting, AbsRunning>>
    BY <1>1 DEF AbsWaiting, AbsRunning
<1>3. CASE Terminate
    <2>1. /\ opc = "term" /\ terminate' = TRUE /\ opc' \in {"termWait", "join"}
        BY <1>3 DEF Terminate
    <2>2. AbsPhase = "open" /\ AbsPhase' = "closing"
        BY <2>1, Phase DEF AbsPhase
    <2> QED
        BY <1>2, <2>2 DEF Pool!Close
<1>4. CASE JoinLast
    <2>1. /\ opc = "join" /\ opc' = IF built THEN "pending" ELSE "gone"
        BY <1>4 DEF JoinLast
    <2>2. AbsPhase = "closing" /\ AbsPhase' = IF built THEN "handing" ELSE "closed"
        BY <2>1, Phase DEF AbsPhase
    <2>3. \A t \in Threads : pc[t] # "run"
        BY <2>1 DEF IInv, Phases, Working
    <2>4. Pool!Idle
        BY <2>3, NobodyRuns DEF Pool!Idle
    <2>5. ~built => AbsWaiting = <<>>
        BY DEF TaskInv, UnbuiltUnused, AbsWaiting
    <2> QED
        BY <1>2, <2>2, <2>4, <2>5 DEF Pool!BeginHandOver, Pool!NotCreated
<1>5. CASE CreateFails
    <2>1. opc = "create" /\ nthreads = 0 /\ opc' = "gone"
        BY <1>5 DEF CreateFails
    <2>2. AbsPhase = "open" /\ AbsPhase' = "closed"
        BY <2>1, Phase DEF AbsPhase
    <2>3. Working = {}
        BY <2>1, ThreadSetsFinite, FS_EmptySet DEF IInv, ThreadsCounted
    <2>4. Pool!Idle
        BY <2>3, NobodyRuns DEF Pool!Idle, Working
    <2>5. AbsWaiting = <<>>
        BY <2>1 DEF TaskInv, UnbuiltUnused, AbsWaiting
    <2> QED
        BY <1>2, <2>2, <2>4, <2>5 DEF Pool!NotCreated
<1>6. CASE Free
    <2>1. opc' = "gone" /\ ((opc = "pending" /\ taskQueue = <<>>) \/ opc = "free")
        BY <1>6 DEF Free
    <2>2. AbsPhase = "handing" /\ AbsPhase' = "closed"
        BY <2>1, Phase DEF AbsPhase
    <2>3. \A i \in 1..Len(taskQueue) : taskQueue[i] \in late
        BY <2>1 DEF TaskInv, PassedByLate
    <2>4. AbsWaiting = Tagged(taskQueue, late) /\ taskQueue \in Seq(Tasks)
        BY AbsWaitingTagged DEF IInv, TypeOK
    <2>5. DOMAIN AbsWaiting = 1..Len(taskQueue)
        BY <2>4, Zenon DEF Tagged
    <2>6. \A i \in DOMAIN AbsWaiting : AbsWaiting[i].late
        <3> SUFFICES ASSUME NEW i \in 1..Len(taskQueue) PROVE AbsWaiting[i].late
            BY <2>5
        <3>1. AbsWaiting[i] = [task |-> taskQueue[i], late |-> taskQueue[i] \in late]
            BY <2>4, Zenon DEF Tagged
        <3>2. (taskQueue[i] \in late) = TRUE
            BY <2>3, SMT
        <3>3. AbsWaiting[i] = [task |-> taskQueue[i], late |-> TRUE]
            BY <3>1, <3>2, Zenon
        <3> QED
            BY <3>3, SMT
    <2> QED
        BY <1>2, <2>2, <2>6 DEF Pool!Closed
<1> QED
    BY <1>3, <1>4, <1>5, <1>6

(* The steps that the callers of the pool do not see.                      *)
LEMMA HiddenStep ==
    ASSUME IInv, TaskInv,
           \/ CountThread \/ CreateReturns \/ TerminateRetest \/ PendingReturns
           \/ CreateThreadFails \/ Destroy
           \/ \E t \in Threads : \/ CreateThread(t) \/ WaitForTask(t)
                                 \/ SpuriousWakeup(t) \/ Leave(t) \/ JoinPrevious(t)
           \/ \E c \in Callers : Signal(c) \/ \E t \in Threads : Increase(c, t)
           \/ UNCHANGED vars
    PROVE  UNCHANGED <<AbsWaiting, AbsRunning, AbsPhase>>
<1> USE DEF poolVars, threadVars, taskVars, vars
<1>1. UNCHANGED <<taskQueue, late, cur, terminate>>
    BY DEF CountThread, CreateReturns, TerminateRetest, PendingReturns,
        CreateThreadFails, Destroy, CreateThread, WaitForTask, SpuriousWakeup, Leave,
        JoinPrevious, Signal, Increase
<1>2. UNCHANGED <<AbsWaiting, AbsRunning>>
    BY <1>1 DEF AbsWaiting, AbsRunning
<1>3. \/ opc' = opc
      \/ opc \in {"pending", "handing"} /\ opc' \in {"pending", "free"}
      \/ /\ opc \notin {"pending", "handing", "free", "gone"}
         /\ opc' \notin {"pending", "handing", "free", "gone"}
    BY DEF IInv, TypeOK, CountThread, CreateReturns, TerminateRetest, PendingReturns,
        CreateThreadFails, Destroy, CreateThread, WaitForTask, SpuriousWakeup, Leave,
        JoinPrevious, Signal, Increase
<1>4. AbsPhase' = AbsPhase
    BY <1>1, <1>3 DEF AbsPhase
<1> QED
    BY <1>2, <1>4

(***************************************************************************)
(* For any number of threads, clients and tasks, thrdpool.c behaves as the *)
(* task pool its callers rely on: tasks start in the order in which they   *)
(* were scheduled, none starts once thrdpool_destroy has set terminate,    *)
(* destroy hands over the ones left in order and after the last running    *)
(* one returned, and leaves over none but those that pending() queued.     *)
(***************************************************************************)
THEOREM PoolRefinement == Spec => ImplementsTaskPool
<1>1. Init => TaskInv
    BY DEF Init, TaskInv, TaskHeld, UnbuiltUnused, QueuedScheduled, PassedByLate
<1>2. Spec => []TaskInv
    BY <1>1, Invariance, TaskInvStep, PTL DEF Spec
<1>3. Init => Pool!Init
    <2> SUFFICES ASSUME Init PROVE Pool!Init
        OBVIOUS
    <2>1. IInv /\ TaskInv /\ \A t \in Threads : pc[t] # "run"
        BY <1>1, InitIInv DEF Init
    <2>2. AbsRunning = [k \in Tasks |-> 0]
        BY <2>1, NobodyRuns DEF AbsRunning
    <2>3. AbsWaiting = <<>> /\ AbsPhase = "open"
        BY DEF Init, AbsWaiting, AbsPhase
    <2> QED
        BY <2>2, <2>3 DEF Pool!Init
<1>4. IInv /\ IInv' /\ TaskInv /\ [Next]_vars => [Pool!Next]_(Pool!tpVars)
    <2> SUFFICES ASSUME IInv, IInv', TaskInv, [Next]_vars
                 PROVE  Pool!Next \/ UNCHANGED <<AbsWaiting, AbsRunning, AbsPhase>>
        BY DEF Pool!tpVars
    <2> QED
        BY SubmitStep, StartStep, FinishStep, HandOverStep, PhaseStep, HiddenStep
        DEF Next, OwnerStep, ThreadStep, Gone, Pool!Next
<1> QED
    BY <1>2, <1>3, <1>4, Invariance, PTL DEF Spec, ImplementsTaskPool, Pool!Spec

-----------------------------------------------------------------------------
(***************************************************************************)
(* The executor.                                                           *)
(***************************************************************************)

(* The three owners of a queue that has entries.                           *)
InPool(q) == \E i \in DOMAIN waiting : waiting[i].task = q
Popping(w, q) == wpc[w] = "pop" /\ wqueue[w] = q
Walked(q) == dqueue = q /\ (dpc = "entries" \/ (dpc = "callback" /\ ~entryLast))

OwnedIffWork ==
    \A q \in Queues :
        taskList[q] # <<>> <=> InPool(q) \/ Walked(q) \/ \E w \in Workers : Popping(w, q)

InPoolOnce == \A i, j \in DOMAIN waiting : waiting[i].task = waiting[j].task => i = j

(* No queue has two owners.                                                *)
OneOwner ==
    /\ InPoolOnce
    /\ \A q \in Queues : \A v, w \in Workers : Popping(v, q) /\ Popping(w, q) => v = w
    /\ \A q \in Queues : \A w \in Workers : Popping(w, q) => ~InPool(q) /\ ~Walked(q)
    /\ \A q \in Queues : Walked(q) => ~InPool(q)

(* The locals of a routine and of the canceller are set where they are     *)
(* used.                                                                   *)
LocalsSet ==
    /\ \A w \in Workers : wpc[w] # "idle" => wqueue[w] \in Queues
    /\ \A w \in Workers : wpc[w] \in {"execute", "callback"} => wsession[w] \in Sessions
    /\ dpc \in {"entries", "callback"} => dqueue \in Queues

Listed(s) == \E q \in Queues : \E i \in DOMAIN taskList[q] : taskList[q][i] = s
Executing(w, s) == wpc[w] = "execute" /\ wsession[w] = s

(* A session is told something when it leaves the executor, and is in one  *)
(* place until then.                                                       *)
Pending ==
    \A s \in Sessions :
        /\ handled[s] = IF outcome[s] \in {"none", "queued"} THEN 0 ELSE 1
        /\ Listed(s) => outcome[s] = "queued"
        /\ \A w \in Workers : Executing(w, s) => outcome[s] = "queued" /\ ~Listed(s)
        /\ \A v, w \in Workers : Executing(v, s) /\ Executing(w, s) => v = w

ListedOnce ==
    \A q, r \in Queues : \A i \in DOMAIN taskList[q], j \in DOMAIN taskList[r] :
        taskList[q][i] = taskList[r][j] => q = r /\ i = j

ExecInv == ExecTypeOK /\ OwnedIffWork /\ OneOwner /\ LocalsSet /\ Pending /\ ListedOnce

-----------------------------------------------------------------------------
(* What lists do: a queue's task_list and the list of the pool's tasks.    *)

LEMMA TailFacts ==
    ASSUME NEW S, NEW l \in Seq(S), l # <<>>
    PROVE  /\ Len(l) \in Nat /\ DOMAIN l = 1 .. Len(l) /\ 1 \in DOMAIN l
           /\ Head(l) = l[1] /\ Head(l) \in S
           /\ Tail(l) \in Seq(S) /\ DOMAIN Tail(l) = 1 .. Len(l) - 1
           /\ \A i \in DOMAIN Tail(l) : Tail(l)[i] = l[i + 1] /\ i + 1 \in DOMAIN l
           /\ \A i \in DOMAIN l \ {1} : i - 1 \in DOMAIN Tail(l) /\ Tail(l)[i - 1] = l[i]
           /\ Tail(l) # <<>> <=> Len(l) > 1
<1>1. /\ Len(l) \in Nat /\ DOMAIN l = 1 .. Len(l) /\ Len(l) >= 1
    BY EmptySeq, LenProperties
<1>2. /\ Tail(l) \in Seq(S) /\ Len(Tail(l)) = Len(l) - 1
      /\ \A i \in 1 .. Len(Tail(l)) : Tail(l)[i] = l[i + 1]
    BY <1>1, HeadTailProperties
<1>3. DOMAIN Tail(l) = 1 .. Len(l) - 1
    BY <1>2, LenProperties
<1>4. Head(l) = l[1] /\ Head(l) \in S
    BY HeadTailProperties
<1>5. Tail(l) # <<>> <=> Len(l) > 1
    <2>1. Tail(l) = <<>> <=> Len(Tail(l)) = 0
        BY <1>2, EmptySeq
    <2> QED
        BY <1>1, <1>2, <2>1
<1> QED
    BY <1>1, <1>2, <1>3, <1>4, <1>5

LEMMA AppendFacts ==
    ASSUME NEW S, NEW l \in Seq(S), NEW x \in S
    PROVE  /\ Len(l) \in Nat /\ DOMAIN l = 1 .. Len(l)
           /\ Append(l, x) \in Seq(S) /\ Append(l, x) # <<>>
           /\ DOMAIN Append(l, x) = 1 .. Len(l) + 1
           /\ \A i \in DOMAIN l : Append(l, x)[i] = l[i]
           /\ Append(l, x)[Len(l) + 1] = x
BY AppendProperties, LenProperties

PoolEntry == [task : Queues, late : BOOLEAN]

LEMMA Submitted ==
    ASSUME ExecTypeOK, NEW q \in Queues, ExecPool!Submit(q)
    PROVE  /\ waiting' \in Seq(PoolEntry) /\ UNCHANGED <<running, phase>>
           /\ \A r \in Queues : InPool(r)' <=> InPool(r) \/ r = q
           /\ InPoolOnce /\ ~InPool(q) => InPoolOnce'
<1> DEFINE e == [task |-> q, late |-> phase = "handing"]
<1>1. e \in PoolEntry /\ e.task = q /\ waiting \in Seq(PoolEntry)
    BY DEF ExecTypeOK, PoolEntry
<1>2. waiting' = Append(waiting, e) /\ UNCHANGED <<running, phase>>
    BY DEF ExecPool!Submit, ExecPool!Entry
<1> HIDE DEF e
<1>3. /\ waiting' \in Seq(PoolEntry) /\ Len(waiting) \in Nat
      /\ DOMAIN waiting = 1 .. Len(waiting)
      /\ DOMAIN waiting' = 1 .. Len(waiting) + 1
      /\ \A i \in DOMAIN waiting : waiting'[i] = waiting[i]
      /\ waiting'[Len(waiting) + 1] = e
    BY <1>1, <1>2, AppendFacts
<1>4. \A r \in Queues : InPool(r)' <=> InPool(r) \/ r = q
    BY <1>1, <1>3 DEF InPool
<1>5. InPoolOnce /\ ~InPool(q) => InPoolOnce'
    BY <1>1, <1>3 DEF InPool, InPoolOnce
<1> QED
    BY <1>2, <1>3, <1>4, <1>5

LEMMA TakenFromPool ==
    ASSUME ExecTypeOK, InPoolOnce, NEW q \in Queues, waiting # <<>>,
           Head(waiting).task = q, waiting' = Tail(waiting)
    PROVE  /\ waiting' \in Seq(PoolEntry) /\ InPoolOnce'
           /\ InPool(q) /\ ~InPool(q)'
           /\ \A r \in Queues \ {q} : InPool(r)' <=> InPool(r)
<1>1. waiting \in Seq(PoolEntry)
    BY DEF ExecTypeOK, PoolEntry
<1>2. /\ waiting' \in Seq(PoolEntry) /\ Len(waiting) \in Nat
      /\ DOMAIN waiting = 1 .. Len(waiting) /\ 1 \in DOMAIN waiting
      /\ Head(waiting) = waiting[1]
      /\ DOMAIN waiting' = 1 .. Len(waiting) - 1
      /\ \A i \in DOMAIN waiting' : waiting'[i] = waiting[i + 1] /\ i + 1 \in DOMAIN waiting
      /\ \A i \in DOMAIN waiting \ {1} :
             i - 1 \in DOMAIN waiting' /\ waiting'[i - 1] = waiting[i]
    BY <1>1, TailFacts
<1>3. InPoolOnce'
    <2> SUFFICES ASSUME NEW i \in DOMAIN waiting', NEW j \in DOMAIN waiting',
                        waiting'[i].task = waiting'[j].task
                 PROVE  i = j
        BY DEF InPoolOnce
    <2>1. i + 1 = j + 1
        BY <1>2 DEF InPoolOnce
    <2> QED
        BY <2>1, <1>2
<1>4. InPool(q) /\ ~InPool(q)'
    <2>1. InPool(q)
        BY <1>2 DEF InPool
    <2>2. ASSUME NEW i \in DOMAIN waiting', waiting'[i].task = q PROVE FALSE
        <3>1. waiting[i + 1].task = waiting[1].task /\ i + 1 \in DOMAIN waiting
            BY <1>2, <2>2
        <3>2. i + 1 = 1
            BY <1>2, <3>1 DEF InPoolOnce
        <3> QED
            BY <1>2, <3>2
    <2> QED
        BY <2>1, <2>2 DEF InPool
<1>5. ASSUME NEW r \in Queues \ {q} PROVE InPool(r)' <=> InPool(r)
    <2>1. InPool(r)' => InPool(r)
        BY <1>2 DEF InPool
    <2>2. ASSUME NEW i \in DOMAIN waiting, waiting[i].task = r PROVE InPool(r)'
        <3>1. i \in DOMAIN waiting \ {1}
            BY <1>2, <2>2
        <3> QED
            BY <1>2, <2>2, <3>1 DEF InPool
    <2> QED
        BY <2>1, <2>2 DEF InPool
<1> QED
    BY <1>2, <1>3, <1>4, <1>5

LEMMA EntryAdded ==
    ASSUME ExecTypeOK, NEW q \in Queues, NEW s \in Sessions,
           taskList' = [taskList EXCEPT ![q] = Append(@, s)]
    PROVE  /\ taskList' \in [Queues -> Seq(Sessions)] /\ taskList'[q] # <<>>
           /\ \A r \in Queues \ {q} : taskList'[r] = taskList[r]
           /\ \A x \in Sessions : Listed(x)' <=> Listed(x) \/ x = s
           /\ ListedOnce /\ ~Listed(s) => ListedOnce'
<1>1. /\ taskList[q] \in Seq(Sessions) /\ taskList'[q] = Append(taskList[q], s)
      /\ \A r \in Queues \ {q} : taskList'[r] = taskList[r]
    BY DEF ExecTypeOK
<1>2. /\ taskList'[q] \in Seq(Sessions) /\ taskList'[q] # <<>>
      /\ Len(taskList[q]) \in Nat /\ DOMAIN taskList[q] = 1 .. Len(taskList[q])
      /\ DOMAIN taskList'[q] = 1 .. Len(taskList[q]) + 1
      /\ \A i \in DOMAIN taskList[q] : taskList'[q][i] = taskList[q][i]
      /\ taskList'[q][Len(taskList[q]) + 1] = s
    BY <1>1, AppendFacts
<1>3. taskList' \in [Queues -> Seq(Sessions)]
    BY <1>1, <1>2 DEF ExecTypeOK
<1>4. \A x \in Sessions : Listed(x)' <=> Listed(x) \/ x = s
    BY <1>1, <1>2 DEF Listed
<1>5. ListedOnce /\ ~Listed(s) => ListedOnce'
    BY <1>1, <1>2 DEF Listed, ListedOnce
<1> QED
    BY <1>1, <1>2, <1>3, <1>4, <1>5

LEMMA EntryTaken ==
    ASSUME ExecTypeOK, ListedOnce, NEW q \in Queues, taskList[q] # <<>>,
           taskList' = [taskList EXCEPT ![q] = Tail(@)]
    PROVE  /\ taskList' \in [Queues -> Seq(Sessions)] /\ ListedOnce'
           /\ Len(taskList[q]) \in Nat /\ (taskList'[q] # <<>> <=> Len(taskList[q]) > 1)
           /\ \A r \in Queues \ {q} : taskList'[r] = taskList[r]
           /\ Head(taskList[q]) \in Sessions /\ Listed(Head(taskList[q]))
           /\ \A x \in Sessions : Listed(x)' <=> Listed(x) /\ x # Head(taskList[q])
<1>1. /\ taskList[q] \in Seq(Sessions) /\ taskList'[q] = Tail(taskList[q])
      /\ \A r \in Queues \ {q} : taskList'[r] = taskList[r]
    BY DEF ExecTypeOK
<1> DEFINE l == taskList[q]
<1>2. /\ Len(l) \in Nat /\ DOMAIN l = 1 .. Len(l) /\ 1 \in DOMAIN l
      /\ Head(l) = l[1] /\ Head(l) \in Sessions
      /\ taskList'[q] \in Seq(Sessions) /\ DOMAIN taskList'[q] = 1 .. Len(l) - 1
      /\ \A i \in DOMAIN taskList'[q] : taskList'[q][i] = l[i + 1] /\ i + 1 \in DOMAIN l
      /\ \A i \in DOMAIN l \ {1} : i - 1 \in DOMAIN taskList'[q] /\ taskList'[q][i - 1] = l[i]
      /\ taskList'[q] # <<>> <=> Len(l) > 1
    <2>1. l \in Seq(Sessions) /\ l # <<>> /\ taskList'[q] = Tail(l)
        BY <1>1
    <2> HIDE DEF l
    <2>2. /\ Len(l) \in Nat /\ DOMAIN l = 1 .. Len(l) /\ 1 \in DOMAIN l
          /\ Head(l) = l[1] /\ Head(l) \in Sessions
          /\ Tail(l) \in Seq(Sessions) /\ DOMAIN Tail(l) = 1 .. Len(l) - 1
          /\ \A i \in DOMAIN Tail(l) : Tail(l)[i] = l[i + 1] /\ i + 1 \in DOMAIN l
          /\ \A i \in DOMAIN l \ {1} : i - 1 \in DOMAIN Tail(l) /\ Tail(l)[i - 1] = l[i]
          /\ Tail(l) # <<>> <=> Len(l) > 1
        BY <2>1, TailFacts
    <2> QED
        BY <2>1, <2>2, Zenon
<1>3. taskList' \in [Queues -> Seq(Sessions)]
    BY <1>1, <1>2 DEF ExecTypeOK
<1>4. ListedOnce'
    <2> SUFFICES ASSUME NEW r \in Queues, NEW p \in Queues,
                        NEW i \in DOMAIN taskList'[r], NEW j \in DOMAIN taskList'[p],
                        taskList'[r][i] = taskList'[p][j]
                 PROVE  r = p /\ i = j
        BY DEF ListedOnce
    <2>1. CASE r = q /\ p = q
        <3>1. i + 1 = j + 1
            BY <1>2, <2>1 DEF ListedOnce
        <3> QED
            BY <1>2, <2>1, <3>1
    <2>2. CASE r = q /\ p # q
        BY <1>1, <1>2, <2>2 DEF ListedOnce
    <2>3. CASE r # q /\ p = q
        BY <1>1, <1>2, <2>3 DEF ListedOnce
    <2>4. CASE r # q /\ p # q
        BY <1>1, <2>4 DEF ListedOnce
    <2> QED
        BY <2>1, <2>2, <2>3, <2>4
<1>5. Listed(Head(l))
    BY <1>2 DEF Listed
<1>6. ASSUME NEW x \in Sessions PROVE Listed(x)' <=> Listed(x) /\ x # Head(l)
    <2>1. ASSUME Listed(x), x # Head(l) PROVE Listed(x)'
        <3>1. PICK r \in Queues : \E i \in DOMAIN taskList[r] : taskList[r][i] = x
            BY <2>1 DEF Listed
        <3>2. CASE r = q
            <4>1. PICK i \in DOMAIN l : l[i] = x
                BY <3>1, <3>2
            <4>2. i - 1 \in DOMAIN taskList'[q] /\ taskList'[q][i - 1] = x
                BY <1>2, <2>1, <4>1
            <4> QED
                BY <4>2 DEF Listed
        <3>3. CASE r # q
            BY <1>1, <3>1, <3>3 DEF Listed
        <3> QED
            BY <3>2, <3>3
    <2>2. ASSUME Listed(x)' PROVE Listed(x) /\ x # Head(l)
        <3>1. PICK r \in Queues : \E i \in DOMAIN taskList'[r] : taskList'[r][i] = x
            BY <2>2 DEF Listed
        <3>2. CASE r = q
            BY <1>2, <3>1, <3>2 DEF Listed, ListedOnce
        <3>3. CASE r # q
            BY <1>1, <1>2, <3>1, <3>3 DEF Listed, ListedOnce
        <3> QED
            BY <3>2, <3>3
    <2> QED
        BY <2>1, <2>2
<1> QED
    BY <1>1, <1>2, <1>3, <1>4, <1>5, <1>6

-----------------------------------------------------------------------------
(* The invariant holds before the first request.                           *)
LEMMA InitExecInv == ExecInit => ExecInv
<1> SUFFICES ASSUME ExecInit PROVE ExecInv
    OBVIOUS
<1>1. ExecTypeOK
    BY EmptySeq DEF ExecInit, ExecPool!Init, ExecTypeOK
<1>2. \A q \in Queues : ~InPool(q) /\ ~Walked(q) /\ \A w \in Workers : ~Popping(w, q)
    BY DEF ExecInit, ExecPool!Init, InPool, Walked, Popping
<1>3. InPoolOnce /\ \A q \in Queues : taskList[q] = <<>>
    BY DEF ExecInit, ExecPool!Init, InPoolOnce
<1>4. \A s \in Sessions : ~Listed(s) /\ \A w \in Workers : ~Executing(w, s)
    BY <1>3 DEF ExecInit, Listed, Executing
<1> QED
    BY <1>1, <1>2, <1>3, <1>4
    DEF ExecInit, ExecInv, OwnedIffWork, OneOwner, LocalsSet, Pending, ListedOnce

(* A step that touches neither the owners of the queues nor whether they   *)
(* have entries.                                                           *)
LEMMA OwnersKept ==
    ASSUME ExecInv, InPoolOnce',
           \A q \in Queues :
               /\ taskList'[q] # <<>> <=> taskList[q] # <<>>
               /\ InPool(q)' <=> InPool(q)
               /\ Walked(q)' <=> Walked(q)
               /\ \A w \in Workers : Popping(w, q)' <=> Popping(w, q)
    PROVE  OwnedIffWork' /\ OneOwner'
BY DEF ExecInv, OwnedIffWork, OneOwner

(* A step that touches neither a session nor where it is.                  *)
LEMMA SessionsKept ==
    ASSUME ExecInv, UNCHANGED <<taskList, outcome, handled>>,
           \A s \in Sessions : \A w \in Workers : Executing(w, s)' <=> Executing(w, s)
    PROVE  Pending' /\ ListedOnce'
<1>1. \A s \in Sessions : Listed(s)' <=> Listed(s)
    BY DEF Listed
<1> QED
    BY <1>1 DEF ExecInv, Pending, ListedOnce

-----------------------------------------------------------------------------
(* Requests.                                                               *)

LEMMA RequestFailsIInv ==
    ASSUME ExecInv, NEW c \in Requesters, NEW s \in Sessions, RequestFails(c, s)
    PROVE  ExecInv'
<1>1. /\ UNCHANGED <<waiting, running, phase, taskList, wpc, wqueue, wsession, dpc, dqueue,
                      queueLast, entryLast, requestedLate>>
      /\ outcome[s] = "none"
      /\ outcome' = [outcome EXCEPT ![s] = "ERROR"]
      /\ handled' = [handled EXCEPT ![s] = @ + 1]
    BY DEF RequestFails, execPoolVars, workerVars, deinitVars
<1>2. handled[s] = 0 /\ ~Listed(s) /\ \A w \in Workers : ~Executing(w, s)
    BY <1>1 DEF ExecInv, Pending
<1>3. ExecTypeOK'
    BY <1>1 DEF ExecInv, ExecTypeOK
<1>4. OwnedIffWork' /\ OneOwner'
    BY <1>1, OwnersKept DEF ExecInv, OneOwner, InPoolOnce, InPool, Walked, Popping
<1>5. LocalsSet' /\ ListedOnce'
    BY <1>1 DEF ExecInv, LocalsSet, ListedOnce
<1>6. \A x \in Sessions : /\ Listed(x)' <=> Listed(x)
                          /\ \A w \in Workers : Executing(w, x)' <=> Executing(w, x)
    BY <1>1 DEF Listed, Executing
<1>7. Pending'
    BY <1>1, <1>2, <1>6 DEF ExecInv, ExecTypeOK, Pending
<1> QED
    BY <1>3, <1>4, <1>5, <1>7 DEF ExecInv

LEMMA RequestIInv ==
    ASSUME ExecInv, NEW c \in Requesters, NEW s \in Sessions, NEW q \in Queues, Request(c, s, q)
    PROVE  ExecInv'
<1>1. /\ UNCHANGED <<wpc, wqueue, wsession, dpc, dqueue, queueLast, entryLast, handled>>
      /\ outcome[s] = "none"
      /\ outcome' = [outcome EXCEPT ![s] = "queued"]
      /\ taskList' = [taskList EXCEPT ![q] = Append(@, s)]
      /\ requestedLate' \subseteq requestedLate \cup {s}
      /\ IF taskList[q] = <<>> THEN ExecPool!Submit(q) ELSE UNCHANGED <<waiting, running, phase>>
    BY DEF Request, execPoolVars, workerVars, deinitVars
<1>2. handled[s] = 0 /\ ~Listed(s) /\ \A w \in Workers : ~Executing(w, s)
    BY <1>1 DEF ExecInv, Pending
<1>3. /\ taskList' \in [Queues -> Seq(Sessions)] /\ taskList'[q] # <<>>
      /\ \A r \in Queues \ {q} : taskList'[r] = taskList[r]
      /\ \A x \in Sessions : Listed(x)' <=> Listed(x) \/ x = s
      /\ ListedOnce'
    BY <1>1, <1>2, EntryAdded DEF ExecInv
<1>4. \A r \in Queues : /\ Walked(r)' <=> Walked(r)
                        /\ \A w \in Workers : Popping(w, r)' <=> Popping(w, r)
    BY <1>1 DEF Walked, Popping
<1>5. waiting' \in Seq(PoolEntry) /\ UNCHANGED <<running, phase>>
    BY <1>1, Submitted DEF ExecInv, ExecTypeOK, PoolEntry
<1>6. ExecTypeOK'
    BY <1>1, <1>3, <1>5 DEF ExecInv, ExecTypeOK, PoolEntry
<1>7. OwnedIffWork' /\ OneOwner'
    <2>1. CASE taskList[q] = <<>>
        <3>1. ~InPool(q) /\ ~Walked(q) /\ \A w \in Workers : ~Popping(w, q)
            BY <2>1 DEF ExecInv, OwnedIffWork
        <3>2. InPoolOnce' /\ \A r \in Queues : InPool(r)' <=> InPool(r) \/ r = q
            BY <1>1, <2>1, <3>1, Submitted DEF ExecInv, OneOwner
        <3> QED
            BY <1>3, <1>4, <3>1, <3>2 DEF ExecInv, OwnedIffWork, OneOwner
    <2>2. CASE taskList[q] # <<>>
        <3>1. UNCHANGED waiting
            BY <1>1, <2>2
        <3>2. InPoolOnce' /\ \A r \in Queues : InPool(r)' <=> InPool(r)
            BY <3>1 DEF ExecInv, OneOwner, InPoolOnce, InPool
        <3>3. \A r \in Queues : taskList'[r] # <<>> <=> taskList[r] # <<>>
            BY <1>3, <2>2
        <3> QED
            BY <1>4, <3>2, <3>3, OwnersKept
    <2> QED
        BY <2>1, <2>2
<1>8. LocalsSet'
    BY <1>1 DEF ExecInv, LocalsSet
<1>9. Pending'
    <2>1. \A x \in Sessions : \A w \in Workers : Executing(w, x)' <=> Executing(w, x)
        BY <1>1 DEF Executing
    <2> QED
        BY <1>1, <1>2, <1>3, <2>1 DEF ExecInv, ExecTypeOK, Pending
<1> QED
    BY <1>3, <1>6, <1>7, <1>8, <1>9 DEF ExecInv

-----------------------------------------------------------------------------
(* The routine.                                                            *)

LEMMA StartRoutineIInv ==
    ASSUME ExecInv, NEW w \in Workers, StartRoutine(w)
    PROVE  ExecInv'
<1>1. PICK q \in Queues : ExecPool!Start(q) /\ wqueue' = [wqueue EXCEPT ![w] = q]
    BY DEF StartRoutine
<1>2. /\ wpc[w] = "idle" /\ wpc' = [wpc EXCEPT ![w] = "pop"]
      /\ UNCHANGED <<phase, taskList, wsession, dpc, dqueue, queueLast, entryLast, outcome,
                      handled, requestedLate>>
    BY <1>1 DEF StartRoutine, ExecPool!Start, deinitVars, sessionVars
<1>3. /\ waiting' \in Seq(PoolEntry) /\ InPoolOnce'
      /\ InPool(q) /\ ~InPool(q)'
      /\ \A r \in Queues \ {q} : InPool(r)' <=> InPool(r)
    BY <1>1, TakenFromPool DEF ExecInv, OneOwner, ExecPool!Start
<1>4. running' \in [Queues -> Nat]
    BY <1>1 DEF ExecInv, ExecTypeOK, ExecPool!Start
<1>5. ExecTypeOK'
    BY <1>1, <1>2, <1>3, <1>4 DEF ExecInv, ExecTypeOK, PoolEntry
<1>6. \A r \in Queues : /\ Walked(r)' <=> Walked(r)
                        /\ \A v \in Workers : Popping(v, r)' <=> Popping(v, r) \/ (v = w /\ r = q)
    BY <1>1, <1>2 DEF ExecInv, ExecTypeOK, Walked, Popping
<1>7. OwnedIffWork' /\ OneOwner'
    BY <1>2, <1>3, <1>6 DEF ExecInv, OwnedIffWork, OneOwner
<1>8. LocalsSet'
    BY <1>1, <1>2 DEF ExecInv, ExecTypeOK, LocalsSet
<1>9. Pending' /\ ListedOnce'
    <2>1. \A s \in Sessions : \A v \in Workers : Executing(v, s)' <=> Executing(v, s)
        BY <1>2 DEF ExecInv, ExecTypeOK, Executing
    <2> QED
        BY <1>2, <2>1, SessionsKept
<1> QED
    BY <1>5, <1>7, <1>8, <1>9 DEF ExecInv

LEMMA PopEntryIInv ==
    ASSUME ExecInv, NEW w \in Workers, PopEntry(w)
    PROVE  ExecInv'
<1>1. wpc[w] = "pop" /\ wqueue[w] \in Queues
    BY DEF ExecInv, LocalsSet, PopEntry
<1>2. PICK q \in Queues : q = wqueue[w]
    BY <1>1
<1>3. Popping(w, q) /\ taskList[q] # <<>>
    BY <1>1, <1>2 DEF ExecInv, OwnedIffWork, Popping
<1>4. ~InPool(q) /\ ~Walked(q) /\ \A v \in Workers : Popping(v, q) => v = w
    BY <1>3 DEF ExecInv, OneOwner
<1>5. PICK s : s = Head(taskList[q])
    OBVIOUS
<1>6. /\ wsession' = [wsession EXCEPT ![w] = s]
      /\ taskList' = [taskList EXCEPT ![q] = Tail(@)]
      /\ IF Len(taskList[q]) > 1 THEN ExecPool!Submit(q) ELSE UNCHANGED <<waiting, running, phase>>
      /\ wpc' = [wpc EXCEPT ![w] = "execute"]
      /\ UNCHANGED <<wqueue, dpc, dqueue, queueLast, entryLast, outcome, handled, requestedLate>>
    BY <1>2, <1>5 DEF PopEntry, execPoolVars, deinitVars, sessionVars
<1>7. /\ taskList' \in [Queues -> Seq(Sessions)] /\ ListedOnce'
      /\ (taskList'[q] # <<>> <=> Len(taskList[q]) > 1)
      /\ \A r \in Queues \ {q} : taskList'[r] = taskList[r]
      /\ s \in Sessions /\ Listed(s)
      /\ \A x \in Sessions : Listed(x)' <=> Listed(x) /\ x # s
    BY <1>3, <1>5, <1>6, EntryTaken DEF ExecInv
<1>8. waiting' \in Seq(PoolEntry) /\ UNCHANGED <<running, phase>>
    BY <1>6, Submitted DEF ExecInv, ExecTypeOK, PoolEntry
<1>9. ExecTypeOK'
    BY <1>6, <1>7, <1>8 DEF ExecInv, ExecTypeOK, PoolEntry
<1>10. \A r \in Queues : /\ Walked(r)' <=> Walked(r)
                         /\ \A v \in Workers : Popping(v, r)' <=> Popping(v, r) /\ v # w
    BY <1>6 DEF ExecInv, ExecTypeOK, Walked, Popping
<1>11. \A r \in Queues \ {q} : ~Popping(w, r)
    BY <1>2 DEF Popping
<1>12. OwnedIffWork' /\ OneOwner'
    <2>1. CASE Len(taskList[q]) > 1
        <3>1. InPoolOnce' /\ \A r \in Queues : InPool(r)' <=> InPool(r) \/ r = q
            BY <1>4, <1>6, <2>1, Submitted DEF ExecInv, OneOwner
        <3> QED
            BY <1>4, <1>7, <1>10, <1>11, <2>1, <3>1 DEF ExecInv, OwnedIffWork, OneOwner
    <2>2. CASE ~(Len(taskList[q]) > 1)
        <3>1. InPoolOnce' /\ \A r \in Queues : InPool(r)' <=> InPool(r)
            BY <1>6, <2>2 DEF ExecInv, OneOwner, InPoolOnce, InPool
        <3>2. taskList'[q] = <<>> /\ ~InPool(q)' /\ ~Walked(q)'
              /\ \A v \in Workers : ~Popping(v, q)'
            BY <1>4, <1>7, <1>10, <2>2, <3>1
        <3>3. ASSUME NEW r \in Queues \ {q}
              PROVE  /\ taskList'[r] = taskList[r]
                     /\ InPool(r)' <=> InPool(r)
                     /\ Walked(r)' <=> Walked(r)
                     /\ \A v \in Workers : Popping(v, r)' <=> Popping(v, r)
            BY <1>7, <1>10, <1>11, <3>1
        <3>4. OwnedIffWork'
            BY <3>2, <3>3 DEF ExecInv, OwnedIffWork
        <3> QED
            BY <3>1, <3>2, <3>3, <3>4 DEF ExecInv, OneOwner
    <2> QED
        BY <2>1, <2>2
<1>13. LocalsSet'
    <2>1. /\ \A v \in Workers \ {w} : wpc'[v] = wpc[v] /\ wsession'[v] = wsession[v]
          /\ wqueue' = wqueue /\ dpc' = dpc /\ dqueue' = dqueue
          /\ wsession'[w] = s
        BY <1>6 DEF ExecInv, ExecTypeOK
    <2>2. s \in Sessions
        BY <1>7
    <2> QED
        BY <1>1, <2>1, <2>2 DEF ExecInv, LocalsSet
<1>14. \A x \in Sessions : \A v \in Workers :
          Executing(v, x)' <=> Executing(v, x) \/ (v = w /\ x = s)
    BY <1>1, <1>6 DEF ExecInv, ExecTypeOK, Executing
<1>15. Pending'
    BY <1>6, <1>7, <1>14 DEF ExecInv, Pending
<1> QED
    BY <1>7, <1>9, <1>12, <1>13, <1>15 DEF ExecInv

(* execute() leaves the session in no list, and its routine with nothing   *)
(* left to execute.                                                        *)
LEMMA ExecuteIInv ==
    ASSUME ExecInv, NEW w \in Workers, Execute(w)
    PROVE  ExecInv'
<1>1. wpc[w] = "execute" /\ wsession[w] \in Sessions
    BY DEF ExecInv, LocalsSet, Execute
<1>2. PICK s \in Sessions : s = wsession[w]
    BY <1>1
<1>3. /\ outcome' = [outcome EXCEPT ![s] = "FINISHED"]
      /\ handled' = [handled EXCEPT ![s] = @ + 1]
      /\ wpc' = [wpc EXCEPT ![w] = "callback"]
      /\ UNCHANGED <<waiting, running, phase, taskList, wqueue, wsession, dpc, dqueue,
                      queueLast, entryLast, requestedLate>>
    BY <1>2 DEF Execute, execPoolVars, deinitVars
<1>4. /\ Executing(w, s) /\ outcome[s] = "queued" /\ ~Listed(s) /\ handled[s] = 0
      /\ \A v \in Workers : Executing(v, s) => v = w
    BY <1>1, <1>2 DEF ExecInv, Pending, Executing
<1>5. ExecTypeOK'
    BY <1>3 DEF ExecInv, ExecTypeOK
<1>6. \A q \in Queues : /\ InPool(q)' <=> InPool(q)
                        /\ Walked(q)' <=> Walked(q)
                        /\ \A v \in Workers : Popping(v, q)' <=> Popping(v, q)
    BY <1>1, <1>3 DEF ExecInv, ExecTypeOK, InPool, Walked, Popping
<1>7. OwnedIffWork' /\ OneOwner'
    BY <1>3, <1>6, OwnersKept DEF ExecInv, OneOwner, InPoolOnce
<1>8. LocalsSet' /\ ListedOnce'
    BY <1>1, <1>3 DEF ExecInv, ExecTypeOK, LocalsSet, ListedOnce
<1>9. \A x \in Sessions : /\ Listed(x)' <=> Listed(x)
                          /\ \A v \in Workers : Executing(v, x)' <=> Executing(v, x) /\ v # w
    BY <1>3 DEF ExecInv, ExecTypeOK, Listed, Executing
<1>10. Pending'
    BY <1>3, <1>4, <1>9 DEF ExecInv, ExecTypeOK, Pending
<1> QED
    BY <1>5, <1>7, <1>8, <1>10 DEF ExecInv

LEMMA RoutineReturnsIInv ==
    ASSUME ExecInv, NEW w \in Workers, RoutineReturns(w)
    PROVE  ExecInv'
<1>1. /\ wpc[w] = "callback" /\ wqueue[w] \in Queues
      /\ wpc' = [wpc EXCEPT ![w] = "idle"]
      /\ wqueue' = [wqueue EXCEPT ![w] = NoQueue]
      /\ wsession' = [wsession EXCEPT ![w] = NoSession]
      /\ UNCHANGED <<waiting, phase, taskList, dpc, dqueue, queueLast, entryLast, outcome,
                      handled, requestedLate>>
    BY DEF ExecInv, LocalsSet, RoutineReturns, ExecPool!Finish, deinitVars, sessionVars
<1>2. running' \in [Queues -> Nat]
    BY <1>1 DEF ExecInv, ExecTypeOK, RoutineReturns, ExecPool!Finish
<1>3. ExecTypeOK'
    BY <1>1, <1>2 DEF ExecInv, ExecTypeOK
<1>4. \A q \in Queues : /\ InPool(q)' <=> InPool(q)
                        /\ Walked(q)' <=> Walked(q)
                        /\ \A v \in Workers : Popping(v, q)' <=> Popping(v, q)
    BY <1>1 DEF ExecInv, ExecTypeOK, InPool, Walked, Popping
<1>5. OwnedIffWork' /\ OneOwner'
    BY <1>1, <1>4, OwnersKept DEF ExecInv, OneOwner, InPoolOnce
<1>6. LocalsSet'
    BY <1>1 DEF ExecInv, ExecTypeOK, LocalsSet
<1>7. Pending' /\ ListedOnce'
    <2>1. \A s \in Sessions : \A v \in Workers : Executing(v, s)' <=> Executing(v, s)
        BY <1>1 DEF ExecInv, ExecTypeOK, Executing
    <2> QED
        BY <1>1, <2>1, SessionsKept
<1> QED
    BY <1>3, <1>5, <1>6, <1>7 DEF ExecInv

-----------------------------------------------------------------------------
(* deinit.                                                                 *)

(* The steps of deinit that only move it on.                               *)
LEMMA DeinitMovesIInv ==
    ASSUME ExecInv, Deinit \/ WorkersJoined \/ PoolFreed
    PROVE  ExecInv'
<1>1. /\ UNCHANGED <<waiting, running, taskList, wpc, wqueue, wsession, dqueue, queueLast,
                      entryLast, outcome, handled, requestedLate>>
      /\ dpc \in {"up", "joining", "close"}
      /\ dpc' \in {"joining", "close", "queues", "done"}
      /\ phase' \in {"open", "closing", "handing", "closed"}
    BY DEF Deinit, WorkersJoined, PoolFreed, ExecPool!Close, ExecPool!BeginHandOver, ExecPool!Closed,
           workerVars, sessionVars
<1>2. ExecTypeOK'
    BY <1>1 DEF ExecInv, ExecTypeOK
<1>3. \A q \in Queues : /\ InPool(q)' <=> InPool(q)
                        /\ Walked(q)' <=> Walked(q)
                        /\ \A w \in Workers : Popping(w, q)' <=> Popping(w, q)
    BY <1>1 DEF InPool, Walked, Popping
<1>4. OwnedIffWork' /\ OneOwner'
    BY <1>1, <1>3, OwnersKept DEF ExecInv, OneOwner, InPoolOnce
<1>5. LocalsSet'
    BY <1>1 DEF ExecInv, LocalsSet
<1>6. Pending' /\ ListedOnce'
    BY <1>1, SessionsKept DEF Executing
<1> QED
    BY <1>2, <1>4, <1>5, <1>6 DEF ExecInv

(* A queue that is handed over has entries: the walk over them starts.     *)
LEMMA CancelQueueIInv ==
    ASSUME ExecInv, CancelQueue
    PROVE  ExecInv'
<1>1. PICK q \in Queues :
          /\ ExecPool!HandOver(q)
          /\ dqueue' = q
          /\ queueLast' = (Len(waiting) = 1)
          /\ dpc' = IF taskList[q] # <<>> THEN "entries"
                    ELSE IF Len(waiting) = 1 THEN "close" ELSE "queues"
    BY DEF CancelQueue
<1>2. /\ UNCHANGED <<running, phase, taskList, wpc, wqueue, wsession, entryLast, outcome,
                      handled, requestedLate>>
      /\ dpc = "queues" /\ queueLast' \in BOOLEAN
    BY <1>1, Zenon DEF CancelQueue, ExecPool!HandOver, workerVars, sessionVars
<1>3. /\ waiting' \in Seq(PoolEntry) /\ InPoolOnce'
      /\ InPool(q) /\ ~InPool(q)'
      /\ \A r \in Queues \ {q} : InPool(r)' <=> InPool(r)
    BY <1>1, TakenFromPool DEF ExecInv, OneOwner, ExecPool!HandOver
<1>4. taskList[q] # <<>> /\ dpc' = "entries"
    BY <1>1, <1>3 DEF ExecInv, OwnedIffWork
<1>5. ExecTypeOK'
    BY <1>1, <1>2, <1>3, <1>4 DEF ExecInv, ExecTypeOK, PoolEntry
<1>6. \A r \in Queues : /\ ~Walked(r)
                        /\ Walked(r)' <=> r = q
                        /\ \A w \in Workers : Popping(w, r)' <=> Popping(w, r)
    BY <1>1, <1>2, <1>4 DEF Walked, Popping
<1>7. OwnedIffWork' /\ OneOwner'
    BY <1>2, <1>3, <1>6 DEF ExecInv, OwnedIffWork, OneOwner
<1>8. LocalsSet'
    BY <1>1, <1>2 DEF ExecInv, LocalsSet
<1>9. Pending' /\ ListedOnce'
    BY <1>2, SessionsKept DEF Executing
<1> QED
    BY <1>5, <1>7, <1>8, <1>9 DEF ExecInv

LEMMA CancelEntryIInv ==
    ASSUME ExecInv, CancelEntry
    PROVE  ExecInv'
<1>1. dpc = "entries" /\ dqueue \in Queues
    BY DEF ExecInv, LocalsSet, CancelEntry
<1>2. PICK q \in Queues : q = dqueue
    BY <1>1
<1>3. Walked(q) /\ taskList[q] # <<>>
    BY <1>1, <1>2 DEF ExecInv, OwnedIffWork, Walked
<1>4. ~InPool(q) /\ \A w \in Workers : ~Popping(w, q)
    BY <1>3 DEF ExecInv, OneOwner
<1>5. PICK s : s = Head(taskList[q])
    OBVIOUS
<1>6. /\ entryLast' = (Len(taskList[q]) = 1)
      /\ taskList' = [taskList EXCEPT ![q] = Tail(@)]
      /\ outcome' = [outcome EXCEPT ![s] = "CANCELED"]
      /\ handled' = [handled EXCEPT ![s] = @ + 1]
      /\ dpc' = "callback"
      /\ UNCHANGED <<waiting, running, phase, wpc, wqueue, wsession, dqueue, queueLast, requestedLate>>
    BY <1>2, <1>5, Zenon DEF CancelEntry, execPoolVars, workerVars
<1>7. /\ taskList' \in [Queues -> Seq(Sessions)] /\ ListedOnce'
      /\ Len(taskList[q]) \in Nat /\ (taskList'[q] # <<>> <=> Len(taskList[q]) > 1)
      /\ \A r \in Queues \ {q} : taskList'[r] = taskList[r]
      /\ s \in Sessions /\ Listed(s)
      /\ \A x \in Sessions : Listed(x)' <=> Listed(x) /\ x # s
    BY <1>3, <1>5, <1>6, EntryTaken DEF ExecInv
<1>8. entryLast' \in BOOLEAN
    BY <1>6, Zenon
<1>9. Len(taskList[q]) > 0
    BY <1>3, EmptySeq, LenProperties DEF ExecInv, ExecTypeOK
<1>10. entryLast' <=> ~(Len(taskList[q]) > 1)
    <2>1. Len(taskList[q]) = 1 <=> ~(Len(taskList[q]) > 1)
        <3>1. \A k \in Nat : k > 0 => (k = 1 <=> ~(k > 1))
            OBVIOUS
        <3> QED
            BY <1>7, <1>9, <3>1, Zenon
    <2> QED
        BY <1>6, <2>1, Zenon
<1>11. ExecTypeOK'
    <2>1. /\ outcome' \in [Sessions -> {"none", "queued", "ERROR", "FINISHED", "CANCELED"}]
          /\ handled' \in [Sessions -> Nat]
        <3>1. /\ outcome' = [outcome EXCEPT ![s] = "CANCELED"]
              /\ handled' = [handled EXCEPT ![s] = @ + 1]
            BY <1>6, Zenon
        <3> QED
            BY <1>7, <3>1 DEF ExecInv, ExecTypeOK
    <2>2. /\ dpc' = "callback"
          /\ UNCHANGED <<waiting, running, phase, wpc, wqueue, wsession, dqueue, queueLast, requestedLate>>
        BY <1>6, Zenon
    <2> QED
        BY <1>7, <1>8, <2>1, <2>2 DEF ExecInv, ExecTypeOK
<1>12. ASSUME NEW r \in Queues
       PROVE  /\ InPool(r)' <=> InPool(r)
              /\ Walked(r)' <=> r = q /\ taskList'[q] # <<>>
              /\ Walked(r) <=> r = q
              /\ \A w \in Workers : Popping(w, r)' <=> Popping(w, r)
    BY <1>1, <1>2, <1>6, <1>7, <1>10 DEF InPool, Walked, Popping
<1>13. OwnedIffWork'
    BY <1>4, <1>7, <1>12 DEF ExecInv, OwnedIffWork
<1>14. OneOwner'
    BY <1>4, <1>6, <1>12 DEF ExecInv, OneOwner, InPoolOnce
<1>15. LocalsSet'
    BY <1>1, <1>6 DEF ExecInv, LocalsSet
<1>16. outcome[s] = "queued" /\ handled[s] = 0 /\ \A w \in Workers : ~Executing(w, s)
    BY <1>7 DEF ExecInv, Pending
<1>17. \A x \in Sessions : \A w \in Workers : Executing(w, x)' <=> Executing(w, x)
    BY <1>6 DEF Executing
<1>18. Pending'
    BY <1>6, <1>7, <1>16, <1>17 DEF ExecInv, ExecTypeOK, Pending
<1> QED
    BY <1>7, <1>11, <1>13, <1>14, <1>15, <1>18 DEF ExecInv

LEMMA CancelReturnsIInv ==
    ASSUME ExecInv, CancelReturns
    PROVE  ExecInv'
<1>1. /\ UNCHANGED <<waiting, running, phase, taskList, wpc, wqueue, wsession, dqueue,
                      queueLast, entryLast, outcome, handled, requestedLate>>
      /\ dpc = "callback"
      /\ ~entryLast => dpc' = "entries"
      /\ entryLast => dpc' \in {"queues", "close"}
    BY DEF ExecInv, ExecTypeOK, CancelReturns, execPoolVars, workerVars, sessionVars
<1>2. ExecTypeOK'
    BY <1>1 DEF ExecInv, ExecTypeOK
<1>3. \A q \in Queues : /\ InPool(q)' <=> InPool(q)
                        /\ Walked(q)' <=> Walked(q)
                        /\ \A w \in Workers : Popping(w, q)' <=> Popping(w, q)
    BY <1>1 DEF InPool, Walked, Popping
<1>4. OwnedIffWork' /\ OneOwner'
    BY <1>1, <1>3, OwnersKept DEF ExecInv, OneOwner, InPoolOnce
<1>5. LocalsSet'
    BY <1>1 DEF ExecInv, LocalsSet
<1>6. Pending' /\ ListedOnce'
    BY <1>1, SessionsKept DEF Executing
<1> QED
    BY <1>2, <1>4, <1>5, <1>6 DEF ExecInv

-----------------------------------------------------------------------------
(***************************************************************************)
(* Every step of a caller, a worker or deinit keeps the invariant.         *)
(***************************************************************************)
THEOREM ExecutorInductive == ExecInv /\ [ExecNext]_execVars => ExecInv'
<1> SUFFICES ASSUME ExecInv, [ExecNext]_execVars PROVE ExecInv'
    OBVIOUS
<1>1. CASE \E c \in Requesters, s \in Sessions :
               RequestFails(c, s) \/ \E q \in Queues : Request(c, s, q)
    BY <1>1, RequestFailsIInv, RequestIInv
<1>2. CASE \E w \in Workers : WorkerStep(w)
    BY <1>2, StartRoutineIInv, PopEntryIInv, ExecuteIInv, RoutineReturnsIInv DEF WorkerStep
<1>3. CASE Deinit \/ DeinitStep
    BY <1>3, DeinitMovesIInv, CancelQueueIInv, CancelEntryIInv, CancelReturnsIInv
    DEF DeinitStep
<1>4. CASE UNCHANGED execVars
    <2>1. UNCHANGED <<waiting, running, phase, taskList, wpc, wqueue, wsession, dpc, dqueue,
                      queueLast, entryLast, outcome, handled, requestedLate>>
        BY <1>4 DEF execVars, execPoolVars, workerVars, deinitVars, sessionVars
    <2>2. ExecTypeOK' /\ LocalsSet'
        BY <2>1 DEF ExecInv, ExecTypeOK, LocalsSet
    <2>3. OwnedIffWork' /\ OneOwner'
        BY <2>1, OwnersKept DEF ExecInv, OneOwner, InPoolOnce, InPool, Walked, Popping
    <2>4. Pending' /\ ListedOnce'
        BY <2>1, SessionsKept DEF Executing
    <2> QED
        BY <2>2, <2>3, <2>4 DEF ExecInv
<1> QED
    BY <1>1, <1>2, <1>3, <1>4 DEF ExecNext, Done

LEMMA ExecutorAlways == ExecSpec => []ExecInv
BY InitExecInv, ExecutorInductive, PTL DEF ExecSpec

(* One owner, counted.                                                     *)
LEMMA OwnersCounted == ExecInv => ScheduledOnceIffWork
<1> SUFFICES ASSUME ExecInv, NEW q \in Queues
             PROVE  Scheduled(q) = IF taskList[q] = <<>> THEN 0 ELSE 1
    BY DEF ScheduledOnceIffWork
<1> DEFINE P == {i \in DOMAIN waiting : waiting[i].task = q}
           W == {w \in Workers : wpc[w] = "pop" /\ wqueue[w] = q}
<1>1. Cardinality(P) = IF InPool(q) THEN 1 ELSE 0
    <2>1. CASE InPool(q)
        <3>1. PICK i \in DOMAIN waiting : waiting[i].task = q
            BY <2>1 DEF InPool
        <3>2. P = {i}
            BY <3>1 DEF ExecInv, OneOwner, InPoolOnce
        <3> QED
            BY <2>1, <3>2, FS_Singleton
    <2>2. CASE ~InPool(q)
        <3>1. P = {}
            BY <2>2 DEF InPool
        <3> QED
            BY <2>2, <3>1, FS_EmptySet
    <2> QED
        BY <2>1, <2>2
<1>2. Cardinality(W) = IF \E w \in Workers : Popping(w, q) THEN 1 ELSE 0
    <2>1. CASE \E w \in Workers : Popping(w, q)
        <3>1. PICK w \in Workers : Popping(w, q)
            BY <2>1
        <3>2. W = {w}
            BY <3>1 DEF ExecInv, OneOwner, Popping
        <3> QED
            BY <2>1, <3>2, FS_Singleton
    <2>2. CASE ~ \E w \in Workers : Popping(w, q)
        <3>1. W = {}
            BY <2>2 DEF Popping
        <3> QED
            BY <2>2, <3>1, FS_EmptySet
    <2> QED
        BY <2>1, <2>2
<1>3. Scheduled(q) = Cardinality(P) + Cardinality(W) + (IF Walked(q) THEN 1 ELSE 0)
    BY DEF Scheduled, Walked
<1> HIDE DEF P, W
<1> QED
    BY <1>1, <1>2, <1>3 DEF ExecInv, OwnedIffWork, OneOwner

(***************************************************************************)
(* Whatever the interleaving of requests, routines, callbacks and deinit,  *)
(* a queue is with the pool, one worker or the canceller while it has      *)
(* entries, and with nobody while it has none: request and the routine     *)
(* never disagree on who schedules it.                                     *)
(***************************************************************************)
THEOREM ScheduledCorrectly == ExecSpec => []ScheduledOnceIffWork
BY ExecutorAlways, OwnersCounted, PTL

(***************************************************************************)
(* handle() is called at most once for a session, by a worker or by the    *)
(* canceller.                                                              *)
(***************************************************************************)
THEOREM HandledOnce == ExecSpec => []HandledAtMostOnce
<1>1. ExecInv => HandledAtMostOnce
    BY DEF ExecInv, Pending, HandledAtMostOnce
<1> QED
    BY <1>1, ExecutorAlways, PTL
=============================================================================
