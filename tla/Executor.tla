------------------------------ MODULE Executor ------------------------------
(***************************************************************************)
(* kernel/Executor.cc: sessions are queued on an ExecQueue, and a queue    *)
(* that is not empty is itself a task of the thread pool.  The routine     *)
(* takes one session off its queue and, before it runs it, schedules the   *)
(* queue again if more are left.  deinit destroys the pool, which hands    *)
(* the queues that were still scheduled to executor_cancel_tasks.          *)
(*                                                                         *)
(* The pool is the one TaskPool specifies.  What a queue's mutex protects  *)
(* is one step.  handle() ends in the session's callback, which may make   *)
(* further requests: it is a step of its own, and requests may follow it   *)
(* before it returns.                                                      *)
(***************************************************************************)
EXTENDS Naturals, Sequences, FiniteSets

CONSTANTS
    Queues,     \* the ExecQueue objects
    Sessions,   \* the ExecSession objects, each requested at most once
    Workers,    \* the threads of the pool
    Client,     \* the threads outside the pool that make requests
    Canceller,  \* the thread that calls deinit
    NoQueue, NoSession

ASSUME ExecutorAssumption ==
    /\ IsFiniteSet(Workers)
    /\ Client \notin Workers /\ Canceller \notin Workers /\ Client # Canceller
    /\ NoQueue \notin Queues
    /\ NoSession \notin Sessions

VARIABLES
    waiting, running, phase,    \* the pool (TaskPool), its tasks are queues
    taskList,   \* queue->task_list
    wpc,        \* where each worker is in executor_thread_routine
    wqueue,     \* its context
    wsession,   \* its local session
    dpc,        \* where deinit is
    dqueue,     \* the queue executor_cancel_tasks was called for
    queueLast,  \* the walk over the pool's tasks has saved the list's head
    entryLast,  \* the walk over the queue's entries has saved the list's head
    outcome,    \* history: what each session was told
    handled,    \* history: how often it was told
    requestedLate   \* history: sessions requested by a handle(CANCELED)

execPoolVars == <<waiting, running, phase>>
workerVars == <<wpc, wqueue, wsession>>
deinitVars == <<dpc, dqueue, queueLast, entryLast>>
sessionVars == <<outcome, handled, requestedLate>>
execVars == <<execPoolVars, taskList, workerVars, deinitVars, sessionVars>>

ExecPool == INSTANCE TaskPool WITH Tasks <- Queues

Requesters == Workers \cup {Client, Canceller}

ExecInit ==
    /\ ExecPool!Init
    /\ taskList = [q \in Queues |-> <<>>]
    /\ wpc = [w \in Workers |-> "idle"]
    /\ wqueue = [w \in Workers |-> NoQueue]
    /\ wsession = [w \in Workers |-> NoSession]
    /\ dpc = "up"
    /\ dqueue = NoQueue
    /\ queueLast = FALSE
    /\ entryLast = FALSE
    /\ outcome = [s \in Sessions |-> "none"]
    /\ handled = [s \in Sessions |-> 0]
    /\ requestedLate = {}

-----------------------------------------------------------------------------
(* Executor::request.  A client calls it while the executor is up, a       *)
(* worker or the canceller from inside handle().                           *)

MayRequest(c) ==
    \/ c = Client /\ dpc = "up"
    \/ c \in Workers /\ wpc[c] = "callback"
    \/ c = Canceller /\ dpc = "callback"

Request(c, s, q) ==
    /\ MayRequest(c)
    /\ outcome[s] = "none"
    /\ outcome' = [outcome EXCEPT ![s] = "queued"]
    /\ requestedLate' = IF c = Canceller THEN requestedLate \cup {s} ELSE requestedLate
    /\ taskList' = [taskList EXCEPT ![q] = Append(@, s)]
    /\ IF taskList[q] = <<>> THEN ExecPool!Submit(q) ELSE UNCHANGED execPoolVars
    /\ UNCHANGED <<workerVars, deinitVars, handled>>

(* The entry cannot be allocated, or it is the first of its queue and the  *)
(* pool's entry cannot: the queue is left as it was, and the caller        *)
(* (ExecRequest::dispatch) reports the error itself.                       *)
RequestFails(c, s) ==
    /\ MayRequest(c)
    /\ outcome[s] = "none"
    /\ outcome' = [outcome EXCEPT ![s] = "ERROR"]
    /\ handled' = [handled EXCEPT ![s] = @ + 1]
    /\ UNCHANGED <<execPoolVars, taskList, workerVars, deinitVars, requestedLate>>

-----------------------------------------------------------------------------
(* executor_thread_routine.                                                *)

StartRoutine(w) ==
    /\ wpc[w] = "idle"
    /\ \E q \in Queues :
           /\ ExecPool!Start(q)
           /\ wqueue' = [wqueue EXCEPT ![w] = q]
    /\ wpc' = [wpc EXCEPT ![w] = "pop"]
    /\ UNCHANGED <<taskList, wsession, deinitVars, sessionVars>>

(* Mutant of PopEntry: an emptied queue is scheduled again.                *)
PopEntryOffByOne(w) ==
    LET q == wqueue[w] IN
    /\ wpc[w] = "pop"
    /\ wsession' = [wsession EXCEPT ![w] = Head(taskList[q])]
    /\ taskList' = [taskList EXCEPT ![q] = Tail(@)]
    /\ IF Len(taskList[q]) > 0 THEN ExecPool!Submit(q) ELSE UNCHANGED execPoolVars
    /\ wpc' = [wpc EXCEPT ![w] = "execute"]
    /\ UNCHANGED <<wqueue, deinitVars, sessionVars>>

(* Mutant of PopEntry: the entry stays on the list.                        *)
PopEntryKeeps(w) ==
    LET q == wqueue[w] IN
    /\ wpc[w] = "pop"
    /\ wsession' = [wsession EXCEPT ![w] = Head(taskList[q])]
    /\ IF Len(taskList[q]) > 1 THEN ExecPool!Submit(q) ELSE UNCHANGED execPoolVars
    /\ wpc' = [wpc EXCEPT ![w] = "execute"]
    /\ UNCHANGED <<taskList, wqueue, deinitVars, sessionVars>>

(* Mutant of PopEntry: the queue is never scheduled again.                 *)
PopEntryOnly(w) ==
    LET q == wqueue[w] IN
    /\ wpc[w] = "pop"
    /\ wsession' = [wsession EXCEPT ![w] = Head(taskList[q])]
    /\ taskList' = [taskList EXCEPT ![q] = Tail(@)]
    /\ wpc' = [wpc EXCEPT ![w] = "execute"]
    /\ UNCHANGED <<execPoolVars, wqueue, deinitVars, sessionVars>>

(* Under the queue's mutex: the first entry, and back to the pool if it    *)
(* was not the only one.                                                   *)
PopEntry(w) ==
    LET q == wqueue[w] IN
    /\ wpc[w] = "pop"
    /\ wsession' = [wsession EXCEPT ![w] = Head(taskList[q])]
    /\ taskList' = [taskList EXCEPT ![q] = Tail(@)]
    /\ IF Len(taskList[q]) > 1 THEN ExecPool!Submit(q) ELSE UNCHANGED execPoolVars
    /\ wpc' = [wpc EXCEPT ![w] = "execute"]
    /\ UNCHANGED <<wqueue, deinitVars, sessionVars>>

(* execute() and then handle(ES_STATE_FINISHED).                           *)
Execute(w) ==
    LET s == wsession[w] IN
    /\ wpc[w] = "execute"
    /\ outcome' = [outcome EXCEPT ![s] = "FINISHED"]
    /\ handled' = [handled EXCEPT ![s] = @ + 1]
    /\ wpc' = [wpc EXCEPT ![w] = "callback"]
    /\ UNCHANGED <<execPoolVars, taskList, wqueue, wsession, deinitVars, requestedLate>>

RoutineReturns(w) ==
    /\ wpc[w] = "callback"
    /\ ExecPool!Finish(wqueue[w])
    /\ wpc' = [wpc EXCEPT ![w] = "idle"]
    /\ wqueue' = [wqueue EXCEPT ![w] = NoQueue]
    /\ wsession' = [wsession EXCEPT ![w] = NoSession]
    /\ UNCHANGED <<taskList, deinitVars, sessionVars>>

-----------------------------------------------------------------------------
(* Executor::deinit: thrdpool_destroy with executor_cancel_tasks.          *)

Deinit ==
    /\ dpc = "up"
    /\ ExecPool!Close
    /\ dpc' = "joining"
    /\ UNCHANGED <<taskList, workerVars, dqueue, queueLast, entryLast, sessionVars>>

WorkersJoined ==
    /\ dpc = "joining"
    /\ ExecPool!BeginHandOver
    /\ dpc' = IF waiting = <<>> THEN "close" ELSE "queues"
    /\ UNCHANGED <<taskList, workerVars, dqueue, queueLast, entryLast, sessionVars>>

(* The pool's list_for_each_safe calls executor_cancel_tasks for a queue,  *)
(* whose own list_for_each_safe starts.                                    *)
CancelQueue ==
    /\ dpc = "queues"
    /\ \E q \in Queues :
           /\ ExecPool!HandOver(q)
           /\ dqueue' = q
           /\ queueLast' = (Len(waiting) = 1)
           /\ dpc' = IF taskList[q] # <<>> THEN "entries"
                     ELSE IF Len(waiting) = 1 THEN "close" ELSE "queues"
    /\ UNCHANGED <<taskList, workerVars, entryLast, sessionVars>>

CancelEntry ==
    LET s == Head(taskList[dqueue]) IN
    /\ dpc = "entries"
    /\ entryLast' = (Len(taskList[dqueue]) = 1)
    /\ taskList' = [taskList EXCEPT ![dqueue] = Tail(@)]
    /\ outcome' = [outcome EXCEPT ![s] = "CANCELED"]
    /\ handled' = [handled EXCEPT ![s] = @ + 1]
    /\ dpc' = "callback"
    /\ UNCHANGED <<execPoolVars, workerVars, dqueue, queueLast, requestedLate>>

CancelReturns ==
    /\ dpc = "callback"
    /\ dpc' = CASE ~entryLast -> "entries"
                [] entryLast /\ ~queueLast -> "queues"
                [] entryLast /\ queueLast -> "close"
    /\ UNCHANGED <<execPoolVars, taskList, workerVars, dqueue, queueLast, entryLast,
                   sessionVars>>

PoolFreed ==
    /\ dpc = "close"
    /\ ExecPool!Closed
    /\ dpc' = "done"
    /\ UNCHANGED <<taskList, workerVars, dqueue, queueLast, entryLast, sessionVars>>

Done == dpc = "done" /\ UNCHANGED execVars

-----------------------------------------------------------------------------
WorkerStep(w) ==
    StartRoutine(w) \/ PopEntry(w) \/ Execute(w) \/ RoutineReturns(w)

DeinitStep ==
    WorkersJoined \/ CancelQueue \/ CancelEntry \/ CancelReturns \/ PoolFreed

ExecNext ==
    \/ \E c \in Requesters, s \in Sessions :
           RequestFails(c, s) \/ \E q \in Queues : Request(c, s, q)
    \/ \E w \in Workers : WorkerStep(w)
    \/ Deinit \/ DeinitStep
    \/ Done

ExecSpec == ExecInit /\ [][ExecNext]_execVars

(* The pool's threads run what they can (ThrdPool shows that they do), and *)
(* a deinit that was called goes on.                                       *)
FairExecSpec ==
    /\ ExecSpec
    /\ \A w \in Workers : WF_execVars(WorkerStep(w))
    /\ WF_execVars(DeinitStep)

-----------------------------------------------------------------------------
(* The queues, the workers and deinit are in states the code can be in.    *)
ExecTypeOK ==
    /\ waiting \in Seq([task : Queues, late : BOOLEAN])
    /\ running \in [Queues -> Nat]
    /\ phase \in {"open", "closing", "handing", "closed"}
    /\ taskList \in [Queues -> Seq(Sessions)]
    /\ wpc \in [Workers -> {"idle", "pop", "execute", "callback"}]
    /\ wqueue \in [Workers -> Queues \cup {NoQueue}]
    /\ wsession \in [Workers -> Sessions \cup {NoSession}]
    /\ dpc \in {"up", "joining", "queues", "entries", "callback", "close", "done"}
    /\ dqueue \in Queues \cup {NoQueue}
    /\ queueLast \in BOOLEAN
    /\ entryLast \in BOOLEAN
    /\ outcome \in [Sessions -> {"none", "queued", "ERROR", "FINISHED", "CANCELED"}]
    /\ handled \in [Sessions -> Nat]
    /\ requestedLate \subseteq Sessions

(***************************************************************************)
(* Who has undertaken to empty queue q: its entries among the pool's       *)
(* tasks, the workers about to pop from it, and the canceller walking it.  *)
(***************************************************************************)
Scheduled(q) ==
    Cardinality({i \in DOMAIN waiting : waiting[i].task = q})
    + Cardinality({w \in Workers : wpc[w] = "pop" /\ wqueue[w] = q})
    + (IF dqueue = q /\ (dpc = "entries" \/ (dpc = "callback" /\ ~entryLast))
       THEN 1 ELSE 0)

(***************************************************************************)
(* A queue with entries is scheduled exactly once and an empty queue not   *)
(* at all.  So no session waits on a queue nobody will look at, the        *)
(* routine never takes the first entry of an empty list, and two workers   *)
(* never hold the same queue.                                              *)
(***************************************************************************)
ScheduledOnceIffWork ==
    \A q \in Queues : Scheduled(q) = IF taskList[q] = <<>> THEN 0 ELSE 1

(***************************************************************************)
(* handle() is called at most once for a session: never FINISHED and then  *)
(* CANCELED, never twice by two workers.                                   *)
(***************************************************************************)
HandledAtMostOnce == \A s \in Sessions : handled[s] <= 1

(***************************************************************************)
(* An accepted session is eventually handled, with or without a deinit.    *)
(***************************************************************************)
SessionsHandled ==
    \A s \in Sessions : outcome[s] = "queued" /\ s \notin requestedLate ~> handled[s] = 1

=============================================================================
