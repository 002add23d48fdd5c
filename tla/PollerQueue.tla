---------------------------- MODULE PollerQueue ----------------------------
(***************************************************************************)
(* The result queue of kernel/poller.c, between the poller threads and the *)
(* handler threads.  It has two lists: producers append to the put list    *)
(* under put_mutex; consumers pop from the get list under get_mutex, and   *)
(* the one that finds it empty exchanges the lists.  While that consumer   *)
(* waits for a result both pointers name the same list.  A producer waits  *)
(* while the put list holds res_max results, unless its poller is being    *)
(* stopped.                                                                *)
(*                                                                         *)
(* A step is what is done under put_mutex, or between two uses of it.      *)
(* get_mutex is a variable, because a consumer keeps it while it waits.    *)
(***************************************************************************)
EXTENDS Naturals, Sequences, FiniteSets

CONSTANTS
    Producers,  \* the pollers, each with one thread that adds results
    Consumers,  \* the handler threads
    Results,    \* the poller nodes, each added at most once
    ResMax,     \* queue->res_max
    NoOne, NoResult

ASSUME PollerQueueAssumption ==
    /\ ResMax \in Nat
    /\ NoOne \notin Consumers
    /\ NoResult \notin Results

Lists == {1, 2}

VARIABLES
    list,       \* res_list1 and res_list2
    getList,    \* queue->get_list
    putList,    \* queue->put_list
    resCnt,     \* queue->res_cnt
    nonblock,   \* queue->nonblock
    stopping,   \* the pollers whose stopping flag is set
    getMutex,   \* who holds get_mutex
    ppc, pres,  \* each producer: where it is and the result it adds
    cpc,        \* each consumer: where it is
    saved,      \* its local get_list in swap
    cnt,        \* its local cnt
    bpc,        \* the pollers between stopping = 1 and the broadcast
    npc,        \* set_nonblock: before, between the flag and the signal, after
    added, got  \* history: the results added, and taken out, in order

listVars == <<list, getList, putList, resCnt>>
prodVars == <<ppc, pres, stopping, bpc>>
consVars == <<cpc, saved, cnt, getMutex>>
closeVars == <<nonblock, npc>>
queueVars == <<listVars, prodVars, consVars, closeVars, added, got>>

QueueInit ==
    /\ list = [l \in Lists |-> <<>>]
    /\ getList = 1
    /\ putList = 2
    /\ resCnt = 0
    /\ nonblock = FALSE
    /\ stopping = {}
    /\ getMutex = NoOne
    /\ ppc = [p \in Producers |-> "idle"]
    /\ pres = [p \in Producers |-> NoResult]
    /\ cpc = [c \in Consumers |-> "idle"]
    /\ saved = [c \in Consumers |-> 1]
    /\ cnt = [c \in Consumers |-> 0]
    /\ bpc = {}
    /\ npc = "before"
    /\ added = {}
    /\ got = <<>>

-----------------------------------------------------------------------------
(* __poller_add_result.                                                    *)

(* res_cnt > res_max - 1 in size_t arithmetic: with res_max = 0 the right  *)
(* side is the largest size_t, and the queue is never full.                *)
Full == ResMax # 0 /\ resCnt > ResMax - 1

BeginPut(p, r) ==
    /\ ppc[p] = "idle"
    /\ ~nonblock
    /\ r \notin added
    /\ added' = added \cup {r}
    /\ pres' = [pres EXCEPT ![p] = r]
    /\ ppc' = [ppc EXCEPT ![p] = "lock"]
    /\ UNCHANGED <<listVars, stopping, bpc, consVars, closeVars, got>>

PutWaits(p) ==
    /\ ppc[p] = "lock"
    /\ Full /\ p \notin stopping
    /\ ppc' = [ppc EXCEPT ![p] = "wait"]
    /\ UNCHANGED <<listVars, pres, stopping, bpc, consVars, closeVars, added, got>>

(* Mutant of Put: list_add instead of list_add_tail.                       *)
PutInFront(p) ==
    /\ ppc[p] = "lock"
    /\ ~Full \/ p \in stopping
    /\ list' = [list EXCEPT ![putList] = <<pres[p]>> \o @]
    /\ resCnt' = resCnt + 1
    /\ ppc' = [ppc EXCEPT ![p] = "signal"]
    /\ pres' = [pres EXCEPT ![p] = NoResult]
    /\ UNCHANGED <<getList, putList, stopping, bpc, consVars, closeVars, added, got>>

Put(p) ==
    /\ ppc[p] = "lock"
    /\ ~Full \/ p \in stopping
    /\ list' = [list EXCEPT ![putList] = Append(@, pres[p])]
    /\ resCnt' = resCnt + 1
    /\ ppc' = [ppc EXCEPT ![p] = "signal"]
    /\ pres' = [pres EXCEPT ![p] = NoResult]
    /\ UNCHANGED <<getList, putList, stopping, bpc, consVars, closeVars, added, got>>

(* Mutant of GetCondSignalled: the signal is forgotten.                    *)
GetCondUnsignalled == cpc' = cpc

(* pthread_cond_signal(&queue->get_cond): at most one consumer waits.      *)
GetCondSignalled ==
    cpc' = [c \in Consumers |-> IF cpc[c] = "wait" THEN "swap" ELSE cpc[c]]

PutSignals(p) ==
    /\ ppc[p] = "signal"
    /\ GetCondSignalled
    /\ ppc' = [ppc EXCEPT ![p] = "idle"]
    /\ UNCHANGED <<listVars, pres, stopping, bpc, saved, cnt, getMutex, closeVars,
                   added, got>>

PutSpurious(p) ==
    /\ ppc[p] = "wait"
    /\ ppc' = [ppc EXCEPT ![p] = "lock"]
    /\ UNCHANGED <<listVars, pres, stopping, bpc, consVars, closeVars, added, got>>

(* Mutant of PutCondBroadcast: the broadcast is forgotten.                 *)
PutCondUnsignalled == ppc

PutCondBroadcast == [p \in Producers |-> IF ppc[p] = "wait" THEN "lock" ELSE ppc[p]]

-----------------------------------------------------------------------------
(* poller_queue_get and __poller_queue_swap.                               *)

(* Pop the first result of the get list and release get_mutex.             *)
Pop(c) ==
    /\ got' = Append(got, Head(list[getList]))
    /\ list' = [list EXCEPT ![getList] = Tail(@)]
    /\ getMutex' = NoOne
    /\ cpc' = [cpc EXCEPT ![c] = "idle"]
    /\ UNCHANGED <<getList, putList, resCnt>>

GetFromList(c) ==
    /\ cpc[c] = "idle"
    /\ getMutex = NoOne
    /\ list[getList] # <<>>
    /\ Pop(c)
    /\ UNCHANGED <<prodVars, saved, cnt, closeVars, added>>

(* get_list = put_list, before put_mutex is taken.                         *)
BeginSwap(c) ==
    /\ cpc[c] = "idle"
    /\ getMutex = NoOne
    /\ list[getList] = <<>>
    /\ getMutex' = c
    /\ saved' = [saved EXCEPT ![c] = getList]
    /\ getList' = putList
    /\ cpc' = [cpc EXCEPT ![c] = "swap"]
    /\ UNCHANGED <<list, putList, resCnt, prodVars, cnt, closeVars, added, got>>

SwapWaits(c) ==
    /\ cpc[c] = "swap"
    /\ resCnt = 0 /\ ~nonblock
    /\ cpc' = [cpc EXCEPT ![c] = "wait"]
    /\ UNCHANGED <<listVars, prodVars, saved, cnt, getMutex, closeVars, added, got>>

SwapSpurious(c) ==
    /\ cpc[c] = "wait"
    /\ cpc' = [cpc EXCEPT ![c] = "swap"]
    /\ UNCHANGED <<listVars, prodVars, saved, cnt, getMutex, closeVars, added, got>>

Swap(c) ==
    /\ cpc[c] = "swap"
    /\ resCnt # 0 \/ nonblock
    /\ cnt' = [cnt EXCEPT ![c] = resCnt]
    /\ ppc' = IF Full THEN PutCondBroadcast ELSE ppc
    /\ putList' = saved[c]
    /\ resCnt' = 0
    /\ cpc' = [cpc EXCEPT ![c] = "pop"]
    /\ UNCHANGED <<list, getList, pres, stopping, bpc, saved, getMutex, closeVars,
                   added, got>>

GetSwapped(c) ==
    /\ cpc[c] = "pop"
    /\ cnt[c] > 0
    /\ Pop(c)
    /\ UNCHANGED <<prodVars, saved, cnt, closeVars, added>>

(* NULL, ENOENT: the handler thread ends.                                  *)
GetNothing(c) ==
    /\ cpc[c] = "pop"
    /\ cnt[c] = 0
    /\ getMutex' = NoOne
    /\ cpc' = [cpc EXCEPT ![c] = "ended"]
    /\ UNCHANGED <<listVars, prodVars, saved, cnt, closeVars, added, got>>

-----------------------------------------------------------------------------
(* The part of poller_stop that concerns the queue, and set_nonblock,      *)
(* which Communicator::deinit calls when all the pollers have stopped.     *)

MarkStopping(p) ==
    /\ p \notin stopping
    /\ stopping' = stopping \cup {p}
    /\ bpc' = bpc \cup {p}
    /\ UNCHANGED <<listVars, ppc, pres, consVars, closeVars, added, got>>

StopBroadcasts(p) ==
    /\ p \in bpc
    /\ bpc' = bpc \ {p}
    /\ ppc' = PutCondBroadcast
    /\ UNCHANGED <<listVars, pres, stopping, consVars, closeVars, added, got>>

SetNonblock ==
    /\ npc = "before"
    /\ stopping = Producers /\ bpc = {}
    /\ \A p \in Producers : ppc[p] = "idle"
    /\ nonblock' = TRUE
    /\ npc' = "signal"
    /\ UNCHANGED <<listVars, prodVars, consVars, added, got>>

NonblockSignals ==
    /\ npc = "signal"
    /\ npc' = "after"
    /\ GetCondSignalled
    /\ UNCHANGED <<listVars, prodVars, saved, cnt, getMutex, nonblock, added, got>>

(* All the handler threads have ended.                                     *)
Ended ==
    /\ \A c \in Consumers : cpc[c] = "ended"
    /\ npc = "after"
    /\ UNCHANGED queueVars

-----------------------------------------------------------------------------
ProducerStep(p) == PutWaits(p) \/ Put(p) \/ PutSignals(p)

ConsumerStep(c) ==
    \/ GetFromList(c) \/ BeginSwap(c) \/ SwapWaits(c) \/ Swap(c)
    \/ GetSwapped(c) \/ GetNothing(c)

QueueNext ==
    \/ \E p \in Producers :
           \/ ProducerStep(p) \/ PutSpurious(p)
           \/ MarkStopping(p) \/ StopBroadcasts(p)
           \/ \E r \in Results : BeginPut(p, r)
    \/ \E c \in Consumers : ConsumerStep(c) \/ SwapSpurious(c)
    \/ SetNonblock \/ NonblockSignals
    \/ Ended

QueueSpec == QueueInit /\ [][QueueNext]_queueVars

(***************************************************************************)
(* Threads that can run do run.  A consumer that is refused get_mutex over *)
(* and over need not get it: the weak fairness of its step is enough,      *)
(* because the results it does not take others do.  Nothing makes a        *)
(* poller find a result, or anybody stop.                                  *)
(***************************************************************************)
FairQueueSpec ==
    /\ QueueSpec
    /\ \A p \in Producers : WF_queueVars(ProducerStep(p)) /\ WF_queueVars(StopBroadcasts(p))
    /\ \A c \in Consumers : WF_queueVars(ConsumerStep(c))
    /\ WF_queueVars(NonblockSignals)

-----------------------------------------------------------------------------
(* The lists, the counters and the threads are in states the code can be   *)
(* in.                                                                     *)
QueueTypeOK ==
    /\ list \in [Lists -> Seq(Results)]
    /\ getList \in Lists /\ putList \in Lists
    /\ resCnt \in Nat
    /\ nonblock \in BOOLEAN
    /\ stopping \subseteq Producers
    /\ getMutex \in Consumers \cup {NoOne}
    /\ ppc \in [Producers -> {"idle", "lock", "wait", "signal"}]
    /\ pres \in [Producers -> Results \cup {NoResult}]
    /\ cpc \in [Consumers -> {"idle", "swap", "wait", "pop", "ended"}]
    /\ saved \in [Consumers -> Lists]
    /\ cnt \in [Consumers -> Nat]
    /\ bpc \subseteq stopping
    /\ npc \in {"before", "signal", "after"}
    /\ added \subseteq Results
    /\ got \in Seq(Results)

(* The two lists together.                                                 *)
Content ==
    IF getList = putList THEN list[putList] ELSE list[getList] \o list[putList]

(* The handler threads whose get has returned NULL.                        *)
Told == {c \in Consumers : cpc[c] = "ended"}

Fifo == INSTANCE ResultFifo WITH content <- Content, closed <- nonblock, told <- Told

(***************************************************************************)
(* The two lists and the exchange of their pointers implement one FIFO:    *)
(* results leave in the order in which they were appended, none is lost or *)
(* taken twice, and a get returns NULL only after set_nonblock, when there *)
(* is nothing left and no poller adds anything more.                       *)
(***************************************************************************)
ImplementsFifo == Fifo!Spec

(***************************************************************************)
(* A result that a poller has begun to add is eventually taken by some     *)
(* handler thread: no producer waits for ever at a full queue.             *)
(***************************************************************************)
ResultsTaken ==
    \A r \in Results : r \in added ~> \E i \in DOMAIN got : got[i] = r

(***************************************************************************)
(* After set_nonblock every handler thread's get returns NULL in the end.  *)
(***************************************************************************)
HandlersEnd == npc = "signal" ~> \A c \in Consumers : cpc[c] = "ended"
=============================================================================
