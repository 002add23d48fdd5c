------------------------------- MODULE Poller -------------------------------
(***************************************************************************)
(* kernel/poller.c: the life of a poller node from poller_add to the       *)
(* result that hands it to a handler thread, which frees it.  Other        *)
(* threads add and delete nodes under poller->mutex; the poller thread     *)
(* takes a batch of events from epoll and handles them one by one, without *)
(* the mutex, so that a node may be deleted while its event is waiting or  *)
(* being handled.  A deleted node is marked removed and its address sent   *)
(* through a pipe to the poller thread, which alone hands out results.     *)
(*                                                                         *)
(* The pipe and the timeouts are looked at after every event of a batch,   *)
(* so a later event of the batch may be of a node that was handed out      *)
(* meanwhile.  If no handler thread has freed the node, the event is       *)
(* handled like any other; if one has, what happens next is undefined.     *)
(*                                                                         *)
(* A step is what is done under poller->mutex or between two uses of it.   *)
(* The result queue is PollerQueue's; here a result is only counted.  The  *)
(* order of timeouts is left out: any node with a timeout may expire.      *)
(***************************************************************************)
EXTENDS Naturals, Sequences, FiniteSets

CONSTANTS
    Nodes,      \* the node objects poller_add allocates
    Fds,
    Operation,  \* of each node: "READ" or "CONNECT"
    EventsMax,  \* POLLER_EVENTS_MAX, the size of a batch
    MaxMessages,\* bound: messages completed on one node
    NoNode, Pipe, Timer, Stop

ASSUME PollerAssumption ==
    /\ IsFiniteSet(Nodes)
    /\ Operation \in [Nodes -> {"READ", "CONNECT"}]
    /\ EventsMax \in Nat \ {0}
    /\ {NoNode, Pipe, Timer, Stop} \cap Nodes = {} /\ NoNode \notin Fds
    /\ Cardinality({NoNode, Pipe, Timer, Stop}) = 4

VARIABLES
    nodes,      \* poller->nodes: the node of each fd, or NULL
    fd,         \* node->data.fd, NoNode for a node not yet added
    timed,      \* the nodes on timeo_list or in the tree
    removed,    \* node->removed
    expired,    \* nodes whose timeout has passed
    pipe,       \* what was written to the pipe and not read yet
    tpc,        \* where the poller thread is
    events,     \* the rest of its batch
    hasPipe,    \* has_pipe_event
    spc,        \* where poller_stop is
    messages,   \* history: PR_ST_SUCCESS results of each node
    results     \* history: the final results of each node

nodeVars == <<nodes, fd, timed, removed, expired>>
threadVars == <<tpc, events, hasPipe>>
histVars == <<messages, results>>
vars == <<nodeVars, pipe, threadVars, spc, histVars>>

Init ==
    /\ nodes = [f \in Fds |-> NoNode]
    /\ fd = [n \in Nodes |-> NoNode]
    /\ timed = {}
    /\ removed = {}
    /\ expired = {}
    /\ pipe = <<>>
    /\ tpc = "wait"
    /\ events = <<>>
    /\ hasPipe = FALSE
    /\ spc = "up"
    /\ messages = [n \in Nodes |-> 0]
    /\ results = [n \in Nodes |-> <<>>]

(* The nodes epoll knows: __poller_add_fd and __poller_del_fd go with the  *)
(* writes of nodes[fd].                                                    *)
Active == {n \in Nodes : fd[n] \in Fds /\ nodes[fd[n]] = n}

(* The nodes that belong to the handler threads, which free them.          *)
HandedOut == {n \in Nodes : results[n] # <<>>}

AddResult(S, state) ==
    results' = [n \in Nodes |-> IF n \in S THEN Append(results[n], state)
                                ELSE results[n]]

-----------------------------------------------------------------------------
(* The calls of other threads, all under poller->mutex.                    *)

(* poller_add, with or without a timeout (EEXIST if the fd has a node).    *)
Add(n, f, withTimeout) ==
    /\ fd[n] = NoNode
    /\ nodes[f] = NoNode
    /\ nodes' = [nodes EXCEPT ![f] = n]
    /\ fd' = [fd EXCEPT ![n] = f]
    /\ timed' = IF withTimeout THEN timed \cup {n} ELSE timed
    /\ UNCHANGED <<removed, expired, pipe, threadVars, spc, histVars>>

(* poller_del (ENOENT if the fd has no node).  The poller is not stopped:  *)
(* poller_stop never gets that far.                                        *)
Del(f) ==
    LET n == nodes[f] IN
    /\ n # NoNode
    /\ nodes' = [nodes EXCEPT ![f] = NoNode]
    /\ timed' = timed \ {n}
    /\ removed' = removed \cup {n}
    /\ pipe' = Append(pipe, n)
    /\ UNCHANGED <<fd, expired, threadVars, spc, histVars>>

(* poller_set_timeout: a new timeout, or none.                             *)
SetTimeout(f, withTimeout) ==
    LET n == nodes[f] IN
    /\ n # NoNode
    /\ timed' = IF withTimeout THEN timed \cup {n} ELSE timed \ {n}
    /\ expired' = expired \ {n}
    /\ UNCHANGED <<nodes, fd, removed, pipe, threadVars, spc, histVars>>

(* poller_stop up to pthread_join: stopping, the NULL in the pipe, join.   *)
SetStopping ==
    /\ spc = "up"
    /\ spc' = "write"
    /\ UNCHANGED <<nodeVars, pipe, threadVars, histVars>>

StopWrites ==
    /\ spc = "write"
    /\ pipe' = Append(pipe, Stop)
    /\ spc' = "join"
    /\ UNCHANGED <<nodeVars, threadVars, histVars>>

-----------------------------------------------------------------------------
(* The environment: time passes.                                           *)

Expire(n) ==
    /\ n \in timed \ expired
    /\ expired' = expired \cup {n}
    /\ UNCHANGED <<nodes, fd, timed, removed, pipe, threadVars, spc, histVars>>

-----------------------------------------------------------------------------
(* __poller_thread_routine.                                                *)

(* What epoll_wait may report: any active node may be readable or          *)
(* connected, the pipe when it is not empty, the timer when it has fired.  *)
Ready ==
    Active \cup (IF pipe # <<>> THEN {Pipe} ELSE {})
           \cup (IF expired \cap timed # {} THEN {Timer} ELSE {})

Batches ==
    {b \in UNION {[1 .. k -> Ready] : k \in 1 .. EventsMax} :
        \A i, j \in DOMAIN b : i # j => b[i] # b[j]}

Wait ==
    /\ tpc = "wait"
    /\ \E b \in Batches : events' = b
    /\ hasPipe' = FALSE
    /\ tpc' = "event"
    /\ UNCHANGED <<nodeVars, pipe, spc, histVars>>

(* A node's event: read completes messages, each a result of its own, and  *)
(* ends with EAGAIN, or with end of file or an error, after which the node *)
(* is to be removed; connect always ends.                                  *)
HandleMessage ==
    LET n == Head(events) IN
    /\ tpc = "event"
    /\ events # <<>> /\ n \in Nodes
    /\ Operation[n] = "READ"
    /\ messages[n] < MaxMessages
    /\ messages' = [messages EXCEPT ![n] = @ + 1]
    /\ UNCHANGED <<nodeVars, pipe, threadVars, spc, results>>

HandleEAGAIN ==
    LET n == Head(events) IN
    /\ tpc = "event"
    /\ events # <<>> /\ n \in Nodes
    /\ Operation[n] = "READ"
    /\ tpc' = "handled"
    /\ UNCHANGED <<nodeVars, pipe, events, hasPipe, spc, histVars>>

HandleEnd ==
    LET n == Head(events) IN
    /\ tpc = "event"
    /\ events # <<>> /\ n \in Nodes
    /\ tpc' = "remove"
    /\ UNCHANGED <<nodeVars, pipe, events, hasPipe, spc, histVars>>

(* Mutant of RemoveNode: without the test of node->removed.                *)
RemoveNodeUnchecked ==
    LET n == Head(events) IN
    /\ tpc = "remove"
    /\ tpc' = "handled"
    /\ nodes' = [nodes EXCEPT ![fd[n]] = NoNode]
    /\ timed' = timed \ {n}
    /\ \E state \in {"FINISHED", "ERROR"} : AddResult({n}, state)
    /\ UNCHANGED <<fd, removed, expired, pipe, events, hasPipe, spc, messages>>

(* __poller_remove_node, and the result unless the node was deleted.  A    *)
(* node handed out by its timeout is not marked removed: it is handed out  *)
(* again, and its descriptor's entry, whosever it is now, is cleared.      *)
RemoveNode ==
    LET n == Head(events) IN
    /\ tpc = "remove"
    /\ tpc' = "handled"
    /\ IF n \in removed
       THEN UNCHANGED <<nodes, timed, results>>
       ELSE /\ nodes' = [nodes EXCEPT ![fd[n]] = NoNode]
            /\ timed' = timed \ {n}
            /\ \E state \in {"FINISHED", "ERROR"} : AddResult({n}, state)
    /\ UNCHANGED <<fd, removed, expired, pipe, events, hasPipe, spc, messages>>

(* The event of a node that was handed out after epoll reported it, when a *)
(* handler thread has freed the node: nothing is known from here on.  The  *)
(* steps above are the outcome when none has.                              *)
HandleStale ==
    /\ tpc = "event"
    /\ events # <<>> /\ Head(events) \in HandedOut
    /\ tpc' = "undefined"
    /\ UNCHANGED <<nodeVars, pipe, events, hasPipe, spc, messages, results>>

HandlePipeEvent ==
    /\ tpc = "event"
    /\ events # <<>> /\ Head(events) = Pipe
    /\ hasPipe' = TRUE
    /\ tpc' = "handled"
    /\ UNCHANGED <<nodeVars, pipe, events, spc, histVars>>

HandleTimerEvent ==
    /\ tpc = "event"
    /\ events # <<>> /\ Head(events) = Timer
    /\ tpc' = "handled"
    /\ UNCHANGED <<nodeVars, pipe, events, hasPipe, spc, histVars>>

(* __poller_handle_pipe, after this and every later event of the batch:    *)
(* the read blocks while the pipe is empty.  A NULL in the pipe ends the   *)
(* for loop over the batch; the while (1) around it goes on.               *)
AfterBreak == "wait"

(* Mutant of HandlePipe: only the first pointer read is used.              *)
HandlePipeFirst ==
    LET sent == {Head(pipe)} IN
    /\ tpc = "handled"
    /\ hasPipe
    /\ pipe # <<>>
    /\ pipe' = <<>>
    /\ AddResult(sent \cap Nodes, "DELETED")
    /\ IF Stop \in sent THEN tpc' = AfterBreak /\ events' = <<>>
       ELSE tpc' = "timeouts" /\ UNCHANGED events
    /\ UNCHANGED <<nodeVars, hasPipe, spc, messages>>

HandlePipe ==
    LET sent == {pipe[i] : i \in DOMAIN pipe} IN
    /\ tpc = "handled"
    /\ hasPipe
    /\ pipe # <<>>
    /\ pipe' = <<>>
    /\ AddResult(sent \cap Nodes, "DELETED")
    /\ IF Stop \in sent THEN tpc' = AfterBreak /\ events' = <<>>
       ELSE tpc' = "timeouts" /\ UNCHANGED events
    /\ UNCHANGED <<nodeVars, hasPipe, spc, messages>>

NoPipe ==
    /\ tpc = "handled"
    /\ ~hasPipe
    /\ tpc' = "timeouts"
    /\ UNCHANGED <<nodeVars, pipe, events, hasPipe, spc, histVars>>

(* Mutant of HandleTimeout: the timeouts are not looked at.                *)
HandleTimeoutNot ==
    /\ tpc = "timeouts"
    /\ events' = Tail(events)
    /\ tpc' = IF Len(events) = 1 THEN "wait" ELSE "event"
    /\ UNCHANGED <<nodeVars, pipe, hasPipe, spc, histVars>>

(* __poller_handle_timeout: the expired nodes leave under the mutex and    *)
(* clear their descriptors' entries; their results follow.  Then the next  *)
(* event.                                                                  *)
HandleTimeout ==
    LET out == expired \cap timed IN
    /\ tpc = "timeouts"
    /\ nodes' = [f \in Fds |-> IF \E n \in out : fd[n] = f THEN NoNode ELSE nodes[f]]
    /\ timed' = timed \ out
    /\ AddResult(out, "TIMEDOUT")
    /\ events' = Tail(events)
    /\ tpc' = IF Len(events) = 1 THEN "wait" ELSE "event"
    /\ UNCHANGED <<fd, removed, expired, pipe, hasPipe, spc, messages>>

-----------------------------------------------------------------------------
ThreadStep ==
    \/ Wait \/ HandleEAGAIN \/ HandleEnd \/ RemoveNode \/ HandleStale
    \/ HandlePipeEvent \/ HandleTimerEvent \/ HandlePipe \/ NoPipe \/ HandleTimeout

Next ==
    \/ ThreadStep \/ HandleMessage
    \/ SetStopping \/ StopWrites
    \/ \E n \in Nodes :
           \/ Expire(n)
           \/ \E f \in Fds, b \in BOOLEAN : Add(n, f, b)
    \/ \E f \in Fds : Del(f) \/ \E b \in BOOLEAN : SetTimeout(f, b)

Spec == Init /\ [][Next]_vars

(***************************************************************************)
(* The poller thread runs; epoll_wait returns when something is ready, and *)
(* a pipe or a timer that stays ready is in some later batch; a stop that  *)
(* was begun goes on.                                                      *)
(***************************************************************************)
Reported(e) == Wait /\ \E i \in DOMAIN events' : events'[i] = e

FairSpec ==
    /\ Spec
    /\ WF_vars(ThreadStep)
    /\ SF_vars(Reported(Pipe))
    /\ SF_vars(Reported(Timer))
    /\ WF_vars(StopWrites)

-----------------------------------------------------------------------------
(* The nodes, the pipe and the poller thread are in states the code can be *)
(* in.                                                                     *)
TypeOK ==
    /\ nodes \in [Fds -> Nodes \cup {NoNode}]
    /\ fd \in [Nodes -> Fds \cup {NoNode}]
    /\ timed \subseteq Nodes
    /\ removed \subseteq Nodes
    /\ expired \subseteq Nodes
    /\ pipe \in Seq(Nodes \cup {Stop})
    /\ tpc \in {"wait", "event", "remove", "handled", "timeouts", "undefined"}
    /\ events \in Seq(Nodes \cup {Pipe, Timer})
    /\ hasPipe \in BOOLEAN
    /\ spc \in {"up", "write", "join"}
    /\ messages \in [Nodes -> Nat]
    /\ results \in [Nodes -> Seq({"FINISHED", "ERROR", "DELETED", "TIMEDOUT"})]

(* Where a node is: how often handed out, in the pipe and active.          *)
Places(n) ==
    Len(results[n]) + Cardinality({i \in DOMAIN pipe : pipe[i] = n})
    + (IF n \in Active THEN 1 ELSE 0)

HandedOutTwice(n) ==
    results[n] \in {<<"TIMEDOUT", "FINISHED">>, <<"TIMEDOUT", "ERROR">>}

(***************************************************************************)
(* A node that was added is in exactly one place, active, on its way       *)
(* through the pipe or handed out by one final result, however its events, *)
(* its deletion and its timeout race, but for one race that poller.c       *)
(* loses: a batch of several events in which the node times out before its *)
(* own event is handled.  Then the event hands the node out a second time, *)
(* and may cost a node that was added on the same descriptor meanwhile its *)
(* place.  No node is handed out a third time, a deleted node never twice. *)
(***************************************************************************)
OneFinalResult ==
    \A n \in Nodes :
        /\ fd[n] = NoNode => Places(n) = 0
        /\ Places(n) > 1 =>
               Places(n) = 2 /\ HandedOutTwice(n) /\ n \notin removed /\ EventsMax > 1
        /\ fd[n] # NoNode /\ Places(n) = 0 =>
               \E m \in Nodes \ {n} : fd[m] = fd[n] /\ HandedOutTwice(m)

(***************************************************************************)
(* A deleted node is handed out in the end, whatever else is in the batch  *)
(* and however many other nodes share the pipe, unless the poller thread   *)
(* uses a node that a handler thread has freed.                            *)
(***************************************************************************)
DeletedHandedOut ==
    \A n \in Nodes : n \in removed ~> n \in HandedOut \/ tpc = "undefined"

(* The poller thread reads the pipe again after a later event of a batch   *)
(* that held the pipe event: it waits until another node is deleted.       *)
BlockedOnPipe == tpc = "handled" /\ hasPipe /\ pipe = <<>>

(***************************************************************************)
(* And so is a node whose timeout has passed, unless its timeout is set    *)
(* anew or it is deleted first, or the poller thread blocks in the pipe.   *)
(***************************************************************************)
ExpiredHandedOut ==
    \A n \in Nodes :
        n \in timed \cap expired ~>
            \/ n \in HandedOut \/ n \notin timed \cap expired
            \/ tpc = "undefined" \/ BlockedOnPipe

(***************************************************************************)
(* poller_stop's pthread_join, which waits for the poller thread to end,   *)
(* returns.                                                                *)
(***************************************************************************)
StopReturns == spc = "join" ~> tpc = "ended"
=============================================================================
