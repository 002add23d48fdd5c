---------------------------- MODULE Communicator ----------------------------
(***************************************************************************)
(* kernel/Communicator.cc: client sessions on the connections of a target. *)
(* A request reuses an idle connection or launches one; the poller thread  *)
(* reads replies (create_message, append) and reports what happens on a    *)
(* connection as results; handler threads take the results in order and    *)
(* end the sessions (handle_connect_result, handle_incoming_reply).  A     *)
(* connection entry is reference-counted, because the result that ends a   *)
(* session and the one that ends the connection may be handled by two      *)
(* threads at once.                                                        *)
(*                                                                         *)
(* The poller is reduced to what Poller shows of it: one event of one      *)
(* connection at a time, one final result per node, a deletion reported    *)
(* later by the poller thread itself.  (The second result of a node that   *)
(* times out in the batch of its own event, see Poller, is left out: it    *)
(* would be of an entry that may be freed.)  The result queue is           *)
(* PollerQueue's FIFO.  A step is what is done under target->mutex, under  *)
(* entry->mutex, or between two uses of a lock.                            *)
(***************************************************************************)
EXTENDS Naturals, Sequences, FiniteSets

CONSTANTS
    Sessions,   \* CommSession objects, each requested once
    Entries,    \* CommConnEntry objects that launch_conn may allocate
    Clients,    \* threads that make requests
    Handlers,   \* handler threads
    KeepAlive,  \* the values of keep_alive_timeout(): 0, or not 0
    Writes,     \* how a send may end: "all", "error", "partial"
    NoSession, NoEntry, NoOne

ASSUME CommunicatorAssumption ==
    /\ IsFiniteSet(Sessions) /\ IsFiniteSet(Entries) /\ IsFiniteSet(Handlers)
    /\ KeepAlive \subseteq {0, 1}
    /\ Writes \subseteq {"all", "error", "partial"}
    /\ NoSession \notin Sessions /\ NoEntry \notin Entries
    /\ Clients \cap Handlers = {} /\ NoOne \notin Clients \cup Handlers

Callers == Clients \cup Handlers

VARIABLES
    state,      \* entry->state
    ref,        \* entry->ref
    session,    \* entry->session
    mutex,      \* who holds entry->mutex across two steps
    idle,       \* target->idle_list
    timeout,    \* session->timeout once it holds the keep-alive timeout
    node,       \* the poller's node of each entry's fd
    written,    \* a request has been written whose reply was not read yet
    message,    \* node->data.message: a reply is being read
    ppc, pentry, psolicited,    \* the poller thread: where, on which entry,
                                \* and whether the bytes answer a request
    queue,      \* the result queue
    hpc, hres, hsession,        \* each handler: where, its result, session
    cpc, csession, centry,      \* each caller of request: where, its locals
    stopFlag,   \* stop_flag
    accepted,   \* history: sessions whose request returned 0
    handled,    \* history: how often handle() was called for each session
    closed,     \* history: how often release_conn was called for each entry
    stuck,      \* history: sessions whose message was partly written
    anomalies   \* history: which of the anomalies below have happened

entryVars == <<state, ref, session, mutex, idle, timeout>>
pollVars == <<node, written, message, ppc, pentry, psolicited>>
handVars == <<hpc, hres, hsession>>
callVars == <<cpc, csession, centry>>
histVars == <<accepted, handled, closed, stuck, anomalies>>
vars == <<entryVars, pollVars, queue, handVars, callVars, stopFlag, histVars>>

Result(e, op, st) == [entry |-> e, op |-> op, state |-> st]
NoResult == Result(NoEntry, "NONE", "NONE")
Results == [entry : Entries, op : {"CONNECT", "READ"},
            state : {"FINISHED", "ERROR", "DELETED", "SUCCESS"}]

Init ==
    /\ state = [e \in Entries |-> "NEW"]
    /\ ref = [e \in Entries |-> 0]
    /\ session = [e \in Entries |-> NoSession]
    /\ mutex = [e \in Entries |-> NoOne]
    /\ idle = <<>>
    /\ timeout = [s \in Sessions |-> 0]
    /\ node = [e \in Entries |-> "none"]
    /\ written = [e \in Entries |-> FALSE]
    /\ message = [e \in Entries |-> FALSE]
    /\ ppc = "wait" /\ pentry = NoEntry /\ psolicited = FALSE
    /\ queue = <<>>
    /\ hpc = [h \in Handlers |-> "get"]
    /\ hres = [h \in Handlers |-> NoResult]
    /\ hsession = [h \in Handlers |-> NoSession]
    /\ cpc = [c \in Callers |-> "idle"]
    /\ csession = [c \in Callers |-> NoSession]
    /\ centry = [c \in Callers |-> NoEntry]
    /\ stopFlag = FALSE
    /\ accepted = {}
    /\ handled = [s \in Sessions |-> 0]
    /\ closed = [e \in Entries |-> 0]
    /\ stuck = {}
    /\ anomalies = {}

(* Mutant of Without: list_del is forgotten.                               *)
WithoutNothing(seq, e) == seq

(* list_del: the list without the entry e, if it is on it.                 *)
Without(seq, e) ==
    IF \E i \in DOMAIN seq : seq[i] = e
    THEN LET n == CHOOSE i \in DOMAIN seq : seq[i] = e
         IN  [i \in 1 .. Len(seq) - 1 |-> IF i < n THEN seq[i] ELSE seq[i + 1]]
    ELSE seq
OnIdleList(e) == \E i \in DOMAIN idle : idle[i] = e
Anomaly(name, happened) ==
    anomalies' = IF happened THEN anomalies \cup {name} ELSE anomalies

-----------------------------------------------------------------------------
(* Communicator::request, called by a client or, from inside handle(), by  *)
(* a handler thread.                                                       *)

MayRequest(c) ==
    /\ cpc[c] = "idle"
    /\ c \in Handlers => hpc[c] = "callback"

(* get_idle_conn skips a connection whose node has left the poller: its    *)
(* final result is on the way.                                             *)
Reusable == {i \in DOMAIN idle : node[idle[i]] = "read"}
FirstReusable == CHOOSE i \in Reusable : \A j \in Reusable : i <= j

(* Under target->mutex, which is held until entry->mutex is taken.         *)
RequestIdle(c, s) ==
    LET e == idle[FirstReusable] IN
    /\ MayRequest(c)
    /\ s \notin accepted
    /\ Reusable # {}
    /\ mutex[e] = NoOne
    /\ idle' = Without(idle, e)
    /\ mutex' = [mutex EXCEPT ![e] = c]
    /\ session' = [session EXCEPT ![e] = s]
    /\ accepted' = accepted \cup {s}
    /\ cpc' = [cpc EXCEPT ![c] = "write"]
    /\ csession' = [csession EXCEPT ![c] = s]
    /\ centry' = [centry EXCEPT ![c] = e]
    /\ UNCHANGED <<state, ref, timeout, pollVars, queue, handVars, stopFlag,
                   handled, closed, stuck, anomalies>>

(* writev: from here on the server may answer, although the entry is not   *)
(* yet in state RECEIVING.                                                 *)
RequestWrites(c, how) ==
    LET e == centry[c] IN
    /\ cpc[c] = "write"
    /\ written' = IF how = "all" THEN [written EXCEPT ![e] = TRUE] ELSE written
    /\ cpc' = [cpc EXCEPT ![c] = how]
    /\ UNCHANGED <<entryVars, node, message, ppc, pentry, psolicited, queue,
                   handVars, csession, centry, stopFlag, histVars>>

Unlocked(c) ==
    /\ mutex' = [mutex EXCEPT ![centry[c]] = NoOne]
    /\ cpc' = [cpc EXCEPT ![c] = "idle"]
    /\ csession' = [csession EXCEPT ![c] = NoSession]
    /\ centry' = [centry EXCEPT ![c] = NoEntry]

(* All written: the receive timeout is set and the entry is RECEIVING.     *)
RequestSent(c) ==
    /\ cpc[c] = "all"
    /\ state' = [state EXCEPT ![centry[c]] = "RECEIVING"]
    /\ Unlocked(c)
    /\ UNCHANGED <<ref, session, idle, timeout, pollVars, queue, handVars,
                   stopFlag, histVars>>

(* The send fails: mpoller_del, state ERROR; the result does the rest.     *)
RequestSendFails(c) ==
    LET e == centry[c] IN
    /\ cpc[c] = "error"
    /\ node' = [node EXCEPT ![e] = IF @ = "read" THEN "deleted" ELSE @]
    /\ state' = [state EXCEPT ![e] = "ERROR"]
    /\ Unlocked(c)
    /\ UNCHANGED <<ref, session, idle, timeout, written, message, ppc, pentry,
                   psolicited, queue, handVars, stopFlag, histVars>>

(* Partly written: request returns as if all was well.                     *)
RequestPartlySent(c) ==
    /\ cpc[c] = "partial"
    /\ stuck' = stuck \cup {csession[c]}
    /\ Unlocked(c)
    /\ UNCHANGED <<state, ref, session, idle, timeout, pollVars, queue, handVars,
                   stopFlag, accepted, handled, closed, anomalies>>

(* No idle connection: launch_conn and mpoller_add.                        *)
RequestConnects(c, s, e) ==
    /\ MayRequest(c)
    /\ s \notin accepted
    /\ Reusable = {}
    /\ state[e] = "NEW"
    /\ state' = [state EXCEPT ![e] = "CONNECTING"]
    /\ ref' = [ref EXCEPT ![e] = 1]
    /\ session' = [session EXCEPT ![e] = s]
    /\ node' = [node EXCEPT ![e] = "connect"]
    /\ accepted' = accepted \cup {s}
    /\ UNCHANGED <<mutex, idle, timeout, written, message, ppc, pentry, psolicited,
                   queue, handVars, callVars, stopFlag, handled, closed, stuck,
                   anomalies>>

-----------------------------------------------------------------------------
(* The poller thread.                                                      *)

(* Connected, refused or timed out.                                        *)
PollConnect(e) ==
    /\ ppc = "wait"
    /\ node[e] = "connect"
    /\ node' = [node EXCEPT ![e] = "none"]
    /\ \E st \in {"FINISHED", "ERROR"} : queue' = Append(queue, Result(e, "CONNECT", st))
    /\ UNCHANGED <<entryVars, written, message, ppc, pentry, psolicited, handVars,
                   callVars, stopFlag, histVars>>

(* End of file, an error or a timeout on a reading node.                   *)
PollEnd(e) ==
    /\ ppc = "wait"
    /\ node[e] = "read"
    /\ node' = [node EXCEPT ![e] = "none"]
    /\ \E st \in {"FINISHED", "ERROR"} : queue' = Append(queue, Result(e, "READ", st))
    /\ UNCHANGED <<entryVars, written, message, ppc, pentry, psolicited, handVars,
                   callVars, stopFlag, histVars>>

(* The pipe brings a deleted node back to the poller thread.               *)
PollDeleted(e) ==
    /\ ppc = "wait"
    /\ node[e] = "deleted"
    /\ node' = [node EXCEPT ![e] = "none"]
    /\ queue' = Append(queue, Result(e, "READ", "DELETED"))
    /\ UNCHANGED <<entryVars, written, message, ppc, pentry, psolicited, handVars,
                   callVars, stopFlag, histVars>>

(* Bytes arrive: the reply to a request, or bytes nobody asked for.        *)
(* create_message reads the state a first time.                            *)
PollRead(e) ==
    /\ ppc = "wait"
    /\ node[e] = "read"
    /\ \/ psolicited' = TRUE /\ written[e]
       \/ psolicited' = FALSE /\ ~message[e]
    /\ pentry' = e
    /\ ppc' = IF message[e] THEN "append"
              ELSE IF state[e] = "IDLE" THEN "barrier" ELSE "check"
    /\ UNCHANGED <<entryVars, node, written, message, queue, handVars, callVars,
                   stopFlag, histVars>>

(* Mutant of Barrier: without the empty critical section.                  *)
BarrierOpen ==
    /\ ppc = "barrier"
    /\ ppc' = "check"
    /\ UNCHANGED <<entryVars, node, written, message, pentry, psolicited, queue,
                   handVars, callVars, stopFlag, histVars>>

(* Lock and unlock entry->mutex: wait until a request under way has set    *)
(* the state.                                                              *)
Barrier ==
    /\ ppc = "barrier"
    /\ mutex[pentry] = NoOne
    /\ ppc' = "check"
    /\ UNCHANGED <<entryVars, node, written, message, pentry, psolicited, queue,
                   handVars, callVars, stopFlag, histVars>>

PollDone == ppc' = "wait" /\ pentry' = NoEntry /\ psolicited' = FALSE

(* The node's final result, unless the node was deleted meanwhile.         *)
Fail(e) ==
    IF node[e] = "read"
    THEN /\ node' = [node EXCEPT ![e] = "none"]
         /\ queue' = Append(queue, Result(e, "READ", "ERROR"))
    ELSE UNCHANGED <<node, queue>>

(* The second look at the state: EBADMSG unless RECEIVING.                 *)
CreateMessage ==
    /\ ppc = "check"
    /\ IF state[pentry] = "RECEIVING"
       THEN /\ message' = [message EXCEPT ![pentry] = TRUE]
            /\ ppc' = "append"
            /\ UNCHANGED <<node, queue, pentry, psolicited, anomalies>>
       ELSE /\ Fail(pentry)
            /\ Anomaly("reply rejected", psolicited)
            /\ PollDone
            /\ UNCHANGED message
    /\ UNCHANGED <<entryVars, written, handVars, callVars, stopFlag, accepted,
                   handled, closed, stuck>>

(* append: the message is complete (ret > 0).  Without keep-alive the node *)
(* is deleted, else it gets the keep-alive timeout; then the result.       *)
AppendCompletes(k) ==
    LET e == pentry
        s == session[e]
    IN
    /\ ppc = "append"
    /\ state' = [state EXCEPT ![e] = "SUCCESS"]
    /\ timeout' = [timeout EXCEPT ![s] = k]
    /\ node' = [node EXCEPT ![e] = IF k = 0 /\ @ = "read" THEN "deleted" ELSE @]
    /\ Anomaly("set_timeout failed", k # 0 /\ node[e] # "read")
    /\ queue' = Append(queue, Result(e, "READ", "SUCCESS"))
    /\ message' = [message EXCEPT ![e] = FALSE]
    /\ written' = [written EXCEPT ![e] = FALSE]
    /\ PollDone
    /\ UNCHANGED <<ref, session, mutex, idle, handVars, callVars, stopFlag,
                   accepted, handled, closed, stuck>>

(* append: more bytes are needed (ret = 0); unless the running timer is    *)
(* the last one, which first_timeout and next_timeout decide, it is set    *)
(* anew.                                                                   *)
AppendContinues(timerLast) ==
    /\ ppc = "append"
    /\ Anomaly("set_timeout failed", ~timerLast /\ node[pentry] # "read")
    /\ PollDone
    /\ UNCHANGED <<entryVars, node, written, message, queue, handVars, callVars,
                   stopFlag, accepted, handled, closed, stuck>>

(* append: a malformed reply (ret < 0).                                    *)
AppendFails ==
    /\ ppc = "append"
    /\ Fail(pentry)
    /\ PollDone
    /\ UNCHANGED <<entryVars, written, message, handVars, callVars, stopFlag,
                   histVars>>

-----------------------------------------------------------------------------
(* handler_thread_routine.                                                 *)

Get(h) ==
    /\ hpc[h] = "get"
    /\ queue # <<>>
    /\ hres' = [hres EXCEPT ![h] = Head(queue)]
    /\ queue' = Tail(queue)
    /\ hpc' = [hpc EXCEPT ![h] =
                  CASE Head(queue).op = "CONNECT" /\ Head(queue).state = "FINISHED" -> "send"
                    [] Head(queue).op = "CONNECT" /\ Head(queue).state # "FINISHED" -> "abort"
                    [] Head(queue).op = "READ" /\ Head(queue).state = "SUCCESS" -> "reply"
                    [] OTHER -> "final"]
    /\ UNCHANGED <<entryVars, pollVars, hsession, callVars, stopFlag, histVars>>

(* handle_connect_result: send_message on the new connection.  A partial   *)
(* write leaves the entry as it is, in no poller and with no result to     *)
(* come.                                                                   *)
SendFirst(h, how) ==
    LET e == hres[h].entry IN
    /\ hpc[h] = "send"
    /\ written' = IF how = "all" THEN [written EXCEPT ![e] = TRUE] ELSE written
    /\ state' = IF how = "all" THEN [state EXCEPT ![e] = "RECEIVING"] ELSE state
    /\ stuck' = IF how = "partial" THEN stuck \cup {session[e]} ELSE stuck
    /\ hpc' = [hpc EXCEPT ![h] = CASE how = "all"     -> "add"
                                   [] how = "error"   -> "abort"
                                   [] how = "partial" -> "get"]
    /\ hres' = IF how = "partial" THEN [hres EXCEPT ![h] = NoResult] ELSE hres
    /\ UNCHANGED <<ref, session, mutex, idle, timeout, node, message, ppc, pentry,
                   psolicited, queue, hsession, callVars, stopFlag, accepted,
                   handled, closed, anomalies>>

(* mpoller_add for reading, which may fail.                                *)
AddRead(h) ==
    LET e == hres[h].entry IN
    /\ hpc[h] = "add"
    /\ \/ /\ node' = [node EXCEPT ![e] = "read"]
          /\ hpc' = [hpc EXCEPT ![h] = "stop?"]
       \/ /\ hpc' = [hpc EXCEPT ![h] = "abort"]
          /\ UNCHANGED node
    /\ UNCHANGED <<entryVars, written, message, ppc, pentry, psolicited, queue,
                   hres, hsession, callVars, stopFlag, histVars>>

(* If deinit has begun the node may have been added too late to be seen.   *)
DelIfStopping(h) ==
    LET e == hres[h].entry IN
    /\ hpc[h] = "stop?"
    /\ node' = IF stopFlag /\ node[e] = "read"
               THEN [node EXCEPT ![e] = "deleted"] ELSE node
    /\ hpc' = [hpc EXCEPT ![h] = "get"]
    /\ hres' = [hres EXCEPT ![h] = NoResult]
    /\ UNCHANGED <<entryVars, written, message, ppc, pentry, psolicited, queue,
                   hsession, callVars, stopFlag, histVars>>

(* target->release(), handle(), release_conn().                            *)
Abort(h) ==
    LET e == hres[h].entry IN
    /\ hpc[h] = "abort"
    /\ handled' = [handled EXCEPT ![session[e]] = @ + 1]
    /\ hsession' = [hsession EXCEPT ![h] = session[e]]
    /\ hpc' = [hpc EXCEPT ![h] = "callback"]
    /\ UNCHANGED <<entryVars, pollVars, queue, hres, callVars, stopFlag, accepted,
                   closed, stuck, anomalies>>

(* Mutant of RefAfterReply: the entry is not kept for its last result.     *)
RefNever(e) == ref

(* A reply whose connection has not ended yet keeps the entry for the      *)
(* result that will end it.                                                *)
RefAfterReply(e) == IF state[e] = "SUCCESS" THEN [ref EXCEPT ![e] = @ + 1] ELSE ref

(* session->timeout is the keep-alive timeout now.                         *)
Kept(e) == IF timeout[session[e]] # 0 THEN "IDLE" ELSE "CLOSING"

(* handle_incoming_reply, PR_ST_SUCCESS, under target->mutex.              *)
Reply(h) ==
    LET e == hres[h].entry IN
    /\ hpc[h] = "reply"
    /\ hsession' = [hsession EXCEPT ![h] = session[e]]
    /\ ref' = RefAfterReply(e)
    /\ state' = IF state[e] = "SUCCESS" THEN [state EXCEPT ![e] = Kept(e)] ELSE state
    /\ idle' = IF state[e] = "SUCCESS" /\ timeout[session[e]] # 0
               THEN <<e>> \o idle ELSE idle
    /\ hpc' = [hpc EXCEPT ![h] = "end"]
    /\ UNCHANGED <<session, mutex, timeout, pollVars, queue, hres, callVars,
                   stopFlag, histVars>>

(* Mutant of SessionToEnd: whatever the state.                             *)
SessionToEndAlways(e) == session[e]

(* Mutant of SessionToEnd: CONN_STATE_RECEIVING is forgotten.              *)
SessionToEndOnError(e) == IF state[e] = "ERROR" THEN session[e] ELSE NoSession

(* The session that ends with its connection.                              *)
SessionToEnd(e) ==
    IF state[e] \in {"ERROR", "RECEIVING"} THEN session[e] ELSE NoSession

(* Any other result, under target->mutex and entry->mutex.                 *)
Final(h) ==
    LET e == hres[h].entry IN
    /\ hpc[h] = "final"
    /\ mutex[e] = NoOne
    /\ idle' = IF state[e] = "IDLE" THEN Without(idle, e) ELSE idle
    /\ hsession' = [hsession EXCEPT ![h] = SessionToEnd(e)]
    /\ IF state[e] = "SUCCESS"
       THEN /\ state' = [state EXCEPT ![e] = "CLOSING"]
            /\ hpc' = [hpc EXCEPT ![h] = "get"]
            /\ hres' = [hres EXCEPT ![h] = NoResult]
            /\ UNCHANGED anomalies
       ELSE /\ hpc' = [hpc EXCEPT ![h] = "end"]
            /\ Anomaly("list_del twice", state[e] = "IDLE" /\ ~OnIdleList(e))
            /\ UNCHANGED <<state, hres>>
    /\ UNCHANGED <<ref, session, mutex, timeout, pollVars, queue, callVars,
                   stopFlag, accepted, handled, closed, stuck>>

(* target->release() and handle(), if a session ends.                      *)
EndSession(h) ==
    LET s == hsession[h] IN
    /\ hpc[h] = "end"
    /\ handled' = IF s = NoSession THEN handled ELSE [handled EXCEPT ![s] = @ + 1]
    /\ hpc' = [hpc EXCEPT ![h] = "callback"]
    /\ UNCHANGED <<entryVars, pollVars, queue, hres, hsession, callVars, stopFlag,
                   accepted, closed, stuck, anomalies>>

(* --ref, and release_conn at 0 (at once after a failed connect).          *)
Unref(h) ==
    LET e == hres[h].entry IN
    /\ hpc[h] = "callback"
    /\ cpc[h] = "idle"
    /\ ref' = [ref EXCEPT ![e] = @ - 1]
    /\ closed' = IF ref[e] = 1 \/ hres[h].op = "CONNECT"
                 THEN [closed EXCEPT ![e] = @ + 1] ELSE closed
    /\ hpc' = [hpc EXCEPT ![h] = "get"]
    /\ hres' = [hres EXCEPT ![h] = NoResult]
    /\ hsession' = [hsession EXCEPT ![h] = NoSession]
    /\ UNCHANGED <<state, session, mutex, idle, timeout, pollVars, queue, callVars,
                   stopFlag, accepted, handled, stuck, anomalies>>

(* Communicator::deinit sets the flag (and then stops the pollers).        *)
Deinit ==
    /\ ~stopFlag
    /\ stopFlag' = TRUE
    /\ UNCHANGED <<entryVars, pollVars, queue, handVars, callVars, histVars>>

-----------------------------------------------------------------------------
CallerStep(c) ==
    \/ \E how \in Writes : RequestWrites(c, how)
    \/ RequestSent(c) \/ RequestSendFails(c) \/ RequestPartlySent(c)

HandlerStep(h) ==
    \/ Get(h) \/ AddRead(h) \/ DelIfStopping(h) \/ Abort(h) \/ Reply(h)
    \/ Final(h) \/ EndSession(h) \/ Unref(h)
    \/ \E how \in Writes : SendFirst(h, how)

PollerStep ==
    \/ Barrier \/ CreateMessage \/ AppendFails
    \/ \E timerLast \in BOOLEAN : AppendContinues(timerLast)
    \/ \E k \in KeepAlive : AppendCompletes(k)

PollerEvent(e) == PollConnect(e) \/ PollEnd(e) \/ PollDeleted(e)

Next ==
    \/ \E c \in Callers :
           \/ CallerStep(c)
           \/ \E s \in Sessions :
                  RequestIdle(c, s) \/ \E e \in Entries : RequestConnects(c, s, e)
    \/ \E h \in Handlers : HandlerStep(h)
    \/ PollerStep
    \/ \E e \in Entries : PollerEvent(e) \/ PollRead(e)
    \/ Deinit

Spec == Init /\ [][Next]_vars

(***************************************************************************)
(* Threads that can run do run, and a deleted node comes back through the  *)
(* pipe (Poller's DeletedHandedOut; strong fairness, because the one       *)
(* poller thread serves other connections in between).  Nothing else is    *)
(* assumed of a connection in the poller: the server need not answer or    *)
(* close it, its timeouts may be unlimited, and the poller thread may be   *)
(* blocked in the pipe (Poller's BlockedOnPipe).                           *)
(***************************************************************************)
FairSpec ==
    /\ Spec
    /\ \A c \in Callers : WF_vars(CallerStep(c))
    /\ \A h \in Handlers : WF_vars(HandlerStep(h))
    /\ WF_vars(PollerStep)
    /\ \A e \in Entries : SF_vars(PollDeleted(e))

-----------------------------------------------------------------------------
(* Entries, results and threads are in states the code can be in; no count *)
(* underflows.                                                             *)
TypeOK ==
    /\ state \in [Entries -> {"NEW", "CONNECTING", "RECEIVING", "SUCCESS", "IDLE",
                              "CLOSING", "ERROR"}]
    /\ ref \in [Entries -> Nat]
    /\ session \in [Entries -> Sessions \cup {NoSession}]
    /\ mutex \in [Entries -> Callers \cup {NoOne}]
    /\ idle \in Seq(Entries)
    /\ timeout \in [Sessions -> KeepAlive \cup {0}]
    /\ node \in [Entries -> {"none", "connect", "read", "deleted"}]
    /\ written \in [Entries -> BOOLEAN]
    /\ message \in [Entries -> BOOLEAN]
    /\ ppc \in {"wait", "barrier", "check", "append"}
    /\ pentry \in Entries \cup {NoEntry}
    /\ psolicited \in BOOLEAN
    /\ queue \in Seq(Results)
    /\ hpc \in [Handlers -> {"get", "send", "add", "stop?", "abort", "reply",
                             "final", "end", "callback"}]
    /\ hres \in [Handlers -> Results \cup {NoResult}]
    /\ hsession \in [Handlers -> Sessions \cup {NoSession}]
    /\ cpc \in [Callers -> {"idle", "write", "all", "error", "partial"}]
    /\ csession \in [Callers -> Sessions \cup {NoSession}]
    /\ centry \in [Callers -> Entries \cup {NoEntry}]
    /\ accepted \subseteq Sessions
    /\ handled \in [Sessions -> Nat]
    /\ closed \in [Entries -> Nat]
    /\ stuck \subseteq accepted

(***************************************************************************)
(* handle() is called at most once for a session (and the target's slot    *)
(* released at most once), whichever results of its connection are handled *)
(* at the same time.                                                       *)
(***************************************************************************)
HandledAtMostOnce == \A s \in Sessions : handled[s] <= 1

(***************************************************************************)
(* Somebody will still touch the entry: a result is queued or being        *)
(* handled for it, it is idle, the poller knows it, or a request is using  *)
(* it.  (A handler at "stop?" is past the entry: it holds the descriptor   *)
(* only.)                                                                  *)
(***************************************************************************)
Used(e) ==
    \/ \E i \in DOMAIN queue : queue[i].entry = e
    \/ \E h \in Handlers : hpc[h] # "stop?" /\ hres[h].entry = e
    \/ \E c \in Callers : centry[c] = e
    \/ OnIdleList(e)
    \/ node[e] # "none"
    \/ pentry = e

(***************************************************************************)
(* A connection entry is freed once, and only when nobody will touch it    *)
(* again, although two handlers and a request may drop and take references *)
(* to it at the same time.  And it is not leaked: an entry that nobody     *)
(* uses any more is closed, unless the message it was to send was partly   *)
(* written.                                                                *)
(***************************************************************************)
FreedWhenUnused ==
    \A e \in Entries :
        /\ closed[e] <= 1
        /\ closed[e] = 1 => ~Used(e)
        /\ Used(e) \/ state[e] = "NEW" \/ closed[e] = 1 \/ session[e] \in stuck

(***************************************************************************)
(* The idle list holds exactly the connections in state IDLE that no       *)
(* request has taken, each once; list_del is never applied to an entry     *)
(* that is not on it, as long as no message was partly written.            *)
(***************************************************************************)
IdleListSound ==
    /\ \A i, j \in DOMAIN idle : i # j => idle[i] # idle[j]
    /\ \A e \in Entries : OnIdleList(e) => state[e] = "IDLE" /\ mutex[e] = NoOne
    /\ "list_del twice" \in anomalies => stuck # {}

(***************************************************************************)
(* A reply to a request sent on an idle connection is never refused as     *)
(* unexpected, even when it arrives before request has set the state: the  *)
(* empty critical section of create_message waits for it.  And append,     *)
(* which counts on it, finds its connection in the poller when it sets the *)
(* timer, until deinit has set stop_flag.                                  *)
(***************************************************************************)
ReplyUndisturbed ==
    /\ "reply rejected" \notin anomalies
    /\ "set_timeout failed" \in anomalies => stopFlag

(* The session's connection is in the poller, and was not deleted.         *)
StaysPolled(s) == \E e \in Entries : session[e] = s /\ node[e] \in {"connect", "read"}

(***************************************************************************)
(* A session whose request was accepted is not forgotten between the       *)
(* poller and the handler threads: it is handled, unless its connection    *)
(* stays in the poller for ever, where nothing happens on it, or its       *)
(* message was only partly written.                                        *)
(***************************************************************************)
SessionsHandled ==
    \A s \in Sessions :
        s \in accepted ~> (handled[s] = 1 \/ s \in stuck \/ []StaysPolled(s))
=============================================================================
